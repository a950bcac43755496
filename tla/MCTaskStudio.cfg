SPECIFICATION MCSpec
CONSTANTS
    Ids = {t1, t2}
    Playground = t1
    v1 = v1
    v2 = v2
    loose = loose
    Values = {v1, v2}
    Texts <- MCTexts
    Meant <- MCMeant
    Initial = v1
    MaxRequests = 2
    MaxMoves = 3
    Absent = Absent
    NoId = NoId
    Bad = Bad
CHECK_DEADLOCK FALSE
INVARIANTS Current UneditedIsClean
PROPERTY LocksEnd
