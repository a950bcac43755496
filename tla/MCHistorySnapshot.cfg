SPECIFICATION HistorySpec
CONSTANTS
    Kinds = {a, b}
    Any = Any
    SessionKinds = {b}
    PageSize = 1
    MaxPage = 2
    MaxRuns = 2
    MaxDeleted = 1
    MaxLoads = 3
    NoData = NoData
CHECK_DEADLOCK FALSE
PROPERTY OneSnapshot
