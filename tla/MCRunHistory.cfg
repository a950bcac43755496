SPECIFICATION HistorySpec
CONSTANTS
    Kinds = {a, b}
    Any = Any
    SessionKinds = {b}
    PageSize = 1
    MaxPage = 2
    MaxRuns = 3
    MaxDeleted = 2
    MaxLoads = 2
    NoData = NoData
CHECK_DEADLOCK FALSE
INVARIANTS SnapshotHolds ShownIsAsked
