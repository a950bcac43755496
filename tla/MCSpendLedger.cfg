SPECIFICATION FairSpec
CONSTANTS
    Rows = {r1, r2, r3}
    Predicts = {r1, r2}
    BufSize = 1
    NoRow = NoRow
    Slots = 2
    Budget = 1
    Costs = {1}
    TTL = 1
    LastDay = 1
    LastBoot = 1
    NoView = NoView
INVARIANTS RowsConserved GracefulLosesNothing ViewMissesOnlyQueued DoubleCountBounded
PROPERTY ShutdownCompletes
CHECK_DEADLOCK FALSE
