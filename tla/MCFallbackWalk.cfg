SPECIFICATION FairSpec
CONSTANTS
    Threshold = 1
    BaseCooldown = 1
    MaxCooldown = 2
    Factor = 2
    m1 = m1
    m2 = m2
    Models = {m1, m2}
    Requests = {r1, r2}
    Chains <- RevisitingChain
    MaxTries = 2
    NoResult = NoResult
INVARIANTS HealthMatchesTraces TraceIsWalk DegradedContract
PROPERTY EveryWalkReturns
CHECK_DEADLOCK FALSE
