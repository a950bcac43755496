SPECIFICATION TrackerFairSpec
CONSTANTS
    Threshold = 2
    BaseCooldown = 2
    MaxCooldown = 3
    Factor = 2
    Pairs = {p1, p2}
    Calls = {c1, c2, c3}
    Resets = {r1}
    NoEvent = NoEvent
INVARIANTS CircuitConsistent OpenIffRecentFailures EventsConserved
PROPERTIES TrialEventuallyAllowed
CHECK_DEADLOCK FALSE
