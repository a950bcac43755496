SPECIFICATION MCSpec
CONSTANTS
    Circuits = {c1, c2}
    All = All
    MaxPolls = 2
    MaxChanges = 2
    MaxClicks = 2
    Images = {i1, i2}
    Multi = TRUE
    MaxImages = 2
    Offers = {t1}
    Nothing = Nothing
    MaxFetches = 1
    MaxPresses = 2
    MaxMoves = 2
CHECK_DEADLOCK FALSE
INVARIANTS EventsAreAsked LockMeansReset ImagesKept TraceOfOutcome LastRunIsShown
PROPERTY HealthCatchesUp
