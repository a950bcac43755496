SPECIFICATION Spec
CONSTANTS
    Tasks = {t1}
    Requests = {r1, r2, r3, r4, r5}
    Window = 2
    MaxRequests = 2
    MaxTokens = 4
    MaxInputTokens = 1
    Estimates = {1,2}
    Usages = {0,3}
    Horizon = 3
    None = None
SYMMETRY RequestSymmetry
INVARIANTS TokensAddUp RetryHintSuffices BurstBounded
CHECK_DEADLOCK FALSE
