SPECIFICATION FairSpec
CONSTANTS
    Workers = {w1, w2}
    MaxClaims = 2
    MaxForgets = 1
    MaxEpoch = 2
    MaxFaults = 1
INVARIANTS CompletionsAreReal Restartable
PROPERTIES FencedStaysDown EventuallyForgotten
CHECK_DEADLOCK FALSE
