SPECIFICATION FairSpec
CONSTANTS
    Controllers = {c1}
    MaxClaims = 4
    MaxEpoch = 2
    MaxStops = 3
    MaxFaults = 1
PROPERTIES DestroyCompletes
CHECK_DEADLOCK FALSE
