SPECIFICATION FairSpec
CONSTANTS
    Controllers = {p1, p2}
    Cleaners = {k1}
    Chunks = 1
    Versioned = TRUE
    MaxClaims = 2
    MaxFaults = 1
INVARIANTS OutcomeIsReal StagingIsKept RetiredStaysRetired
PROPERTIES FrozenIsQuiet UploadSettles
CHECK_DEADLOCK FALSE
