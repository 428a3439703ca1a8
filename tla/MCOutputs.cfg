SPECIFICATION Spec
CONSTANTS
    Archivers = {a1, a2}
    Workers = {w1, w2}
    Cleaners = {k1}
    None = None
    Digests = {d1, d2}
    Retention = 2
    Grace = 1
    Policies = {1}
    Versioned = TRUE
    MaxClaims = 2
    MaxFaults = 1
SYMMETRY Symmetry
INVARIANTS PublishedIsReadable CleanedStaysClean UploadMatchesPlan
PROPERTY ExpiredIsFinal
CHECK_DEADLOCK FALSE
