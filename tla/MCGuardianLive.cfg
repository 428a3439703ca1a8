SPECIFICATION FairSpec
CONSTANTS
    Callers = {c1, c2}
    GuestBoots = {1}
    StartExpires = 2
    IdentityUntil = 4
    MaxLease = 3
    MaxNow = 3
    MaxSkew = 0
    MaxRevision = 1
    MaxFaults = 1
PROPERTY MachinesEnd
CHECK_DEADLOCK FALSE
