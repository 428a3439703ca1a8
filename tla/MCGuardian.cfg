SPECIFICATION Spec
CONSTANTS
    Callers = {c1, c2}
    GuestBoots = {1, 2}
    StartExpires = 2
    IdentityUntil = 5
    MaxLease = 3
    MaxNow = 2
    MaxSkew = 1
    MaxRevision = 1
    MaxFaults = 2
INVARIANTS StoppedMeansGone ReceiptIsAhead
PROPERTIES DeadlineNeverRevives BoundGuestStable ImplementsRuntime
CHECK_DEADLOCK FALSE
