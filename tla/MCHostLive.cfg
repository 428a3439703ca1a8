SPECIFICATION FairSpec
CONSTANTS
    Allocs = {a1}
    Threads = {t1, t2}
    None = None
    Requests = {"create", "stop"}
    Capacity = 1
    MaxRev = 1
    MaxEpoch = 2
    MaxFaults = 1
PROPERTIES FencedIsReleased
CHECK_DEADLOCK FALSE
