SPECIFICATION Spec
CONSTANTS
    Allocs = {a1, a2}
    Threads = {t1, t2}
    None = None
    Requests = {"create", "stop"}
    Capacity = 1
    MaxRev = 1
    MaxEpoch = 2
    MaxFaults = 1
SYMMETRY Symmetry
INVARIANTS CapacityHolds
CHECK_DEADLOCK FALSE
