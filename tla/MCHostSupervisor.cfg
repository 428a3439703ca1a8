SPECIFICATION Spec
CONSTANTS
    Allocs = {a1}
    Threads = {t1, t2}
    None = None
    Requests = {"create", "inspect", "stop", "lease"}
    Capacity = 1
    MaxRev = 2
    MaxEpoch = 3
    MaxFaults = 1
SYMMETRY Symmetry
INVARIANTS JournalSound EvidenceDurable
PROPERTY RuntimeContract
CHECK_DEADLOCK FALSE
