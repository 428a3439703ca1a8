SPECIFICATION FairSpec
CONSTANTS
    LastOp = 2
    MaxRecords = 2
    MaxFaults = 2
INVARIANTS RunsOnce ReceiptsAreTrue Reopenable
PROPERTIES ContractHolds AcceptedEnds
CHECK_DEADLOCK FALSE
