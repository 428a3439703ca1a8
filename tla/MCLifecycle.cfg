SPECIFICATION Spec
CONSTANTS
    Controllers = {c1, c2}
    MaxClaims = 2
    MaxEpoch = 2
    MaxStops = 2
    MaxFaults = 2
SYMMETRY Symmetry
INVARIANTS OutcomesAreReal EvidenceHolds RowsConsistent
PROPERTIES FinalIsFinal
CHECK_DEADLOCK FALSE
