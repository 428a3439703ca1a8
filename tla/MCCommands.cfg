SPECIFICATION Spec
CONSTANTS
    Commands = {c1, c2}
    Cancels = {k1}
    NoCommand = NoCommand
    MaxCommands = 1
    MaxClaims = 2
    Controllers = {p1, p2}
    MaxFaults = 2
SYMMETRY Symmetric
INVARIANTS NeverStartedIsTrue AnswersAreTrue CalledOnce DispatchedHasRoom
PROPERTY TerminalIsFinal
CHECK_DEADLOCK FALSE
