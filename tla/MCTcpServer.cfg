SPECIFICATION Spec
CONSTANTS
    Workers = {w1, w2}
    Callers = {app}
    Connections = {c1, c2, c3}
    Remotes = {r1, r2}
    MaxStarts = 1
    Unspecified = Unspecified
    NoConnection = NoConnection
SYMMETRY ServerSymmetry
INVARIANTS
    AcceptLoopAlive
    LiveConnectionKnown
    StopLeavesOnlyLate
    SendingFlagNotStuck
CHECK_DEADLOCK FALSE
