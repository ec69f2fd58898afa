SPECIFICATION FairSpec
CONSTANTS
    Workers = {w1, w2}
    Callers = {app}
    Connections = {c1, c2}
    Remotes = {r1}
    MaxStarts = 1
    Unspecified = Unspecified
    NoConnection = NoConnection
PROPERTIES
    RetryAccepts
    AcceptingEndsAfterStop
CHECK_DEADLOCK FALSE
