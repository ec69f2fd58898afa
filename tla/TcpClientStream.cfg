SPECIFICATION StreamSpec
CONSTANTS
    Messages = {m1, m2, m3}
    Parts = 3
    MaxConnections = 3
INVARIANTS
    WholeMessages
CHECK_DEADLOCK FALSE
