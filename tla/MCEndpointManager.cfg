SPECIFICATION Spec
CONSTANTS
    Threads = {t1, t2}
    Endpoints = {e1, e2}
    Ips = {a}
    Ports = {p1, p2}
    Word = 3
    NoThread = NoThread
SYMMETRY ManagerSymmetry
VIEW LivingEndpoints
INVARIANTS
    MapsWellFormed
    UsedIsFindable
    RunningServerKnown
CHECK_DEADLOCK FALSE
