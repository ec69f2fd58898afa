SPECIFICATION LockSpec
CONSTANTS
    Runners = {t1, t2, t3}
    Connections = {c1, c2}
SYMMETRY MutexSymmetry
INVARIANTS
    NoCircularWait
