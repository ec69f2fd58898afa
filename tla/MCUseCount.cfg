SPECIFICATION Spec
CONSTANTS
    Threads = {t1, t2, t3}
    Word = 4
SYMMETRY ThreadSymmetry
INVARIANTS
    CountIsUsers
    NoUnderflow
