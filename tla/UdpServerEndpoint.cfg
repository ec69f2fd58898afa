SPECIFICATION FairSpec
CONSTANTS
    Workers = {w1, w2, w3}
    Callers = {a1, a2}
    MaxStarts = 2
    MaxSends = 1
INVARIANTS
    EachStartOneLoop
    MessageNotOverwritten
    StoppedFallsSilent
PROPERTY LoopsEndAfterStop
CHECK_DEADLOCK FALSE
