SPECIFICATION Spec
CONSTANTS
    Workers = {w1}
    Callers = {app}
    MaxOutstanding = 3
INVARIANT BlockedMeansStopped
CHECK_DEADLOCK FALSE
