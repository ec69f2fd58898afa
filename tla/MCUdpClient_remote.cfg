SPECIFICATION RemoteSpec
CONSTANTS
    Workers = {w1}
    Callers = {app}
    MaxOutstanding = 3
    Peer = peer
    Strangers = {stranger}
    Nobody = nobody
INVARIANT ConnectsToItsPeer
CHECK_DEADLOCK FALSE
