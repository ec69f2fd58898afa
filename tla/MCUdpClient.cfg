SPECIFICATION RemoteSpec
CONSTANTS
    Workers = {w1, w2}
    Callers = {app}
    MaxOutstanding = 3
    Peer = peer
    Strangers = {stranger}
    Nobody = nobody
SYMMETRY WorkerSymmetry
INVARIANTS
    BlockedEndpointCloses
    StoppedStaysClosed
    ClosesForAReason
    OpenSocketIsServed
    PeerKeptUnlessExposed
PROPERTIES
    ImplementsClientLink
CHECK_DEADLOCK FALSE
