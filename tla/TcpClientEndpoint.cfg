SPECIFICATION FairSpec
CONSTANTS
    Workers = {w1, w2}
    Callers = {app}
    MaxOutstanding = 3
INVARIANTS
    LocalPortOfOpenSocket
    OneConnectInProgress
    BlockedEndpointCloses
    ClosedStateNotOverLiveSocket
    StoppedStaysClosed
    ClosesForAReason
PROPERTIES
    ImplementsClientLink
    BlockedEventuallyClosed
CHECK_DEADLOCK FALSE
