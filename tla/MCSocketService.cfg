SPECIFICATION Spec
CONSTANTS
    Sockets = {s1, s2}
    Fds = {f1, f2}
    Ops = {o1, o2}
    invalid_socket = invalid_socket
SYMMETRY ServiceSymmetry
INVARIANTS
    WaitsOnOwnDescriptor
    OneOwnerPerDescriptor
    WorkersNeverBlock
    NoOrphanedRegistration
PROPERTIES
    ImplementsIoTable
