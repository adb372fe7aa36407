\* Three privileged supervisors, each connecting and disconnecting twice;
\* sendmsg() never fails, acks may be dropped at a full socket.
CONSTANTS
    a = a
    b = b
    c = c
    Procs <- MCProcs
    Unprivileged = {}
    AcksMayDrop = TRUE
    MaxOps = 2
    MaxCrashes = 2
SPECIFICATION Spec
SYMMETRY MCSymmetry
INVARIANT ListenersBacked NoForeignDecrement
CHECK_DEADLOCK FALSE
