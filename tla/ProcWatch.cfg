\* Process table against the kernel event feed, generic client; safety and
\* the liveness of collection.
CONSTANTS
    MaxPid = 5
    Self = 2
    SelfSid = 9
    MaxQueue = 2
    Statuses <- MCStatuses
SPECIFICATION Spec
INVARIANT TreeWellFormed
INVARIANT ReadyIsExited
PROPERTY DeadEventuallyForgotten
INVARIANT TableMirrorsKernel
CHECK_DEADLOCK FALSE
