\* StartLimitBurst=3, StartLimitIntervalSec=5, RestartSec=1, supervisor
\* started 6 units after boot.
CONSTANTS
    Burst = 3
    Interval = 5
    Delay = 1
    BootTime = 6
    MaxTime = 20
SPECIFICATION Spec
INVARIANT TypeOK WindowBound
PROPERTY GateIsSlidingWindow
CHECK_DEADLOCK FALSE
