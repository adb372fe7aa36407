\* Type=simple, Restart=no: is an accepted stop carried out under the
\* scheduling the code guarantees (no timer wakes the watch)?
CONSTANTS
    MaxPid = 5
    Self = 2
    SelfSid = 9
    MaxQueue = 1
    Statuses <- MCStatuses
    Sessions <- MCSessions
    Type = "simple"
    KillMode = "control-group"
    RestartPolicy = "no"
    RemainAfterExit = FALSE
    HasPidfile = FALSE
    RateLimited = FALSE
SPECIFICATION Spec
PROPERTY StopCompletes
