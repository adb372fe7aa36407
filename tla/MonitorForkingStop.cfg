\* Type=forking, Restart=no: can a stop accepted during start-up be
\* overridden when the service child is collected?
CONSTANTS
    MaxPid = 5
    Self = 2
    SelfSid = 9
    MaxQueue = 1
    Statuses <- MCStatuses
    Sessions <- MCSessions
    Type = "forking"
    KillMode = "control-group"
    RestartPolicy = "no"
    RemainAfterExit = FALSE
    HasPidfile = TRUE
    RateLimited = FALSE
SPECIFICATION Spec
INVARIANT StopHonoured
