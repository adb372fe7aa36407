\* Type=simple with a pid file, KillMode=control-group, Restart=on-failure,
\* RemainAfterExit=yes, rate-limited.
CONSTANTS
    MaxPid = 4
    Self = 2
    SelfSid = 9
    MaxQueue = 1
    Statuses <- MCStatuses
    Sessions <- MCSessions
    Type = "simple"
    KillMode = "control-group"
    RestartPolicy = "on-failure"
    RemainAfterExit = TRUE
    HasPidfile = TRUE
    RateLimited = TRUE
SPECIFICATION Spec
INVARIANT TypeOK StopHonoured StartsGated KillOnlyWhenOrdered
PROPERTY MainExitNoticed
