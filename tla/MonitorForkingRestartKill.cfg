\* Type=forking, Restart=always: does the watch after a policy restart run
\* the kill orchestrator without a stop or restart order?
CONSTANTS
    MaxPid = 5
    Self = 2
    SelfSid = 9
    MaxQueue = 1
    Statuses <- MCStatuses
    Sessions <- MCSessions
    Type = "forking"
    KillMode = "control-group"
    RestartPolicy = "always"
    RemainAfterExit = FALSE
    HasPidfile = TRUE
    RateLimited = FALSE
SPECIFICATION Spec
INVARIANT KillOnlyWhenOrdered
