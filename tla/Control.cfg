\* Two concurrent sysvrun invocations (start, stop or restart each) against
\* the supervisors of one service; service forks can fail, restarts can be
\* refused.  A remaining service with every client done waits for ever.
CONSTANTS
    c1 = c1
    c2 = c2
    Clients <- MCClients
    Verbs <- MCVerbs
    AfterExit <- MCAfterExit
    MaxGen = 3
    SpawnMayFail = TRUE
    RateLimited = TRUE
    KillModes <- MCKillModes
    Types <- MCTypes
    UnitConfigs <- MCUnitConfigs
SPECIFICATION Spec
PROPERTY StopSucceedsOnlyWhenGone PromotedLaunchAnswered
CHECK_DEADLOCK FALSE
