\* A Type=notify service: the `sysvrun start` that launched its supervisor waits for a report that never comes.
CONSTANTS
    c1 = c1
    c2 = c2
    Clients <- MCClients
    Verbs <- MCVerbs
    AfterExit <- MCAfterExit
    MaxGen = 3
    SpawnMayFail = TRUE
    RateLimited = TRUE
    KillModes <- MCKillModes
    Types <- MCNotifyTypes
SPECIFICATION Spec
PROPERTY LaunchAnswered
CHECK_DEADLOCK FALSE
