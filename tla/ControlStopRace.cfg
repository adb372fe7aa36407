\* A stop racing with the supervisor's own exit: sysvrun stop reports failure.
CONSTANTS
    c1 = c1
    c2 = c2
    Clients <- MCClients
    Verbs <- MCVerbs
    AfterExit <- MCAfterExit
    MaxGen = 3
    SpawnMayFail = TRUE
    RateLimited = TRUE
    KillModes <- MCKillModes
    Types <- MCTypes
SPECIFICATION Spec
PROPERTY StopFailsOnlyWhileUp
CHECK_DEADLOCK FALSE
