\* A launched supervisor whose service fork fails (MS_DEAD): what sysvrun start reports.
CONSTANTS
    c1 = c1
    c2 = c2
    Clients <- MCClients
    Verbs <- MCVerbs
    AfterExit <- MCAfterExit
    MaxGen = 3
    SpawnMayFail = TRUE
    RateLimited = TRUE
    KillModes <- MCKillModes
    Types <- MCTypes
SPECIFICATION Spec
PROPERTY LaunchReportsUp
CHECK_DEADLOCK FALSE
