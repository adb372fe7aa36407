\* The command files of MC_UnitFile with User=: does command_from_service
\* keep a USER, LOGNAME, HOME or SHELL that Denv or Environment= already
\* defines?
CONSTANTS
    Alnum <- MCAlnum
    Fragments <- Lines
    ExtraTexts <- AllTexts
    MaxLines = 4
    SectionSize = 3
    KeySize = 3
    ValueSize = 7
    DepSection <- MCDepSection
    DepKey <- MCDepKey
    ServiceSection <- MCServiceSection
    Keys <- MCKeys
    TypeNames <- MCTypeNames
    KillModeNames <- MCKillModeNames
    RestartNames <- MCRestartNames
    DotService <- MCDotService
    TrueWords <- MCTrueWords
    Defaults <- MCDefaults
    Digits <- MCDigits
    Letters <- MCLetters
    TimeUnits <- MCTimeUnits
    InfinityStr <- MCInfinity
    CmdKeys <- MCCmdKeys
    SetKeys <- MCSetKeys
    EnvNames <- MCEnvNames
    Denvs <- MCDenvs
    Ulist <- MCUlist
    ProcEnv <- MCProcEnv
    Root <- MCRoot
    SelfDir <- MCSelfDir
    Users <- MCUsers
    Groups <- MCGroups
    Resolvable <- MCResolvable
    Dirs <- MCDirs
    Dangling = Dangling
    Scripts <- MCScripts
    Name <- MCName
    BeginInfo <- MCBeginInfo
    EndInfo <- MCEndInfo
    Provides <- MCProvides
    BeginEmbed <- MCBeginEmbed
    EndEmbed <- MCEndEmbed
    TsSec = 4
    Width = 5
SPECIFICATION FileSpec
INVARIANT CredentialsAgree
CHECK_DEADLOCK FALSE
