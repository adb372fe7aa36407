\* Every text of up to four of the lines of MC_UnitFile!Lines (none has a
\* backslash inside a value) and every service file of
\* MC_UnitFile!ServiceTexts; buffers of 3, 3 and 7 bytes.  The parser and
\* the extraction stop after one file: no deadlock check.
CONSTANTS
    Alnum <- MCAlnum
    Fragments <- Lines
    ExtraTexts <- AllTexts
    MaxLines = 4
    SectionSize = 3
    KeySize = 3
    ValueSize = 7
    DepSection <- MCDepSection
    DepKey <- MCDepKey
    ServiceSection <- MCServiceSection
    Keys <- MCKeys
    TypeNames <- MCTypeNames
    KillModeNames <- MCKillModeNames
    RestartNames <- MCRestartNames
    DotService <- MCDotService
    TrueWords <- MCTrueWords
    Defaults <- MCDefaults
    Digits <- MCDigits
    Letters <- MCLetters
    TimeUnits <- MCTimeUnits
    InfinityStr <- MCInfinity
    CmdKeys <- MCCmdKeys
    SetKeys <- MCSetKeys
    EnvNames <- MCEnvNames
    Denvs <- MCDenvs
    Ulist <- MCUlist
    ProcEnv <- MCProcEnv
    Root <- MCRoot
    SelfDir <- MCSelfDir
    Users <- MCUsers
    Groups <- MCGroups
    Resolvable <- MCResolvable
    Dirs <- MCDirs
    Dangling = Dangling
    Scripts <- MCScripts
    Name <- MCName
    BeginInfo <- MCBeginInfo
    EndInfo <- MCEndInfo
    Provides <- MCProvides
    BeginEmbed <- MCBeginEmbed
    EndEmbed <- MCEndEmbed
    TsSec = 4
    Width = 5
SPECIFICATION FileSpec
INVARIANT FileTypeOK ParseAgreesWithLines SplitAgrees ConfigAgrees EnvAgrees ScriptAgrees
CHECK_DEADLOCK FALSE
