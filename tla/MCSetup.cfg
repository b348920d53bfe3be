SPECIFICATION SetupSpec
CONSTANTS
    Keys = {1, 2}
    DevKey = 1
    Environments <- MCEnvironments
    noEnvironment = noEnvironment
    NoEnvironment <- noEnvironment
    Codes = {1, 2}
    MaxSenders = 2
    MaxExtensions = 2
    MaxNodes = 2
    MaxDeaths = 1
CONSTRAINT InScope
INVARIANTS
    ConfigIsFinished
    CleanReportMeansReady
    TestedMeansWired
    ChecksCatch
    ScriptsFailForAReason
PROPERTY EveryScriptEnds
CHECK_DEADLOCK FALSE
