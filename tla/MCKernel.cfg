SPECIFICATION FairSpec
CONSTANTS
    NumSlots = 7
    MaxFileSize = 2
    MaxDepth = 2
    MaxPath = 3
    Names <- MCNames
    Progs = "a"
    Home = "b"
    Readme = "a"
    Bytes <- MCBytes
    Texts <- MCTexts
    LineTexts <- MCTexts
    Welcome <- MCWelcome
    Helps <- MCHelps
    HelpText <- MCHelpText
    MaxCommands = 2
    MaxLosses = 2
CHECK_DEADLOCK FALSE
INVARIANTS
    TypeOK
    BootKeeps
    HelpsReady
PROPERTIES
    CrashAtomic
    PromptReturns
