SPECIFICATION Spec
CONSTANTS
    NumSlots = 4
    MaxFileSize = 1
    MaxDepth = 2
    MaxPath = 2
    Names <- MCNames
    Progs = "a"
    Home = "b"
    Readme = "a"
    Bytes <- MCBytes
    Texts <- MCTexts
    LineTexts <- MCLines
    Welcome <- MCWelcome
CHECK_DEADLOCK FALSE
INVARIANTS
    OwedWriteFindsFile
PROPERTIES
    ImplementsFileTree
