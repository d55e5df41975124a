SPECIFICATION Spec
CONSTANTS
    NumSlots = 5
    MaxFileSize = 0
    MaxDepth = 2
    MaxPath = 3
    Names <- MCNames
    Progs = "a"
    Home = "b"
    Readme = "a"
    Bytes <- MCBytes
    Texts <- MCTexts
    LineTexts <- MCTexts
    Welcome <- MCWelcome
CHECK_DEADLOCK FALSE
INVARIANTS
    MovesEveryFolder
