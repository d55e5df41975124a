SPECIFICATION Spec
CONSTANTS
    Chars <- MCChars
    Words <- MCWords
    MaxWords = 3
    MaxInput = 12
    MaxArgs = 2
    MaxName = 2
    MaxText = 8
    MaxDepth = 2
    CdName <- MCCd
    LoadName <- MCLoad
INVARIANTS
    TypeOK
    WordsUnderstood
    CurrentDirCanonical
    StepsCompose
