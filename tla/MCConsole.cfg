SPECIFICATION Spec
CONSTANTS
    Width = 2
    Height = 2
    Lines = 3
    MaxLen = 4
    Chars <- MCChars
    MaxLine = 4
INVARIANTS
    TypeOK
    ScreenReadsPaper
    HistoryIntact
    InputShown
