SPECIFICATION Spec
CONSTANTS
    NumUsers = 4
    UserNames <- MCUserNames
    BadName = "x"
    NoName = "-"
INVARIANTS
    TypeOK
    RootStays
    NamesUnique
    SessionHasUser
    NobodyHasNoRights
    ListsEveryUser
PROPERTIES
    SessionStable
