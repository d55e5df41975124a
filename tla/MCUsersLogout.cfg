SPECIFICATION Spec
CONSTANTS
    NumUsers = 4
    UserNames <- MCUserNames
    BadName = "x"
    NoName = "-"
INVARIANTS
    LogoutReturnsToGuest
