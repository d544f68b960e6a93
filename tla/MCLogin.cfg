SPECIFICATION Spec
CONSTANTS
    Lines <- MCLines
    Endings <- MCEndings
    Fold <- MCFold
    Users <- MCUsers
    LoginName <- MCLogin
    LogoutName <- MCLogout
    MaxLineLength = 8
    NameLimit = 3
    MaxLines = 4
INVARIANTS TypeOK EachReadsOneTypedLine LoggedInAsTyped
CHECK_DEADLOCK FALSE
