SPECIFICATION LineSpec
CONSTANTS
    Tables <- MCTables
    ModeBits = {"Mode0", "Mode1"}
    InitialMode = "Mode0"
    Fold <- MCFold
    Hash <- MCHash
    MaxLineLength = 5
    Char = {"h", "e", "a", " ", ";", "&"}
    NUL = "nul"
INVARIANTS TypeOK HelpAgreesWithDispatch
PROPERTIES CompletesLastCommand CompletedCommandRuns
