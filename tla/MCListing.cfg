SPECIFICATION Spec
CONSTANTS
    MaxLineLength = 4
    HistoryLength = 2
    TypicalLineLength = 2
    Char = {"A", "a", "h", "e", " "}
    Fold <- MCFold
    Commands <- SharedPrefix
    Modes = {"Mode0"}
    InitialMode = "Mode0"
    Arriving <- Keyboard
    MaxNewlines = 1
INVARIANTS DisplayInSync
