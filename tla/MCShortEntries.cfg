SPECIFICATION Spec
CONSTANTS
    MaxLineLength = 2
    HistoryLength = 2
    TypicalLineLength = 3
    Char = {"a", "b", "h", "e", " "}
    Fold <- MCFold
    Commands <- UniqueCommands
    Modes = {"Mode0"}
    InitialMode = "Mode0"
    Arriving <- LettersAndUp
    MaxNewlines = 1
PROPERTIES SubmitsWhatIsShown
