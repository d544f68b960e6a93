SPECIFICATION Spec
CONSTANTS
    MaxLineLength = 4
    HistoryLength = 2
    TypicalLineLength = 2
    Char = {"A", "a", "b", "h", "e", " "}
    Fold <- MCFold
    Commands <- UniqueCommands
    Modes = {"Mode0", "Mode1"}
    InitialMode = "Mode0"
    Arriving <- Keyboard
    MaxNewlines = 3
INVARIANTS TypeOK DisplayInSync OneSubmitPerLineEnding
PROPERTIES RecordsTheRow SubmitsWhatIsShown BrowsingKeepsLine
