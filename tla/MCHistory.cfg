SPECIFICATION Spec
CONSTANTS
    HistoryLength = 4
    TypicalLineLength = 2
    Char = {"a", "A", "b"}
    NUL = "nul"
    Line <- MCLine
    Fold <- MCFold
INVARIANTS TypeOK Packed NoDuplicates CursorSelectsEntry
PROPERTIES PushKeepsOrder EvictsOnlyForRoom ImplementsList
