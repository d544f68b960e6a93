SPECIFICATION Spec
CONSTANTS
    MaxLineLength = 5
    Char = {"h", "H", " "}
    Space = " "
    NUL = "nul"
    Lower <- MCLower
    Entry <- MCEntry
    Command <- MCCommand
INVARIANTS TypeOK CString CursorInLine
PROPERTY EditsText
