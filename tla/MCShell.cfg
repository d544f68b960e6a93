SPECIFICATION Spec
CONSTANTS
    Submitted <- MCSubmitted
    Scripted <- MCScripted
    Commands <- MCCommands
    Codes = {0, 1}
    ModeBits = {"0", "1", "2", "3", "6"}
    InitialMode = "0"
    Fold <- MCFold
    Hash <- MCHash
    NUL = "nul"
INVARIANTS TypeOK NestedLineInItsSegment ElevationEnds
PROPERTIES ImplementsChain OneStatusPerLine DispatchEnds
