SPECIFICATION Spec
CONSTANTS
    Submitted <- LinesWithEmpty
    Scripted <- MCScripted
    Commands <- commands
    Codes = {0, 1}
    ModeBits = {"0", "1", "2", "3", "6"}
    InitialMode = "0"
    Fold <- MCFold
    Hash <- MCHash
    NUL = "nul"
INVARIANT SequenceRunsBoth
