SPECIFICATION Spec
CONSTANTS
    Text <- MCText
    Char <- MCChar
    NUL = "nul"
INVARIANTS TypeOK LaterSegmentsIntact SeparatorsAdvance SegmentAsWritten
PROPERTY ParsingEnds
CHECK_DEADLOCK FALSE
