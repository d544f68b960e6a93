------------------------------ MODULE TextLine ------------------------------
(***************************************************************************)
(* What an editable command line promises: a text of fewer than            *)
(* MaxLineLength characters and a cursor between two of them.  LineBuffer  *)
(* is the byte array that implements this, InputProcessor the component    *)
(* that drives it.  The operators are functions on lines, so that one      *)
(* handler may apply several of them in one step.                          *)
(***************************************************************************)
EXTENDS Naturals, Sequences, SequencesExt

CONSTANTS
    MaxLineLength,  \* template argument of LineBuffer: capacity with the NUL
    Char,           \* the bytes that may be stored in a line
    Space,          \* ' ', which completion appends to a command name
    Entry,          \* the texts Load and CopyFrom may bring in
    Command         \* the command names Complete may write

VARIABLE line

Lines == [text : Seq(Char), cursor : Nat]

EmptyLine == [text |-> <<>>, cursor |-> 0]

AtEnd(t) == [text |-> t, cursor |-> Len(t)]

(* Faulty: no room is kept for the terminator.                             *)
IsFullWithoutNul(l) == Len(l.text) >= MaxLineLength

IsFull(l) == Len(l.text) >= MaxLineLength - 1

Inserted(l, c) ==
    IF IsFull(l) THEN l
    ELSE [text |-> InsertAt(l.text, l.cursor + 1, c), cursor |-> l.cursor + 1]

Backspaced(l) ==
    IF l.cursor = 0 THEN l
    ELSE [text |-> RemoveAt(l.text, l.cursor), cursor |-> l.cursor - 1]

Deleted(l) ==
    IF l.cursor >= Len(l.text) THEN l
    ELSE [l EXCEPT !.text = RemoveAt(l.text, l.cursor + 1)]

MovedLeft(l) == IF l.cursor > 0 THEN [l EXCEPT !.cursor = l.cursor - 1] ELSE l

MovedRight(l) ==
    IF l.cursor < Len(l.text) THEN [l EXCEPT !.cursor = l.cursor + 1] ELSE l

MovedHome(l) == [l EXCEPT !.cursor = 0]

MovedEnd(l) == [l EXCEPT !.cursor = Len(l.text)]

(* A text brought in from elsewhere is cut to the capacity, cursor at end. *)
Loaded(t) ==
    AtEnd(SubSeq(t, 1, IF Len(t) < MaxLineLength THEN Len(t) ELSE MaxLineLength - 1))

(* The word that begins after start characters becomes cmd and a space,    *)
(* when both and the terminator fit.                                       *)
Completed(l, start, cmd) ==
    IF start + Len(cmd) + 1 >= MaxLineLength THEN l
    ELSE AtEnd(SubSeq(l.text, 1, start) \o cmd \o <<Space>>)

-----------------------------------------------------------------------------

Init == line = EmptyLine

Insert(c) == line' = Inserted(line, c)
Backspace == line' = Backspaced(line)
DeleteAtCursor == line' = Deleted(line)
MoveLeft == line' = MovedLeft(line)
MoveRight == line' = MovedRight(line)
MoveHome == line' = MovedHome(line)
MoveEnd == line' = MovedEnd(line)
Clear == line' = EmptyLine
Load(t) == line' = Loaded(t)
Complete(start, cmd) == line' = Completed(line, start, cmd)

Next ==
    \/ \E c \in Char : Insert(c)
    \/ Backspace
    \/ DeleteAtCursor
    \/ MoveLeft
    \/ MoveRight
    \/ MoveHome
    \/ MoveEnd
    \/ Clear
    \/ \E t \in Entry : Load(t)
    \/ \E cmd \in Command, start \in 0..Len(line.text) : Complete(start, cmd)

Spec == Init /\ [][Next]_line

-----------------------------------------------------------------------------

TypeOK ==
    /\ line \in Lines
    /\ Len(line.text) < MaxLineLength
    /\ line.cursor <= Len(line.text)

=============================================================================
