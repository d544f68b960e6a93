----------------------------- MODULE LineBuffer -----------------------------
(***************************************************************************)
(* The command line as the program stores it: lish::LineBuffer, a char     *)
(* array with a length and a cursor, as edited in place by                 *)
(* lish::LineEditor (insert, backspace, delete, moves), cleared by the     *)
(* shell, overwritten from history and by tab completion.  The loops that  *)
(* shift bytes are given by the array they leave.  Only buffer[0] is       *)
(* written by the constructor: every other byte starts arbitrary.          *)
(***************************************************************************)
EXTENDS Naturals, Sequences

CONSTANTS MaxLineLength, Char, Space, Entry, Command,
          NUL,      \* '\0'
          Lower     \* Lower[c], the case folding of tab completion

(* A char array of uint8_t size; texts from outside are made of its chars. *)
ASSUME CapacityAssumption == MaxLineLength \in 1..255
ASSUME SourceAssumption ==
    /\ Space \in Char
    /\ Entry \subseteq Seq(Char)
    /\ Command \subseteq Seq(Char)
ASSUME NulAssumption == NUL \notin Char
ASSUME LowerAssumption == Lower \in [Char -> Char]

VARIABLES buffer, line_len, cursor_pos

vars == <<buffer, line_len, cursor_pos>>

Index == 0..(MaxLineLength - 1)
Byte == Char \cup {NUL}

Init ==
    /\ buffer \in [Index -> Byte]
    /\ buffer[0] = NUL
    /\ line_len = 0
    /\ cursor_pos = 0

(* Faulty: room is checked for the character but not for the terminator.   *)
HasRoomWithoutNul == line_len < MaxLineLength

HasRoom == line_len < MaxLineLength - 1

Insert(c) ==
    /\ HasRoom
    /\ buffer' = [i \in Index |->
                    IF i = line_len + 1 THEN NUL
                    ELSE IF i = cursor_pos THEN c
                    ELSE IF i \in (cursor_pos + 1)..line_len THEN buffer[i - 1]
                    ELSE buffer[i]]
    /\ line_len' = line_len + 1
    /\ cursor_pos' = cursor_pos + 1

(* Faulty: the loop stops before the terminator.                           *)
ShiftedLeftTooFew(p) ==
    [i \in Index |-> IF i \in p..(line_len - 2) THEN buffer[i + 1] ELSE buffer[i]]

(* The loop shared by the two deletions: buffer[i] = buffer[i + 1] for i   *)
(* from p up to line_len - 1, which brings the terminator along.           *)
ShiftedLeft(p) ==
    [i \in Index |-> IF i \in p..(line_len - 1) THEN buffer[i + 1] ELSE buffer[i]]

(* Faulty: shifts from the cursor instead of from the character before it. *)
WithoutNext == [ShiftedLeft(cursor_pos) EXCEPT ![line_len - 1] = NUL]

WithoutPrevious == ShiftedLeft(cursor_pos - 1)

Backspace ==
    /\ cursor_pos # 0 /\ line_len # 0
    /\ cursor_pos' = cursor_pos - 1
    /\ buffer' = WithoutPrevious
    /\ line_len' = line_len - 1

DeleteAtCursor ==
    /\ cursor_pos < line_len
    /\ buffer' = ShiftedLeft(cursor_pos)
    /\ line_len' = line_len - 1
    /\ UNCHANGED cursor_pos

MoveTo(p) == cursor_pos' = p /\ UNCHANGED <<buffer, line_len>>

MoveLeft == cursor_pos > 0 /\ MoveTo(cursor_pos - 1)
MoveRight == cursor_pos < line_len /\ MoveTo(cursor_pos + 1)
MoveHome == MoveTo(0)
MoveEnd == MoveTo(line_len)

(* Faulty: the cursor keeps its place.                                     *)
ClearText ==
    /\ line_len' = 0
    /\ buffer' = [buffer EXCEPT ![0] = NUL]
    /\ UNCHANGED cursor_pos

Clear ==
    /\ line_len' = 0
    /\ cursor_pos' = 0
    /\ buffer' = [buffer EXCEPT ![0] = NUL]

(* strnlen(s, MaxLineLength - 1) of a C string that holds the text t.      *)
BoundedLength(t) == IF Len(t) < MaxLineLength - 1 THEN Len(t) ELSE MaxLineLength - 1

(* exit_browsing_and_copy(): the browsed entry replaces the line, the      *)
(* bytes after its terminator are left as they were.                       *)
LoadEntry(t) ==
    LET len == BoundedLength(t) IN
    /\ buffer' = [i \in Index |-> IF i < len THEN t[i + 1]
                                  ELSE IF i = len THEN NUL ELSE buffer[i]]
    /\ line_len' = len
    /\ cursor_pos' = len

(* copy_from(): all MaxLineLength bytes of another line buffer that holds  *)
(* t, whose bytes after the terminator are all equal to junk.              *)
CopyFrom(t, junk) ==
    LET len == BoundedLength(t) IN
    /\ Len(t) < MaxLineLength
    /\ buffer' = [i \in Index |-> IF i < len THEN t[i + 1]
                                  ELSE IF i = len THEN NUL ELSE junk]
    /\ line_len' = len
    /\ cursor_pos' = len

(* What tab_complete() has established when it completes: the text from    *)
(* start to the end of the line is a prefix of cmd, case aside.            *)
IsPrefixAt(start, cmd) ==
    /\ start < line_len
    /\ line_len - start <= Len(cmd)
    /\ \A i \in start..(line_len - 1) : Lower[buffer[i]] = Lower[cmd[i - start + 1]]

(* complete_command_in_buffer(), and its result stored in the line.        *)
Complete(start, cmd) ==
    /\ IsPrefixAt(start, cmd)
    /\ start + Len(cmd) + 1 < MaxLineLength
    /\ buffer' = [i \in Index |->
                    IF i \in start..(start + Len(cmd) - 1) THEN cmd[i - start + 1]
                    ELSE IF i = start + Len(cmd) THEN Space
                    ELSE IF i = start + Len(cmd) + 1 THEN NUL
                    ELSE buffer[i]]
    /\ line_len' = start + Len(cmd) + 1
    /\ cursor_pos' = start + Len(cmd) + 1

Next ==
    \/ \E c \in Char : Insert(c)
    \/ Backspace
    \/ DeleteAtCursor
    \/ MoveLeft
    \/ MoveRight
    \/ MoveHome
    \/ MoveEnd
    \/ Clear
    \/ \E t \in Entry : LoadEntry(t)
    \/ \E t \in Entry, junk \in Byte : CopyFrom(t, junk)
    \/ \E cmd \in Command, start \in Index : Complete(start, cmd)

Spec == Init /\ [][Next]_vars

-----------------------------------------------------------------------------

TypeOK ==
    /\ buffer \in [Index -> Byte]
    /\ line_len \in Index
    /\ cursor_pos \in Index

(* The terminator is at buffer[line_len] and nowhere before it, whatever   *)
(* the array held when it was constructed: strlen(buffer) is line_len, so  *)
(* the parser and history read exactly the line (invariants of             *)
(* lishLineBuffer.h:56-58, kept across the shifting loops).                *)
CString ==
    /\ buffer[line_len] = NUL
    /\ \A i \in 0..(line_len - 1) : buffer[i] \in Char

(* The cursor never passes the end of the line, also when the line shrinks *)
(* under it (lishLineBuffer.h:57).                                         *)
CursorInLine == cursor_pos <= line_len

(* The text the bytes stand for, and the line promised by TextLine.        *)
Text == [i \in 1..line_len |-> buffer[i - 1]]

Line == INSTANCE TextLine WITH line <- [text |-> Text, cursor |-> cursor_pos]

(* Every byte-level operation has the effect on the text that LineEditor   *)
(* documents, and no other: the in-place shifts lose, duplicate and        *)
(* reorder nothing, and an operation that does not fit changes nothing.    *)
EditsText == Line!Spec

=============================================================================
