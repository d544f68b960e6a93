-------------------------- MODULE LineBufferProofs --------------------------
(***************************************************************************)
(* Proofs about LineBuffer, for every capacity, alphabet, set of history   *)
(* entries and set of command names: the array is always a C string whose  *)
(* length is line_len with the cursor inside it, and every operation on    *)
(* the bytes is the operation on the text that TextLine promises.          *)
(***************************************************************************)
EXTENDS LineBuffer, SequenceTheorems, TLAPS

(* The inductive invariant: TypeOK alone is not kept by a step, because    *)
(* Insert relies on the cursor being inside the line and the deletions on  *)
(* the terminator being at its end.                                        *)
Inv == TypeOK /\ CString /\ CursorInLine

LEMMA InitInv == Init => Inv
  BY CapacityAssumption, SourceAssumption, NulAssumption DEF Init, Inv, TypeOK, CString, CursorInLine, Index, Byte

(* Each operation keeps the invariant.                                     *)
LEMMA NextInv == Inv /\ [Next]_vars => Inv'
<1> SUFFICES ASSUME Inv, [Next]_vars PROVE Inv'
  OBVIOUS
<1> USE CapacityAssumption, SourceAssumption, NulAssumption
        DEF Inv, TypeOK, CString, CursorInLine, Index, Byte
<1>1. ASSUME NEW c \in Char, Insert(c) PROVE Inv'
  BY <1>1 DEF Insert, HasRoom
<1>2. CASE Backspace
  BY <1>2 DEF Backspace, WithoutPrevious, ShiftedLeft
<1>3. CASE DeleteAtCursor
  BY <1>3 DEF DeleteAtCursor, ShiftedLeft
<1>4. CASE MoveLeft \/ MoveRight \/ MoveHome \/ MoveEnd
  BY <1>4 DEF MoveLeft, MoveRight, MoveHome, MoveEnd, MoveTo
<1>5. CASE Clear
  BY <1>5 DEF Clear
<1>6. ASSUME NEW t \in Entry, LoadEntry(t) PROVE Inv'
  <2>1. t \in Seq(Char) /\ Len(t) \in Nat
    BY <1>6
  <2>2. BoundedLength(t) \in Index /\ BoundedLength(t) <= Len(t)
    BY <2>1 DEF BoundedLength
  <2>. QED
    BY <1>6, <2>1, <2>2 DEF LoadEntry
<1>7. ASSUME NEW t \in Entry, NEW junk \in Byte, CopyFrom(t, junk) PROVE Inv'
  <2>1. t \in Seq(Char) /\ Len(t) \in Nat
    BY <1>7
  <2>2. BoundedLength(t) \in Index /\ BoundedLength(t) <= Len(t)
    BY <2>1 DEF BoundedLength
  <2>. QED
    BY <1>7, <2>1, <2>2 DEF CopyFrom
<1>8. ASSUME NEW cmd \in Command, NEW start \in Index, Complete(start, cmd) PROVE Inv'
  <2>1. cmd \in Seq(Char) /\ Len(cmd) \in Nat
    BY <1>8
  <2>. QED
    BY <1>8, <2>1 DEF Complete, IsPrefixAt
<1>9. CASE UNCHANGED vars
  BY <1>9 DEF vars
<1>. QED
  BY <1>1, <1>2, <1>3, <1>4, <1>5, <1>6, <1>7, <1>8, <1>9 DEF Next

(* The array is a C string of line_len characters and the cursor is inside *)
(* it in every reachable state, whatever the uninitialised bytes were.     *)
THEOREM LineBufferInvariant == Spec => [](TypeOK /\ CString /\ CursorInLine)
<1>1. Inv => TypeOK /\ CString /\ CursorInLine
  BY DEF Inv
<1>. QED
  BY <1>1, InitInv, NextInv, PTL DEF Spec

(* Length, cursor and bytes are what the class declares, for every         *)
(* capacity that fits line_len's type.                                     *)
THEOREM LineBufferTypeCorrect == Spec => []TypeOK
<1>1. Inv => TypeOK
  BY DEF Inv
<1>. QED
  BY <1>1, InitInv, NextInv, PTL DEF Spec

(* No operation, recall and completion included, leaves the cursor behind  *)
(* the end of the line: the shifts of insert and of the deletions, which   *)
(* run from the cursor to the terminator, never start past it.             *)
THEOREM CursorStaysInLine == Spec => []CursorInLine
<1>1. Inv => CursorInLine
  BY DEF Inv
<1>. QED
  BY <1>1, InitInv, NextInv, PTL DEF Spec

(* The text of n characters that begins an array of bytes.                 *)
LEMMA TextOfBytes ==
    ASSUME NEW b, NEW n \in Nat, \A i \in 0..(n - 1) : b[i] \in Char
    PROVE  /\ [i \in 1..n |-> b[i - 1]] \in Seq(Char)
           /\ Len([i \in 1..n |-> b[i - 1]]) = n
<1>1. [i \in 1..n |-> b[i - 1]] \in [1..n -> Char]
  OBVIOUS
<1>. QED
  BY <1>1

(* The text of the mapping is a sequence of line_len characters, before    *)
(* and after a step.                                                       *)
LEMMA TextIsSeq ==
    /\ Inv => Text \in Seq(Char) /\ Len(Text) = line_len
    /\ Inv' => Text' \in Seq(Char) /\ Len(Text') = line_len'
<1>1. Inv => Text \in Seq(Char) /\ Len(Text) = line_len
  <2> SUFFICES ASSUME Inv PROVE Text \in Seq(Char) /\ Len(Text) = line_len
    OBVIOUS
  <2>1. line_len \in Nat /\ \A i \in 0..(line_len - 1) : buffer[i] \in Char
    BY CapacityAssumption DEF Inv, TypeOK, CString, Index
  <2>. QED
    BY <2>1, TextOfBytes DEF Text
<1>2. Inv' => Text' \in Seq(Char) /\ Len(Text') = line_len'
  <2> SUFFICES ASSUME Inv' PROVE Text' \in Seq(Char) /\ Len(Text') = line_len'
    OBVIOUS
  <2>1. line_len' \in Nat
    BY CapacityAssumption DEF Inv, TypeOK, Index
  <2>2. \A i \in 0..(line_len' - 1) : buffer'[i] \in Char
    BY DEF Inv, CString
  <2>. QED
    BY <2>1, <2>2, TextOfBytes DEF Text
<1>. QED
  BY <1>1, <1>2

(* What the two sequence operators of TextLine return, element by element. *)
LEMMA InsertAtElements ==
    ASSUME NEW S, NEW s \in Seq(S), NEW k \in 1..(Len(s) + 1), NEW e \in S
    PROVE  /\ Line!InsertAt(s, k, e) \in Seq(S)
           /\ Len(Line!InsertAt(s, k, e)) = Len(s) + 1
           /\ \A i \in 1..(Len(s) + 1) :
                Line!InsertAt(s, k, e)[i] =
                  IF i < k THEN s[i] ELSE IF i = k THEN e ELSE s[i - 1]
<1> DEFINE a == SubSeq(s, 1, k - 1)
           b == SubSeq(s, k, Len(s))
<1>1. /\ a \in Seq(S) /\ Len(a) = k - 1
      /\ \A i \in 1..(k - 1) : a[i] = s[i]
  BY SubSeqProperties
<1>2. /\ b \in Seq(S) /\ Len(b) = Len(s) - k + 1
      /\ \A i \in 1..(Len(s) - k + 1) : b[i] = s[k + i - 1]
  BY SubSeqProperties
<1>3. /\ <<e>> \in Seq(S) /\ Len(<<e>>) = 1 /\ <<e>>[1] = e
  OBVIOUS
<1> HIDE DEF a, b
<1>4. /\ a \o <<e>> \in Seq(S) /\ Len(a \o <<e>>) = k
      /\ \A i \in 1..k : (a \o <<e>>)[i] = IF i < k THEN s[i] ELSE e
  BY <1>1, <1>3, ConcatProperties
<1>5. Line!InsertAt(s, k, e) = (a \o <<e>>) \o b
  BY DEF Line!InsertAt, a, b
<1>. QED
  BY <1>2, <1>4, <1>5, ConcatProperties

LEMMA RemoveAtElements ==
    ASSUME NEW S, NEW s \in Seq(S), NEW k \in 1..Len(s)
    PROVE  /\ Line!RemoveAt(s, k) \in Seq(S)
           /\ Len(Line!RemoveAt(s, k)) = Len(s) - 1
           /\ \A i \in 1..(Len(s) - 1) :
                Line!RemoveAt(s, k)[i] = IF i < k THEN s[i] ELSE s[i + 1]
<1> DEFINE a == SubSeq(s, 1, k - 1)
           b == SubSeq(s, k + 1, Len(s))
<1>1. /\ a \in Seq(S) /\ Len(a) = k - 1
      /\ \A i \in 1..(k - 1) : a[i] = s[i]
  BY SubSeqProperties
<1>2. /\ b \in Seq(S) /\ Len(b) = Len(s) - k
      /\ \A i \in 1..(Len(s) - k) : b[i] = s[k + i]
  BY SubSeqProperties
<1> HIDE DEF a, b
<1>3. Line!RemoveAt(s, k) = a \o b
  BY DEF Line!RemoveAt, a, b
<1>4. /\ a \o b \in Seq(S)
      /\ Len(a \o b) = Len(a) + Len(b)
      /\ \A i \in 1..(Len(a) + Len(b)) :
           (a \o b)[i] = IF i <= Len(a) THEN a[i] ELSE b[i - Len(a)]
  BY <1>1, <1>2, ConcatProperties
<1>5. Len(s) \in Nat /\ Len(a) + Len(b) = Len(s) - 1
  BY <1>1, <1>2
<1>6. ASSUME NEW i \in 1..(Len(s) - 1)
      PROVE  (a \o b)[i] = IF i < k THEN s[i] ELSE s[i + 1]
  <2>1. CASE i < k
    BY <1>1, <1>4, <1>5, <2>1
  <2>2. CASE i >= k
    <3>1. (a \o b)[i] = b[i - (k - 1)]
      BY <1>1, <1>4, <1>5, <2>2
    <3>. QED
      BY <1>2, <1>5, <2>2, <3>1
  <2>. QED
    BY <1>5, <2>1, <2>2
<1>. QED
  BY <1>3, <1>4, <1>5, <1>6

(* A text that has the elements of s in order is s, as lines go.           *)
LEMMA TextAfter ==
    ASSUME Inv', NEW s \in Seq(Char), Len(s) = line_len',
           \A i \in 1..line_len' : buffer'[i - 1] = s[i]
    PROVE  Text' = s
<1>1. Text' \in Seq(Char) /\ Len(Text') = line_len'
  BY TextIsSeq
<1>2. \A i \in 1..Len(Text') : Text'[i] = s[i]
  BY <1>1 DEF Text
<1>. QED
  BY <1>1, <1>2, SeqEqual

(* One step on the bytes is one step on the text, or leaves it alone.      *)
LEMMA StepRefines == Inv /\ Inv' /\ [Next]_vars => [Line!Next]_[text |-> Text, cursor |-> cursor_pos]
<1> SUFFICES ASSUME Inv, Inv', [Next]_vars
             PROVE  [Line!Next]_[text |-> Text, cursor |-> cursor_pos]
  OBVIOUS
<1> USE CapacityAssumption, SourceAssumption
<1> DEFINE line == [text |-> Text, cursor |-> cursor_pos]
<1>0. /\ Text \in Seq(Char) /\ Len(Text) = line_len
      /\ line_len \in Nat /\ cursor_pos \in Nat
      /\ cursor_pos <= line_len /\ line_len < MaxLineLength
      /\ \A i \in 1..line_len : Text[i] = buffer[i - 1]
      /\ line_len' \in Nat /\ line_len' < MaxLineLength
      /\ DOMAIN buffer' = Index
  BY TextIsSeq DEF Inv, TypeOK, CursorInLine, Index, Text
<1>1. ASSUME NEW c \in Char, Insert(c) PROVE Line!Insert(c)
  <2> DEFINE s == Line!InsertAt(Text, cursor_pos + 1, c)
  <2>0. cursor_pos + 1 \in 1..(Len(Text) + 1)
    BY <1>0
  <2>1. /\ s \in Seq(Char) /\ Len(s) = Len(Text) + 1
        /\ \A i \in 1..(Len(Text) + 1) :
             s[i] = IF i < cursor_pos + 1 THEN Text[i]
                    ELSE IF i = cursor_pos + 1 THEN c ELSE Text[i - 1]
    <3>1. Text \in Seq(Char) /\ c \in Char
      BY <1>0, <1>1
    <3> DEFINE k == cursor_pos + 1
    <3>2. k \in 1..(Len(Text) + 1)
      BY <2>0
    <3> HIDE DEF k
    <3>3. /\ Line!InsertAt(Text, k, c) \in Seq(Char)
          /\ Len(Line!InsertAt(Text, k, c)) = Len(Text) + 1
          /\ \A i \in 1..(Len(Text) + 1) :
                Line!InsertAt(Text, k, c)[i] =
                  IF i < k THEN Text[i] ELSE IF i = k THEN c ELSE Text[i - 1]
      BY <3>1, <3>2, InsertAtElements
    <3>. QED
      BY <3>3 DEF k
  <2> HIDE DEF s
  <2>2. ASSUME NEW i \in 1..line_len' PROVE buffer'[i - 1] = s[i]
    <3>1. /\ i \in 1..(Len(Text) + 1) /\ i - 1 \in Index /\ i - 1 # line_len + 1
          /\ i \in Int
      BY <1>0, <1>1 DEF Insert, HasRoom, Index
    <3>2. buffer'[i - 1] = IF i - 1 = cursor_pos THEN c
                           ELSE IF i - 1 \in (cursor_pos + 1)..line_len THEN buffer[i - 1 - 1]
                           ELSE buffer[i - 1]
      BY <1>1, <3>1 DEF Insert, HasRoom
    <3>3. CASE i < cursor_pos + 1
      BY <1>0, <2>1, <3>1, <3>2, <3>3
    <3>4. CASE i = cursor_pos + 1
      BY <1>0, <2>1, <3>1, <3>2, <3>4
    <3>5. CASE i > cursor_pos + 1
      <4>1. buffer'[i - 1] = buffer[i - 1 - 1]
        BY <1>0, <3>1, <3>2, <3>5
      <4>2. s[i] = Text[i - 1] /\ i - 1 \in 1..line_len
        BY <1>0, <2>1, <3>1, <3>5
      <4>. QED
        BY <1>0, <4>1, <4>2
    <3>. QED
      BY <1>0, <3>1, <3>3, <3>4, <3>5
  <2>3. Text' = s
    BY <1>0, <1>1, <2>1, <2>2, TextAfter DEF Insert, HasRoom
  <2>. QED
    BY <1>0, <1>1, <2>3 DEF Insert, HasRoom, s, Line!Insert, Line!Inserted, Line!IsFull
<1>2. CASE Backspace
  <2> DEFINE s == Line!RemoveAt(Text, cursor_pos)
  <2>0. cursor_pos \in 1..Len(Text)
    BY <1>0, <1>2 DEF Backspace, WithoutPrevious
  <2>1. /\ s \in Seq(Char) /\ Len(s) = Len(Text) - 1
        /\ \A i \in 1..(Len(Text) - 1) :
             s[i] = IF i < cursor_pos THEN Text[i] ELSE Text[i + 1]
    BY <1>0, <2>0, RemoveAtElements
  <2> HIDE DEF s
  <2>2. ASSUME NEW i \in 1..line_len' PROVE buffer'[i - 1] = s[i]
    BY <1>0, <1>2, <2>1 DEF Backspace, WithoutPrevious, ShiftedLeft, Index
  <2>3. Text' = s
    BY <1>0, <1>2, <2>1, <2>2, TextAfter DEF Backspace, WithoutPrevious
  <2>. QED
    BY <1>0, <1>2, <2>3 DEF Backspace, WithoutPrevious, s, Line!Next, Line!Backspace, Line!Backspaced
<1>3. CASE DeleteAtCursor
  <2> DEFINE s == Line!RemoveAt(Text, cursor_pos + 1)
  <2>0. cursor_pos + 1 \in 1..Len(Text)
    BY <1>0, <1>3 DEF DeleteAtCursor
  <2>1. /\ s \in Seq(Char) /\ Len(s) = Len(Text) - 1
        /\ \A i \in 1..(Len(Text) - 1) :
             s[i] = IF i < cursor_pos + 1 THEN Text[i] ELSE Text[i + 1]
    BY <1>0, <2>0, RemoveAtElements
  <2> HIDE DEF s
  <2>2. ASSUME NEW i \in 1..line_len' PROVE buffer'[i - 1] = s[i]
    BY SMTT(30), <1>0, <1>3, <2>1 DEF DeleteAtCursor, ShiftedLeft, Index
  <2>3. Text' = s
    BY <1>0, <1>3, <2>1, <2>2, TextAfter DEF DeleteAtCursor
  <2>. QED
    BY <1>0, <1>3, <2>3 DEF DeleteAtCursor, s, Line!Next, Line!DeleteAtCursor, Line!Deleted
<1>4. CASE MoveLeft \/ MoveRight \/ MoveHome \/ MoveEnd
  <2>1. Text' = Text
    BY <1>4 DEF MoveLeft, MoveRight, MoveHome, MoveEnd, MoveTo, Text
  <2>. QED
    BY <1>0, <1>4, <2>1
       DEF MoveLeft, MoveRight, MoveHome, MoveEnd, MoveTo, Line!Next,
           Line!MoveLeft, Line!MoveRight, Line!MoveHome, Line!MoveEnd,
           Line!MovedLeft, Line!MovedRight, Line!MovedHome, Line!MovedEnd
<1>5. CASE Clear
  <2>1. <<>> \in Seq(Char) /\ Len(<<>>) = line_len'
        /\ \A i \in 1..line_len' : buffer'[i - 1] = <<>>[i]
    BY <1>5 DEF Clear
  <2>2. Text' = <<>>
    BY <2>1, TextAfter
  <2>. QED
    BY <1>5, <2>2 DEF Clear, Line!Next, Line!Clear, Line!EmptyLine
<1>6. ASSUME NEW t \in Entry, NEW len \in Nat, len = BoundedLength(t),
             line_len' = len, cursor_pos' = len,
             \A i \in 0..(len - 1) : buffer'[i] = t[i + 1]
      PROVE  Line!Load(t)
  <2>1. t \in Seq(Char) /\ Len(t) \in Nat /\ len <= Len(t)
    BY <1>6 DEF BoundedLength
  <2> DEFINE s == SubSeq(t, 1, len)
  <2>2. /\ s \in Seq(Char) /\ Len(s) = len
        /\ \A i \in 1..len : s[i] = t[i]
    BY <2>1, SubSeqProperties
  <2> HIDE DEF s
  <2>3. Text' = s
    BY <1>6, <2>2, TextAfter
  <2>4. len = IF Len(t) < MaxLineLength THEN Len(t) ELSE MaxLineLength - 1
    BY <1>6, <2>1 DEF BoundedLength
  <2>. QED
    BY <1>6, <2>2, <2>3, <2>4 DEF s, Line!Load, Line!Loaded, Line!AtEnd
<1>7. ASSUME NEW cmd \in Command, NEW start \in Index, Complete(start, cmd)
      PROVE  start \in 0..Len(Text) /\ Line!Complete(start, cmd)
  <2>1. /\ cmd \in Seq(Char) /\ Len(cmd) \in Nat
        /\ <<Space>> \in Seq(Char) /\ Len(<<Space>>) = 1 /\ <<Space>>[1] = Space
    OBVIOUS
  <2>2. start \in Nat /\ start < line_len /\ line_len' = start + Len(cmd) + 1
    BY <1>7 DEF Complete, IsPrefixAt, Index
  <2> DEFINE a == SubSeq(Text, 1, start)
             s == a \o cmd \o <<Space>>
  <2>3. /\ a \in Seq(Char) /\ Len(a) = start
        /\ \A i \in 1..start : a[i] = Text[i]
    BY SMTT(30), <1>0, <2>2, SubSeqProperties
  <2> HIDE DEF a
  <2>4. /\ a \o cmd \in Seq(Char) /\ Len(a \o cmd) = Len(a) + Len(cmd)
        /\ \A i \in 1..(Len(a) + Len(cmd)) :
             (a \o cmd)[i] = IF i <= Len(a) THEN a[i] ELSE cmd[i - Len(a)]
    BY <2>1, <2>3, ConcatProperties
  <2> DEFINE b == a \o cmd
  <2> HIDE DEF b
  <2>5. /\ s \in Seq(Char) /\ Len(s) = Len(b) + Len(<<Space>>)
        /\ \A i \in 1..(Len(b) + Len(<<Space>>)) :
             s[i] = IF i <= Len(b) THEN b[i] ELSE <<Space>>[i - Len(b)]
    <3>1. b \in Seq(Char) /\ s = b \o <<Space>>
      BY <2>4 DEF b
    <3> HIDE DEF s
    <3>. QED
      BY <2>1, <3>1, ConcatProperties
  <2> HIDE DEF s
  <2>6. ASSUME NEW i \in 1..line_len' PROVE buffer'[i - 1] = s[i]
    <3>0. /\ Len(a) = start /\ Len(b) = start + Len(cmd)
          /\ Len(<<Space>>) = 1 /\ <<Space>>[1] = Space
          /\ i \in 1..(start + Len(cmd) + 1)
      BY <2>1, <2>2, <2>3, <2>4 DEF b
    <3>1. CASE i <= start
      <4>1. s[i] = a[i] /\ a[i] = Text[i] /\ Text[i] = buffer[i - 1]
        BY <1>0, <2>1, <2>2, <2>3, <2>4, <2>5, <3>0, <3>1 DEF b
      <4>2. /\ i - 1 \in Index /\ i - 1 # start + Len(cmd)
            /\ i - 1 # start + Len(cmd) + 1
            /\ i - 1 \notin start..(start + Len(cmd) - 1)
        BY <1>0, <2>1, <2>2, <3>0, <3>1 DEF Index
      <4>. QED
        BY <1>7, <4>1, <4>2 DEF Complete
    <3>2. CASE i > start /\ i <= start + Len(cmd)
      <4>1. s[i] = cmd[i - start]
        <5>1. /\ i \in 1..(Len(b) + Len(<<Space>>)) /\ i <= Len(b)
              /\ i \in 1..(Len(a) + Len(cmd)) /\ ~(i <= Len(a)) /\ i - Len(a) = i - start
          BY <2>1, <2>2, <3>0, <3>2
        <5>2. s[i] = b[i]
          BY <2>5, <5>1
        <5>3. b[i] = cmd[i - Len(a)]
          BY <2>4, <5>1 DEF b
        <5>. QED
          BY <5>1, <5>2, <5>3
      <4>2. i - 1 \in start..(start + Len(cmd) - 1) /\ (i - 1) - start + 1 = i - start
        BY <2>1, <2>2, <3>0, <3>2
      <4>3. i - 1 \in Index
        BY <1>0, <3>0, <2>2 DEF Index
      <4>. QED
        BY <1>7, <4>1, <4>2, <4>3 DEF Complete
    <3>3. CASE i = start + Len(cmd) + 1
      <4>0. i - Len(b) = 1 /\ ~(i <= Len(b)) /\ i \in 1..(Len(b) + Len(<<Space>>))
        BY <2>1, <2>2, <3>0, <3>3
      <4>1. s[i] = Space
        BY <2>5, <3>0, <4>0
      <4>2. /\ i - 1 = start + Len(cmd) /\ i - 1 \in Index
            /\ i - 1 \notin start..(start + Len(cmd) - 1)
        BY <1>0, <2>1, <2>2, <3>3 DEF Index
      <4>. QED
        BY <1>7, <4>1, <4>2 DEF Complete
    <3>. QED
      BY <2>1, <2>2, <3>1, <3>2, <3>3
  <2>7. Text' = s /\ Len(s) = start + Len(cmd) + 1
    <3>1. Len(s) = start + Len(cmd) + 1
      BY <2>1, <2>3, <2>4, <2>5 DEF b
    <3>. QED
      BY <2>2, <2>5, <2>6, <3>1, TextAfter
  <2>8. start + Len(cmd) + 1 < MaxLineLength /\ cursor_pos' = start + Len(cmd) + 1
    BY <1>7 DEF Complete
  <2>9. [text |-> Text', cursor |-> cursor_pos'] = Line!Completed(line, start, cmd)
    <3>1. ~(start + Len(cmd) + 1 >= MaxLineLength)
      BY <2>1, <2>2, <2>8
    <3>2. Line!Completed(line, start, cmd) = Line!AtEnd(s)
      BY <3>1 DEF a, s, Line!Completed
    <3>. QED
      BY <2>7, <2>8, <3>2 DEF Line!AtEnd
  <2>. QED
    BY <1>0, <2>2, <2>9 DEF Line!Complete
<1>8. ASSUME NEW t \in Entry, LoadEntry(t) PROVE Line!Load(t)
  BY <1>0, <1>6, <1>8 DEF LoadEntry, BoundedLength, Index
<1>9. ASSUME NEW t \in Entry, NEW junk \in Byte, CopyFrom(t, junk) PROVE Line!Load(t)
  BY <1>0, <1>6, <1>9 DEF CopyFrom, BoundedLength, Index
<1>10. CASE UNCHANGED vars
  BY <1>10 DEF vars, Text
<1>. QED
  BY <1>1, <1>2, <1>3, <1>4, <1>5, <1>7, <1>8, <1>9, <1>10 DEF Next, Line!Next

(* Editing the bytes implements editing the text: whatever the capacity,   *)
(* the alphabet and the initial garbage, every behaviour of LineBuffer is  *)
(* one TextLine allows.                                                    *)
THEOREM LineBufferRefinesTextLine == Spec => EditsText
<1>1. Init => Line!Init
  <2> SUFFICES ASSUME Init PROVE Text = <<>> /\ cursor_pos = 0
    BY DEF Line!Init, Line!EmptyLine
  <2>. QED
    BY DEF Init, Text
<1>. QED
  BY <1>1, InitInv, NextInv, StepRefines, PTL DEF Spec, EditsText, Line!Spec

=============================================================================
