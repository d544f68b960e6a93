------------------------ MODULE InputProcessorProofs ------------------------
(***************************************************************************)
(* Proofs about InputProcessor, for every alphabet, command table, size of *)
(* line and history, and every sequence of bytes: the targeted redraws of  *)
(* lishInputProcessor.ipp keep the screen the same as the line, history    *)
(* recalls whole lines, and each line ending submits once.                 *)
(***************************************************************************)
EXTENDS InputProcessor, SequenceTheorems, TLAPS

(* Of these, those about sets and scans; none about the parser.            *)
Facts == INSTANCE ScanFacts WITH NUL <- LF

-----------------------------------------------------------------------------
(* Lines.                                                                  *)

LEMMA Sizes == MaxLineLength \in Nat /\ MaxLineLength > 0 /\ HistoryLength \in 0..HistoryLength
  BY SizeAssumption

LineOK(l) == l \in L!Lines /\ l.cursor <= Len(l.text) /\ Len(l.text) < MaxLineLength

LEMMA Inserting ==
    ASSUME NEW S, NEW s \in Seq(S), NEW k \in 1..(Len(s) + 1), NEW e \in S
    PROVE  /\ L!InsertAt(s, k, e) \in Seq(S)
           /\ Len(L!InsertAt(s, k, e)) = Len(s) + 1
           /\ \A i \in 1..(Len(s) + 1) :
                L!InsertAt(s, k, e)[i] = IF i < k THEN s[i] ELSE IF i = k THEN e ELSE s[i - 1]
<1> DEFINE a == SubSeq(s, 1, k - 1)
           b == SubSeq(s, k, Len(s))
<1>1. a \in Seq(S) /\ Len(a) = k - 1 /\ \A i \in 1..(k - 1) : a[i] = s[i]
  BY SubSeqProperties
<1>2. /\ b \in Seq(S) /\ Len(b) = Len(s) - k + 1
      /\ \A i \in 1..(Len(s) - k + 1) : b[i] = s[k + i - 1]
  BY SubSeqProperties
<1>3. <<e>> \in Seq(S) /\ Len(<<e>>) = 1 /\ <<e>>[1] = e
  OBVIOUS
<1>4. L!InsertAt(s, k, e) = (a \o <<e>>) \o b
  BY DEF L!InsertAt
<1> HIDE DEF a, b
<1>5. /\ a \o <<e>> \in Seq(S) /\ Len(a \o <<e>>) = k
      /\ \A i \in 1..k : (a \o <<e>>)[i] = IF i < k THEN s[i] ELSE e
  BY <1>1, <1>3, ConcatProperties
<1> QED
  BY SMTT(30), <1>2, <1>4, <1>5, ConcatProperties

LEMMA Removing ==
    ASSUME NEW S, NEW s \in Seq(S), NEW k \in 1..Len(s)
    PROVE  /\ L!RemoveAt(s, k) \in Seq(S)
           /\ Len(L!RemoveAt(s, k)) = Len(s) - 1
           /\ \A i \in 1..(Len(s) - 1) :
                L!RemoveAt(s, k)[i] = IF i < k THEN s[i] ELSE s[i + 1]
<1> DEFINE a == SubSeq(s, 1, k - 1)
           b == SubSeq(s, k + 1, Len(s))
<1>1. a \in Seq(S) /\ Len(a) = k - 1 /\ \A i \in 1..(k - 1) : a[i] = s[i]
  BY SubSeqProperties
<1>2. /\ b \in Seq(S) /\ Len(b) = Len(s) - k
      /\ \A i \in 1..(Len(s) - k) : b[i] = s[k + i]
  BY SubSeqProperties
<1>3. L!RemoveAt(s, k) = a \o b
  BY DEF L!RemoveAt
<1> HIDE DEF a, b
<1>4. /\ a \o b \in Seq(S)
      /\ Len(a \o b) = Len(a) + Len(b)
      /\ \A i \in 1..(Len(a) + Len(b)) :
           (a \o b)[i] = IF i <= Len(a) THEN a[i] ELSE b[i - Len(a)]
  BY <1>1, <1>2, ConcatProperties
<1>5. Len(s) \in Nat /\ Len(a) + Len(b) = Len(s) - 1
  BY <1>1, <1>2
<1>6. ASSUME NEW i \in 1..(Len(s) - 1)
      PROVE  (a \o b)[i] = IF i < k THEN s[i] ELSE s[i + 1]
  <2>1. CASE i < k
    BY <1>1, <1>4, <1>5, <2>1
  <2>2. CASE i >= k
    <3>1. (a \o b)[i] = b[i - (k - 1)]
      BY <1>1, <1>4, <1>5, <2>2
    <3> QED
      BY <1>2, <1>5, <2>2, <3>1
  <2> QED
    BY <1>5, <2>1, <2>2
<1> QED
  BY <1>3, <1>4, <1>5, <1>6

LEMMA LineParts ==
    ASSUME NEW l, LineOK(l)
    PROVE  /\ l.text \in Seq(Char) /\ Len(l.text) \in Nat /\ l.cursor \in 0..Len(l.text)
           /\ Len(l.text) < MaxLineLength
           /\ l = [text |-> l.text, cursor |-> l.cursor]
  BY DEF LineOK, L!Lines

LEMMA MadeLine ==
    ASSUME NEW t \in Seq(Char), NEW k \in 0..Len(t), Len(t) < MaxLineLength
    PROVE  LineOK([text |-> t, cursor |-> k])
  BY DEF LineOK, L!Lines

(* The line after each edit.                                               *)
LEMMA InsertedLine ==
    ASSUME NEW l, LineOK(l), NEW x \in Char, L!Inserted(l, x) # l
    PROVE  LET m == L!Inserted(l, x) IN
           /\ LineOK(m) /\ m.cursor = l.cursor + 1
           /\ \A i \in 1..l.cursor : m.text[i] = l.text[i]
<1> DEFINE s == l.text
           k == l.cursor + 1
           t == L!InsertAt(s, k, x)
<1>1. /\ s \in Seq(Char) /\ l.cursor \in 0..Len(s) /\ Len(s) < MaxLineLength
      /\ Len(s) \in Nat
  BY LineParts
<1>2. L!Inserted(l, x) = [text |-> t, cursor |-> k] /\ Len(s) < MaxLineLength - 1
  BY <1>1, SizeAssumption DEF L!Inserted, L!IsFull
<1>3. k \in 1..(Len(s) + 1)
  BY <1>1
<1> HIDE DEF k, s
<1>4. /\ L!InsertAt(s, k, x) \in Seq(Char) /\ Len(L!InsertAt(s, k, x)) = Len(s) + 1
      /\ \A i \in 1..(Len(s) + 1) :
            L!InsertAt(s, k, x)[i] = IF i < k THEN s[i] ELSE IF i = k THEN x ELSE s[i - 1]
  BY <1>1, <1>3, Inserting
<1>5. Len(t) < MaxLineLength /\ k \in 0..Len(t) /\ t \in Seq(Char)
  BY <1>1, <1>2, <1>3, <1>4, SizeAssumption
<1>6. \A i \in 1..l.cursor : t[i] = s[i]
  BY SMTT(30), <1>1, <1>4 DEF k
<1> HIDE DEF t
<1>7. LineOK([text |-> t, cursor |-> k])
  BY <1>5, MadeLine
<1> QED
  BY <1>2, <1>6, <1>7 DEF k, s

LEMMA BackspacedLine ==
    ASSUME NEW l, LineOK(l), L!Backspaced(l) # l
    PROVE  LET m == L!Backspaced(l) IN
           /\ LineOK(m) /\ m.cursor = l.cursor - 1 /\ l.cursor > 0
           /\ \A i \in 1..m.cursor : m.text[i] = l.text[i]
<1> DEFINE s == l.text
           k == l.cursor
           t == L!RemoveAt(s, k)
<1>1. s \in Seq(Char) /\ k \in 0..Len(s) /\ Len(s) < MaxLineLength /\ Len(s) \in Nat
  BY LineParts
<1>2. L!Backspaced(l) = [text |-> t, cursor |-> k - 1] /\ k # 0
  <2>1. k # 0
    BY DEF L!Backspaced
  <2> QED
    BY <2>1 DEF L!Backspaced
<1>3. k \in 1..Len(s)
  BY <1>1, <1>2
<1> HIDE DEF k, s
<1>4. /\ L!RemoveAt(s, k) \in Seq(Char) /\ Len(L!RemoveAt(s, k)) = Len(s) - 1
      /\ \A i \in 1..(Len(s) - 1) : L!RemoveAt(s, k)[i] = IF i < k THEN s[i] ELSE s[i + 1]
  BY <1>1, <1>3, Removing
<1>5. Len(t) < MaxLineLength /\ k - 1 \in 0..Len(t) /\ t \in Seq(Char)
  BY <1>1, <1>3, <1>4, SizeAssumption
<1>6. \A i \in 1..(k - 1) : t[i] = s[i]
  BY <1>1, <1>3, <1>4
<1> HIDE DEF t
<1>7. LineOK([text |-> t, cursor |-> k - 1])
  BY <1>5, MadeLine
<1>8. k > 0
  BY <1>3
<1> QED
  BY <1>2, <1>6, <1>7, <1>8 DEF k, s

LEMMA DeletedLine ==
    ASSUME NEW l, LineOK(l), L!Deleted(l) # l
    PROVE  LET m == L!Deleted(l) IN
           /\ LineOK(m) /\ m.cursor = l.cursor
           /\ \A i \in 1..m.cursor : m.text[i] = l.text[i]
<1> DEFINE s == l.text
           c == l.cursor
           k == c + 1
           t == L!RemoveAt(s, k)
<1>1. /\ s \in Seq(Char) /\ c \in 0..Len(s) /\ Len(s) < MaxLineLength
      /\ Len(s) \in Nat /\ l = [text |-> s, cursor |-> c]
  BY LineParts
<1>0. c < Len(s)
  BY <1>1 DEF L!Deleted
<1>2. L!Deleted(l) = [l EXCEPT !.text = t]
  BY <1>0, <1>1 DEF L!Deleted
<1>3. k \in 1..Len(s)
  BY <1>0, <1>1
<1> HIDE DEF k, s, c
<1>4. /\ L!RemoveAt(s, k) \in Seq(Char) /\ Len(L!RemoveAt(s, k)) = Len(s) - 1
      /\ \A i \in 1..(Len(s) - 1) : L!RemoveAt(s, k)[i] = IF i < k THEN s[i] ELSE s[i + 1]
  BY <1>1, <1>3, Removing
<1>5. Len(t) < MaxLineLength /\ c \in 0..Len(t) /\ t \in Seq(Char)
  BY <1>0, <1>1, <1>4, SizeAssumption
<1>6. \A i \in 1..c : t[i] = s[i]
  BY <1>0, <1>1, <1>4 DEF k
<1> HIDE DEF t
<1>7. L!Deleted(l) = [text |-> t, cursor |-> c]
  BY <1>1, <1>2
<1>8. LineOK([text |-> t, cursor |-> c])
  BY <1>5, MadeLine
<1> QED
  BY <1>6, <1>7, <1>8 DEF s, c

LEMMA MovedLine ==
    ASSUME NEW l, LineOK(l),
           NEW m \in {L!MovedLeft(l), L!MovedRight(l), L!MovedHome(l), L!MovedEnd(l)}
    PROVE  LineOK(m) /\ m.text = l.text
<1>1. l.text \in Seq(Char) /\ l.cursor \in 0..Len(l.text) /\ Len(l.text) < MaxLineLength
      /\ l = [text |-> l.text, cursor |-> l.cursor] /\ Len(l.text) \in Nat
  BY LineParts
<1>2. PICK k \in 0..Len(l.text) : m = [text |-> l.text, cursor |-> k]
  <2> DEFINE at(k) == [text |-> l.text, cursor |-> k]
  <2>1. \A k : [l EXCEPT !.cursor = k] = at(k)
    BY <1>1
  <2>2. /\ L!MovedHome(l) = at(0) /\ L!MovedEnd(l) = at(Len(l.text))
        /\ L!MovedLeft(l) = IF l.cursor > 0 THEN at(l.cursor - 1) ELSE at(l.cursor)
        /\ L!MovedRight(l) = IF l.cursor < Len(l.text) THEN at(l.cursor + 1) ELSE at(l.cursor)
    BY <1>1, <2>1 DEF L!MovedLeft, L!MovedRight, L!MovedHome, L!MovedEnd
  <2> HIDE DEF at
  <2>3. \E k \in 0..Len(l.text) : m = at(k)
    BY <1>1, <2>2
  <2> QED
    BY <2>3 DEF at
<1> QED
  BY <1>1, <1>2, MadeLine

LEMMA LoadedLine ==
    ASSUME NEW t \in Seq(Char)
    PROVE  LineOK(L!Loaded(t)) /\ (Len(t) < MaxLineLength => L!Loaded(t) = L!AtEnd(t))
<1> DEFINE n == IF Len(t) < MaxLineLength THEN Len(t) ELSE MaxLineLength - 1
           cut == SubSeq(t, 1, n)
<1>1. n \in 0..Len(t) /\ n < MaxLineLength /\ Len(t) \in Nat
  BY SizeAssumption
<1>2. L!Loaded(t) = [text |-> cut, cursor |-> Len(cut)]
  BY DEF L!Loaded, L!AtEnd
<1>3. Len(t) < MaxLineLength => cut = t
  BY SubSeqFull
<1> HIDE DEF n
<1>4. cut \in Seq(Char) /\ Len(cut) = n
  BY <1>1
<1> HIDE DEF cut
<1> QED
  BY <1>1, <1>2, <1>3, <1>4, MadeLine DEF L!AtEnd

-----------------------------------------------------------------------------
(* Screens.                                                                *)

Shown(l) == [row |-> l.text, col |-> l.cursor]

LEMMA Singleton ==
    ASSUME NEW S, NEW x \in S
    PROVE  <<x>> \in Seq(S) /\ Len(<<x>>) = 1
  OBVIOUS

LEMMA RowIsSeq ==
    ASSUME NEW S, NEW n \in Nat, NEW row \in [1..n -> S]
    PROVE  row \in Seq(S) /\ Len(row) = n
  OBVIOUS

LEMMA WrittenRow ==
    ASSUME NEW scr \in Term!Screens(Char), NEW s \in Seq(Char)
    PROVE  /\ Term!Written(scr, s) \in Term!Screens(Char)
           /\ Term!Written(scr, s).col = scr.col + Len(s)
           /\ Len(Term!Written(scr, s).row) =
                IF Len(scr.row) < scr.col + Len(s) THEN scr.col + Len(s) ELSE Len(scr.row)
           /\ scr.col <= Len(scr.row) =>
                \A i \in 1..Len(Term!Written(scr, s).row) :
                   Term!Written(scr, s).row[i] =
                      IF i \in (scr.col + 1)..(scr.col + Len(s)) THEN s[i - scr.col] ELSE scr.row[i]
<1> DEFINE r == scr.row
           c == scr.col
           n == c + Len(s)
           N == IF Len(r) < n THEN n ELSE Len(r)
           wide == [i \in 1..N |-> IF i <= Len(r) THEN r[i] ELSE " "]
           new == [i \in 1..N |-> IF i \in (c + 1)..n THEN s[i - c] ELSE wide[i]]
<1>1. r \in Seq(Char) /\ c \in Nat /\ Len(r) \in Nat /\ Len(s) \in Nat
  BY DEF Term!Screens
<1>2. Term!Stretched(r, n) = wide
  BY DEF Term!Stretched
<1>3. Term!Written(scr, s) =
        [row |-> [i \in 1..Len(wide) |-> IF i \in (c + 1)..n THEN s[i - c] ELSE wide[i]],
         col |-> n]
  BY <1>2 DEF Term!Written
<1> HIDE DEF r, c
<1>4. n \in Nat /\ N \in Nat /\ (c <= Len(r) => c <= N) /\ n = c + Len(s)
  BY <1>1
<1> HIDE DEF n, N
<1>5. wide \in [1..N -> Char]
  <2>1. ASSUME NEW i \in 1..N PROVE (IF i <= Len(r) THEN r[i] ELSE " ") \in Char
    <3>1. CASE i <= Len(r)
      BY <1>1, <1>4, <3>1
    <3>2. CASE ~(i <= Len(r))
      BY <3>2, CharAssumption
    <3> QED
      BY <3>1, <3>2
  <2> QED
    BY <2>1
<1>5a. \A i \in 1..N : wide[i] = IF i <= Len(r) THEN r[i] ELSE " "
  OBVIOUS
<1> HIDE DEF wide
<1>6. Len(wide) = N
  BY <1>4, <1>5, RowIsSeq
<1>7. new \in [1..N -> Char]
  <2>1. ASSUME NEW i \in 1..N, i \in (c + 1)..n PROVE s[i - c] \in Char
    <3>1. i - c \in 1..Len(s)
      BY <1>1, <1>4, <2>1
    <3> QED
      BY <3>1
  <2> QED
    BY <1>5, <2>1
<1>8. \A i \in 1..N : new[i] = IF i \in (c + 1)..n THEN s[i - c] ELSE wide[i]
  OBVIOUS
<1>9. Term!Written(scr, s) = [row |-> new, col |-> n]
  BY <1>3, <1>6
<1> HIDE DEF new
<1>10. Len(new) = N /\ new \in Seq(Char)
  BY <1>4, <1>7, RowIsSeq
<1>11. ASSUME c <= Len(r), NEW i \in 1..N
       PROVE  new[i] = IF i \in (c + 1)..n THEN s[i - c] ELSE r[i]
  <2>1. CASE i \in (c + 1)..n
    BY <1>8, <2>1
  <2>2. CASE i \notin (c + 1)..n
    <3>1. i <= Len(r)
      <4>1. CASE i <= c
        BY <1>1, <1>4, <1>11, <4>1
      <4>2. CASE i > n
        BY <1>1, <1>4, <4>2 DEF N
      <4> QED
        BY <1>1, <1>4, <2>2, <4>1, <4>2
    <3> QED
      BY <1>8, <1>5a, <2>2, <3>1
  <2> QED
    BY <2>1, <2>2
<1> QED
  BY <1>4, <1>9, <1>10, <1>11 DEF n, N, r, c, Term!Screens

(* Redrawing from the column where a line begins to differ from the row    *)
(* shows the line.                                                         *)
LEMMA RepaintedShows ==
    ASSUME NEW scr \in Term!Screens(Char), NEW l, LineOK(l), NEW k \in Nat,
           scr.col = k, k <= Len(scr.row), k <= Len(l.text),
           \A i \in 1..k : scr.row[i] = l.text[i]
    PROVE  Repainted(scr, l, k) = Shown(l)
<1> DEFINE t == l.text
           s == SubSeq(t, k + 1, Len(t))
           w == Term!Written(scr, s)
           e == Term!ErasedToEnd(w)
<1>1. t \in Seq(Char) /\ Len(t) \in Nat /\ l.cursor \in 0..Len(t)
  BY LineParts
<1> HIDE DEF t
<1>2. s \in Seq(Char) /\ Len(s) = Len(t) - k /\ \A i \in 1..(Len(t) - k) : s[i] = t[k + i]
  BY SMTT(30), <1>1, SubSeqProperties DEF t
<1> HIDE DEF s
<1>3. w \in Term!Screens(Char) /\ w.col = Len(t)
      /\ Len(w.row) = (IF Len(scr.row) < Len(t) THEN Len(t) ELSE Len(scr.row))
  BY SMTT(30), <1>1, <1>2, WrittenRow
<1>4. \A i \in 1..Len(t) : w.row[i] = t[i]
  <2> TAKE i \in 1..Len(t)
  <2>1. w.row[i] = IF i \in (k + 1)..(k + Len(s)) THEN s[i - k] ELSE scr.row[i]
    <3>1. Len(scr.row) \in Nat /\ i \in 1..Len(w.row)
      BY <1>1, <1>3 DEF Term!Screens
    <3> QED
      BY <3>1, WrittenRow, <1>2
  <2>2. CASE i <= k
    BY <1>1, <1>2, <2>1, <2>2 DEF t
  <2>3. CASE i > k
    <3>1. i - k \in 1..(Len(t) - k) /\ k + (i - k) = i
      BY <1>1, <2>3
    <3>2. w.row[i] = s[i - k]
      BY <1>1, <1>2, <2>1, <2>3
    <3> QED
      BY <1>2, <3>1, <3>2
  <2> QED
    BY <2>2, <2>3, <1>1
<1> HIDE DEF w
<1>5. w = [row |-> w.row, col |-> Len(t)] /\ w.row \in Seq(Char) /\ Len(w.row) \in Nat /\ Len(t) <= Len(w.row)
  BY <1>1, <1>3 DEF Term!Screens
<1>6. SubSeq(w.row, 1, Len(t)) = t
  <2> DEFINE r == w.row
  <2>0. r \in Seq(Char) /\ Len(r) \in Nat /\ Len(t) <= Len(r) /\ \A i \in 1..Len(t) : r[i] = t[i]
    BY <1>4, <1>5
  <2> HIDE DEF r
  <2>1. /\ SubSeq(r, 1, Len(t)) \in Seq(Char) /\ Len(SubSeq(r, 1, Len(t))) = Len(t)
        /\ \A i \in 1..Len(t) : SubSeq(r, 1, Len(t))[i] = r[i]
    BY <1>1, <2>0
  <2>2. SubSeq(r, 1, Len(t)) = t
    <3> DEFINE q == SubSeq(r, 1, Len(t))
    <3> HIDE DEF q
    <3>1. q \in Seq(Char) /\ Len(q) = Len(t) /\ \A i \in 1..Len(q) : q[i] = t[i]
      BY <1>1, <2>0, <2>1 DEF q
    <3>2. q = t
      BY <1>1, <3>1, SeqEqual
    <3> QED
      BY <3>2 DEF q
  <2> QED
    BY <2>2 DEF r
<1>7. e = [row |-> t, col |-> Len(t)]
  <2>1. e = [w EXCEPT !.row = SubSeq(w.row, 1, IF w.col < Len(w.row) THEN w.col ELSE Len(w.row))]
    BY DEF Term!ErasedToEnd
  <2>2. (IF w.col < Len(w.row) THEN w.col ELSE Len(w.row)) = Len(t)
    BY <1>1, <1>3, <1>5
  <2> HIDE DEF e
  <2>3. e = [w EXCEPT !.row = t]
    BY <1>6, <2>1, <2>2
  <2> QED
    BY <1>5, <2>3
<1>8. Repainted(scr, l, k) = Term!MovedBack(e, Len(t) - l.cursor)
  BY DEF Repainted, w, s, t
<1> HIDE DEF e
<1>9. Term!MovedBack(e, Len(t) - l.cursor) = [row |-> t, col |-> l.cursor]
  <2> DEFINE c == l.cursor
  <2>1. c \in 0..Len(t)
    BY <1>1
  <2> HIDE DEF c
  <2>2. (IF Len(t) < Len(t) - c THEN 0 ELSE Len(t) - (Len(t) - c)) = c
    BY <1>1, <2>1
  <2> QED
    BY <1>7, <2>2 DEF Term!MovedBack, c
<1> QED
  BY <1>8, <1>9 DEF Shown, t

-----------------------------------------------------------------------------
(* Histories.                                                              *)

Recallable == {e \in Seq(Char) : Len(e) < MaxLineLength /\ ~IsBlank(e)}

HistoryOK(h) ==
    /\ h = [entries |-> h.entries, cursor |-> h.cursor]
    /\ h.entries \in Seq(Recallable)
    /\ h.cursor \in 0..HistoryLength
    /\ H!IsBrowsing(h) => h.cursor < Len(h.entries)

LEMMA CancelledHistory ==
    ASSUME NEW h, h = [entries |-> h.entries, cursor |-> h.cursor], h.entries \in Seq(Recallable)
    PROVE  HistoryOK(H!Cancelled(h)) /\ ~H!IsBrowsing(H!Cancelled(h))
           /\ H!Cancelled(h).entries = h.entries
<1> DEFINE es == h.entries
           c == h.cursor
<1>1. h = [entries |-> es, cursor |-> c] /\ es \in Seq(Recallable)
  OBVIOUS
<1>2. H!Cancelled(h) = [h EXCEPT !.cursor = HistoryLength]
  BY DEF H!Cancelled, H!NotBrowsing
<1> HIDE DEF es, c
<1>3. H!Cancelled(h) = [entries |-> es, cursor |-> HistoryLength]
  BY <1>1, <1>2
<1>4. HistoryLength \in 0..HistoryLength
  BY Sizes
<1> QED
  BY <1>1, <1>3, <1>4 DEF es, HistoryOK, H!IsBrowsing, H!NotBrowsing

LEMMA CurrentEntry ==
    ASSUME NEW h, HistoryOK(h)
    PROVE  /\ H!Current(h) \in Seq(Char) /\ Len(H!Current(h)) < MaxLineLength
           /\ L!Loaded(H!Current(h)) = L!AtEnd(H!Current(h))
           /\ Shown(L!AtEnd(H!Current(h))) = Term!Redrawn(H!Current(h))
<1> DEFINE es == h.entries
           i == IF H!IsBrowsing(h) THEN h.cursor ELSE 0
           e == H!Current(h)
<1>1. es \in Seq(Recallable) /\ Len(es) \in Nat /\ h.cursor \in 0..HistoryLength
      /\ (H!IsBrowsing(h) => h.cursor < Len(es))
  BY DEF HistoryOK
<1>2. e = IF es = <<>> THEN <<>> ELSE es[i + 1]
  BY DEF H!Current
<1> HIDE DEF es, e
<1>3. e \in Seq(Char) /\ Len(e) < MaxLineLength
  <2>1. CASE es = <<>>
    BY <1>2, <2>1, SizeAssumption
  <2>2. CASE es # <<>>
    <3>1. i + 1 \in 1..Len(es)
      BY <1>1, <2>2
    <3>2. e \in Recallable
      BY <1>1, <1>2, <2>2, <3>1
    <3> QED
      BY <3>2 DEF Recallable
  <2> QED
    BY <2>1, <2>2
<1>4. L!Loaded(e) = L!AtEnd(e)
  BY <1>3, LoadedLine
<1> QED
  BY <1>3, <1>4 DEF e, Shown, L!AtEnd, Term!Redrawn

LEMMA OlderHistory ==
    ASSUME NEW h, HistoryOK(h), H!PrevMoves(h)
    PROVE  /\ HistoryOK(H!Older(h)) /\ H!Older(h).entries = h.entries
           /\ Len(h.entries) <= HistoryLength => H!IsBrowsing(H!Older(h))
<1> DEFINE es == h.entries
           c == h.cursor
           n == IF H!IsBrowsing(h) THEN c + 1 ELSE 0
<1>1. es \in Seq(Recallable) /\ Len(es) \in Nat /\ c \in 0..HistoryLength
      /\ h = [entries |-> es, cursor |-> c]
  BY DEF HistoryOK
<1>2. H!Older(h) = [entries |-> es, cursor |-> n]
  BY <1>1 DEF H!Older
<1>3. Len(es) % 256 > 0 /\ (H!IsBrowsing(h) => c < (Len(es) % 256) - 1) /\ Len(es) % 256 <= Len(es)
  BY <1>1 DEF H!PrevMoves, H!Count
<1>4. H!IsBrowsing(h) <=> c # HistoryLength
  BY DEF H!IsBrowsing, H!NotBrowsing
<1> HIDE DEF es, c
<1>5. n \in 0..HistoryLength /\ n < Len(es)
  BY <1>1, <1>3, <1>4, SizeAssumption
<1> HIDE DEF n
<1>6. HistoryOK([entries |-> es, cursor |-> n])
  BY <1>1, <1>5 DEF HistoryOK, H!IsBrowsing
<1>7. Len(es) <= HistoryLength => n # HistoryLength
  BY <1>1, <1>5, SizeAssumption
<1> QED
  BY <1>2, <1>6, <1>7 DEF es, H!IsBrowsing, H!NotBrowsing

LEMMA NewerHistory ==
    ASSUME NEW h, HistoryOK(h)
    PROVE  /\ HistoryOK(H!Newer(h)) /\ H!Newer(h).entries = h.entries
           /\ H!IsBrowsing(H!Newer(h)) <=> H!NextMoves(h)
<1> DEFINE es == h.entries
           c == h.cursor
           n == IF H!NextMoves(h) THEN c - 1 ELSE HistoryLength
<1>1. es \in Seq(Recallable) /\ Len(es) \in Nat /\ c \in 0..HistoryLength
      /\ h = [entries |-> es, cursor |-> c] /\ (H!IsBrowsing(h) => c < Len(es))
  BY DEF HistoryOK
<1>2. H!Newer(h) = [entries |-> es, cursor |-> n]
  BY <1>1 DEF H!Newer, H!NotBrowsing
<1>3. H!NextMoves(h) <=> c # HistoryLength /\ c > 0
  BY DEF H!NextMoves, H!IsBrowsing, H!NotBrowsing
<1>4. H!IsBrowsing(h) <=> c # HistoryLength
  BY DEF H!IsBrowsing, H!NotBrowsing
<1> HIDE DEF es, c
<1>5. /\ n \in 0..HistoryLength /\ (n # HistoryLength => n < Len(es))
      /\ n # HistoryLength <=> H!NextMoves(h)
  BY <1>1, <1>3, <1>4, SizeAssumption
<1> HIDE DEF n
<1>6. HistoryOK([entries |-> es, cursor |-> n])
  BY <1>1, <1>5 DEF HistoryOK, H!IsBrowsing, H!NotBrowsing
<1> QED
  BY <1>2, <1>5, <1>6 DEF es, H!IsBrowsing, H!NotBrowsing

(* Eviction keeps entries, as does the removal of a duplicate.             *)
LEMMA EvictedEntries ==
    ASSUME NEW S, NEW es \in Seq(S), NEW need
    PROVE  H!Evicted(es, need) \in Seq(S)
<1> DEFINE fits == {k \in 0..Len(es) : H!SizeOf(SubSeq(es, 1, k)) + need <= H!BUFFER_SIZE}
<1>1. H!Evicted(es, need) = IF fits = {} THEN <<>> ELSE SubSeq(es, 1, H!Max(fits))
  BY DEF H!Evicted
<1>2. fits \in SUBSET (0..Len(es)) /\ Len(es) \in Nat
  OBVIOUS
<1> HIDE DEF fits
<1>3. CASE fits = {}
  BY <1>1, <1>3
<1>4. CASE fits # {}
  <2>1. H!Max(fits) \in fits
    <3>1. \E k \in fits : \A m \in fits : k >= m
      BY <1>2, <1>4, Facts!HasGreatest
    <3> QED
      BY <3>1 DEF H!Max
  <2>2. H!Max(fits) \in 0..Len(es)
    BY <1>2, <2>1
  <2> QED
    BY <1>1, <1>2, <1>4, <2>2
<1> QED
  BY <1>3, <1>4

LEMMA PushedHistory ==
    ASSUME NEW S, NEW s \in S, ~IsBlank(s),
           NEW h, h = [entries |-> h.entries, cursor |-> h.cursor], h.entries \in Seq(S)
    PROVE  LET p == H!Pushed(h, s) IN
           p = [entries |-> p.entries, cursor |-> p.cursor] /\ p.entries \in Seq(S)
<1> DEFINE es == h.entries
           c == h.cursor
           dups == H!Duplicates(es, s)
           kept == H!Evicted(es, H!EntrySize(s))
           p == H!Pushed(h, s)
<1>1. es \in Seq(S) /\ Len(es) \in Nat /\ h = [entries |-> es, cursor |-> c]
  OBVIOUS
<1>2. p = CASE s = <<>> -> h
            [] 1 \in dups -> [h EXCEPT !.cursor = HistoryLength]
            [] dups # {} /\ 1 \notin dups ->
                 [entries |-> <<s>> \o H!RemoveAt(es, H!Min(dups)), cursor |-> HistoryLength]
            [] s # <<>> /\ dups = {} /\ H!EntrySize(s) > H!BUFFER_SIZE -> [h EXCEPT !.entries = kept]
            [] OTHER -> [entries |-> <<s>> \o kept, cursor |-> HistoryLength]
  BY DEF H!Pushed, H!NotBrowsing
<1>3. dups \in SUBSET (1..Len(es))
  BY DEF H!Duplicates
<1>4. kept \in Seq(S)
  BY <1>1, EvictedEntries
<1>5. <<s>> \in Seq(S)
  OBVIOUS
<1> HIDE DEF es, c, dups, kept, p
<1>6. ASSUME dups # {} PROVE <<s>> \o H!RemoveAt(es, H!Min(dups)) \in Seq(S)
  <2> DEFINE k == H!Min(dups)
  <2>1. k \in dups
    <3>1. dups \in SUBSET Nat
      BY <1>3
    <3>2. \E m \in dups : \A d \in dups : m <= d
      BY <1>6, <3>1, Facts!HasLeast
    <3> QED
      BY <3>2 DEF H!Min
  <2> HIDE DEF k
  <2>2. k \in 1..Len(es)
    BY <1>3, <2>1
  <2>3. H!RemoveAt(es, k) = SubSeq(es, 1, k - 1) \o SubSeq(es, k + 1, Len(es))
    BY DEF H!RemoveAt
  <2>4. SubSeq(es, 1, k - 1) \in Seq(S) /\ SubSeq(es, k + 1, Len(es)) \in Seq(S)
    BY <1>1, <2>2, SubSeqProperties
  <2>5. H!RemoveAt(es, k) \in Seq(S)
    BY <2>3, <2>4, ConcatProperties
  <2>6. <<s>> \o H!RemoveAt(es, k) \in Seq(S)
    BY <1>5, <2>5, ConcatProperties
  <2> QED
    BY <2>6 DEF k
<1>7. <<s>> \o kept \in Seq(S)
  BY <1>4, <1>5, ConcatProperties
<1>8. \E x \in Seq(S) : \E y : p = [entries |-> x, cursor |-> y]
  <2>1. s # <<>>
    <3>1. s = <<>> => 1..Len(s) = {}
      OBVIOUS
    <3> QED
      BY <3>1 DEF IsBlank
  <2>2. CASE s # <<>> /\ 1 \in dups
    <3>1. p = [h EXCEPT !.cursor = HistoryLength]
      BY <1>2, <2>2
    <3>2. p = [entries |-> es, cursor |-> HistoryLength]
      BY <1>1, <3>1
    <3> QED
      BY <1>1, <3>2
  <2>3. CASE s # <<>> /\ dups # {} /\ 1 \notin dups
    <3>1. p = [entries |-> <<s>> \o H!RemoveAt(es, H!Min(dups)), cursor |-> HistoryLength]
      BY <1>2, <2>3
    <3> QED
      BY <1>6, <2>3, <3>1
  <2>4. CASE s # <<>> /\ dups = {} /\ H!EntrySize(s) > H!BUFFER_SIZE
    <3>1. p = [h EXCEPT !.entries = kept]
      BY <1>2, <2>4
    <3>2. p = [entries |-> kept, cursor |-> c]
      BY <1>1, <3>1
    <3> QED
      BY <1>4, <3>2
  <2>5. CASE s # <<>> /\ dups = {} /\ ~(H!EntrySize(s) > H!BUFFER_SIZE)
    <3>1. p = [entries |-> <<s>> \o kept, cursor |-> HistoryLength]
      BY <1>2, <2>5
    <3> QED
      BY <1>7, <3>1
  <2> QED
    BY <2>1, <2>2, <2>3, <2>4, <2>5
<1> QED
  BY <1>8 DEF p

-----------------------------------------------------------------------------
(* Completion.                                                             *)

(* The scan for the last separator stays in the text.                      *)
LEMMA SegmentInText ==
    ASSUME NEW text \in Seq(Char)
    PROVE  T!SegmentStart(text) \in 0..Len(text)
<1>1. T!SegmentStart(text) = Facts!AfterLastSeparator(text)
  BY Zenon DEF T!SegmentStart, Facts!AfterLastSeparator
<1> QED
  BY <1>1, Facts!AfterLastInText

LEMMA WordInText ==
    ASSUME NEW text \in Seq(Char)
    PROVE  T!WordStart(text) \in 0..Len(text)
<1> DEFINE s == T!SegmentStart(text)
           n == Len(text)
           starts == {i \in s..n : i = n \/ text[i + 1] # " "}
<1>1. s \in 0..n /\ n \in Nat
  BY SegmentInText
<1>3. T!WordStart(text) = T!Min(starts)
  BY DEF T!WordStart
<1> HIDE DEF s, n
<1>2. starts \in SUBSET (0..n) /\ starts \in SUBSET Nat /\ n \in starts
  <2>1. n \in s..n /\ \A i \in s..n : i \in 0..n /\ i \in Nat
    BY <1>1
  <2> QED
    BY <2>1
<1> HIDE DEF starts
<1>4. \E i \in starts : \A m \in starts : i <= m
  BY <1>2, Facts!HasLeast
<1>5. T!Min(starts) \in starts
  BY <1>4 DEF T!Min
<1> QED
  BY <1>2, <1>3, <1>5 DEF n

(* A completed line is a line, its cursor at the end.                      *)
LEMMA CompletedLine ==
    ASSUME NEW text \in Seq(Char), NEW mode, T!Completes(text, mode)
    PROVE  LineOK(L!AtEnd(T!CompletedText(text, mode)))
<1> DEFINE w == T!WordStart(text)
           cmd == T!FullCommand(text, mode)
           ms == T!Matches(text, mode)
           a == SubSeq(text, 1, w)
           space == <<" ">>
           b == a \o cmd
           t == b \o space
<1>1. w \in 0..Len(text) /\ Len(text) \in Nat
  BY WordInText
<1>2. cmd \in Seq(Char)
  <2>1. ms \in SUBSET (1..Len(Commands))
    BY DEF T!Matches
  <2>2. cmd = IF ms = {} THEN T!HelpName ELSE Commands[T!Min(ms)].name
    BY DEF T!FullCommand
  <2> HIDE DEF ms
  <2>3. CASE ms = {}
    BY <2>2, <2>3, CharAssumption
  <2>4. CASE ms # {}
    <3>1. ms \in SUBSET Nat
      BY <2>1
    <3>2. \E k \in ms : \A m \in ms : k <= m
      BY <2>4, <3>1, Facts!HasLeast
    <3>3. T!Min(ms) \in ms
      BY <3>2 DEF T!Min
    <3>4. T!Min(ms) \in 1..Len(Commands)
      BY <2>1, <3>3
    <3> QED
      BY <2>2, <2>4, <3>4, CharAssumption
  <2> QED
    BY <2>3, <2>4
<1>3. w + Len(cmd) + 1 < MaxLineLength
  BY DEF T!Completes, T!Fits
<1>4. T!CompletedText(text, mode) = t
  BY DEF T!CompletedText
<1> HIDE DEF w, cmd
<1>5. a \in Seq(Char) /\ Len(a) = w
  BY <1>1, SubSeqProperties
<1>6. space \in Seq(Char) /\ Len(space) = 1
  <2>1. " " \in Char
    BY CharAssumption
  <2> QED
    BY <2>1, Singleton
<1> HIDE DEF a, space
<1>7. b \in Seq(Char) /\ Len(b) = w + Len(cmd)
  BY <1>2, <1>5, ConcatProperties
<1> HIDE DEF b
<1>8. t \in Seq(Char) /\ Len(t) = w + Len(cmd) + 1
  <2>0. b \in Seq(Char) /\ space \in Seq(Char)
    BY <1>6, <1>7
  <2>1. b \o space \in Seq(Char) /\ Len(b \o space) = Len(b) + Len(space)
    BY <2>0, ConcatProperties
  <2> QED
    BY <1>6, <1>7, <2>1
<1> HIDE DEF t
<1>9. Len(t) < MaxLineLength /\ Len(t) \in 0..Len(t)
  BY <1>3, <1>8
<1>10. LineOK([text |-> t, cursor |-> Len(t)])
  BY <1>8, <1>9, MadeLine
<1> QED
  BY <1>4, <1>10 DEF L!AtEnd

-----------------------------------------------------------------------------
(* What each key leaves behind.                                            *)

LEMMA ScreenMoves ==
    ASSUME NEW scr \in Term!Screens(Char)
    PROVE  /\ \A n \in Nat : Term!MovedBack(scr, n) \in Term!Screens(Char)
           /\ Term!MovedForward(scr) = [row |-> scr.row, col |-> scr.col + 1]
           /\ Term!MovedForward(scr) \in Term!Screens(Char)
           /\ Term!ErasedToEnd(scr) \in Term!Screens(Char)
<1> DEFINE r == scr.row
           c == scr.col
           m == IF c < Len(r) THEN c ELSE Len(r)
           q == SubSeq(r, 1, m)
<1>1. scr = [row |-> r, col |-> c] /\ r \in Seq(Char) /\ c \in Nat /\ Len(r) \in Nat
  BY DEF Term!Screens
<1>2. Term!MovedForward(scr) = [scr EXCEPT !.col = c + 1]
  BY DEF Term!MovedForward
<1>3. \A n \in Nat : Term!MovedBack(scr, n) = [scr EXCEPT !.col = IF c < n THEN 0 ELSE c - n]
  BY DEF Term!MovedBack
<1>4. Term!ErasedToEnd(scr) = [scr EXCEPT !.row = q]
  BY DEF Term!ErasedToEnd
<1> HIDE DEF r, c
<1>5. q \in Seq(Char)
  <2>1. m \in 0..Len(r)
    BY <1>1
  <2> HIDE DEF m
  <2> QED
    BY <1>1, <2>1
<1> HIDE DEF q
<1>6. Term!MovedForward(scr) = [row |-> r, col |-> c + 1]
  BY <1>1, <1>2
<1>7. Term!ErasedToEnd(scr) = [row |-> q, col |-> c]
  BY <1>1, <1>4
<1>8. ASSUME NEW n \in Nat PROVE Term!MovedBack(scr, n) \in Term!Screens(Char)
  <2> DEFINE k == IF c < n THEN 0 ELSE c - n
  <2>1. k \in Nat
    BY <1>1
  <2>2. Term!MovedBack(scr, n) = [scr EXCEPT !.col = k]
    BY <1>3
  <2> HIDE DEF k
  <2>3. Term!MovedBack(scr, n) = [row |-> r, col |-> k]
    BY <1>1, <2>2
  <2> QED
    BY <1>1, <2>1, <2>3 DEF Term!Screens
<1>9. Term!MovedForward(scr) \in Term!Screens(Char)
  BY <1>1, <1>6 DEF Term!Screens
<1>10. Term!ErasedToEnd(scr) \in Term!Screens(Char)
  BY <1>1, <1>5, <1>7 DEF Term!Screens
<1> QED
  BY <1>6, <1>8, <1>9, <1>10 DEF r, c

LEMMA RepaintedScreen ==
    ASSUME NEW scr \in Term!Screens(Char), NEW l, LineOK(l), NEW k \in Nat
    PROVE  Repainted(scr, l, k) \in Term!Screens(Char)
<1> DEFINE t == l.text
           c == l.cursor
           s == SubSeq(t, k + 1, Len(t))
           e == Term!ErasedToEnd(Term!Written(scr, s))
           n == Len(t) - c
<1>1. t \in Seq(Char) /\ Len(t) \in Nat /\ c \in 0..Len(t)
  BY LineParts
<1>2. Repainted(scr, l, k) = Term!MovedBack(e, n)
  BY DEF Repainted
<1> HIDE DEF t, c
<1>3. s \in Seq(Char) /\ n \in Nat
  BY <1>1, SubSeqProperties
<1> HIDE DEF s, n
<1>4. e \in Term!Screens(Char)
  BY <1>3, WrittenRow, ScreenMoves
<1> HIDE DEF e
<1> QED
  BY <1>2, <1>3, <1>4, ScreenMoves

(* A key that edits leaves a line and a screen, the same if they were.     *)
Editing(same) ==
    \E l, scr :
        /\ Edit(l, scr)
        /\ LineOK(l) /\ scr \in Term!Screens(Char)
        /\ screen = Shown(Live) /\ same => scr = Shown(l)

LEMMA LiveLine ==
    ASSUME LineOK(line), HistoryOK(history)
    PROVE  LineOK(Live)
  BY CurrentEntry, LoadedLine DEF Live

LEMMA ShownLine ==
    ASSUME NEW l, LineOK(l), NEW scr, scr = Shown(l)
    PROVE  /\ scr \in Term!Screens(Char) /\ scr.row = l.text /\ scr.col = l.cursor
           /\ scr.row \in Seq(Char) /\ scr.col \in 0..Len(scr.row) /\ Len(scr.row) \in Nat
<1>1. l.text \in Seq(Char) /\ Len(l.text) \in Nat /\ l.cursor \in 0..Len(l.text)
  BY LineParts
<1>2. scr = [row |-> l.text, col |-> l.cursor]
  BY DEF Shown
<1> QED
  BY <1>1, <1>2 DEF Term!Screens

LEMMA InsertEdits ==
    ASSUME LineOK(line), HistoryOK(history), screen \in Term!Screens(Char),
           NEW c \in Char, handle_insert(c)
    PROVE  Editing(TRUE)
<1> DEFINE v == Live
           l == L!Inserted(v, c)
           scr == IF l = v THEN screen ELSE Repainted(screen, l, v.cursor)
<1>1. LineOK(v)
  BY LiveLine
<1>2. Edit(l, scr)
  BY DEF handle_insert
<1> HIDE DEF v
<1>3. v.text \in Seq(Char) /\ Len(v.text) \in Nat /\ v.cursor \in 0..Len(v.text)
  BY <1>1, LineParts
<1>4. l # v => /\ LineOK(l) /\ l.cursor = v.cursor + 1
               /\ \A i \in 1..v.cursor : l.text[i] = v.text[i]
  BY <1>1, InsertedLine
<1> HIDE DEF l
<1>5. LineOK(l) /\ l.cursor \in 0..Len(l.text) /\ Len(l.text) \in Nat
  BY <1>1, <1>4, LineParts
<1>6. scr \in Term!Screens(Char)
  BY <1>3, <1>5, RepaintedScreen
<1>7. ASSUME screen = Shown(v) PROVE scr = Shown(l)
  <2>1. CASE l = v
    BY <1>7, <2>1
  <2>2. CASE l # v
    <3> DEFINE k == v.cursor
    <3>1. /\ screen.row = v.text /\ screen.col = k /\ k \in Nat /\ k <= Len(screen.row)
          /\ \A i \in 1..k : screen.row[i] = l.text[i]
      BY <1>1, <1>3, <1>4, <1>7, <2>2, ShownLine
    <3>2. k <= Len(l.text)
      BY <1>3, <1>4, <1>5, <2>2
    <3> HIDE DEF k
    <3>3. Repainted(screen, l, k) = Shown(l)
      BY <1>5, <3>1, <3>2, RepaintedShows
    <3> QED
      BY <2>2, <3>3 DEF k
  <2> QED
    BY <2>1, <2>2
<1> HIDE DEF scr
<1> QED
  BY <1>2, <1>5, <1>6, <1>7 DEF Editing, v

LEMMA BackspaceEdits ==
    ASSUME LineOK(line), HistoryOK(history), screen \in Term!Screens(Char), handle_backspace
    PROVE  Editing(TRUE)
<1> DEFINE v == Live
           l == L!Backspaced(v)
           back == Term!MovedBack(screen, 1)
           scr == IF l = v THEN screen ELSE Repainted(back, l, l.cursor)
<1>1. LineOK(v)
  BY LiveLine
<1>2. Edit(l, scr)
  BY DEF handle_backspace
<1> HIDE DEF v
<1>3. v.text \in Seq(Char) /\ Len(v.text) \in Nat /\ v.cursor \in 0..Len(v.text)
  BY <1>1, LineParts
<1>4. l # v => /\ LineOK(l) /\ l.cursor = v.cursor - 1 /\ v.cursor > 0
               /\ \A i \in 1..l.cursor : l.text[i] = v.text[i]
  BY <1>1, BackspacedLine
<1> HIDE DEF l
<1>5. LineOK(l) /\ l.cursor \in 0..Len(l.text) /\ Len(l.text) \in Nat
  BY <1>1, <1>4, LineParts
<1>6. back \in Term!Screens(Char)
  BY ScreenMoves
<1>7. scr \in Term!Screens(Char)
  BY <1>5, <1>6, RepaintedScreen
<1>8. ASSUME screen = Shown(v) PROVE scr = Shown(l)
  <2>1. CASE l = v
    BY <1>8, <2>1
  <2>2. CASE l # v
    <3> DEFINE k == l.cursor
    <3>1. back = [row |-> v.text, col |-> k]
      <4> DEFINE c == v.cursor
                 t == v.text
      <4>1. screen = [row |-> t, col |-> c] /\ c > 0 /\ c \in Nat /\ k = c - 1
        BY <1>3, <1>4, <1>8, <2>2 DEF Shown
      <4> HIDE DEF c, t, k
      <4>2. back = [row |-> t, col |-> c - 1]
        BY <4>1 DEF Term!MovedBack
      <4> QED
        BY <4>1, <4>2 DEF t
    <3>2. /\ back.row = v.text /\ back.col = k /\ k \in Nat /\ k <= Len(back.row)
          /\ \A i \in 1..k : back.row[i] = l.text[i]
      BY <1>3, <1>4, <1>5, <2>2, <3>1
    <3>3. k <= Len(l.text)
      BY <1>5
    <3> HIDE DEF k, back
    <3>4. Repainted(back, l, k) = Shown(l)
      BY <1>5, <1>6, <3>2, <3>3, RepaintedShows
    <3> QED
      BY <2>2, <3>4 DEF k
  <2> QED
    BY <2>1, <2>2
<1> HIDE DEF scr
<1> QED
  BY <1>2, <1>5, <1>7, <1>8 DEF Editing, v

LEMMA DeleteEdits ==
    ASSUME LineOK(line), HistoryOK(history), screen \in Term!Screens(Char), handle_delete
    PROVE  Editing(TRUE)
<1> DEFINE v == Live
           l == L!Deleted(v)
           scr == IF l = v THEN screen ELSE Repainted(screen, l, l.cursor)
<1>1. LineOK(v)
  BY LiveLine
<1>2. Edit(l, scr)
  BY DEF handle_delete
<1> HIDE DEF v
<1>3. v.text \in Seq(Char) /\ Len(v.text) \in Nat /\ v.cursor \in 0..Len(v.text)
  BY <1>1, LineParts
<1>4. l # v => /\ LineOK(l) /\ l.cursor = v.cursor
               /\ \A i \in 1..l.cursor : l.text[i] = v.text[i]
  BY <1>1, DeletedLine
<1> HIDE DEF l
<1>5. LineOK(l) /\ l.cursor \in 0..Len(l.text) /\ Len(l.text) \in Nat
  BY <1>1, <1>4, LineParts
<1>6. scr \in Term!Screens(Char)
  BY <1>5, RepaintedScreen
<1>7. ASSUME screen = Shown(v) PROVE scr = Shown(l)
  <2>1. CASE l = v
    BY <1>7, <2>1
  <2>2. CASE l # v
    <3> DEFINE k == l.cursor
    <3>1. /\ screen.row = v.text /\ screen.col = k /\ k \in Nat /\ k <= Len(screen.row)
          /\ \A i \in 1..k : screen.row[i] = l.text[i]
      BY <1>1, <1>3, <1>4, <1>7, <2>2, ShownLine
    <3>2. k <= Len(l.text)
      BY <1>5
    <3> HIDE DEF k
    <3>3. Repainted(screen, l, k) = Shown(l)
      BY <1>5, <3>1, <3>2, RepaintedShows
    <3> QED
      BY <2>2, <3>3 DEF k
  <2> QED
    BY <2>1, <2>2
<1> HIDE DEF scr
<1> QED
  BY <1>2, <1>5, <1>6, <1>7 DEF Editing, v

LEMMA LeftEdits ==
    ASSUME LineOK(line), HistoryOK(history), screen \in Term!Screens(Char), handle_left
    PROVE  Editing(TRUE)
<1> DEFINE v == Live
           l == L!MovedLeft(v)
           back == Term!MovedBack(screen, 1)
           scr == IF l = v THEN screen ELSE back
<1>1. LineOK(v)
  BY LiveLine
<1>2. Edit(l, scr)
  BY DEF handle_left
<1> HIDE DEF v
<1>3. LineOK(l)
  BY <1>1, MovedLine
<1>4. back \in Term!Screens(Char)
  BY ScreenMoves
<1>5. ASSUME screen = Shown(v), l # v PROVE back = Shown(l)
  <2> DEFINE t == v.text
             c == v.cursor
  <2>1. v = [text |-> t, cursor |-> c] /\ c \in Nat /\ screen = [row |-> t, col |-> c]
    BY <1>1, <1>5, LineParts DEF Shown
  <2>2. c > 0 /\ l = [v EXCEPT !.cursor = c - 1]
    BY <1>5 DEF L!MovedLeft
  <2> HIDE DEF t, c, l
  <2>3. l = [text |-> t, cursor |-> c - 1]
    BY <2>1, <2>2
  <2>4. back = [row |-> t, col |-> c - 1]
    BY <2>1, <2>2 DEF Term!MovedBack
  <2> QED
    BY <2>3, <2>4 DEF Shown
<1> HIDE DEF l, back
<1> QED
  BY <1>2, <1>3, <1>4, <1>5 DEF Editing, v

LEMMA RightEdits ==
    ASSUME LineOK(line), HistoryOK(history), screen \in Term!Screens(Char), handle_right
    PROVE  Editing(TRUE)
<1> DEFINE v == Live
           l == L!MovedRight(v)
           on == Term!MovedForward(screen)
           scr == IF l = v THEN screen ELSE on
<1>1. LineOK(v)
  BY LiveLine
<1>2. Edit(l, scr)
  BY DEF handle_right
<1> HIDE DEF v
<1>3. LineOK(l)
  BY <1>1, MovedLine
<1>4. on \in Term!Screens(Char)
  BY ScreenMoves
<1>5. ASSUME screen = Shown(v), l # v PROVE on = Shown(l)
  <2> DEFINE t == v.text
             c == v.cursor
  <2>1. v = [text |-> t, cursor |-> c] /\ c \in Nat /\ screen = [row |-> t, col |-> c]
    BY <1>1, <1>5, LineParts DEF Shown
  <2>2. l = [v EXCEPT !.cursor = c + 1]
    BY <1>5 DEF L!MovedRight
  <2> HIDE DEF t, c, l
  <2>3. l = [text |-> t, cursor |-> c + 1]
    BY <2>1, <2>2
  <2>4. on = [row |-> t, col |-> c + 1]
    BY <2>1 DEF Term!MovedForward
  <2> QED
    BY <2>3, <2>4 DEF Shown
<1> HIDE DEF l, on
<1> QED
  BY <1>2, <1>3, <1>4, <1>5 DEF Editing, v

LEMMA HomeEdits ==
    ASSUME LineOK(line), HistoryOK(history), screen \in Term!Screens(Char), handle_home
    PROVE  Editing(TRUE)
<1> DEFINE v == Live
           l == L!MovedHome(v)
           t == v.text
           c == v.cursor
           scr == Term!MovedBack(screen, c)
<1>1. LineOK(v)
  BY LiveLine
<1>2. Edit(l, scr)
  BY DEF handle_home
<1> HIDE DEF v
<1>3. LineOK(l)
  BY <1>1, MovedLine
<1>4. v = [text |-> t, cursor |-> c] /\ c \in Nat
  BY <1>1, LineParts
<1>5. l = [v EXCEPT !.cursor = 0]
  BY DEF L!MovedHome
<1>6. screen = Shown(v) => screen = [row |-> t, col |-> c]
  BY DEF Shown
<1> HIDE DEF t, c
<1>7. scr \in Term!Screens(Char)
  BY <1>4, ScreenMoves
<1>8. ASSUME screen = Shown(v) PROVE scr = Shown(l)
  <2> HIDE DEF l
  <2>1. l = [text |-> t, cursor |-> 0]
    BY <1>4, <1>5
  <2>2. scr = [row |-> t, col |-> 0]
    BY <1>4, <1>6, <1>8 DEF Term!MovedBack
  <2> QED
    BY <2>1, <2>2 DEF Shown
<1> HIDE DEF l, scr
<1> QED
  BY <1>2, <1>3, <1>7, <1>8 DEF Editing, v

LEMMA EndEdits ==
    ASSUME LineOK(line), HistoryOK(history), screen \in Term!Screens(Char), handle_end
    PROVE  Editing(TRUE)
<1> DEFINE v == Live
           l == L!MovedEnd(v)
           t == v.text
           c == v.cursor
           s == SubSeq(t, c + 1, Len(t))
           scr == Term!Written(screen, s)
<1>1. LineOK(v)
  BY LiveLine
<1>2. Edit(l, scr)
  BY DEF handle_end
<1> HIDE DEF v
<1>3. LineOK(l)
  BY <1>1, MovedLine
<1>4. /\ v = [text |-> t, cursor |-> c] /\ t \in Seq(Char) /\ Len(t) \in Nat /\ c \in 0..Len(t)
  BY <1>1, LineParts
<1>5. l = [v EXCEPT !.cursor = Len(t)]
  BY DEF L!MovedEnd
<1>6. screen = Shown(v) => screen.row = t /\ screen.col = c
  BY DEF Shown
<1> HIDE DEF t, c
<1>7. s \in Seq(Char) /\ Len(s) = Len(t) - c /\ \A i \in 1..(Len(t) - c) : s[i] = t[c + i]
  BY <1>4, SubSeqProperties
<1> HIDE DEF s
<1>8. scr \in Term!Screens(Char)
  BY <1>7, WrittenRow
<1>9. ASSUME screen = Shown(v) PROVE scr = Shown(l)
  <2> DEFINE w == scr.row
  <2>1. Len(w) = Len(t) /\ scr.col = Len(t)
    <3>1. /\ scr.col = screen.col + Len(s)
          /\ Len(w) = IF Len(screen.row) < screen.col + Len(s)
                        THEN screen.col + Len(s) ELSE Len(screen.row)
      BY <1>7, WrittenRow
    <3>2. screen.col = c /\ screen.row = t
      BY <1>6, <1>9
    <3>3. c + Len(s) = Len(t)
      BY <1>4, <1>7
    <3> QED
      BY <1>4, <3>1, <3>2, <3>3
  <2>2. \A i \in 1..Len(w) : w[i] = IF i \in (c + 1)..(c + Len(s)) THEN s[i - c] ELSE t[i]
    <3>1. screen.col <= Len(screen.row)
      BY <1>4, <1>6, <1>9
    <3>2. \A i \in 1..Len(w) :
             w[i] = IF i \in (screen.col + 1)..(screen.col + Len(s)) THEN s[i - screen.col] ELSE screen.row[i]
      BY <1>7, <3>1, WrittenRow
    <3> QED
      BY <1>6, <1>9, <3>2
  <2>3. w \in Seq(Char) /\ scr = [row |-> w, col |-> Len(t)]
    BY <1>8, <2>1 DEF Term!Screens
  <2> HIDE DEF w, scr
  <2>4. ASSUME NEW i \in 1..Len(w) PROVE w[i] = t[i]
    <3>1. CASE i \in (c + 1)..(c + Len(s))
      <4>1. i - c \in 1..(Len(t) - c) /\ c + (i - c) = i
        BY <1>4, <1>7, <3>1
      <4> QED
        BY <1>7, <2>2, <3>1, <4>1
    <3>2. CASE i \notin (c + 1)..(c + Len(s))
      BY <2>2, <3>2
    <3> QED
      BY <3>1, <3>2
  <2>5. w = t
    BY <1>4, <2>1, <2>3, <2>4, SeqEqual
  <2>6. l = [text |-> t, cursor |-> Len(t)]
    BY <1>4, <1>5
  <2> HIDE DEF l
  <2> QED
    BY <2>3, <2>5, <2>6 DEF Shown
<1> HIDE DEF l, scr
<1> QED
  BY <1>2, <1>3, <1>8, <1>9 DEF Editing, v

(* A listing reprints the line and leaves the terminal's cursor at its end.*)
ListsAtEnd == T!Lists(Live.text, current_mode) => Live.cursor = Len(Live.text)

LEMMA TabEdits ==
    ASSUME LineOK(line), HistoryOK(history), screen \in Term!Screens(Char), handle_tab_complete
    PROVE  Editing(ListsAtEnd)
<1> DEFINE v == Live
           t == v.text
           done == L!AtEnd(T!CompletedText(t, current_mode))
           lists == T!Lists(t, current_mode)
           scr == IF lists THEN Term!Redrawn(t) ELSE screen
<1>1. LineOK(v)
  BY LiveLine
<1>2. t \in Seq(Char) /\ Len(t) \in Nat /\ v = [text |-> t, cursor |-> v.cursor]
  BY <1>1, LineParts
<1>3. CASE T!Completes(t, current_mode)
  <2>1. Edit(done, Term!Redrawn(done.text))
    BY <1>3 DEF handle_tab_complete
  <2>2. LineOK(done)
    BY <1>2, <1>3, CompletedLine
  <2>3. Term!Redrawn(done.text) = Shown(done)
    BY DEF Term!Redrawn, Shown, L!AtEnd
  <2> HIDE DEF done
  <2>4. Term!Redrawn(done.text) \in Term!Screens(Char)
    BY <2>2, <2>3, ShownLine
  <2> QED
    BY <2>1, <2>2, <2>3, <2>4 DEF Editing
<1>4. CASE ~T!Completes(t, current_mode)
  <2>1. Edit(v, scr)
    BY <1>4 DEF handle_tab_complete
  <2>2. ListsAtEnd /\ lists => Shown(v) = Term!Redrawn(t)
    BY DEF ListsAtEnd, Shown, Term!Redrawn
  <2>3. ASSUME screen = Shown(Live) /\ ListsAtEnd PROVE scr = Shown(v)
    BY <2>2, <2>3
  <2>4. scr \in Term!Screens(Char)
    <3> HIDE DEF t
    <3> QED
      BY <1>2 DEF Term!Redrawn, Term!Screens
  <2> HIDE DEF v, scr
  <2> QED
    BY <1>1, <2>1, <2>3, <2>4 DEF Editing
<1> QED
  BY <1>3, <1>4

-----------------------------------------------------------------------------
(* The invariant, and what keeps it.                                       *)

Inv ==
    /\ LineOK(line)
    /\ HistoryOK(history)
    /\ ansi_state \in AnsiStates
    /\ ansi_param \in Digit \cup {Other}
    /\ last_char \in Newline \cup {Other}
    /\ current_mode \in Modes
    /\ screen \in Term!Screens(Char)

InSync == screen = Shown(Live)

(* Every entry is within reach of the cursor.                              *)
EntriesInReach == Len(history.entries) <= HistoryLength

(* The line, history, screen and mode after a byte, whether the screen is  *)
(* still the line, and that browsing leaves the line alone.                *)
Kept(same) ==
    /\ LineOK(line') /\ HistoryOK(history')
    /\ current_mode' \in Modes
    /\ screen' \in Term!Screens(Char)
    /\ InSync /\ same => InSync'
    /\ H!IsBrowsing(history') => line' = line

LEMMA EditingKeeps ==
    ASSUME Inv, NEW same, Editing(same)
    PROVE  Kept(same)
<1>1. PICK l, scr : /\ Edit(l, scr)
                    /\ LineOK(l) /\ scr \in Term!Screens(Char)
                    /\ screen = Shown(Live) /\ same => scr = Shown(l)
  BY DEF Editing
<1>2. line' = l /\ history' = H!Cancelled(history) /\ screen' = scr /\ current_mode' = current_mode
  BY <1>1 DEF Edit, Quiet
<1>3. HistoryOK(H!Cancelled(history)) /\ ~H!IsBrowsing(H!Cancelled(history))
  <2>1. history = [entries |-> history.entries, cursor |-> history.cursor]
        /\ history.entries \in Seq(Recallable)
    BY DEF Inv, HistoryOK
  <2> QED
    BY <2>1, CancelledHistory
<1>4. Live' = l
  BY <1>2, <1>3 DEF Live
<1>5. current_mode \in Modes
  BY DEF Inv
<1> QED
  BY <1>1, <1>2, <1>3, <1>4, <1>5 DEF Kept, InSync

LEMMA IgnoreKeeps == ASSUME Inv, Ignore PROVE Kept(TRUE)
<1>1. Live' = Live
  BY DEF Ignore, Live
<1> QED
  BY <1>1 DEF Ignore, Inv, Kept, InSync

LEMMA BrowseKeeps ==
    ASSUME Inv, NEW h, HistoryOK(h), NEW same, same => H!IsBrowsing(h), Browse(h)
    PROVE  Kept(same)
<1> DEFINE e == H!Current(h)
<1>1. /\ history' = h /\ line' = line /\ current_mode' = current_mode
      /\ screen' = Term!Redrawn(e)
  BY DEF Browse
<1>2. /\ e \in Seq(Char) /\ L!Loaded(e) = L!AtEnd(e) /\ Shown(L!AtEnd(e)) = Term!Redrawn(e)
  BY CurrentEntry
<1>3. Term!Redrawn(e) \in Term!Screens(Char)
  BY <1>2 DEF Term!Redrawn, Term!Screens
<1>4. H!IsBrowsing(h) => Live' = L!Loaded(e)
  BY <1>1 DEF Live
<1> HIDE DEF e
<1> QED
  BY <1>1, <1>2, <1>3, <1>4 DEF Inv, Kept, InSync

LEMMA EmptyLineShown ==
    /\ LineOK(L!EmptyLine) /\ Shown(L!EmptyLine) = Term!Redrawn(<<>>)
    /\ Shown(L!EmptyLine) = Term!FreshPrompt
    /\ Term!FreshPrompt \in Term!Screens(Char)
<1>1. <<>> \in Seq(Char) /\ Len(<<>>) = 0 /\ 0 < MaxLineLength
  BY SizeAssumption
<1> QED
  BY <1>1 DEF LineOK, L!Lines, L!EmptyLine, Shown, Term!Redrawn, Term!FreshPrompt, Term!Screens

LEMMA PrevKeeps == ASSUME Inv, handle_history_prev PROVE Kept(EntriesInReach)
<1>1. HistoryOK(history)
  BY DEF Inv
<1>2. CASE H!PrevMoves(history)
  <2>1. Browse(H!Older(history))
    BY <1>2 DEF handle_history_prev
  <2>2. HistoryOK(H!Older(history)) /\ (EntriesInReach => H!IsBrowsing(H!Older(history)))
    BY <1>1, <1>2, OlderHistory DEF EntriesInReach
  <2> QED
    BY <2>1, <2>2, BrowseKeeps
<1>3. CASE ~H!PrevMoves(history)
  <2>1. Kept(TRUE)
    BY <1>3, IgnoreKeeps DEF handle_history_prev
  <2> QED
    BY <2>1 DEF Kept
<1> QED
  BY <1>2, <1>3

LEMMA NextKeeps == ASSUME Inv, handle_history_next PROVE Kept(TRUE)
<1> DEFINE h == H!Newer(history)
<1>1. HistoryOK(h) /\ (H!IsBrowsing(h) <=> H!NextMoves(history))
  BY NewerHistory DEF Inv
<1>2. CASE H!NextMoves(history)
  <2>1. Browse(h)
    BY <1>2 DEF handle_history_next
  <2> HIDE DEF h
  <2> QED
    BY <1>1, <1>2, <2>1, BrowseKeeps
<1>3. CASE ~H!NextMoves(history)
  <2>1. /\ history' = h /\ line' = L!EmptyLine /\ screen' = Term!Redrawn(<<>>)
        /\ current_mode' = current_mode
    BY <1>3 DEF handle_history_next
  <2> HIDE DEF h
  <2>2. Live' = L!EmptyLine
    BY <1>1, <1>3, <2>1 DEF Live
  <2>3. ~H!IsBrowsing(history') /\ HistoryOK(history')
    BY <1>1, <1>3, <2>1
  <2> QED
    BY <2>1, <2>2, <2>3, EmptyLineShown DEF Inv, Kept, InSync
<1> QED
  BY <1>2, <1>3

LEMMA PressKeeps ==
    ASSUME Inv, NEW key \in {"up", "down", "right", "left", "home", "end", "delete", "none"},
           Press(key)
    PROVE  Kept(EntriesInReach)
<1>1. LineOK(line) /\ HistoryOK(history) /\ screen \in Term!Screens(Char)
  BY DEF Inv
<1>2. Kept(TRUE) => Kept(EntriesInReach)
  BY DEF Kept
<1>3. Editing(TRUE) => Kept(TRUE)
  BY EditingKeeps
<1>4. CASE key = "up"
  BY <1>4, PrevKeeps DEF Press
<1>5. CASE key = "down"
  BY <1>2, <1>5, NextKeeps DEF Press
<1>6. CASE key = "right"
  BY <1>1, <1>2, <1>3, <1>6, RightEdits DEF Press
<1>7. CASE key = "left"
  BY <1>1, <1>2, <1>3, <1>7, LeftEdits DEF Press
<1>8. CASE key = "home"
  BY <1>1, <1>2, <1>3, <1>8, HomeEdits DEF Press
<1>9. CASE key = "end"
  BY <1>1, <1>2, <1>3, <1>9, EndEdits DEF Press
<1>10. CASE key = "delete"
  BY <1>1, <1>2, <1>3, <1>10, DeleteEdits DEF Press
<1>11. CASE key = "none"
  BY <1>2, <1>11, IgnoreKeeps DEF Press
<1> QED
  BY <1>4, <1>5, <1>6, <1>7, <1>8, <1>9, <1>10, <1>11

(* Enter leaves an empty line, a fresh prompt and one more whole entry.    *)
LEMMA EnterKeeps == ASSUME Inv, NEW c, Enter(c) PROVE Kept(TRUE)
<1> DEFINE t == Live.text
           h == IF IsBlank(t) THEN Quiet ELSE H!Pushed(Quiet, t)
<1>1. HistoryOK(history) /\ LineOK(Live)
  BY LiveLine DEF Inv
<1>2. t \in Seq(Char) /\ Len(t) < MaxLineLength
  BY <1>1, LineParts
<1>3. history = [entries |-> history.entries, cursor |-> history.cursor]
      /\ history.entries \in Seq(Recallable)
  BY <1>1 DEF HistoryOK
<1>4. HistoryOK(Quiet)
  BY <1>3, CancelledHistory DEF Quiet
<1>5. /\ line' = L!EmptyLine /\ screen' = Term!FreshPrompt
      /\ history' = H!Cancelled(h)
      /\ current_mode' = current_mode \/ current_mode' \in Modes
  BY DEF Enter, Recorded, Submission
<1> HIDE DEF t
<1>6. h = [entries |-> h.entries, cursor |-> h.cursor] /\ h.entries \in Seq(Recallable)
  <2>1. CASE IsBlank(t)
    BY <1>4, <2>1 DEF HistoryOK
  <2>2. CASE ~IsBlank(t)
    <3>1. t \in Recallable
      BY <1>2, <2>2 DEF Recallable
    <3> QED
      BY <1>4, <2>2, <3>1, PushedHistory DEF HistoryOK
  <2> QED
    BY <2>1, <2>2
<1> HIDE DEF h
<1>7. HistoryOK(H!Cancelled(h)) /\ ~H!IsBrowsing(H!Cancelled(h))
  BY <1>6, CancelledHistory
<1>8. Live' = L!EmptyLine
  BY <1>5, <1>7 DEF Live
<1>9. current_mode \in Modes
  BY DEF Inv
<1> QED
  BY <1>5, <1>7, <1>8, <1>9, EmptyLineShown DEF Kept, InSync

Keys == {"up", "down", "right", "left", "home", "end", "delete", "none"}

TabListsAtEnd == IdleByte(TAB) => ListsAtEnd

LEMMA IdleKeeps ==
    ASSUME Inv, NEW c, IdleByte(c)
    PROVE  Kept(EntriesInReach /\ TabListsAtEnd)
<1>1. LineOK(line) /\ HistoryOK(history) /\ screen \in Term!Screens(Char)
  BY DEF Inv
<1>2. Kept(TRUE) => Kept(EntriesInReach /\ TabListsAtEnd)
  BY DEF Kept
<1>3. CASE c = BS
  <2>1. handle_backspace
    <3>1. c # TAB /\ c \notin Char
      BY <1>3, CharAssumption DEF BS, TAB
    <3>2. IdleByte(c)
      OBVIOUS
    <3> QED
      BY <1>3, <3>1, <3>2, Zenon DEF IdleByte, ProcessNormally
  <2> QED
    BY <1>1, <1>2, <2>1, BackspaceEdits, EditingKeeps
<1>4. CASE c = TAB
  <2>1. handle_tab_complete
    <3>1. c # BS /\ c \notin Char
      BY <1>4, CharAssumption DEF BS, TAB
    <3>2. IdleByte(c)
      OBVIOUS
    <3> QED
      BY <1>4, <3>1, <3>2, Zenon DEF IdleByte, ProcessNormally
  <2>2. Kept(ListsAtEnd)
    BY <1>1, <2>1, TabEdits, EditingKeeps
  <2>3. TabListsAtEnd => ListsAtEnd
    BY <1>4 DEF TabListsAtEnd
  <2> QED
    BY <2>2, <2>3 DEF Kept
<1>5. CASE c \notin {BS, TAB} /\ c \in Char
  <2>1. handle_insert(c)
    BY <1>5 DEF IdleByte, ProcessNormally
  <2> QED
    BY <1>1, <1>2, <1>5, <2>1, InsertEdits, EditingKeeps
<1>6. CASE c \notin {BS, TAB} /\ c \notin Char
  <2>1. Ignore
    BY <1>6 DEF IdleByte, ProcessNormally
  <2> QED
    BY <1>2, <2>1, IgnoreKeeps
<1> QED
  BY <1>3, <1>4, <1>5, <1>6

Decoded ==
    /\ ansi_state \in AnsiStates
    /\ ansi_param \in Digit \cup {Other}
    /\ last_char \in Newline \cup {Other}

LEMMA StepKeeps ==
    ASSUME Inv, NEW c, ProcessChar(c)
    PROVE  Kept(EntriesInReach /\ TabListsAtEnd) /\ Decoded'
<1> DEFINE ok == EntriesInReach /\ TabListsAtEnd
<1>1. ansi_state \in AnsiStates /\ ansi_param \in Digit \cup {Other}
      /\ last_char \in Newline \cup {Other}
  BY DEF Inv
<1>2. (Kept(TRUE) => Kept(ok)) /\ (Kept(EntriesInReach) => Kept(ok))
  BY DEF Kept
<1>3. (Ignore => Kept(ok)) /\ \A key \in Keys : Press(key) => Kept(ok)
  BY <1>2, IgnoreKeeps, PressKeeps DEF Keys
<1>4. "Idle" \in AnsiStates /\ "Escape" \in AnsiStates /\ "Csi" \in AnsiStates /\ "Ss3" \in AnsiStates
  BY DEF AnsiStates
<1> HIDE DEF ok
<1>5. ASSUME SwallowNewline(c) PROVE Kept(ok) /\ Decoded'
  BY <1>1, <1>3, <1>5 DEF SwallowNewline, Decoded
<1>6. ASSUME Enter(c) PROVE Kept(ok) /\ Decoded'
  BY <1>1, <1>2, <1>6, EnterKeeps DEF Enter, Decoded
<1>7. ASSUME BeginEscape(c) PROVE Kept(ok) /\ Decoded'
  BY <1>1, <1>3, <1>4, <1>7 DEF BeginEscape, NotNewline, Decoded
<1>8. ASSUME Introduce(c) PROVE Kept(ok) /\ Decoded'
  BY <1>1, <1>3, <1>4, <1>8 DEF Introduce, NotNewline, Decoded
<1>9. ASSUME AbandonEscape(c) PROVE Kept(ok) /\ Decoded'
  <2>1. Kept(ok)
    <3>1. CASE c \in Char
      <4>1. handle_insert(c)
        BY <1>9, <3>1 DEF AbandonEscape
      <4>2. Editing(TRUE)
        BY <3>1, <4>1, InsertEdits DEF Inv
      <4> QED
        BY <1>2, <4>2, EditingKeeps
    <3>2. CASE c \notin Char
      BY <1>3, <1>9, <3>2 DEF AbandonEscape
    <3> QED
      BY <3>1, <3>2
  <2> QED
    BY <1>1, <1>4, <1>9, <2>1 DEF AbandonEscape, NotNewline, Decoded
<1>10. ASSUME CsiDigit(c) PROVE Kept(ok) /\ Decoded'
  BY <1>1, <1>3, <1>10 DEF CsiDigit, NotNewline, Decoded
<1>11. ASSUME CsiTilde(c) PROVE Kept(ok) /\ Decoded'
  <2>1. TildeKey \in Keys
    BY DEF TildeKey, Keys
  <2> QED
    BY <1>3, <1>4, <1>11, <2>1 DEF CsiTilde, NotNewline, Decoded
<1>12. ASSUME CsiArrow(c) PROVE Kept(ok) /\ Decoded'
  <2>1. ArrowKey[c] \in Keys
    <3>1. c \in {"A", "B", "C", "D"}
      BY <1>12 DEF CsiArrow, ArrowKey
    <3> QED
      BY <3>1 DEF ArrowKey, Keys
  <2> QED
    BY <1>1, <1>3, <1>4, <1>12, <2>1 DEF CsiArrow, NotNewline, Decoded
<1>13. ASSUME CsiUnknown(c) PROVE Kept(ok) /\ Decoded'
  BY <1>3, <1>4, <1>13 DEF CsiUnknown, NotNewline, Decoded
<1>14. ASSUME Ss3Final(c) PROVE Kept(ok) /\ Decoded'
  <2> DEFINE key == IF c \in DOMAIN Ss3Key THEN Ss3Key[c] ELSE "none"
  <2>1. key \in Keys
    <3>1. DOMAIN Ss3Key = {"A", "B", "C", "D", "F", "H"}
      BY DEF Ss3Key
    <3> QED
      BY <3>1 DEF Ss3Key, Keys
  <2> HIDE DEF key
  <2> QED
    BY <1>1, <1>3, <1>4, <1>14, <2>1 DEF Ss3Final, NotNewline, key, Decoded
<1>15. ASSUME IdleByte(c) PROVE Kept(ok) /\ Decoded'
  BY <1>1, <1>15, IdleKeeps DEF IdleByte, NotNewline, Decoded, ok
<1> QED
  BY <1>5, <1>6, <1>7, <1>8, <1>9, <1>10, <1>11, <1>12, <1>13, <1>14, <1>15 DEF ProcessChar, ok

LEMMA InitInv == Init => Inv /\ InSync
<1> SUFFICES ASSUME Init PROVE Inv /\ InSync
  OBVIOUS
<1>1. history = [entries |-> <<>>, cursor |-> HistoryLength]
  BY DEF Init, H!EmptyHistory, H!NotBrowsing
<1>2. HistoryOK(history)
  BY <1>1, Sizes DEF HistoryOK, H!IsBrowsing, H!NotBrowsing
<1>3. Live = line
  BY <1>1 DEF Live, H!IsBrowsing, H!NotBrowsing
<1> QED
  BY <1>2, <1>3, EmptyLineShown, ModeAssumption DEF Init, Inv, InSync, AnsiStates

LEMMA NextInv == Inv /\ [Next]_vars => Inv'
<1> SUFFICES ASSUME Inv, [Next]_vars PROVE Inv'
  OBVIOUS
<1>1. CASE Next
  <2>1. PICK c : ProcessChar(c)
    BY <1>1 DEF Next
  <2> QED
    BY <2>1, StepKeeps DEF Inv, Kept, Decoded
<1>2. CASE UNCHANGED vars
  BY <1>2 DEF Inv, vars
<1> QED
  BY <1>1, <1>2

LEMMA Invariant == Spec => []Inv
  BY InitInv, NextInv, PTL DEF Spec

(* Whatever is typed, the line, the screen, the parser of escape sequences *)
(* and the cursor of history stay in their ranges: a completion, which     *)
(* measures the command against the place of the word, leaves room for the *)
(* terminator, and a recalled entry does too.                              *)
THEOREM EditorTypeCorrect == Spec => []TypeOK
<1>1. Inv => TypeOK
  <2> SUFFICES ASSUME Inv PROVE TypeOK
    OBVIOUS
  <2>1. line \in L!Lines /\ line.cursor <= Len(line.text) /\ Len(line.text) < MaxLineLength
    BY DEF Inv, LineOK
  <2>2. history.cursor \in 0..HistoryLength
    BY DEF Inv, HistoryOK
  <2> QED
    BY <2>1, <2>2 DEF Inv, TypeOK
<1> QED
  BY <1>1, Invariant, PTL

(* Browsing never writes the line being typed: only the handlers that have *)
(* left browsing do (lishInputProcessor.h:57-60), and those replace it by  *)
(* the entry (exit_browsing_and_copy) or empty it (handle_history_next).   *)
THEOREM BrowsingIsHarmless == Spec => BrowsingKeepsLine
<1>1. Inv /\ [Next]_vars => [H!IsBrowsing(history') => line' = line]_vars
  <2> SUFFICES ASSUME Inv, Next PROVE H!IsBrowsing(history') => line' = line
    OBVIOUS
  <2>1. PICK c : ProcessChar(c)
    BY DEF Next
  <2> QED
    BY <2>1, StepKeeps DEF Kept
<1> QED
  BY <1>1, Invariant, PTL DEF Spec, BrowsingKeepsLine

LEMMA SyncStep ==
    Inv /\ InSync /\ EntriesInReach /\ [TabListsAtEnd]_vars /\ [Next]_vars => InSync'
<1> SUFFICES ASSUME Inv, InSync, EntriesInReach, [TabListsAtEnd]_vars, [Next]_vars PROVE InSync'
  OBVIOUS
<1>1. CASE UNCHANGED vars
  BY <1>1 DEF vars, InSync, Live
<1>2. CASE ~(UNCHANGED vars)
  <2>1. TabListsAtEnd
    BY <1>2
  <2>2. PICK c : ProcessChar(c)
    BY <1>2 DEF Next
  <2> QED
    BY <2>1, <2>2, StepKeeps DEF Kept
<1> QED
  BY <1>1, <1>2

LEMMA SyncIsDisplay == Inv => (InSync <=> DisplayInSync)
<1> SUFFICES ASSUME Inv PROVE InSync <=> DisplayInSync
  OBVIOUS
<1>1. CASE H!IsBrowsing(history)
  <2>1. Shown(Live) = Term!Redrawn(H!Current(history))
    BY <1>1, CurrentEntry DEF Live, Inv
  <2> QED
    BY <1>1, <2>1 DEF InSync, DisplayInSync
<1>2. CASE ~H!IsBrowsing(history)
  BY <1>2 DEF InSync, DisplayInSync, Live, Shown
<1> QED
  BY <1>1, <1>2

LEMMA StaysInSync ==
    Spec /\ []EntriesInReach /\ [][TabListsAtEnd]_vars => [](Inv /\ InSync)
  BY InitInv, NextInv, SyncStep, PTL DEF Spec

(* The targeted redraws of insert, backspace, delete, the moves, browsing, *)
(* completion and enter keep the row and the terminal's cursor the same as *)
(* what the next key acts on, as long as history holds no more entries     *)
(* than its cursor can reach and tab lists candidates only from the end of *)
(* the line (the two cases in which the code does not).                    *)
THEOREM ScreenIsTheLine ==
    Spec /\ []EntriesInReach /\ [][TabListsAtEnd]_vars => []DisplayInSync
  BY StaysInSync, SyncIsDisplay, PTL

(* Under the same two conditions enter submits what the user sees.         *)
THEOREM EnterSubmitsTheRow ==
    Spec /\ []EntriesInReach /\ [][TabListsAtEnd]_vars => SubmitsWhatIsShown
<1>1. Inv /\ InSync => [\A c \in Newline : Enter(c) => submitted' = screen.row]_vars
  <2> SUFFICES ASSUME InSync, NEW c \in Newline, Enter(c) PROVE submitted' = screen.row
    OBVIOUS
  <2>1. submitted' = Live.text
    BY DEF Enter, Submission
  <2>2. screen.row = Live.text
    BY DEF InSync, Shown
  <2> QED
    BY <2>1, <2>2
<1> QED
  BY <1>1, StaysInSync, PTL DEF SubmitsWhatIsShown

(* Nothing but enter changes the entries of history.                       *)
LEMMA PressStays ==
    ASSUME NEW key \in Keys, Press(key)
    PROVE  history' \in {history, Quiet, H!Older(history), H!Newer(history)}
<1>1. /\ Ignore => history' = history
      /\ \A l, scr : Edit(l, scr) => history' = Quiet
      /\ \A h : Browse(h) => history' = h
  BY DEF Ignore, Edit, Browse
<1>2. CASE key = "up"
  BY <1>1, <1>2 DEF Press, handle_history_prev
<1>3. CASE key = "down"
  BY <1>1, <1>3 DEF Press, handle_history_next
<1>4. CASE key = "right"
  BY <1>1, <1>4 DEF Press, handle_right
<1>5. CASE key = "left"
  BY <1>1, <1>5 DEF Press, handle_left
<1>6. CASE key = "home"
  BY <1>1, <1>6 DEF Press, handle_home
<1>7. CASE key = "end"
  BY <1>1, <1>7 DEF Press, handle_end
<1>8. CASE key = "delete"
  BY <1>1, <1>8 DEF Press, handle_delete
<1>9. CASE key = "none"
  BY <1>1, <1>9 DEF Press
<1> QED
  BY <1>2, <1>3, <1>4, <1>5, <1>6, <1>7, <1>8, <1>9 DEF Keys

LEMMA EntriesStay ==
    ASSUME Inv, NEW c, ProcessChar(c), ~Enter(c)
    PROVE  history'.entries = history.entries
<1> DEFINE Stays == history' \in {history, Quiet, H!Older(history), H!Newer(history)}
<1>1. Stays => history'.entries = history.entries
  <2>1. HistoryOK(history)
    BY DEF Inv
  <2>2. Quiet.entries = history.entries
    BY <2>1, CancelledHistory DEF HistoryOK, Quiet
  <2>3. H!Newer(history).entries = history.entries
    BY <2>1, NewerHistory
  <2>4. H!Older(history).entries = history.entries
    <3>1. CASE H!PrevMoves(history)
      BY <2>1, <3>1, OlderHistory
    <3>2. CASE ~H!PrevMoves(history)
      BY <3>2 DEF H!Older
    <3> QED
      BY <3>1, <3>2
  <2> QED
    BY <2>2, <2>3, <2>4
<1>2. /\ Ignore => Stays
      /\ \A key \in Keys : Press(key) => Stays
      /\ handle_insert(c) => Stays
  BY PressStays DEF Ignore, handle_insert, Edit
<1>3. handle_backspace => Stays
  BY DEF handle_backspace, Edit
<1>4. handle_tab_complete => Stays
  BY DEF handle_tab_complete, Edit
<1> HIDE DEF Stays
<1>5. ASSUME SwallowNewline(c) \/ BeginEscape(c) \/ Introduce(c) \/ CsiDigit(c) \/ CsiUnknown(c)
      PROVE  Stays
  BY <1>2, <1>5 DEF SwallowNewline, BeginEscape, Introduce, CsiDigit, CsiUnknown
<1>6. ASSUME AbandonEscape(c) PROVE Stays
  BY <1>2, <1>6 DEF AbandonEscape
<1>7. ASSUME CsiTilde(c) PROVE Stays
  BY <1>2, <1>7 DEF CsiTilde, TildeKey, Keys
<1>8. ASSUME CsiArrow(c) PROVE Stays
  <2>1. ArrowKey[c] \in Keys
    <3>1. c \in {"A", "B", "C", "D"}
      BY <1>8 DEF CsiArrow, ArrowKey
    <3> QED
      BY <3>1 DEF ArrowKey, Keys
  <2> QED
    BY <1>2, <1>8, <2>1 DEF CsiArrow
<1>9. ASSUME Ss3Final(c) PROVE Stays
  <2> DEFINE key == IF c \in DOMAIN Ss3Key THEN Ss3Key[c] ELSE "none"
  <2>1. key \in Keys
    <3>1. DOMAIN Ss3Key = {"A", "B", "C", "D", "F", "H"}
      BY DEF Ss3Key
    <3> QED
      BY <3>1 DEF Ss3Key, Keys
  <2>2. Press(key)
    BY <1>9 DEF Ss3Final
  <2> HIDE DEF key
  <2> QED
    BY <1>2, <2>1, <2>2
<1>10. ASSUME IdleByte(c) PROVE Stays
  <2>1. ProcessNormally(c)
    BY <1>10 DEF IdleByte
  <2> QED
    BY <1>2, <1>3, <1>4, <2>1 DEF ProcessNormally
<1> QED
  BY <1>1, <1>5, <1>6, <1>7, <1>8, <1>9, <1>10 DEF ProcessChar

(* After enter every entry of history is an earlier one or the line, which *)
(* is not blank then.                                                      *)
LEMMA EnterRecords ==
    ASSUME Inv, NEW c, Enter(c), NEW j \in 1..Len(history'.entries)
    PROVE  \/ \E k \in 1..Len(history.entries) : history'.entries[j] = history.entries[k]
           \/ history'.entries[j] = Submission /\ ~IsBlank(Submission)
<1> DEFINE es == history.entries
           t == Submission
           S == {es[k] : k \in 1..Len(es)} \cup (IF IsBlank(t) THEN {} ELSE {t})
           h == IF IsBlank(t) THEN Quiet ELSE H!Pushed(Quiet, t)
<1>1. history = [entries |-> es, cursor |-> history.cursor] /\ es \in Seq(Recallable)
  BY DEF Inv, HistoryOK
<1>2. /\ Quiet = [entries |-> Quiet.entries, cursor |-> Quiet.cursor]
      /\ Quiet.entries = es
  BY <1>1, CancelledHistory DEF Quiet, HistoryOK
<1>3. es \in Seq(S)
  <2>1. Len(es) \in Nat /\ es = [k \in 1..Len(es) |-> es[k]]
    BY <1>1
  <2> QED
    BY <2>1
<1>4. history' = H!Cancelled(h)
  BY DEF Enter, Recorded
<1> HIDE DEF es, t, S
<1>5. h = [entries |-> h.entries, cursor |-> h.cursor] /\ h.entries \in Seq(S)
  <2>1. CASE IsBlank(t)
    BY <1>2, <1>3, <2>1
  <2>2. CASE ~IsBlank(t)
    <3>1. t \in S
      BY <2>2 DEF S
    <3> QED
      BY <1>2, <1>3, <2>2, <3>1, PushedHistory
  <2> QED
    BY <2>1, <2>2
<1> HIDE DEF h
<1>6. history'.entries = h.entries
  <2>1. H!Cancelled(h) = [entries |-> h.entries, cursor |-> HistoryLength]
    BY <1>5 DEF H!Cancelled, H!NotBrowsing
  <2> QED
    BY <1>4, <2>1
<1>7. history'.entries[j] \in S
  BY <1>5, <1>6, ElementOfSeq
<1> QED
  BY <1>7 DEF S, es, t

(* Under the same two conditions history records what the user sees: each  *)
(* entry was the row of the screen, and not blank, when it was submitted.  *)
THEOREM HistoryRecordsTheRow ==
    Spec /\ []EntriesInReach /\ [][TabListsAtEnd]_vars => RecordsTheRow
<1> DEFINE Records ==
        \A j \in 1..Len(history'.entries) :
           \/ \E k \in 1..Len(history.entries) : history'.entries[j] = history.entries[k]
           \/ history'.entries[j] = screen.row /\ submitted' = screen.row /\ ~IsBlank(screen.row)
<1>1. Inv /\ InSync /\ [Next]_vars => [Records]_vars
  <2> SUFFICES ASSUME Inv, InSync, Next PROVE Records
    OBVIOUS
  <2>1. PICK c : ProcessChar(c)
    BY DEF Next
  <2>2. CASE Enter(c)
    <3>1. submitted' = Submission /\ screen.row = Submission
      BY <2>2 DEF Enter, Submission, InSync, Shown
    <3> QED
      BY <2>2, <3>1, EnterRecords
  <2>3. CASE ~Enter(c)
    BY <2>1, <2>3, EntriesStay
  <2> QED
    BY <2>2, <2>3
<1> QED
  BY <1>1, StaysInSync, PTL DEF Spec, RecordsTheRow

-----------------------------------------------------------------------------
(* Line endings.  The scan of LinesEnded over a run of n bytes, read from  *)
(* each place i: ends[i] lines end from there on, and the last byte is     *)
(* still open, not the second of a pair, if i is in open.                  *)

Scan(run, ends, open) ==
    LET n == Len(run)
        Pair(i) == i < n /\ run[i] # run[i + 1]
    IN  /\ ends \in [1..(n + 2) -> Nat] /\ open \in SUBSET (1..n)
        /\ \A i \in 1..(n + 2) :
             /\ i > n => ends[i] = 0
             /\ i = n => ends[i] = 1 /\ i \in open
             /\ Pair(i) => ends[i] = 1 + ends[i + 2] /\ (i \in open <=> i + 2 \in open)
             /\ i < n /\ ~Pair(i) => ends[i] = 1 + ends[i + 1] /\ (i \in open <=> i + 1 \in open)

EndingInv ==
    /\ endings = [run |-> endings.run, lines |-> endings.lines]
    /\ endings.run \in Seq(Newline)
    /\ \E ends, open :
         /\ Scan(endings.run, ends, open)
         /\ endings.lines = ends[1]
         /\ last_char = IF 1 \in open THEN endings.run[Len(endings.run)] ELSE Other

(* A scan computes what LinesEnded does.                                   *)
LEMMA ScanCounts ==
    ASSUME NEW run \in Seq(Newline), NEW ends, NEW open, Scan(run, ends, open)
    PROVE  LinesEnded(run) = ends[1]
<1> DEFINE n == Len(run)
           At(f, i) == IF i > n THEN 0
                       ELSE IF i < n /\ run[i] # run[i + 1] THEN 1 + f[i + 2]
                       ELSE 1 + f[i + 1]
           from == CHOOSE f : f = [i \in 1..(n + 2) |-> At(f, i)]
<1>1. LinesEnded(run) = from[1]
  BY DEF LinesEnded
<1>2. n \in Nat /\ n + 2 \in Nat
  OBVIOUS
<1>3. ASSUME NEW i \in 1..(n + 2)
      PROVE  /\ i > n => ends[i] = 0
             /\ i = n => ends[i] = 1
             /\ i < n /\ run[i] # run[i + 1] => ends[i] = 1 + ends[i + 2]
             /\ i < n /\ run[i] = run[i + 1] => ends[i] = 1 + ends[i + 1]
  BY DEF Scan
<1>4. ends \in [1..(n + 2) -> Nat]
  BY DEF Scan
<1> HIDE DEF n
<1>5. ends = [i \in 1..(n + 2) |-> At(ends, i)]
  <2>1. ASSUME NEW i \in 1..(n + 2) PROVE ends[i] = At(ends, i)
    <3>1. CASE i > n
      BY <1>3, <3>1
    <3>2. CASE i = n
      <4>1. n + 1 \in 1..(n + 2) /\ ends[n + 1] = 0
        BY <1>2, <1>3
      <4> QED
        BY <1>2, <1>3, <3>2, <4>1
    <3>3. CASE i < n
      BY <1>2, <1>3, <3>3
    <3> QED
      BY <1>2, <3>1, <3>2, <3>3
  <2> HIDE DEF At
  <2> QED
    BY <1>4, <2>1
<1>6. from = [i \in 1..(n + 2) |-> At(from, i)]
  <2> HIDE DEF At
  <2> QED
    BY <1>5
<1> HIDE DEF from
<1>7. \A i \in 1..(n + 2) : from[i] = ends[i]
  <2> DEFINE Q == {i \in 1..(n + 2) : from[i] = ends[i]}
  <2>1. ASSUME NEW i \in 1..(n + 2), \A j \in (i + 1)..(n + 2) : j \in Q PROVE i \in Q
    <3>1. from[i] = At(from, i) /\ ends[i] = At(ends, i)
      <4> HIDE DEF At
      <4> QED
        BY <1>5, <1>6
    <3>2. i <= n => from[i + 1] = ends[i + 1] /\ from[i + 2] = ends[i + 2]
      <4>1. i <= n => i + 1 \in (i + 1)..(n + 2) /\ i + 2 \in (i + 1)..(n + 2)
        BY <1>2
      <4> QED
        BY <2>1, <4>1
    <3> QED
      BY <1>2, <3>1, <3>2
  <2> HIDE DEF Q
  <2>2. \A i \in 1..(n + 2) : i \in Q
    BY <1>2, <2>1, Facts!Downward
  <2> QED
    BY <2>2 DEF Q
<1> QED
  BY <1>1, <1>2, <1>7

(* One byte more closes the open line ending or begins another.            *)
LEMMA ScanAppends ==
    ASSUME NEW run \in Seq(Newline), NEW ends, NEW open, Scan(run, ends, open), NEW c \in Newline
    PROVE  \E e, o :
             /\ Scan(Append(run, c), e, o)
             /\ LET closes == 1 \in open /\ c # run[Len(run)]
                IN  e[1] = (IF closes THEN ends[1] ELSE ends[1] + 1) /\ (1 \in o <=> ~closes)
<1> DEFINE n == Len(run)
           more == Append(run, c)
           closing == {i \in open : c # run[n]}
           o == {i \in 1..(n + 1) : i \notin closing}
           e == [i \in 1..(n + 3) |-> IF i > n + 1 THEN 0 ELSE IF i \in o THEN ends[i] + 1 ELSE ends[i]]
<1>1. n \in Nat
  OBVIOUS
<1>2. /\ more \in Seq(Newline) /\ Len(more) = n + 1 /\ more[n + 1] = c
      /\ \A i \in 1..n : more[i] = run[i]
  OBVIOUS
<1>3. ends \in [1..(n + 2) -> Nat] /\ open \in SUBSET (1..n)
  BY DEF Scan
<1>4. ASSUME NEW i \in 1..(n + 2)
      PROVE  /\ i > n => ends[i] = 0
             /\ i = n => ends[i] = 1 /\ i \in open
             /\ i < n /\ run[i] # run[i + 1] => ends[i] = 1 + ends[i + 2] /\ (i \in open <=> i + 2 \in open)
             /\ i < n /\ run[i] = run[i + 1] => ends[i] = 1 + ends[i + 1] /\ (i \in open <=> i + 1 \in open)
  BY DEF Scan
<1> HIDE DEF n, more
<1>5. o \in SUBSET (1..(n + 1)) /\ \A i \in 1..(n + 1) : i \in o <=> ~(i \in open /\ c # run[n])
  OBVIOUS
<1> HIDE DEF o, closing
<1>6. \A i \in 1..(n + 1) : e[i] = IF i \in o THEN ends[i] + 1 ELSE ends[i]
  BY <1>1
<1>7. e[n + 2] = 0 /\ e[n + 3] = 0
  BY <1>1
<1>8. e \in [1..(n + 3) -> Nat]
  <2>1. ASSUME NEW i \in 1..(n + 3)
        PROVE  (IF i > n + 1 THEN 0 ELSE IF i \in o THEN ends[i] + 1 ELSE ends[i]) \in Nat
    BY <1>1, <1>3
  <2> QED
    BY <2>1
<1> HIDE DEF e
<1>9. e[n + 1] = 1 /\ n + 1 \in o /\ n + 2 \notin o
  <2>1. n + 1 \in 1..(n + 1) /\ n + 1 \in 1..(n + 2) /\ n + 1 \notin open /\ n + 1 > n
    BY <1>1, <1>3
  <2>2. n + 2 \notin 1..(n + 1) /\ ends[n + 1] = 0
    BY <1>1, <1>4, <2>1
  <2>3. n + 1 \in o
    BY <1>5, <2>1
  <2>4. e[n + 1] = 1
    BY <1>6, <2>1, <2>2, <2>3
  <2>5. n + 2 \notin o
    BY <1>5, <2>2
  <2> QED
    BY <2>3, <2>4, <2>5
<1>10. ASSUME NEW i \in 1..n, i < n
       PROVE  /\ run[i] # run[i + 1] => e[i] = 1 + e[i + 2] /\ (i \in o <=> i + 2 \in o)
              /\ run[i] = run[i + 1] => e[i] = 1 + e[i + 1] /\ (i \in o <=> i + 1 \in o)
  <2>1. i \in 1..(n + 2) /\ i \in 1..(n + 1) /\ i + 1 \in 1..(n + 1) /\ i + 2 \in 1..(n + 1)
    BY <1>1, <1>10
  <2>2. i + 1 \in 1..(n + 2) /\ i + 2 \in 1..(n + 2)
    BY <1>1, <1>10
  <2>3. ends[i] \in Nat /\ ends[i + 1] \in Nat /\ ends[i + 2] \in Nat
    BY <1>3, <2>1, <2>2
  <2>4. CASE run[i] # run[i + 1]
    <3>1. ends[i] = 1 + ends[i + 2] /\ (i \in open <=> i + 2 \in open)
      BY <1>4, <1>10, <2>1, <2>4
    <3>2. i \in o <=> i + 2 \in o
      BY <1>5, <2>1, <3>1
    <3> QED
      BY <1>6, <2>1, <2>3, <2>4, <3>1, <3>2
  <2>5. CASE run[i] = run[i + 1]
    <3>1. ends[i] = 1 + ends[i + 1] /\ (i \in open <=> i + 1 \in open)
      BY <1>4, <1>10, <2>1, <2>5
    <3>2. i \in o <=> i + 1 \in o
      BY <1>5, <2>1, <3>1
    <3> QED
      BY SMTT(30), <1>6, <2>1, <2>3, <2>5, <3>1, <3>2
  <2> QED
    BY <2>4, <2>5
<1>11. ASSUME n > 0
       PROVE  /\ run[n] # c => e[n] = 1 /\ n \notin o
              /\ run[n] = c => e[n] = 2 /\ n \in o
  <2>1. n \in 1..(n + 1) /\ n \in 1..(n + 2)
    BY <1>1, <1>11
  <2>2. ends[n] = 1 /\ n \in open
    BY <1>4, <2>1
  <2>3. n \in o <=> run[n] = c
    BY <1>5, <2>1, <2>2
  <2> QED
    BY <1>6, <2>1, <2>2, <2>3
<1>12. ASSUME NEW i \in 1..(n + 3)
       PROVE  /\ i > n + 1 => e[i] = 0
              /\ i = n + 1 => e[i] = 1 /\ i \in o
              /\ i < n + 1 /\ more[i] # more[i + 1] => e[i] = 1 + e[i + 2] /\ (i \in o <=> i + 2 \in o)
              /\ i < n + 1 /\ more[i] = more[i + 1] => e[i] = 1 + e[i + 1] /\ (i \in o <=> i + 1 \in o)
  <2>1. CASE i > n + 1
    <3>1. i = n + 2 \/ i = n + 3
      BY <1>1, <2>1
    <3>2. e[i] = 0
      BY <1>7, <3>1
    <3>3. ~(i = n + 1) /\ ~(i < n + 1)
      BY <1>1, <2>1
    <3> QED
      BY <3>2, <3>3
  <2>2. CASE i = n + 1
    <3>1. ~(i > n + 1) /\ ~(i < n + 1)
      BY <1>1, <2>2
    <3> QED
      BY <1>9, <2>2, <3>1
  <2>3. CASE i = n
    <3>1. more[i] = run[n] /\ more[i + 1] = c /\ n > 0
      BY <1>1, <1>2, <2>3
    <3>2. ~(i > n + 1) /\ ~(i = n + 1)
      BY <1>1, <2>3
    <3>3. run[n] # c => e[n] = 1 + e[n + 2] /\ (n \in o <=> n + 2 \in o)
      BY <1>7, <1>9, <1>11, <3>1
    <3>4. run[n] = c => e[n] = 1 + e[n + 1] /\ (n \in o <=> n + 1 \in o)
      BY <1>9, <1>11, <3>1
    <3> QED
      BY <2>3, <3>1, <3>2, <3>3, <3>4
  <2>4. CASE i < n
    <3>1. i \in 1..n /\ i + 1 \in 1..n /\ ~(i > n + 1) /\ ~(i = n + 1)
      BY <1>1, <2>4
    <3>2. more[i] = run[i] /\ more[i + 1] = run[i + 1]
      BY <1>2, <3>1
    <3> QED
      BY <1>10, <2>4, <3>1, <3>2
  <2> QED
    BY <1>1, <2>1, <2>2, <2>3, <2>4
<1>13. Scan(more, e, o)
  <2> DEFINE m == Len(more)
  <2>1. m = n + 1
    BY <1>2
  <2>2. m + 2 = n + 3
    BY <1>1, <2>1
  <2> HIDE DEF m
  <2>3. e \in [1..(m + 2) -> Nat] /\ o \in SUBSET (1..m)
    BY <1>5, <1>8, <2>1, <2>2
  <2>4. ASSUME NEW i \in 1..(m + 2)
        PROVE  /\ i > m => e[i] = 0
               /\ i = m => e[i] = 1 /\ i \in o
               /\ i < m /\ more[i] # more[i + 1] => e[i] = 1 + e[i + 2] /\ (i \in o <=> i + 2 \in o)
               /\ i < m /\ ~(i < m /\ more[i] # more[i + 1]) => e[i] = 1 + e[i + 1] /\ (i \in o <=> i + 1 \in o)
    BY <1>12, <2>1, <2>2
  <2> QED
    BY <2>3, <2>4 DEF m, Scan
<1>14. 1 \in o <=> ~(1 \in open /\ c # run[n])
  BY <1>1, <1>5
<1>15. e[1] = IF 1 \in o THEN ends[1] + 1 ELSE ends[1]
  BY <1>1, <1>6
<1> QED
  BY <1>13, <1>14, <1>15 DEF n, more

LEMMA NothingScanned == \E ends, open : Scan(<<>>, ends, open) /\ ends[1] = 0 /\ 1 \notin open
<1> DEFINE ends == [i \in 1..2 |-> 0]
           n == Len(<<>>)
<1>1. n = 0 /\ n + 2 = 2
  OBVIOUS
<1> HIDE DEF n
<1>2. ASSUME NEW i \in 1..(n + 2)
      PROVE  i > n /\ ~(i = n) /\ ~(i < n) /\ ends[i] = 0
  BY <1>1
<1>3. ends \in [1..(n + 2) -> Nat] /\ {} \in SUBSET (1..n)
  BY <1>1
<1>4. ends[1] = 0
  OBVIOUS
<1> HIDE DEF ends
<1>5. Scan(<<>>, ends, {})
  BY <1>2, <1>3 DEF Scan, n
<1> QED
  BY <1>4, <1>5

(* A line ending adds a byte to the run.                                   *)
LEMMA NewlineEnds ==
    ASSUME EndingInv, NEW c \in Newline,
           endings' = [run |-> Append(endings.run, c),
                       lines |-> IF IsSecondOfPair(c) THEN endings.lines ELSE endings.lines + 1],
           last_char' = IF IsSecondOfPair(c) THEN Other ELSE c
    PROVE  EndingInv'
<1> DEFINE run == endings.run
           more == Append(run, c)
           closes == IsSecondOfPair(c)
<1>1. run \in Seq(Newline)
  BY DEF EndingInv
<1>2. PICK ends, open : /\ Scan(run, ends, open)
                        /\ endings.lines = ends[1]
                        /\ last_char = IF 1 \in open THEN run[Len(run)] ELSE Other
  BY DEF EndingInv
<1>3. closes <=> 1 \in open /\ c # run[Len(run)]
  <2>1. 1 \in open => run[Len(run)] \in Newline
    <3> DEFINE n == Len(run)
    <3>1. open \in SUBSET (1..n) /\ n \in Nat
      BY <1>1, <1>2 DEF Scan
    <3> HIDE DEF n
    <3>2. 1 \in open => n \in 1..n
      BY <3>1
    <3> QED
      BY <1>1, <3>2 DEF n
  <2>2. Other \notin Newline
    BY DEF Other, Newline, CR, LF
  <2> QED
    BY <1>2, <2>1, <2>2 DEF IsSecondOfPair
<1>4. PICK e, o : /\ Scan(more, e, o)
                  /\ e[1] = (IF closes THEN ends[1] ELSE ends[1] + 1)
                  /\ 1 \in o <=> ~closes
  <2> HIDE DEF run, closes
  <2> QED
    BY <1>1, <1>2, <1>3, ScanAppends
<1>5. more \in Seq(Newline) /\ more[Len(more)] = c
  <2> HIDE DEF run
  <2> QED
    BY <1>1
<1>6. endings' = [run |-> more, lines |-> e[1]]
  BY <1>2, <1>4
<1>7. last_char' = IF 1 \in o THEN more[Len(more)] ELSE Other
  BY <1>4, <1>5
<1> HIDE DEF more, closes, run
<1>8. endings'.run = more /\ endings'.lines = e[1]
  BY <1>6
<1> QED
  BY <1>4, <1>5, <1>6, <1>7, <1>8 DEF EndingInv

LEMMA EndingStep == EndingInv /\ [Next]_vars => EndingInv'
<1> SUFFICES ASSUME EndingInv, [Next]_vars PROVE EndingInv'
  OBVIOUS
<1>1. CASE UNCHANGED vars
  BY <1>1 DEF vars, EndingInv
<1>2. ASSUME NotNewline PROVE EndingInv'
  <2>1. endings' = [run |-> <<>>, lines |-> 0] /\ last_char' = Other
    BY <1>2 DEF NotNewline
  <2>2. <<>> \in Seq(Newline)
    OBVIOUS
  <2> QED
    BY <2>1, <2>2, NothingScanned DEF EndingInv
<1>3. ASSUME NEW c, SwallowNewline(c) PROVE EndingInv'
  <2>1. c \in Newline /\ IsSecondOfPair(c) /\ last_char' = Other
        /\ endings' = [endings EXCEPT !.run = Append(endings.run, c)]
    BY <1>3 DEF SwallowNewline, IsSecondOfPair
  <2>2. endings = [run |-> endings.run, lines |-> endings.lines]
    BY DEF EndingInv
  <2>3. endings' = [run |-> Append(endings.run, c), lines |-> endings.lines]
    BY <2>1, <2>2
  <2> QED
    BY <2>1, <2>3, NewlineEnds
<1>4. ASSUME NEW c, Enter(c) PROVE EndingInv'
  <2>1. /\ c \in Newline /\ ~IsSecondOfPair(c) /\ last_char' = c
        /\ endings' = [run |-> Append(endings.run, c), lines |-> endings.lines + 1]
    BY <1>4 DEF Enter
  <2> QED
    BY <2>1, NewlineEnds
<1>5. CASE Next
  <2>1. PICK c : ProcessChar(c)
    BY <1>5 DEF Next
  <2>2. SwallowNewline(c) \/ Enter(c) \/ NotNewline
    BY <2>1 DEF ProcessChar, BeginEscape, Introduce, AbandonEscape, CsiDigit, CsiTilde,
                CsiArrow, CsiUnknown, Ss3Final, IdleByte
  <2> QED
    BY <1>2, <1>3, <1>4, <2>2
<1> QED
  BY <1>1, <1>5

(* However CR and LF follow one another and whatever comes between, the    *)
(* byte the editor remembers is enough to submit each line ending once.    *)
THEOREM EachLineEndingSubmits == Spec => []OneSubmitPerLineEnding
<1>1. Init => EndingInv
  <2>1. <<>> \in Seq(Newline)
    OBVIOUS
  <2> QED
    BY <2>1, NothingScanned DEF Init, EndingInv
<1>2. EndingInv => OneSubmitPerLineEnding
  BY ScanCounts DEF EndingInv, OneSubmitPerLineEnding
<1> QED
  BY <1>1, <1>2, EndingStep, PTL DEF Spec

=============================================================================
