--------------------------- MODULE HistoryProofs ---------------------------
(***************************************************************************)
(* The byte array of History, for every size of it and every set of lines: *)
(* memmove() and truncation leave whole entries end to end, so the walks   *)
(* that find entries by their terminators never lose their place.          *)
(***************************************************************************)
EXTENDS History, SequenceTheorems, TLAPS

Facts == INSTANCE ScanFacts

LEMMA Size == BUFFER_SIZE \in Nat /\ BUFFER_SIZE > 0
  BY LengthAssumption DEF BUFFER_SIZE

(* Where the C string at p ends: at its terminator or after the array.     *)
EndAt(p) == p + StrnLen(p)

LEMMA EndOfString ==
    ASSUME NEW p \in 0..BUFFER_SIZE
    PROVE  /\ EndAt(p) \in p..BUFFER_SIZE
           /\ StrnLen(p) = EndAt(p) - p
           /\ EndAt(p) < BUFFER_SIZE => history_buffer[EndAt(p)] = NUL
           /\ \A q \in p..(EndAt(p) - 1) : history_buffer[q] # NUL
<1> DEFINE ends == {q \in p..(BUFFER_SIZE - 1) : history_buffer[q] = NUL}
<1> USE Size
<1>1. StrnLen(p) = (IF ends = {} THEN BUFFER_SIZE ELSE Min(ends)) - p
  BY DEF StrnLen
<1>2. CASE ends = {}
  BY <1>1, <1>2 DEF EndAt
<1>3. CASE ends # {}
  <2>1. ends \in SUBSET Nat
    OBVIOUS
  <2>2. Min(ends) \in ends /\ \A q \in ends : Min(ends) <= q
    <3> HIDE DEF ends
    <3>1. \E least \in ends : \A q \in ends : least <= q
      BY <1>3, <2>1, Facts!HasLeast
    <3> QED
      BY <3>1 DEF Min
  <2> QED
    BY <1>1, <1>3, <2>2 DEF EndAt
<1> QED
  BY <1>2, <1>3

(* The next entry of any walk is behind this one.                          *)
LEMMA WalkAdvances ==
    ASSUME NEW p \in 0..(BUFFER_SIZE - 1)
    PROVE  /\ entry_length(p) \in Nat
           /\ p + entry_length(p) + 1 \in (p + 1)..BUFFER_SIZE
           /\ Terminated(p) => After(p) = EndAt(p) + 1 /\ After(p) \in (p + 1)..BUFFER_SIZE
           /\ Terminated(p) <=> EndAt(p) < BUFFER_SIZE
<1> USE Size
<1> DEFINE e == StrnLen(p)
<1>1. e \in Nat /\ p + e \in p..BUFFER_SIZE
  BY EndOfString DEF EndAt
<1> HIDE DEF e
<1>2. e % 256 \in 0..e
  BY <1>1
<1>3. /\ entry_length(p) = IF p + e < BUFFER_SIZE THEN e % 256 ELSE 0
      /\ After(p) = p + e + 1 /\ EndAt(p) = p + e
      /\ Terminated(p) <=> p + e < BUFFER_SIZE
  BY DEF entry_length, Terminated, After, EndAt, e
<1> QED
  BY <1>1, <1>2, <1>3

-----------------------------------------------------------------------------
(* The recursive scans of push(): each is defined, so its equation holds.  *)

LEMMA DuplicateScan ==
    ASSUME bytes_used \in 0..BUFFER_SIZE, NEW s
    PROVE  \E from :
              /\ FindDuplicate(s) = from[0]
              /\ \A p \in 0..BUFFER_SIZE :
                    from[p] = IF p >= bytes_used THEN nullptr
                              ELSE IF Matches(p, s) THEN p
                              ELSE from[p + entry_length(p) + 1]
<1> DEFINE n == BUFFER_SIZE
           V == Index \cup {nullptr}
           At(f, p) == IF p >= bytes_used THEN nullptr
                       ELSE IF Matches(p, s) THEN p ELSE f[p + entry_length(p) + 1]
           from == CHOOSE f : f = [p \in 0..n |-> At(f, p)]
           D == {p \in 0..n : p >= bytes_used \/ Matches(p, s)}
           base == [p \in 0..n |-> IF p >= bytes_used THEN nullptr ELSE p]
           next == [p \in 0..n |-> p + entry_length(p) + 1]
<1>1. FindDuplicate(s) = from[0]
  BY DEF FindDuplicate
<1>2. \A p \in 0..n : p \in D => base[p] \in V
  BY Size DEF Index
<1>3. \A p \in 0..n : p \notin D => p \in 0..(n - 1)
  BY Size
<1>4. \A p \in 0..n : p \notin D => next[p] \in (p + 1)..n
  BY <1>3, WalkAdvances
<1>5. PICK f : Facts!IsWalk(f, 0, n, V, D, base, next)
  <2> HIDE DEF V, D, base, next
  <2>1. 0 \in Nat /\ n \in Nat /\ 0 <= n
    BY Size
  <2> QED
    BY <1>2, <1>4, <2>1, Facts!WalkExists
<1>6. f \in [0..n -> V]
  BY <1>5 DEF Facts!IsWalk
<1>7. ASSUME NEW p \in 0..n PROVE f[p] = At(f, p)
  <2>1. f[p] = IF p \in D THEN base[p] ELSE f[next[p]]
    BY <1>5 DEF Facts!IsWalk
  <2>2. p \in D <=> (p >= bytes_used \/ Matches(p, s))
    OBVIOUS
  <2>3. base[p] = (IF p >= bytes_used THEN nullptr ELSE p) /\ next[p] = p + entry_length(p) + 1
    OBVIOUS
  <2> HIDE DEF D, base, next
  <2> QED
    BY <2>1, <2>2, <2>3
<1>8. from = [p \in 0..n |-> At(from, p)]
  <2> HIDE DEF At
  <2>1. f = [p \in 0..n |-> At(f, p)]
    BY <1>6, <1>7
  <2> QED
    BY <2>1
<1> HIDE DEF from
<1> QED
  BY <1>1, <1>8

LEMMA OldestScan ==
    ASSUME NEW used \in 1..BUFFER_SIZE
    PROVE  \E from :
              /\ OldestEntry(used) = from[0]
              /\ \A p \in 0..(used - 1) :
                    from[p] = IF ~Terminated(p) \/ StrnLen(p) = 0 \/ After(p) >= used
                                THEN p ELSE from[After(p)]
<1> DEFINE n == used - 1
           Last(p) == ~Terminated(p) \/ StrnLen(p) = 0 \/ After(p) >= used
           At(f, p) == IF Last(p) THEN p ELSE f[After(p)]
           from == CHOOSE f : f = [p \in 0..n |-> At(f, p)]
           D == {p \in 0..n : Last(p)}
           base == [p \in 0..n |-> p]
           next == [p \in 0..n |-> After(p)]
<1>1. OldestEntry(used) = from[0]
  BY DEF OldestEntry
<1>2. \A p \in 0..n : p \in D => base[p] \in 0..n
  OBVIOUS
<1>3. \A p \in 0..n : p \notin D => next[p] \in (p + 1)..n
  <2> SUFFICES ASSUME NEW p \in 0..n, p \notin D PROVE next[p] \in (p + 1)..n
    OBVIOUS
  <2>1. Terminated(p) /\ ~(After(p) >= used) /\ p \in 0..(BUFFER_SIZE - 1) /\ next[p] = After(p)
    BY Size
  <2>2. After(p) \in (p + 1)..BUFFER_SIZE
    BY <2>1, WalkAdvances
  <2> QED
    BY <2>1, <2>2, Size
<1>5. PICK f : Facts!IsWalk(f, 0, n, 0..n, D, base, next)
  <2> HIDE DEF D, base, next
  <2>1. 0 \in Nat /\ n \in Nat /\ 0 <= n
    BY Size
  <2> HIDE DEF n
  <2> QED
    BY <1>2, <1>3, <2>1, Facts!WalkExists
<1>6. f \in [0..n -> 0..n]
  BY <1>5 DEF Facts!IsWalk
<1>7. ASSUME NEW p \in 0..n PROVE f[p] = At(f, p)
  <2>1. f[p] = IF p \in D THEN base[p] ELSE f[next[p]]
    BY <1>5 DEF Facts!IsWalk
  <2>2. (p \in D <=> Last(p)) /\ base[p] = p /\ next[p] = After(p)
    OBVIOUS
  <2> HIDE DEF D, base, next, Last
  <2> QED
    BY <2>1, <2>2
<1>8. from = [p \in 0..n |-> At(from, p)]
  <2> HIDE DEF At
  <2>1. f = [p \in 0..n |-> At(f, p)]
    BY <1>6, <1>7
  <2> QED
    BY <2>1
<1> HIDE DEF from
<1> QED
  BY <1>1, <1>8

(* The oldest of some used bytes starts among them, whatever they are.     *)
LEMMA OldestInside ==
    ASSUME NEW used \in 1..BUFFER_SIZE
    PROVE  OldestEntry(used) \in 0..(used - 1)
<1>1. PICK from :
         /\ OldestEntry(used) = from[0]
         /\ \A p \in 0..(used - 1) :
               from[p] = IF ~Terminated(p) \/ StrnLen(p) = 0 \/ After(p) >= used
                           THEN p ELSE from[After(p)]
  BY OldestScan
<1> DEFINE n == used - 1
           Q == {p \in 0..n : from[p] \in 0..n}
<1>2. ASSUME NEW p \in 0..n, \A q \in (p + 1)..n : q \in Q PROVE p \in Q
  <2>1. CASE ~Terminated(p) \/ StrnLen(p) = 0 \/ After(p) >= used
    BY <1>1, <2>1
  <2>2. CASE ~(~Terminated(p) \/ StrnLen(p) = 0 \/ After(p) >= used)
    <3>1. p \in 0..(BUFFER_SIZE - 1)
      BY Size
    <3>2. After(p) \in (p + 1)..n
      BY <2>2, <3>1, WalkAdvances, Size
    <3> QED
      BY <1>1, <1>2, <2>2, <3>2
  <2> QED
    BY <2>1, <2>2
<1>3. 0 \in Nat /\ n \in Nat /\ 0 \in 0..n
  BY Size
<1> HIDE DEF Q, n
<1>4. \A p \in 0..n : p \in Q
  BY <1>2, <1>3, Facts!Downward
<1> QED
  BY <1>1, <1>3, <1>4 DEF Q, n

LEMMA EvictionScan ==
    ASSUME NEW need \in Nat
    PROVE  \E loop :
              /\ UsedAfterEviction(need) = loop[bytes_used]
              /\ \A used \in 0..BUFFER_SIZE :
                    loop[used] = IF NoRoom(used, need) /\ used > 0
                                   THEN loop[OldestEntry(used)] ELSE used
<1> DEFINE n == BUFFER_SIZE
           More(used) == NoRoom(used, need) /\ used > 0
           At(f, used) == IF More(used) THEN f[OldestEntry(used)] ELSE used
           loop == CHOOSE f : f = [used \in 0..n |-> At(f, used)]
           D == {i \in 0..n : ~More(n - i)}
           base == [i \in 0..n |-> n - i]
           next == [i \in 0..n |-> n - OldestEntry(n - i)]
<1>1. UsedAfterEviction(need) = loop[bytes_used]
  BY DEF UsedAfterEviction
<1>2. \A i \in 0..n : i \in D => base[i] \in 0..n
  BY Size
<1>3. \A i \in 0..n : i \notin D => next[i] \in (i + 1)..n
  <2> SUFFICES ASSUME NEW i \in 0..n, i \notin D PROVE next[i] \in (i + 1)..n
    OBVIOUS
  <2>1. n - i \in 1..n /\ next[i] = n - OldestEntry(n - i)
    BY Size
  <2>2. OldestEntry(n - i) \in 0..(n - i - 1)
    BY <2>1, OldestInside
  <2> HIDE DEF next
  <2> QED
    BY <2>1, <2>2, Size
<1>5. PICK g : Facts!IsWalk(g, 0, n, 0..n, D, base, next)
  <2> HIDE DEF D, base, next
  <2>1. 0 \in Nat /\ n \in Nat /\ 0 <= n
    BY Size
  <2> QED
    BY <1>2, <1>3, <2>1, Facts!WalkExists
<1> DEFINE f == [used \in 0..n |-> g[n - used]]
<1>7. ASSUME NEW used \in 0..n PROVE f[used] = At(f, used)
  <2>0. n - used \in 0..n /\ n - (n - used) = used
    BY Size
  <2>1. f[used] = IF n - used \in D THEN base[n - used] ELSE g[next[n - used]]
    BY <1>5, <2>0 DEF Facts!IsWalk
  <2>2. (n - used \in D <=> ~More(used)) /\ base[n - used] = used
        /\ next[n - used] = n - OldestEntry(used)
    BY <2>0
  <2>3. More(used) => OldestEntry(used) \in 0..n
    <3> SUFFICES ASSUME More(used) PROVE OldestEntry(used) \in 0..n
      OBVIOUS
    <3>1. used \in 1..BUFFER_SIZE
      BY Size
    <3>2. OldestEntry(used) \in 0..(used - 1)
      BY <3>1, OldestInside
    <3> QED
      BY <3>1, <3>2, Size
  <2> HIDE DEF D, base, next, More
  <2> QED
    BY <2>1, <2>2, <2>3
<1>8. loop = [used \in 0..n |-> At(loop, used)]
  <2> HIDE DEF At
  <2>1. f = [used \in 0..n |-> At(f, used)]
    <3>1. f = [used \in 0..n |-> f[used]]
      OBVIOUS
    <3> HIDE DEF f
    <3> QED
      BY <1>7, <3>1
  <2> HIDE DEF f
  <2> QED
    BY <2>1
<1> HIDE DEF loop
<1> QED
  BY <1>1, <1>8

(* Eviction ends, with room for the line or with nothing left, at one of   *)
(* the places B that taking away the oldest entry leads to.                *)
LEMMA EvictionEnds ==
    ASSUME NEW need \in Nat, bytes_used \in 0..BUFFER_SIZE,
           NEW B \in SUBSET (0..BUFFER_SIZE), bytes_used \in B,
           \A used \in B : used > 0 => OldestEntry(used) \in B,
           \A used, q \in B : used > 0 /\ q > OldestEntry(used) => q >= used
    PROVE  /\ UsedAfterEviction(need) \in B
           /\ UsedAfterEviction(need) \in 0..bytes_used
           /\ NoRoom(UsedAfterEviction(need), need) => UsedAfterEviction(need) = 0
           /\ \A q \in B : q > UsedAfterEviction(need) /\ q <= bytes_used => NoRoom(q, need)
<1>1. PICK loop :
         /\ UsedAfterEviction(need) = loop[bytes_used]
         /\ \A used \in 0..BUFFER_SIZE :
               loop[used] = IF NoRoom(used, need) /\ used > 0
                              THEN loop[OldestEntry(used)] ELSE used
  BY EvictionScan
<1> DEFINE Good(used) == /\ loop[used] \in B /\ loop[used] \in 0..used
                         /\ NoRoom(loop[used], need) => loop[used] = 0
                         /\ \A q \in B : q > loop[used] /\ q <= used => NoRoom(q, need)
           bad == {used \in B : ~Good(used)}
<1>2. bad = {}
  <2> SUFFICES ASSUME bad # {} PROVE FALSE
    OBVIOUS
  <2>1. bad \in SUBSET Nat
    <3> HIDE DEF Good
    <3>1. bad \subseteq B /\ B \subseteq 0..BUFFER_SIZE
      OBVIOUS
    <3> HIDE DEF bad
    <3> QED
      BY <3>1, Size
  <2>2. PICK used \in bad : \A m \in bad : used <= m
    <3> HIDE DEF bad
    <3> QED
      BY <2>1, Facts!HasLeast
  <2>3. used \in B /\ used \in 0..BUFFER_SIZE /\ used \in Nat /\ ~Good(used)
    BY Size
  <2>4. CASE NoRoom(used, need) /\ used > 0
    <3>1. used \in 1..BUFFER_SIZE
      BY <2>3, <2>4
    <3>2. OldestEntry(used) \in 0..(used - 1) /\ OldestEntry(used) \in B
      BY <2>3, <2>4, <3>1, OldestInside
    <3>3. OldestEntry(used) \notin bad
      BY <2>2, <2>3, <3>2
    <3>4. Good(OldestEntry(used))
      BY <3>2, <3>3
    <3>5. loop[used] = loop[OldestEntry(used)]
      BY <1>1, <2>3, <2>4
    <3> HIDE DEF bad
    <3>6. \A q \in B : q > loop[used] /\ q <= used => NoRoom(q, need)
      <4> SUFFICES ASSUME NEW q \in B, q > loop[used], q <= used PROVE NoRoom(q, need)
        OBVIOUS
      <4>1. CASE q <= OldestEntry(used)
        BY <3>4, <3>5, <4>1
      <4>2. CASE ~(q <= OldestEntry(used))
        <5>1. q > OldestEntry(used) /\ q \in Nat
          BY <2>3, <3>2, <4>2, Size
        <5>2. q >= used
          BY <2>3, <2>4, <5>1
        <5>3. q = used
          BY <2>3, <5>1, <5>2
        <5> QED
          BY <2>4, <5>3
      <4> QED
        BY <4>1, <4>2
    <3>7. loop[used] \in B /\ loop[used] \in 0..used /\ (NoRoom(loop[used], need) => loop[used] = 0)
      BY <2>3, <3>2, <3>4, <3>5
    <3> QED
      BY <2>3, <3>6, <3>7
  <2>5. CASE ~(NoRoom(used, need) /\ used > 0)
    <3>1. loop[used] = used
      BY <1>1, <2>3, <2>5
    <3> QED
      BY <2>3, <2>5, <3>1
  <2> QED
    BY <2>4, <2>5
<1> QED
  BY <1>1, <1>2

-----------------------------------------------------------------------------
(* What push() does to the types.                                          *)

LEMMA WrittenTyped ==
    ASSUME NEW s \in Line, NEW moved \in 0..BUFFER_SIZE,
           history_buffer \in [Index -> Char \cup {NUL}]
    PROVE  WrittenInFront(s, moved) \in [Index -> Char \cup {NUL}]
<1>1. s \in Seq(Char) /\ Len(s) \in Nat
  BY CharAssumption
<1> DEFINE n == Len(s)
<1>2. \A q \in Nat : q < n => s[q + 1] \in Char
  BY <1>1
<1>3. n \in Nat /\ EntrySize(s) = n + 1
  BY <1>1 DEF EntrySize
<1> HIDE DEF n
<1>4. ASSUME NEW q \in Index
      PROVE  WrittenInFront(s, moved)[q] \in Char \cup {NUL}
  <2>1. WrittenInFront(s, moved)[q] =
           IF q < n THEN s[q + 1]
           ELSE IF q = n THEN NUL
           ELSE IF q \in (n + 1)..(n + moved) THEN history_buffer[q - (n + 1)]
           ELSE history_buffer[q]
    BY <1>3 DEF WrittenInFront, Shifted, n
  <2>2. q \in Nat /\ (q \in (n + 1)..(n + moved) => q - (n + 1) \in Index)
    BY <1>3, Size DEF Index
  <2> QED
    BY <1>2, <2>1, <2>2
<1>5. WrittenInFront(s, moved) = [q \in Index |-> WrittenInFront(s, moved)[q]]
  BY DEF WrittenInFront
<1> QED
  BY <1>4, <1>5

(* What the walk for a duplicate finds is an entry that matches.           *)
LEMMA DuplicateInside ==
    ASSUME bytes_used \in 0..BUFFER_SIZE, NEW s
    PROVE  FindDuplicate(s) = nullptr \/ FindDuplicate(s) \in 0..(bytes_used - 1)
<1>1. PICK from :
         /\ FindDuplicate(s) = from[0]
         /\ \A p \in 0..BUFFER_SIZE :
               from[p] = IF p >= bytes_used THEN nullptr
                         ELSE IF Matches(p, s) THEN p
                         ELSE from[p + entry_length(p) + 1]
  BY DuplicateScan
<1> DEFINE n == BUFFER_SIZE
           Q == {p \in 0..n : from[p] = nullptr \/ from[p] \in 0..(bytes_used - 1)}
<1>2. ASSUME NEW p \in 0..n, \A q \in (p + 1)..n : q \in Q PROVE p \in Q
  <2>1. CASE p >= bytes_used \/ Matches(p, s)
    BY <1>1, <2>1, Size
  <2>2. CASE ~(p >= bytes_used \/ Matches(p, s))
    <3>1. p \in 0..(n - 1)
      BY <2>2, Size
    <3>2. p + entry_length(p) + 1 \in (p + 1)..n
      BY <3>1, WalkAdvances
    <3> QED
      BY <1>1, <1>2, <2>2, <3>2
  <2> QED
    BY <2>1, <2>2
<1>3. 0 \in Nat /\ n \in Nat /\ 0 \in 0..n
  BY Size
<1> HIDE DEF Q, n
<1>4. \A p \in 0..n : p \in Q
  BY <1>2, <1>3, Facts!Downward
<1> QED
  BY <1>1, <1>3, <1>4 DEF Q, n

-----------------------------------------------------------------------------
(* Entries.  The inductive invariant is Packed with the types, and that no *)
(* entry is longer than a line: the byte in which entry_length() gives a   *)
(* length would otherwise wrap, and a promotion move part of an entry.     *)

Short ==
    \A p \in 0..(bytes_used - 1) :
        \E e \in p..(p + 254) : e < bytes_used /\ history_buffer[e] = NUL

IInv == TypeOK /\ Packed /\ Short

(* Where an entry starts, and where the used bytes may be cut.             *)
Starts == {p \in 0..(bytes_used - 1) : p = 0 \/ history_buffer[p - 1] = NUL}

Cuts == Starts \cup {bytes_used}

(* At the start of an entry a walk finds its whole length, and a next      *)
(* entry behind it unless it is the last one.                              *)
LEMMA EntryAt ==
    ASSUME IInv, NEW p \in Starts
    PROVE  /\ p \in 0..(BUFFER_SIZE - 1) /\ p < bytes_used
           /\ history_buffer[p] # NUL
           /\ EndAt(p) \in (p + 1)..(bytes_used - 1) /\ history_buffer[EndAt(p)] = NUL
           /\ \A q \in p..(EndAt(p) - 1) : history_buffer[q] # NUL
           /\ Terminated(p)
           /\ StrnLen(p) = EndAt(p) - p /\ StrnLen(p) \in 1..254
           /\ entry_length(p) = StrnLen(p)
           /\ After(p) = EndAt(p) + 1 /\ After(p) \in Cuts
<1> USE Size
<1>1. bytes_used \in 0..BUFFER_SIZE /\ p \in 0..(bytes_used - 1)
      /\ history_buffer \in [Index -> Char \cup {NUL}]
      /\ (p = 0 \/ history_buffer[p - 1] = NUL)
  BY DEF IInv, TypeOK, Starts
<1>2. p \in 0..(BUFFER_SIZE - 1)
  BY <1>1
<1>3. history_buffer[p] # NUL
  BY <1>1 DEF IInv, Packed
<1>4. /\ EndAt(p) \in p..BUFFER_SIZE /\ StrnLen(p) = EndAt(p) - p
      /\ EndAt(p) < BUFFER_SIZE => history_buffer[EndAt(p)] = NUL
      /\ \A q \in p..(EndAt(p) - 1) : history_buffer[q] # NUL
  BY <1>2, EndOfString
<1>5. PICK e \in p..(p + 254) : e < bytes_used /\ history_buffer[e] = NUL
  BY <1>1 DEF IInv, Short
<1>6. EndAt(p) <= e
  BY <1>1, <1>4, <1>5
<1>7. EndAt(p) \in p..(bytes_used - 1) /\ EndAt(p) <= p + 254
  BY <1>1, <1>2, <1>4, <1>5, <1>6
<1>8. history_buffer[EndAt(p)] = NUL /\ EndAt(p) # p
  BY <1>1, <1>3, <1>4, <1>7
<1>9. StrnLen(p) \in 1..254
  BY SMTT(30), <1>1, <1>4, <1>7, <1>8
<1>10. Terminated(p) /\ After(p) = EndAt(p) + 1
  BY <1>1, <1>7, <1>9 DEF Terminated, After, EndAt
<1>11. entry_length(p) = StrnLen(p)
  <2> DEFINE e2 == StrnLen(p)
  <2>1. e2 \in 1..254
    BY <1>9
  <2>2. entry_length(p) = e2 % 256
    BY <1>10 DEF entry_length
  <2> HIDE DEF e2
  <2>3. e2 % 256 = e2
    BY <2>1
  <2> QED
    BY <2>2, <2>3 DEF e2
<1>12. After(p) \in Cuts
  BY <1>1, <1>7, <1>8, <1>10 DEF Cuts, Starts
<1> QED
  BY <1>1, <1>2, <1>3, <1>4, <1>7, <1>8, <1>9, <1>10, <1>11, <1>12

(* Nothing is cut, and no other entry starts, inside an entry.             *)
LEMMA NoneInside ==
    ASSUME IInv, NEW p \in Starts, NEW q \in Cuts, q > p
    PROVE  q >= After(p)
<1>1. /\ p \in 0..(BUFFER_SIZE - 1) /\ p < bytes_used
      /\ EndAt(p) \in (p + 1)..(bytes_used - 1) /\ After(p) = EndAt(p) + 1
      /\ \A k \in p..(EndAt(p) - 1) : history_buffer[k] # NUL
  BY EntryAt
<1>2. bytes_used \in Nat
  BY Size DEF IInv, TypeOK
<1>3. q = bytes_used \/ (q \in 1..(bytes_used - 1) /\ history_buffer[q - 1] = NUL)
  BY <1>1, <1>2 DEF Cuts, Starts
<1> QED
  BY <1>1, <1>2, <1>3

LEMMA UsedBytes == ASSUME IInv PROVE bytes_used \in 0..BUFFER_SIZE /\ 0 \in Cuts
  BY Size DEF IInv, TypeOK, Cuts, Starts

LEMMA CutsInside ==
    ASSUME IInv
    PROVE  /\ Starts \subseteq Cuts /\ Cuts \in SUBSET (0..BUFFER_SIZE)
           /\ \A p \in Cuts : p = bytes_used \/ p \in Starts
           /\ \A p \in Starts : p < bytes_used
           /\ \A p \in Cuts : p <= bytes_used
  BY UsedBytes, Size DEF Cuts, Starts

(* The walk of push() finds the first entry that matches.                  *)
LEMMA DuplicateFound ==
    ASSUME IInv, NEW s
    PROVE  /\ \/ FindDuplicate(s) = nullptr
              \/ FindDuplicate(s) \in Starts /\ Matches(FindDuplicate(s), s)
           /\ \A q \in Starts : q < FindDuplicate(s) => ~Matches(q, s)
<1>0. bytes_used \in 0..BUFFER_SIZE /\ nullptr = BUFFER_SIZE + 1
  BY UsedBytes DEF nullptr
<1>1. PICK from :
         /\ FindDuplicate(s) = from[0]
         /\ \A p \in 0..BUFFER_SIZE :
               from[p] = IF p >= bytes_used THEN nullptr
                         ELSE IF Matches(p, s) THEN p
                         ELSE from[p + entry_length(p) + 1]
  BY <1>0, DuplicateScan
<1> DEFINE n == BUFFER_SIZE
           Found(p) == /\ from[p] = nullptr \/ (from[p] \in Starts /\ Matches(from[p], s))
                       /\ \A q \in Starts : p <= q /\ q < from[p] => ~Matches(q, s)
           Q == {p \in 0..n : p \in Cuts => Found(p)}
<1>2. ASSUME NEW p \in 0..n, \A q \in (p + 1)..n : q \in Q PROVE p \in Q
  <2> SUFFICES ASSUME p \in Cuts PROVE Found(p)
    OBVIOUS
  <2>1. CASE p = bytes_used
    <3>1. from[p] = nullptr
      BY <1>0, <1>1, <2>1
    <3>2. \A q \in Starts : q \in Int /\ q < p
      BY <1>0, <2>1, CutsInside, Size DEF Starts
    <3>3. p \in Int
      BY Size
    <3>4. \A q \in Starts : ~(p <= q)
      BY <3>2, <3>3
    <3> QED
      BY <3>1, <3>4
  <2>2. CASE p \in Starts
    <3>1. p < bytes_used /\ Terminated(p) /\ entry_length(p) = StrnLen(p)
          /\ After(p) = EndAt(p) + 1 /\ After(p) \in Cuts /\ StrnLen(p) = EndAt(p) - p
          /\ EndAt(p) \in (p + 1)..(bytes_used - 1)
      BY <2>2, EntryAt
    <3>2. p + entry_length(p) + 1 = After(p) /\ After(p) \in (p + 1)..n
      BY <1>0, <3>1, Size
    <3>3. CASE Matches(p, s)
      <4>1. from[p] = p
        BY <1>0, <1>1, <3>1, <3>3
      <4> QED
        BY <1>0, <2>2, <3>3, <4>1, CutsInside
    <3>4. CASE ~Matches(p, s)
      <4>1. from[p] = from[After(p)]
        BY <1>0, <1>1, <3>1, <3>2, <3>4
      <4> HIDE DEF Found
      <4>2. Found(After(p))
        BY <1>2, <3>1, <3>2
      <4>3. \A q \in Starts : q >= p => q = p \/ q >= After(p)
        BY <2>2, NoneInside, CutsInside
      <4> QED
        BY <3>4, <4>1, <4>2, <4>3 DEF Found
    <3> QED
      BY <3>3, <3>4
  <2> QED
    BY <2>1, <2>2, CutsInside
<1>3. 0 \in Nat /\ n \in Nat /\ 0 \in 0..n
  BY Size
<1> HIDE DEF Q, n
<1>4. \A p \in 0..n : p \in Q
  BY <1>2, <1>3, Facts!Downward
<1>5. Found(0)
  BY <1>3, <1>4, UsedBytes DEF Q
<1>6. \A q \in Starts : 0 <= q
  BY CutsInside
<1> QED
  BY <1>1, <1>5, <1>6

(* Eviction takes away the last entry before a cut.                        *)
LEMMA OldestAt ==
    ASSUME IInv, NEW used \in Cuts, used > 0
    PROVE  OldestEntry(used) \in Starts /\ After(OldestEntry(used)) = used
<1>0. used \in 1..BUFFER_SIZE /\ bytes_used \in 0..BUFFER_SIZE /\ used <= bytes_used
  BY CutsInside, UsedBytes
<1>1. PICK from :
         /\ OldestEntry(used) = from[0]
         /\ \A p \in 0..(used - 1) :
               from[p] = IF ~Terminated(p) \/ StrnLen(p) = 0 \/ After(p) >= used
                           THEN p ELSE from[After(p)]
  BY <1>0, OldestScan
<1> DEFINE n == used - 1
           Q == {p \in 0..n : p \in Starts => from[p] \in Starts /\ After(from[p]) = used}
<1>2. ASSUME NEW p \in 0..n, \A q \in (p + 1)..n : q \in Q PROVE p \in Q
  <2> SUFFICES ASSUME p \in Starts PROVE from[p] \in Starts /\ After(from[p]) = used
    OBVIOUS
  <2>1. /\ Terminated(p) /\ StrnLen(p) # 0
        /\ After(p) \in Cuts /\ After(p) = EndAt(p) + 1 /\ EndAt(p) \in (p + 1)..(bytes_used - 1)
    BY EntryAt
  <2>2. used >= After(p)
    BY <1>0, NoneInside
  <2>3. CASE After(p) >= used
    <3>1. from[p] = p /\ After(p) = used
      BY <1>0, <1>1, <2>1, <2>2, <2>3
    <3> QED
      BY <3>1
  <2>4. CASE ~(After(p) >= used)
    <3>1. from[p] = from[After(p)]
      BY <1>1, <2>1, <2>4
    <3>2. After(p) \in (p + 1)..n /\ After(p) # bytes_used
      BY <1>0, <2>1, <2>4
    <3>3. After(p) \in Starts
      BY <2>1, <3>2, CutsInside
    <3> QED
      BY <1>2, <3>1, <3>2, <3>3
  <2> QED
    BY <2>3, <2>4
<1>3. 0 \in Nat /\ n \in Nat /\ 0 \in 0..n
  BY <1>0
<1>4. 0 \in Starts
  BY <1>0 DEF Starts
<1> HIDE DEF Q, n
<1>5. \A p \in 0..n : p \in Q
  BY <1>2, <1>3, Facts!Downward
<1> QED
  BY <1>1, <1>3, <1>4, <1>5 DEF Q

(* Eviction ends between two entries.                                      *)
LEMMA EvictionCuts ==
    ASSUME IInv, NEW need \in Nat
    PROVE  /\ UsedAfterEviction(need) \in Cuts
           /\ UsedAfterEviction(need) \in 0..bytes_used
           /\ NoRoom(UsedAfterEviction(need), need) => UsedAfterEviction(need) = 0
           /\ \A q \in Cuts : q > UsedAfterEviction(need) => NoRoom(q, need)
<1>1. \A used \in Cuts : used > 0 => OldestEntry(used) \in Cuts
  BY OldestAt, CutsInside
<1>3. ASSUME NEW used \in Cuts, NEW q \in Cuts, used > 0, q > OldestEntry(used)
      PROVE  q >= used
  <2>1. OldestEntry(used) \in Starts /\ After(OldestEntry(used)) = used
    BY <1>3, OldestAt
  <2> QED
    BY <1>3, <2>1, NoneInside
<1>4. \A q \in Cuts : q <= bytes_used
  BY CutsInside
<1>2. bytes_used \in Cuts /\ bytes_used \in 0..BUFFER_SIZE /\ Cuts \in SUBSET (0..BUFFER_SIZE)
  BY CutsInside, UsedBytes DEF Cuts
<1> HIDE DEF Cuts
<1> QED
  BY <1>1, <1>2, <1>3, <1>4, EvictionEnds

-----------------------------------------------------------------------------
(* The array after a push, byte by byte.                                   *)

LEMMA LineIs ==
    ASSUME NEW s \in Line, s # <<>>
    PROVE  /\ s \in Seq(Char) /\ Len(s) \in 1..254 /\ EntrySize(s) = Len(s) + 1
           /\ \A i \in 1..Len(s) : s[i] \in Char /\ s[i] # NUL
<1>1. s \in Seq(Char) /\ Len(s) < 255
  BY CharAssumption, LineAssumption
<1>2. Len(s) \in Nat /\ Len(s) # 0 /\ \A i \in 1..Len(s) : s[i] \in Char
  BY <1>1, EmptySeq
<1>3. NUL \notin Char
  BY CharAssumption
<1>4. EntrySize(s) = Len(s) + 1
  BY DEF EntrySize
<1>5. \A i \in 1..Len(s) : s[i] \in Char /\ s[i] # NUL
  BY <1>2, <1>3
<1>6. Len(s) \in 1..254
  <2> DEFINE n == Len(s)
  <2>1. n \in Nat /\ n # 0 /\ n < 255
    BY <1>1, <1>2
  <2> HIDE DEF n
  <2>2. n \in 1..254
    BY <2>1
  <2> QED
    BY <2>2 DEF n
<1> QED
  BY <1>1, <1>4, <1>5, <1>6

LEMMA WrittenBytes ==
    ASSUME NEW s \in Line, s # <<>>, NEW d \in 0..BUFFER_SIZE, NEW q \in Index
    PROVE  /\ q < Len(s) => WrittenInFront(s, d)[q] # NUL
           /\ q < Len(s) => WrittenInFront(s, d)[q] = s[q + 1]
           /\ q = Len(s) => WrittenInFront(s, d)[q] = NUL
           /\ q > Len(s) /\ q <= Len(s) + d =>
                 WrittenInFront(s, d)[q] = history_buffer[q - (Len(s) + 1)]
           /\ q > Len(s) + d => WrittenInFront(s, d)[q] = history_buffer[q]
<1> DEFINE n == Len(s)
<1>1. n \in 1..254 /\ EntrySize(s) = n + 1 /\ \A i \in 1..n : s[i] # NUL
  BY LineIs
<1>2. WrittenInFront(s, d)[q] =
         IF q < n THEN s[q + 1]
         ELSE IF q = n THEN NUL
         ELSE IF q \in (n + 1)..(n + d) THEN history_buffer[q - (n + 1)]
         ELSE history_buffer[q]
  BY <1>1 DEF WrittenInFront, Shifted
<1>3. q \in Nat /\ d \in Nat
  BY Size DEF Index
<1> HIDE DEF n
<1>4. q < n => q + 1 \in 1..n
  BY <1>1, <1>3
<1> QED
  BY <1>1, <1>2, <1>3, <1>4 DEF n

(* A new line in front of what eviction has left.                          *)
LEMMA NewPacked ==
    ASSUME IInv, NEW s \in Line, s # <<>>, NEW d \in Cuts,
           d + EntrySize(s) <= BUFFER_SIZE,
           history_buffer' = WrittenInFront(s, d),
           bytes_used' = d + EntrySize(s)
    PROVE  Packed' /\ Short'
<1> DEFINE n == Len(s)
           b == history_buffer'
<1>1. n \in 1..254 /\ EntrySize(s) = n + 1
  BY LineIs
<1>2. d \in 0..BUFFER_SIZE /\ d <= bytes_used /\ bytes_used \in 0..BUFFER_SIZE
  BY CutsInside, UsedBytes
<1>3. bytes_used' = d + n + 1 /\ bytes_used' <= BUFFER_SIZE /\ BUFFER_SIZE \in Nat
  BY <1>1, <1>2, Size
<1>4. /\ \A q \in 0..(n - 1) : b[q] # NUL
      /\ b[n] = NUL
      /\ \A q \in (n + 1)..(n + d) : b[q] = history_buffer[q - (n + 1)]
  <2> SUFFICES ASSUME NEW q \in 0..(n + d)
               PROVE  /\ q < n => b[q] # NUL
                      /\ q = n => b[q] = NUL
                      /\ q > n /\ q <= n + d => b[q] = history_buffer[q - (n + 1)]
    BY <1>1, <1>2, <1>3
  <2>1. q \in Index
    BY <1>1, <1>2, <1>3 DEF Index
  <2> QED
    BY <1>2, <2>1, WrittenBytes
<1>5. d > 0 => history_buffer[0] # NUL /\ history_buffer[d - 1] = NUL
  BY <1>2 DEF IInv, Packed, Cuts, Starts
<1>6. \A q \in 1..(d - 1) : history_buffer[q - 1] = NUL => history_buffer[q] # NUL
  BY <1>2 DEF IInv, Packed
<1>7. \A p \in 0..(d - 1) : \E e \in p..(p + 254) : e < d /\ history_buffer[e] = NUL
  <2> SUFFICES ASSUME NEW p \in 0..(d - 1)
               PROVE  \E e \in p..(p + 254) : e < d /\ history_buffer[e] = NUL
    OBVIOUS
  <2>0. p \in 0..(bytes_used - 1)
    BY <1>2
  <2>1. PICK e \in p..(p + 254) : e < bytes_used /\ history_buffer[e] = NUL
    BY <2>0 DEF IInv, Short
  <2>2. CASE e < d
    BY <2>1, <2>2
  <2>3. CASE e >= d
    <3>1. d - 1 \in p..(p + 254) /\ d - 1 < d
      BY <1>2, <2>1, <2>3
    <3> QED
      BY <1>2, <1>5, <3>1
  <2> QED
    BY <1>2, <2>1, <2>2, <2>3
<1> HIDE DEF n, b
<1>8. b[0] # NUL /\ b[d + n + 1 - 1] = NUL
  <2>1. CASE d = 0
    BY <1>1, <1>4, <2>1
  <2>2. CASE d > 0
    <3>1. n + d \in (n + 1)..(n + d) /\ (n + d) - (n + 1) = d - 1 /\ d + n + 1 - 1 = n + d
      BY <1>1, <1>2, <2>2
    <3>2. b[n + d] = history_buffer[d - 1]
      BY <1>4, <3>1
    <3> QED
      BY <1>1, <1>4, <1>5, <2>2, <3>1, <3>2
  <2> QED
    BY <1>2, <2>1, <2>2
<1>9. ASSUME NEW q \in 1..(d + n), b[q - 1] = NUL PROVE b[q] # NUL
  <2>1. q - 1 \in 0..(n - 1) => FALSE
    BY <1>4, <1>9
  <2>2. CASE q = n + 1
    <3>1. d > 0 /\ q \in (n + 1)..(n + d) /\ q - (n + 1) = 0
      BY <1>1, <1>2, <2>2
    <3> QED
      BY <1>4, <1>5, <3>1
  <2>3. CASE q > n + 1
    <3>1. q \in (n + 1)..(n + d) /\ q - 1 \in (n + 1)..(n + d)
          /\ q - (n + 1) \in 1..(d - 1) /\ (q - 1) - (n + 1) = (q - (n + 1)) - 1
      BY <1>1, <1>2, <2>3
    <3> QED
      BY <1>4, <1>6, <1>9, <3>1
  <2> QED
    BY <1>1, <1>2, <2>1, <2>2, <2>3
<1>10. ASSUME NEW p \in 0..(d + n)
       PROVE  \E e \in p..(p + 254) : e < d + n + 1 /\ b[e] = NUL
  <2>1. CASE p <= n
    <3>1. n \in p..(p + 254) /\ n < d + n + 1
      BY <1>1, <1>2, <2>1
    <3> QED
      BY <1>4, <3>1
  <2>2. CASE p > n
    <3>1. p - (n + 1) \in 0..(d - 1)
      BY <1>1, <1>2, <2>2
    <3>2. PICK e \in (p - (n + 1))..(p - (n + 1) + 254) : e < d /\ history_buffer[e] = NUL
      BY <1>7, <3>1
    <3>3. e + n + 1 \in p..(p + 254) /\ e + n + 1 < d + n + 1
          /\ e + n + 1 \in (n + 1)..(n + d) /\ (e + n + 1) - (n + 1) = e
      BY <1>1, <1>2, <2>2, <3>2
    <3>4. b[e + n + 1] = NUL
      BY <1>4, <3>2, <3>3
    <3> QED
      BY <3>3, <3>4
  <2> QED
    BY <1>1, <1>2, <2>1, <2>2
<1>11. bytes_used' - 1 = d + n /\ bytes_used' - 1 = d + n + 1 - 1
  BY <1>1, <1>2, <1>3
<1>12. Packed'
  BY <1>8, <1>9, <1>11 DEF Packed, b
<1>13. Short'
  BY <1>3, <1>10, <1>11 DEF Short, b
<1> QED
  BY <1>12, <1>13

(* An entry that has moved to the front, in front of those it was behind.  *)
LEMMA PromotedPacked ==
    ASSUME IInv, NEW s \in Line, s # <<>>, NEW d \in Starts, d > 0, StrnLen(d) = Len(s),
           history_buffer' = WrittenInFront(s, d),
           bytes_used' = bytes_used
    PROVE  Packed' /\ Short'
<1> DEFINE n == Len(s)
           b == history_buffer'
           u == bytes_used
<1>1. n \in 1..254
  BY LineIs
<1>2. u \in 0..BUFFER_SIZE /\ d \in 1..(u - 1) /\ BUFFER_SIZE \in Nat
  BY CutsInside, UsedBytes, Size DEF Starts
<1>3. /\ d + n < u /\ history_buffer[d + n] = NUL
      /\ EndAt(d) = d + n /\ history_buffer[d] # NUL
  <2>1. /\ EndAt(d) \in (d + 1)..(u - 1) /\ history_buffer[EndAt(d)] = NUL
        /\ StrnLen(d) = EndAt(d) - d /\ history_buffer[d] # NUL
    BY EntryAt
  <2> QED
    BY <1>1, <1>2, <2>1
<1>4. /\ \A q \in 0..(n - 1) : b[q] # NUL
      /\ b[n] = NUL
      /\ \A q \in (n + 1)..(n + d) : b[q] = history_buffer[q - (n + 1)]
      /\ \A q \in (n + d + 1)..(u - 1) : b[q] = history_buffer[q]
  <2> SUFFICES ASSUME NEW q \in 0..(u - 1)
               PROVE  /\ q < n => b[q] # NUL
                      /\ q = n => b[q] = NUL
                      /\ q > n /\ q <= n + d => b[q] = history_buffer[q - (n + 1)]
                      /\ q > n + d => b[q] = history_buffer[q]
    BY <1>1, <1>2, <1>3
  <2>1. q \in Index /\ d \in 0..BUFFER_SIZE
    BY <1>1, <1>2, <1>3 DEF Index
  <2> QED
    BY SMTT(30), <2>1, WrittenBytes
<1>5. history_buffer[0] # NUL /\ history_buffer[d - 1] = NUL /\ history_buffer[u - 1] = NUL
  BY <1>2 DEF IInv, Packed, Starts
<1>6. \A q \in 1..(u - 1) : history_buffer[q - 1] = NUL => history_buffer[q] # NUL
  BY <1>2 DEF IInv, Packed
<1>7. \A p \in 0..(u - 1) : \E e \in p..(p + 254) : e < u /\ history_buffer[e] = NUL
  BY DEF IInv, Short
<1>8. \A p \in 0..(d - 1) : \E e \in p..(p + 254) : e < d /\ history_buffer[e] = NUL
  <2> SUFFICES ASSUME NEW p \in 0..(d - 1)
               PROVE  \E e \in p..(p + 254) : e < d /\ history_buffer[e] = NUL
    OBVIOUS
  <2>0. p \in 0..(u - 1)
    BY <1>2
  <2>1. PICK e \in p..(p + 254) : e < u /\ history_buffer[e] = NUL
    BY <1>7, <2>0
  <2>2. CASE e >= d
    <3>1. d - 1 \in p..(p + 254) /\ d - 1 < d
      BY <1>2, <2>1, <2>2
    <3> QED
      BY <1>2, <1>5, <3>1
  <2> QED
    BY <1>2, <2>1, <2>2
<1> HIDE DEF n, b, u
<1>9. b[0] # NUL /\ b[u - 1] = NUL
  <2>1. CASE u - 1 = n + d
    <3>1. n + d \in (n + 1)..(n + d) /\ (n + d) - (n + 1) = d - 1
      BY <1>1, <1>2
    <3> QED
      BY <1>1, <1>4, <1>5, <2>1, <3>1
  <2>2. CASE u - 1 > n + d
    BY SMTT(30), <1>1, <1>2, <1>4, <1>5, <2>2
  <2> QED
    BY <1>1, <1>2, <1>3, <2>1, <2>2
<1>10. ASSUME NEW q \in 1..(u - 1), b[q - 1] = NUL PROVE b[q] # NUL
  <2>1. q - 1 \in 0..(n - 1) => FALSE
    BY <1>4, <1>10
  <2>2. CASE q = n + 1
    <3>1. q \in (n + 1)..(n + d) /\ q - (n + 1) = 0
      BY <1>1, <1>2, <2>2
    <3> QED
      BY <1>4, <1>5, <3>1
  <2>3. CASE q > n + 1 /\ q <= n + d
    <3>1. q \in (n + 1)..(n + d) /\ q - 1 \in (n + 1)..(n + d)
          /\ q - (n + 1) \in 1..(u - 1) /\ (q - 1) - (n + 1) = (q - (n + 1)) - 1
      BY <1>1, <1>2, <2>3
    <3> QED
      BY <1>4, <1>6, <1>10, <3>1
  <2>4. CASE q = n + d + 1
    <3>1. q \in (n + d + 1)..(u - 1) /\ q - 1 = d + n
      BY <1>1, <1>2, <2>4
    <3>2. history_buffer[q] # NUL
      BY <1>3, <1>6, <3>1
    <3> QED
      BY <1>4, <3>1, <3>2
  <2>5. CASE q > n + d + 1
    <3>1. q \in (n + d + 1)..(u - 1) /\ q - 1 \in (n + d + 1)..(u - 1)
      BY <1>1, <1>2, <2>5
    <3> QED
      BY <1>4, <1>6, <1>10, <3>1
  <2> QED
    BY <1>1, <1>2, <2>1, <2>2, <2>3, <2>4, <2>5
<1>11. ASSUME NEW p \in 0..(u - 1)
       PROVE  \E e \in p..(p + 254) : e < u /\ b[e] = NUL
  <2>1. CASE p <= n
    <3>1. n \in p..(p + 254) /\ n < u
      BY <1>1, <1>2, <1>3, <2>1
    <3> QED
      BY <1>4, <3>1
  <2>2. CASE p > n /\ p <= n + d
    <3>1. p - (n + 1) \in 0..(d - 1)
      BY <1>1, <1>2, <2>2
    <3>2. PICK e \in (p - (n + 1))..(p - (n + 1) + 254) : e < d /\ history_buffer[e] = NUL
      BY <1>8, <3>1
    <3>3. e + n + 1 \in p..(p + 254) /\ e + n + 1 < u
          /\ e + n + 1 \in (n + 1)..(n + d) /\ (e + n + 1) - (n + 1) = e
      BY <1>1, <1>2, <1>3, <2>2, <3>2
    <3>4. b[e + n + 1] = NUL
      BY <1>4, <3>2, <3>3
    <3> QED
      BY <3>3, <3>4
  <2>3. CASE p > n + d
    <3>1. PICK e \in p..(p + 254) : e < u /\ history_buffer[e] = NUL
      BY <1>7
    <3>2. e \in (n + d + 1)..(u - 1)
      BY <1>1, <1>2, <2>3, <3>1
    <3> QED
      BY <1>4, <3>1, <3>2
  <2> QED
    BY <1>1, <1>2, <2>1, <2>2, <2>3
<1>12. bytes_used' = u
  BY DEF u
<1>13. Packed'
  BY <1>9, <1>10, <1>12 DEF Packed, b
<1>14. Short'
  BY <1>11, <1>12 DEF Short, b
<1> QED
  BY SMTT(30), <1>13, <1>14

-----------------------------------------------------------------------------
(* The operations.                                                         *)

LEMMA InitInv == Init => IInv
<1> SUFFICES ASSUME Init PROVE IInv
  OBVIOUS
<1>1. bytes_used = 0 /\ history_buffer = [q \in Index |-> NUL] /\ cursor = HistoryLength
  BY DEF Init
<1>2. TypeOK
  BY <1>1, Size, LengthAssumption DEF TypeOK
<1> QED
  BY <1>1, <1>2 DEF IInv, Packed, Short

LEMMA PushKeeps ==
    ASSUME IInv, NEW s \in Line, Push(s)
    PROVE  IInv'
<1>0. /\ history_buffer \in [Index -> Char \cup {NUL}]
      /\ bytes_used \in 0..BUFFER_SIZE
      /\ cursor \in 0..HistoryLength /\ HistoryLength \in Nat
  BY LengthAssumption DEF IInv, TypeOK
<1>1. CASE PushNewest(s)
  BY <1>0, <1>1 DEF PushNewest, CursorAfterPush, IInv, TypeOK, Packed, Short
<1>2. CASE PushDuplicate(s)
  <2> DEFINE d == FindDuplicate(s)
  <2>1. /\ s # <<>> /\ ~(bytes_used > 0 /\ Matches(0, s)) /\ d # nullptr
        /\ history_buffer' = WrittenInFront(s, d)
        /\ cursor' = HistoryLength /\ bytes_used' = bytes_used
    BY <1>2 DEF PushDuplicate, Promoted, CursorAfterPush
  <2>2. d \in Starts /\ Matches(d, s)
    BY <2>1, DuplicateFound
  <2> HIDE DEF d
  <2>3. d \in 0..(bytes_used - 1)
    BY <2>2 DEF Starts
  <2>4. d > 0
    BY <1>0, <2>1, <2>2, <2>3
  <2>5. StrnLen(d) = Len(s)
    BY <2>2, EntryAt DEF Matches
  <2>6. Packed' /\ Short'
    BY <2>1, <2>2, <2>4, <2>5, PromotedPacked
  <2>7. d \in 0..BUFFER_SIZE
    BY <1>0, <2>3, Size
  <2>8. WrittenInFront(s, d) \in [Index -> Char \cup {NUL}]
    BY <1>0, <2>7, WrittenTyped
  <2> QED
    BY <1>0, <2>1, <2>6, <2>8 DEF IInv, TypeOK
<1>3. CASE PushNew(s)
  <2> DEFINE need == EntrySize(s)
             used == UsedAfterEviction(need)
  <2>1. /\ s # <<>>
        /\ IF NoRoom(used, need)
             THEN /\ bytes_used' = used
                  /\ UNCHANGED <<history_buffer, cursor>>
             ELSE /\ history_buffer' = WrittenInFront(s, used)
                  /\ bytes_used' = used + need
                  /\ cursor' = HistoryLength
    BY <1>3 DEF PushNew, CursorAfterPush
  <2>2. need \in 2..255 /\ need = EntrySize(s)
    <3> DEFINE n == Len(s)
    <3>1. n \in 1..254 /\ need = n + 1
      BY <2>1, LineIs
    <3> HIDE DEF n, need
    <3>2. need \in 2..255
      BY <3>1
    <3> QED
      BY <3>2 DEF need
  <2>3. used \in Cuts /\ used \in 0..bytes_used /\ (NoRoom(used, need) => used = 0)
    <3> HIDE DEF need
    <3>1. need \in Nat
      BY <2>2
    <3> QED
      BY <3>1, EvictionCuts
  <2>4. used \in 0..BUFFER_SIZE
    BY <1>0, <2>3, Size
  <2> HIDE DEF used, need
  <2>5. CASE NoRoom(used, need)
    <3>1. bytes_used' = 0 /\ history_buffer' = history_buffer /\ cursor' = cursor
      BY <2>1, <2>3, <2>5
    <3> QED
      BY <1>0, <3>1, Size DEF IInv, TypeOK, Packed, Short
  <2>6. CASE ~NoRoom(used, need)
    <3>1. /\ history_buffer' = WrittenInFront(s, used) /\ bytes_used' = used + need
          /\ cursor' = HistoryLength
      BY <2>1, <2>6
    <3>2. used + need <= BUFFER_SIZE
      BY <2>2, <2>4, <2>6, Size DEF NoRoom
    <3>3. Packed' /\ Short'
      BY <2>1, <2>2, <2>3, <3>1, <3>2, NewPacked
    <3>4. WrittenInFront(s, used) \in [Index -> Char \cup {NUL}]
      BY <1>0, <2>4, WrittenTyped
    <3>5. bytes_used' \in 0..BUFFER_SIZE
      BY <2>2, <2>4, <3>1, <3>2, Size
    <3> QED
      BY <1>0, <3>1, <3>3, <3>4, <3>5 DEF IInv, TypeOK
  <2> QED
    BY <2>5, <2>6
<1> QED
  BY <1>1, <1>2, <1>3 DEF Push

LEMMA NextInv == IInv /\ [Next]_vars => IInv'
<1> SUFFICES ASSUME IInv, [Next]_vars PROVE IInv'
  OBVIOUS
<1>0. cursor \in 0..HistoryLength /\ HistoryLength \in Nat
  BY LengthAssumption DEF IInv, TypeOK
<1>1. ASSUME NEW s \in Line, Push(s) PROVE IInv'
  BY <1>1, PushKeeps
<1>2. CASE Prev \/ NextNewer \/ CancelBrowsing \/ UNCHANGED vars
  <2>1. bytes_used' = bytes_used /\ history_buffer' = history_buffer
    BY <1>2 DEF Prev, NextNewer, CancelBrowsing, vars
  <2>2. cursor' \in 0..HistoryLength
    BY <1>0, <1>2, LengthAssumption DEF Prev, NextNewer, CancelBrowsing, vars, IsBrowsing, NewestFirst
  <2> QED
    BY <2>1, <2>2 DEF IInv, TypeOK, Packed, Short
<1> QED
  BY <1>1, <1>2 DEF Next

LEMMA Invariant == Spec => []IInv
  BY InitInv, NextInv, PTL DEF Spec

(* No push writes outside the array, uses more bytes than it has or leaves *)
(* the cursor beyond the number of entries the array was sized for.        *)
THEOREM HistoryTypeCorrect == Spec => []TypeOK
<1>1. IInv => TypeOK
  BY DEF IInv
<1> QED
  BY <1>1, Invariant, PTL

(* The used bytes are whole entries end to end after every history of      *)
(* pushes: neither the move to the front nor eviction leaves a gap or a    *)
(* fragment (lishHistory.h:37-44).                                         *)
THEOREM HistoryStaysPacked == Spec => []Packed
<1>1. IInv => Packed
  BY DEF IInv
<1> QED
  BY <1>1, Invariant, PTL

-----------------------------------------------------------------------------
(* The entries as a list.                                                  *)

(* es are the entries from p on, and at[k] is where the next one starts    *)
(* when k of them have been passed.                                        *)
ListedFrom(p, es, at) ==
    /\ es \in Seq(Seq(Char))
    /\ at \in [0..Len(es) -> Cuts]
    /\ at[0] = p /\ at[Len(es)] = bytes_used
    /\ \A k \in 1..Len(es) :
          at[k - 1] \in Starts /\ at[k] = After(at[k - 1]) /\ es[k] = CString(at[k - 1])

LEMMA StringAt ==
    ASSUME IInv, NEW p \in 0..(bytes_used - 1)
    PROVE  /\ After(p) \in (p + 1)..BUFFER_SIZE
           /\ CString(p) \in Seq(Char) /\ Len(CString(p)) = StrnLen(p)
           /\ \A i \in 1..StrnLen(p) : CString(p)[i] = history_buffer[p + i - 1]
<1>1. bytes_used \in 0..BUFFER_SIZE /\ BUFFER_SIZE \in Nat
      /\ history_buffer \in [Index -> Char \cup {NUL}]
  BY Size DEF IInv, TypeOK
<1>2. p \in 0..(BUFFER_SIZE - 1) /\ p \in 0..BUFFER_SIZE
  BY <1>1
<1>3. /\ EndAt(p) \in p..BUFFER_SIZE /\ StrnLen(p) = EndAt(p) - p
      /\ \A q \in p..(EndAt(p) - 1) : history_buffer[q] # NUL
  BY <1>2, EndOfString
<1>4. history_buffer[bytes_used - 1] = NUL
  BY <1>1 DEF IInv, Packed
<1>5. EndAt(p) <= bytes_used - 1
  BY <1>1, <1>2, <1>3, <1>4
<1>6. After(p) \in (p + 1)..BUFFER_SIZE
  <2>1. EndAt(p) < BUFFER_SIZE
    BY <1>1, <1>2, <1>3, <1>5
  <2> QED
    BY <1>2, <2>1, WalkAdvances
<1> DEFINE n == StrnLen(p)
<1>7. n \in Nat /\ \A i \in 1..n : history_buffer[p + i - 1] \in Char
  <2>1. n \in Nat
    BY <1>1, <1>3
  <2>2. ASSUME NEW i \in 1..n PROVE history_buffer[p + i - 1] \in Char
    <3>1. p + i - 1 \in Index /\ p + i - 1 \in p..(EndAt(p) - 1)
      BY <1>1, <1>3, <1>5, <2>1 DEF Index
    <3> QED
      BY <1>1, <1>3, <3>1
  <2> QED
    BY <2>1, <2>2
<1>8. CString(p) = [i \in 1..n |-> history_buffer[p + i - 1]]
  BY DEF CString
<1> HIDE DEF n
<1>9. CString(p) \in [1..n -> Char]
  BY <1>7, <1>8
<1>10. CString(p) \in Seq(Char) /\ Len(CString(p)) = n
  BY <1>7, <1>9
<1> QED
  BY <1>6, <1>8, <1>10 DEF n

LEMMA EntriesScan ==
    ASSUME IInv
    PROVE  \E from :
              /\ Entries = from[0]
              /\ \A p \in 0..BUFFER_SIZE :
                    from[p] = IF p >= bytes_used THEN <<>>
                              ELSE <<CString(p)>> \o from[After(p)]
<1>0. bytes_used \in 0..BUFFER_SIZE
  BY UsedBytes
<1> DEFINE n == BUFFER_SIZE
           V == Seq(Seq(Char))
           At(f, p) == IF p >= bytes_used THEN <<>> ELSE <<CString(p)>> \o f[After(p)]
           from == CHOOSE f : f = [p \in 0..n |-> At(f, p)]
           D == {p \in 0..n : p >= bytes_used}
           base == [p \in 0..n |-> <<>>]
           next == [p \in 0..n |-> After(p)]
           step == [p \in 0..n |-> [v \in V |-> <<CString(p)>> \o v]]
<1>1. Entries = from[0]
  BY DEF Entries
<1>2. \A p \in 0..n : p \notin D => p \in 0..(bytes_used - 1)
  BY <1>0, Size
<1>3. Facts!Scannable(0, n, V, D, base, next, step)
  <2> SUFFICES ASSUME NEW p \in 0..n
               PROVE  /\ p \in D => base[p] \in V
                      /\ p \notin D => next[p] \in (p + 1)..n
                      /\ p \notin D => \A v \in V : step[p][v] \in V
    BY DEF Facts!Scannable
  <2>1. base[p] \in V
    OBVIOUS
  <2>2. p \notin D => next[p] \in (p + 1)..n
    BY <1>2, StringAt
  <2>3. ASSUME p \notin D, NEW v \in V PROVE step[p][v] \in V
    <3>1. CString(p) \in Seq(Char)
      BY <1>2, <2>3, StringAt
    <3>2. <<CString(p)>> \o v \in V
      BY <3>1
    <3>3. step[p][v] = <<CString(p)>> \o v
      OBVIOUS
    <3> HIDE DEF step
    <3> QED
      BY <3>2, <3>3
  <2> QED
    BY <2>1, <2>2, <2>3
<1>5. PICK f : Facts!IsScan(f, 0, n, V, D, base, next, step)
  <2> HIDE DEF V, D, base, next, step
  <2>1. 0 \in Nat /\ n \in Nat /\ 0 <= n
    BY Size
  <2> QED
    BY <1>3, <2>1, Facts!ScanExists
<1>6. f \in [0..n -> V]
  BY <1>5 DEF Facts!IsScan
<1>7. ASSUME NEW p \in 0..n PROVE f[p] = At(f, p)
  <2>1. f[p] = IF p \in D THEN base[p] ELSE step[p][f[next[p]]]
    BY <1>5 DEF Facts!IsScan, Facts!Scanned
  <2>2. (p \in D <=> p >= bytes_used) /\ base[p] = <<>> /\ next[p] = After(p)
    OBVIOUS
  <2>3. CASE p \in D
    <3> HIDE DEF D, base, next, step
    <3> QED
      BY <2>1, <2>2, <2>3
  <2>4. CASE p \notin D
    <3>1. After(p) \in 0..n
      BY <1>2, <2>4, StringAt, Size
    <3>2. f[After(p)] \in V
      BY <1>6, <3>1
    <3> DEFINE w == f[After(p)]
    <3> HIDE DEF w
    <3>3. step[p][w] = <<CString(p)>> \o w
      BY <3>2 DEF w
    <3> HIDE DEF D, base, next, step
    <3> QED
      BY <2>1, <2>2, <2>4, <3>3 DEF w
  <2> QED
    BY <2>3, <2>4
<1>8. from = [p \in 0..n |-> At(from, p)]
  <2> HIDE DEF At
  <2>1. f = [p \in 0..n |-> At(f, p)]
    BY <1>6, <1>7
  <2> QED
    BY <2>1
<1> HIDE DEF from
<1> QED
  BY <1>1, <1>8

LEMMA EntriesListed == IInv => \E at : ListedFrom(0, Entries, at)
<1> SUFFICES ASSUME IInv PROVE \E at : ListedFrom(0, Entries, at)
  OBVIOUS
<1>1. PICK from :
         /\ Entries = from[0]
         /\ \A p \in 0..BUFFER_SIZE :
               from[p] = IF p >= bytes_used THEN <<>> ELSE <<CString(p)>> \o from[After(p)]
  BY EntriesScan
<1> DEFINE n == BUFFER_SIZE
           Q == {p \in 0..n : p \in Cuts => \E at : ListedFrom(p, from[p], at)}
<1>a. /\ \A p \in 0..n : p >= bytes_used => from[p] = <<>>
      /\ \A p \in 0..n : ~(p >= bytes_used) => from[p] = <<CString(p)>> \o from[After(p)]
  BY <1>1, Zenon
<1>2. bytes_used \in 0..n /\ n \in Nat
  BY UsedBytes, Size
<1>3. ASSUME NEW p \in 0..n, \A q \in (p + 1)..n : q \in Q PROVE p \in Q
  <2> SUFFICES ASSUME p \in Cuts PROVE \E at : ListedFrom(p, from[p], at)
    OBVIOUS
  <2>1. CASE p = bytes_used
    <3> DEFINE at == [k \in 0..0 |-> p]
    <3>0. p >= bytes_used
      BY <1>2, <2>1
    <3>1. from[p] = <<>>
      BY <1>a, <3>0, Zenon
    <3>2. ListedFrom(p, <<>>, at)
      <4>1. <<>> \in Seq(Seq(Char)) /\ Len(<<>>) = 0
        OBVIOUS
      <4>2. at \in [0..0 -> Cuts] /\ at[0] = p
        OBVIOUS
      <4> QED
        BY <2>1, <4>1, <4>2 DEF ListedFrom
    <3> QED
      BY <3>1, <3>2
  <2>2. CASE p \in Starts
    <3>1. p \in 0..(bytes_used - 1) /\ After(p) \in Cuts
      BY <2>2, EntryAt DEF Starts
    <3>2. After(p) \in (p + 1)..n
      BY <3>1, StringAt
    <3>3. PICK at : ListedFrom(After(p), from[After(p)], at)
      BY <1>3, <3>1, <3>2
    <3> DEFINE es == from[After(p)]
               m == Len(es)
               more == <<CString(p)>> \o es
               at2 == [k \in 0..(m + 1) |-> IF k = 0 THEN p ELSE at[k - 1]]
    <3>0. ~(p >= bytes_used)
      BY <1>2, <3>1
    <3>4. from[p] = more
      BY <1>a, <3>0, Zenon
    <3>5. /\ es \in Seq(Seq(Char)) /\ at \in [0..m -> Cuts] /\ at[0] = After(p) /\ at[m] = bytes_used
          /\ \A k \in 1..m :
                at[k - 1] \in Starts /\ at[k] = After(at[k - 1]) /\ es[k] = CString(at[k - 1])
      BY <3>3 DEF ListedFrom
    <3>6. CString(p) \in Seq(Char)
      BY <3>1, StringAt
    <3> HIDE DEF es
    <3>7. /\ m \in Nat /\ more \in Seq(Seq(Char)) /\ Len(more) = m + 1
          /\ more[1] = CString(p) /\ \A k \in 1..m : more[k + 1] = es[k]
      BY <3>5, <3>6
    <3> HIDE DEF m, more
    <3>8. at2 \in [0..(m + 1) -> Cuts] /\ at2[0] = p /\ at2[m + 1] = bytes_used
      BY <3>5, <3>7
    <3>9. ASSUME NEW k \in 1..(m + 1)
          PROVE  at2[k - 1] \in Starts /\ at2[k] = After(at2[k - 1]) /\ more[k] = CString(at2[k - 1])
      <4>1. CASE k = 1
        <5>1. at2[0] = p /\ at2[1] = at[0]
          BY <3>7
        <5> QED
          BY <2>2, <3>5, <3>7, <4>1, <5>1
      <4>2. CASE k # 1
        <5> DEFINE j == k - 1
        <5>1. j \in 1..m /\ k = j + 1
          BY <3>7, <4>2
        <5>2. at2[k - 1] = at[j - 1] /\ at2[k] = at[j]
          BY <3>7, <5>1
        <5> HIDE DEF j
        <5>3. more[k] = es[j]
          BY <3>7, <5>1
        <5> QED
          BY <3>5, <5>1, <5>2, <5>3
      <4> QED
        BY <4>1, <4>2
    <3> HIDE DEF at2
    <3>10. ListedFrom(p, more, at2)
      BY <3>7, <3>8, <3>9 DEF ListedFrom
    <3> QED
      BY <3>4, <3>10
  <2> QED
    BY <2>1, <2>2, CutsInside
<1>4. 0 \in Nat /\ 0 \in 0..n /\ 0 \in Cuts
  BY <1>2, UsedBytes
<1> HIDE DEF Q, n
<1>5. \A p \in 0..n : p \in Q
  BY <1>2, <1>3, <1>4, Facts!Downward
<1> QED
  BY <1>1, <1>4, <1>5 DEF Q

(* Entries start one behind the other, at every place where one can.       *)
LEMMA ListedOrder ==
    ASSUME IInv, NEW es, NEW at, ListedFrom(0, es, at)
    PROVE  /\ Len(es) \in Nat
           /\ \A j, k \in 0..Len(es) : j < k => at[j] < at[k]
           /\ \A q \in Cuts : \E k \in 0..Len(es) : at[k] = q
<1> DEFINE m == Len(es)
<1>1. /\ m \in Nat /\ at \in [0..m -> Cuts] /\ at[0] = 0 /\ at[m] = bytes_used
      /\ \A k \in 1..m : at[k - 1] \in Starts /\ at[k] = After(at[k - 1])
  BY DEF ListedFrom
<1> HIDE DEF m
<1>2. /\ Cuts \in SUBSET (0..BUFFER_SIZE) /\ BUFFER_SIZE \in Nat
      /\ \A q \in Cuts : q <= bytes_used
      /\ bytes_used \in Nat
  BY CutsInside, UsedBytes, Size
<1>3. \A k \in 0..m : at[k] \in Nat /\ at[k] \in Cuts
  <2>1. \A k \in 0..m : at[k] \in Cuts
    BY <1>1
  <2>2. \A q \in Cuts : q \in Nat
    BY <1>2
  <2> QED
    BY <2>1, <2>2
<1>4. ASSUME NEW k \in 0..m, k < m
      PROVE  at[k] \in Starts /\ at[k + 1] = After(at[k]) /\ at[k] < at[k + 1]
  <2>1. k + 1 \in 1..m /\ (k + 1) - 1 = k
    BY <1>1, <1>4
  <2>2. at[k] \in Starts /\ at[k + 1] = After(at[k])
    BY <1>1, <2>1
  <2>3. EndAt(at[k]) \in (at[k] + 1)..(bytes_used - 1) /\ After(at[k]) = EndAt(at[k]) + 1
    BY <2>2, EntryAt
  <2> QED
    BY <1>2, <1>3, <2>2, <2>3
<1>5. ASSUME NEW j \in 0..m, NEW k \in 0..m, j < k PROVE at[j] < at[k]
  <2> DEFINE Q == {i \in (j + 1)..m : at[j] < at[i]}
  <2>1. j + 1 \in Nat /\ m \in Nat /\ k \in (j + 1)..m /\ j + 1 \in (j + 1)..m /\ j < m
    BY <1>1, <1>5
  <2>2. j + 1 \in Q
    BY <1>4, <2>1
  <2>3. ASSUME NEW i \in (j + 1)..m, i \in Q, i < m PROVE i + 1 \in Q
    <3>1. i \in 0..m /\ i + 1 \in (j + 1)..m /\ i + 1 \in 0..m
      BY <1>1, <2>3
    <3>2. at[i] < at[i + 1] /\ at[j] < at[i]
      BY <1>4, <2>3, <3>1
    <3> QED
      BY <1>3, <3>1, <3>2
  <2> HIDE DEF Q
  <2>4. \A i \in (j + 1)..m : i \in Q
    BY <2>1, <2>2, <2>3, Facts!Upward
  <2> QED
    BY <2>1, <2>4 DEF Q
<1>6. ASSUME NEW q \in Cuts PROVE \E k \in 0..m : at[k] = q
  <2> DEFINE S == {k \in 0..m : at[k] <= q}
  <2>1. q \in Nat /\ q <= bytes_used
    BY <1>2
  <2>2. 0 \in S /\ S \in SUBSET (0..m)
    BY <1>1, <2>1
  <2>3. PICK k \in S : \A i \in S : k >= i
    <3> HIDE DEF S
    <3> QED
      BY <1>1, <2>2, Facts!HasGreatest
  <2>4. CASE k = m
    BY <1>1, <1>2, <2>1, <2>3, <2>4
  <2>5. CASE k # m
    <3>1. k < m /\ k + 1 \in 0..m
      BY <1>1, <2>3, <2>5
    <3>2. at[k] \in Starts /\ at[k + 1] = After(at[k])
      BY <1>4, <3>1
    <3>3. ~(at[k + 1] <= q)
      BY <2>3, <3>1
    <3>4. CASE q > at[k]
      BY <1>3, <2>1, <3>1, <3>2, <3>3, <3>4, NoneInside
    <3> QED
      BY <1>3, <2>1, <2>3, <3>4
  <2> QED
    BY <2>4, <2>5
<1> QED
  BY <1>1, <1>5, <1>6 DEF m

(* There is only one such list.                                            *)
LEMMA ListedOnce ==
    IInv => \A es, at : ListedFrom(0, es, at) => es = Entries
<1> SUFFICES ASSUME IInv, NEW es, NEW at, ListedFrom(0, es, at)
             PROVE  es = Entries
  OBVIOUS
<1> DEFINE fs == Entries
<1>1. PICK at2 : ListedFrom(0, fs, at2)
  BY EntriesListed
<1> HIDE DEF fs
<1> DEFINE m == Len(es)
           n == Len(fs)
<1>2. /\ es \in Seq(Seq(Char)) /\ m \in Nat /\ at[0] = 0 /\ at[m] = bytes_used
      /\ \A k \in 1..m : at[k - 1] \in Starts /\ at[k] = After(at[k - 1]) /\ es[k] = CString(at[k - 1])
  BY DEF ListedFrom
<1>3. /\ fs \in Seq(Seq(Char)) /\ n \in Nat /\ at2[0] = 0 /\ at2[n] = bytes_used
      /\ \A k \in 1..n : at2[k - 1] \in Starts /\ at2[k] = After(at2[k - 1]) /\ fs[k] = CString(at2[k - 1])
  BY <1>1 DEF ListedFrom
<1>4. bytes_used \notin Starts
  BY CutsInside, UsedBytes, Size
<1> HIDE DEF m, n
<1> DEFINE least == IF m <= n THEN m ELSE n
           Q == {k \in 0..least : at[k] = at2[k]}
<1>5. least \in Nat /\ least <= m /\ least <= n /\ (least = m \/ least = n)
  BY <1>2, <1>3
<1> HIDE DEF least
<1>6. \A k \in 0..least : k \in Q
  <2>1. 0 \in Q
    BY <1>2, <1>3, <1>5
  <2>2. ASSUME NEW k \in 0..least, k \in Q, k < least PROVE k + 1 \in Q
    <3>1. k + 1 \in 1..m /\ k + 1 \in 1..n /\ (k + 1) - 1 = k /\ k + 1 \in 0..least
      BY <1>2, <1>3, <1>5, <2>2
    <3>2. at[k + 1] = After(at[k]) /\ at2[k + 1] = After(at2[k])
      BY <1>2, <1>3, <3>1
    <3> QED
      BY <2>2, <3>1, <3>2
  <2> HIDE DEF Q
  <2> QED
    BY <1>5, <2>1, <2>2, Facts!Upward
<1>7. m = n
  <2>1. CASE m < n
    <3>1. m \in 0..least /\ m + 1 \in 1..n /\ (m + 1) - 1 = m
      BY <1>2, <1>3, <1>5, <2>1
    <3> QED
      BY <1>2, <1>3, <1>4, <1>6, <3>1
  <2>2. CASE n < m
    <3>1. n \in 0..least /\ n + 1 \in 1..m /\ (n + 1) - 1 = n
      BY <1>2, <1>3, <1>5, <2>2
    <3> QED
      BY <1>2, <1>3, <1>4, <1>6, <3>1
  <2> QED
    BY <1>2, <1>3, <2>1, <2>2
<1>8. ASSUME NEW k \in 1..m PROVE es[k] = fs[k]
  <2>1. k - 1 \in 0..least /\ k \in 1..n
    BY <1>2, <1>3, <1>5, <1>7
  <2> QED
    BY <1>2, <1>3, <1>6, <2>1
<1>9. es = fs
  BY <1>2, <1>3, <1>7, <1>8, SeqEqual DEF m, n
<1> QED
  BY <1>9 DEF fs

-----------------------------------------------------------------------------
(* The walks that browsing takes agree with the list.                      *)

LEMMA CountScan ==
    \E from :
       /\ count_entries = from[0] % 256
       /\ \A p \in 0..BUFFER_SIZE :
             from[p] = IF p >= bytes_used \/ ~Terminated(p) \/ StrnLen(p) = 0
                         THEN 0 ELSE 1 + from[After(p)]
<1> DEFINE n == BUFFER_SIZE
           Last(p) == p >= bytes_used \/ ~Terminated(p) \/ StrnLen(p) = 0
           At(f, p) == IF Last(p) THEN 0 ELSE 1 + f[After(p)]
           from == CHOOSE f : f = [p \in 0..n |-> At(f, p)]
           D == {p \in 0..n : Last(p)}
           base == [p \in 0..n |-> 0]
           next == [p \in 0..n |-> After(p)]
           step == [p \in 0..n |-> [v \in Nat |-> 1 + v]]
<1>1. count_entries = from[0] % 256
  BY DEF count_entries
<1>2. \A p \in 0..n : p \notin D => next[p] \in (p + 1)..n
  <2> SUFFICES ASSUME NEW p \in 0..n, p \notin D PROVE next[p] \in (p + 1)..n
    OBVIOUS
  <2>1. Terminated(p) /\ next[p] = After(p)
    OBVIOUS
  <2>2. p \in 0..(n - 1)
    BY <2>1, EndOfString, Size DEF Terminated, EndAt
  <2> QED
    BY <2>1, <2>2, WalkAdvances
<1>3. \A p \in 0..n : \A v \in Nat : step[p][v] = 1 + v
  OBVIOUS
<1>4. \A p \in 0..n : base[p] = 0 /\ next[p] = After(p) /\ (p \in D <=> Last(p))
  OBVIOUS
<1> HIDE DEF D, base, next, step
<1>5. Facts!Scannable(0, n, Nat, D, base, next, step)
  BY <1>2, <1>3, <1>4 DEF Facts!Scannable
<1>6. PICK f : Facts!IsScan(f, 0, n, Nat, D, base, next, step)
  <2>1. 0 \in Nat /\ n \in Nat /\ 0 <= n
    BY Size
  <2> QED
    BY <1>5, <2>1, Facts!ScanExists
<1>7. ASSUME NEW p \in 0..n PROVE f[p] = At(f, p)
  <2>1. f[p] = (IF p \in D THEN base[p] ELSE step[p][f[next[p]]]) /\ f \in [0..n -> Nat]
    BY <1>6 DEF Facts!IsScan, Facts!Scanned
  <2>2. CASE p \in D
    <3> HIDE DEF Last
    <3> QED
      BY <1>4, <2>1, <2>2
  <2>3. CASE p \notin D
    <3>1. After(p) \in 0..n
      BY <1>2, <1>4, <2>3
    <3>2. f[After(p)] \in Nat
      BY <2>1, <3>1
    <3> HIDE DEF Last
    <3> QED
      BY <1>3, <1>4, <2>1, <2>3, <3>2
  <2> QED
    BY <2>2, <2>3
<1>8. from = [p \in 0..n |-> At(from, p)]
  <2> HIDE DEF At
  <2>1. f = [p \in 0..n |-> At(f, p)]
    BY <1>6, <1>7 DEF Facts!IsScan
  <2> QED
    BY <2>1
<1> HIDE DEF from
<1> QED
  BY <1>1, <1>8

LEMMA PointerScan ==
    ASSUME NEW index \in Nat
    PROVE  \E ptr :
              /\ get_entry_ptr(index) = ptr[index]
              /\ \A i \in 0..index :
                    ptr[i] = IF i = 0 THEN 0
                             ELSE IF \/ ptr[i - 1] = nullptr
                                     \/ ~Terminated(ptr[i - 1])
                                     \/ ptr[i - 1] + StrnLen(ptr[i - 1]) >= bytes_used
                                    THEN nullptr ELSE After(ptr[i - 1])
<1> DEFINE Behind(p) == IF p = nullptr \/ ~Terminated(p) \/ p + StrnLen(p) >= bytes_used
                          THEN nullptr ELSE After(p)
           At(f, i) == IF i = 0 THEN 0
                       ELSE LET p == f[i - 1] IN
                            IF p = nullptr \/ ~Terminated(p) \/ p + StrnLen(p) >= bytes_used
                              THEN nullptr ELSE After(p)
           At2(f, i) == IF i = 0 THEN 0 ELSE Behind(f[i - 1])
           ptr == CHOOSE f : f = [i \in 0..index |-> At(f, i)]
           V == (0..BUFFER_SIZE) \cup {nullptr}
           D == {index}
           base == [j \in 0..index |-> 0]
           next == [j \in 0..index |-> j + 1]
           step == [j \in 0..index |-> [p \in V |-> Behind(p)]]
<1>1. get_entry_ptr(index) = ptr[index]
  BY DEF get_entry_ptr
<1>2. ASSUME NEW p \in V PROVE Behind(p) \in V
  <2>1. CASE p = nullptr \/ ~Terminated(p) \/ p + StrnLen(p) >= bytes_used
    BY <2>1
  <2>2. CASE ~(p = nullptr \/ ~Terminated(p) \/ p + StrnLen(p) >= bytes_used)
    <3>1. p \in 0..BUFFER_SIZE /\ Terminated(p)
      BY <2>2
    <3>2. p \in 0..(BUFFER_SIZE - 1)
      BY <3>1, EndOfString, Size DEF Terminated, EndAt
    <3>3. After(p) \in 0..BUFFER_SIZE
      BY <3>1, <3>2, WalkAdvances
    <3> QED
      BY <2>2, <3>3
  <2> QED
    BY <2>1, <2>2
<1>3. \A j \in 0..index : \A p \in V : step[j][p] = Behind(p)
  OBVIOUS
<1>4. \A j \in 0..index : base[j] = 0 /\ next[j] = j + 1 /\ (j \in D <=> j = index)
  OBVIOUS
<1>5. 0 \in V
  BY Size
<1> HIDE DEF D, base, next, step, V, Behind
<1>6. Facts!Scannable(0, index, V, D, base, next, step)
  BY <1>2, <1>3, <1>4, <1>5 DEF Facts!Scannable
<1>7. PICK g : Facts!IsScan(g, 0, index, V, D, base, next, step)
  BY <1>6, Facts!ScanExists
<1> DEFINE f == [i \in 0..index |-> g[index - i]]
<1>8. ASSUME NEW i \in 0..index PROVE f[i] = At2(f, i)
  <2>1. index - i \in 0..index
    OBVIOUS
  <2>2. g \in [0..index -> V]
        /\ g[index - i] = IF index - i \in D THEN base[index - i] ELSE step[index - i][g[next[index - i]]]
    BY <1>7, <2>1 DEF Facts!IsScan, Facts!Scanned
  <2>3. CASE i = 0
    BY <1>4, <2>1, <2>2, <2>3
  <2>4. CASE i # 0
    <3>1. index - i \notin D /\ next[index - i] = index - (i - 1)
      BY <1>4, <2>1, <2>4
    <3>2. index - (i - 1) \in 0..index /\ i - 1 \in 0..index
      BY <2>4
    <3>3. g[index - (i - 1)] \in V
      BY <2>2, <3>2
    <3>4. g[index - i] = Behind(g[index - (i - 1)])
      BY <1>3, <2>1, <2>2, <3>1, <3>3
    <3> QED
      BY <2>4, <3>2, <3>4
  <2> QED
    BY <2>3, <2>4
<1>9. f = [i \in 0..index |-> At(f, i)]
  <2>1. \A i \in 0..index : At2(f, i) = At(f, i)
    BY DEF Behind
  <2>2. f = [i \in 0..index |-> f[i]]
    OBVIOUS
  <2> HIDE DEF At, At2, f
  <2> QED
    BY <1>8, <2>1, <2>2
<1>10. ptr = [i \in 0..index |-> At(ptr, i)]
  <2> HIDE DEF At, f
  <2> QED
    BY <1>9
<1> HIDE DEF ptr
<1> QED
  BY <1>1, <1>10

LEMMA EntriesCounted ==
    IInv => count_entries = Len(Entries) % 256
<1> SUFFICES ASSUME IInv PROVE count_entries = Len(Entries) % 256
  OBVIOUS
<1>1. PICK at : ListedFrom(0, Entries, at)
  BY EntriesListed
<1>2. PICK from :
         /\ count_entries = from[0] % 256
         /\ \A p \in 0..BUFFER_SIZE :
               from[p] = IF p >= bytes_used \/ ~Terminated(p) \/ StrnLen(p) = 0
                           THEN 0 ELSE 1 + from[After(p)]
  BY CountScan
<1> DEFINE m == Len(Entries)
           Q == {k \in 0..m : from[at[k]] = m - k}
<1>3. /\ m \in Nat /\ at \in [0..m -> Cuts] /\ at[0] = 0 /\ at[m] = bytes_used
      /\ \A k \in 1..m : at[k - 1] \in Starts /\ at[k] = After(at[k - 1])
  BY <1>1, ListedOrder DEF ListedFrom
<1> HIDE DEF m
<1>4. ASSUME NEW k \in 0..m, \A j \in (k + 1)..m : j \in Q PROVE k \in Q
  <2>1. CASE k = m
    <3>1. bytes_used \in 0..BUFFER_SIZE
      BY UsedBytes
    <3>2. bytes_used >= bytes_used
      BY <3>1, Size
    <3>3. from[bytes_used] = 0
      BY <1>2, <3>1, <3>2, Zenon
    <3> QED
      BY <1>3, <2>1, <3>3
  <2>2. CASE k # m
    <3> DEFINE p == at[k]
    <3>1. k + 1 \in 1..m /\ (k + 1) - 1 = k /\ k + 1 \in (k + 1)..m
      BY <1>3, <2>2
    <3>2. p \in Starts /\ at[k + 1] = After(p)
      BY <1>3, <3>1
    <3> HIDE DEF p
    <3>3. p \in 0..BUFFER_SIZE /\ ~(p >= bytes_used) /\ Terminated(p) /\ StrnLen(p) # 0
      BY <3>2, EntryAt, UsedBytes, Size
    <3>4. from[p] = 1 + from[After(p)]
      BY <1>2, <3>3, Zenon
    <3>5. from[After(p)] = m - (k + 1)
      BY <1>4, <3>1, <3>2
    <3>6. from[p] = m - k
      BY <1>3, <3>4, <3>5
    <3> QED
      BY <3>6 DEF p
  <2> QED
    BY <2>1, <2>2
<1> HIDE DEF Q
<1>5. \A k \in 0..m : k \in Q
  BY <1>3, <1>4, Facts!Downward
<1>6. from[0] = m
  BY <1>3, <1>5 DEF Q
<1> QED
  BY <1>2, <1>6 DEF m

LEMMA PointsAtEntry ==
    ASSUME IInv, NEW at, ListedFrom(0, Entries, at),
           NEW index \in Nat, index < Len(Entries)
    PROVE  get_entry_ptr(index) = at[index]
<1>1. PICK ptr :
         /\ get_entry_ptr(index) = ptr[index]
         /\ \A i \in 0..index :
               ptr[i] = IF i = 0 THEN 0
                        ELSE IF \/ ptr[i - 1] = nullptr
                                \/ ~Terminated(ptr[i - 1])
                                \/ ptr[i - 1] + StrnLen(ptr[i - 1]) >= bytes_used
                               THEN nullptr ELSE After(ptr[i - 1])
  BY PointerScan
<1> DEFINE m == Len(Entries)
           Q == {i \in 0..index : ptr[i] = at[i]}
<1>2. /\ m \in Nat /\ at[0] = 0 /\ index < m
      /\ \A k \in 1..m : at[k - 1] \in Starts /\ at[k] = After(at[k - 1])
  BY ListedOrder DEF ListedFrom
<1> HIDE DEF m
<1>3. 0 \in Q
  BY <1>1, <1>2
<1>4. ASSUME NEW i \in 0..index, i \in Q, i < index PROVE i + 1 \in Q
  <2> DEFINE p == at[i]
  <2>1. i + 1 \in 1..m /\ (i + 1) - 1 = i /\ i + 1 \in 0..index /\ i + 1 # 0
    BY <1>2, <1>4
  <2>2. p \in Starts /\ at[i + 1] = After(p) /\ ptr[i] = p
    BY <1>2, <1>4, <2>1
  <2> HIDE DEF p
  <2>3. /\ p \in 0..(BUFFER_SIZE - 1) /\ Terminated(p) /\ StrnLen(p) = EndAt(p) - p
        /\ EndAt(p) \in (p + 1)..(bytes_used - 1)
    BY <2>2, EntryAt
  <2>4. p # nullptr /\ ~(p + StrnLen(p) >= bytes_used)
    BY <2>3, Size, UsedBytes DEF nullptr
  <2>5. ptr[i + 1] = After(p)
    BY <1>1, <2>1, <2>2, <2>3, <2>4
  <2> QED
    BY <2>1, <2>2, <2>5
<1> HIDE DEF Q
<1>5. \A i \in 0..index : i \in Q
  BY <1>3, <1>4, Facts!Upward
<1> QED
  BY <1>1, <1>5 DEF Q

(* A browsing cursor is at an entry while there are any.                   *)
CursorInList == bytes_used > 0 /\ IsBrowsing => cursor < Len(Entries)

LEMMA SelectedEntry ==
    IInv /\ CursorInList => CursorSelectsEntry
<1> SUFFICES ASSUME IInv, CursorInList, bytes_used > 0, IsBrowsing
             PROVE  cursor < Len(Entries) /\ Current = Entries[cursor + 1]
  BY DEF CursorSelectsEntry
<1>1. PICK at : ListedFrom(0, Entries, at)
  BY EntriesListed
<1>2. cursor \in Nat /\ cursor < Len(Entries)
  BY LengthAssumption DEF IInv, TypeOK, CursorInList
<1> DEFINE m == Len(Entries)
           p == get_entry_ptr(cursor)
<1>3. p = at[cursor]
  BY <1>1, <1>2, PointsAtEntry
<1>4. /\ m \in Nat
      /\ \A k \in 1..m : at[k - 1] \in Starts /\ Entries[k] = CString(at[k - 1])
  BY <1>1, ListedOrder DEF ListedFrom
<1>5. cursor < m
  BY <1>2
<1> HIDE DEF m, p
<1>6. cursor + 1 \in 1..m /\ (cursor + 1) - 1 = cursor
  BY <1>2, <1>4, <1>5
<1>7. p \in Starts /\ Entries[cursor + 1] = CString(p)
  BY <1>3, <1>4, <1>6
<1>8. bytes_used # 0 /\ p # nullptr
  BY <1>7, EntryAt, UsedBytes, Size DEF nullptr
<1>9. Current = CString(p)
  BY <1>8 DEF Current, p
<1> QED
  BY <1>2, <1>7, <1>9

LEMMA SameEntries ==
    ASSUME UNCHANGED <<history_buffer, bytes_used>>
    PROVE  Entries' = Entries
  BY DEF Entries, CString, After, StrnLen

LEMMA CursorStaysInList ==
    IInv /\ CursorInList /\ [Next]_vars => CursorInList'
<1> SUFFICES ASSUME IInv, CursorInList, [Next]_vars PROVE CursorInList'
  OBVIOUS
<1> DEFINE m == Len(Entries)
<1>0. /\ cursor \in 0..HistoryLength /\ HistoryLength \in Nat
      /\ m \in Nat /\ count_entries = m % 256
  BY EntriesListed, ListedOrder, EntriesCounted, LengthAssumption DEF IInv, TypeOK
<1>1. ASSUME NEW s \in Line, Push(s) PROVE CursorInList'
  <2>1. cursor' = HistoryLength \/ bytes_used' = 0
    <3>1. CASE PushNewest(s) \/ PushDuplicate(s)
      BY <3>1 DEF PushNewest, PushDuplicate, CursorAfterPush
    <3>2. CASE PushNew(s)
      <4> DEFINE need == EntrySize(s)
                 used == UsedAfterEviction(need)
      <4>1. s # <<>> /\ (NoRoom(used, need) => bytes_used' = used)
            /\ (~NoRoom(used, need) => cursor' = HistoryLength)
        BY <3>2 DEF PushNew, CursorAfterPush
      <4>2. need \in Nat
        BY <4>1, LineIs
      <4>3. NoRoom(used, need) => used = 0
        BY <4>2, EvictionCuts
      <4> HIDE DEF used
      <4> QED
        BY <4>1, <4>3
    <3> QED
      BY <1>1, <3>1, <3>2 DEF Push
  <2> QED
    BY <2>1 DEF CursorInList, IsBrowsing
<1>2. CASE UNCHANGED <<history_buffer, bytes_used>> /\ (Prev \/ NextNewer \/ CancelBrowsing \/ UNCHANGED vars)
  <2>1. Entries' = Entries /\ bytes_used' = bytes_used
    BY <1>2, SameEntries
  <2>2. bytes_used > 0 /\ cursor # HistoryLength => cursor < m
    BY DEF CursorInList, IsBrowsing
  <2>3. m % 256 \in Nat /\ m % 256 <= m
    <3> HIDE DEF m
    <3> QED
      BY <1>0
  <2> HIDE DEF m
  <2>4. bytes_used > 0 /\ cursor' # HistoryLength => cursor' < m
    <3>1. CASE Prev
      BY <1>0, <2>2, <2>3, <3>1 DEF Prev, IsBrowsing, NewestFirst
    <3>2. CASE NextNewer
      BY <1>0, <2>2, <3>2 DEF NextNewer, IsBrowsing
    <3>3. CASE CancelBrowsing
      BY <3>3 DEF CancelBrowsing
    <3>4. CASE UNCHANGED vars
      BY <2>2, <3>4 DEF vars
    <3> QED
      BY <1>2, <3>1, <3>2, <3>3, <3>4
  <2> QED
    BY <2>1, <2>4 DEF CursorInList, IsBrowsing, m
<1>3. CASE Prev \/ NextNewer \/ CancelBrowsing \/ UNCHANGED vars
  BY <1>2, <1>3 DEF Prev, NextNewer, CancelBrowsing, vars
<1> QED
  BY <1>1, <1>3 DEF Next

(* While there are entries a browsing cursor selects one of them, also     *)
(* after pushes that evicted entries: the pointer current() returns is     *)
(* that of an entry and never past the used bytes.                         *)
THEOREM CursorIsAtAnEntry == Spec => []CursorSelectsEntry
<1>1. Init => CursorInList
  BY DEF Init, CursorInList, IsBrowsing
<1>2. Spec => []CursorInList
  BY <1>1, Invariant, CursorStaysInList, PTL DEF Spec
<1> QED
  BY <1>2, Invariant, SelectedEntry, PTL

-----------------------------------------------------------------------------
(* Entries that move.                                                      *)

(* The C string at p is what is before the first terminator.               *)
StringsEnd ==
    \A p \in Nat : \A e \in p..(BUFFER_SIZE - 1) :
        history_buffer[e] = NUL /\ (\A q \in p..(e - 1) : history_buffer[q] # NUL) =>
           /\ StrnLen(p) = e - p /\ After(p) = e + 1
           /\ CString(p) = [i \in 1..(e - p) |-> history_buffer[p + i - 1]]

LEMMA StringsAre == StringsEnd
<1> SUFFICES ASSUME NEW p \in Nat, NEW e \in p..(BUFFER_SIZE - 1),
                    history_buffer[e] = NUL, \A q \in p..(e - 1) : history_buffer[q] # NUL
             PROVE  /\ StrnLen(p) = e - p /\ After(p) = e + 1
                    /\ CString(p) = [i \in 1..(e - p) |-> history_buffer[p + i - 1]]
  BY DEF StringsEnd
<1>1. p \in 0..BUFFER_SIZE /\ e \in Nat /\ e < BUFFER_SIZE /\ BUFFER_SIZE \in Nat
  BY Size
<1>2. /\ EndAt(p) \in p..BUFFER_SIZE /\ StrnLen(p) = EndAt(p) - p
      /\ EndAt(p) < BUFFER_SIZE => history_buffer[EndAt(p)] = NUL
      /\ \A q \in p..(EndAt(p) - 1) : history_buffer[q] # NUL
  BY <1>1, EndOfString
<1>3. EndAt(p) = e
  BY <1>1, <1>2
<1>4. StrnLen(p) = e - p
  BY <1>2, <1>3
<1>5. After(p) = e + 1
  BY <1>1, <1>4 DEF After
<1> QED
  BY <1>4, <1>5 DEF CString

LEMMA StringsWillEnd == StringsEnd'
  BY StringsAre, PTL

LEMMA StringWillBe ==
    ASSUME NEW p \in Nat, NEW e \in p..(BUFFER_SIZE - 1),
           history_buffer'[e] = NUL, \A q \in p..(e - 1) : history_buffer'[q] # NUL
    PROVE  /\ StrnLen(p)' = e - p /\ After(p)' = e + 1
           /\ CString(p)' = [i \in 1..(e - p) |-> history_buffer'[p + i - 1]]
  BY StringsWillEnd DEF StringsEnd

(* An entry whose bytes are moved by k places is the same entry.           *)
LEMMA EntryMoves ==
    ASSUME IInv, NEW p \in Starts, NEW k \in Nat, NEW p2, p2 = p + k,
           EndAt(p) + k < BUFFER_SIZE,
           \A q \in p..EndAt(p) : history_buffer'[q + k] = history_buffer[q]
    PROVE  After(p2)' = After(p) + k /\ CString(p2)' = CString(p)
           /\ history_buffer'[After(p) + k - 1] = NUL
<1>0. PICK e : e = EndAt(p)
  OBVIOUS
<1>1. /\ p \in Nat /\ e \in (p + 1)..(bytes_used - 1) /\ history_buffer[e] = NUL
      /\ \A q \in p..(e - 1) : history_buffer[q] # NUL
      /\ StrnLen(p) = e - p /\ After(p) = e + 1
      /\ e + k < BUFFER_SIZE
      /\ \A q \in p..e : history_buffer'[q + k] = history_buffer[q]
  BY <1>0, EntryAt
<1>2. e \in Nat /\ p <= e /\ p2 \in Nat
  BY <1>1, UsedBytes, Size
<1>3. PICK e2 \in Nat : e2 = e + k
  BY <1>2
<1>4. e2 \in p2..(BUFFER_SIZE - 1) /\ e2 - p2 = e - p
  BY <1>1, <1>2, <1>3, Size
<1>5. history_buffer'[e2] = NUL
  BY <1>1, <1>2, <1>3
<1>6. ASSUME NEW q \in p2..(e2 - 1) PROVE history_buffer'[q] # NUL
  <2>1. q - k \in p..(e - 1) /\ q - k \in p..e /\ (q - k) + k = q
    BY <1>1, <1>2, <1>3
  <2> QED
    BY <1>1, <2>1
<1>7. /\ After(p2)' = e2 + 1
      /\ CString(p2)' = [i \in 1..(e2 - p2) |-> history_buffer'[p2 + i - 1]]
  BY <1>2, <1>4, <1>5, <1>6, StringWillBe
<1>8. CString(p) = [i \in 1..(e - p) |-> history_buffer[p + i - 1]]
  BY <1>1 DEF CString
<1>9. \A i \in 1..(e - p) : history_buffer'[p2 + i - 1] = history_buffer[p + i - 1]
  <2> SUFFICES ASSUME NEW i \in 1..(e - p)
               PROVE  history_buffer'[p2 + i - 1] = history_buffer[p + i - 1]
    OBVIOUS
  <2>1. p + i - 1 \in p..e /\ (p + i - 1) + k = p2 + i - 1
    BY <1>1, <1>2
  <2> QED
    BY <1>1, <2>1
<1>10. CString(p2)' = CString(p)
  BY <1>4, <1>7, <1>8, <1>9
<1>11. After(p2)' = After(p) + k /\ After(p) + k - 1 = e2
  BY <1>1, <1>2, <1>3, <1>7
<1> QED
  BY <1>5, <1>10, <1>11

(* A line that is written is an entry.                                     *)
LEMMA EntryWritten ==
    ASSUME NEW s \in Line, s # <<>>, Len(s) < BUFFER_SIZE,
           history_buffer'[Len(s)] = NUL,
           \A q \in 0..(Len(s) - 1) : history_buffer'[q] = s[q + 1]
    PROVE  After(0)' = Len(s) + 1 /\ CString(0)' = s
<1> DEFINE n == Len(s)
<1>1. n \in 1..254 /\ s \in Seq(Char) /\ \A i \in 1..n : s[i] # NUL
  BY LineIs
<1>2. s = [i \in 1..n |-> s[i]]
  BY <1>1
<1> HIDE DEF n
<1>3. 0 \in Nat /\ n \in 0..(BUFFER_SIZE - 1)
  BY <1>1, Size DEF n
<1>4. history_buffer'[n] = NUL /\ \A q \in 0..(n - 1) : history_buffer'[q] = s[q + 1]
  BY DEF n
<1>5. \A q \in 0..(n - 1) : history_buffer'[q] # NUL
  <2> SUFFICES ASSUME NEW q \in 0..(n - 1) PROVE history_buffer'[q] # NUL
    OBVIOUS
  <2>1. q + 1 \in 1..n
    BY <1>1
  <2> QED
    BY <1>1, <1>4, <2>1
<1>6. /\ After(0)' = n + 1
      /\ CString(0)' = [i \in 1..(n - 0) |-> history_buffer'[0 + i - 1]]
  BY <1>3, <1>4, <1>5, StringWillBe
<1>7. \A i \in 1..n : history_buffer'[0 + i - 1] = s[i]
  <2> SUFFICES ASSUME NEW i \in 1..n PROVE history_buffer'[0 + i - 1] = s[i]
    OBVIOUS
  <2>1. i - 1 \in 0..(n - 1) /\ (i - 1) + 1 = i /\ 0 + i - 1 = i - 1
    BY <1>1
  <2> QED
    BY <1>4, <2>1
<1>8. n - 0 = n
  BY <1>1
<1>9. CString(0)' = s
  BY <1>2, <1>6, <1>7, <1>8
<1> QED
  BY <1>6, <1>9 DEF n

OneList == \A es, at : ListedFrom(0, es, at) => es = Entries

LEMMA OneListNext == IInv' => OneList'
<1>1. IInv => OneList
  BY ListedOnce DEF OneList
<1> QED
  BY <1>1, PTL

(* The j-th of es2 is what a walk will find between at2[j - 1] and at2[j]. *)
WillBeAt(es2, at2, j) ==
    /\ at2[j - 1] < at2[j]
    /\ history_buffer'[at2[j] - 1] = NUL
    /\ at2[j] = After(at2[j - 1])'
    /\ es2[j] = CString(at2[j - 1])'

(* Entries that start at at2[j], one behind the other, are the entries.    *)
LEMMA BecomesList ==
    ASSUME IInv', NEW es2 \in Seq(Seq(Char)), NEW at2 \in [0..Len(es2) -> Nat],
           at2[0] = 0, at2[Len(es2)] = bytes_used',
           \A j \in 1..Len(es2) : WillBeAt(es2, at2, j) /\ at2[j] <= bytes_used'
    PROVE  Entries' = es2
<1>m. PICK m : m = Len(es2)
  OBVIOUS
<1>0. m \in Nat /\ bytes_used' \in Nat
  BY <1>m, Size DEF IInv, TypeOK
<1>a. /\ at2 \in [0..m -> Nat] /\ at2[m] = bytes_used'
      /\ \A j \in 1..m : /\ at2[j - 1] < at2[j] /\ at2[j] <= bytes_used'
                         /\ history_buffer'[at2[j] - 1] = NUL
                         /\ at2[j] = After(at2[j - 1])'
                         /\ es2[j] = CString(at2[j - 1])'
  BY <1>m DEF WillBeAt
<1>1. ASSUME NEW j \in 0..m
      PROVE  /\ at2[j] \in 0..bytes_used'
             /\ at2[j] = 0 \/ history_buffer'[at2[j] - 1] = NUL
             /\ j < m => at2[j] < bytes_used'
  <2>1. at2[j] \in 0..bytes_used' /\ (at2[j] = 0 \/ history_buffer'[at2[j] - 1] = NUL)
    <3>1. CASE j = 0
      BY <1>0, <3>1
    <3>2. CASE j # 0
      <4>1. j \in 1..m /\ at2[j] \in Nat
        BY <1>0, <1>a, <3>2
      <4>2. at2[j] <= bytes_used' /\ history_buffer'[at2[j] - 1] = NUL
        BY <1>a, <4>1
      <4> QED
        BY <1>0, <4>1, <4>2
    <3> QED
      BY <3>1, <3>2
  <2>2. ASSUME j < m PROVE at2[j] < bytes_used'
    <3>1. j + 1 \in 1..m /\ (j + 1) - 1 = j /\ j + 1 \in 0..m
      BY <1>0, <2>2
    <3>2. at2[j] < at2[j + 1] /\ at2[j + 1] <= bytes_used' /\ at2[j] \in Nat /\ at2[j + 1] \in Nat
      BY <1>a, <3>1
    <3> QED
      BY <1>0, <3>2
  <2> QED
    BY <2>1, <2>2
<1>2. ASSUME NEW j \in 0..m PROVE at2[j] \in Cuts' /\ (j < m => at2[j] \in Starts')
  <2>1. j < m => at2[j] \in Starts'
    BY <1>0, <1>1 DEF Starts
  <2>2. j = m => at2[j] = bytes_used'
    BY <1>a
  <2> QED
    BY <1>0, <2>1, <2>2 DEF Cuts
<1>3. at2 \in [0..m -> Cuts']
  BY <1>2, <1>a
<1>4. ASSUME NEW j \in 1..m
      PROVE  at2[j - 1] \in Starts' /\ at2[j] = After(at2[j - 1])' /\ es2[j] = CString(at2[j - 1])'
  <2>1. j - 1 \in 0..m /\ j - 1 < m
    BY <1>0
  <2> QED
    BY <1>2, <1>a, <2>1
<1>5. ListedFrom(0, es2, at2)'
  BY <1>3, <1>4, <1>a, <1>m DEF ListedFrom
<1> QED
  BY <1>5, OneListNext DEF OneList

(* A list with one more in front of its first k.                           *)
LEMMA InFront ==
    ASSUME NEW S, NEW es \in Seq(S), NEW s \in S, NEW k \in 0..Len(es)
    PROVE  /\ <<s>> \o SubSeq(es, 1, k) \in Seq(S)
           /\ Len(<<s>> \o SubSeq(es, 1, k)) = k + 1
           /\ (<<s>> \o SubSeq(es, 1, k))[1] = s
           /\ \A j \in 1..k : (<<s>> \o SubSeq(es, 1, k))[j + 1] = es[j]
<1> DEFINE front == SubSeq(es, 1, k)
<1>1. front \in Seq(S) /\ Len(front) = k /\ \A j \in 1..k : front[j] = es[j]
  BY SubSeqProperties
<1> HIDE DEF front
<1>2. k \in Nat
  OBVIOUS
<1>3. /\ <<s>> \o front \in Seq(S) /\ Len(<<s>> \o front) = k + 1
      /\ (<<s>> \o front)[1] = s
      /\ \A j \in 1..k : (<<s>> \o front)[j + 1] = front[j]
  BY <1>1, <1>2
<1> QED
  BY <1>1, <1>3 DEF front

(* The first d bytes have moved up, behind a line of n characters.         *)
MovedUp(n, d) ==
    \A q \in (n + 1)..(n + d) : history_buffer'[q] = history_buffer[q - (n + 1)]

(* An entry among them is still the same.                                  *)
LEMMA EntryShifted ==
    ASSUME IInv, NEW p \in Starts, NEW n \in Nat, NEW d \in 0..bytes_used, After(p) <= d,
           d + n + 1 <= BUFFER_SIZE, MovedUp(n, d),
           NEW p2, p2 = p + (n + 1), NEW q2, q2 = After(p) + (n + 1)
    PROVE  /\ p2 < q2 /\ q2 <= d + n + 1 /\ history_buffer'[q2 - 1] = NUL
           /\ q2 = After(p2)' /\ CString(p) = CString(p2)'
<1>0. PICK e : e = EndAt(p)
  OBVIOUS
<1>1. /\ e \in (p + 1)..(bytes_used - 1) /\ After(p) = e + 1 /\ p \in Nat
      /\ bytes_used \in Nat /\ d \in Nat
  BY <1>0, EntryAt, UsedBytes, Size
<1>2. n + 1 \in Nat /\ e + (n + 1) < BUFFER_SIZE /\ e < d
  BY <1>1, Size
<1>3. ASSUME NEW q \in p..e PROVE history_buffer'[q + (n + 1)] = history_buffer[q]
  <2>1. q + (n + 1) \in (n + 1)..(n + d) /\ (q + (n + 1)) - (n + 1) = q
    BY <1>1, <1>2
  <2> QED
    BY <2>1 DEF MovedUp
<1>4. /\ After(p2)' = After(p) + (n + 1) /\ CString(p2)' = CString(p)
      /\ history_buffer'[After(p) + (n + 1) - 1] = NUL
  BY <1>0, <1>2, <1>3, EntryMoves
<1>5. p2 < q2 /\ q2 <= d + n + 1
  BY <1>1
<1>6. After(p) + (n + 1) - 1 = q2 - 1
  BY <1>1
<1>7. history_buffer'[q2 - 1] = NUL
  BY <1>4, <1>6
<1>8. q2 = After(p2)'
  BY <1>4
<1>9. CString(p) = CString(p2)'
  BY <1>4
<1> QED
  BY <1>5, <1>7, <1>8, <1>9

LEMMA ShiftedPlaces ==
    ASSUME NEW k \in Nat, NEW at, \A j \in 0..k : at[j] \in Nat, NEW n \in Nat
    PROVE  \E at2 \in [0..(k + 1) -> Nat] :
              at2[0] = 0 /\ \A j \in 1..(k + 1) : at2[j] = at[j - 1] + (n + 1)
<1> DEFINE f == [j \in 0..(k + 1) |-> IF j = 0 THEN 0 ELSE at[j - 1] + (n + 1)]
<1>1. \A j \in 1..(k + 1) : f[j] = at[j - 1] + (n + 1) /\ f[j] \in Nat
  <2> SUFFICES ASSUME NEW j \in 1..(k + 1) PROVE f[j] = at[j - 1] + (n + 1) /\ f[j] \in Nat
    OBVIOUS
  <2>1. j - 1 \in 0..k /\ j # 0 /\ j \in 0..(k + 1)
    OBVIOUS
  <2>2. f[j] = at[j - 1] + (n + 1)
    BY <2>1
  <2>3. at[j - 1] \in Nat
    BY <2>1
  <2> HIDE DEF f
  <2> QED
    BY <2>2, <2>3
<1>2. f[0] = 0
  OBVIOUS
<1>a. f = [j \in 0..(k + 1) |-> f[j]]
  OBVIOUS
<1> HIDE DEF f
<1>3. \A j \in 0..(k + 1) : f[j] \in Nat
  <2> SUFFICES ASSUME NEW j \in 0..(k + 1) PROVE f[j] \in Nat
    OBVIOUS
  <2>1. j = 0 \/ j \in 1..(k + 1)
    OBVIOUS
  <2> QED
    BY <1>1, <1>2, <2>1
<1>4. f \in [0..(k + 1) -> Nat]
  BY <1>a, <1>3
<1> QED
  BY <1>1, <1>2, <1>4

(* The entries and where they start, with the types of both.               *)
LEMMA ListParts ==
    ASSUME IInv, NEW es, NEW at, ListedFrom(0, es, at), NEW m, m = Len(es)
    PROVE  /\ es \in Seq(Seq(Char)) /\ m \in Nat /\ at[0] = 0 /\ at[m] = bytes_used
           /\ \A j \in 0..m : at[j] \in Cuts /\ at[j] \in Nat /\ at[j] <= bytes_used
           /\ \A j \in 1..m : /\ at[j - 1] \in Starts
                              /\ at[j] = After(at[j - 1])
                              /\ es[j] = CString(at[j - 1])
           /\ \A i, j \in 0..m : i < j => at[i] < at[j]
<1>1. /\ es \in Seq(Seq(Char)) /\ m \in Nat /\ at[0] = 0 /\ at[m] = bytes_used
      /\ \A j \in 0..m : at[j] \in Cuts
      /\ \A j \in 1..m : /\ at[j - 1] \in Starts
                         /\ at[j] = After(at[j - 1])
                         /\ es[j] = CString(at[j - 1])
  BY SMTT(30) DEF ListedFrom
<1>2. \A i, j \in 0..m : i < j => at[i] < at[j]
  BY ListedOrder
<1>3. \A q \in Cuts : q \in Nat /\ q <= bytes_used
  BY CutsInside, Size
<1> QED
  BY <1>1, <1>2, <1>3

(* A line of n bytes is written in front of the first k entries.           *)
WrittenAt(s, n, es, at, k, d) ==
    /\ s \in Line /\ s # <<>> /\ n = Len(s)
    /\ ListedFrom(0, es, at) /\ k \in 0..Len(es) /\ d = at[k]
    /\ d + n + 1 <= BUFFER_SIZE
    /\ history_buffer' = WrittenInFront(s, d)

(* es2 starts with s and the first k of es, in the places they get.        *)
InFrontOf(s, n, es, at, k, es2, at2) ==
    /\ es2[1] = s /\ \A j \in 1..k : es2[j + 1] = es[j]
    /\ at2[0] = 0 /\ \A j \in 1..(k + 1) : at2[j] = at[j - 1] + (n + 1)

(* Writing a line in front of the first d bytes moves the entries in them  *)
(* up by the bytes the line takes, and makes the line the first entry.     *)
LEMMA FrontListed ==
    ASSUME IInv, NEW s, NEW n, NEW es, NEW at, NEW k, NEW d,
           WrittenAt(s, n, es, at, k, d),
           NEW es2, NEW at2, InFrontOf(s, n, es, at, k, es2, at2)
    PROVE  \A j \in 1..(k + 1) : WillBeAt(es2, at2, j) /\ at2[j] <= d + n + 1
<1>m. PICK m : m = Len(es)
  OBVIOUS
<1>g. /\ s \in Line /\ s # <<>> /\ n = Len(s)
      /\ ListedFrom(0, es, at) /\ k \in 0..m /\ d = at[k]
      /\ d + n + 1 <= BUFFER_SIZE /\ history_buffer' = WrittenInFront(s, d)
  BY <1>m DEF WrittenAt
<1>0. n \in 1..254 /\ s \in Seq(Char)
  BY <1>g, LineIs
<1>1. n \in 1..254 /\ n \in Nat /\ s \in Seq(Char)
  <2>1. \A x \in 1..254 : x \in Nat
    OBVIOUS
  <2> QED
    BY <1>0, <2>1, Zenon
<1>2. es \in Seq(Seq(Char)) /\ m \in Nat /\ at[0] = 0
  BY <1>g, <1>m, ListParts
<1>a. \A i \in 0..m : at[i] \in Cuts /\ at[i] \in Nat
  BY <1>g, <1>m, ListParts
<1>b. \A i \in 1..m : at[i - 1] \in Starts /\ at[i] = After(at[i - 1]) /\ es[i] = CString(at[i - 1])
  BY <1>g, <1>m, ListParts
<1>c. \A i, l \in 0..m : i < l => at[i] < at[l]
  BY <1>g, <1>m, ListParts
<1>3. k \in Nat /\ k <= m /\ d \in Nat
  BY <1>2, <1>a, <1>g
<1>6. d \in Cuts /\ d \in 0..bytes_used /\ d \in 0..BUFFER_SIZE
  BY <1>a, <1>g, CutsInside, UsedBytes, Size
<1>e. es2[1] = s /\ \A i \in 1..k : es2[i + 1] = es[i]
  BY DEF InFrontOf
<1>f. at2[0] = 0 /\ \A i \in 1..(k + 1) : at2[i] = at[i - 1] + (n + 1)
  BY DEF InFrontOf
<1>7. /\ \A q \in 0..(n - 1) : history_buffer'[q] = s[q + 1]
      /\ history_buffer'[n] = NUL
      /\ \A q \in (n + 1)..(n + d) : history_buffer'[q] = history_buffer[q - (n + 1)]
  <2>1. ASSUME NEW q \in 0..(n + d)
        PROVE  /\ q < n => history_buffer'[q] = s[q + 1]
               /\ q = n => history_buffer'[q] = NUL
               /\ q > n /\ q <= n + d => history_buffer'[q] = history_buffer[q - (n + 1)]
    <3>1. q \in Index
      BY <1>1, <1>3, <1>g, Size DEF Index
    <3> QED
      BY SMTT(30), <1>6, <1>g, <3>1, WrittenBytes
  <2>2. ASSUME NEW q \in 0..(n - 1) PROVE history_buffer'[q] = s[q + 1]
    <3>1. q \in 0..(n + d) /\ q < n
      BY <1>1, <1>3
    <3> QED
      BY <2>1, <3>1
  <2>3. history_buffer'[n] = NUL
    <3>1. n \in 0..(n + d)
      BY <1>1, <1>3
    <3> QED
      BY <2>1, <3>1
  <2>4. ASSUME NEW q \in (n + 1)..(n + d)
        PROVE  history_buffer'[q] = history_buffer[q - (n + 1)]
    <3>1. q \in 0..(n + d) /\ q > n /\ q <= n + d
      BY <1>1, <1>3
    <3> QED
      BY <2>1, <3>1
  <2> QED
    BY <2>2, <2>3, <2>4
<1>9. ASSUME NEW j \in 1..(k + 1)
      PROVE  /\ at2[j - 1] < at2[j] /\ at2[j] <= d + n + 1
             /\ history_buffer'[at2[j] - 1] = NUL
             /\ at2[j] = After(at2[j - 1])'
             /\ es2[j] = CString(at2[j - 1])'
  <2>1. CASE j = 1
    <3>1. at2[j] = n + 1 /\ at2[j - 1] = 0 /\ (n + 1) - 1 = n
      <4>1. 1 \in 1..(k + 1) /\ 1 - 1 = 0
        BY <1>3
      <4>2. at2[1] = at[0] + (n + 1) /\ at2[0] = 0
        BY SMTT(30), <1>f, <4>1
      <4> QED
        BY <1>1, <1>2, <2>1, <4>1, <4>2
    <3>2. n < BUFFER_SIZE /\ n + 1 <= d + n + 1
      BY <1>1, <1>3, <1>g, Size
    <3>3. After(0)' = n + 1 /\ CString(0)' = s
      BY <1>7, <1>g, <3>2, EntryWritten
    <3>4. at2[j - 1] < at2[j] /\ at2[j] <= d + n + 1
      BY <1>1, <3>1, <3>2
    <3>5. es2[j] = CString(0)'
      BY <1>e, <2>1, <3>3
    <3>6. history_buffer'[at2[j] - 1] = NUL
      BY <1>7, <3>1
    <3> QED
      BY <3>1, <3>3, <3>4, <3>5, <3>6
  <2>2. CASE j # 1
    <3>1. PICK i \in 1..k : j = i + 1
      <4>1. j - 1 \in 1..k /\ j = (j - 1) + 1
        BY <1>3, <2>2
      <4> QED
        BY <4>1
    <3>2. i \in 1..m /\ i \in 0..m /\ j - 1 = i /\ i \in 1..(k + 1) /\ k \in 0..m
      BY <1>2, <1>3, <1>g, <3>1
    <3>3. PICK p \in Starts : p = at[i - 1] /\ at[i] = After(p) /\ es[i] = CString(p)
      BY <1>b, <3>2
    <3>4. PICK p2 : p2 = at2[i]
      OBVIOUS
    <3>5. PICK q2 : q2 = at2[j]
      OBVIOUS
    <3>6. p2 = p + (n + 1) /\ q2 = After(p) + (n + 1)
      <4>1. at2[i] = at[i - 1] + (n + 1) /\ at2[j] = at[j - 1] + (n + 1)
        BY <1>f, <3>2
      <4> QED
        BY <3>2, <3>3, <3>4, <3>5, <4>1
    <3>7. After(p) <= d
      <4>1. CASE i = k
        BY <1>3, <1>g, <3>3, <4>1
      <4>2. CASE i # k
        <5>1. i < k
          BY <1>3, <3>1, <4>2
        <5>2. at[i] < d
          BY <1>c, <1>g, <3>2, <5>1
        <5>3. at[i] \in Nat
          BY <1>a, <3>2
        <5> QED
          BY <1>3, <3>3, <5>2, <5>3
      <4> QED
        BY <4>1, <4>2
    <3>8. MovedUp(n, d)
      BY <1>7 DEF MovedUp
    <3>9. /\ p2 < q2 /\ q2 <= d + n + 1 /\ history_buffer'[q2 - 1] = NUL
          /\ q2 = After(p2)' /\ CString(p) = CString(p2)'
      <4>1. n \in Nat /\ d \in 0..bytes_used
        BY <1>1, <1>6
      <4> QED
        BY <1>g, <3>6, <3>7, <3>8, <4>1, EntryShifted
    <3>10. es2[j] = CString(p)
      BY <1>e, <3>1, <3>3
    <3>11. at2[j - 1] = p2
      BY <3>2, <3>4
    <3> QED
      BY <3>5, <3>9, <3>10, <3>11
  <2> QED
    BY <2>1, <2>2
<1> QED
  BY <1>9 DEF WillBeAt

(* Where a cut lies once an entry of n letters and its NUL precede it.      *)
LEMMA Reassociated ==
    ASSUME NEW d \in Nat, NEW n \in Nat
    PROVE  d + (n + 1) = d + n + 1
OBVIOUS

(* Pushing a line that is new puts it in front of what eviction leaves.    *)
LEMMA NewListed ==
    ASSUME IInv, IInv', NEW s \in Line, s # <<>>, NEW n, n = Len(s),
           NEW es, es = Entries, NEW at, ListedFrom(0, es, at),
           NEW m, m = Len(es), NEW k \in 0..m, NEW d, d = at[k],
           d + n + 1 <= BUFFER_SIZE,
           history_buffer' = WrittenInFront(s, d),
           bytes_used' = d + n + 1
    PROVE  Entries' = <<s>> \o SubSeq(es, 1, k)
<1>0. n \in 1..254 /\ s \in Seq(Char)
  BY LineIs
<1>1. n \in 1..254 /\ n \in Nat /\ s \in Seq(Char)
  <2>1. \A x \in 1..254 : x \in Nat
    OBVIOUS
  <2> QED
    BY <1>0, <2>1, Zenon
<1>2. es \in Seq(Seq(Char)) /\ m \in Nat /\ at[0] = 0
  BY ListParts
<1>a. \A j \in 0..m : at[j] \in Cuts /\ at[j] \in Nat
  BY ListParts
<1>3. k \in Nat /\ k <= m /\ d \in Nat
  BY <1>2, <1>a
<1>4. PICK es2 : es2 = <<s>> \o SubSeq(es, 1, k)
  OBVIOUS
<1>5. /\ es2 \in Seq(Seq(Char)) /\ Len(es2) = k + 1
      /\ es2[1] = s /\ \A j \in 1..k : es2[j + 1] = es[j]
  <2>1. PICK S : S = Seq(Char)
    OBVIOUS
  <2>2. es \in Seq(S) /\ s \in S /\ k \in 0..Len(es)
    BY <1>1, <1>2, <2>1
  <2>3. /\ es2 \in Seq(S) /\ Len(es2) = k + 1
        /\ es2[1] = s /\ \A j \in 1..k : es2[j + 1] = es[j]
    BY <1>4, <2>2, InFront
  <2> QED
    BY <2>1, <2>3
<1>6. d \in Cuts /\ d \in 0..bytes_used /\ d \in 0..BUFFER_SIZE
  BY <1>a, CutsInside, UsedBytes, Size
<1>8. PICK at2 \in [0..(k + 1) -> Nat] :
         at2[0] = 0 /\ \A j \in 1..(k + 1) : at2[j] = at[j - 1] + (n + 1)
  <2>1. \A j \in 0..k : at[j] \in Nat
    BY <1>a, <1>2, <1>3
  <2>2. n \in Nat /\ k \in Nat
    BY <1>1, <1>3
  <2> QED
    BY ZenonT(40), <2>1, <2>2, ShiftedPlaces
<1>9. \A j \in 1..(k + 1) : WillBeAt(es2, at2, j) /\ at2[j] <= d + n + 1
  <2>1. InFrontOf(s, n, es, at, k, es2, at2) /\ WrittenAt(s, n, es, at, k, d)
    BY <1>5, <1>8 DEF InFrontOf, WrittenAt
  <2> QED
    BY <2>1, FrontListed
<1>10. at2[Len(es2)] = bytes_used'
  <2>1. k + 1 \in 1..(k + 1) /\ (k + 1) - 1 = k
    BY <1>3
  <2>2. at2[k + 1] = d + (n + 1)
    BY <1>8, <2>1
  <2>3. Len(es2) = k + 1
    BY <1>5
  <2>4. d \in Nat /\ n \in Nat
    BY <1>1, <1>3, Zenon
  <2>5. d + (n + 1) = d + n + 1
    BY <2>4, Reassociated
  <2> QED
    BY <2>2, <2>3, <2>5, Zenon
<1>11. Entries' = es2
  <2>1. at2 \in [0..Len(es2) -> Nat] /\ at2[0] = 0
    BY <1>5, <1>8
  <2>2. \A j \in 1..Len(es2) : WillBeAt(es2, at2, j) /\ at2[j] <= bytes_used'
    BY <1>5, <1>9
  <2> QED
    BY <1>5, <1>10, <2>1, <2>2, BecomesList
<1> QED
  BY ZenonT(40), <1>4, <1>11

(* A list whose j-th is taken out and another put in front.                *)
MovedToFront(s, es, j) == <<s>> \o (SubSeq(es, 1, j - 1) \o SubSeq(es, j + 1, Len(es)))

IsMoved(es2, s, es, m, j) ==
    /\ Len(es2) = m
    /\ es2[1] = s /\ \A i \in 1..(j - 1) : es2[i + 1] = es[i]
    /\ \A i \in (j + 1)..m : es2[i] = es[i]

LEMMA InFrontMoved ==
    ASSUME NEW S, NEW es \in Seq(S), NEW s \in S, NEW m, m = Len(es), NEW j \in 1..m
    PROVE  MovedToFront(s, es, j) \in Seq(S) /\ IsMoved(MovedToFront(s, es, j), s, es, m, j)
<1>1. m \in Nat /\ \A i \in 1..m : es[i] \in S
  OBVIOUS
<1>2. PICK a : a = SubSeq(es, 1, j - 1)
  OBVIOUS
<1>3. PICK b : b = SubSeq(es, j + 1, m)
  OBVIOUS
<1>4. a \in Seq(S) /\ Len(a) = j - 1 /\ \A i \in 1..(j - 1) : a[i] = es[i]
  <2>1. 1 \in 1..(m + 1) /\ j - 1 \in (1 - 1)..m
    BY <1>1
  <2> QED
    BY <1>1, <1>2, <2>1, SubSeqProperties
<1>5. b \in Seq(S) /\ Len(b) = m - j /\ \A i \in 1..(m - j) : b[i] = es[j + i]
  <2>1. j + 1 \in 1..(m + 1) /\ m \in ((j + 1) - 1)..m
    BY <1>1
  <2> QED
    BY <1>1, <1>3, <2>1, SubSeqProperties
<1>6. PICK c : c = a \o b
  OBVIOUS
<1>7. /\ c \in Seq(S) /\ Len(c) = m - 1
      /\ \A i \in 1..(j - 1) : c[i] = es[i]
      /\ \A i \in j..(m - 1) : c[i] = es[i + 1]
  <2>1. c \in Seq(S) /\ Len(c) = m - 1
    BY <1>1, <1>4, <1>5, <1>6
  <2>2. ASSUME NEW i \in 1..(j - 1) PROVE c[i] = es[i]
    BY <1>1, <1>4, <1>5, <1>6, <2>2
  <2>3. ASSUME NEW i \in j..(m - 1) PROVE c[i] = es[i + 1]
    <3>1. i - (j - 1) \in 1..(m - j) /\ j + (i - (j - 1)) = i + 1
      BY <1>1
    <3>2. c[i] = b[i - (j - 1)]
      BY <1>1, <1>4, <1>5, <1>6
    <3> QED
      BY <1>5, <3>1, <3>2
  <2> QED
    BY <2>1, <2>2, <2>3
<1>8. PICK e : e = <<s>> \o c
  OBVIOUS
<1>9. e \in Seq(S) /\ Len(e) = m /\ e[1] = s /\ \A i \in 1..(m - 1) : e[i + 1] = c[i]
  BY <1>1, <1>7, <1>8
<1>10. \A i \in 1..(j - 1) : e[i + 1] = es[i]
  BY <1>1, <1>7, <1>9
<1>11. ASSUME NEW i \in (j + 1)..m PROVE e[i] = es[i]
  <2>1. i - 1 \in j..(m - 1) /\ i - 1 \in 1..(m - 1) /\ (i - 1) + 1 = i
    BY <1>1
  <2> QED
    BY <1>7, <1>9, <2>1
<1>12. e = MovedToFront(s, es, j)
  BY <1>2, <1>3, <1>6, <1>8 DEF MovedToFront
<1> QED
  BY <1>9, <1>10, <1>11, <1>12 DEF IsMoved

(* Where the entries of a promoted list start and end: those in front of   *)
(* the duplicate move up, those behind it stay.                            *)
MovedPlaces(at2, at, m, j, n) ==
    /\ at2 \in [0..m -> Nat]
    /\ at2[0] = 0 /\ \A i \in 1..j : at2[i] = at[i - 1] + (n + 1)
    /\ \A i \in (j + 1)..m : at2[i] = at[i]

LEMMA PromotedPlaces ==
    ASSUME NEW m \in Nat, NEW j \in 1..m, NEW at, \A i \in 0..m : at[i] \in Nat, NEW n \in Nat
    PROVE  \E at2 : MovedPlaces(at2, at, m, j, n)
<1> DEFINE at2 == [i \in 0..m |-> IF i = 0 THEN 0
                                   ELSE IF i <= j THEN at[i - 1] + (n + 1) ELSE at[i]]
<1>1. ASSUME NEW i \in 0..m PROVE at2[i] \in Nat
  <2>1. CASE i = 0
    BY <2>1
  <2>2. CASE i # 0
    <3>1. i - 1 \in 0..m
      BY <2>2
    <3>2. at[i - 1] \in Nat /\ at[i] \in Nat
      BY <3>1
    <3> QED
      BY <2>2, <3>2
  <2> QED
    BY <2>1, <2>2
<1>2. at2 \in [0..m -> Nat]
  BY <1>1
<1>3. at2[0] = 0 /\ (\A i \in 1..j : at2[i] = at[i - 1] + (n + 1))
      /\ \A i \in (j + 1)..m : at2[i] = at[i]
  OBVIOUS
<1> HIDE DEF at2
<1>4. MovedPlaces(at2, at, m, j, n)
  BY <1>2, <1>3 DEF MovedPlaces
<1> QED
  BY <1>4

LEMMA EntryEnds ==
    ASSUME IInv, NEW d \in Starts, NEW n, StrnLen(d) = n
    PROVE  After(d) = d + n + 1 /\ d + n + 1 <= bytes_used /\ d + n + 1 \in Nat /\ d \in Nat
<1>1. /\ n = EndAt(d) - d /\ After(d) = EndAt(d) + 1 /\ EndAt(d) \in (d + 1)..(bytes_used - 1)
      /\ d \in 0..(BUFFER_SIZE - 1)
  BY EntryAt
<1>2. bytes_used \in Nat
  BY UsedBytes, Size
<1> QED
  BY <1>1, <1>2, Size

(* The j-th of m entries, at d, is written again in front of the others.   *)
PromotedAt(s, n, es, at, m, j, d) ==
    /\ s \in Line /\ s # <<>> /\ n = Len(s)
    /\ ListedFrom(0, es, at) /\ m = Len(es) /\ j \in 1..m /\ d = at[j - 1]
    /\ StrnLen(d) = n
    /\ history_buffer' = WrittenInFront(s, d) /\ bytes_used' = bytes_used

(* Pushing a line again takes its entry out and puts the line in front.    *)
LEMMA PromotedListed ==
    ASSUME IInv, IInv', NEW s, NEW n, NEW es, NEW at, NEW m, NEW j, NEW d,
           PromotedAt(s, n, es, at, m, j, d)
    PROVE  Entries' = MovedToFront(s, es, j)
<1>g. s \in Line /\ s # <<>> /\ n = Len(s) /\ m = Len(es) /\ ListedFrom(0, es, at)
  BY DEF PromotedAt
<1>h. j \in 1..m /\ d = at[j - 1] /\ StrnLen(d) = n
  BY DEF PromotedAt
<1>i. history_buffer' = WrittenInFront(s, d) /\ bytes_used' = bytes_used
  BY SMTT(30) DEF PromotedAt
<1>0. n \in 1..254 /\ s \in Seq(Char)
  BY <1>g, LineIs
<1>1. n \in 1..254 /\ n \in Nat /\ s \in Seq(Char)
  <2>1. \A x \in 1..254 : x \in Nat
    OBVIOUS
  <2> QED
    BY <1>0, <2>1, Zenon
<1>2. es \in Seq(Seq(Char)) /\ m \in Nat /\ at[0] = 0 /\ at[m] = bytes_used
  BY <1>g, ListParts
<1>a. \A i \in 0..m : at[i] \in Cuts /\ at[i] \in Nat /\ at[i] <= bytes_used
  BY <1>g, ListParts
<1>b. \A i \in 1..m : at[i - 1] \in Starts /\ at[i] = After(at[i - 1]) /\ es[i] = CString(at[i - 1])
  BY <1>g, ListParts
<1>c. \A i, l \in 0..m : i < l => at[i] < at[l]
  BY <1>g, ListParts
<1>3. j \in Nat /\ j - 1 \in 0..m /\ j \in 0..m /\ (j - 1) + 1 = j
  BY <1>2, <1>h
<1>4. d \in Starts /\ at[j] = After(d) /\ d \in Nat
  BY <1>3, <1>a, <1>b, <1>h
<1>5. at[j] = d + n + 1 /\ d + n + 1 <= bytes_used /\ d + n + 1 \in Nat
  BY <1>4, <1>h, EntryEnds
<1>6. bytes_used \in Nat /\ bytes_used <= BUFFER_SIZE /\ BUFFER_SIZE \in Nat
  BY UsedBytes, Size
<1>7. PICK es2 : es2 = MovedToFront(s, es, j)
  OBVIOUS
<1>8. /\ es2 \in Seq(Seq(Char)) /\ Len(es2) = m
      /\ es2[1] = s /\ \A i \in 1..(j - 1) : es2[i + 1] = es[i]
      /\ \A i \in (j + 1)..m : es2[i] = es[i]
  <2>1. PICK S : S = Seq(Char)
    OBVIOUS
  <2>2. es \in Seq(S) /\ s \in S
    BY <1>1, <1>2, <2>1
  <2>3. es2 \in Seq(S) /\ IsMoved(es2, s, es, m, j)
    BY <1>7, <1>g, <1>h, <2>2, InFrontMoved
  <2> QED
    BY <2>1, <2>3 DEF IsMoved
<1>p. PICK at2 : MovedPlaces(at2, at, m, j, n)
  <2>1. m \in Nat /\ n \in Nat /\ \A i \in 0..m : at[i] \in Nat
    BY <1>1, <1>2, <1>a
  <2> QED
    BY <1>h, <2>1, PromotedPlaces
<1>9. /\ at2 \in [0..m -> Nat]
      /\ at2[0] = 0 /\ \A i \in 1..j : at2[i] = at[i - 1] + (n + 1)
      /\ \A i \in (j + 1)..m : at2[i] = at[i]
  BY <1>p DEF MovedPlaces
<1>10. \A i \in 1..j : WillBeAt(es2, at2, i) /\ at2[i] <= d + n + 1
  <2>1. PICK k : k = j - 1
    OBVIOUS
  <2>2. k + 1 = j /\ k \in 0..m
    BY <1>3, <2>1
  <2>3. WrittenAt(s, n, es, at, k, d)
    BY <1>5, <1>6, <1>g, <1>h, <1>i, <2>1, <2>2 DEF WrittenAt
  <2>4. InFrontOf(s, n, es, at, k, es2, at2)
    BY <1>8, <1>9, <2>1, <2>2 DEF InFrontOf
  <2>5. \A i \in 1..(k + 1) : WillBeAt(es2, at2, i) /\ at2[i] <= d + n + 1
    BY <2>3, <2>4, FrontListed
  <2> QED
    BY <2>2, <2>5
<1>11. at2[j] = at[j]
  <2>1. j \in 1..j
    BY <1>3
  <2>2. at2[j] = d + (n + 1)
    BY <1>9, <1>h, <2>1
  <2>3. d + (n + 1) = d + n + 1
    BY <1>1, <1>4
  <2> QED
    BY <1>5, <2>2, <2>3, Zenon
<1>12. \A q \in (n + d + 1)..(BUFFER_SIZE - 1) : history_buffer'[q] = history_buffer[q]
  <2> SUFFICES ASSUME NEW q \in (n + d + 1)..(BUFFER_SIZE - 1)
               PROVE  history_buffer'[q] = history_buffer[q]
    OBVIOUS
  <2>1. q \in Index /\ d \in 0..BUFFER_SIZE /\ q > n + d
    BY <1>1, <1>4, <1>5, <1>6 DEF Index
  <2> QED
    BY <2>1, <1>i, <1>g, WrittenBytes
<1>13. ASSUME NEW i \in (j + 1)..m PROVE WillBeAt(es2, at2, i) /\ at2[i] <= bytes_used
  <2>1. i \in 1..m /\ i - 1 \in 0..m /\ i \in 0..m /\ i - 1 \in j..m
    BY <1>2, <1>3
  <2>2. at2[i] = at[i] /\ at2[i - 1] = at[i - 1]
    <3>1. CASE i - 1 = j
      BY <1>9, <1>11, <3>1
    <3>2. CASE i - 1 # j
      <4>1. i - 1 \in (j + 1)..m
        BY <1>3, <2>1, <3>2
      <4> QED
        BY <1>9, <4>1
    <3> QED
      BY <3>1, <3>2
  <2>3. PICK p \in Starts : p = at[i - 1] /\ at[i] = After(p) /\ es[i] = CString(p)
    BY <1>b, <2>1
  <2>4. /\ EndAt(p) \in (p + 1)..(bytes_used - 1)
        /\ After(p) = EndAt(p) + 1 /\ p \in 0..(BUFFER_SIZE - 1)
    BY EntryAt
  <2>5. p >= d + n + 1
    <3>1. i - 1 = j => p = at[j]
      BY <2>3
    <3>2. i - 1 # j => at[j] < p
      <4> SUFFICES ASSUME i - 1 # j PROVE at[j] < p
        OBVIOUS
      <4>1. j < i - 1
        BY <1>3, <2>1
      <4> QED
        BY <1>3, <1>c, <2>1, <2>3, <4>1
    <3> QED
      BY <1>5, <2>4, <3>1, <3>2
  <2>6. \A q \in p..EndAt(p) : history_buffer'[q + 0] = history_buffer[q]
    <3> SUFFICES ASSUME NEW q \in p..EndAt(p) PROVE history_buffer'[q + 0] = history_buffer[q]
      OBVIOUS
    <3>1. q \in (n + d + 1)..(BUFFER_SIZE - 1) /\ q + 0 = q
      BY <1>1, <1>4, <1>6, <2>4, <2>5
    <3> QED
      BY <1>12, <3>1
  <2>7. /\ After(p)' = After(p) + 0 /\ CString(p)' = CString(p)
        /\ history_buffer'[After(p) + 0 - 1] = NUL
    <3>1. 0 \in Nat /\ p = p + 0 /\ EndAt(p) + 0 < BUFFER_SIZE
      BY <1>6, <2>4
    <3> QED
      BY <2>6, <3>1, EntryMoves
  <2>8. /\ After(p)' = After(p) /\ history_buffer'[After(p) - 1] = NUL
        /\ p < After(p) /\ After(p) <= bytes_used
    <3>1. /\ After(p) + 0 = After(p) /\ After(p) + 0 - 1 = After(p) - 1
          /\ p < After(p) /\ After(p) <= bytes_used
      BY <1>6, <2>4
    <3>2. After(p)' = After(p)
      BY <2>7, <3>1
    <3>3. history_buffer'[After(p) - 1] = NUL
      BY <2>7, <3>1
    <3> QED
      BY <3>1, <3>2, <3>3
  <2>9. es2[i] = CString(p)
    BY <1>8, <2>3
  <2>10. WillBeAt(es2, at2, i)
    <3>1. at2[i - 1] = p /\ at2[i] = After(p)
      BY <2>2, <2>3
    <3> QED
      BY <2>7, <2>8, <2>9, <3>1 DEF WillBeAt
  <2> QED
    BY <2>2, <2>3, <2>8, <2>10
<1>14. Entries' = es2
  <2>1. at2 \in [0..Len(es2) -> Nat] /\ at2[0] = 0 /\ at2[Len(es2)] = bytes_used'
    <3>1. at2[m] = at[m]
      <4>1. m = j \/ m \in (j + 1)..m
        BY <1>2, <1>3
      <4> QED
        BY <1>9, <1>11, <4>1
    <3> QED
      BY <1>2, <1>8, <1>9, <1>i, <3>1
  <2>2. ASSUME NEW i \in 1..m PROVE WillBeAt(es2, at2, i) /\ at2[i] <= bytes_used
    <3>1. i \in 1..j \/ i \in (j + 1)..m
      BY <1>2, <1>3
    <3>2. CASE i \in 1..j
      <4>1. WillBeAt(es2, at2, i) /\ at2[i] <= d + n + 1
        BY <1>10, <3>2, Zenon
      <4>2. at2[i] \in Nat
        BY <1>9, <2>2
      <4> QED
        BY <1>5, <1>6, <4>1, <4>2
    <3>3. CASE i \in (j + 1)..m
      BY <1>13, <3>3
    <3> QED
      BY <3>1, <3>2, <3>3
  <2>3. \A i \in 1..Len(es2) : WillBeAt(es2, at2, i) /\ at2[i] <= bytes_used'
    BY <1>8, <1>i, <2>2
  <2> QED
    BY <1>8, <2>1, <2>3, BecomesList
<1> QED
  BY <1>7, <1>14

-----------------------------------------------------------------------------
(* The bytes a list of entries takes are the bytes up to where it ends.    *)

IsSize(from, es, m) ==
    \A k \in 0..m : from[k] = IF k = m THEN 0 ELSE Len(es[k + 1]) + 1 + from[k + 1]

LEMMA SizeScan ==
    ASSUME NEW es \in Seq(Seq(Char)), NEW m, m = Len(es)
    PROVE  \E from : List!SizeOf(es) = from[0] /\ IsSize(from, es, m)
<1>0. m \in Nat /\ \A k \in 1..m : Len(es[k]) \in Nat
  OBVIOUS
<1> DEFINE At(f, k) == IF k = m THEN 0 ELSE Len(es[k + 1]) + 1 + f[k + 1]
           from == CHOOSE f : f = [k \in 0..m |-> At(f, k)]
           D == {m}
           base == [k \in 0..m |-> 0]
           next == [k \in 0..m |-> k + 1]
           step == [k \in 0..m |-> [v \in Nat |-> Len(es[k + 1]) + 1 + v]]
<1>1. List!SizeOf(es) = from[0]
  BY DEF List!SizeOf, List!EntrySize
<1>2. ASSUME NEW k \in 0..m, k \notin D
      PROVE  next[k] \in (k + 1)..m /\ \A v \in Nat : step[k][v] \in Nat
  <2>1. k + 1 \in 1..m /\ k + 1 \in (k + 1)..m
    BY <1>0, <1>2
  <2>2. Len(es[k + 1]) \in Nat
    BY <1>0, <2>1
  <2> QED
    BY <2>1, <2>2
<1>3. \A k \in 0..m : base[k] = 0 /\ next[k] = k + 1 /\ (k \in D <=> k = m)
  OBVIOUS
<1>4. \A k \in 0..m : \A v \in Nat : step[k][v] = Len(es[k + 1]) + 1 + v
  OBVIOUS
<1> HIDE DEF D, base, next, step
<1>5. Facts!Scannable(0, m, Nat, D, base, next, step)
  BY <1>2, <1>3 DEF Facts!Scannable
<1>6. PICK f : Facts!IsScan(f, 0, m, Nat, D, base, next, step)
  <2>1. 0 \in Nat /\ 0 <= m
    BY <1>0
  <2> QED
    BY <1>0, <1>5, <2>1, Facts!ScanExists
<1>7. ASSUME NEW k \in 0..m PROVE f[k] = At(f, k)
  <2>1. f[k] = (IF k \in D THEN base[k] ELSE step[k][f[next[k]]]) /\ f \in [0..m -> Nat]
    BY <1>6 DEF Facts!IsScan, Facts!Scanned
  <2>2. CASE k = m
    BY <1>3, <2>1, <2>2
  <2>3. CASE k # m
    <3>1. k + 1 \in 0..m
      BY <1>0, <2>3
    <3>2. f[k + 1] \in Nat
      BY <2>1, <3>1
    <3>3. f[k] = step[k][f[k + 1]]
      BY <1>3, <2>1, <2>3
    <3>4. step[k][f[k + 1]] = Len(es[k + 1]) + 1 + f[k + 1]
      BY <1>4, <3>2
    <3> QED
      BY <2>3, <3>3, <3>4, Zenon
  <2> QED
    BY <2>2, <2>3
<1>8. from = [k \in 0..m |-> At(from, k)]
  <2> HIDE DEF At
  <2>1. f = [k \in 0..m |-> At(f, k)]
    BY <1>6, <1>7 DEF Facts!IsScan
  <2> QED
    BY <2>1
<1> HIDE DEF from
<1>9. IsSize(from, es, m)
  BY <1>8 DEF IsSize
<1> QED
  BY <1>1, <1>9

LEMMA SizeIs ==
    ASSUME IInv, NEW es, NEW at, ListedFrom(0, es, at), NEW k \in 0..Len(es)
    PROVE  List!SizeOf(SubSeq(es, 1, k)) = at[k]
<1>1. PICK m : m = Len(es)
  OBVIOUS
<1>2. es \in Seq(Seq(Char)) /\ m \in Nat /\ at[0] = 0
  BY <1>1, ListParts
<1>3. \A i \in 0..m : at[i] \in Nat
  BY <1>1, ListParts
<1>4. \A i \in 1..m : at[i - 1] \in Starts /\ at[i] = After(at[i - 1]) /\ es[i] = CString(at[i - 1])
  BY <1>1, ListParts
<1>5. k \in Nat /\ k \in 0..m
  BY <1>1, <1>2
<1>6. PICK r : r = SubSeq(es, 1, k)
  OBVIOUS
<1>7. r \in Seq(Seq(Char)) /\ Len(r) = k /\ \A i \in 1..k : r[i] = es[i]
  <2>1. PICK S : S = Seq(Char)
    OBVIOUS
  <2>2. es \in Seq(S) /\ 1 \in 1..(m + 1) /\ k \in (1 - 1)..m
    BY <1>2, <1>5, <2>1
  <2>3. r \in Seq(S) /\ Len(r) = k /\ \A i \in 1..k : r[i] = es[i]
    BY <1>1, <1>5, <1>6, <2>2, SubSeqProperties
  <2> QED
    BY <2>1, <2>3
<1>s. PICK from : List!SizeOf(r) = from[0] /\ IsSize(from, r, k)
  <2>1. r \in Seq(Seq(Char)) /\ k = Len(r)
    BY <1>7
  <2> QED
    BY <2>1, SizeScan
<1>8. /\ List!SizeOf(r) = from[0]
      /\ \A i \in 0..k : from[i] = IF i = k THEN 0 ELSE Len(r[i + 1]) + 1 + from[i + 1]
  BY <1>s DEF IsSize
<1> DEFINE Q == {i \in 0..k : from[i] = at[k] - at[i]}
<1>9. ASSUME NEW i \in 0..k, \A j \in (i + 1)..k : j \in Q PROVE i \in Q
  <2>1. CASE i = k
    BY <1>3, <1>5, <1>8, <2>1
  <2>2. CASE i # k
    <3>1. i + 1 \in 1..k /\ i + 1 \in (i + 1)..k /\ i + 1 \in 1..m /\ (i + 1) - 1 = i
          /\ i \in 0..m /\ i + 1 \in 0..m
      BY <1>2, <1>5, <2>2
    <3>2. from[i + 1] = at[k] - at[i + 1]
      BY <1>9, <3>1
    <3>3. PICK p \in Starts : p = at[i] /\ at[i + 1] = After(p) /\ es[i + 1] = CString(p)
      BY <1>4, <3>1
    <3>4. PICK l : l = StrnLen(p)
      OBVIOUS
    <3>5. l \in Nat /\ p \in Nat /\ After(p) = p + l + 1
      <4>1. l \in 1..254
        BY <3>4, EntryAt
      <4>2. l \in Nat
        BY <4>1
      <4>3. After(p) = p + l + 1 /\ p \in Nat
        BY <3>4, EntryEnds
      <4> QED
        BY <4>2, <4>3
    <3>6. Len(r[i + 1]) = l
      <4>1. p \in 0..(bytes_used - 1)
        BY DEF Starts
      <4>2. Len(CString(p)) = l
        BY <3>4, <4>1, StringAt
      <4> QED
        BY <1>7, <3>1, <3>3, <4>2
    <3>7. from[i] = l + 1 + from[i + 1]
      BY <1>8, <2>2, <3>6
    <3>8. from[i] = at[k] - at[i]
      <4>1. at[k] \in Nat /\ at[i] = p /\ at[i + 1] = p + l + 1
        BY <1>3, <1>5, <3>3, <3>5
      <4> QED
        BY SMTT(30), <3>2, <3>5, <3>7, <4>1
    <3> QED
      BY <3>8
  <2> QED
    BY <2>1, <2>2
<1> HIDE DEF Q
<1>10. \A i \in 0..k : i \in Q
  BY <1>5, <1>9, Facts!Downward
<1>11. from[0] = at[k] - 0
  BY <1>2, <1>5, <1>10 DEF Q
<1>12. at[k] \in Nat
  BY <1>3, <1>5
<1> QED
  BY <1>6, <1>8, <1>11, <1>12

-----------------------------------------------------------------------------
(* Lines that are the same.                                                *)

LEMMA SameBack ==
    ASSUME NEW x \in Seq(Char), NEW y \in Seq(Char), List!SameLine(x, y)
    PROVE  List!SameLine(y, x)
  BY DEF List!SameLine

LEMMA SameThrough ==
    ASSUME NEW x \in Seq(Char), NEW y \in Seq(Char), NEW z \in Seq(Char),
           List!SameLine(x, y), List!SameLine(y, z)
    PROVE  List!SameLine(x, z)
<1>1. Len(x) = Len(y) /\ Len(y) = Len(z) /\ Len(x) = Len(z)
  BY DEF List!SameLine
<1>2. ASSUME NEW i \in 1..Len(x) PROVE Fold[x[i]] = Fold[z[i]]
  <2>1. i \in 1..Len(y)
    BY <1>1
  <2>2. Fold[x[i]] = Fold[y[i]] /\ Fold[y[i]] = Fold[z[i]]
    BY <2>1 DEF List!SameLine
  <2> QED
    BY <2>2
<1> QED
  BY <1>1, <1>2 DEF List!SameLine

(* The comparison of push() finds the entries that are the same line: all  *)
(* their bytes are compared, and a terminator among them never matches.    *)
LEMMA MatchesSame ==
    ASSUME IInv, NEW p \in Starts, NEW s \in Line, s # <<>>
    PROVE  Matches(p, s) <=> List!SameLine(CString(p), s)
<1>1. entry_length(p) = StrnLen(p) /\ StrnLen(p) \in 1..254 /\ p \in 0..(BUFFER_SIZE - 1)
      /\ StrnLen(p) = EndAt(p) - p /\ EndAt(p) \in (p + 1)..(bytes_used - 1)
      /\ \A q \in p..(EndAt(p) - 1) : history_buffer[q] # NUL
  BY EntryAt
<1>2. p \in 0..(bytes_used - 1)
  BY DEF Starts
<1>3. Len(CString(p)) = StrnLen(p)
      /\ \A i \in 1..StrnLen(p) : CString(p)[i] = history_buffer[p + i - 1]
  BY <1>2, StringAt
<1>4. bytes_used \in Nat /\ bytes_used <= BUFFER_SIZE /\ BUFFER_SIZE \in Nat
  BY UsedBytes, Size
<1>5. ASSUME NEW i \in 1..StrnLen(p) PROVE history_buffer[p + i - 1] \in Char
  <2>1. p + i - 1 \in p..(EndAt(p) - 1) /\ p + i - 1 \in Index
    BY <1>1, <1>4 DEF Index
  <2>2. history_buffer[p + i - 1] # NUL
    BY <1>1, <2>1
  <2>3. history_buffer[p + i - 1] \in Char \cup {NUL}
    BY <2>1 DEF IInv, TypeOK
  <2> QED
    BY <2>2, <2>3
<1>6. CASE StrnLen(p) = Len(s)
  <2>1. ASSUME NEW i \in 1..Len(s)
        PROVE  SameByte(history_buffer[p + i - 1], s[i]) <=> Fold[CString(p)[i]] = Fold[s[i]]
    <3>1. i \in 1..StrnLen(p)
      BY <1>6
    <3> QED
      BY <1>3, <1>5, <3>1 DEF SameByte
  <2>2. entry_length(p) = Len(s) /\ Len(CString(p)) = Len(s)
    BY <1>1, <1>3, <1>6
  <2> QED
    BY <2>1, <2>2 DEF Matches, List!SameLine
<1>7. CASE StrnLen(p) # Len(s)
  BY <1>1, <1>3, <1>7 DEF Matches, List!SameLine
<1> QED
  BY <1>6, <1>7

(* No bytes, no entries.                                                   *)
LEMMA EmptyList ==
    ASSUME IInv', bytes_used' = 0
    PROVE  Entries' = <<>>
<1>1. <<>> \in Seq(Seq(Char)) /\ Len(<<>>) = 0
  OBVIOUS
<1>2. PICK at2 : at2 = [j \in 0..0 |-> 0]
  OBVIOUS
<1>3. at2 \in [0..0 -> Nat] /\ at2[0] = 0
  BY <1>2
<1>4. \A j \in 1..0 : WillBeAt(<<>>, at2, j) /\ at2[j] <= bytes_used'
  OBVIOUS
<1> QED
  BY <1>1, <1>3, <1>4, BecomesList

Distinct(es) == \A j, k \in 1..Len(es) : List!SameLine(es[j], es[k]) => j = k

(* What a push makes of the list, by the three cases of the code.          *)
Unmoved(s, es, es2) == Len(es) > 0 /\ List!SameLine(es[1], s) /\ es2 = es

Promotion(s, es, es2) ==
    \E j \in 2..Len(es) : List!SameLine(es[j], s) /\ es2 = MovedToFront(s, es, j)

Fits(s, es) == List!SizeOf(es) + List!EntrySize(s) <= BUFFER_SIZE

Addition(s, es, es2) ==
    /\ \A j \in 1..Len(es) : ~List!SameLine(es[j], s)
    /\ \E k \in 0..Len(es) :
          /\ \A i \in 0..Len(es) : i > k => ~Fits(s, SubSeq(es, 1, i))
          /\ \/ Fits(s, SubSeq(es, 1, k)) /\ es2 = <<s>> \o SubSeq(es, 1, k)
             \/ ~Fits(s, SubSeq(es, 1, k)) /\ k = 0 /\ es2 = <<>>

LEMMA AddedList ==
    ASSUME IInv, IInv', NEW s \in Line, PushNew(s)
    PROVE  /\ Addition(s, Entries, Entries')
           /\ cursor' = IF Entries' = <<>> THEN cursor ELSE HistoryLength
<1>1. PICK es : es = Entries
  OBVIOUS
<1>2. PICK at : ListedFrom(0, es, at)
  BY <1>1, EntriesListed
<1>3. PICK m : m = Len(es)
  OBVIOUS
<1>4. es \in Seq(Seq(Char)) /\ m \in Nat
  BY <1>2, <1>3, ListParts
<1>5. \A j \in 1..m : at[j - 1] \in Starts /\ es[j] = CString(at[j - 1])
  BY <1>2, <1>3, ListParts
<1>6. \A q \in Cuts : \E k \in 0..m : at[k] = q
  BY <1>2, <1>3, ListedOrder
<1>7. s # <<>>
  BY DEF PushNew
<1>8. \A j \in 1..m : Matches(at[j - 1], s) <=> List!SameLine(es[j], s)
  BY <1>5, <1>7, MatchesSame
<1>a. \A i \in 0..m : at[i] \in Cuts /\ at[i] \in Nat
  BY <1>2, <1>3, ListParts
<1>b. \A i, j \in 0..m : i < j => at[i] < at[j]
  BY <1>2, <1>3, ListParts
<1>9. FindDuplicate(s) = nullptr
  BY DEF PushNew
<1>10. ASSUME NEW j \in 1..m PROVE ~List!SameLine(es[j], s)
  <2>1. at[j - 1] \in Starts
    BY <1>5
  <2>2. at[j - 1] < FindDuplicate(s)
    <3>1. at[j - 1] \in 0..(BUFFER_SIZE - 1)
      BY <2>1, EntryAt
    <3> QED
      BY <1>9, <3>1, Size DEF nullptr
  <2>3. ~Matches(at[j - 1], s)
    BY <2>1, <2>2, DuplicateFound
  <2> QED
    BY <1>8, <2>3
<1>11. PICK need : need = EntrySize(s)
  OBVIOUS
<1>12. PICK d : d = UsedAfterEviction(need)
  OBVIOUS
<1>13. IF NoRoom(d, need)
         THEN bytes_used' = d /\ cursor' = cursor
         ELSE /\ history_buffer' = WrittenInFront(s, d) /\ bytes_used' = d + need
              /\ cursor' = HistoryLength
  BY <1>11, <1>12 DEF PushNew, CursorAfterPush
<1>14. PICK n : n = Len(s)
  OBVIOUS
<1>15. n \in 1..254 /\ need = n + 1
  BY <1>7, <1>11, <1>14, LineIs
<1>16. need \in Nat
  BY <1>15
<1>17. d \in Cuts /\ d \in 0..bytes_used /\ (NoRoom(d, need) => d = 0)
  BY <1>12, <1>16, EvictionCuts
<1>18. \A q \in Cuts : q > d => NoRoom(q, need)
  BY <1>12, <1>16, EvictionCuts
<1>19. PICK k \in 0..m : at[k] = d
  BY <1>6, <1>17
<1>20. ASSUME NEW i \in 0..m
       PROVE  Fits(s, SubSeq(es, 1, i)) <=> ~NoRoom(at[i], need)
  <2>1. List!SizeOf(SubSeq(es, 1, i)) = at[i]
    BY <1>2, <1>3, SizeIs
  <2>2. List!EntrySize(s) = need
    BY <1>11 DEF List!EntrySize, EntrySize
  <2>3. at[i] \in Nat
    BY <1>a
  <2> QED
    BY <1>16, <2>1, <2>2, <2>3, Size DEF Fits, NoRoom
<1>21. ASSUME NEW i \in 0..m, i > k PROVE ~Fits(s, SubSeq(es, 1, i))
  <2>1. at[i] \in Cuts /\ at[i] > d
    BY <1>4, <1>19, <1>21, <1>a, <1>b
  <2> QED
    BY <1>18, <1>20, <2>1
<1>22. CASE NoRoom(d, need)
  <2>1. bytes_used' = 0 /\ cursor' = cursor
    BY <1>13, <1>17, <1>22
  <2>2. Entries' = <<>>
    BY <2>1, EmptyList
  <2>3. k = 0
    <3>1. 0 \in 0..m /\ at[0] = 0
      BY <1>2, <1>3, <1>4, ListParts
    <3>2. at[k] = 0
      BY <1>17, <1>19, <1>22
    <3>3. k # 0 => 0 < k
      BY <1>4
    <3>4. k # 0 => at[0] < at[k]
      BY <1>b, <3>1, <3>3
    <3> QED
      BY <3>1, <3>2, <3>4
  <2>4. ~Fits(s, SubSeq(es, 1, k))
    BY <1>19, <1>20, <1>22
  <2>5. Addition(s, es, <<>>)
    BY <1>3, <1>10, <1>21, <2>3, <2>4 DEF Addition
  <2> QED
    BY <1>1, <2>1, <2>2, <2>5
<1>23. CASE ~NoRoom(d, need)
  <2>1. history_buffer' = WrittenInFront(s, d) /\ bytes_used' = d + need /\ cursor' = HistoryLength
    BY <1>13, <1>23
  <2>2. d + n + 1 <= BUFFER_SIZE /\ bytes_used' = d + n + 1
    BY <1>15, <1>17, <1>23, <2>1, UsedBytes, Size DEF NoRoom
  <2>3. Entries' = <<s>> \o SubSeq(es, 1, k)
    BY <1>1, <1>2, <1>3, <1>7, <1>14, <1>19, <2>1, <2>2, NewListed
  <2>4. PICK es2 : es2 = <<s>> \o SubSeq(es, 1, k)
    OBVIOUS
  <2>5. es2 # <<>>
    <3>1. PICK S : S = Seq(Char)
      OBVIOUS
    <3>2. es \in Seq(S) /\ s \in S
      BY <1>4, <1>7, <3>1, LineIs
    <3>3. Len(es2) = k + 1
      BY <1>3, <1>19, <2>4, <3>2, InFront
    <3> QED
      BY <1>4, <3>3
  <2>6. Fits(s, SubSeq(es, 1, k))
    BY <1>19, <1>20, <1>23
  <2>7. Addition(s, es, es2)
    BY <1>3, <1>10, <1>21, <2>4, <2>6 DEF Addition
  <2> QED
    BY <1>1, <2>1, <2>3, <2>4, <2>5, <2>7
<1> QED
  BY <1>22, <1>23

LEMMA PushedList ==
    ASSUME IInv, IInv', NEW s \in Line, Push(s)
    PROVE  \/ Unmoved(s, Entries, Entries') /\ cursor' = HistoryLength
           \/ Promotion(s, Entries, Entries') /\ cursor' = HistoryLength
           \/ /\ Addition(s, Entries, Entries')
              /\ cursor' = IF Entries' = <<>> THEN cursor ELSE HistoryLength
<1>1. PICK es : es = Entries
  OBVIOUS
<1>2. PICK at : ListedFrom(0, es, at)
  BY <1>1, EntriesListed
<1>3. PICK m : m = Len(es)
  OBVIOUS
<1>4. es \in Seq(Seq(Char)) /\ m \in Nat /\ at[0] = 0 /\ at[m] = bytes_used
  BY <1>2, <1>3, ListParts
<1>5. \A j \in 1..m : at[j - 1] \in Starts /\ es[j] = CString(at[j - 1])
  BY <1>2, <1>3, ListParts
<1>6. \A q \in Cuts : \E k \in 0..m : at[k] = q
  BY <1>2, <1>3, ListedOrder
<1>7. s # <<>>
  BY DEF Push, PushNewest, PushDuplicate, PushNew
<1>8. \A j \in 1..m : Matches(at[j - 1], s) <=> List!SameLine(es[j], s)
  BY <1>5, <1>7, MatchesSame
<1>9. CASE PushNewest(s)
  <2>1. bytes_used > 0 /\ Matches(0, s) /\ UNCHANGED <<history_buffer, bytes_used>>
    BY <1>9 DEF PushNewest
  <2>0. cursor' = HistoryLength
    BY <1>9 DEF PushNewest, CursorAfterPush
  <2>2. Entries' = es
    BY <1>1, <2>1, SameEntries
  <2>3. m # 0
    BY <1>4, <2>1
  <2>4. 1 \in 1..m /\ 1 - 1 = 0 /\ m > 0
    BY <1>4, <2>3
  <2>5. Matches(at[1 - 1], s)
    BY <1>4, <2>1, <2>4
  <2>6. List!SameLine(es[1], s)
    BY <1>8, <2>4, <2>5
  <2> QED
    BY <1>1, <1>3, <2>0, <2>2, <2>4, <2>6 DEF Unmoved
<1>10. CASE PushDuplicate(s)
  <2>1. PICK d : d = FindDuplicate(s)
    OBVIOUS
  <2>2. d # nullptr /\ history_buffer' = WrittenInFront(s, d) /\ bytes_used' = bytes_used
    BY <1>10, <2>1 DEF PushDuplicate, Promoted
  <2>0. cursor' = HistoryLength /\ ~(bytes_used > 0 /\ Matches(0, s))
    BY <1>10 DEF PushDuplicate, CursorAfterPush
  <2>3. d \in Starts /\ Matches(d, s)
    BY <2>1, <2>2, DuplicateFound
  <2>4. d \in Cuts /\ d < bytes_used /\ bytes_used \in Nat
    BY <2>3, CutsInside, UsedBytes, Size
  <2>5. PICK k \in 0..m : at[k] = d
    BY <1>6, <2>4
  <2>6. k # m
    BY <1>4, <2>4, <2>5
  <2>7. PICK j \in 1..m : j - 1 = k
    <3>1. k + 1 \in 1..m /\ (k + 1) - 1 = k
      BY <1>4, <2>6
    <3> QED
      BY <3>1
  <2>8. d = at[j - 1]
    BY <2>5, <2>7
  <2>9. List!SameLine(es[j], s)
    BY <1>8, <2>3, <2>8
  <2>10. StrnLen(d) = Len(s)
    BY <2>3, EntryAt DEF Matches
  <2>11. PICK n : n = Len(s)
    OBVIOUS
  <2>12. PromotedAt(s, n, es, at, m, j, d)
    BY <1>2, <1>3, <1>7, <2>2, <2>8, <2>10, <2>11 DEF PromotedAt
  <2>13. Entries' = MovedToFront(s, es, j)
    BY <2>12, PromotedListed
  <2>14. j # 1
    <3>1. 1 - 1 = 0 /\ bytes_used > 0
      BY <2>3, <2>4, EntryAt
    <3>2. d # 0
      BY <2>0, <2>3, <3>1
    <3> QED
      BY <1>4, <2>8, <3>1, <3>2
  <2>15. j \in 2..Len(es)
    BY <1>3, <1>4, <2>14
  <2> QED
    BY <1>1, <2>0, <2>9, <2>13, <2>15 DEF Promotion
<1>11. CASE PushNew(s)
  BY <1>11, AddedList
<1> QED
  BY <1>9, <1>10, <1>11 DEF Push

-----------------------------------------------------------------------------
(* No line twice.                                                          *)

(* Taking the same line out before putting one in front leaves no two that *)
(* are the same.                                                           *)
LEMMA MovedDistinct ==
    ASSUME NEW es \in Seq(Seq(Char)), NEW s \in Seq(Char), Distinct(es),
           NEW es2, Promotion(s, es, es2)
    PROVE  Distinct(es2)
<1>1. PICK m : m = Len(es)
  OBVIOUS
<1>2. m \in Nat /\ \A i \in 1..m : es[i] \in Seq(Char)
  BY <1>1
<1>3. PICK j \in 1..m : List!SameLine(es[j], s) /\ es2 = MovedToFront(s, es, j)
  <2>1. \A j \in 2..m : j \in 1..m
    OBVIOUS
  <2> QED
    BY <1>1, <2>1 DEF Promotion
<1>4. IsMoved(es2, s, es, m, j)
  <2>1. PICK S : S = Seq(Char)
    OBVIOUS
  <2>2. es \in Seq(S) /\ s \in S
    BY <2>1
  <2> QED
    BY <1>1, <1>3, <2>2, InFrontMoved
<1>5. Len(es2) = m
  BY <1>4 DEF IsMoved
<1>6. \A i, k \in 1..m : List!SameLine(es[i], es[k]) => i = k
  BY <1>1 DEF Distinct
<1>7. ASSUME NEW i \in 1..m
      PROVE  \/ i = 1 /\ es2[i] = s
             \/ i \in 2..j /\ i - 1 \in 1..m /\ i - 1 < j /\ es2[i] = es[i - 1]
             \/ i \in (j + 1)..m /\ es2[i] = es[i]
  <2>1. CASE i = 1
    BY <1>4, <2>1 DEF IsMoved
  <2>2. CASE i # 1 /\ i <= j
    <3>1. i \in 2..j /\ i - 1 \in 1..m /\ i - 1 \in 1..(j - 1) /\ (i - 1) + 1 = i /\ i - 1 < j
      BY <1>2, <2>2
    <3>2. \A k \in 1..(j - 1) : es2[k + 1] = es[k]
      BY <1>4 DEF IsMoved
    <3>3. es2[(i - 1) + 1] = es[i - 1]
      BY <3>1, <3>2
    <3> QED
      BY <3>1, <3>3
  <2>3. CASE i > j
    <3>1. i \in (j + 1)..m
      BY <1>2, <2>3
    <3> QED
      BY <1>4, <3>1 DEF IsMoved
  <2> QED
    BY <2>1, <2>2, <2>3
<1>8. PICK from :
         \A i \in 1..m :
            /\ from[i] \in 1..m
            /\ i = 1 => from[i] = j
            /\ i \in 2..j => from[i] = i - 1
            /\ i \in (j + 1)..m => from[i] = i
  <2> DEFINE f == [i \in 1..m |-> IF i = 1 THEN j ELSE IF i <= j THEN i - 1 ELSE i]
  <2>1. \A i \in 1..m :
            /\ f[i] \in 1..m
            /\ i = 1 => f[i] = j
            /\ i \in 2..j => f[i] = i - 1
            /\ i \in (j + 1)..m => f[i] = i
    BY <1>2
  <2> HIDE DEF f
  <2> QED
    BY <2>1
<1>9. ASSUME NEW i \in 1..m
      PROVE  List!SameLine(es[from[i]], es2[i]) /\ es2[i] \in Seq(Char)
  <2>1. CASE i = 1
    BY <1>3, <1>7, <1>8, <2>1
  <2>2. CASE i # 1
    <3>1. es2[i] = es[from[i]] /\ from[i] \in 1..m
      <4>1. CASE i \in 2..j
        <5>1. es2[i] = es[i - 1]
          BY <1>2, <1>7, <4>1
        <5> QED
          BY <1>8, <4>1, <5>1
      <4>2. CASE i \in (j + 1)..m
        <5>1. es2[i] = es[i]
          BY <1>2, <1>7, <4>2
        <5> QED
          BY <1>8, <4>2, <5>1
      <4> QED
        BY <2>2, <4>1, <4>2
    <3>2. List!SameLine(es[from[i]], es[from[i]])
      BY DEF List!SameLine
    <3> QED
      BY <1>2, <3>1, <3>2
  <2> QED
    BY <2>1, <2>2
<1>10. ASSUME NEW i \in 1..m, NEW k \in 1..m, List!SameLine(es2[i], es2[k])
       PROVE  i = k
  <2>1. /\ es[from[i]] \in Seq(Char) /\ es[from[k]] \in Seq(Char)
        /\ es2[i] \in Seq(Char) /\ es2[k] \in Seq(Char)
    BY <1>2, <1>8, <1>9
  <2>2. List!SameLine(es[from[i]], es2[i]) /\ List!SameLine(es2[k], es[from[k]])
    <3>1. List!SameLine(es[from[k]], es2[k])
      BY <1>9
    <3> QED
      BY <1>9, <2>1, <3>1, SameBack
  <2>3. List!SameLine(es[from[i]], es2[k])
    BY <1>10, <2>1, <2>2, SameThrough
  <2>4. List!SameLine(es[from[i]], es[from[k]])
    BY <2>1, <2>2, <2>3, SameThrough
  <2>5. from[i] = from[k]
    BY <1>6, <1>8, <2>4
  <2> QED
    BY <1>8, <2>5
<1> QED
  BY <1>5, <1>10 DEF Distinct

(* So does putting a line in front of entries none of which is the same.   *)
LEMMA AddedDistinct ==
    ASSUME NEW es \in Seq(Seq(Char)), NEW s \in Seq(Char), Distinct(es),
           NEW es2, Addition(s, es, es2)
    PROVE  Distinct(es2)
<1>1. PICK m : m = Len(es)
  OBVIOUS
<1>2. m \in Nat /\ \A i \in 1..m : es[i] \in Seq(Char)
  BY <1>1
<1>3. \A i \in 1..m : ~List!SameLine(es[i], s)
  BY <1>1 DEF Addition
<1>4. \A i \in 1..m : ~List!SameLine(s, es[i])
  BY <1>2, <1>3, SameBack
<1>5. CASE es2 = <<>>
  BY <1>5 DEF Distinct
<1>6. CASE es2 # <<>>
  <2>1. PICK k \in 0..m : es2 = <<s>> \o SubSeq(es, 1, k)
    BY <1>1, <1>6 DEF Addition
  <2>2. Len(es2) = k + 1 /\ es2[1] = s /\ \A i \in 1..k : es2[i + 1] = es[i]
    <3>1. PICK S : S = Seq(Char)
      OBVIOUS
    <3>2. es \in Seq(S) /\ s \in S
      BY <3>1
    <3> QED
      BY <1>1, <2>1, <3>2, InFront
  <2>3. \A i, l \in 1..m : List!SameLine(es[i], es[l]) => i = l
    BY <1>1 DEF Distinct
  <2>4. ASSUME NEW i \in 1..(k + 1), i # 1
        PROVE  i - 1 \in 1..m /\ es2[i] = es[i - 1]
    <3>1. i - 1 \in 1..k /\ i - 1 \in 1..m /\ (i - 1) + 1 = i
      BY <1>2, <2>4
    <3>2. es2[(i - 1) + 1] = es[i - 1]
      BY <2>2, <3>1
    <3> QED
      BY <3>1, <3>2
  <2>5. ASSUME NEW i \in 1..(k + 1), NEW l \in 1..(k + 1), List!SameLine(es2[i], es2[l])
        PROVE  i = l
    <3>1. CASE i = 1 /\ l # 1
      BY <1>4, <2>2, <2>4, <2>5, <3>1
    <3>2. CASE i # 1 /\ l = 1
      BY <1>3, <2>2, <2>4, <2>5, <3>2
    <3>3. CASE i # 1 /\ l # 1
      <4>1. i - 1 = l - 1
        BY <2>3, <2>4, <2>5, <3>3
      <4> QED
        BY <4>1
    <3> QED
      BY <3>1, <3>2, <3>3
  <2> QED
    BY <2>2, <2>5 DEF Distinct
<1> QED
  BY <1>5, <1>6

LEMMA StaysDistinct ==
    IInv /\ NoDuplicates /\ [Next]_vars => NoDuplicates'
<1> SUFFICES ASSUME IInv, NoDuplicates, [Next]_vars PROVE NoDuplicates'
  OBVIOUS
<1>1. IInv'
  BY NextInv
<1>2. Distinct(Entries)
  BY DEF NoDuplicates, Distinct
<1>3. Entries \in Seq(Seq(Char))
  BY EntriesListed DEF ListedFrom
<1>4. ASSUME NEW s \in Line, Push(s) PROVE Distinct(Entries')
  <2>1. s \in Seq(Char)
    BY CharAssumption
  <2>2. PICK es : es = Entries
    OBVIOUS
  <2>3. PICK es2 : es2 = Entries'
    OBVIOUS
  <2>4. es \in Seq(Seq(Char)) /\ Distinct(es)
    BY <1>2, <1>3, <2>2
  <2>5. Unmoved(s, es, es2) \/ Promotion(s, es, es2) \/ Addition(s, es, es2)
    BY <1>1, <1>4, <2>2, <2>3, PushedList
  <2>6. CASE Unmoved(s, es, es2)
    BY <2>3, <2>4, <2>6 DEF Unmoved
  <2>7. CASE Promotion(s, es, es2)
    BY <2>1, <2>3, <2>4, <2>7, MovedDistinct
  <2>8. CASE Addition(s, es, es2)
    BY <2>1, <2>3, <2>4, <2>8, AddedDistinct
  <2> QED
    BY <2>5, <2>6, <2>7, <2>8
<1>5. ASSUME UNCHANGED <<history_buffer, bytes_used>> PROVE Distinct(Entries')
  BY <1>2, <1>5, SameEntries
<1>6. Distinct(Entries')
  BY <1>4, <1>5 DEF Next, Prev, NextNewer, CancelBrowsing, vars
<1> QED
  BY <1>6 DEF NoDuplicates, Distinct

LEMMA NoBytesNoEntries ==
    ASSUME IInv, bytes_used = 0
    PROVE  Entries = <<>>
<1>1. PICK from : /\ Entries = from[0]
                  /\ \A p \in 0..BUFFER_SIZE :
                        from[p] = IF p >= bytes_used THEN <<>>
                                  ELSE <<CString(p)>> \o from[After(p)]
  BY EntriesScan
<1>2. 0 \in 0..BUFFER_SIZE /\ 0 >= bytes_used
  BY Size
<1> QED
  BY <1>1, <1>2

(* However pushes, promotions and evictions follow each other, no line is  *)
(* kept twice, letter case aside: the search of push() stops at the first  *)
(* match, which is the only one (lishHistory.h:109-119).                   *)
THEOREM NoLineIsKeptTwice == Spec => []NoDuplicates
<1>1. Init => NoDuplicates
  <2> SUFFICES ASSUME Init PROVE NoDuplicates
    OBVIOUS
  <2>1. IInv /\ bytes_used = 0
    BY InitInv DEF Init
  <2>2. Entries = <<>>
    BY <2>1, NoBytesNoEntries
  <2> QED
    BY <2>2 DEF NoDuplicates
<1> QED
  BY <1>1, InitInv, NextInv, StaysDistinct, PTL DEF Spec

-----------------------------------------------------------------------------
(* What a push makes of the list.                                          *)

LEMMA TailOfFront ==
    ASSUME NEW S, NEW s \in S, NEW es \in Seq(S)
    PROVE  Head(<<s>> \o es) = s /\ Tail(<<s>> \o es) = es
<1>1. PICK e : e = <<s>> \o es
  OBVIOUS
<1>2. /\ e \in Seq(S) /\ e # <<>> /\ Len(e) = Len(es) + 1 /\ e[1] = s
      /\ \A i \in 1..Len(es) : e[i + 1] = es[i]
  BY <1>1
<1>3. Head(e) = s
  BY <1>2
<1>4. Tail(e) \in Seq(S) /\ Len(Tail(e)) = Len(es)
  BY <1>2
<1>5. \A i \in 1..Len(es) : Tail(e)[i] = es[i]
  BY <1>2
<1>6. Tail(e) = es
  BY <1>4, <1>5
<1> QED
  BY <1>1, <1>3, <1>6

LEMMA TailOfList ==
    ASSUME NEW S, NEW es \in Seq(S), Len(es) > 0
    PROVE  Tail(es) = SubSeq(es, 1, 1 - 1) \o SubSeq(es, 1 + 1, Len(es))
<1>1. PICK m : m = Len(es)
  OBVIOUS
<1>2. m \in Nat /\ m > 0 /\ \A i \in 1..m : es[i] \in S
  BY <1>1
<1>3. PICK a : a = SubSeq(es, 1, 1 - 1)
  OBVIOUS
<1>4. PICK b : b = SubSeq(es, 1 + 1, m)
  OBVIOUS
<1>5. a = <<>>
  BY <1>3, SubSeqEmpty
<1>6. b \in Seq(S) /\ Len(b) = m - 1 /\ \A i \in 1..(m - 1) : b[i] = es[i + 1]
  <2>1. 2 \in Int /\ m \in Int /\ \A i \in 2..m : es[i] \in S
    BY <1>2
  <2> QED
    BY <1>2, <1>4, <2>1, SubSeqProperties
<1>7. Tail(es) \in Seq(S) /\ Len(Tail(es)) = m - 1 /\ \A i \in 1..(m - 1) : Tail(es)[i] = es[i + 1]
  BY <1>1, <1>2
<1>8. Tail(es) = b
  BY <1>6, <1>7
<1>9. a \o b = b
  BY <1>5, <1>6
<1> QED
  BY <1>1, <1>3, <1>4, <1>8, <1>9

LEMMA PushedInOrder ==
    ASSUME NEW es \in Seq(Seq(Char)), NEW s \in Seq(Char), NEW es2, es2 # <<>>,
           Unmoved(s, es, es2) \/ Promotion(s, es, es2) \/ Addition(s, es, es2)
    PROVE  /\ List!SameLine(Head(es2), s)
           /\ LET dups == List!Duplicates(es, s) IN
              IF dups = {}
                THEN \E k \in 0..Len(es) : Tail(es2) = SubSeq(es, 1, k)
                ELSE \E j \in dups :
                        Tail(es2) = SubSeq(es, 1, j - 1) \o SubSeq(es, j + 1, Len(es))
<1> DEFINE dups == List!Duplicates(es, s)
<1>1. dups = {k \in 1..Len(es) : List!SameLine(es[k], s)}
  BY DEF List!Duplicates
<1>2. PICK S : S = Seq(Char)
  OBVIOUS
<1>3. es \in Seq(S) /\ s \in S /\ Len(es) \in Nat
  BY <1>2
<1>4. List!SameLine(s, s)
  BY DEF List!SameLine
<1> HIDE DEF dups
<1>5. CASE Unmoved(s, es, es2)
  <2>1. Len(es) > 0 /\ List!SameLine(es[1], s) /\ es2 = es
    BY <1>5 DEF Unmoved
  <2>2. 1 \in dups
    BY <1>1, <1>3, <2>1
  <2>3. Tail(es2) = SubSeq(es, 1, 1 - 1) \o SubSeq(es, 1 + 1, Len(es))
    BY <1>3, <2>1, TailOfList
  <2>4. Head(es2) = es[1]
    BY <1>3, <2>1
  <2> QED
    BY <2>1, <2>2, <2>3, <2>4 DEF dups
<1>6. CASE Promotion(s, es, es2)
  <2>1. PICK j \in 1..Len(es) : List!SameLine(es[j], s) /\ es2 = MovedToFront(s, es, j)
    <3>1. \A j \in 2..Len(es) : j \in 1..Len(es)
      OBVIOUS
    <3> QED
      BY <1>6, <3>1 DEF Promotion
  <2>2. j \in dups
    BY <1>1, <2>1
  <2>3. PICK r : r = SubSeq(es, 1, j - 1) \o SubSeq(es, j + 1, Len(es))
    OBVIOUS
  <2>4. r \in Seq(S) /\ es2 = <<s>> \o r
    <3>1. SubSeq(es, 1, j - 1) \in Seq(S) /\ SubSeq(es, j + 1, Len(es)) \in Seq(S)
      <4>1. \A i \in 1..Len(es) : es[i] \in S
        BY <1>3
      <4>2. 1 \in Int /\ j - 1 \in Int /\ j + 1 \in Int /\ Len(es) \in Int
        BY <1>3
      <4>3. \A i \in 1..(j - 1) : es[i] \in S
        BY <1>3, <4>1
      <4>4. \A i \in (j + 1)..Len(es) : es[i] \in S
        BY <1>3, <4>1
      <4> QED
        BY <4>2, <4>3, <4>4, SubSeqProperties
    <3> QED
      BY <2>1, <2>3, <3>1 DEF MovedToFront
  <2>5. Head(es2) = s /\ Tail(es2) = r
    BY <1>3, <2>4, TailOfFront
  <2> QED
    BY <1>4, <2>2, <2>3, <2>5 DEF dups
<1>7. CASE Addition(s, es, es2)
  <2>1. PICK k \in 0..Len(es) : es2 = <<s>> \o SubSeq(es, 1, k)
    BY <1>7 DEF Addition
  <2>2. dups = {}
    BY <1>1, <1>7 DEF Addition
  <2>3. PICK r : r = SubSeq(es, 1, k)
    OBVIOUS
  <2>4. r \in Seq(S)
    <3>1. \A i \in 1..k : es[i] \in S
      BY <1>3
    <3> QED
      BY <2>3, <3>1, SubSeqProperties
  <2>5. Head(es2) = s /\ Tail(es2) = r
    BY <1>3, <2>1, <2>3, <2>4, TailOfFront
  <2> QED
    BY <1>4, <2>2, <2>3, <2>5 DEF dups
<1> QED
  BY <1>5, <1>6, <1>7

(* A submitted line becomes the newest entry and the others keep their     *)
(* order and spelling: promotion takes out the entry that is the same line *)
(* and nothing else, and eviction takes away a suffix.                     *)
THEOREM PushesKeepTheOrder == Spec => PushKeepsOrder
<1>1. ASSUME IInv, [Next]_vars, NEW s \in Line, Push(s), Entries' # <<>>
      PROVE  /\ List!SameLine(Head(Entries'), s)
             /\ LET dups == List!Duplicates(Entries, s) IN
                IF dups = {}
                  THEN \E k \in 0..Len(Entries) : Tail(Entries') = SubSeq(Entries, 1, k)
                  ELSE \E j \in dups :
                          Tail(Entries') =
                             SubSeq(Entries, 1, j - 1) \o SubSeq(Entries, j + 1, Len(Entries))
  <2>1. IInv'
    BY <1>1, NextInv
  <2>2. s \in Seq(Char) /\ Entries \in Seq(Seq(Char))
    BY <1>1, CharAssumption, EntriesListed DEF ListedFrom
  <2>3. \/ Unmoved(s, Entries, Entries')
        \/ Promotion(s, Entries, Entries')
        \/ Addition(s, Entries, Entries')
    BY <1>1, <2>1, PushedList
  <2> QED
    BY <1>1, <2>2, <2>3, PushedInOrder
<1>2. IInv /\ [Next]_vars =>
         [LET old == Entries  new == Entries' IN
          \A s \in Line : Push(s) /\ new # <<>> =>
             /\ List!SameLine(Head(new), s)
             /\ LET dups == List!Duplicates(old, s) IN
                IF dups = {}
                  THEN \E k \in 0..Len(old) : Tail(new) = SubSeq(old, 1, k)
                  ELSE \E j \in dups :
                          Tail(new) = SubSeq(old, 1, j - 1) \o SubSeq(old, j + 1, Len(old))]_vars
  BY <1>1
<1> QED
  BY <1>2, Invariant, PTL DEF Spec, PushKeepsOrder

LEMMA SizesAre ==
    IInv => \A k \in 0..Len(Entries) : List!SizeOf(SubSeq(Entries, 1, k)) \in Nat
<1> SUFFICES ASSUME IInv, NEW k \in 0..Len(Entries)
             PROVE  List!SizeOf(SubSeq(Entries, 1, k)) \in Nat
  OBVIOUS
<1>1. PICK es : es = Entries
  OBVIOUS
<1>2. PICK at : ListedFrom(0, es, at)
  BY <1>1, EntriesListed
<1>3. k \in 0..Len(es)
  BY <1>1
<1>4. at[k] \in Nat
  BY <1>2, <1>3, ListParts
<1>5. List!SizeOf(SubSeq(es, 1, k)) = at[k]
  BY <1>2, <1>3, SizeIs
<1> QED
  BY <1>1, <1>4, <1>5

LEMMA PushedForRoom ==
    ASSUME NEW es \in Seq(Seq(Char)), NEW s \in Seq(Char), NEW es2,
           \A k \in 0..Len(es) : List!SizeOf(SubSeq(es, 1, k)) \in Nat,
           Unmoved(s, es, es2) \/ Promotion(s, es, es2) \/ Addition(s, es, es2)
    PROVE  IF \E k \in 1..Len(es) : List!SameLine(es[k], s)
             THEN Len(es2) = Len(es)
             ELSE Len(es2) <= Len(es) =>
                     Len(s) + 1 + List!SizeOf(SubSeq(es, 1, Len(es2))) > BUFFER_SIZE
<1>1. PICK m : m = Len(es)
  OBVIOUS
<1>2. m \in Nat /\ Len(s) \in Nat
  BY <1>1
<1>3. PICK S : S = Seq(Char)
  OBVIOUS
<1>4. es \in Seq(S) /\ s \in S
  BY <1>3
<1>5. CASE Unmoved(s, es, es2)
  <2>1. 1 \in 1..m /\ List!SameLine(es[1], s) /\ es2 = es
    BY <1>1, <1>2, <1>5 DEF Unmoved
  <2> QED
    BY <1>1, <2>1
<1>6. CASE Promotion(s, es, es2)
  <2>1. PICK j \in 1..m : List!SameLine(es[j], s) /\ es2 = MovedToFront(s, es, j)
    <3>1. \A j \in 2..m : j \in 1..m
      OBVIOUS
    <3> QED
      BY <1>1, <1>6, <3>1 DEF Promotion
  <2>2. Len(es2) = m
    BY <1>1, <1>4, <2>1, InFrontMoved DEF IsMoved
  <2> QED
    BY <1>1, <2>1, <2>2
<1>7. CASE Addition(s, es, es2)
  <2>1. ~\E k \in 1..Len(es) : List!SameLine(es[k], s)
    BY <1>7 DEF Addition
  <2>2. PICK k \in 0..m :
           /\ \A i \in 0..m : i > k => ~Fits(s, SubSeq(es, 1, i))
           /\ \/ Fits(s, SubSeq(es, 1, k)) /\ es2 = <<s>> \o SubSeq(es, 1, k)
              \/ ~Fits(s, SubSeq(es, 1, k)) /\ k = 0 /\ es2 = <<>>
    BY <1>1, <1>7 DEF Addition
  <2>3. ASSUME Len(es2) <= m PROVE Len(es2) \in 0..m /\ ~Fits(s, SubSeq(es, 1, Len(es2)))
    <3>1. CASE es2 = <<s>> \o SubSeq(es, 1, k)
      <4>1. Len(es2) = k + 1
        BY <1>1, <1>4, <3>1, InFront
      <4>2. k + 1 \in 0..m /\ k + 1 > k
        BY <1>2, <2>3, <4>1
      <4> QED
        BY <2>2, <4>1, <4>2
    <3>2. CASE ~Fits(s, SubSeq(es, 1, k)) /\ k = 0 /\ es2 = <<>>
      BY <1>2, <3>2
    <3> QED
      BY <2>2, <3>1, <3>2
  <2>4. ASSUME Len(es2) <= m
        PROVE  Len(s) + 1 + List!SizeOf(SubSeq(es, 1, Len(es2))) > BUFFER_SIZE
    <3>1. PICK z : z = List!SizeOf(SubSeq(es, 1, Len(es2)))
      OBVIOUS
    <3>2. z \in Nat
      BY <1>1, <2>3, <2>4, <3>1
    <3>3. ~(z + (Len(s) + 1) <= BUFFER_SIZE)
      BY <2>3, <2>4, <3>1 DEF Fits, List!EntrySize
    <3>4. Len(s) + 1 + z > BUFFER_SIZE
      BY <1>2, <3>2, <3>3, Size
    <3> QED
      BY <3>1, <3>4
  <2> QED
    BY <1>1, <2>1, <2>4
<1> QED
  BY <1>5, <1>6, <1>7

(* Promoting a duplicate evicts nothing, and an entry is evicted only when *)
(* it and everything newer would not fit beside the new line: the loop of  *)
(* push() stops at the first cut that leaves room (lishHistory.h:115-130). *)
THEOREM EvictsNoMoreThanNeeded == Spec => EvictsOnlyForRoom
<1>1. ASSUME IInv, [Next]_vars, NEW s \in Line, Push(s)
      PROVE  IF \E k \in 1..Len(Entries) : List!SameLine(Entries[k], s)
               THEN Len(Entries') = Len(Entries)
               ELSE Len(Entries') <= Len(Entries) =>
                       Len(s) + 1 + List!SizeOf(SubSeq(Entries, 1, Len(Entries'))) > BUFFER_SIZE
  <2>1. IInv'
    BY <1>1, NextInv
  <2>2. s \in Seq(Char) /\ Entries \in Seq(Seq(Char))
    BY <1>1, CharAssumption, EntriesListed DEF ListedFrom
  <2>3. \/ Unmoved(s, Entries, Entries')
        \/ Promotion(s, Entries, Entries')
        \/ Addition(s, Entries, Entries')
    BY <1>1, <2>1, PushedList
  <2>4. \A k \in 0..Len(Entries) : List!SizeOf(SubSeq(Entries, 1, k)) \in Nat
    BY <1>1, SizesAre
  <2>5. PICK es : es = Entries
    OBVIOUS
  <2>6. PICK es2 : es2 = Entries'
    OBVIOUS
  <2>7. /\ es \in Seq(Seq(Char)) /\ s \in Seq(Char)
        /\ \A k \in 0..Len(es) : List!SizeOf(SubSeq(es, 1, k)) \in Nat
        /\ Unmoved(s, es, es2) \/ Promotion(s, es, es2) \/ Addition(s, es, es2)
    BY <2>2, <2>3, <2>4, <2>5, <2>6
  <2>8. IF \E k \in 1..Len(es) : List!SameLine(es[k], s)
          THEN Len(es2) = Len(es)
          ELSE Len(es2) <= Len(es) =>
                  Len(s) + 1 + List!SizeOf(SubSeq(es, 1, Len(es2))) > BUFFER_SIZE
    BY <2>7, PushedForRoom
  <2> QED
    BY <2>5, <2>6, <2>8
<1>2. IInv /\ [Next]_vars =>
         [LET old == Entries  new == Entries' IN
          \A s \in Line : Push(s) =>
             IF \E k \in 1..Len(old) : List!SameLine(old[k], s)
               THEN Len(new) = Len(old)
               ELSE Len(new) <= Len(old) =>
                      Len(s) + 1 + List!SizeOf(SubSeq(old, 1, Len(new))) > BUFFER_SIZE]_vars
  BY <1>1
<1> QED
  BY <1>2, Invariant, PTL DEF Spec, EvictsOnlyForRoom

-----------------------------------------------------------------------------
(* The byte array is the list.                                             *)

(* The entries that remain are those up to the last cut that leaves room.  *)
LEMMA EvictedIs ==
    ASSUME NEW es \in Seq(Seq(Char)), NEW s \in Seq(Char), NEW k \in 0..Len(es),
           \A i \in 0..Len(es) : i > k => ~Fits(s, SubSeq(es, 1, i))
    PROVE  List!Evicted(es, List!EntrySize(s)) =
              IF Fits(s, SubSeq(es, 1, k)) THEN SubSeq(es, 1, k)
              ELSE IF k = 0 THEN <<>> ELSE List!Evicted(es, List!EntrySize(s))
<1>1. PICK m : m = Len(es)
  OBVIOUS
<1>2. m \in Nat /\ k \in 0..m
  BY <1>1
<1> DEFINE fits == {i \in 0..m : Fits(s, SubSeq(es, 1, i))}
<1>3. List!Evicted(es, List!EntrySize(s)) = IF fits = {} THEN <<>> ELSE SubSeq(es, 1, List!Max(fits))
  <2>1. List!BUFFER_SIZE = BUFFER_SIZE
    BY DEF List!BUFFER_SIZE, BUFFER_SIZE
  <2> QED
    BY <1>1, <2>1 DEF List!Evicted, Fits
<1>4. \A i \in fits : i \in 0..m /\ i <= k
  BY <1>1, <1>2
<1>5. k \in fits <=> Fits(s, SubSeq(es, 1, k))
  BY <1>2
<1> HIDE DEF fits
<1>6. CASE k \in fits
  <2>1. \A i \in fits : k >= i
    BY <1>4
  <2>2. List!Max(fits) \in fits /\ \A i \in fits : List!Max(fits) >= i
    BY <1>6, <2>1 DEF List!Max
  <2>3. List!Max(fits) = k
    <3>1. PICK M : M = List!Max(fits)
      OBVIOUS
    <3>2. M \in 0..m /\ M <= k /\ M >= k
      BY <1>4, <1>6, <2>2, <3>1
    <3>3. M = k
      BY <1>2, <3>2
    <3> QED
      BY <3>1, <3>3
  <2> QED
    BY <1>3, <1>5, <1>6, <2>3
<1>7. CASE k \notin fits /\ k = 0
  <2>1. fits = {}
    BY <1>4, <1>7
  <2> QED
    BY <1>3, <1>5, <1>7, <2>1
<1> QED
  BY <1>5, <1>6, <1>7

LEMMA PushedRefines ==
    ASSUME NEW es \in Seq(Seq(Char)), Distinct(es), NEW s \in Seq(Char), s # <<>>,
           NEW c, NEW es2, NEW c2,
           \A k \in 0..Len(es) : List!SizeOf(SubSeq(es, 1, k)) \in Nat,
           \/ Unmoved(s, es, es2) /\ c2 = HistoryLength
           \/ Promotion(s, es, es2) /\ c2 = HistoryLength
           \/ Addition(s, es, es2) /\ c2 = IF es2 = <<>> THEN c ELSE HistoryLength
    PROVE  [entries |-> es2, cursor |-> c2] = List!Pushed([entries |-> es, cursor |-> c], s)
<1> DEFINE h == [entries |-> es, cursor |-> c]
           dups == List!Duplicates(es, s)
           kept == List!Evicted(es, List!EntrySize(s))
           room == ~(List!EntrySize(s) > List!BUFFER_SIZE)
<1>1. PICK m : m = Len(es)
  OBVIOUS
<1>2. m \in Nat
  BY <1>1
<1>3. dups = {k \in 1..m : List!SameLine(es[k], s)}
  BY <1>1 DEF List!Duplicates
<1>4. List!Pushed(h, s) =
         CASE 1 \in dups -> [entries |-> es, cursor |-> HistoryLength]
           [] dups # {} /\ 1 \notin dups ->
                 [entries |-> <<s>> \o List!RemoveAt(es, List!Min(dups)), cursor |-> HistoryLength]
           [] dups = {} /\ ~room -> [entries |-> kept, cursor |-> c]
           [] OTHER -> [entries |-> <<s>> \o kept, cursor |-> HistoryLength]
  <2>1. h.entries = es /\ [h EXCEPT !.cursor = HistoryLength] = [entries |-> es, cursor |-> HistoryLength]
        /\ [h EXCEPT !.entries = kept] = [entries |-> kept, cursor |-> c]
    OBVIOUS
  <2> HIDE DEF h, dups, kept, room
  <2>2. List!Pushed(h, s) =
         CASE s = <<>> -> h
           [] 1 \in dups -> [h EXCEPT !.cursor = HistoryLength]
           [] dups # {} /\ 1 \notin dups ->
                 [entries |-> <<s>> \o List!RemoveAt(h.entries, List!Min(dups)), cursor |-> HistoryLength]
           [] s # <<>> /\ dups = {} /\ ~room -> [h EXCEPT !.entries = kept]
           [] OTHER -> [entries |-> <<s>> \o kept, cursor |-> HistoryLength]
    BY <2>1 DEF List!Pushed, List!NotBrowsing, dups, kept, room
  <2> QED
    BY <2>1, <2>2
<1> HIDE DEF h, dups, kept
<1>5. CASE Unmoved(s, es, es2) /\ c2 = HistoryLength
  <2>1. 1 \in dups /\ es2 = es
    BY <1>1, <1>2, <1>3, <1>5 DEF Unmoved
  <2> QED
    BY <1>4, <1>5, <2>1 DEF h
<1>6. CASE Promotion(s, es, es2) /\ c2 = HistoryLength
  <2>1. PICK j \in 2..m : List!SameLine(es[j], s) /\ es2 = MovedToFront(s, es, j)
    BY <1>1, <1>6 DEF Promotion
  <2>2. j \in 1..m /\ j # 1
    BY <1>2
  <2>3. ASSUME NEW i \in dups PROVE i = j
    <3>1. i \in 1..m /\ List!SameLine(es[i], s)
      BY <1>3
    <3>2. es[i] \in Seq(Char) /\ es[j] \in Seq(Char)
      BY <1>1, <2>2, <3>1
    <3>3. List!SameLine(es[i], es[j])
      BY <2>1, <3>1, <3>2, SameBack, SameThrough
    <3> QED
      BY <1>1, <2>2, <3>1, <3>3 DEF Distinct
  <2>4. dups = {j}
    BY <1>3, <2>1, <2>2, <2>3
  <2>5. List!Min(dups) = j
    BY <1>2, <2>2, <2>4 DEF List!Min
  <2>6. es2 = <<s>> \o List!RemoveAt(es, j)
    BY <2>1 DEF MovedToFront, List!RemoveAt
  <2> QED
    BY <1>4, <1>6, <2>2, <2>4, <2>5, <2>6 DEF h
<1>7. CASE Addition(s, es, es2) /\ c2 = IF es2 = <<>> THEN c ELSE HistoryLength
  <2>1. dups = {}
    BY <1>1, <1>3, <1>7 DEF Addition
  <2>2. PICK k \in 0..m :
           /\ \A i \in 0..m : i > k => ~Fits(s, SubSeq(es, 1, i))
           /\ \/ Fits(s, SubSeq(es, 1, k)) /\ es2 = <<s>> \o SubSeq(es, 1, k)
              \/ ~Fits(s, SubSeq(es, 1, k)) /\ k = 0 /\ es2 = <<>>
    BY <1>1, <1>7 DEF Addition
  <2>3. kept = IF Fits(s, SubSeq(es, 1, k)) THEN SubSeq(es, 1, k)
               ELSE IF k = 0 THEN <<>> ELSE kept
    BY <1>1, <2>2, EvictedIs DEF kept
  <2>4. List!BUFFER_SIZE = BUFFER_SIZE /\ BUFFER_SIZE \in Nat
    BY Size DEF List!BUFFER_SIZE, BUFFER_SIZE
  <2>5. List!EntrySize(s) \in Nat
    BY DEF List!EntrySize
  <2>6. CASE Fits(s, SubSeq(es, 1, k))
    <3>1. kept = SubSeq(es, 1, k) /\ es2 = <<s>> \o kept
      BY <2>2, <2>3, <2>6
    <3>2. List!SizeOf(SubSeq(es, 1, k)) \in Nat
      BY <1>1
    <3>3. room
      BY <2>4, <2>5, <2>6, <3>2 DEF Fits
    <3>4. es2 # <<>>
      <4>1. PICK S : S = Seq(Char)
        OBVIOUS
      <4>2. es \in Seq(S) /\ s \in S
        BY <4>1
      <4>3. Len(es2) = k + 1
        BY <1>1, <2>2, <2>6, <4>2, InFront
      <4> QED
        BY <1>2, <4>3
    <3> QED
      BY <1>4, <1>7, <2>1, <3>1, <3>3, <3>4 DEF h
  <2>7. CASE ~Fits(s, SubSeq(es, 1, k))
    <3>1. k = 0 /\ es2 = <<>> /\ kept = <<>>
      BY <2>2, <2>3, <2>7
    <3>2. List!SizeOf(SubSeq(es, 1, k)) = 0
      <4>1. SubSeq(es, 1, k) = <<>>
        BY <3>1, SubSeqEmpty
      <4>2. <<>> \in Seq(Seq(Char)) /\ 0 = Len(<<>>)
        OBVIOUS
      <4>3. PICK from : List!SizeOf(<<>>) = from[0] /\ IsSize(from, <<>>, 0)
        BY <4>2, SizeScan
      <4>4. from[0] = 0
        BY <4>3 DEF IsSize
      <4> QED
        BY <4>1, <4>3, <4>4
    <3>3. ~room
      BY <2>4, <2>5, <2>7, <3>2 DEF Fits
    <3> QED
      BY <1>4, <1>7, <2>1, <3>1, <3>3 DEF h
  <2> QED
    BY <2>6, <2>7
<1> QED
  BY <1>5, <1>6, <1>7 DEF h

LEMMA InitRefines == Init => List!Init
<1> SUFFICES ASSUME Init PROVE List!Init
  OBVIOUS
<1>1. IInv /\ bytes_used = 0 /\ cursor = HistoryLength
  BY InitInv DEF Init
<1>2. Entries = <<>>
  BY <1>1, NoBytesNoEntries
<1> QED
  BY <1>1, <1>2 DEF List!Init, List!EmptyHistory, List!NotBrowsing

LEMMA PushRefines ==
    ASSUME IInv, IInv', NoDuplicates, NEW s \in Line, Push(s)
    PROVE  List!Push(s)
<1>1. PICK es : es = Entries
  OBVIOUS
<1>2. PICK es2 : es2 = Entries'
  OBVIOUS
<1>3. PICK c2 : c2 = cursor'
  OBVIOUS
<1>4. es \in Seq(Seq(Char)) /\ Distinct(es) /\ s \in Seq(Char) /\ s # <<>>
  <2>1. Entries \in Seq(Seq(Char))
    BY EntriesListed DEF ListedFrom
  <2>2. Distinct(Entries)
    BY DEF NoDuplicates, Distinct
  <2>3. s # <<>>
    BY DEF Push, PushNewest, PushDuplicate, PushNew
  <2> QED
    BY <1>1, <2>1, <2>2, <2>3, CharAssumption
<1>5. \A k \in 0..Len(es) : List!SizeOf(SubSeq(es, 1, k)) \in Nat
  BY <1>1, SizesAre
<1>6. \/ Unmoved(s, es, es2) /\ c2 = HistoryLength
      \/ Promotion(s, es, es2) /\ c2 = HistoryLength
      \/ Addition(s, es, es2) /\ c2 = IF es2 = <<>> THEN cursor ELSE HistoryLength
  BY <1>1, <1>2, <1>3, PushedList
<1>7. [entries |-> es2, cursor |-> c2] = List!Pushed([entries |-> es, cursor |-> cursor], s)
  BY <1>4, <1>5, <1>6, PushedRefines
<1> QED
  BY <1>1, <1>2, <1>3, <1>7 DEF List!Push

LEMMA BrowsingRefines ==
    ASSUME IInv
    PROVE  /\ Prev => List!Prev
           /\ NextNewer => List!NextNewer
           /\ CancelBrowsing => List!CancelBrowsing
<1>1. PICK es : es = Entries
  OBVIOUS
<1>2. PICK n : n = count_entries
  OBVIOUS
<1>3. n = Len(es) % 256 /\ n \in Nat
  <2>1. es \in Seq(Seq(Char))
    BY <1>1, EntriesListed DEF ListedFrom
  <2>2. Len(es) \in Nat
    BY <2>1
  <2> QED
    BY <1>1, <1>2, <2>2, EntriesCounted
<1>4. cursor \in 0..HistoryLength /\ HistoryLength \in Nat
  BY LengthAssumption DEF IInv, TypeOK
<1>5. ASSUME UNCHANGED <<history_buffer, bytes_used>> PROVE Entries' = es
  BY <1>1, <1>5, SameEntries
<1>6. ASSUME Prev PROVE List!Prev
  <2>1. n # 0 /\ (cursor # HistoryLength => cursor < n - 1) /\ Entries' = es
        /\ cursor' = IF cursor # HistoryLength THEN cursor + 1 ELSE 0
    BY <1>2, <1>5, <1>6 DEF Prev, IsBrowsing, NewestFirst
  <2> DEFINE h == [entries |-> es, cursor |-> cursor]
  <2>2. List!Count(h) = n
    BY <1>3 DEF List!Count
  <2>3. List!IsBrowsing(h) <=> cursor # HistoryLength
    BY DEF List!IsBrowsing, List!NotBrowsing
  <2>4. List!PrevMoves(h)
    BY <1>3, <2>1, <2>2, <2>3 DEF List!PrevMoves
  <2>5. List!Older(h) = [entries |-> es, cursor |-> IF cursor # HistoryLength THEN cursor + 1 ELSE 0]
    BY <2>3, <2>4 DEF List!Older
  <2> QED
    BY <1>1, <2>1, <2>5 DEF List!Prev
<1>7. ASSUME NextNewer PROVE List!NextNewer
  <2>1. cursor # HistoryLength /\ Entries' = es
        /\ cursor' = IF cursor > 0 THEN cursor - 1 ELSE HistoryLength
    BY <1>5, <1>7 DEF NextNewer, IsBrowsing
  <2> DEFINE h == [entries |-> es, cursor |-> cursor]
  <2>2. List!NextMoves(h) <=> cursor > 0
    BY <2>1 DEF List!NextMoves, List!IsBrowsing, List!NotBrowsing
  <2>3. List!Newer(h) = [entries |-> es, cursor |-> IF cursor > 0 THEN cursor - 1 ELSE HistoryLength]
    BY <2>2 DEF List!Newer, List!NotBrowsing
  <2> QED
    BY <1>1, <2>1, <2>3 DEF List!NextNewer
<1>8. ASSUME CancelBrowsing PROVE List!CancelBrowsing
  <2>1. Entries' = es /\ cursor' = HistoryLength
    BY <1>5, <1>8 DEF CancelBrowsing
  <2> QED
    BY <1>1, <2>1 DEF List!CancelBrowsing, List!Cancelled, List!NotBrowsing
<1> QED
  BY <1>6, <1>7, <1>8

(* The packed byte array is the list of lines it promises: operation by    *)
(* operation, walking terminators, memmove() and truncation do to the      *)
(* entries what HistoryList says.                                          *)
THEOREM TheArrayIsTheList == Spec => ImplementsList
<1>1. ASSUME IInv, NoDuplicates, [Next]_vars
      PROVE  [List!Next]_[entries |-> Entries, cursor |-> cursor]
  <2>1. IInv'
    BY <1>1, NextInv
  <2>2. ASSUME NEW s \in Line, Push(s) PROVE List!Next
    <3>1. List!Push(s)
      BY <1>1, <2>1, <2>2, PushRefines
    <3> QED
      BY <3>1 DEF List!Next
  <2>3. CASE Prev \/ NextNewer \/ CancelBrowsing
    BY <1>1, <2>3, BrowsingRefines DEF List!Next
  <2>4. CASE UNCHANGED vars
    <3>1. UNCHANGED <<history_buffer, bytes_used>> /\ cursor' = cursor
      BY <2>4 DEF vars
    <3>2. Entries' = Entries
      BY <3>1, SameEntries
    <3> QED
      BY <3>1, <3>2
  <2> QED
    BY <1>1, <2>2, <2>3, <2>4 DEF Next
<1>2. IInv /\ NoDuplicates /\ [Next]_vars =>
         [List!Next]_[entries |-> Entries, cursor |-> cursor]
  BY <1>1
<1> QED
  BY <1>2, InitRefines, Invariant, NoLineIsKeptTwice, PTL DEF Spec, ImplementsList, List!Spec

=============================================================================
