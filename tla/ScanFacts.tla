----------------------------- MODULE ScanFacts -----------------------------
(***************************************************************************)
(* Facts the proofs about several modules need: the least and the greatest *)
(* element of a set of numbers, induction down an interval of indices, and *)
(* the functions that scan an array: each value is read off at an index    *)
(* or computed from the value at a later one.  Such functions define the   *)
(* grammar of command lines, whose segments are shown to lie in the line.  *)
(***************************************************************************)
EXTENDS Integers, CommandLine, SequenceTheorems, WellFoundedInduction, TLAPS

LEMMA HasLeast ==
    ASSUME NEW S \in SUBSET Nat, S # {}
    PROVE  \E least \in S : \A m \in S : least <= m
<1>1. PICK least \in S : \A m \in S : <<m, least>> \notin OpToRel(<, Nat)
  BY WFMin, NatLessThanWellFounded
<1>2. ASSUME NEW m \in S PROVE least <= m
  <2>1. m \in Nat /\ least \in Nat /\ ~(m < least)
    BY <1>1 DEF OpToRel
  <2> QED
    BY <2>1
<1> QED
  BY <1>2

LEMMA HasGreatest ==
    ASSUME NEW n \in Nat, NEW S \in SUBSET (0..n), S # {}
    PROVE  \E greatest \in S : \A m \in S : greatest >= m
<1> DEFINE T == {n - k : k \in S}
<1>0. \A k \in S : k \in 0..n /\ n - k \in Nat
  OBVIOUS
<1>1. T \in SUBSET Nat /\ T # {} /\ \A k \in S : n - k \in T
  BY <1>0
<1>2. PICK least \in T : \A m \in T : least <= m
  <2> HIDE DEF T
  <2> QED
    BY <1>1, HasLeast
<1>3. PICK greatest \in S : least = n - greatest
  OBVIOUS
<1>4. ASSUME NEW k \in S PROVE greatest >= k
  <2>1. n - greatest <= n - k
    BY <1>1, <1>2, <1>3
  <2> QED
    BY <1>0, <2>1
<1> QED
  BY <1>4

(* What holds at an index whenever it holds at every later one holds at    *)
(* all of them.                                                            *)
LEMMA Downward ==
    ASSUME NEW a \in Nat, NEW b \in Nat, NEW Q,
           \A i \in a..b : (\A j \in (i + 1)..b : j \in Q) => i \in Q
    PROVE  \A i \in a..b : i \in Q
<1> DEFINE bad == {i \in a..b : i \notin Q}
<1> SUFFICES ASSUME bad # {} PROVE FALSE
  OBVIOUS
<1>1. bad \in SUBSET (0..b)
  OBVIOUS
<1>2. PICK i \in bad : \A m \in bad : i >= m
  <2> HIDE DEF bad
  <2> QED
    BY <1>1, HasGreatest
<1>3. \A j \in (i + 1)..b : j \in Q
  BY <1>2
<1> QED
  BY <1>3

(* And upward.                                                             *)
LEMMA Upward ==
    ASSUME NEW a \in Nat, NEW b \in Nat, NEW Q, a \in Q,
           \A i \in a..b : i \in Q /\ i < b => i + 1 \in Q
    PROVE  \A i \in a..b : i \in Q
<1> DEFINE bad == {i \in a..b : i \notin Q}
<1> SUFFICES ASSUME bad # {} PROVE FALSE
  OBVIOUS
<1>1. bad \in SUBSET Nat
  OBVIOUS
<1>2. PICK i \in bad : \A m \in bad : i <= m
  <2> HIDE DEF bad
  <2> QED
    BY <1>1, HasLeast
<1>3. i # a /\ i - 1 \in a..b /\ i - 1 < b /\ (i - 1) + 1 = i
  BY <1>2
<1>4. i - 1 \in Q
  BY <1>2, <1>3
<1> QED
  BY <1>2, <1>3, <1>4

(* A scan over the indices a..b stops in the indices of D, where it finds  *)
(* base, and goes from any other one to a later one, whose value step then *)
(* updates.                                                                *)
Scanned(f, i, D, base, next, step) ==
    IF i \in D THEN base[i] ELSE step[i][f[next[i]]]

Scannable(a, b, V, D, base, next, step) ==
    /\ \A i \in a..b : i \in D => base[i] \in V
    /\ \A i \in a..b : i \notin D => next[i] \in (i + 1)..b
    /\ \A i \in a..b : i \notin D => \A v \in V : step[i][v] \in V

IsScan(f, a, b, V, D, base, next, step) ==
    /\ f \in [a..b -> V]
    /\ \A i \in a..b : f[i] = Scanned(f, i, D, base, next, step)

LEMMA ScanExists ==
    ASSUME NEW a \in Nat, NEW b \in Nat, a <= b, NEW V, NEW D, NEW base, NEW next, NEW step,
           Scannable(a, b, V, D, base, next, step)
    PROVE  \E f : IsScan(f, a, b, V, D, base, next, step)
<1>0. /\ \A i \in a..b : i \in D => base[i] \in V
      /\ \A i \in a..b : i \notin D => next[i] \in (i + 1)..b
      /\ \A i \in a..b : i \notin D => \A v \in V : step[i][v] \in V
  BY DEF Scannable
<1> DEFINE Good(k, f) == /\ f \in [k..b -> V]
                         /\ \A i \in k..b : f[i] = Scanned(f, i, D, base, next, step)
           Q == {k \in a..b : \E f : Good(k, f)}
<1>1. ASSUME NEW k \in a..b, \A j \in (k + 1)..b : j \in Q
      PROVE  k \in Q
  <2>1. PICK f : Good(k + 1, f)
    <3>1. CASE k = b
      <4>1. Good(k + 1, [i \in (k + 1)..b |-> base[i]])
        BY <3>1
      <4> QED
        BY <4>1
    <3>2. CASE k # b
      <4> HIDE DEF Good
      <4>1. k + 1 \in (k + 1)..b
        BY <3>2
      <4>2. k + 1 \in Q
        BY <1>1, <4>1
      <4> QED
        BY <4>2
    <3> QED
      BY <3>1, <3>2
  <2> DEFINE first == Scanned(f, k, D, base, next, step)
             g == [i \in k..b |-> IF i = k THEN first ELSE f[i]]
  <2>2. first \in V
    <3>1. CASE k \in D
      BY <1>0, <3>1 DEF Scanned
    <3>2. CASE k \notin D
      <4>1. next[k] \in (k + 1)..b
        BY <1>0, <3>2
      <4>2. f[next[k]] \in V
        BY <2>1, <4>1
      <4> QED
        BY <1>0, <3>2, <4>2 DEF Scanned
    <3> QED
      BY <3>1, <3>2
  <2> HIDE DEF first
  <2>3. g \in [k..b -> V]
    BY <2>1, <2>2
  <2>4. ASSUME NEW i \in k..b
        PROVE  g[i] = Scanned(g, i, D, base, next, step)
    <3>1. Scanned(g, i, D, base, next, step) = Scanned(f, i, D, base, next, step)
      <4>1. CASE i \in D
        BY <4>1 DEF Scanned
      <4>2. CASE i \notin D
        <5>1. next[i] \in (i + 1)..b
          BY <1>0, <4>2
        <5>2. g[next[i]] = f[next[i]]
          BY <5>1
        <5> QED
          BY <4>2, <5>2 DEF Scanned
      <4> QED
        BY <4>1, <4>2
    <3>2. g[i] = Scanned(f, i, D, base, next, step)
      BY <2>1 DEF first
    <3> QED
      BY <3>1, <3>2
  <2>5. Good(k, g)
    BY <2>3, <2>4
  <2> QED
    BY <2>5
<1> HIDE DEF Q
<1>2. \A i \in a..b : i \in Q
  BY <1>1, Downward
<1>3. a \in Q
  BY <1>2
<1> QED
  BY <1>3 DEF Q, IsScan

(* A scan that only looks for an index to stop in.                         *)
IsWalk(f, a, b, V, D, base, next) ==
    /\ f \in [a..b -> V]
    /\ \A i \in a..b : f[i] = IF i \in D THEN base[i] ELSE f[next[i]]

LEMMA WalkExists ==
    ASSUME NEW a \in Nat, NEW b \in Nat, a <= b, NEW V, NEW D, NEW base, NEW next,
           \A i \in a..b : i \in D => base[i] \in V,
           \A i \in a..b : i \notin D => next[i] \in (i + 1)..b
    PROVE  \E f : IsWalk(f, a, b, V, D, base, next)
<1> DEFINE step == [i \in a..b |-> [v \in V |-> v]]
<1>1. \A i \in a..b : \A v \in V : step[i][v] = v
  OBVIOUS
<1> HIDE DEF step
<1>2. Scannable(a, b, V, D, base, next, step)
  BY <1>1 DEF Scannable
<1>3. PICK f : IsScan(f, a, b, V, D, base, next, step)
  BY <1>2, ScanExists
<1>4. ASSUME NEW i \in a..b
      PROVE  f[i] = IF i \in D THEN base[i] ELSE f[next[i]]
  <2>1. f[i] = Scanned(f, i, D, base, next, step) /\ f \in [a..b -> V]
    BY <1>3 DEF IsScan
  <2>2. CASE i \notin D
    <3>1. next[i] \in a..b
      BY <2>2
    <3>2. f[next[i]] \in V
      BY <2>1, <3>1
    <3> QED
      BY <1>1, <2>1, <2>2, <3>2 DEF Scanned
  <2> QED
    BY <2>1, <2>2 DEF Scanned
<1> QED
  BY <1>3, <1>4 DEF IsScan, IsWalk

(* A function that looks for the next index of D, which all from n on are. *)
LEMMA FirstExists ==
    ASSUME NEW n \in Nat, NEW D, \A j \in Nat : j >= n => j \in D
    PROVE  \E w : w = [j \in Nat |-> IF j \in D THEN j ELSE w[j + 1]]
<1> DEFINE base == [j \in 0..n |-> j]
           next == [j \in 0..n |-> j + 1]
<1>1. /\ \A j \in 0..n : j \in D => base[j] \in Nat
      /\ \A j \in 0..n : j \notin D => next[j] \in (j + 1)..n
      /\ \A j \in 0..n : base[j] = j /\ next[j] = j + 1
  OBVIOUS
<1> HIDE DEF base, next
<1>2. PICK f : IsWalk(f, 0, n, Nat, D, base, next)
  <2>1. 0 \in Nat /\ 0 <= n
    OBVIOUS
  <2> QED
    BY <1>1, <2>1, WalkExists
<1> DEFINE w == [j \in Nat |-> IF j <= n THEN f[j] ELSE j]
<1>3. ASSUME NEW j \in Nat
      PROVE  w[j] = IF j \in D THEN j ELSE w[j + 1]
  <2>1. CASE j <= n /\ j \in D
    BY <1>1, <1>2, <2>1 DEF IsWalk
  <2>2. CASE j <= n /\ j \notin D
    <3>1. j \in 0..n /\ j + 1 \in 0..n
      BY <2>2
    <3>2. f[j] = f[j + 1]
      BY <1>1, <1>2, <2>2, <3>1 DEF IsWalk
    <3> QED
      BY <2>2, <3>1, <3>2
  <2>3. CASE j > n
    BY <2>3
  <2> QED
    BY <2>1, <2>2, <2>3
<1>4. w = [j \in Nat |-> w[j]]
  OBVIOUS
<1> HIDE DEF w
<1>5. w = [j \in Nat |-> IF j \in D THEN j ELSE w[j + 1]]
  BY <1>3, <1>4
<1> QED
  BY <1>5

IsFirst(f, k, n, D) == f \in k..n /\ f \in D /\ \A j \in k..(f - 1) : j \notin D

LEMMA FirstIs ==
    ASSUME NEW n \in Nat, NEW D, \A j \in Nat : j >= n => j \in D, NEW w,
           \A j \in Nat : w[j] = IF j \in D THEN j ELSE w[j + 1]
    PROVE  \A k \in 0..n : IsFirst(w[k], k, n, D)
<1> DEFINE Q == {k \in 0..n : IsFirst(w[k], k, n, D)}
<1>1. ASSUME NEW k \in 0..n, \A j \in (k + 1)..n : j \in Q
      PROVE  k \in Q
  <2>1. CASE k \in D
    <3>1. w[k] = k
      BY <2>1
    <3> QED
      BY <2>1, <3>1 DEF IsFirst
  <2>2. CASE k \notin D
    <3>1. k + 1 \in (k + 1)..n /\ w[k] = w[k + 1]
      BY <2>2
    <3>2. PICK f : f = w[k + 1]
      OBVIOUS
    <3>3. IsFirst(f, k + 1, n, D)
      BY <1>1, <3>1, <3>2
    <3>4. IsFirst(f, k, n, D)
      <4>1. f \in (k + 1)..n /\ f \in D /\ \A j \in (k + 1)..(f - 1) : j \notin D
        BY <3>3 DEF IsFirst
      <4>2. ASSUME NEW j \in k..(f - 1) PROVE j \notin D
        <5>1. j = k \/ j \in (k + 1)..(f - 1)
          BY <4>1
        <5> QED
          BY <2>2, <4>1, <5>1
      <4> QED
        BY <4>1, <4>2 DEF IsFirst
    <3> QED
      BY <3>1, <3>2, <3>4
  <2> QED
    BY <2>1, <2>2
<1> HIDE DEF Q
<1>2. \A k \in 0..n : k \in Q
  <2>1. 0 \in Nat
    OBVIOUS
  <2> QED
    BY <1>1, <2>1, Downward
<1> QED
  BY <1>2 DEF Q

-----------------------------------------------------------------------------
(* Where the parts of a command line lie.                                  *)

LEMMA BytesInLine ==
    ASSUME NEW t, Len(t) \in Nat, NEW k \in Nat
    PROVE  /\ ~Ends(t, k) => k < Len(t)
           /\ IsBlankAt(t, k) => k < Len(t)
           /\ SeparatorWidth(t, k) \in {0, 1, 2}
           /\ SeparatorWidth(t, k) > 0 => k + SeparatorWidth(t, k) <= Len(t)
<1>1. ~Ends(t, k) => k < Len(t)
  BY DEF Ends
<1>2. ~Ends(t, k + 1) => k + 1 < Len(t)
  BY DEF Ends
<1> DEFINE one == ~Ends(t, k) /\ t[k + 1] = ";"
           two == ~Ends(t, k + 1) /\ ~Ends(t, k) /\ t[k + 1] = "&" /\ t[k + 2] = "&"
<1>3. SeparatorWidth(t, k) = CASE one -> 1 [] two -> 2 [] OTHER -> 0
  BY DEF SeparatorWidth
<1>4. (one => k < Len(t)) /\ (two => k + 1 < Len(t)) /\ ~(one /\ two)
  BY <1>1, <1>2
<1> HIDE DEF one, two
<1>5. PICK width : width = SeparatorWidth(t, k)
  OBVIOUS
<1>6. (one => width = 1) /\ (two => width = 2) /\ (~one /\ ~two => width = 0)
  BY <1>3, <1>4, <1>5, Zenon
<1>7. width \in {0, 1, 2} /\ (width > 0 => k + width <= Len(t))
  BY <1>4, <1>6
<1> QED
  BY <1>1, <1>5, <1>7 DEF IsBlankAt

(* Leading blanks and separators, and what is read behind one.             *)
IsLeading(t, k) == IsBlankAt(t, k) \/ SeparatorWidth(t, k) > 0
PastLeading(t, k) == IF IsBlankAt(t, k) THEN k + 1 ELSE k + SeparatorWidth(t, k)

LEMMA PastLeadingInLine ==
    ASSUME NEW t, Len(t) \in Nat, NEW k \in Nat, IsLeading(t, k)
    PROVE  PastLeading(t, k) \in (k + 1)..Len(t)
<1>1. PICK width \in {0, 1, 2} : width = SeparatorWidth(t, k)
  BY BytesInLine
<1>2. (IsBlankAt(t, k) => k < Len(t)) /\ (width > 0 => k + width <= Len(t))
  BY <1>1, BytesInLine
<1>3. IsBlankAt(t, k) \/ width > 0
  BY <1>1 DEF IsLeading
<1> QED
  BY <1>1, <1>2, <1>3 DEF PastLeading

(* The walk to where a segment begins.                                     *)
IsWalkToBegin(w, t, from) ==
    \A k \in from..(Len(t) + 1) : w[k] = IF IsLeading(t, k) THEN w[PastLeading(t, k)] ELSE k

LEMMA SegmentBeginWalks ==
    ASSUME NEW t, Len(t) \in Nat, NEW from \in 0..Len(t)
    PROVE  \E w : SegmentBegin(t, from) = w[from] /\ IsWalkToBegin(w, t, from)
<1> DEFINE n == Len(t)
           D == {k \in from..(n + 1) : ~IsLeading(t, k)}
           base == [k \in from..(n + 1) |-> k]
           next == [k \in from..(n + 1) |-> PastLeading(t, k)]
           At(w, k) == IF IsBlankAt(t, k) THEN w[k + 1]
                       ELSE IF SeparatorWidth(t, k) > 0 THEN w[k + SeparatorWidth(t, k)]
                       ELSE k
           begin == CHOOSE w : w = [k \in from..(n + 1) |-> At(w, k)]
<1>1. SegmentBegin(t, from) = begin[from]
  BY DEF SegmentBegin
<1>2. /\ \A k \in from..(n + 1) : k \in D => base[k] \in 0..(n + 1)
      /\ \A k \in from..(n + 1) : k \notin D => next[k] \in (k + 1)..(n + 1)
      /\ \A k \in from..(n + 1) : base[k] = k /\ next[k] = PastLeading(t, k)
  BY PastLeadingInLine
<1>3. ASSUME NEW w, NEW k \in from..(n + 1)
      PROVE  At(w, k) = IF k \in D THEN k ELSE w[PastLeading(t, k)]
  BY DEF IsLeading, PastLeading
<1>4. \A k \in from..(n + 1) : k \in D <=> ~IsLeading(t, k)
  OBVIOUS
<1>5. n \in Nat /\ from \in Nat /\ n + 1 \in Nat /\ from <= n + 1 /\ n = Len(t)
  OBVIOUS
<1> HIDE DEF n, D, base, next, At
<1>6. PICK f : IsWalk(f, from, n + 1, 0..(n + 1), D, base, next)
  BY <1>2, <1>5, WalkExists
<1>7. f = [k \in from..(n + 1) |-> At(f, k)]
  <2>1. f = [k \in from..(n + 1) |-> f[k]]
    BY <1>6 DEF IsWalk
  <2>2. ASSUME NEW k \in from..(n + 1) PROVE f[k] = At(f, k)
    <3>1. f[k] = IF k \in D THEN base[k] ELSE f[next[k]]
      BY <1>6 DEF IsWalk
    <3>2. base[k] = k /\ next[k] = PastLeading(t, k)
      BY <1>2
    <3>3. At(f, k) = IF k \in D THEN k ELSE f[PastLeading(t, k)]
      BY <1>3
    <3> QED
      BY <3>1, <3>2, <3>3, Zenon
  <2> QED
    BY <2>1, <2>2
<1>8. begin = [k \in from..(n + 1) |-> At(begin, k)]
  BY <1>7
<1> HIDE DEF begin
<1>9. ASSUME NEW k \in from..(n + 1)
      PROVE  begin[k] = IF IsLeading(t, k) THEN begin[PastLeading(t, k)] ELSE k
  <2>1. begin[k] = At(begin, k)
    BY <1>8
  <2>2. At(begin, k) = IF k \in D THEN k ELSE begin[PastLeading(t, k)]
    BY <1>3
  <2> QED
    BY <1>4, <2>1, <2>2, Zenon
<1>10. IsWalkToBegin(begin, t, from)
  BY <1>5, <1>9 DEF IsWalkToBegin
<1> QED
  BY <1>1, <1>10

(* A segment begins where it may or later, inside the line.                *)
LEMMA SegmentBeginInLine ==
    ASSUME NEW t, Len(t) \in Nat, NEW from \in 0..Len(t)
    PROVE  SegmentBegin(t, from) \in from..Len(t)
<1> DEFINE n == Len(t)
<1>1. PICK w : SegmentBegin(t, from) = w[from] /\ IsWalkToBegin(w, t, from)
  BY SegmentBeginWalks
<1>2. n \in Nat /\ from \in Nat /\ from \in from..n /\ n = Len(t)
  OBVIOUS
<1> HIDE DEF n
<1> DEFINE Q == {i \in from..n : w[i] \in i..n}
<1>3. ASSUME NEW i \in from..n, \A j \in (i + 1)..n : j \in Q
      PROVE  i \in Q
  <2>1. w[i] = IF IsLeading(t, i) THEN w[PastLeading(t, i)] ELSE i
    BY <1>1, <1>2 DEF IsWalkToBegin
  <2>2. CASE ~IsLeading(t, i)
    BY <1>2, <2>1, <2>2
  <2>3. CASE IsLeading(t, i)
    <3>1. PastLeading(t, i) \in (i + 1)..n
      BY <1>2, <2>3, PastLeadingInLine
    <3>2. w[PastLeading(t, i)] \in PastLeading(t, i)..n
      BY <1>3, <3>1
    <3> QED
      BY <1>2, <2>1, <2>3, <3>1, <3>2
  <2> QED
    BY <2>2, <2>3
<1> HIDE DEF Q
<1>4. \A i \in from..n : i \in Q
  BY <1>2, <1>3, Downward
<1> QED
  BY <1>1, <1>2, <1>4 DEF Q

(* It is the first byte that is not leading.                               *)
LEMMA SegmentBeginUnfolds ==
    ASSUME NEW t, Len(t) \in Nat, NEW k \in 0..Len(t)
    PROVE  SegmentBegin(t, k) = IF IsLeading(t, k) THEN SegmentBegin(t, PastLeading(t, k)) ELSE k
<1> DEFINE n == Len(t)
<1>0. n \in Nat /\ n = Len(t) /\ k \in Nat /\ k <= n
  OBVIOUS
<1> HIDE DEF n
<1>1. PICK w : SegmentBegin(t, k) = w[k] /\ IsWalkToBegin(w, t, k)
  BY SegmentBeginWalks
<1>2. w[k] = IF IsLeading(t, k) THEN w[PastLeading(t, k)] ELSE k
  BY <1>0, <1>1 DEF IsWalkToBegin
<1>3. CASE IsLeading(t, k)
  <2>1. PICK b \in (k + 1)..n : b = PastLeading(t, k)
    BY <1>0, <1>3, PastLeadingInLine
  <2>2. PICK v : SegmentBegin(t, b) = v[b] /\ IsWalkToBegin(v, t, b)
    BY <1>0, <2>1, SegmentBeginWalks
  <2> DEFINE Q == {i \in b..n : v[i] = w[i]}
  <2>3. ASSUME NEW i \in b..n, \A j \in (i + 1)..n : j \in Q
        PROVE  i \in Q
    <3>1. v[i] = IF IsLeading(t, i) THEN v[PastLeading(t, i)] ELSE i
      BY <1>0, <2>1, <2>2 DEF IsWalkToBegin
    <3>2. w[i] = IF IsLeading(t, i) THEN w[PastLeading(t, i)] ELSE i
      BY <1>0, <1>1, <2>1 DEF IsWalkToBegin
    <3>3. CASE IsLeading(t, i)
      <4>1. PastLeading(t, i) \in (i + 1)..n
        BY <1>0, <2>1, <3>3, PastLeadingInLine
      <4>2. v[PastLeading(t, i)] = w[PastLeading(t, i)]
        BY <2>3, <4>1
      <4> QED
        BY <3>1, <3>2, <3>3, <4>2
    <3> QED
      BY <3>1, <3>2, <3>3
  <2> HIDE DEF Q
  <2>4. \A i \in b..n : i \in Q
    <3>1. b \in Nat
      BY <1>0, <2>1
    <3> QED
      BY <1>0, <2>3, <3>1, Downward
  <2>5. v[b] = w[b]
    <3>1. b \in b..n
      BY <1>0, <2>1
    <3>2. b \in Q
      BY <2>4, <3>1
    <3> QED
      BY <3>2 DEF Q
  <2> QED
    BY <1>1, <1>2, <1>3, <2>1, <2>2, <2>5
<1> QED
  BY <1>1, <1>2, <1>3

LEMMA SegmentBeginStands ==
    ASSUME NEW t, Len(t) \in Nat, NEW from \in 0..Len(t)
    PROVE  ~IsLeading(t, SegmentBegin(t, from))
<1> DEFINE n == Len(t)
           Q == {k \in 0..n : ~IsLeading(t, SegmentBegin(t, k))}
<1>0. n \in Nat /\ 0 \in Nat
  OBVIOUS
<1>1. ASSUME NEW k \in 0..n, \A j \in (k + 1)..n : j \in Q
      PROVE  k \in Q
  <2>1. SegmentBegin(t, k) = IF IsLeading(t, k) THEN SegmentBegin(t, PastLeading(t, k)) ELSE k
    BY SegmentBeginUnfolds
  <2>2. CASE IsLeading(t, k)
    <3>1. PastLeading(t, k) \in (k + 1)..n
      BY <2>2, PastLeadingInLine
    <3> QED
      BY <1>1, <2>1, <2>2, <3>1
  <2> QED
    BY <2>1, <2>2
<1> HIDE DEF n, Q
<1>2. \A k \in 0..n : k \in Q
  BY <1>0, <1>1, Downward
<1> QED
  BY <1>2 DEF n, Q

(* Where a quoted token may stop, and a bare one.                          *)
Closing(t, k) == {j \in Nat : Ends(t, j) \/ t[j + 1] = t[k + 1]}
Breaking(t) == {j \in Nat : Breaks(t, j) \/ IsQuoteAt(t, j)}

LEMMA QuotedStops ==
    ASSUME NEW t, Len(t) \in Nat, NEW k \in Nat, k < Len(t), IsQuoteAt(t, k)
    PROVE  \E stop : /\ IsFirst(stop, k + 1, Len(t), Closing(t, k))
                     /\ Token(t, k) = QuotedToken(t, k, stop)
<1> DEFINE close == CHOOSE w : w = [j \in Nat |->
                       IF Ends(t, j) \/ t[j + 1] = t[k + 1] THEN j ELSE w[j + 1]]
           D == Closing(t, k)
<1>1. Token(t, k) = QuotedToken(t, k, close[k + 1])
  BY DEF Token
<1>2. \A j \in Nat : j >= Len(t) => j \in D
  BY DEF Ends, Closing
<1>3. \A j \in Nat : j \in D <=> Ends(t, j) \/ t[j + 1] = t[k + 1]
  BY DEF Closing
<1> HIDE DEF D
<1>4. PICK w : w = [j \in Nat |-> IF j \in D THEN j ELSE w[j + 1]]
  BY <1>2, FirstExists
<1>5. w = [j \in Nat |-> IF Ends(t, j) \/ t[j + 1] = t[k + 1] THEN j ELSE w[j + 1]]
  BY <1>3, <1>4
<1>6. close = [j \in Nat |-> IF Ends(t, j) \/ t[j + 1] = t[k + 1] THEN j ELSE close[j + 1]]
  BY <1>5
<1> HIDE DEF close
<1>7. \A j \in Nat : close[j] = IF j \in D THEN j ELSE close[j + 1]
  BY <1>3, <1>6
<1>8. k + 1 \in 0..Len(t)
  OBVIOUS
<1>9. IsFirst(close[k + 1], k + 1, Len(t), D)
  BY <1>2, <1>7, <1>8, FirstIs
<1> QED
  BY <1>1, <1>9 DEF D

LEMMA BareStops ==
    ASSUME NEW t, Len(t) \in Nat, NEW k \in Nat, k < Len(t), ~IsQuoteAt(t, k)
    PROVE  \E stop : /\ IsFirst(stop, k + 1, Len(t), Breaking(t))
                     /\ Token(t, k) = BareToken(t, k, stop)
<1> DEFINE break == CHOOSE w : w = [j \in Nat |->
                       IF Breaks(t, j) \/ IsQuoteAt(t, j) THEN j ELSE w[j + 1]]
           D == Breaking(t)
<1>1. Token(t, k) = BareToken(t, k, break[k + 1])
  BY DEF Token
<1>2. \A j \in Nat : j >= Len(t) => j \in D
  BY DEF Ends, Breaks, Breaking
<1>3. \A j \in Nat : j \in D <=> Breaks(t, j) \/ IsQuoteAt(t, j)
  BY DEF Breaking
<1> HIDE DEF D
<1>4. PICK w : w = [j \in Nat |-> IF j \in D THEN j ELSE w[j + 1]]
  BY <1>2, FirstExists
<1>5. w = [j \in Nat |-> IF Breaks(t, j) \/ IsQuoteAt(t, j) THEN j ELSE w[j + 1]]
  BY <1>3, <1>4
<1>6. break = [j \in Nat |-> IF Breaks(t, j) \/ IsQuoteAt(t, j) THEN j ELSE break[j + 1]]
  BY <1>5
<1> HIDE DEF break
<1>7. \A j \in Nat : break[j] = IF j \in D THEN j ELSE break[j + 1]
  BY <1>3, <1>6
<1>8. k + 1 \in 0..Len(t)
  OBVIOUS
<1>9. IsFirst(break[k + 1], k + 1, Len(t), D)
  BY <1>2, <1>7, <1>8, FirstIs
<1> QED
  BY <1>1, <1>9 DEF D

(* A token is what its first stop makes it.                                *)
LEMMA QuotedIs ==
    ASSUME NEW t, Len(t) \in Nat, NEW k \in Nat, k < Len(t), IsQuoteAt(t, k),
           NEW stop, IsFirst(stop, k + 1, Len(t), Closing(t, k))
    PROVE  Token(t, k) = QuotedToken(t, k, stop)
<1>1. PICK s : IsFirst(s, k + 1, Len(t), Closing(t, k)) /\ Token(t, k) = QuotedToken(t, k, s)
  BY QuotedStops
<1>2. s = stop
  BY <1>1 DEF IsFirst
<1> QED
  BY <1>1, <1>2

LEMMA BareIs ==
    ASSUME NEW t, Len(t) \in Nat, NEW k \in Nat, k < Len(t), ~IsQuoteAt(t, k),
           NEW stop, IsFirst(stop, k + 1, Len(t), Breaking(t))
    PROVE  Token(t, k) = BareToken(t, k, stop)
<1>1. PICK s : IsFirst(s, k + 1, Len(t), Breaking(t)) /\ Token(t, k) = BareToken(t, k, s)
  BY BareStops
<1>2. s = stop
  BY <1>1 DEF IsFirst
<1> QED
  BY <1>1, <1>2

(* The scan goes on behind a token, which is not empty, inside the line.   *)
LEMMA TokenInLine ==
    ASSUME NEW t, Len(t) \in Nat, NEW k \in Nat, ~Ends(t, k), Token(t, k).wellFormed
    PROVE  Token(t, k).next \in (k + 1)..Len(t)
<1>1. k < Len(t)
  BY DEF Ends
<1>2. CASE IsQuoteAt(t, k)
  <2>1. PICK stop : /\ IsFirst(stop, k + 1, Len(t), Closing(t, k))
                    /\ Token(t, k) = QuotedToken(t, k, stop)
    BY <1>1, <1>2, QuotedStops
  <2>2. stop \in (k + 1)..Len(t) /\ Token(t, k).next = stop + 1
    BY <2>1 DEF IsFirst, QuotedToken
  <2>3. QuotedToken(t, k, stop).wellFormed => ~Ends(t, stop)
    BY Zenon DEF QuotedToken
  <2>4. ~Ends(t, stop)
    BY <2>1, <2>3, Zenon
  <2>5. stop < Len(t)
    BY <2>2, <2>4 DEF Ends
  <2> QED
    BY <2>2, <2>5
<1>3. CASE ~IsQuoteAt(t, k)
  <2>1. PICK stop : /\ IsFirst(stop, k + 1, Len(t), Breaking(t))
                    /\ Token(t, k) = BareToken(t, k, stop)
    BY <1>1, <1>3, BareStops
  <2> QED
    BY <2>1 DEF IsFirst, BareToken
<1> QED
  BY <1>2, <1>3

Kinds == {"EndOfLine", "Semicolon", "LogicalAnd", "ParseError"}

(* What a byte can be that no token begins with is one thing only.         *)
LEMMA OneKind ==
    ASSUME NEW t, NEW k
    PROVE  /\ SeparatorWidth(t, k) = 1 <=> ~Ends(t, k) /\ t[k + 1] = ";"
           /\ SeparatorWidth(t, k) = 2 <=>
                 ~Ends(t, k + 1) /\ ~Ends(t, k) /\ t[k + 1] = "&" /\ t[k + 2] = "&"
           /\ IsBlankAt(t, k) <=> ~Ends(t, k) /\ t[k + 1] = " "
<1> DEFINE one == ~Ends(t, k) /\ t[k + 1] = ";"
           two == ~Ends(t, k + 1) /\ ~Ends(t, k) /\ t[k + 1] = "&" /\ t[k + 2] = "&"
<1>1. SeparatorWidth(t, k) = CASE one -> 1 [] two -> 2 [] OTHER -> 0
  BY DEF SeparatorWidth
<1>2. ~(one /\ two)
  OBVIOUS
<1> HIDE DEF one, two
<1>3. PICK width : width = SeparatorWidth(t, k)
  OBVIOUS
<1>4. (one => width = 1) /\ (two => width = 2) /\ (~one /\ ~two => width = 0)
  BY <1>1, <1>2, <1>3, Zenon
<1>5. (width = 1 <=> one) /\ (width = 2 <=> two)
  BY <1>2, <1>4
<1> QED
  BY <1>3, <1>5, Zenon DEF one, two, IsBlankAt

(* Where a segment ends, byte by byte.                                     *)
LEMMA EndingUnfolds ==
    ASSUME NEW t, Len(t) \in Nat, NEW begin \in 0..Len(t)
    PROVE  /\ Ends(t, begin) => Ending(t, begin) = [kind |-> "EndOfLine", next |-> begin]
           /\ IsBlankAt(t, begin) => Ending(t, begin) = Ending(t, begin + 1)
           /\ SeparatorWidth(t, begin) = 1 =>
                 Ending(t, begin) = [kind |-> "Semicolon", next |-> begin + 1]
           /\ SeparatorWidth(t, begin) = 2 =>
                 Ending(t, begin) = [kind |-> "LogicalAnd", next |-> begin + 2]
           /\ ~Breaks(t, begin) =>
                 Ending(t, begin) = IF Token(t, begin).wellFormed THEN Ending(t, Token(t, begin).next)
                                    ELSE [kind |-> "ParseError", next |-> begin]
<1> DEFINE n == Len(t)
           Behind(token, e, k) ==
             IF token.wellFormed THEN e[token.next] ELSE [kind |-> "ParseError", next |-> k]
           At(e, k) ==
             CASE Ends(t, k) -> [kind |-> "EndOfLine", next |-> k]
               [] IsBlankAt(t, k) -> e[k + 1]
               [] SeparatorWidth(t, k) = 1 -> [kind |-> "Semicolon", next |-> k + 1]
               [] SeparatorWidth(t, k) = 2 -> [kind |-> "LogicalAnd", next |-> k + 2]
               [] OTHER -> Behind(Token(t, k), e, k)
           end == CHOOSE e : e = [k \in 0..n |-> At(e, k)]
           one(k) == SeparatorWidth(t, k) = 1
           two(k) == SeparatorWidth(t, k) = 2
           blank(k) == IsBlankAt(t, k)
           none(k) == Ends(t, k)
           D == {k \in 0..n : ~blank(k) /\ (none(k) \/ one(k) \/ two(k) \/ ~Token(t, k).wellFormed)}
           base == [k \in 0..n |->
                      IF none(k) THEN [kind |-> "EndOfLine", next |-> k]
                      ELSE IF one(k) THEN [kind |-> "Semicolon", next |-> k + 1]
                      ELSE IF two(k) THEN [kind |-> "LogicalAnd", next |-> k + 2]
                      ELSE [kind |-> "ParseError", next |-> k]]
           next == [k \in 0..n |-> IF blank(k) THEN k + 1 ELSE Token(t, k).next]
           V == [kind : Kinds, next : 0..n]
<1>1. \A k : Ending(t, k) = end[k]
  BY DEF Ending
<1>2. ASSUME NEW k \in 0..n
      PROVE  /\ blank(k) => ~none(k) /\ ~one(k) /\ ~two(k)
             /\ one(k) => ~none(k) /\ ~two(k)
             /\ two(k) => ~none(k)
  BY OneKind
<1>3. ASSUME NEW k \in 0..n
      PROVE  /\ k \in D => base[k] \in V /\ base[k].next \in k..n
             /\ k \notin D => next[k] \in (k + 1)..n
  <2>0. k \in Nat /\ n \in Nat /\ Len(t) = n
    OBVIOUS
  <2>1. CASE none(k)
    BY <1>2, <2>1 DEF Kinds
  <2>2. CASE one(k)
    <3>1. k + 1 <= n
      BY <2>0, <2>2, BytesInLine
    <3> QED
      BY <1>2, <2>2, <3>1 DEF Kinds
  <2>3. CASE two(k)
    <3>1. k + 2 <= n
      BY <2>0, <2>3, BytesInLine
    <3> QED
      BY <1>2, <2>3, <3>1 DEF Kinds
  <2>4. CASE blank(k)
    <3>1. k < n
      BY <2>0, <2>4, BytesInLine
    <3> QED
      BY <1>2, <2>4, <3>1
  <2>5. CASE ~none(k) /\ ~one(k) /\ ~two(k) /\ ~blank(k)
    <3>1. CASE Token(t, k).wellFormed
      <4>1. Token(t, k).next \in (k + 1)..n
        BY <2>0, <2>5, <3>1, TokenInLine
      <4> QED
        BY <2>5, <3>1, <4>1
    <3>2. CASE ~Token(t, k).wellFormed
      BY <2>5, <3>2 DEF Kinds
    <3> QED
      BY <3>1, <3>2
  <2> QED
    BY <2>1, <2>2, <2>3, <2>4, <2>5
<1>4. ASSUME NEW e, NEW k \in 0..n
      PROVE  At(e, k) = IF k \in D THEN base[k] ELSE e[next[k]]
  <2> HIDE DEF one, two, blank, none, n
  <2>0. At(e, k) = CASE none(k) -> [kind |-> "EndOfLine", next |-> k]
                     [] blank(k) -> e[k + 1]
                     [] one(k) -> [kind |-> "Semicolon", next |-> k + 1]
                     [] two(k) -> [kind |-> "LogicalAnd", next |-> k + 2]
                     [] OTHER -> Behind(Token(t, k), e, k)
    BY DEF none, blank, one, two
  <2> HIDE DEF At
  <2>1. CASE none(k)
    <3>1. At(e, k) = [kind |-> "EndOfLine", next |-> k]
      BY <1>2, <2>0, <2>1, Zenon
    <3> QED
      BY <1>2, <2>1, <3>1
  <2>2. CASE one(k)
    <3>1. At(e, k) = [kind |-> "Semicolon", next |-> k + 1]
      BY <1>2, <2>0, <2>2, Zenon
    <3> QED
      BY <1>2, <2>2, <3>1
  <2>3. CASE two(k)
    <3>1. At(e, k) = [kind |-> "LogicalAnd", next |-> k + 2]
      BY <1>2, <2>0, <2>3, Zenon
    <3> QED
      BY <1>2, <2>3, <3>1
  <2>4. CASE blank(k)
    <3>1. At(e, k) = e[k + 1]
      BY <1>2, <2>0, <2>4, Zenon
    <3> QED
      BY <1>2, <2>4, <3>1
  <2>5. CASE ~none(k) /\ ~one(k) /\ ~two(k) /\ ~blank(k)
    <3>1. At(e, k) = Behind(Token(t, k), e, k)
      BY <2>0, <2>5, Zenon
    <3> QED
      BY <2>5, <3>1
  <2> QED
    BY <2>1, <2>2, <2>3, <2>4, <2>5
<1>5. n \in Nat /\ n = Len(t) /\ 0 \in Nat /\ 0 <= n /\ begin \in 0..n
  OBVIOUS
<1>6. \A k \in 0..n : base[k] \in V => base[k].kind \in Kinds
  OBVIOUS
<1> HIDE DEF n, At, one, two, blank, none, D, base, next, V
<1>7. PICK f : IsWalk(f, 0, n, V, D, base, next)
  BY <1>3, <1>5, WalkExists
<1>8. f = [k \in 0..n |-> At(f, k)]
  <2>1. f = [k \in 0..n |-> f[k]]
    BY <1>7 DEF IsWalk
  <2>2. ASSUME NEW k \in 0..n PROVE f[k] = At(f, k)
    <3>1. f[k] = IF k \in D THEN base[k] ELSE f[next[k]]
      BY <1>7 DEF IsWalk
    <3> QED
      BY <1>4, <3>1, Zenon
  <2> QED
    BY <2>1, <2>2
<1>9. end = [k \in 0..n |-> At(end, k)]
  BY <1>8
<1> HIDE DEF end
<1>10. Ending(t, begin) = IF begin \in D THEN base[begin] ELSE Ending(t, next[begin])
  BY <1>1, <1>4, <1>5, <1>9
<1>11. CASE none(begin)
  <2>1. begin \in D /\ base[begin] = [kind |-> "EndOfLine", next |-> begin]
    BY <1>2, <1>5, <1>11 DEF D, base
  <2>2. Ending(t, begin) = [kind |-> "EndOfLine", next |-> begin]
    BY <1>10, <2>1
  <2> QED
    BY <1>2, <1>5, <1>11, <2>2 DEF none, blank, one, two, Breaks
<1>12. CASE blank(begin)
  <2>1. begin \notin D /\ next[begin] = begin + 1
    BY <1>5, <1>12 DEF D, next
  <2>2. Ending(t, begin) = Ending(t, begin + 1)
    BY <1>10, <2>1
  <2> QED
    BY <1>2, <1>5, <1>12, <2>2 DEF none, blank, one, two, Breaks
<1>13. CASE one(begin)
  <2>1. begin \in D /\ base[begin] = [kind |-> "Semicolon", next |-> begin + 1]
    BY <1>2, <1>5, <1>13 DEF D, base
  <2>2. Ending(t, begin) = [kind |-> "Semicolon", next |-> begin + 1]
    BY <1>10, <2>1
  <2>3. SeparatorWidth(t, begin) > 0
    BY <1>13 DEF one
  <2> QED
    BY <1>2, <1>5, <1>13, <2>2, <2>3 DEF none, blank, one, two, Breaks
<1>14. CASE two(begin)
  <2>1. begin \in D /\ base[begin] = [kind |-> "LogicalAnd", next |-> begin + 2]
    BY <1>2, <1>5, <1>14 DEF D, base
  <2>2. Ending(t, begin) = [kind |-> "LogicalAnd", next |-> begin + 2]
    BY <1>10, <2>1
  <2>3. SeparatorWidth(t, begin) > 0
    BY <1>14 DEF two
  <2> QED
    BY <1>2, <1>5, <1>14, <2>2, <2>3 DEF none, blank, one, two, Breaks
<1>15. CASE ~none(begin) /\ ~one(begin) /\ ~two(begin) /\ ~blank(begin)
  <2>1. CASE Token(t, begin).wellFormed
    <3>1. begin \notin D /\ next[begin] = Token(t, begin).next
      BY <1>5, <1>15, <2>1 DEF D, next
    <3>2. Ending(t, begin) = Ending(t, Token(t, begin).next)
      BY <1>10, <3>1
    <3> QED
      BY <1>15, <2>1, <3>2 DEF none, blank, one, two
  <2>2. CASE ~Token(t, begin).wellFormed
    <3>1. begin \in D /\ base[begin] = [kind |-> "ParseError", next |-> begin]
      BY <1>5, <1>15, <2>2 DEF D, base
    <3>2. Ending(t, begin) = [kind |-> "ParseError", next |-> begin]
      BY <1>10, <3>1
    <3> QED
      BY <1>15, <2>2, <3>2 DEF none, blank, one, two
  <2> QED
    BY <2>1, <2>2
<1> QED
  BY <1>11, <1>12, <1>13, <1>14, <1>15

(* The segment that begins at begin ends in the line, and the next one     *)
(* begins behind what was read.                                            *)
LEMMA EndingInLine ==
    ASSUME NEW t, Len(t) \in Nat, NEW begin \in 0..Len(t)
    PROVE  /\ Ending(t, begin).next \in begin..Len(t)
           /\ Ending(t, begin).kind \in Kinds
<1> DEFINE n == Len(t)
           Q == {k \in 0..n : Ending(t, k).next \in k..n /\ Ending(t, k).kind \in Kinds}
<1>1. ASSUME NEW k \in 0..n, \A j \in (k + 1)..n : j \in Q
      PROVE  k \in Q
  <2>1. ASSUME NEW j \in (k + 1)..n, Ending(t, k) = Ending(t, j)
        PROVE  k \in Q
    <3>1. Ending(t, j).next \in j..n /\ Ending(t, j).kind \in Kinds
      BY <1>1
    <3>2. j..n \subseteq k..n
      OBVIOUS
    <3> QED
      BY <2>1, <3>1, <3>2
  <2>2. CASE Ends(t, k)
    BY <2>2, EndingUnfolds DEF Kinds
  <2>3. CASE IsBlankAt(t, k)
    <3>1. k + 1 \in (k + 1)..n /\ Ending(t, k) = Ending(t, k + 1)
      BY <2>3, BytesInLine, EndingUnfolds
    <3> QED
      BY <2>1, <3>1
  <2>4. CASE SeparatorWidth(t, k) > 0
    <3>1. PICK width \in {1, 2} : width = SeparatorWidth(t, k) /\ k + width <= n
      BY <2>4, BytesInLine
    <3>2. Ending(t, k).next = k + width /\ Ending(t, k).kind \in Kinds
      BY <3>1, EndingUnfolds DEF Kinds
    <3> QED
      BY <3>1, <3>2
  <2>5. CASE ~Breaks(t, k) /\ Token(t, k).wellFormed
    <3>1. Token(t, k).next \in (k + 1)..n
      BY <2>5, TokenInLine DEF Breaks
    <3>2. Ending(t, k) = Ending(t, Token(t, k).next)
      BY <2>5, EndingUnfolds
    <3> QED
      BY <2>1, <3>1, <3>2
  <2>6. CASE ~Breaks(t, k) /\ ~Token(t, k).wellFormed
    BY <2>6, EndingUnfolds DEF Kinds
  <2> QED
    BY <2>2, <2>3, <2>4, <2>5, <2>6 DEF Breaks
<1> HIDE DEF Q
<1>2. \A k \in 0..n : k \in Q
  BY <1>1, Downward
<1> QED
  BY <1>2 DEF Q

(* The tokens of a segment, byte by byte.                                  *)
LEMMA TokensRead ==
    ASSUME NEW t, Len(t) \in Nat, NEW begin \in 0..Len(t)
    PROVE  /\ Tokens(t, begin) \in Seq({Token(t, k) : k \in 0..Len(t)})
           /\ Ends(t, begin) \/ SeparatorWidth(t, begin) > 0 => Tokens(t, begin) = <<>>
           /\ IsBlankAt(t, begin) => Tokens(t, begin) = Tokens(t, begin + 1)
           /\ ~Breaks(t, begin) =>
                 Tokens(t, begin) = IF Token(t, begin).wellFormed
                                    THEN <<Token(t, begin)>> \o Tokens(t, Token(t, begin).next)
                                    ELSE <<>>
<1> DEFINE n == Len(t)
           Onwards(token, r) == IF token.wellFormed THEN <<token>> \o r[token.next] ELSE <<>>
           At(r, k) == CASE IsBlankAt(t, k) -> r[k + 1]
                         [] Ends(t, k) \/ SeparatorWidth(t, k) > 0 -> <<>>
                         [] OTHER -> Onwards(Token(t, k), r)
           read == CHOOSE r : r = [k \in 0..n |-> At(r, k)]
           blank(k) == IsBlankAt(t, k)
           none(k) == Ends(t, k) \/ SeparatorWidth(t, k) > 0
           good(k) == Token(t, k).wellFormed
           D == {k \in 0..n : ~blank(k) /\ (none(k) \/ ~good(k))}
           V == Seq({Token(t, k) : k \in 0..n})
           base == [k \in 0..n |-> <<>>]
           next == [k \in 0..n |-> IF blank(k) THEN k + 1 ELSE Token(t, k).next]
           step == [k \in 0..n |-> [v \in V |-> IF blank(k) THEN v ELSE <<Token(t, k)>> \o v]]
<1>1. \A k : Tokens(t, k) = read[k]
  BY DEF Tokens
<1>2. ASSUME NEW k \in 0..n
      PROVE  blank(k) => ~none(k)
  <2>1. PICK width \in {0, 1, 2} : width = SeparatorWidth(t, k)
    BY BytesInLine
  <2>2. blank(k) => width # 1 /\ width # 2 /\ ~Ends(t, k)
    BY <2>1, OneKind
  <2> QED
    BY <2>1, <2>2
<1>3. ASSUME NEW k \in 0..n, k \notin D
      PROVE  next[k] \in (k + 1)..n
  <2>0. k \in Nat /\ n \in Nat /\ Len(t) = n
    OBVIOUS
  <2>1. CASE blank(k)
    <3>1. k < n
      BY <2>0, <2>1, BytesInLine
    <3> QED
      BY <2>1, <3>1
  <2>2. CASE ~blank(k)
    <3>1. Token(t, k).next \in (k + 1)..n
      BY <1>3, <2>0, <2>2, TokenInLine
    <3> QED
      BY <2>2, <3>1
  <2> QED
    BY <2>1, <2>2
<1>4. ASSUME NEW k \in 0..n, NEW v \in V
      PROVE  step[k][v] \in V /\ step[k][v] = IF blank(k) THEN v ELSE <<Token(t, k)>> \o v
  <2>1. <<Token(t, k)>> \o v \in V
    OBVIOUS
  <2> QED
    BY <2>1
<1>5. ASSUME NEW r, NEW k \in 0..n, k \notin D => r[next[k]] \in V
      PROVE  At(r, k) = Scanned(r, k, D, base, next, step)
  <2>0. At(r, k) = CASE blank(k) -> r[k + 1]
                     [] none(k) -> <<>>
                     [] OTHER -> Onwards(Token(t, k), r)
    OBVIOUS
  <2>1. k \notin D => step[k][r[next[k]]] =
                         IF blank(k) THEN r[next[k]] ELSE <<Token(t, k)>> \o r[next[k]]
    BY <1>4, <1>5
  <2> HIDE DEF At, blank, none, good, V, step
  <2>2. CASE blank(k)
    <3>1. At(r, k) = r[k + 1]
      BY <1>2, <2>0, <2>2, Zenon
    <3>2. k \notin D /\ next[k] = k + 1
      BY <2>2
    <3> QED
      BY <2>1, <2>2, <3>1, <3>2 DEF Scanned
  <2>3. CASE none(k)
    <3>1. At(r, k) = <<>>
      BY <1>2, <2>0, <2>3, Zenon
    <3>2. k \in D /\ base[k] = <<>>
      BY <1>2, <2>3
    <3> QED
      BY <3>1, <3>2 DEF Scanned
  <2>4. CASE ~blank(k) /\ ~none(k)
    <3>1. At(r, k) = IF good(k) THEN <<Token(t, k)>> \o r[Token(t, k).next] ELSE <<>>
      <4>1. At(r, k) = Onwards(Token(t, k), r)
        BY <2>0, <2>4, Zenon
      <4> QED
        BY <4>1, Zenon DEF good
    <3>2. next[k] = Token(t, k).next /\ (k \in D <=> ~good(k)) /\ base[k] = <<>>
      BY <2>4
    <3> QED
      BY <2>1, <2>4, <3>1, <3>2, Zenon DEF Scanned
  <2> QED
    BY <2>2, <2>3, <2>4
<1>6. n \in Nat /\ 0 \in Nat /\ 0 <= n /\ begin \in 0..n /\ n = Len(t)
  OBVIOUS
<1>7. Scannable(0, n, V, D, base, next, step)
  <2>1. \A k \in 0..n : base[k] \in V
    OBVIOUS
  <2> HIDE DEF n, D, V, base, next, step
  <2> QED
    BY <1>3, <1>4, <2>1 DEF Scannable
<1>8. V = Seq({Token(t, k) : k \in 0..n})
  OBVIOUS
<1> HIDE DEF n, At, D, V, base, next, step
<1>9. PICK f : IsScan(f, 0, n, V, D, base, next, step)
  BY <1>6, <1>7, ScanExists
<1>10. f = [k \in 0..n |-> At(f, k)]
  <2>1. f = [k \in 0..n |-> f[k]] /\ f \in [0..n -> V]
    BY <1>9 DEF IsScan
  <2>2. ASSUME NEW k \in 0..n PROVE f[k] = At(f, k)
    <3>1. k \notin D => f[next[k]] \in V
      <4>1. k \notin D => next[k] \in 0..n
        BY <1>3, <1>6
      <4> QED
        BY <2>1, <4>1
    <3> QED
      BY <1>5, <1>9, <3>1 DEF IsScan
  <2> QED
    BY <2>1, <2>2
<1>11. read = [k \in 0..n |-> At(read, k)]
  BY <1>10
<1> HIDE DEF read
<1>12. ASSUME NEW k \in 0..n PROVE read[k] \in V
  <2> DEFINE Q == {i \in 0..n : read[i] \in V}
  <2>1. ASSUME NEW i \in 0..n, \A j \in (i + 1)..n : j \in Q
        PROVE  i \in Q
    <3>1. i \notin D => next[i] \in (i + 1)..n /\ read[next[i]] \in V
      BY <1>3, <2>1
    <3>2. read[i] = Scanned(read, i, D, base, next, step)
      BY <1>5, <1>11, <3>1
    <3>3. CASE i \in D
      BY <1>7, <3>2, <3>3 DEF Scanned, Scannable
    <3>4. CASE i \notin D
      BY <1>7, <3>1, <3>2, <3>4 DEF Scanned, Scannable
    <3> QED
      BY <3>3, <3>4
  <2> HIDE DEF Q
  <2>2. \A i \in 0..n : i \in Q
    BY <1>6, <2>1, Downward
  <2> QED
    BY <1>12, <2>2 DEF Q
<1>13. ASSUME NEW k \in 0..n PROVE read[k] = Scanned(read, k, D, base, next, step)
  <2>1. k \notin D => read[next[k]] \in V
    <3>1. k \notin D => next[k] \in 0..n
      BY <1>3, <1>6
    <3> QED
      BY <1>12, <3>1
  <2> QED
    BY <1>5, <1>11, <2>1
<1>14. CASE blank(begin)
  <2>1. begin \notin D /\ next[begin] = begin + 1
    BY <1>6, <1>14 DEF D, next
  <2>2. read[begin + 1] \in V
    BY <1>3, <1>6, <1>12, <2>1
  <2>3. read[begin] = read[begin + 1]
    BY ZenonT(40), <1>4, <1>6, <1>13, <1>14, <2>1, <2>2 DEF Scanned
  <2> QED
    BY <1>1, <1>2, <1>6, <1>8, <1>12, <1>14, <2>3 DEF blank, none, Breaks
<1>15. CASE none(begin)
  <2>1. begin \in D /\ base[begin] = <<>>
    BY <1>2, <1>6, <1>15 DEF D, base
  <2>2. read[begin] = <<>>
    BY <1>6, <1>13, <2>1 DEF Scanned
  <2> QED
    BY <1>1, <1>2, <1>6, <1>8, <1>12, <1>15, <2>2 DEF blank, none, Breaks
<1>16. CASE ~blank(begin) /\ ~none(begin)
  <2>1. CASE good(begin)
    <3>1. begin \notin D /\ next[begin] = Token(t, begin).next
      BY <1>6, <1>16, <2>1 DEF D, next
    <3>2. read[next[begin]] \in V
      BY <1>3, <1>6, <1>12, <3>1
    <3>3. read[begin] = <<Token(t, begin)>> \o read[next[begin]]
      BY <1>4, <1>6, <1>13, <1>16, <3>1, <3>2 DEF Scanned
    <3>4. Tokens(t, begin) = <<Token(t, begin)>> \o Tokens(t, Token(t, begin).next)
      BY <1>1, <3>1, <3>3
    <3> QED
      BY <1>1, <1>6, <1>8, <1>12, <1>16, <2>1, <3>4 DEF blank, none, good
  <2>2. CASE ~good(begin)
    <3>1. begin \in D /\ base[begin] = <<>>
      BY <1>6, <1>16, <2>2 DEF D, base
    <3>2. Tokens(t, begin) = <<>>
      BY <1>1, <1>6, <1>13, <3>1 DEF Scanned
    <3> QED
      BY <1>1, <1>6, <1>8, <1>12, <1>16, <2>2, <3>2 DEF blank, none, good
  <2> QED
    BY <2>1, <2>2
<1> QED
  BY <1>14, <1>15, <1>16

LEMMA TokensUnfold ==
    ASSUME NEW t, Len(t) \in Nat, NEW begin \in 0..Len(t)
    PROVE  /\ Ends(t, begin) \/ SeparatorWidth(t, begin) > 0 => Tokens(t, begin) = <<>>
           /\ IsBlankAt(t, begin) => Tokens(t, begin) = Tokens(t, begin + 1)
           /\ ~Breaks(t, begin) =>
                 Tokens(t, begin) = IF Token(t, begin).wellFormed
                                    THEN <<Token(t, begin)>> \o Tokens(t, Token(t, begin).next)
                                    ELSE <<>>
  BY TokensRead

(* They are finitely many.                                                 *)
LEMMA TokensInLine ==
    ASSUME NEW t, Len(t) \in Nat
    PROVE  \E S : \A begin \in 0..Len(t) : Tokens(t, begin) \in Seq(S)
  BY TokensRead

(* A token is a part of the line before what is read next, which is not    *)
(* another token.                                                          *)
Place(token, t, k) ==
    /\ token.first \in Nat /\ Len(token.text) \in Nat /\ token.next \in (k + 1)..Len(t)
    /\ k <= token.first /\ token.first + Len(token.text) <= token.next
    /\ token.text = SubSeq(t, token.first + 1, token.first + Len(token.text))
    /\ \A p \in token.first..(token.first + Len(token.text) - 1) : ~Ends(t, p)
    /\ Breaks(t, token.next)

LEMMA PartLength ==
    ASSUME NEW S, NEW t \in Seq(S), NEW a \in Nat, NEW b \in Nat, a <= b, b <= Len(t)
    PROVE  Len(SubSeq(t, a + 1, b)) = b - a
<1>1. a + 1 \in Int /\ b \in Int /\ \A i \in (a + 1)..b : t[i] \in S
  OBVIOUS
<1>2. Len(SubSeq(t, a + 1, b)) = IF a + 1 <= b THEN b - (a + 1) + 1 ELSE 0
  BY <1>1, SubSeqProperties
<1> QED
  BY <1>2

LEMMA TokenPlace ==
    ASSUME NEW S, NEW t \in Seq(S), NEW k \in 0..Len(t), ~Breaks(t, k), Token(t, k).wellFormed
    PROVE  Place(Token(t, k), t, k)
<1>1. Len(t) \in Nat /\ k < Len(t) /\ k \in Nat /\ ~Ends(t, k)
  BY DEF Breaks, Ends
<1>2. Token(t, k).next \in (k + 1)..Len(t)
  BY <1>1, TokenInLine
<1>3. CASE IsQuoteAt(t, k)
  <2>1. PICK stop : /\ IsFirst(stop, k + 1, Len(t), Closing(t, k))
                    /\ Token(t, k) = QuotedToken(t, k, stop)
    BY <1>1, <1>3, QuotedStops
  <2>2. stop \in (k + 1)..Len(t) /\ \A j \in (k + 1)..(stop - 1) : j \notin Closing(t, k)
    BY <2>1 DEF IsFirst
  <2>3. /\ Token(t, k).first = k + 1 /\ Token(t, k).next = stop + 1
        /\ Token(t, k).text = SubSeq(t, k + 2, stop)
    <3>1. PICK text : text = SubSeq(t, k + 2, stop)
      OBVIOUS
    <3>2. PICK good : QuotedToken(t, k, stop) = [first |-> k + 1, text |-> text,
                                                 next |-> stop + 1, wellFormed |-> good]
      BY <3>1, Zenon DEF QuotedToken
    <3>3. /\ QuotedToken(t, k, stop).first = k + 1 /\ QuotedToken(t, k, stop).next = stop + 1
          /\ QuotedToken(t, k, stop).text = text
      BY <3>2
    <3> QED
      BY <2>1, <3>1, <3>3
  <2>4. QuotedToken(t, k, stop).wellFormed => Breaks(t, stop + 1)
    BY Zenon DEF QuotedToken
  <2>5. Breaks(t, Token(t, k).next)
    BY <2>1, <2>3, <2>4
  <2>6. Len(SubSeq(t, k + 2, stop)) = stop - (k + 1)
    <3>1. k + 1 \in Nat /\ stop \in Nat /\ k + 1 <= stop /\ stop <= Len(t) /\ k + 2 = (k + 1) + 1
      BY <1>1, <2>2
    <3>2. Len(SubSeq(t, (k + 1) + 1, stop)) = stop - (k + 1)
      BY <3>1, PartLength
    <3> QED
      BY <3>1, <3>2
  <2>7. PICK l \in Nat : /\ l = Len(Token(t, k).text) /\ l = stop - (k + 1)
                         /\ k + 1 + l = stop /\ (k + 1) + 1 = k + 2
    BY <1>1, <2>2, <2>3, <2>6
  <2>8. ASSUME NEW p \in (k + 1)..(k + 1 + l - 1) PROVE ~Ends(t, p)
    <3>1. p \in (k + 1)..(stop - 1) /\ p \in Nat
      BY <1>1, <2>7
    <3>2. p \notin Closing(t, k)
      BY <2>2, <3>1
    <3> QED
      BY <3>1, <3>2 DEF Closing
  <2>9. k + 1 \in Nat /\ k <= k + 1 /\ (k + 1) + l <= stop + 1
    BY <1>1, <2>2, <2>7
  <2>10. Token(t, k).text = SubSeq(t, (k + 1) + 1, (k + 1) + l)
    BY <2>3, <2>7
  <2> QED
    BY <1>2, <2>3, <2>5, <2>7, <2>8, <2>9, <2>10 DEF Place
<1>4. CASE ~IsQuoteAt(t, k)
  <2>1. PICK stop : /\ IsFirst(stop, k + 1, Len(t), Breaking(t))
                    /\ Token(t, k) = BareToken(t, k, stop)
    BY <1>1, <1>4, BareStops
  <2>2. stop \in (k + 1)..Len(t) /\ stop \in Breaking(t)
    BY <2>1 DEF IsFirst
  <2>3. /\ Token(t, k).first = k /\ Token(t, k).next = stop
        /\ Token(t, k).text = SubSeq(t, k + 1, stop)
    <3>1. PICK text : text = SubSeq(t, k + 1, stop)
      OBVIOUS
    <3>2. PICK good : BareToken(t, k, stop) = [first |-> k, text |-> text,
                                               next |-> stop, wellFormed |-> good]
      BY <3>1, Zenon DEF BareToken
    <3>3. /\ BareToken(t, k, stop).first = k /\ BareToken(t, k, stop).next = stop
          /\ BareToken(t, k, stop).text = text
      BY <3>2
    <3> QED
      BY <2>1, <3>1, <3>3
  <2>4. BareToken(t, k, stop).wellFormed => ~IsQuoteAt(t, stop)
    BY Zenon DEF BareToken
  <2>5. Breaks(t, Token(t, k).next)
    BY <2>1, <2>2, <2>3, <2>4 DEF Breaking
  <2>6. Len(SubSeq(t, k + 1, stop)) = stop - k
    <3>1. stop \in Nat /\ k <= stop /\ stop <= Len(t)
      BY <1>1, <2>2
    <3> QED
      BY <1>1, <3>1, PartLength
  <2>7. PICK l \in Nat : l = Len(Token(t, k).text) /\ l = stop - k /\ k + l = stop
    BY <1>1, <2>2, <2>3, <2>6
  <2>8. ASSUME NEW p \in k..(k + l - 1) PROVE ~Ends(t, p)
    <3>1. p = k \/ p \in (k + 1)..(stop - 1)
      BY <1>1, <2>7
    <3>2. IsFirst(stop, k + 1, Len(t), Breaking(t))
      BY <2>1
    <3>3. ASSUME p \in (k + 1)..(stop - 1) PROVE ~Ends(t, p)
      <4>1. p \notin Breaking(t) /\ p \in Nat
        BY <1>1, <3>2, <3>3 DEF IsFirst
      <4> QED
        BY <4>1 DEF Breaking, Breaks
    <3> QED
      BY <1>1, <3>1, <3>3
  <2>9. k \in Nat /\ k <= k /\ k + l <= stop
    BY <1>1, <2>2, <2>7
  <2>10. Token(t, k).text = SubSeq(t, k + 1, k + l)
    BY <2>3, <2>7
  <2> QED
    BY <1>2, <2>3, <2>5, <2>7, <2>8, <2>9, <2>10 DEF Place
<1> QED
  BY <1>3, <1>4

(* The tokens of a segment, one behind the other with something between    *)
(* them, and the separator or the end of the line behind them.             *)
Placed(t, k, tokens, ending) ==
    /\ \A i \in 1..Len(tokens) :
          /\ tokens[i].first \in Nat /\ Len(tokens[i].text) \in Nat
          /\ k <= tokens[i].first /\ (Breaks(t, k) => k < tokens[i].first)
          /\ Len(tokens[i].text) > 0 => ~Ends(t, tokens[i].first)
          /\ tokens[i].first + Len(tokens[i].text) <= ending.next
          /\ ending.kind # "EndOfLine" =>
                tokens[i].first + Len(tokens[i].text) < ending.next
    /\ \A i, j \in 1..Len(tokens) :
          i < j => tokens[i].first + Len(tokens[i].text) < tokens[j].first
    /\ ending.next \in k..Len(t)
    /\ ending.kind = "EndOfLine" => Ends(t, ending.next)
    /\ ending.kind # "EndOfLine" => k < ending.next

LEMMA NoTokensPlaced ==
    ASSUME NEW t, NEW k, NEW ending, ending.next \in k..Len(t),
           ending.kind = "EndOfLine" => Ends(t, ending.next),
           ending.kind # "EndOfLine" => k < ending.next
    PROVE  Placed(t, k, <<>>, ending)
<1>1. Len(<<>>) = 0 /\ 1..0 = {}
  OBVIOUS
<1> QED
  BY <1>1 DEF Placed

LEMMA AfterBlankPlaced ==
    ASSUME NEW t, Len(t) \in Nat, NEW k \in 0..Len(t), NEW tokens, NEW ending,
           Placed(t, k + 1, tokens, ending)
    PROVE  Placed(t, k, tokens, ending)
<1>1. \A i \in 1..Len(tokens) : tokens[i].first \in Nat /\ k < tokens[i].first
  BY DEF Placed
<1>2. ending.next \in k..Len(t) /\ k < ending.next
  BY DEF Placed
<1> QED
  BY <1>1, <1>2 DEF Placed

LEMMA TokenAndRestPlaced ==
    ASSUME NEW t, Len(t) \in Nat, NEW k \in 0..Len(t), ~Breaks(t, k), NEW token, Place(token, t, k),
           NEW S, NEW rest \in Seq(S), NEW ending, Placed(t, token.next, rest, ending)
    PROVE  Placed(t, k, <<token>> \o rest, ending)
<1> DEFINE tokens == <<token>> \o rest
<1>1. PICK first \in Nat, length \in Nat, next \in Nat :
        /\ first = token.first /\ length = Len(token.text) /\ next = token.next
        /\ k <= first /\ first + length <= next /\ k < next /\ next <= Len(t)
  BY DEF Place
<1>2. Len(tokens) = 1 + Len(rest) /\ Len(rest) \in Nat /\ tokens[1] = token
  OBVIOUS
<1>3. \A i \in 2..Len(tokens) : i - 1 \in 1..Len(rest) /\ tokens[i] = rest[i - 1]
  OBVIOUS
<1> HIDE DEF tokens
<1>4. /\ ending.next \in next..Len(t)
      /\ ending.kind = "EndOfLine" => Ends(t, ending.next)
      /\ ending.kind # "EndOfLine" => next < ending.next
  BY <1>1 DEF Placed
<1>5. PICK e \in Nat : e = ending.next /\ next <= e /\ e <= Len(t)
                       /\ (ending.kind # "EndOfLine" => next < e)
  BY <1>1, <1>4
<1>6. ASSUME NEW i \in 2..Len(tokens)
      PROVE  /\ tokens[i].first \in Nat /\ Len(tokens[i].text) \in Nat
             /\ next < tokens[i].first
             /\ Len(tokens[i].text) > 0 => ~Ends(t, tokens[i].first)
             /\ tokens[i].first + Len(tokens[i].text) <= ending.next
             /\ ending.kind # "EndOfLine" =>
                   tokens[i].first + Len(tokens[i].text) < ending.next
  BY <1>1, <1>3 DEF Placed, Place
<1>7. ASSUME NEW i \in 1..Len(tokens)
      PROVE  /\ tokens[i].first \in Nat /\ Len(tokens[i].text) \in Nat
             /\ k <= tokens[i].first
             /\ Len(tokens[i].text) > 0 => ~Ends(t, tokens[i].first)
             /\ tokens[i].first + Len(tokens[i].text) <= ending.next
             /\ ending.kind # "EndOfLine" =>
                   tokens[i].first + Len(tokens[i].text) < ending.next
  <2>1. i = 1 \/ i \in 2..Len(tokens)
    BY <1>2
  <2>2. CASE i = 1
    <3>1. first + length <= e
      BY SMTT(30), <1>1, <1>5
    <3>2. ending.kind # "EndOfLine" => first + length < e
      BY SMTT(30), <1>1, <1>5
    <3>3. /\ token.first \in Nat /\ Len(token.text) \in Nat /\ k <= token.first
          /\ Len(token.text) > 0 => ~Ends(t, token.first)
      <4>1. token.first \in Nat /\ Len(token.text) \in Nat /\ k <= token.first
        BY DEF Place
      <4>2. Len(token.text) > 0 =>
               token.first \in token.first..(token.first + Len(token.text) - 1)
        BY <4>1
      <4> QED
        BY <4>1, <4>2 DEF Place
    <3>4. /\ token.first + Len(token.text) <= ending.next
          /\ ending.kind # "EndOfLine" => token.first + Len(token.text) < ending.next
      BY <1>1, <1>5, <3>1, <3>2
    <3> QED
      BY <1>2, <2>2, <3>3, <3>4
  <2>3. CASE i \in 2..Len(tokens)
    <3>1. k <= tokens[i].first
      BY <1>1, <1>6, <2>3
    <3> QED
      BY <1>6, <2>3, <3>1
  <2> QED
    BY <2>1, <2>2, <2>3
<1>8. ASSUME NEW i \in 1..Len(tokens), NEW j \in 1..Len(tokens), i < j
      PROVE  tokens[i].first + Len(tokens[i].text) < tokens[j].first
  <2>1. j \in 2..Len(tokens) /\ (i = 1 \/ i \in 2..Len(tokens))
    BY <1>2, <1>8
  <2>2. CASE i = 1
    <3>1. PICK f \in Nat : f = tokens[j].first /\ next < f
      BY <1>6, <2>1
    <3>2. \A a, b, c, d \in Nat : a + b <= c /\ c < d => a + b < d
      OBVIOUS
    <3>3. first + length <= next
      BY <1>1
    <3>4. first + length < f
      BY <3>1, <3>2, <3>3
    <3> QED
      BY <1>1, <1>2, <2>2, <3>1, <3>4
  <2>3. CASE i \in 2..Len(tokens)
    <3>1. /\ i - 1 \in 1..Len(rest) /\ j - 1 \in 1..Len(rest) /\ i - 1 < j - 1
          /\ tokens[i] = rest[i - 1] /\ tokens[j] = rest[j - 1]
      BY <1>3, <1>8, <2>1, <2>3
    <3> QED
      BY <3>1 DEF Placed
  <2> QED
    BY <2>1, <2>2, <2>3
<1>9. ending.next \in k..Len(t) /\ k < ending.next
  BY <1>1, <1>5
<1> QED
  BY <1>4, <1>7, <1>8, <1>9 DEF Placed, tokens

LEMMA TokensPlaced ==
    ASSUME NEW S, NEW t \in Seq(S), NEW begin \in 0..Len(t), Ending(t, begin).kind # "ParseError"
    PROVE  Placed(t, begin, Tokens(t, begin), Ending(t, begin))
<1> DEFINE n == Len(t)
           Q == {k \in 0..n : Ending(t, k).kind # "ParseError" =>
                                 Placed(t, k, Tokens(t, k), Ending(t, k))}
<1>0. n \in Nat /\ Len(t) \in Nat
  OBVIOUS
<1>1. ASSUME NEW k \in 0..n, \A j \in (k + 1)..n : j \in Q
      PROVE  k \in Q
  <2> SUFFICES ASSUME Ending(t, k).kind # "ParseError"
               PROVE  Placed(t, k, Tokens(t, k), Ending(t, k))
    OBVIOUS
  <2>0. k \in Nat /\ k <= n
    OBVIOUS
  <2>1. CASE Ends(t, k)
    <3>1. Ending(t, k) = [kind |-> "EndOfLine", next |-> k] /\ Tokens(t, k) = <<>>
      BY <1>0, <2>1, EndingUnfolds, TokensUnfold
    <3> QED
      BY <2>0, <2>1, <3>1, NoTokensPlaced
  <2>2. CASE SeparatorWidth(t, k) > 0
    <3>1. Tokens(t, k) = <<>>
      BY <1>0, <2>2, TokensUnfold
    <3>2. PICK width \in {1, 2} : width = SeparatorWidth(t, k) /\ k + width <= n
      BY <2>0, <2>2, BytesInLine
    <3>3. Ending(t, k).next = k + width /\ Ending(t, k).kind # "EndOfLine"
      BY <1>0, <3>2, EndingUnfolds
    <3>4. Ending(t, k).next \in k..n /\ k < Ending(t, k).next
      BY <2>0, <3>2, <3>3
    <3> QED
      BY <3>1, <3>3, <3>4, NoTokensPlaced
  <2>3. CASE IsBlankAt(t, k)
    <3>1. k + 1 \in (k + 1)..n
      BY <2>0, <2>3, BytesInLine
    <3>2. Ending(t, k) = Ending(t, k + 1) /\ Tokens(t, k) = Tokens(t, k + 1)
      BY <1>0, <2>3, EndingUnfolds, TokensUnfold
    <3>3. Placed(t, k + 1, Tokens(t, k), Ending(t, k))
      BY <1>1, <3>1, <3>2
    <3> QED
      BY <3>3, AfterBlankPlaced
  <2>4. CASE ~Breaks(t, k)
    <3>1. Token(t, k).wellFormed
      BY <1>0, <2>4, EndingUnfolds
    <3>2. PICK token : token = Token(t, k) /\ Place(token, t, k)
      BY <2>4, <3>1, TokenPlace
    <3>3. token.next \in (k + 1)..n
      BY <3>2 DEF Place
    <3>4. /\ Ending(t, k) = Ending(t, token.next)
          /\ Tokens(t, k) = <<token>> \o Tokens(t, token.next)
      BY <1>0, <2>4, <3>1, <3>2, EndingUnfolds, TokensUnfold
    <3>5. Placed(t, token.next, Tokens(t, token.next), Ending(t, k))
      BY <1>1, <3>3, <3>4
    <3>6. PICK U : Tokens(t, token.next) \in Seq(U)
      <4>1. token.next \in 0..n
        BY <3>3
      <4> QED
        BY <1>0, <4>1, TokensInLine
    <3> QED
      BY <2>4, <3>2, <3>4, <3>5, <3>6, TokenAndRestPlaced
  <2> QED
    BY <2>1, <2>2, <2>3, <2>4 DEF Breaks
<1> HIDE DEF Q
<1>2. \A k \in 0..n : k \in Q
  BY <1>0, <1>1, Downward
<1> QED
  BY <1>2 DEF Q

(* Parsing a segment reads on and overwrites nothing behind what it read.  *)
LEMMA SegmentInLine ==
    ASSUME NEW t, Len(t) \in Nat, NEW from \in 0..Len(t)
    PROVE  /\ Segment(t, from).next \in SegmentBegin(t, from)..Len(t)
           /\ Segment(t, from).kind \in Kinds
           /\ Len(Segment(t, from).tokens) \in Nat
           /\ Erased(t, from) \subseteq from..(Segment(t, from).next - 1)
<1> DEFINE begin == SegmentBegin(t, from)
           ending == Ending(t, begin)
<1>1. begin \in from..Len(t)
  BY SegmentBeginInLine
<1>2. ~(from > Len(t))
  OBVIOUS
<1>3. Segment(t, from) = SegmentWith(ending, Tokens(t, begin))
  BY <1>2 DEF Segment
<1>4. Segment(t, from).next = ending.next /\ Segment(t, from).kind = ending.kind
  BY <1>3 DEF SegmentWith
<1>5. ending.next \in begin..Len(t) /\ ending.kind \in Kinds
  <2> HIDE DEF begin
  <2>1. begin \in 0..Len(t)
    BY <1>1
  <2> QED
    BY <2>1, EndingInLine
<1>6. Erased(t, from) \subseteq from..(ending.next - 1)
  BY DEF Erased
<1>7. Len(Segment(t, from).tokens) \in Nat
  <2> DEFINE tokens == Tokens(t, begin)
             S == {Token(t, k) : k \in 0..Len(t)}
  <2>1. tokens \in Seq(S)
    <3>1. PICK b : b = begin
      OBVIOUS
    <3>2. b \in 0..Len(t)
      BY <1>1, <3>1
    <3>3. Tokens(t, b) \in Seq(S)
      BY <3>2, TokensRead
    <3> QED
      BY <3>1, <3>3
  <2> HIDE DEF begin, tokens, S
  <2>2. Len(tokens) \in Nat
    BY <2>1
  <2>3. Segment(t, from).tokens = IF ending.kind = "ParseError" THEN <<>>
                                  ELSE [i \in 1..Len(tokens) |-> tokens[i].text]
    BY <1>3 DEF SegmentWith, tokens
  <2>4. PICK m \in Nat : m = Len(tokens)
    BY <2>2
  <2>5. Len([i \in 1..m |-> tokens[i].text]) = m
    OBVIOUS
  <2>6. Len(<<>>) = 0
    OBVIOUS
  <2> QED
    BY <2>3, <2>4, <2>5, <2>6
<1> QED
  BY <1>4, <1>5, <1>6, <1>7

(* Where the tokens of a segment are found again once it has been parsed,  *)
(* if none is empty: each begins at a byte that was kept, in the segment,  *)
(* and behind one that was overwritten; so does what follows the segment.  *)
StandAt(first, t, from) ==
    LET begin == SegmentBegin(t, from)
        next == Segment(t, from).next
        count == Len(Segment(t, from).tokens)
    IN
    /\ \A i \in 1..count :
          /\ first[i] \in begin..(next - 1) /\ ~Ends(t, first[i]) /\ first[i] \notin Erased(t, from)
          /\ first[i] = begin \/ first[i] - 1 \in Erased(t, from)
    /\ \A i, j \in 1..count : i < j => first[i] < first[j]
    /\ Ends(t, next) \/ (begin < next /\ next - 1 \in Erased(t, from))

LEMMA SegmentPlaced ==
    ASSUME NEW S, NEW t \in Seq(S), NEW from \in 0..Len(t), Segment(t, from).kind # "ParseError",
           \A i \in 1..Len(Segment(t, from).tokens) : Len(Segment(t, from).tokens[i]) > 0
    PROVE  \E first : StandAt(first, t, from)
<1>0. Len(t) \in Nat
  OBVIOUS
<1>1. PICK begin \in from..Len(t) : begin = SegmentBegin(t, from)
  BY <1>0, SegmentBeginInLine
<1>2. begin \in 0..Len(t) /\ begin \in Nat /\ from \in Nat
  BY <1>0, <1>1
<1>3. PICK tokens, U : tokens = Tokens(t, begin) /\ tokens \in Seq(U)
  <2>1. PICK U : Tokens(t, begin) \in Seq(U)
    BY <1>0, <1>2, TokensInLine
  <2> QED
    BY <2>1
<1>4. PICK ending : ending = Ending(t, begin)
  OBVIOUS
<1>5. Segment(t, from) = SegmentWith(ending, tokens)
  <2>1. ~(from > Len(t))
    BY <1>0
  <2> QED
    BY <1>1, <1>3, <1>4, <2>1 DEF Segment
<1>6. /\ Segment(t, from).next = ending.next /\ ending.kind # "ParseError"
      /\ Segment(t, from).tokens = [i \in 1..Len(tokens) |-> tokens[i].text]
  BY <1>5 DEF SegmentWith
<1>7. PICK count \in Nat : count = Len(tokens) /\ count = Len(Segment(t, from).tokens)
  <2>1. PICK n \in Nat : n = Len(tokens)
    BY <1>3
  <2>2. Len([i \in 1..n |-> tokens[i].text]) = n
    OBVIOUS
  <2> QED
    BY <1>6, <2>1, <2>2
<1>8. \A i \in 1..count : Len(tokens[i].text) > 0
  BY <1>6, <1>7
<1>9. Placed(t, begin, tokens, ending)
  BY <1>2, <1>3, <1>4, <1>6, TokensPlaced
<1>10. PICK next \in begin..Len(t) : next = ending.next
  BY <1>9 DEF Placed
<1>11. next \in Nat /\ begin <= next
  BY <1>2, <1>10
<1> DEFINE first == [i \in 1..count |-> tokens[i].first]
           behind == [i \in 1..count |-> tokens[i].first + Len(tokens[i].text)]
<1>12. ASSUME NEW i \in 1..count
       PROVE  /\ first[i] \in Nat /\ behind[i] \in Nat /\ begin <= first[i]
              /\ first[i] < behind[i] /\ behind[i] <= next
              /\ ending.kind # "EndOfLine" => behind[i] < next
              /\ ~Ends(t, first[i])
              /\ \A j \in 1..count : i < j => behind[i] < first[j]
  <2>1. first[i] = tokens[i].first /\ behind[i] = tokens[i].first + Len(tokens[i].text)
    OBVIOUS
  <2>2. \A j \in 1..count : first[j] = tokens[j].first
    OBVIOUS
  <2> HIDE DEF first, behind
  <2>3. /\ tokens[i].first \in Nat /\ Len(tokens[i].text) \in Nat /\ begin <= tokens[i].first
        /\ Len(tokens[i].text) > 0 => ~Ends(t, tokens[i].first)
        /\ tokens[i].first + Len(tokens[i].text) <= next
        /\ ending.kind # "EndOfLine" => tokens[i].first + Len(tokens[i].text) < next
    BY <1>7, <1>9, <1>10 DEF Placed
  <2>4. Len(tokens[i].text) > 0
    BY <1>8
  <2>5. \A j \in 1..count : i < j => behind[i] < first[j]
    BY <1>7, <1>9, <2>1, <2>2 DEF Placed
  <2> QED
    BY SMTT(30), <2>1, <2>3, <2>4, <2>5
<1>13. \A k : k \in Erased(t, from) <=>
                 /\ k \in from..(next - 1)
                 /\ \A i \in 1..count : k \notin first[i]..(behind[i] - 1)
  <2> DEFINE Kept(token) == token.first..(token.first + Len(token.text) - 1)
  <2>1. Erased(t, from) = (from..(next - 1)) \ UNION {Kept(tokens[i]) : i \in 1..count}
    <3>1. Erased(t, from) = (from..(Ending(t, SegmentBegin(t, from)).next - 1)) \
              UNION {Kept(Tokens(t, SegmentBegin(t, from))[i]) :
                        i \in 1..Len(Tokens(t, SegmentBegin(t, from)))}
      BY Zenon DEF Erased
    <3> HIDE DEF Kept
    <3> QED
      BY <1>1, <1>3, <1>4, <1>7, <1>10, <3>1, Zenon
  <2>2. \A i \in 1..count : first[i] = tokens[i].first
                          /\ behind[i] = tokens[i].first + Len(tokens[i].text)
    OBVIOUS
  <2> HIDE DEF first, behind
  <2>3. ASSUME NEW i \in 1..count PROVE Kept(tokens[i]) = first[i]..(behind[i] - 1)
    <3>1. first[i] = tokens[i].first /\ behind[i] = tokens[i].first + Len(tokens[i].text)
      BY <2>2
    <3>2. PICK a \in Nat, l \in Nat : a = tokens[i].first /\ l = Len(tokens[i].text)
      BY <1>7, <1>9 DEF Placed
    <3>3. first[i] = a /\ behind[i] = a + l /\ Kept(tokens[i]) = a..(a + l - 1)
      BY <3>1, <3>2
    <3> QED
      BY <3>3
  <2> HIDE DEF Kept
  <2> QED
    BY <2>1, <2>3
<1> HIDE DEF first, behind
<1>14. ASSUME NEW i \in 1..count
       PROVE  /\ first[i] \in begin..(next - 1) /\ ~Ends(t, first[i])
              /\ first[i] \notin Erased(t, from)
              /\ first[i] = begin \/ first[i] - 1 \in Erased(t, from)
  <2>1. first[i] \in begin..(next - 1) /\ first[i] \in first[i]..(behind[i] - 1)
    BY <1>2, <1>11, <1>12
  <2>2. ASSUME first[i] # begin PROVE first[i] - 1 \in Erased(t, from)
    <3>1. first[i] - 1 \in from..(next - 1)
      BY <1>1, <1>2, <1>11, <1>12, <2>1, <2>2
    <3>2. ASSUME NEW j \in 1..count, first[i] - 1 \in first[j]..(behind[j] - 1)
          PROVE  FALSE
      <4>1. first[j] < first[i] /\ first[i] <= behind[j]
        BY <1>12, <3>2
      <4>2. i < j \/ i = j \/ j < i
        OBVIOUS
      <4>3. ~(i < j)
        <5> SUFFICES ASSUME i < j PROVE FALSE
          OBVIOUS
        <5>1. first[i] < behind[i] /\ behind[i] < first[j]
          BY <1>12
        <5> QED
          BY <1>12, <4>1, <5>1
      <4>4. i # j
        BY <1>12, <4>1
      <4>5. ~(j < i)
        <5> SUFFICES ASSUME j < i PROVE FALSE
          OBVIOUS
        <5>1. behind[j] < first[i]
          BY <1>12
        <5> QED
          BY <1>12, <4>1, <5>1
      <4> QED
        BY <4>2, <4>3, <4>4, <4>5
    <3> QED
      BY <1>13, <3>1, <3>2
  <2> QED
    BY <1>12, <1>13, <2>1, <2>2
<1>15. ASSUME NEW i \in 1..count, NEW j \in 1..count, i < j
       PROVE  first[i] < first[j]
  BY SMTT(30), <1>12, <1>15
<1>16. Ends(t, next) \/ (begin < next /\ next - 1 \in Erased(t, from))
  <2>1. CASE ending.kind = "EndOfLine"
    BY <1>9, <1>10, <2>1 DEF Placed
  <2>2. CASE ending.kind # "EndOfLine"
    <3>1. begin < next
      BY <1>9, <1>10, <2>2 DEF Placed
    <3>2. next - 1 \in from..(next - 1)
      BY <1>1, <1>2, <1>11, <3>1
    <3>3. \A i \in 1..count : next - 1 \notin first[i]..(behind[i] - 1)
      BY <1>11, <1>12, <2>2
    <3> QED
      BY <1>13, <3>1, <3>2, <3>3
  <2> QED
    BY <2>1, <2>2
<1>17. StandAt(first, t, from)
  BY <1>1, <1>6, <1>7, <1>10, <1>14, <1>15, <1>16 DEF StandAt
<1> QED
  BY <1>17

(* A call of the parser that began at from has read up to r: the tokens of *)
(* d, whose bytes the array b still holds, and nothing else before r.      *)
KeptBytes(token) == token.first..(token.first + Len(token.text) - 1)
Held(d, k) == \E m \in 1..Len(d) : k \in KeptBytes(d[m])
TokensIn(t) == {Token(t, k) : k \in 0..Len(t)}

Reads(d, t, from, begin, r, b) ==
    /\ d \in Seq(TokensIn(t)) /\ begin \in from..Len(t) /\ r \in begin..Len(t)
    /\ Tokens(t, begin) = d \o Tokens(t, r)
    /\ Ending(t, begin) = Ending(t, r)
    /\ \A m \in 1..Len(d) : /\ \E k \in Nat : Place(d[m], t, k)
                             /\ d[m].first + Len(d[m].text) <= r
    /\ \A k \in from..(r - 1) : b[k] = IF Held(d, k) THEN t[k + 1] ELSE NUL

LEMMA NothingRead ==
    ASSUME NEW t, Len(t) \in Nat, NEW from \in Nat, NEW begin \in from..Len(t), NEW b,
           \A k \in from..(begin - 1) : b[k] = NUL
    PROVE  Reads(<<>>, t, from, begin, begin, b)
<1>1. begin \in 0..Len(t) /\ begin \in begin..Len(t)
  OBVIOUS
<1>2. Tokens(t, begin) \in Seq(TokensIn(t))
  BY <1>1, TokensRead DEF TokensIn
<1>3. <<>> \o Tokens(t, begin) = Tokens(t, begin)
  BY <1>2, ConcatEmptySeq
<1>4. Len(<<>>) = 0 /\ <<>> \in Seq(TokensIn(t))
  OBVIOUS
<1>5. \A k : ~Held(<<>>, k)
  BY <1>4 DEF Held
<1> QED
  BY <1>1, <1>3, <1>4, <1>5 DEF Reads

LEMMA ReadsBlank ==
    ASSUME NEW t, Len(t) \in Nat, NEW from \in Nat, NEW begin, NEW r, NEW b, NEW d,
           Reads(d, t, from, begin, r, b), IsBlankAt(t, r),
           NEW c, c[r] = NUL, \A k \in from..(r - 1) : c[k] = b[k]
    PROVE  Reads(d, t, from, begin, r + 1, c)
<1>1. begin \in from..Len(t) /\ r \in begin..Len(t)
  BY DEF Reads
<1>8. \A m \in 1..Len(d) : /\ d[m].first \in Nat /\ Len(d[m].text) \in Nat
                            /\ d[m].first + Len(d[m].text) <= r
  BY DEF Reads, Place
<1>2. r \in Nat /\ begin \in Nat /\ r < Len(t) /\ r \in 0..Len(t) /\ from <= r
  BY <1>1, BytesInLine
<1>3. r + 1 \in begin..Len(t)
  BY <1>1, <1>2
<1>4. Tokens(t, r) = Tokens(t, r + 1) /\ Ending(t, r) = Ending(t, r + 1)
  BY <1>2, TokensUnfold, EndingUnfolds
<1>5. ~Held(d, r)
  BY SMTT(30), <1>8, <1>2 DEF Held, KeptBytes
<1>6. \A k \in from..((r + 1) - 1) : c[k] = IF Held(d, k) THEN t[k + 1] ELSE NUL
  <2>1. \A k \in from..((r + 1) - 1) : k = r \/ k \in from..(r - 1)
    BY <1>2
  <2>2. \A k \in from..(r - 1) : b[k] = IF Held(d, k) THEN t[k + 1] ELSE NUL
    BY DEF Reads
  <2> QED
    BY <1>5, <2>1, <2>2
<1>7. \A m \in 1..Len(d) : d[m].first + Len(d[m].text) <= r + 1
  BY <1>8, <1>2
<1> QED
  BY <1>1, <1>3, <1>4, <1>6, <1>7 DEF Reads

LEMMA ReadsToken ==
    ASSUME NEW S, NEW t \in Seq(S), NEW from \in Nat, NEW begin, NEW r, NEW b, NEW d,
           Reads(d, t, from, begin, r, b), ~Breaks(t, r), Token(t, r).wellFormed,
           NEW next, next = Token(t, r).next,
           NEW c, \A k \in from..(r - 1) : c[k] = b[k],
           \A k \in r..(next - 1) : c[k] = IF k \in KeptBytes(Token(t, r)) THEN t[k + 1] ELSE NUL
    PROVE  /\ Reads(Append(d, Token(t, r)), t, from, begin, next, c)
           /\ Breaks(t, next)
<1>0. Len(t) \in Nat
  OBVIOUS
<1>1. /\ begin \in from..Len(t) /\ r \in begin..Len(t) /\ d \in Seq(TokensIn(t))
      /\ \A m \in 1..Len(d) : \E k \in Nat : Place(d[m], t, k)
  BY DEF Reads
<1>18. \A m \in 1..Len(d) : /\ d[m].first \in Nat /\ Len(d[m].text) \in Nat
                             /\ d[m].first + Len(d[m].text) <= r
  BY DEF Reads, Place
<1>2. r \in Nat /\ begin \in Nat /\ r \in 0..Len(t) /\ from <= r /\ begin <= r
  BY <1>0, <1>1
<1>3. PICK token : token = Token(t, r)
  OBVIOUS
<1>4. Place(token, t, r)
  BY <1>2, <1>3, TokenPlace
<1>5. PICK first \in Nat, length \in Nat : first = token.first /\ length = Len(token.text)
                                          /\ r <= first /\ first + length <= next
  BY <1>3, <1>4 DEF Place
<1>6. next \in (r + 1)..Len(t) /\ Breaks(t, next)
  BY <1>3, <1>4 DEF Place
<1>7. next \in Nat /\ next \in begin..Len(t) /\ r < next /\ next \in 0..Len(t)
  BY <1>0, <1>2, <1>6
<1>8. token \in TokensIn(t)
  BY <1>2, <1>3 DEF TokensIn
<1> DEFINE e == Append(d, token)
<1>9. /\ e \in Seq(TokensIn(t)) /\ Len(e) = Len(d) + 1 /\ Len(d) \in Nat
      /\ \A m \in 1..Len(d) : e[m] = d[m]
      /\ e[Len(d) + 1] = token
  BY <1>1, <1>8, AppendProperties
<1>10. e = d \o <<token>>
  BY <1>1, <1>8, AppendIsConcat
<1> HIDE DEF e
<1>11. Tokens(t, begin) = e \o Tokens(t, next)
  <2>1. Tokens(t, begin) = d \o Tokens(t, r)
    BY DEF Reads
  <2>2. Tokens(t, r) = <<token>> \o Tokens(t, next)
    BY <1>0, <1>2, <1>3, TokensUnfold
  <2>3. Tokens(t, next) \in Seq(TokensIn(t)) /\ <<token>> \in Seq(TokensIn(t))
    <3>1. Tokens(t, next) \in Seq(TokensIn(t))
      BY <1>0, <1>7, TokensRead DEF TokensIn
    <3> QED
      BY <1>8, <3>1
  <2>4. (d \o <<token>>) \o Tokens(t, next) = d \o (<<token>> \o Tokens(t, next))
    BY <1>1, <2>3, ConcatAssociative
  <2> QED
    BY <1>10, <2>1, <2>2, <2>4
<1>12. Ending(t, begin) = Ending(t, next)
  <2>1. Ending(t, begin) = Ending(t, r)
    BY DEF Reads
  <2>2. Ending(t, r) = Ending(t, next)
    BY <1>0, <1>2, <1>3, EndingUnfolds
  <2> QED
    BY <2>1, <2>2
<1>13. \A m \in 1..Len(e) : m \in 1..Len(d) \/ m = Len(d) + 1
  BY <1>9
<1>14. \A m \in 1..Len(e) : /\ \E k \in Nat : Place(e[m], t, k)
                            /\ e[m].first + Len(e[m].text) <= next
  <2>1. ASSUME NEW m \in 1..Len(d)
        PROVE  (\E k \in Nat : Place(e[m], t, k)) /\ e[m].first + Len(e[m].text) <= next
    <3>1. d[m].first + Len(d[m].text) <= next
      BY <1>2, <1>7, <1>18
    <3> QED
      BY <1>1, <1>9, <3>1
  <2>2. /\ \E k \in Nat : Place(e[Len(d) + 1], t, k)
        /\ e[Len(d) + 1].first + Len(e[Len(d) + 1].text) <= next
    BY <1>2, <1>4, <1>5, <1>9
  <2> QED
    BY <1>13, <2>1, <2>2
<1>15. ASSUME NEW k \in Nat
       PROVE  Held(e, k) <=> Held(d, k) \/ k \in KeptBytes(token)
  <2>1. Held(e, k) <=> \E m \in 1..Len(e) : k \in KeptBytes(e[m])
    BY DEF Held
  <2>2. Held(d, k) <=> \E m \in 1..Len(d) : k \in KeptBytes(d[m])
    BY DEF Held
  <2>3. \A m \in 1..Len(d) : m \in 1..Len(e)
    BY <1>9
  <2>4. Len(d) + 1 \in 1..Len(e)
    BY <1>9
  <2> QED
    BY <1>9, <1>13, <2>1, <2>2, <2>3, <2>4
<1>16. ASSUME NEW k \in from..(next - 1)
       PROVE  c[k] = IF Held(e, k) THEN t[k + 1] ELSE NUL
  <2>0. k \in Nat
    OBVIOUS
  <2>1. CASE k < r
    <3>1. k \in from..(r - 1)
      BY <1>2, <2>1
    <3>2. b[k] = IF Held(d, k) THEN t[k + 1] ELSE NUL
      BY <3>1 DEF Reads
    <3>3. k \notin KeptBytes(token)
      BY <1>2, <1>5, <2>0, <2>1 DEF KeptBytes
    <3> QED
      BY <1>15, <2>0, <3>1, <3>2, <3>3
  <2>2. CASE k >= r
    <3>1. k \in r..(next - 1)
      BY <1>2, <1>7, <2>2
    <3>2. ~Held(d, k)
      BY SMTT(30), <1>18, <1>2, <2>0, <2>2 DEF Held, KeptBytes
    <3> QED
      BY <1>3, <1>15, <2>0, <3>1, <3>2
  <2> QED
    BY <1>2, <2>1, <2>2
<1>17. Reads(e, t, from, begin, next, c)
  BY <1>1, <1>7, <1>9, <1>11, <1>12, <1>14, <1>16 DEF Reads
<1> QED
  BY <1>3, <1>6, <1>17 DEF e

(* What a call leaves of its segment, and of what follows, in the array.   *)
Leaves(d, t, from, next, b) ==
    \A k \in from..(Len(t) - 1) : b[k] = IF k < next /\ ~Held(d, k) THEN NUL ELSE t[k + 1]

(* The segment that begins at begin was read to its end at next, its       *)
(* tokens are those of d.                                                  *)
WasRead(d, t, from, begin, next, b) ==
    /\ from \in Nat /\ begin \in from..Len(t)
    /\ Ending(t, begin).kind # "ParseError" /\ next = Ending(t, begin).next
    /\ d = Tokens(t, begin)
    /\ \A m \in 1..Len(d) : \E k \in Nat : Place(d[m], t, k)
    /\ Leaves(d, t, from, next, b)

LEMMA ErasedIs ==
    ASSUME NEW t, NEW from, NEW begin, begin = SegmentBegin(t, from), NEW d, d = Tokens(t, begin),
           NEW k
    PROVE  k \in Erased(t, from) <=> k \in from..(Ending(t, begin).next - 1) /\ ~Held(d, k)
<1> DEFINE Kept(token) == token.first..(token.first + Len(token.text) - 1)
<1>1. Erased(t, from) = (from..(Ending(t, SegmentBegin(t, from)).next - 1)) \
          UNION {Kept(Tokens(t, SegmentBegin(t, from))[i]) :
                    i \in 1..Len(Tokens(t, SegmentBegin(t, from)))}
  BY Zenon DEF Erased
<1>2. ASSUME NEW i PROVE Kept(d[i]) = KeptBytes(d[i])
  BY DEF KeptBytes
<1> HIDE DEF Kept
<1>3. Erased(t, from) = (from..(Ending(t, begin).next - 1)) \ UNION {Kept(d[i]) : i \in 1..Len(d)}
  BY <1>1, Zenon
<1>4. k \in UNION {Kept(d[i]) : i \in 1..Len(d)} <=> Held(d, k)
  BY <1>2 DEF Held
<1> QED
  BY <1>3, <1>4

(* The tokens that were read, in order.                                    *)
LEMMA TokensRise ==
    ASSUME NEW S, NEW t \in Seq(S), NEW from, NEW begin, NEW next, NEW b, NEW d,
           WasRead(d, t, from, begin, next, b)
    PROVE  /\ next \in begin..Len(t)
           /\ Ending(t, begin).kind = "EndOfLine" => Ends(t, next)
           /\ \A i \in 1..Len(d) :
                 /\ d[i].first \in Nat /\ Len(d[i].text) \in Nat /\ begin <= d[i].first
                 /\ d[i].first + Len(d[i].text) <= next
                 /\ Ending(t, begin).kind # "EndOfLine" => d[i].first + Len(d[i].text) < next
                 /\ \A j \in 1..Len(d) : i < j => d[i].first + Len(d[i].text) < d[j].first
<1>1. begin \in 0..Len(t) /\ Ending(t, begin).kind # "ParseError"
  <2>1. Len(t) \in Nat
    OBVIOUS
  <2> QED
    BY <2>1 DEF WasRead
<1>2. Placed(t, begin, Tokens(t, begin), Ending(t, begin))
  BY <1>1, TokensPlaced
<1>3. Placed(t, begin, d, Ending(t, begin)) /\ next = Ending(t, begin).next
  BY <1>2 DEF WasRead
<1> QED
  BY <1>3 DEF Placed

LEMMA KeptIs ==
    ASSUME NEW token, NEW first \in Nat, token.first = first,
           NEW length \in Nat, Len(token.text) = length
    PROVE  KeptBytes(token) = first..(first + length - 1)
  BY DEF KeptBytes

(* They stand in the array, each a string.                                 *)
StandsIn(b, t, first, behind) ==
    /\ behind <= Len(t)
    /\ \A k \in first..(behind - 1) : b[k] = t[k + 1] /\ b[k] # NUL
    /\ behind = Len(t) \/ b[behind] = NUL

LEMMA TokensStand ==
    ASSUME NEW S, NEW t \in Seq(S), NEW from, NEW begin, NEW next, NEW b, NEW d,
           WasRead(d, t, from, begin, next, b),
           NEW m \in 1..Len(d), NEW first \in Nat, first = d[m].first,
           NEW length \in Nat, length = Len(d[m].text), NEW behind, behind = first + length
    PROVE  /\ StandsIn(b, t, first, behind)
           /\ d[m].text = SubSeq(t, d[m].first + 1, d[m].first + Len(d[m].text))
<1>1. /\ next \in begin..Len(t) /\ begin <= first /\ first + length <= next
      /\ Ending(t, begin).kind # "EndOfLine" => first + length < next
      /\ Ending(t, begin).kind = "EndOfLine" => Ends(t, next)
  BY TokensRise
<1>2. PICK n \in Nat : n = Len(t)
  OBVIOUS
<1>10. begin \in from..Len(t) /\ from \in Nat
  BY DEF WasRead
<1>3. /\ from \in Nat /\ begin \in Nat /\ next \in Nat /\ next <= n /\ from <= begin
      /\ begin <= first
  BY <1>1, <1>2, <1>10
<1>4. behind \in Nat /\ behind <= n
  BY SMTT(30), <1>1, <1>3
<1>5. PICK at \in Nat : Place(d[m], t, at)
  BY DEF WasRead
<1>6. /\ d[m].text = SubSeq(t, d[m].first + 1, d[m].first + Len(d[m].text))
      /\ \A k \in KeptBytes(d[m]) : ~Ends(t, k)
  BY <1>5 DEF Place, KeptBytes
<1>7. \A k \in from..(n - 1) : b[k] = IF k < next /\ ~Held(d, k) THEN NUL ELSE t[k + 1]
  BY <1>2 DEF WasRead, Leaves
<1>8. ASSUME NEW k \in first..(behind - 1)
      PROVE  b[k] = t[k + 1] /\ b[k] # NUL
  <2>1. k \in from..(n - 1)
    BY <1>3, <1>4
  <2>2. k \in KeptBytes(d[m])
    BY SMTT(30), KeptIs
  <2>3. Held(d, k)
    BY <2>2 DEF Held
  <2>4. b[k] = t[k + 1]
    BY <1>7, <2>1, <2>3
  <2>5. t[k + 1] # NUL
    BY <1>6, <2>2 DEF Ends
  <2> QED
    BY <2>4, <2>5
<1>9. ASSUME behind # n PROVE b[behind] = NUL
  <2>1. behind \in from..(n - 1)
    BY SMTT(30), <1>1, <1>3, <1>4, <1>9
  <2>2. ASSUME NEW i \in 1..Len(d), behind \in KeptBytes(d[i]) PROVE FALSE
    <3>1. PICK a \in Nat, l \in Nat : a = d[i].first /\ l = Len(d[i].text)
      BY TokensRise
    <3>2. a <= behind /\ behind < a + l
      BY SMTT(30), <2>2, <3>1 DEF KeptBytes
    <3>3. i < m => a + l < first
      BY <3>1, TokensRise
    <3>4. m < i => behind < a
      BY <1>4, <3>1, TokensRise
    <3>5. i = m => a + l = behind
      BY <1>4, <3>1
    <3>6. i < m \/ i = m \/ m < i
      OBVIOUS
    <3> QED
      BY SMTT(30), <1>4, <3>2, <3>3, <3>4, <3>5, <3>6
  <2>3. ~Held(d, behind)
    BY <2>2 DEF Held
  <2>4. b[behind] = IF behind < next /\ ~Held(d, behind) THEN NUL ELSE t[behind + 1]
    BY <1>7, <2>1
  <2>5. CASE behind < next
    BY <2>3, <2>4, <2>5
  <2>6. CASE ~(behind < next)
    <3>1. behind = next /\ Ends(t, next)
      BY <1>1, <1>3, <1>4, <2>6
    <3>2. t[behind + 1] = NUL
      BY SMTT(30), <1>2, <2>1, <3>1 DEF Ends
    <3> QED
      BY <2>4, <2>6, <3>2
  <2> QED
    BY <2>5, <2>6
<1> QED
  BY <1>2, <1>4, <1>6, <1>8, <1>9 DEF StandsIn

(* If none is empty, they begin where a byte is kept behind an overwritten *)
(* one, and nothing else does.                                             *)
LEMMA TokensBegin ==
    ASSUME NEW S, NEW t \in Seq(S), NEW from, NEW begin, NEW next, NEW b, NEW d,
           WasRead(d, t, from, begin, next, b),
           \A m \in 1..Len(d) : Len(d[m].text) > 0,
           NEW k \in begin..(next - 1)
    PROVE  b[k] # NUL /\ (k = begin \/ b[k - 1] = NUL) <=> \E m \in 1..Len(d) : k = d[m].first
<1>1. begin \in from..Len(t) /\ from \in Nat
  BY DEF WasRead
<1>2. PICK n \in Nat : n = Len(t)
  OBVIOUS
<1>9. next \in begin..Len(t)
  BY TokensRise
<1>3. from \in Nat /\ begin \in Nat /\ next \in Nat /\ next <= n /\ from <= begin
  BY <1>1, <1>2, <1>9
<1>4. k \in from..(n - 1) /\ k \in Nat /\ begin <= k /\ k < next
  BY <1>3
<1>5. \A j \in from..(n - 1) : b[j] = IF j < next /\ ~Held(d, j) THEN NUL ELSE t[j + 1]
  BY <1>2 DEF WasRead, Leaves
<1>6. ASSUME NEW m \in 1..Len(d), NEW first \in Nat, first = d[m].first,
             NEW length \in Nat, length = Len(d[m].text),
             NEW j \in first..(first + length - 1)
      PROVE  b[j] # NUL
  <2>1. PICK behind : behind = first + length
    OBVIOUS
  <2>2. StandsIn(b, t, first, behind)
    BY <1>6, <2>1, TokensStand
  <2> QED
    BY SMTT(30), <1>6, <2>1, <2>2 DEF StandsIn
<1>7. ASSUME NEW m \in 1..Len(d), k = d[m].first
      PROVE  b[k] # NUL /\ (k = begin \/ b[k - 1] = NUL)
  <2>1. PICK length \in Nat : length = Len(d[m].text) /\ length > 0
    BY TokensRise
  <2>2. b[k] # NUL
    <3>1. k \in k..(k + length - 1)
      BY <1>4, <2>1
    <3> QED
      BY <1>4, <1>6, <1>7, <2>1, <3>1
  <2>3. ASSUME k # begin PROVE b[k - 1] = NUL
    <3>1. k - 1 \in from..(n - 1) /\ k - 1 < next
      BY <1>3, <1>4, <2>3
    <3>2. ASSUME NEW i \in 1..Len(d), k - 1 \in KeptBytes(d[i]) PROVE FALSE
      <4>1. PICK a \in Nat, l \in Nat : a = d[i].first /\ l = Len(d[i].text)
        BY TokensRise
      <4>2. a <= k - 1 /\ k - 1 < a + l
        BY SMTT(30), <1>4, <3>2, <4>1 DEF KeptBytes
      <4>3. i < m => a + l < k
        BY <1>7, <4>1, TokensRise
      <4>4. m < i => k + length < a
        BY <1>7, <2>1, <4>1, TokensRise
      <4>5. i = m => a = k
        BY <1>7, <4>1
      <4>6. i < m \/ i = m \/ m < i
        OBVIOUS
      <4> QED
        BY <1>4, <2>1, <4>2, <4>3, <4>4, <4>5, <4>6
    <3>3. ~Held(d, k - 1)
      BY <3>2 DEF Held
    <3> QED
      BY <1>5, <3>1, <3>3
  <2> QED
    BY <2>2, <2>3
<1>8. ASSUME b[k] # NUL, k = begin \/ b[k - 1] = NUL
      PROVE  \E m \in 1..Len(d) : k = d[m].first
  <2>1. Held(d, k)
    BY <1>4, <1>5, <1>8
  <2>2. PICK m \in 1..Len(d) : k \in KeptBytes(d[m])
    BY <2>1 DEF Held
  <2>3. PICK a \in Nat, l \in Nat : a = d[m].first /\ l = Len(d[m].text) /\ begin <= a
    BY TokensRise
  <2>4. k \in a..(a + l - 1)
    BY <2>2, <2>3 DEF KeptBytes
  <2>5. ASSUME k # a PROVE FALSE
    <3>0. begin <= a
      BY <2>3
    <3>1. k # begin /\ k - 1 \in a..(a + l - 1)
      BY <1>3, <1>4, <2>4, <2>5, <3>0
    <3>2. b[k - 1] # NUL
      BY <1>6, <2>3, <3>1
    <3> QED
      BY <1>8, <3>1, <3>2
  <2> QED
    BY <2>3, <2>5
<1> QED
  BY <1>7, <1>8

(* What a token's stop says of it.                                         *)
LEMMA QuotedParts ==
    ASSUME NEW S, NEW t \in Seq(S), NEW k \in Nat, NEW stop \in Nat, k < stop, stop <= Len(t)
    PROVE  /\ QuotedToken(t, k, stop).first = k + 1 /\ QuotedToken(t, k, stop).next = stop + 1
           /\ KeptBytes(QuotedToken(t, k, stop)) = (k + 1)..(stop - 1)
           /\ QuotedToken(t, k, stop).wellFormed <=> ~Ends(t, stop) /\ Breaks(t, stop + 1)
<1>1. PICK text : text = SubSeq(t, k + 2, stop)
  OBVIOUS
<1>2. PICK good : good = (~Ends(t, stop) /\ Breaks(t, stop + 1))
  OBVIOUS
<1>3. PICK token : token = QuotedToken(t, k, stop)
  OBVIOUS
<1>4. token = [first |-> k + 1, text |-> text, next |-> stop + 1, wellFormed |-> good]
  BY <1>1, <1>2, <1>3, Zenon DEF QuotedToken
<1>5. /\ token.first = k + 1 /\ token.text = text /\ token.next = stop + 1
      /\ token.wellFormed = good
  BY <1>4
<1>6. Len(text) = stop - (k + 1)
  <2>1. k + 1 \in Nat /\ k + 1 <= stop /\ k + 2 = (k + 1) + 1
    OBVIOUS
  <2>2. Len(SubSeq(t, (k + 1) + 1, stop)) = stop - (k + 1)
    BY <2>1, PartLength
  <2> QED
    BY <1>1, <2>1, <2>2
<1>7. PICK length \in Nat : length = Len(text) /\ length = stop - (k + 1)
  BY <1>6
<1>8. KeptBytes(token) = (k + 1)..(stop - 1)
  <2>1. Len(token.text) = length
    BY <1>5, <1>7
  <2>2. KeptBytes(token) = (k + 1)..((k + 1) + length - 1)
    BY <1>5, <2>1, KeptIs
  <2>3. (k + 1) + length - 1 = stop - 1
    BY <1>7
  <2> QED
    BY <2>2, <2>3, Zenon
<1>9. token.wellFormed <=> ~Ends(t, stop) /\ Breaks(t, stop + 1)
  BY <1>2, <1>5, Zenon
<1> QED
  BY <1>3, <1>5, <1>8, <1>9

LEMMA BareParts ==
    ASSUME NEW S, NEW t \in Seq(S), NEW k \in Nat, NEW stop \in Nat, k < stop, stop <= Len(t)
    PROVE  /\ BareToken(t, k, stop).first = k /\ BareToken(t, k, stop).next = stop
           /\ KeptBytes(BareToken(t, k, stop)) = k..(stop - 1)
           /\ BareToken(t, k, stop).wellFormed <=> ~IsQuoteAt(t, stop)
<1>1. PICK text : text = SubSeq(t, k + 1, stop)
  OBVIOUS
<1>2. PICK good : good = ~IsQuoteAt(t, stop)
  OBVIOUS
<1>3. PICK token : token = BareToken(t, k, stop)
  OBVIOUS
<1>4. token = [first |-> k, text |-> text, next |-> stop, wellFormed |-> good]
  BY <1>1, <1>2, <1>3, Zenon DEF BareToken
<1>5. /\ token.first = k /\ token.text = text /\ token.next = stop /\ token.wellFormed = good
  BY <1>4
<1>6. PICK length \in Nat : length = Len(text) /\ length = stop - k
  <2>1. Len(SubSeq(t, k + 1, stop)) = stop - k
    BY PartLength
  <2> QED
    BY <1>1, <2>1
<1>7. KeptBytes(token) = k..(stop - 1)
  <2>1. Len(token.text) = length
    BY <1>5, <1>6
  <2>2. KeptBytes(token) = k..(k + length - 1)
    BY <1>5, <2>1, KeptIs
  <2>3. k + length - 1 = stop - 1
    BY <1>6
  <2> QED
    BY <2>2, <2>3, Zenon
<1>8. token.wellFormed <=> ~IsQuoteAt(t, stop)
  BY <1>2, <1>5, Zenon
<1> QED
  BY <1>3, <1>5, <1>7, <1>8

LEMMA QuoteBreaksNot ==
    ASSUME NEW t, Len(t) \in Nat, NEW k \in Nat, IsQuoteAt(t, k)
    PROVE  ~Breaks(t, k)
<1>1. ~Ends(t, k) /\ (t[k + 1] = "'" \/ t[k + 1] = "\"")
  BY DEF IsQuoteAt, Quotes
<1>2. /\ SeparatorWidth(t, k) = 1 <=> ~Ends(t, k) /\ t[k + 1] = ";"
      /\ SeparatorWidth(t, k) = 2 <=>
            ~Ends(t, k + 1) /\ ~Ends(t, k) /\ t[k + 1] = "&" /\ t[k + 2] = "&"
      /\ IsBlankAt(t, k) <=> ~Ends(t, k) /\ t[k + 1] = " "
  BY OneKind
<1>3. /\ "'" # ";" /\ "'" # "&" /\ "'" # " " /\ "\"" # ";" /\ "\"" # "&" /\ "\"" # " "
  BY Zenon
<1>4. ~IsBlankAt(t, k) /\ SeparatorWidth(t, k) # 1 /\ SeparatorWidth(t, k) # 2
  BY <1>1, <1>2, <1>3, Zenon
<1>5. SeparatorWidth(t, k) \in {0, 1, 2}
  BY BytesInLine
<1>6. ~(SeparatorWidth(t, k) > 0)
  BY <1>4, <1>5
<1> QED
  BY <1>1, <1>4, <1>6, Zenon DEF Breaks

(* The end of a segment reached, at next.                                  *)
LEMMA ReadsEnd ==
    ASSUME NEW t, Len(t) \in Nat, NEW from \in Nat, NEW begin, NEW r, NEW b, NEW d,
           Reads(d, t, from, begin, r, b), Tokens(t, r) = <<>>, NEW next \in r..Len(t),
           Ending(t, r).next = next,
           NEW c, \A k \in from..(r - 1) : c[k] = b[k], \A k \in r..(next - 1) : c[k] = NUL,
           \A k \in next..(Len(t) - 1) : c[k] = t[k + 1]
    PROVE  /\ Tokens(t, begin) = d /\ Ending(t, begin) = Ending(t, r)
           /\ Leaves(d, t, from, next, c)
           /\ Ending(t, r).kind # "ParseError" => WasRead(d, t, from, begin, next, c)
<1>1. /\ d \in Seq(TokensIn(t)) /\ begin \in from..Len(t) /\ r \in begin..Len(t)
      /\ Tokens(t, begin) = d \o Tokens(t, r) /\ Ending(t, begin) = Ending(t, r)
      /\ \A m \in 1..Len(d) : \E k \in Nat : Place(d[m], t, k)
      /\ \A k \in from..(r - 1) : b[k] = IF Held(d, k) THEN t[k + 1] ELSE NUL
  BY DEF Reads
<1>2. \A m \in 1..Len(d) : /\ d[m].first \in Nat /\ Len(d[m].text) \in Nat
                            /\ d[m].first + Len(d[m].text) <= r
  BY DEF Reads, Place
<1>3. r \in Nat /\ begin \in Nat /\ from <= r /\ next \in Nat /\ r <= next /\ next <= Len(t)
  BY <1>1
<1>4. Tokens(t, begin) = d
  BY <1>1, ConcatEmptySeq
<1>5. ASSUME NEW k \in from..(Len(t) - 1)
      PROVE  c[k] = IF k < next /\ ~Held(d, k) THEN NUL ELSE t[k + 1]
  <2>1. k \in Nat /\ from <= k /\ k < Len(t)
    OBVIOUS
  <2>2. CASE k < r
    <3>1. k \in from..(r - 1) /\ k < next
      BY <1>3, <2>1, <2>2
    <3> QED
      BY <1>1, <3>1
  <2>3. CASE k >= r /\ k < next
    <3>1. k \in r..(next - 1)
      BY <1>3, <2>1, <2>3
    <3>2. ~Held(d, k)
      BY SMTT(30), <1>2, <1>3, <2>1, <2>3 DEF Held, KeptBytes
    <3> QED
      BY <2>3, <3>1, <3>2
  <2>4. CASE k >= next
    <3>1. k \in next..(Len(t) - 1) /\ ~(k < next)
      BY <1>3, <2>1, <2>4
    <3> QED
      BY <3>1
  <2> QED
    BY <1>3, <2>1, <2>2, <2>3, <2>4
<1>6. Leaves(d, t, from, next, c)
  BY <1>5 DEF Leaves
<1> QED
  BY <1>1, <1>4, <1>6 DEF WasRead

-----------------------------------------------------------------------------
(* Completion scans the text for its last separator.                       *)

AfterLastSeparator(text) ==
    LET n == Len(text)
        none == n + 1
        Pair(i) == i + 1 < n /\ text[i + 1] = "&" /\ text[i + 2] = "&"
        from[i \in 0..n] ==
            CASE i = n -> none
              [] i < n /\ Pair(i) -> IF from[i + 2] = none THEN i + 2 ELSE from[i + 2]
              [] i < n /\ text[i + 1] = ";" -> IF from[i + 1] = none THEN i + 1 ELSE from[i + 1]
              [] OTHER -> from[i + 1]
    IN  IF from[0] = none THEN 0 ELSE from[0]

LEMMA AfterLastInText ==
    ASSUME NEW S, NEW text \in Seq(S)
    PROVE  AfterLastSeparator(text) \in 0..Len(text)
<1> DEFINE n == Len(text)
           none == n + 1
           Pair(i) == i + 1 < n /\ text[i + 1] = "&" /\ text[i + 2] = "&"
           At(f, i) ==
             CASE i = n -> none
               [] i < n /\ Pair(i) -> IF f[i + 2] = none THEN i + 2 ELSE f[i + 2]
               [] i < n /\ text[i + 1] = ";" -> IF f[i + 1] = none THEN i + 1 ELSE f[i + 1]
               [] OTHER -> f[i + 1]
           from == CHOOSE f : f = [i \in 0..n |-> At(f, i)]
           V == 1..none
           D == {n}
<1>1. AfterLastSeparator(text) = IF from[0] = none THEN 0 ELSE from[0]
  BY DEF AfterLastSeparator
<1>2. n \in Nat /\ V = 1..none /\ D = {n}
  OBVIOUS
<1> DEFINE next == [i \in 0..n |-> IF Pair(i) THEN i + 2 ELSE i + 1]
           step == [i \in 0..n |-> [v \in V |->
                      IF v = none /\ (Pair(i) \/ text[i + 1] = ";") THEN next[i] ELSE v]]
           base == [i \in {n} |-> none]
<1>3. ASSUME NEW i \in 0..n, i # n
      PROVE  next[i] \in (i + 1)..n /\ next[i] = IF Pair(i) THEN i + 2 ELSE i + 1
  BY <1>2, <1>3
<1> HIDE DEF n, Pair, next, V, D
<1>4. ASSUME NEW i \in 0..n, i # n, NEW v \in V
      PROVE  /\ step[i][v] = IF v = none /\ (Pair(i) \/ text[i + 1] = ";") THEN next[i] ELSE v
             /\ step[i][v] \in V
  <2>1. step[i][v] = IF v = none /\ (Pair(i) \/ text[i + 1] = ";") THEN next[i] ELSE v
    OBVIOUS
  <2>2. next[i] \in V
    BY <1>2, <1>3, <1>4
  <2> HIDE DEF step
  <2> QED
    BY <2>1, <2>2
<1>5. base[n] = none
  OBVIOUS
<1> HIDE DEF step, base
<1>6. PICK f \in [0..n -> V] : \A i \in 0..n : f[i] = Scanned(f, i, D, base, next, step)
  <2>0. Scannable(0, n, V, D, base, next, step)
    <3> SUFFICES ASSUME NEW i \in 0..n
                 PROVE  /\ i \in D => base[i] \in V
                        /\ i \notin D => next[i] \in (i + 1)..n
                        /\ i \notin D => \A v \in V : step[i][v] \in V
      BY DEF Scannable
    <3>1. none \in V
      BY <1>2
    <3>2. i \in D <=> i = n
      BY <1>2
    <3>3. i \in D => base[i] \in V
      BY <1>5, <3>1, <3>2
    <3>4. i \notin D => next[i] \in (i + 1)..n
      BY <1>3, <3>2
    <3>5. i \notin D => \A v \in V : step[i][v] \in V
      BY <1>4, <3>2
    <3> QED
      BY <3>3, <3>4, <3>5
  <2>4. 0 \in Nat /\ n \in Nat /\ 0 <= n
    BY <1>2
  <2> QED
    BY <2>0, <2>4, ScanExists DEF IsScan
<1>7. ASSUME NEW i \in 0..n PROVE f[i] = At(f, i)
  <2>1. CASE i = n
    <3>1. f[i] = none
      BY <1>2, <1>5, <1>6, <2>1 DEF Scanned
    <3>2. ~(i < n)
      BY <1>2, <2>1
    <3>3. At(f, i) = none
      BY <2>1, <3>2, Zenon
    <3> QED
      BY <3>1, <3>3
  <2>2. CASE i # n
    <3> DEFINE v == f[next[i]]
    <3>1. v \in V
      <4>1. next[i] \in 0..n
        BY <1>2, <1>3, <2>2
      <4> QED
        BY <1>6, <4>1
    <3>2. f[i] = step[i][v]
      BY <1>2, <1>6, <2>2 DEF Scanned
    <3>3. next[i] = IF Pair(i) THEN i + 2 ELSE i + 1
      BY <1>3, <2>2
    <3>4. i < n
      BY <1>2, <2>2
    <3> HIDE DEF none
    <3>5. f[i] = IF v = none /\ (Pair(i) \/ text[i + 1] = ";") THEN next[i] ELSE v
      BY <1>4, <2>2, <3>1, <3>2
    <3>6. Pair(i) => text[i + 1] # ";"
      BY DEF Pair
    <3>7. CASE Pair(i)
      BY <2>2, <3>3, <3>4, <3>5, <3>6, <3>7
    <3>8. CASE ~Pair(i) /\ text[i + 1] = ";"
      BY <2>2, <3>3, <3>4, <3>5, <3>8
    <3>9. CASE ~Pair(i) /\ text[i + 1] # ";"
      BY <2>2, <3>3, <3>4, <3>5, <3>9
    <3> QED
      BY <3>7, <3>8, <3>9
  <2> QED
    BY <2>1, <2>2
<1>8. from = [i \in 0..n |-> At(from, i)]
  <2> HIDE DEF At
  <2>1. f = [i \in 0..n |-> At(f, i)]
    BY <1>6, <1>7
  <2> QED
    BY <2>1
<1>9. \A i \in 0..n : from[i] \in 1..none
  <2> DEFINE Q == {i \in 0..n : from[i] \in 1..none}
  <2> HIDE DEF from
  <2>1. ASSUME NEW i \in 0..n, \A j \in (i + 1)..n : j \in Q PROVE i \in Q
    <3>1. from[i] = At(from, i)
      BY <1>8
    <3>2. CASE i = n
      <4>1. ~(i < n)
        BY <1>2, <3>2
      <4>2. At(from, i) = none
        BY <3>2, <4>1, Zenon
      <4>3. none \in 1..none
        BY <1>2
      <4> QED
        BY <3>1, <4>2, <4>3 DEF Q
    <3>3. CASE i # n
      <4>1. i < n /\ i + 1 \in (i + 1)..n /\ (Pair(i) => i + 2 \in (i + 1)..n)
        BY <1>2, <3>3 DEF Pair
      <4>2. from[i + 1] \in 1..none /\ (Pair(i) => from[i + 2] \in 1..none)
        BY <2>1, <4>1
      <4>3. CASE Pair(i)
        <5>1. text[i + 1] # ";"
          BY <4>3 DEF Pair
        <5>2. from[i] = IF from[i + 2] = none THEN i + 2 ELSE from[i + 2]
          BY <3>1, <3>3, <4>1, <4>3, <5>1
        <5>3. i + 2 \in 1..none
          BY <1>2, <4>1, <4>3
        <5> QED
          BY <4>2, <4>3, <5>2, <5>3 DEF Q
      <4>4. CASE ~Pair(i)
        <5>1. from[i] = from[i + 1] \/ from[i] = i + 1
          <6>1. CASE text[i + 1] = ";"
            BY <3>1, <3>3, <4>1, <4>4, <6>1
          <6>2. CASE text[i + 1] # ";"
            BY <3>1, <3>3, <4>1, <4>4, <6>2
          <6> QED
            BY <6>1, <6>2
        <5>2. i + 1 \in 1..none
          BY <1>2, <4>1
        <5> QED
          BY <4>2, <5>1, <5>2 DEF Q
      <4> QED
        BY <4>3, <4>4
    <3> QED
      BY <3>2, <3>3
  <2> HIDE DEF Q
  <2>2. \A i \in 0..n : i \in Q
    BY <1>2, <2>1, Downward
  <2> QED
    BY <2>2 DEF Q
<1> HIDE DEF from
<1> QED
  BY <1>1, <1>2, <1>9 DEF n

=============================================================================
