--------------------------- MODULE ReadingProofs ---------------------------
(***************************************************************************)
(* Proofs about what is typed and who reads it.  SerialRead: read() keeps  *)
(* to the time it was given, for every clock width, timeout and lag,       *)
(* although millis() wraps around.  Login: for every set of lines and      *)
(* users, every limit and however far ahead the user types, a mode is      *)
(* granted only for a name and a password typed in full, and where enter   *)
(* is one byte every reader gets one typed line.                           *)
(***************************************************************************)
EXTENDS Login, SerialRead, SequenceTheorems, TLAPS

(* read() of the adapter.                                                  *)

(* The clock difference the loop computes is the time that has passed, as  *)
(* long as a read with a timeout can last; a step of the loop finds it no  *)
(* larger than the timeout, and two lags are all that is added.            *)
Measured ==
    Reading =>
        /\ elapsed <= Horizon - 1 => Since(start, millis) = elapsed
        /\ ~infinite /\ pc = "port" => elapsed <= timeout_ms + lag
        /\ ~infinite /\ pc = "clock" => elapsed <= timeout_ms + MaxLag + lag

ReadInv == ReadTypeOK /\ Measured /\ NeverEarly

USE DEF Reading, infinite

(* Between 0 and the end of its range the difference is a number of        *)
(* milliseconds, and a tick adds one to it unless it wraps around too.     *)
LEMMA SinceGrows ==
    ASSUME NEW then \in 0..(Modulus - 1), NEW now \in 0..(Modulus - 1),
           Since(then, now) < Modulus - 1
    PROVE  /\ Since(then, now) \in Nat
           /\ Since(then, IF now = Modulus - 1 THEN 0 ELSE now + 1) = Since(then, now) + 1
  BY ClockAssumption DEF Since

(* At once nothing has passed.                                             *)
LEMMA SinceNow == ASSUME NEW now \in 0..(Modulus - 1) PROVE Since(now, now) = 0
  BY ClockAssumption DEF Since

LEMMA Initially == ReadInit => ReadInv
  BY ClockAssumption, CapacityAssumption
     DEF ReadInit, ReadInv, ReadTypeOK, Measured, NeverEarly, Horizon

(* Each step of the loop, each call and each millisecond keeps the         *)
(* measure.                                                                *)
LEMMA Steps == ReadInv /\ [ReadNext]_readVars => ReadInv'
<1> SUFFICES ASSUME ReadInv, [ReadNext]_readVars PROVE ReadInv'
  OBVIOUS
<1> USE ClockAssumption, CapacityAssumption DEF ReadInv, ReadTypeOK
<1>1. CASE Tick
  <2>1. ReadTypeOK'
    BY <1>1 DEF Tick, Horizon
  <2>2. NeverEarly'
    BY <1>1 DEF Tick, NeverEarly, Horizon
  <2>3. ASSUME Reading PROVE Measured'
    <3>1. elapsed' <= Horizon - 1 => Since(start, millis)' = elapsed'
      <4> SUFFICES ASSUME elapsed' <= Horizon - 1 PROVE Since(start, millis)' = elapsed'
        OBVIOUS
      <4>1. elapsed' = elapsed + 1 /\ elapsed + 1 <= Horizon - 1
        BY <1>1, <2>3 DEF Tick, Horizon
      <4>2. Since(start, millis) = elapsed /\ elapsed < Modulus - 1
        BY <2>3, <4>1 DEF Measured, Horizon
      <4>3. Since(start, IF millis = Modulus - 1 THEN 0 ELSE millis + 1) = elapsed + 1
        BY <4>2, SinceGrows
      <4> QED
        BY <1>1, <4>1, <4>3 DEF Tick, Since
    <3>2. elapsed' <= elapsed + 1 /\ lag' = lag + 1
      BY <1>1, <2>3 DEF Tick, Horizon
    <3> QED
      BY <1>1, <2>3, <3>1, <3>2 DEF Tick, Measured
  <2>4. ASSUME ~Reading PROVE Measured'
    BY <1>1, <2>4 DEF Tick, Measured
  <2> QED
    BY <2>1, <2>2, <2>3, <2>4
<1>2. CASE Arrive
  BY <1>2 DEF Arrive, Measured, NeverEarly, Since
<1>3. ASSUME NEW timeout \in Timeouts, read(timeout) PROVE ReadInv'
  <2>1. ReadTypeOK' /\ NeverEarly'
    BY <1>3 DEF read, NeverEarly, Horizon
  <2>2. Since(start, millis)' = 0
    BY <1>3, SinceNow DEF read, Since
  <2> QED
    BY <1>3, <2>1, <2>2 DEF read, Measured
<1>4. CASE ReceiveByte
  BY <1>4 DEF ReceiveByte, Return, Available, Measured, NeverEarly
<1>5. CASE PortEmpty
  BY <1>5 DEF PortEmpty, Continue, Measured, NeverEarly, Since
<1>6. CASE GiveUp
  <2>1. ReadTypeOK' /\ Measured'
    BY <1>6 DEF GiveUp, Return, Measured
  <2>2. elapsed >= timeout_ms
    BY <1>6 DEF GiveUp, TimedOut, Measured, Horizon
  <2> QED
    BY <1>6, <2>1, <2>2 DEF GiveUp, Return, TimedOut, NeverEarly
<1>7. CASE NotYet
  <2>1. ReadTypeOK' /\ NeverEarly'
    BY <1>7 DEF NotYet, Continue, NeverEarly
  <2>2. ~infinite => elapsed <= timeout_ms
    BY <1>7 DEF NotYet, TimedOut, Measured, Horizon
  <2> QED
    BY <1>7, <2>1, <2>2 DEF NotYet, Continue, Measured, Since
<1>8. CASE UNCHANGED readVars
  BY <1>8 DEF readVars, Measured, NeverEarly, Since
<1> QED
  BY <1>1, <1>2, <1>3, <1>4, <1>5, <1>6, <1>7, <1>8 DEF ReadNext, Loop

(* The measure in every state, and the types with it.                      *)
THEOREM ReadMeasuresTime == ReadSpec => []ReadInv
  BY Initially, Steps, PTL DEF ReadSpec

(* The clock readings stay below the modulus of millis(), and the measures *)
(* of time below their horizon.                                            *)
THEOREM ReadTypeCorrect == ReadSpec => []ReadTypeOK
<1>1. ReadInv => ReadTypeOK
  BY DEF ReadInv
<1> QED
  BY <1>1, ReadMeasuresTime, PTL

(* A read that is given a time never gives up before it has passed, one    *)
(* that is not never does (lishIShell.h:104-107).                          *)
THEOREM ReadIsNeverEarly == ReadSpec => []NeverEarly
<1>1. ReadInv => NeverEarly
  BY DEF ReadInv
<1> QED
  BY <1>1, ReadMeasuresTime, PTL

(* A read that is given a time is back at most two loop steps after it.    *)
THEOREM ReadIsNeverLate == ReadSpec => []NeverLate
<1>1. ReadInv => NeverLate
  BY ClockAssumption DEF ReadInv, ReadTypeOK, Measured, NeverLate
<1> QED
  BY <1>1, ReadMeasuresTime, PTL

-----------------------------------------------------------------------------
(* service() and the prompts of login.                                     *)

HIDE DEF Reading, infinite

Byte == DOMAIN Fold \cup Newline

Sequences ==
    /\ ending \in {<<CR>>, <<LF>>, <<CR, LF>>}
    /\ rx \in Seq(Byte)
    /\ partial \in Seq(Byte)
    /\ username \in Seq(Byte)
    /\ readings \in Seq(Seq(Byte))

(* What the terminal sends for the k-th line, and how long that is.        *)
SentLen(k) == Len(typed[k]) + Len(ending)
Sent(k, i) == IF i <= Len(typed[k]) THEN typed[k][i] ELSE ending[i - Len(typed[k])]

(* The j-th byte of rx is byte at[j] + 1 of line of[j], and they come in   *)
(* the order they were typed up to the end of the last line.               *)
Aligned(of, at) ==
    /\ of \in [1..(Len(rx) + 1) -> Nat] /\ at \in [1..(Len(rx) + 1) -> Nat]
    /\ of[Len(rx) + 1] = Len(typed) + 1 /\ at[Len(rx) + 1] = 0
    /\ \A j \in 1..Len(rx) :
          /\ of[j] \in 1..Len(typed) /\ at[j] < SentLen(of[j])
          /\ rx[j] = Sent(of[j], at[j] + 1)
          /\ IF at[j] + 1 < SentLen(of[j])
               THEN of[j + 1] = of[j] /\ at[j + 1] = at[j] + 1
               ELSE of[j + 1] = of[j] + 1 /\ at[j + 1] = 0

(* d bytes of the text of line k have been read, and nothing after it.     *)
InText(k, d) == k <= Len(typed) /\ d <= Len(typed[k])

(* What has been read of it is in partial.                                 *)
HasRead(k, d) == partial = IF InText(k, d) THEN SubSeq(typed[k], 1, d) ELSE <<>>

NameBefore(p, user) == p > 1 /\ p <= Len(typed) + 1 /\ SameName(typed[p - 1], user.name)

(* The line a reader gets that begins when d bytes of line k are read: the *)
(* next one if only the LF of CR LF is left of this.                       *)
PromptLine(k, d) == IF k <= Len(typed) /\ d > Len(typed[k]) THEN k + 1 ELSE k

(* The user name is read from the beginning of a line, and so is the       *)
(* password if that name is a user's; it was then typed just before.       *)
PromptsReadLines(k, d) ==
    /\ reader = "username" => HasRead(k, d)
    /\ reader = "password" =>
          \A user \in Users : SameName(username, user.name) =>
              HasRead(k, d) /\ NameBefore(PromptLine(k, d), user)

(* With one byte for enter, and lines that fit, all readers do.            *)
LinesFit == Len(ending) = 1 /\ \A k \in 1..Len(typed) : Len(typed[k]) <= NameLimit

AllReadLines(k, d) ==
    /\ HasRead(k, d)
    /\ Len(readings) = k - 1
    /\ \A j \in 1..Len(readings) : j <= Len(typed) /\ readings[j] = typed[j]
    /\ last_char \in {Other, ending[1]}

Place(k, d) == PromptsReadLines(k, d) /\ (LinesFit => AllReadLines(k, d))

IInv ==
    /\ TypeOK /\ Sequences
    /\ \E of, at : Aligned(of, at) /\ Place(of[1], at[1])
    /\ LoggedInAsTyped

-----------------------------------------------------------------------------

(* The typed lines are sequences of bytes other than CR and LF.            *)
LEMMA TypedLine ==
    ASSUME TypeOK, NEW k \in 1..Len(typed)
    PROVE  /\ typed[k] \in Seq(DOMAIN Fold) /\ Len(typed[k]) \in Nat
           /\ \A i \in 1..Len(typed[k]) : typed[k][i] \in DOMAIN Fold /\ typed[k][i] \notin Newline
  BY LineAssumption DEF TypeOK

LEMMA EndingShape ==
    ASSUME Sequences
    PROVE  /\ ending \in Seq(Newline) /\ Len(ending) \in {1, 2}
           /\ \A i \in 1..Len(ending) : ending[i] \in Newline
           /\ CR # LF /\ Other \notin Newline
<1>1. CR # LF /\ Other \notin Newline /\ CR \in Newline /\ LF \in Newline
  BY DEF Newline, CR, LF, Other
<1>2. CASE ending = <<CR>>
  BY <1>1, <1>2
<1>3. CASE ending = <<LF>>
  BY <1>1, <1>3
<1>4. CASE ending = <<CR, LF>>
  BY <1>1, <1>4
<1> QED
  BY <1>2, <1>3, <1>4 DEF Sequences

LEMMA InitInv == Init => IInv
<1> SUFFICES ASSUME Init PROVE IInv
  OBVIOUS
<1>1. TypeOK
  BY LimitAssumption DEF Init, TypeOK
<1>2. Sequences
  BY EndingAssumption DEF Init, Sequences
<1> DEFINE of == [j \in {1} |-> 1]
           at == [j \in {1} |-> 0]
<1>3. Aligned(of, at)
  BY DEF Init, Aligned
<1>4. Place(of[1], at[1])
  BY EndingShape, <1>2 DEF Init, Place, PromptsReadLines, AllReadLines, HasRead, InText
<1>5. LoggedInAsTyped
  BY DEF Init, LoggedInAsTyped
<1> QED
  BY <1>1, <1>2, <1>3, <1>4, <1>5 DEF IInv

-----------------------------------------------------------------------------
(* TypeOK, and what it says of the sequences.                              *)

LEMMA NextType == TypeOK /\ Sequences /\ [Next]_vars => TypeOK' /\ Sequences'
<1> SUFFICES ASSUME TypeOK, Sequences, [Next]_vars PROVE TypeOK' /\ Sequences'
  OBVIOUS
<1> USE LimitAssumption
<1>1. ASSUME NEW line \in Lines, Type(line) PROVE TypeOK' /\ Sequences'
  <2>1. line \in Seq(Byte) /\ ending \in Seq(Byte)
    BY LineAssumption, EndingShape DEF Byte
  <2>2. rx' \in Seq(Byte)
    BY <1>1, <2>1 DEF Type, Sequences
  <2>3. typed' \in Seq(Lines) /\ Len(typed') <= MaxLines
    BY <1>1 DEF Type, TypeOK
  <2> QED
    BY <1>1, <2>2, <2>3 DEF Type, TypeOK, Sequences
<1>2. ASSUME NEW who, Reads(who)
      PROVE  c \in Byte /\ rx' \in Seq(Byte) /\ ending' = ending /\ typed' = typed
  BY <1>2 DEF Reads, c, Sequences
<1>3. CASE SwallowNewline
  BY <1>2, <1>3 DEF SwallowNewline, TypeOK, Sequences
<1>4. CASE EditLine
  <2>1. reader = "service" /\ c \in Byte /\ partial \in Seq(Byte) /\ Len(partial) <= MaxLineLength - 1
    BY <1>2, <1>4 DEF EditLine, TypeOK, Sequences, Reads
  <2>2. partial' \in Seq(Byte) /\ Len(partial') <= MaxLineLength - 1
    BY <1>4, <2>1 DEF EditLine
  <2> QED
    BY <1>2, <1>4, <2>1, <2>2 DEF EditLine, TypeOK, Sequences, Reads
<1>5. CASE Submit
  BY <1>2, <1>5 DEF Submit, LineRead, TypeOK, Sequences, Reads
<1>6. CASE ReadName
  <2>1. reader # "service" /\ c \in Byte /\ partial \in Seq(Byte) /\ Len(partial) < NameLimit
    BY <1>2, <1>6 DEF ReadName, Takes, HasRoom, Sequences, Reads
  <2>2. partial' \in Seq(Byte) /\ Len(partial') <= NameLimit
    BY <1>6, <2>1 DEF ReadName
  <2> QED
    BY <1>2, <1>6, <2>1, <2>2 DEF ReadName, TypeOK, Sequences, Reads
<1>7. CASE EndUsername
  BY <1>2, <1>7 DEF EndUsername, LineRead, TypeOK, Sequences, Reads
<1>8. CASE EndPassword
  BY <1>2, <1>8 DEF EndPassword, LineRead, TypeOK, Sequences, Reads
<1>9. CASE UNCHANGED vars
  BY <1>9 DEF vars, TypeOK, Sequences
<1> QED
  BY <1>1, <1>3, <1>4, <1>5, <1>6, <1>7, <1>8, <1>9 DEF Next

-----------------------------------------------------------------------------
(* How the bytes in rx stay aligned with the lines.                        *)

(* Where reading one more byte gets: k, d before it and m, e after it.     *)
Advances(k, d, m, e) ==
    /\ k \in 1..Len(typed) /\ d \in Nat /\ d < SentLen(k)
    /\ c = Sent(k, d + 1)
    /\ IF d + 1 < SentLen(k) THEN m = k /\ e = d + 1 ELSE m = k + 1 /\ e = 0

LEMMA ReadOne ==
    ASSUME TypeOK, Sequences, NEW who, Reads(who), NEW of, NEW at, Aligned(of, at)
    PROVE  \E later, next :
              Aligned(later, next)' /\ Advances(of[1], at[1], later[1], next[1])
<1>1. Len(rx) \in Nat \ {0} /\ rx' = Tail(rx) /\ Len(rx') = Len(rx) - 1
      /\ rx[1] = c /\ (\A j \in 1..Len(rx') : rx'[j] = rx[j + 1])
      /\ typed' = typed /\ ending' = ending
  BY DEF Reads, Sequences, c
<1>2. PICK later : later = [j \in 1..Len(rx) |-> of[j + 1]]
  OBVIOUS
<1>3. PICK next : next = [j \in 1..Len(rx) |-> at[j + 1]]
  OBVIOUS
<1>4. Len(rx') + 1 = Len(rx) /\ Len(typed) \in Nat
  BY <1>1 DEF TypeOK
<1>5. Aligned(later, next)'
  <2>1. later \in [1..(Len(rx') + 1) -> Nat] /\ next \in [1..(Len(rx') + 1) -> Nat]
    BY SMTT(30), <1>1, <1>2, <1>3, <1>4 DEF Aligned
  <2>2. later[Len(rx') + 1] = Len(typed') + 1 /\ next[Len(rx') + 1] = 0
    BY <1>1, <1>2, <1>3, <1>4 DEF Aligned
  <2>3. ASSUME NEW j \in 1..Len(rx')
        PROVE  /\ later[j] \in 1..Len(typed') /\ next[j] < SentLen(later[j])'
               /\ rx'[j] = Sent(later[j], next[j] + 1)'
               /\ IF next[j] + 1 < SentLen(later[j])'
                    THEN later[j + 1] = later[j] /\ next[j + 1] = next[j] + 1
                    ELSE later[j + 1] = later[j] + 1 /\ next[j + 1] = 0
    <3>1. j \in 1..Len(rx) /\ j + 1 \in 1..Len(rx) /\ (j + 1) + 1 \in 1..(Len(rx) + 1)
      BY <1>1, <1>4
    <3>2. later[j] = of[j + 1] /\ next[j] = at[j + 1]
          /\ later[j + 1] = of[(j + 1) + 1] /\ next[j + 1] = at[(j + 1) + 1]
      BY <1>2, <1>3, <3>1
    <3>3. rx'[j] = rx[j + 1]
      BY <1>1
    <3> QED
      BY ZenonT(40), <1>1, <3>1, <3>2, <3>3 DEF Aligned, SentLen, Sent
  <2> QED
    BY <2>1, <2>2, <2>3 DEF Aligned
<1>6. Advances(of[1], at[1], later[1], next[1])
  <2>1. later[1] = of[1 + 1] /\ next[1] = at[1 + 1] /\ 1 \in 1..Len(rx)
    BY <1>1, <1>2, <1>3
  <2> QED
    BY <1>1, <2>1 DEF Aligned, Advances
<1> QED
  BY <1>5, <1>6

LEMMA TypedOne ==
    ASSUME TypeOK, Sequences, NEW line \in Lines, Type(line),
           NEW of, NEW at, Aligned(of, at)
    PROVE  \E later, next : Aligned(later, next)' /\ later[1] = of[1] /\ next[1] = at[1]
<1> DEFINE n == Len(rx)
           all == n + Len(line) + Len(ending)
<1>1. /\ n \in Nat /\ Len(line) \in Nat /\ Len(ending) \in Nat \ {0} /\ Len(typed) \in Nat
      /\ line \in Seq(Byte) /\ ending \in Seq(Byte) /\ rx \in Seq(Byte)
  <2>1. Newline \subseteq Byte /\ line \in Seq(DOMAIN Fold) /\ DOMAIN Fold \subseteq Byte
    BY LineAssumption DEF Byte
  <2>2. ending \in Seq(Newline) /\ Len(ending) \in Nat \ {0}
    BY EndingShape
  <2>3. rx \in Seq(Byte) /\ typed \in Seq(Lines)
    BY DEF Sequences, TypeOK
  <2> QED
    BY <2>1, <2>2, <2>3
<1>2. /\ typed' = Append(typed, line) /\ ending' = ending
      /\ rx' = (rx \o line) \o ending
  BY DEF Type
<1>3. /\ Len(typed') = Len(typed) + 1 /\ typed'[Len(typed) + 1] = line
      /\ \A k \in 1..Len(typed) : typed'[k] = typed[k]
  BY <1>2 DEF TypeOK
<1>4. /\ Len(rx') = all
      /\ \A j \in 1..n : rx'[j] = rx[j]
      /\ \A j \in 1..Len(line) : rx'[n + j] = line[j]
      /\ \A j \in 1..Len(ending) : rx'[n + Len(line) + j] = ending[j]
  BY <1>1, <1>2
<1>5. PICK later : later = [j \in 1..(all + 1) |->
                              IF j <= n THEN of[j] ELSE IF j <= all THEN Len(typed) + 1 ELSE Len(typed) + 2]
  OBVIOUS
<1>6. PICK next : next = [j \in 1..(all + 1) |->
                              IF j <= n THEN at[j] ELSE IF j <= all THEN j - n - 1 ELSE 0]
  OBVIOUS
<1>7. Aligned(later, next)'
  <2>1. later \in [1..(Len(rx') + 1) -> Nat] /\ next \in [1..(Len(rx') + 1) -> Nat]
    BY SMTT(30), <1>1, <1>4, <1>5, <1>6 DEF Aligned
  <2>2. later[Len(rx') + 1] = Len(typed') + 1 /\ next[Len(rx') + 1] = 0
    BY <1>1, <1>3, <1>4, <1>5, <1>6
  <2>3. ASSUME NEW j \in 1..Len(rx')
        PROVE  /\ later[j] \in 1..Len(typed') /\ next[j] < SentLen(later[j])'
               /\ rx'[j] = Sent(later[j], next[j] + 1)'
               /\ IF next[j] + 1 < SentLen(later[j])'
                    THEN later[j + 1] = later[j] /\ next[j + 1] = next[j] + 1
                    ELSE later[j + 1] = later[j] + 1 /\ next[j + 1] = 0
    <3>1. j \in 1..all /\ j + 1 \in 1..(all + 1) /\ j \in 1..(all + 1)
      BY <1>1, <1>4
    <3>2. CASE j <= n
      <4>1. j \in 1..n /\ later[j] = of[j] /\ next[j] = at[j] /\ of[j] \in 1..Len(typed)
        BY <1>1, <1>5, <1>6, <3>1, <3>2 DEF Aligned
      <4>2. later[j + 1] = of[j + 1] /\ next[j + 1] = at[j + 1]
        <5>1. CASE j + 1 <= n
          BY <1>1, <1>5, <1>6, <3>1, <5>1
        <5>2. CASE j + 1 = n + 1
          <6>1. later[j + 1] = Len(typed) + 1 /\ next[j + 1] = 0
            BY <1>1, <1>5, <1>6, <3>1, <5>2
          <6> QED
            BY <6>1, <5>2 DEF Aligned
        <5> QED
          BY <1>1, <3>1, <3>2, <5>1, <5>2
      <4>3. typed'[of[j]] = typed[of[j]] /\ rx'[j] = rx[j]
        BY <1>3, <1>4, <4>1
      <4>4. SentLen(of[j])' = SentLen(of[j]) /\ Sent(of[j], at[j] + 1)' = Sent(of[j], at[j] + 1)
        BY <1>2, <4>3 DEF SentLen, Sent
      <4> HIDE DEF n, all
      <4>5. of[j] \in 1..Len(typed')
        BY <1>1, <1>3, <4>1
      <4>6. /\ at[j] < SentLen(of[j]) /\ rx[j] = Sent(of[j], at[j] + 1)
            /\ IF at[j] + 1 < SentLen(of[j])
                 THEN of[j + 1] = of[j] /\ at[j + 1] = at[j] + 1
                 ELSE of[j + 1] = of[j] + 1 /\ at[j + 1] = 0
        BY <4>1 DEF Aligned, n
      <4> QED
        BY <4>1, <4>2, <4>3, <4>4, <4>5, <4>6
    <3>3. CASE j > n
      <4>1. later[j] = Len(typed) + 1 /\ next[j] = j - n - 1
        BY <1>1, <1>5, <1>6, <3>1, <3>3
      <4>2. SentLen(later[j])' = Len(line) + Len(ending)
        BY <1>2, <1>3, <4>1 DEF SentLen
      <4>3. IF j < all THEN later[j + 1] = Len(typed) + 1 /\ next[j + 1] = j - n
            ELSE later[j + 1] = Len(typed) + 2 /\ next[j + 1] = 0
        BY <1>1, <1>5, <1>6, <3>1, <3>3
      <4>4. rx'[j] = IF j - n <= Len(line) THEN line[j - n] ELSE ending[j - n - Len(line)]
        <5>1. CASE j - n <= Len(line)
          <6>1. j - n \in 1..Len(line) /\ n + (j - n) = j
            BY <1>1, <3>1, <3>3, <5>1
          <6> QED
            BY <1>4, <5>1, <6>1
        <5>2. CASE j - n > Len(line)
          <6>1. j - n - Len(line) \in 1..Len(ending) /\ n + Len(line) + (j - n - Len(line)) = j
            BY <1>1, <3>1, <3>3, <5>2
          <6> QED
            BY SMTT(30), <1>1, <1>4, <3>1, <5>2, <6>1
        <5> QED
          BY <1>1, <3>1, <5>1, <5>2
      <4>5. Sent(later[j], next[j] + 1)' = IF j - n <= Len(line) THEN line[j - n] ELSE ending[j - n - Len(line)]
        <5>1. next[j] + 1 = j - n
          BY <1>1, <3>1, <4>1
        <5> QED
          BY <1>2, <1>3, <4>1, <5>1 DEF Sent
      <4> QED
        BY SMTT(30), <1>1, <1>3, <3>1, <3>3, <4>1, <4>2, <4>3, <4>4, <4>5
    <3> QED
      BY <1>1, <3>1, <3>2, <3>3
  <2> QED
    BY <2>1, <2>2, <2>3 DEF Aligned
<1>8. later[1] = of[1] /\ next[1] = at[1]
  BY <1>1, <1>5, <1>6 DEF Aligned
<1> QED
  BY <1>7, <1>8

-----------------------------------------------------------------------------
(* What a byte read is: one of the line's text, or part of its ending.     *)

LEMMA ByteRead ==
    ASSUME TypeOK, Sequences, NEW k, NEW d, NEW m, NEW e, Advances(k, d, m, e)
    PROVE  /\ k \in 1..Len(typed) /\ typed[k] \in Seq(DOMAIN Fold) /\ d \in Nat
           /\ \/ /\ c \notin Newline
                 /\ d < Len(typed[k]) /\ m = k /\ e = d + 1
                 /\ SubSeq(typed[k], 1, e) = Append(SubSeq(typed[k], 1, d), c)
              \/ /\ c \in Newline /\ d >= Len(typed[k])
                 /\ \E i \in 1..Len(ending) : c = ending[i]
                 /\ Len(ending) = 1 => d = Len(typed[k]) /\ m = k + 1
                 /\ \/ m = k /\ e > Len(typed[k]) /\ e \in Nat /\ Len(ending) # 1
                    \/ m = k + 1 /\ e = 0
<1>1. k \in 1..Len(typed) /\ d \in Nat
  BY DEF Advances
<1>2. PICK text : text = typed[k]
  OBVIOUS
<1>3. PICK n \in Nat : n = Len(typed[k])
  BY <1>1, TypedLine
<1>4. PICK width \in {1, 2} : width = Len(ending)
  BY EndingShape
<1>5. text \in Seq(DOMAIN Fold) /\ Len(text) = n
  BY <1>1, <1>2, <1>3, TypedLine
<1>6. /\ d < n + width
      /\ IF d + 1 < n + width THEN m = k /\ e = d + 1 ELSE m = k + 1 /\ e = 0
      /\ c = IF d + 1 <= n THEN text[d + 1] ELSE ending[d + 1 - n]
  BY <1>2, <1>3, <1>4 DEF Advances, SentLen, Sent
<1>7. CASE d < n
  <2>1. c = text[d + 1] /\ d + 1 \in 1..n /\ m = k /\ e = d + 1
    BY <1>1, <1>6, <1>7
  <2>2. c \notin Newline
    BY <1>1, <1>2, <1>3, <2>1, TypedLine
  <2>3. SubSeq(text, 1, d + 1) = Append(SubSeq(text, 1, d), text[d + 1])
    BY <1>1, <1>5, <1>7
  <2> QED
    BY <1>1, <1>2, <1>3, <1>5, <1>7, <2>1, <2>2, <2>3
<1>8. CASE d >= n
  <2>1. c = ending[d + 1 - n] /\ d + 1 - n \in 1..width
    BY <1>1, <1>6, <1>8
  <2>2. c \in Newline
    BY <1>4, <2>1, EndingShape
  <2>3. /\ \/ m = k /\ e > n /\ e \in Nat /\ width # 1
           \/ m = k + 1 /\ e = 0
        /\ width = 1 => d = n
    BY <1>1, <1>6, <1>8
  <2> QED
    BY <1>1, <1>2, <1>3, <1>4, <1>5, <1>8, <2>1, <2>2, <2>3
<1> QED
  BY <1>1, <1>7, <1>8

(* After the end of a line, a reader begins with nothing.                  *)
LEMMA NewLineBegins ==
    ASSUME TypeOK, typed' = typed, partial' = <<>>,
           NEW m \in Nat \ {0}, NEW e \in Nat,
           (m <= Len(typed) /\ e > Len(typed[m])) \/ e = 0
    PROVE  HasRead(m, e)'
<1>1. CASE ~InText(m, e)
  BY <1>1 DEF HasRead, InText
<1>2. CASE InText(m, e)
  <2>1. m \in 1..Len(typed)
    BY <1>2 DEF InText, TypeOK
  <2>2. typed[m] \in Seq(DOMAIN Fold) /\ Len(typed[m]) \in Nat /\ e <= Len(typed[m])
    BY <1>2, <2>1, TypedLine DEF InText
  <2>3. e = 0 /\ SubSeq(typed[m], 1, 0) = <<>>
    BY <2>2
  <2> QED
    BY <1>2, <2>3 DEF HasRead
<1> QED
  BY <1>1, <1>2

(* Typing one more line changes nothing of what has been read.             *)
LEMMA TypingKeepsPlace ==
    ASSUME TypeOK, Sequences, NEW line \in Lines, Type(line), LoggedInAsTyped,
           NEW k \in Nat \ {0}, NEW d \in Nat, Place(k, d),
           k <= Len(typed) + 1, k = Len(typed) + 1 => d = 0
    PROVE  Place(k, d)' /\ LoggedInAsTyped'
<1>1. /\ Len(typed) \in Nat /\ Len(typed') = Len(typed) + 1
      /\ \A j \in 1..Len(typed) : typed'[j] = typed[j]
  BY DEF Type, TypeOK
<1>2. UNCHANGED <<ending, reader, partial, username, last_char, current_mode, readings>>
  BY DEF Type
<1>3. TypeOK' /\ Sequences'
  BY NextType DEF Next
<1>4. HasRead(k, d) => HasRead(k, d)'
  <2>1. CASE k <= Len(typed)
    <3>1. typed'[k] = typed[k] /\ k <= Len(typed')
      BY <1>1, <2>1
    <3> QED
      BY <1>2, <2>1, <3>1 DEF HasRead, InText
  <2>2. CASE k = Len(typed) + 1
    <3>1. d = 0 /\ k \in 1..Len(typed')
      BY <1>1, <2>2
    <3>2. typed'[k] \in Seq(DOMAIN Fold)
      BY <1>3, <3>1, LineAssumption DEF TypeOK
    <3>3. SubSeq(typed'[k], 1, 0) = <<>>
      BY <3>2
    <3>4. HasRead(k, d) => partial = <<>>
      BY <1>1, <2>2 DEF HasRead, InText
    <3>5. partial = <<>> => HasRead(k, 0)'
      BY <1>2, <3>3 DEF HasRead
    <3> QED
      BY <3>1, <3>4, <3>5
  <2> QED
    BY <1>1, <2>1, <2>2
<1>5. ASSUME NEW p \in Nat, NEW user \in Users, NameBefore(p, user) PROVE NameBefore(p, user)'
  <2>1. p > 1 /\ p <= Len(typed) + 1 /\ SameName(typed[p - 1], user.name)
    BY <1>5 DEF NameBefore
  <2>2. p <= Len(typed') + 1 /\ typed'[p - 1] = typed[p - 1]
    BY <1>1, <2>1
  <2> QED
    BY <2>1, <2>2 DEF NameBefore, SameName
<1>6. PromptsReadLines(k, d)'
  <2>1. reader = "username" => HasRead(k, d)'
    BY <1>4 DEF Place, PromptsReadLines
  <2>2. PromptLine(k, d) \in Nat /\ PromptLine(k, d)' = PromptLine(k, d)
    <3>1. CASE k <= Len(typed)
      <4>1. typed'[k] = typed[k] /\ k <= Len(typed')
        BY <1>1, <3>1
      <4> QED
        BY <3>1, <4>1 DEF PromptLine
    <3>2. CASE k = Len(typed) + 1
      <4>1. k \in 1..Len(typed') /\ d = 0
        BY <1>1, <3>2
      <4>2. Len(typed'[k]) \in Nat
        BY <1>3, <4>1, LineAssumption DEF TypeOK
      <4> QED
        BY <1>1, <3>2, <4>1, <4>2 DEF PromptLine
    <3> QED
      BY <1>1, <3>1, <3>2
  <2>3. PICK p \in Nat : p = PromptLine(k, d)
    BY <2>2
  <2>4. ASSUME reader = "password", NEW user \in Users, SameName(username, user.name)
        PROVE  HasRead(k, d)' /\ NameBefore(p, user)'
    BY <1>4, <1>5, <2>3, <2>4 DEF Place, PromptsReadLines
  <2>5. ASSUME reader = "password", NEW user \in Users, SameName(username, user.name)
        PROVE  HasRead(k, d)' /\ NameBefore(PromptLine(k, d), user)'
    BY <2>2, <2>3, <2>4, <2>5 DEF NameBefore
  <2> QED
    BY <1>2, <2>1, <2>5 DEF PromptsReadLines, SameName
<1>7. LinesFit' => AllReadLines(k, d)'
  <2> SUFFICES ASSUME LinesFit' PROVE AllReadLines(k, d)'
    OBVIOUS
  <2>1. LinesFit
    BY <1>1, <1>2 DEF LinesFit
  <2>2. AllReadLines(k, d)
    BY <2>1 DEF Place
  <2> QED
    BY <1>1, <1>2, <1>4, <2>2 DEF AllReadLines
<1>8. LoggedInAsTyped'
  <2> SUFFICES ASSUME current_mode # Mode0 PROVE LoggedInAsTyped'
    BY <1>2 DEF LoggedInAsTyped
  <2>1. PICK j \in 1..(Len(typed) - 1), user \in Users :
           /\ user.mode = current_mode
           /\ SameName(typed[j], user.name) /\ typed[j + 1] = user.password
    BY DEF LoggedInAsTyped
  <2>2. j \in 1..(Len(typed') - 1) /\ typed'[j] = typed[j] /\ typed'[j + 1] = typed[j + 1]
    BY <1>1
  <2> QED
    BY ZenonT(40), <1>2, <2>1, <2>2 DEF LoggedInAsTyped, SameName
<1> QED
  BY <1>6, <1>7, <1>8 DEF Place

(* A byte of a line's text that its reader takes.                          *)
LEMMA TakingKeepsPlace ==
    ASSUME TypeOK, Sequences, NEW k, NEW d, NEW m, NEW e,
           Place(k, d), LoggedInAsTyped, Advances(k, d, m, e),
           EditLine \/ ReadName
    PROVE  Place(m, e)' /\ LoggedInAsTyped'
<1>1. /\ typed' = typed /\ ending' = ending
      /\ UNCHANGED <<reader, username, current_mode, readings>>
      /\ c \notin Newline
  BY DEF EditLine, ReadName, Reads, Takes
<1>2. /\ k \in 1..Len(typed) /\ typed[k] \in Seq(DOMAIN Fold) /\ d \in Nat
      /\ d < Len(typed[k]) /\ m = k /\ e = d + 1
      /\ SubSeq(typed[k], 1, e) = Append(SubSeq(typed[k], 1, d), c)
  BY ZenonT(40), <1>1, ByteRead
<1>3. Len(typed[k]) \in Nat /\ InText(k, d) /\ InText(m, e)
  BY <1>2 DEF InText
<1>4. HasRead(k, d) /\ partial' = Append(partial, c) => HasRead(m, e)'
  BY <1>1, <1>2, <1>3 DEF HasRead, InText
<1>5. PromptsReadLines(m, e)'
  <2>1. CASE EditLine
    BY <1>1, <2>1 DEF EditLine, Reads, PromptsReadLines
  <2>2. CASE ReadName
    <3>1. reader \in {"username", "password"} /\ partial' = Append(partial, c)
      BY <2>2 DEF ReadName, Reads
    <3>2. reader = "username" => HasRead(m, e)'
      BY <1>4, <3>1 DEF Place, PromptsReadLines
    <3>3. PromptLine(k, d) = k /\ PromptLine(m, e)' = k
      BY <1>1, <1>2, <1>3 DEF PromptLine
    <3>4. ASSUME reader = "password", NEW user \in Users, SameName(username, user.name)
          PROVE  HasRead(m, e)' /\ NameBefore(PromptLine(m, e), user)'
      <4>1. HasRead(m, e)' /\ NameBefore(k, user)
        BY <1>4, <3>1, <3>3, <3>4 DEF Place, PromptsReadLines
      <4> QED
        BY <1>1, <3>3, <4>1 DEF NameBefore, SameName
    <3> QED
      BY <1>1, <3>2, <3>4 DEF PromptsReadLines, SameName
  <2> QED
    BY <2>1, <2>2
<1>6. LinesFit' => AllReadLines(m, e)'
  <2> SUFFICES ASSUME LinesFit' PROVE AllReadLines(m, e)'
    OBVIOUS
  <2>1. LinesFit /\ AllReadLines(k, d) /\ Len(typed[k]) <= NameLimit
    BY <1>1, <1>2 DEF LinesFit, Place
  <2>2. partial = SubSeq(typed[k], 1, d) /\ Len(partial) = d
    BY <1>2, <1>3, <2>1 DEF AllReadLines, HasRead
  <2>3. partial' = Append(partial, c)
    <3>1. d < MaxLineLength - 1
      BY <1>2, <1>3, <2>1, LimitAssumption
    <3> QED
      BY <2>2, <3>1 DEF EditLine, ReadName
  <2>4. HasRead(m, e)'
    BY <1>4, <2>1, <2>3 DEF AllReadLines
  <2>5. last_char' \in {Other, last_char}
    BY DEF EditLine, ReadName
  <2> QED
    BY <1>1, <1>2, <2>1, <2>4, <2>5 DEF AllReadLines
<1>7. LoggedInAsTyped'
  BY <1>1 DEF LoggedInAsTyped, SameName
<1> QED
  BY <1>5, <1>6, <1>7 DEF Place

(* CR or LF where one byte ends a line: its reader has all of it.          *)
LEMMA WholeLine ==
    ASSUME TypeOK, Sequences, NEW k, NEW d, NEW m, NEW e,
           AllReadLines(k, d), LinesFit, Advances(k, d, m, e), c \in Newline
    PROVE  /\ partial = typed[k] /\ k \in 1..Len(typed) /\ Len(readings) = k - 1
           /\ m = k + 1 /\ e = 0 /\ c = ending[1]
<1>1. /\ k \in 1..Len(typed) /\ typed[k] \in Seq(DOMAIN Fold)
      /\ d = Len(typed[k]) /\ m = k + 1 /\ e = 0 /\ c = ending[1]
  BY ByteRead DEF LinesFit
<1>2. SubSeq(typed[k], 1, d) = typed[k] /\ InText(k, d)
  BY <1>1 DEF InText, TypeOK
<1> QED
  BY <1>1, <1>2 DEF AllReadLines, HasRead

(* What the readers have read when this one has read its line.             *)
LEMMA OneMoreReading ==
    ASSUME TypeOK, Sequences, NEW k, NEW d, NEW m, NEW e,
           AllReadLines(k, d), LinesFit, Advances(k, d, m, e), c \in Newline,
           typed' = typed, ending' = ending, partial' = <<>>,
           readings' = Append(readings, partial), last_char' \in {c, last_char}
    PROVE  AllReadLines(m, e)'
<1>1. /\ partial = typed[k] /\ k \in 1..Len(typed) /\ Len(readings) = k - 1
      /\ m = k + 1 /\ e = 0 /\ c = ending[1] /\ Len(typed) \in Nat
  BY WholeLine DEF TypeOK
<1>2. HasRead(m, e)'
  BY <1>1, NewLineBegins
<1>3. /\ Len(readings') = k /\ readings'[k] = typed[k]
      /\ \A j \in 1..(k - 1) : readings'[j] = readings[j]
  BY <1>1 DEF Sequences
<1>4. ASSUME NEW j \in 1..Len(readings') PROVE j <= Len(typed) /\ readings'[j] = typed[j]
  BY <1>1, <1>3 DEF AllReadLines
<1>5. Len(readings') = m - 1
  BY <1>1, <1>3
<1>6. last_char' \in {Other, ending[1]}
  BY <1>1 DEF AllReadLines
<1> QED
  BY <1>2, <1>4, <1>5, <1>6 DEF AllReadLines

LEMMA SubmitKeepsPlace ==
    ASSUME TypeOK, Sequences, NEW k, NEW d, NEW m, NEW e,
           Place(k, d), LoggedInAsTyped, Advances(k, d, m, e),
           Submit \/ SwallowNewline
    PROVE  Place(m, e)' /\ LoggedInAsTyped'
<1>1. /\ typed' = typed /\ ending' = ending /\ reader = "service"
      /\ reader' # "password" /\ current_mode' \in {current_mode, Mode0}
  BY DEF Submit, SwallowNewline, LineRead, Reads
<1>2. c \in Newline
  BY DEF Submit, SwallowNewline
<1>3. PromptsReadLines(m, e)'
  <2>1. CASE SwallowNewline
    BY <1>1, <2>1 DEF SwallowNewline, PromptsReadLines
  <2>2. CASE Submit
    <3>1. m \in Nat \ {0} /\ e \in Nat /\ ((m <= Len(typed) /\ e > Len(typed[m])) \/ e = 0)
      BY <1>2, ByteRead DEF TypeOK
    <3>2. partial' = <<>>
      BY <2>2 DEF Submit, LineRead
    <3>3. HasRead(m, e)'
      BY <1>1, <3>1, <3>2, NewLineBegins
    <3> QED
      BY <1>1, <3>3 DEF PromptsReadLines
  <2> QED
    BY <2>1, <2>2
<1>4. LinesFit' => AllReadLines(m, e)'
  <2> SUFFICES ASSUME LinesFit' PROVE AllReadLines(m, e)'
    OBVIOUS
  <2>1. LinesFit /\ AllReadLines(k, d)
    BY <1>1 DEF LinesFit, Place
  <2>2. CASE Submit
    BY <1>1, <1>2, <2>1, <2>2, OneMoreReading DEF Submit, LineRead
  <2>3. CASE SwallowNewline
    <3>1. {c, last_char} = Newline /\ c = ending[1] /\ last_char \in {Other, ending[1]}
      BY <1>2, <2>1, <2>3, WholeLine DEF SwallowNewline, AllReadLines
    <3>2. CR \in {ending[1], Other} /\ LF \in {ending[1], Other}
      BY <3>1 DEF Newline
    <3>3. CR # LF /\ CR # Other /\ LF # Other
      BY EndingShape DEF Newline
    <3> QED
      BY <3>2, <3>3
  <2> QED
    BY <2>2, <2>3
<1>5. LoggedInAsTyped'
  BY <1>1 DEF LoggedInAsTyped, SameName
<1> QED
  BY <1>3, <1>4, <1>5 DEF Place

(* A prompt that is full ends in the middle of a line, with as many        *)
(* characters as no user's name or password has.                           *)
LEMMA FullPrompt ==
    ASSUME TypeOK, Sequences, reader \in {"username", "password"}, ~Takes, c \notin Newline
    PROVE  /\ Len(partial) = NameLimit
           /\ \A user \in Users : ~SameName(partial, user.name) /\ partial # user.password
<1>1. Len(partial) = NameLimit
  BY LimitAssumption DEF TypeOK, Sequences, Takes, HasRoom
<1>2. \A user \in Users : Len(user.name) < NameLimit /\ Len(user.password) < NameLimit
  BY UserAssumption, LimitAssumption
<1> QED
  BY <1>1, <1>2 DEF SameName

(* A line of CR LF of which LF is left cannot hold a name or a password.   *)
LEMMA NothingIsNoName ==
    ASSUME NEW user \in Users
    PROVE  ~SameName(<<>>, user.name) /\ user.password # <<>>
  BY UserAssumption, LimitAssumption DEF SameName

(* Otherwise the line that ends is what has been read.                     *)
LEMMA LineEnds ==
    ASSUME TypeOK, Sequences, NEW k, NEW d, NEW m, NEW e,
           HasRead(k, d), partial # <<>>, Advances(k, d, m, e), c \in Newline
    PROVE  /\ k \in 1..Len(typed) /\ partial = typed[k] /\ d = Len(typed[k])
           /\ PromptLine(k, d) = k /\ PromptLine(m, e) = k + 1
<1>1. InText(k, d)
  BY DEF HasRead
<1>2. /\ k \in 1..Len(typed) /\ typed[k] \in Seq(DOMAIN Fold) /\ d = Len(typed[k])
      /\ (m = k /\ e > Len(typed[k]) /\ e \in Nat) \/ (m = k + 1 /\ e = 0)
  BY <1>1, ByteRead DEF InText
<1>3. partial = typed[k]
  BY <1>1, <1>2 DEF HasRead
<1>4. PromptLine(m, e) = k + 1
  <2>1. m = k + 1 /\ e = 0 /\ k + 1 <= Len(typed) => Len(typed[k + 1]) \in Nat
    BY <1>2, TypedLine DEF TypeOK
  <2> QED
    BY <1>2, <2>1 DEF PromptLine, TypeOK
<1>5. PromptLine(k, d) = k
  BY <1>2 DEF PromptLine
<1> QED
  BY <1>2, <1>3, <1>4, <1>5

(* Where lines fit, a prompt is never full before its line ends.           *)
LEMMA PromptFits ==
    ASSUME TypeOK, Sequences, NEW k, NEW d, NEW m, NEW e,
           AllReadLines(k, d), LinesFit, Advances(k, d, m, e),
           reader \in {"username", "password"}, ~Takes
    PROVE  c \in Newline
<1> SUFFICES ASSUME c \notin Newline PROVE FALSE
  OBVIOUS
<1>1. /\ k \in 1..Len(typed) /\ typed[k] \in Seq(DOMAIN Fold) /\ d \in Nat /\ d < Len(typed[k])
  BY ByteRead
<1>2. Len(partial) = d
  BY <1>1 DEF AllReadLines, HasRead, InText
<1> QED
  BY <1>1, <1>2, FullPrompt, LimitAssumption DEF LinesFit

LEMMA PromptKeepsPlace ==
    ASSUME TypeOK, Sequences, NEW k, NEW d, NEW m, NEW e,
           Place(k, d), LoggedInAsTyped, Advances(k, d, m, e),
           EndUsername \/ EndPassword
    PROVE  Place(m, e)' /\ LoggedInAsTyped'
<1>1. /\ typed' = typed /\ ending' = ending /\ reader \in {"username", "password"} /\ ~Takes
      /\ readings' = Append(readings, partial) /\ partial' = <<>> /\ last_char' = last_char
  BY DEF EndUsername, EndPassword, LineRead, Reads
<1>2. LinesFit' => AllReadLines(m, e)'
  <2> SUFFICES ASSUME LinesFit' PROVE AllReadLines(m, e)'
    OBVIOUS
  <2>1. LinesFit /\ AllReadLines(k, d)
    BY <1>1 DEF LinesFit, Place
  <2>2. c \in Newline
    BY <1>1, <2>1, PromptFits
  <2> QED
    BY <1>1, <2>1, <2>2, OneMoreReading
<1>3. PromptsReadLines(m, e)' => Place(m, e)'
  BY <1>2 DEF Place
<1>4. CASE EndUsername
  <2>1. reader = "username" /\ reader' = "password" /\ username' = partial /\ current_mode' = current_mode
    BY <1>4 DEF EndUsername, LineRead, Reads
  <2>2. HasRead(k, d)
    BY <2>1 DEF Place, PromptsReadLines
  <2>3. ASSUME NEW user \in Users, SameName(partial, user.name)
        PROVE  HasRead(m, e)' /\ NameBefore(PromptLine(m, e), user)'
    <3>1. c \in Newline /\ partial # <<>>
      BY <1>1, <2>3, FullPrompt, NothingIsNoName
    <3>2. k \in 1..Len(typed) /\ partial = typed[k] /\ PromptLine(m, e) = k + 1
      BY <2>2, <3>1, LineEnds
    <3>3. m \in Nat \ {0} /\ e \in Nat /\ ((m <= Len(typed) /\ e > Len(typed[m])) \/ e = 0)
      BY <3>1, ByteRead DEF TypeOK
    <3>4. HasRead(m, e)'
      BY <1>1, <3>3, NewLineBegins
    <3>5. NameBefore(k + 1, user)
      BY <2>3, <3>2 DEF NameBefore, TypeOK
    <3>6. PromptLine(m, e)' = k + 1
      BY <1>1, <3>2 DEF PromptLine
    <3> QED
      BY <1>1, <3>4, <3>5, <3>6 DEF NameBefore, SameName
  <2>4. PromptsReadLines(m, e)'
    BY <2>1, <2>3 DEF PromptsReadLines, SameName
  <2>5. LoggedInAsTyped'
    BY <1>1, <2>1 DEF LoggedInAsTyped, SameName
  <2> QED
    BY <1>3, <2>4, <2>5
<1>5. CASE EndPassword
  <2>1. reader = "password" /\ reader' = "service"
    BY <1>5 DEF EndPassword, LineRead, Reads
  <2>2. PromptsReadLines(m, e)'
    BY <2>1 DEF PromptsReadLines
  <2>3. CASE current_mode' = current_mode
    <3>1. LoggedInAsTyped'
      BY <1>1, <2>3 DEF LoggedInAsTyped, SameName
    <3> QED
      BY <1>3, <2>2, <3>1
  <2>4. CASE current_mode' # current_mode
    <3>1. PICK user \in Users : /\ SameName(username, user.name) /\ partial = user.password
                                /\ current_mode' = user.mode
      BY <1>5, <2>4 DEF EndPassword, IsValid
    <3>2. HasRead(k, d) /\ NameBefore(PromptLine(k, d), user)
      BY <2>1, <3>1 DEF Place, PromptsReadLines
    <3>3. c \in Newline /\ partial # <<>>
      BY <1>1, <3>1, FullPrompt, NothingIsNoName
    <3>4. k \in 1..Len(typed) /\ partial = typed[k] /\ PromptLine(k, d) = k
      BY <3>2, <3>3, LineEnds
    <3>5. k > 1 /\ SameName(typed[k - 1], user.name)
      BY <3>2, <3>4 DEF NameBefore
    <3>6. k - 1 \in 1..(Len(typed) - 1) /\ (k - 1) + 1 = k
      BY <3>4, <3>5 DEF TypeOK
    <3>7. LoggedInAsTyped'
      BY <1>1, <3>1, <3>4, <3>5, <3>6 DEF LoggedInAsTyped, SameName
    <3> QED
      BY <1>3, <2>2, <3>7
  <2> QED
    BY <2>3, <2>4
<1> QED
  BY <1>4, <1>5

-----------------------------------------------------------------------------

LEMMA NextInv == IInv /\ [Next]_vars => IInv'
<1> SUFFICES ASSUME IInv, [Next]_vars PROVE IInv'
  OBVIOUS
<1>1. TypeOK /\ Sequences /\ LoggedInAsTyped /\ TypeOK' /\ Sequences'
  BY NextType DEF IInv
<1>2. PICK of, at : Aligned(of, at) /\ Place(of[1], at[1])
  BY DEF IInv
<1>3. ASSUME NEW line \in Lines, Type(line) PROVE IInv'
  <2>1. PICK later, next : Aligned(later, next)' /\ later[1] = of[1] /\ next[1] = at[1]
    BY <1>1, <1>2, <1>3, TypedOne
  <2>2. /\ of[1] \in Nat \ {0} /\ at[1] \in Nat /\ of[1] <= Len(typed) + 1
        /\ of[1] = Len(typed) + 1 => at[1] = 0
    <3>1. Len(rx) \in Nat /\ Len(typed) \in Nat
      BY <1>1 DEF TypeOK, Sequences
    <3>2. CASE Len(rx) = 0
      BY <1>2, <3>1, <3>2 DEF Aligned
    <3>3. CASE Len(rx) > 0
      <4>1. of[1] \in 1..Len(typed) /\ at[1] \in Nat
        BY <1>2, <3>1, <3>3 DEF Aligned
      <4> QED
        BY <3>1, <4>1
    <3> QED
      BY <3>1, <3>2, <3>3
  <2>3. Place(of[1], at[1])' /\ LoggedInAsTyped'
    BY <1>1, <1>2, <1>3, <2>2, TypingKeepsPlace
  <2> QED
    BY <1>1, <2>1, <2>3 DEF IInv
<1>4. ASSUME NEW who, Reads(who),
             SwallowNewline \/ EditLine \/ Submit \/ ReadName \/ EndUsername \/ EndPassword
      PROVE  IInv'
  <2>1. PICK later, next :
           Aligned(later, next)' /\ Advances(of[1], at[1], later[1], next[1])
    BY <1>1, <1>2, <1>4, ReadOne
  <2>2. Place(later[1], next[1])' /\ LoggedInAsTyped'
    BY <1>1, <1>2, <1>4, <2>1, TakingKeepsPlace, SubmitKeepsPlace, PromptKeepsPlace
  <2> QED
    BY <1>1, <2>1, <2>2 DEF IInv
<1>5. SwallowNewline \/ EditLine \/ Submit => Reads({"service"})
  BY DEF SwallowNewline, EditLine, Submit
<1>6. /\ ReadName => Reads({"username", "password"})
      /\ EndUsername => Reads({"username"})
      /\ EndPassword => Reads({"password"})
  BY DEF ReadName, EndUsername, EndPassword
<1>7. CASE UNCHANGED vars
  <2>1. Aligned(of, at)'
    BY <1>2, <1>7 DEF vars, Aligned, SentLen, Sent
  <2>2. PICK k, d : k = of[1] /\ d = at[1]
    OBVIOUS
  <2>3. PromptsReadLines(k, d)'
    BY <1>2, <1>7, <2>2
       DEF vars, Place, PromptsReadLines, HasRead, InText, NameBefore, PromptLine, SameName
  <2>4. LinesFit' => AllReadLines(k, d)'
    BY <1>2, <1>7, <2>2 DEF vars, Place, AllReadLines, LinesFit, HasRead, InText
  <2>5. LoggedInAsTyped'
    BY <1>1, <1>7 DEF vars, LoggedInAsTyped, SameName
  <2> QED
    BY <1>1, <2>1, <2>2, <2>3, <2>4, <2>5 DEF IInv, Place
<1> QED
  BY <1>3, <1>4, <1>5, <1>6, <1>7 DEF Next

LEMMA Invariant == Spec => []IInv
  BY InitInv, NextInv, PTL DEF Spec

(* What is read is bounded by the arrays it is read into                   *)
(* (cmd_login.cpp:64-83).                                                  *)
THEOREM LoginTypeCorrect == Spec => []TypeOK
<1>1. IInv => TypeOK
  BY DEF IInv
<1> QED
  BY <1>1, Invariant, PTL

(* For every table of users whose names and passwords leave a prompt room  *)
(* for one more character, whatever lines are typed, however far ahead,    *)
(* and whether enter is CR, LF or CR LF: the mode is a user's only if the  *)
(* name and right after it the password were typed as lines of their own.  *)
THEOREM ModeIsEarned == Spec => []LoggedInAsTyped
<1>1. IInv => LoggedInAsTyped
  BY DEF IInv
<1> QED
  BY <1>1, Invariant, PTL

(* Where enter is one byte and every line fits a prompt, no reader gets    *)
(* part of a line, two lines, or a line out of turn.                       *)
THEOREM ReadersShareTheInput == Spec => []EachReadsOneTypedLine
<1>1. IInv => EachReadsOneTypedLine
  BY DEF IInv, Place, AllReadLines, LinesFit, EachReadsOneTypedLine
<1> QED
  BY <1>1, Invariant, PTL

=============================================================================
