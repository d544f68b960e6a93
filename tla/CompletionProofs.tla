-------------------------- MODULE CompletionProofs --------------------------
(***************************************************************************)
(* Completion, help and dispatch agree on the commands of every table,     *)
(* whatever the names, their hashes and their permissions, as long as no   *)
(* two commands have the same name.                                        *)
(***************************************************************************)
EXTENDS Completion, SequenceTheorems, FiniteSetTheorems, TLAPS

Facts == INSTANCE ScanFacts

(* Every command has a name of its own, letter case aside.                 *)
NamedOnce ==
    \A t \in Tables : \A i \in 1..Len(t) :
        /\ t[i].name # <<>>
        /\ \A j \in 1..Len(t) : string_matches(t[i].name, t[j].name) => i = j

Table == table \in Tables /\ current_mode \in ModeBits

LEMMA TableIs ==
    ASSUME Table
    PROVE  /\ Len(table) \in Nat
           /\ \A i \in 1..Len(table) : table[i].name \in Seq(Char)
<1> DEFINE Command == [name : Seq(Char), perm : SUBSET (ModeBits \cup {HideWhenUnavailable})]
<1>1. \A c \in Command : c.name \in Seq(Char)
  OBVIOUS
<1>2. table \in Seq(Command)
  BY TableAssumption DEF Table
<1> HIDE DEF Command
<1>3. Len(table) \in Nat /\ \A i \in 1..Len(table) : table[i] \in Command
  BY <1>2
<1> QED
  BY <1>1, <1>3

(* The hash of a name goes with its letters, not their case.               *)
LEMMA SameHash ==
    ASSUME NEW S, NEW s \in Seq(S), NEW R, NEW t \in Seq(R), string_matches(s, t)
    PROVE  hash_cmd(s) = hash_cmd(t)
<1>1. DOMAIN s = 1..Len(s) /\ DOMAIN t = 1..Len(t) /\ Len(s) = Len(t)
  BY DEF string_matches
<1>2. [i \in DOMAIN s |-> Fold[s[i]]] = [i \in DOMAIN t |-> Fold[t[i]]]
  BY <1>1 DEF string_matches
<1> QED
  BY <1>2, Zenon DEF hash_cmd

LEMMA SameAsItself ==
    ASSUME NEW s PROVE string_matches(s, s)
  BY DEF string_matches

(* A command is found by its own name, and only it.                        *)
LEMMA NamedIs ==
    ASSUME Table, NamedOnce, NEW i \in 1..Len(table)
    PROVE  Named(table[i].name) = {i}
<1>1. i \in Named(table[i].name)
  BY SameAsItself DEF Named, matches_hash, matches_name
<1>2. ASSUME NEW k \in Named(table[i].name) PROVE k = i
  BY <1>2 DEF Named, matches_name, NamedOnce, Table
<1> QED
  BY <1>1, <1>2

LEMMA LeastOfOne == ASSUME NEW i \in Nat PROVE Min({i}) = i
  BY DEF Min

LEMMA FoundIs ==
    ASSUME Table, NamedOnce, NEW i \in 1..Len(table)
    PROVE  Found(table[i].name) = IF is_hidden(table[i].perm) THEN {} ELSE {i}
  BY NamedIs DEF Found

(* What is named by a registered command, but for help, is looked up, and  *)
(* runs when it is available.                                              *)
LEMMA AvailableRuns ==
    ASSUME Table, NamedOnce, NEW i \in 1..Len(table), current_mode \in table[i].perm,
           ~IsHelp(table[i].name)
    PROVE  Runs(table[i].name)
<1>1. is_available(table[i].perm) /\ ~is_hidden(table[i].perm)
  <2>1. current_mode \in table[i].perm \cap {current_mode} \cap ModeBits
    BY DEF Table
  <2> QED
    BY <2>1 DEF is_available, is_hidden
<1>2. Found(table[i].name) = {i}
  BY <1>1, FoundIs
<1>3. Min(Found(table[i].name)) = i
  <2>1. i \in Nat
    BY TableIs
  <2> QED
    BY <1>2, <2>1, LeastOfOne
<1> QED
  BY <1>1, <1>2, <1>3 DEF Runs

LEMMA HelpIsHelp == IsHelp(HelpName)
  BY SameAsItself DEF IsHelp

(* The one candidate there is, or the built-in help.                       *)
LEMMA CompletedRuns ==
    ASSUME Table, NamedOnce, T!Completes(text, current_mode)
    PROVE  LET cmd == T!FullCommand(text, current_mode) IN IsHelp(cmd) \/ Runs(cmd)
<1> DEFINE ms == T!Matches(text, current_mode)
           cmd == T!FullCommand(text, current_mode)
           Commands == [i \in 1..Len(table) |-> [name |-> table[i].name, modes |-> table[i].perm]]
<1>0. T!HelpName = HelpName
  BY DEF T!HelpName, HelpName
<1>1. /\ Len(Commands) = Len(table) /\ Len(table) \in Nat
      /\ \A i \in 1..Len(table) :
            Commands[i].name = table[i].name /\ Commands[i].modes = table[i].perm
  BY TableIs
<1>2. cmd = IF ms = {} THEN HelpName ELSE Commands[T!Min(ms)].name
  BY <1>0 DEF T!FullCommand
<1>3. ms \in SUBSET (1..Len(table)) /\ \A i \in ms : current_mode \in table[i].perm
  BY <1>1 DEF T!Matches
<1>4. /\ ~(~T!HelpMatches(text) /\ ms = {})
      /\ IF T!HelpMatches(text)
           THEN ms = {} \/ \E i \in ms : ms = {i} /\ T!SameName(Commands[i].name, HelpName)
           ELSE ~(Cardinality(ms) > 1)
  <2>1. T!Cardinality(ms) = Cardinality(ms)
    BY DEF T!Cardinality, Cardinality
  <2> QED
    BY <1>0, <2>1 DEF T!Completes, T!NoMatch, T!Ambiguous
<1> SUFFICES IsHelp(cmd) \/ Runs(cmd)
  OBVIOUS
<1> HIDE DEF ms, cmd, Commands
<1>5. CASE ms = {}
  BY <1>2, <1>5, HelpIsHelp
<1>6. ASSUME NEW i \in ms, ms = {i} PROVE cmd = table[i].name /\ i \in 1..Len(table)
  <2>1. i \in 1..Len(table) /\ i \in Nat
    BY <1>1, <1>3
  <2>2. T!Min({i}) = i
    BY <2>1 DEF T!Min
  <2> QED
    BY <1>1, <1>2, <1>6, <2>1, <2>2
<1>7. CASE ms # {} /\ T!HelpMatches(text)
  <2>1. PICK i \in ms : ms = {i} /\ T!SameName(Commands[i].name, HelpName)
    BY <1>4, <1>7
  <2>2. cmd = table[i].name /\ i \in 1..Len(table)
    BY <1>6, <2>1
  <2>3. string_matches(cmd, HelpName)
    BY <1>1, <2>1, <2>2 DEF T!SameName, string_matches
  <2>4. cmd \in Seq(Char) /\ HelpName \in Seq(Char)
    BY <2>2, TableIs, TableAssumption
  <2>5. hash_cmd(cmd) = hash_cmd(HelpName)
    BY <2>3, <2>4, SameHash
  <2> QED
    BY <2>3, <2>5 DEF IsHelp
<1>8. CASE ms # {} /\ ~T!HelpMatches(text)
  <2>1. PICK i : i \in ms
    BY <1>8
  <2>2. ms = {i}
    <3>1. IsFiniteSet(ms)
      <4>1. IsFiniteSet(1..Len(table))
        BY <1>1, FS_Interval
      <4> QED
        BY <1>3, <4>1, FS_Subset
    <3>2. Cardinality(ms) \in Nat /\ ~(Cardinality(ms) > 1)
      BY <1>4, <1>8, <3>1, FS_CardinalityType
    <3>3. SUFFICES ASSUME NEW j \in ms, j # i PROVE FALSE
      BY <2>1
    <3>4. IsFiniteSet({i, j}) /\ Cardinality({i, j}) = 2
      <4>1. IsFiniteSet({i}) /\ Cardinality({i}) = 1
        BY FS_Singleton
      <4>2. {i, j} = {i} \cup {j}
        OBVIOUS
      <4> QED
        BY <3>3, <4>1, <4>2, FS_AddElement
    <3>5. Cardinality({i, j}) <= Cardinality(ms)
      BY <2>1, <3>1, <3>4, FS_Subset
    <3> QED
      BY <3>2, <3>4, <3>5
  <2>3. cmd = table[i].name /\ i \in 1..Len(table)
    BY <1>6, <2>1, <2>2
  <2>4. current_mode \in table[i].perm
    BY <1>3, <2>1
  <2> QED
    BY <2>3, <2>4, AvailableRuns
<1> QED
  BY <1>5, <1>7, <1>8

-----------------------------------------------------------------------------
(* The line.                                                               *)

LEMMA WordInText ==
    ASSUME NEW S, text \in Seq(S)
    PROVE  T!WordStart(text) \in 0..Len(text)
<1> DEFINE s == T!SegmentStart(text)
           n == Len(text)
           starts == {i \in s..n : i = n \/ text[i + 1] # " "}
<1>1. s \in 0..n /\ n \in Nat
  <2>1. s = Facts!AfterLastSeparator(text)
    BY Zenon DEF T!SegmentStart, Facts!AfterLastSeparator
  <2>2. Facts!AfterLastSeparator(text) \in 0..Len(text)
    BY Facts!AfterLastInText
  <2> QED
    BY <2>1, <2>2
<1>2. T!WordStart(text) = T!Min(starts)
  BY DEF T!WordStart
<1> HIDE DEF s, n
<1>3. starts \in SUBSET (0..n) /\ starts \in SUBSET Nat /\ n \in starts
  <2>1. n \in s..n /\ \A i \in s..n : i \in 0..n /\ i \in Nat
    BY <1>1
  <2> QED
    BY <2>1
<1> HIDE DEF starts
<1>4. T!Min(starts) \in starts
  <2>1. \E i \in starts : \A m \in starts : i <= m
    BY <1>3, Facts!HasLeast
  <2> QED
    BY <2>1 DEF T!Min
<1> QED
  BY <1>2, <1>3, <1>4 DEF n

LEMMA Widened ==
    ASSUME NEW S, NEW R, S \subseteq R, NEW s \in Seq(S)
    PROVE  s \in Seq(R) /\ Len(s) \in Nat
  OBVIOUS

LEMMA Singleton ==
    ASSUME NEW S, NEW x \in S
    PROVE  <<x>> \in Seq(S) /\ Len(<<x>>) = 1
  OBVIOUS

Letter == Char \cup {" "}

LEMMA LengthIs == MaxLineLength \in Nat /\ MaxLineLength > 0
  BY LengthAssumption

LEMMA TextIs ==
    ASSUME TypeOK
    PROVE  text \in Seq(Letter) /\ Len(text) \in Nat /\ Len(text) < MaxLineLength
<1>1. text \in Seq(Letter) /\ Len(text) < MaxLineLength
  BY DEF TypeOK, Letter
<1> QED
  BY <1>1

(* A completed line is one.                                                *)
LEMMA CompletedIsTyped ==
    ASSUME TypeOK, T!Completes(text, current_mode)
    PROVE  /\ T!CompletedText(text, current_mode) \in Seq(Letter)
           /\ Len(T!CompletedText(text, current_mode)) < MaxLineLength
<1> DEFINE w == T!WordStart(text)
           cmd == T!FullCommand(text, current_mode)
           ms == T!Matches(text, current_mode)
           Commands == [i \in 1..Len(table) |-> [name |-> table[i].name, modes |-> table[i].perm]]
           Line == Seq(Letter)
           a == SubSeq(text, 1, w)
           b == a \o cmd
           space == <<" ">>
<1>1. Table /\ MaxLineLength \in Nat
  BY LengthIs DEF TypeOK, Table
<1>2. text \in Line /\ Len(text) \in Nat
  BY TextIs
<1>11. w \in 0..Len(text)
  BY <1>2, WordInText
<1>3. /\ Len(Commands) = Len(table) /\ Len(table) \in Nat
      /\ \A i \in 1..Len(table) : Commands[i].name \in Seq(Char)
  BY <1>1, TableIs
<1>4. cmd \in Seq(Char)
  <2>1. ms \in SUBSET (1..Len(table))
    BY <1>3 DEF T!Matches
  <2>2. cmd = IF ms = {} THEN T!HelpName ELSE Commands[T!Min(ms)].name
    BY DEF T!FullCommand
  <2>3. T!HelpName \in Seq(Char)
    BY TableAssumption DEF T!HelpName, HelpName
  <2> HIDE DEF ms, Commands
  <2>4. CASE ms # {}
    <3>1. ms \in SUBSET Nat
      BY <2>1
    <3>2. \E k \in ms : \A m \in ms : k <= m
      BY <2>4, <3>1, Facts!HasLeast
    <3>3. T!Min(ms) \in ms
      BY <3>2 DEF T!Min
    <3> QED
      BY <1>3, <2>1, <2>2, <2>4, <3>3
  <2> QED
    BY <2>2, <2>3, <2>4
<1>5. w + Len(cmd) + 1 < MaxLineLength
  BY DEF T!Completes, T!Fits
<1>6. T!CompletedText(text, current_mode) = b \o space
  BY DEF T!CompletedText
<1> HIDE DEF w, cmd
<1>7. a \in Line /\ Len(a) = w
  BY <1>2, <1>11, SubSeqProperties
<1>8. cmd \in Line /\ space \in Line /\ Len(space) = 1 /\ Len(cmd) \in Nat
  <2>1. Char \subseteq Letter /\ " " \in Letter
    BY DEF Letter
  <2>2. cmd \in Line /\ Len(cmd) \in Nat
    BY <1>4, <2>1, Widened
  <2>3. space \in Line /\ Len(space) = 1
    BY <2>1, Singleton
  <2> QED
    BY <2>2, <2>3
<1> HIDE DEF a, space
<1>9. b \in Line /\ Len(b) = w + Len(cmd)
  <2>1. b \in Line /\ Len(b) = Len(a) + Len(cmd)
    BY <1>7, <1>8, ConcatProperties
  <2> QED
    BY <1>7, <2>1
<1> HIDE DEF b
<1>10. b \o space \in Line /\ Len(b \o space) = Len(b) + Len(space)
  BY <1>8, <1>9, ConcatProperties
<1> QED
  BY <1>1, <1>11, <1>2, <1>5, <1>6, <1>8, <1>9, <1>10

LEMMA InitTyped == InitLine => TypeOK
  BY LengthIs, ModeAssumption DEF InitLine, Init, TypeOK

LEMMA NextTyped == TypeOK /\ [NextLine]_allVars => TypeOK'
<1> SUFFICES ASSUME TypeOK, [NextLine]_allVars PROVE TypeOK'
  OBVIOUS
<1>1. ASSUME NEW c \in Char, Type(c) PROVE TypeOK'
  <2>1. c \in Letter /\ text' = Append(text, c) /\ Len(text) < MaxLineLength - 1
    BY <1>1 DEF Type, Letter
  <2>2. text' \in Seq(Letter) /\ Len(text') < MaxLineLength
    BY <2>1, TextIs, LengthIs
  <2> QED
    BY <1>1, <2>2 DEF TypeOK, Type, Letter
<1>2. ASSUME Tab PROVE TypeOK'
  <2>1. text' \in Seq(Letter) /\ Len(text') < MaxLineLength
    BY <1>2, CompletedIsTyped, TextIs DEF Tab
  <2> QED
    BY <1>2, <2>1 DEF TypeOK, Tab, Letter
<1>3. ASSUME NEW mode \in ModeBits, SetMode(mode) PROVE TypeOK'
  BY <1>3 DEF TypeOK, SetMode, set_mode
<1>4. CASE UNCHANGED allVars
  BY <1>4 DEF TypeOK, allVars
<1> QED
  BY <1>1, <1>2, <1>3, <1>4 DEF NextLine

LEMMA Invariant == LineSpec => []TypeOK
  BY InitTyped, NextTyped, PTL DEF LineSpec

(* A completed line leaves room for its terminator: the command is         *)
(* measured against the place of the word it replaces                      *)
(* (lishTabComplete.h:206-210).                                            *)
THEOREM CompletionFits == LineSpec => []TypeOK
  BY Invariant

(* help of a registered command fails exactly when dispatch would not find *)
(* it, in every mode and whatever the hashes of the other names.           *)
THEOREM HelpKnowsWhatRuns == ASSUME NamedOnce PROVE LineSpec => []HelpAgreesWithDispatch
<1>1. TypeOK => HelpAgreesWithDispatch
  <2> SUFFICES ASSUME TypeOK, NEW i \in 1..Len(table)
               PROVE  LET name == table[i].name IN
                      help_code(<<name>>) = 0 <=> IsHelp(name) \/ Runs(name) \/ IsDenied(name)
    BY DEF HelpAgreesWithDispatch
  <2> DEFINE name == table[i].name
  <2>1. Table
    BY DEF TypeOK, Table
  <2>2. Named(name) = {i} /\ Min({i}) = i /\ name # <<>>
    <3>1. i \in Nat
      BY <2>1, TableIs
    <3> QED
      BY <2>1, <3>1, NamedIs, LeastOfOne DEF NamedOnce, Table
  <2>3. Found(name) = IF is_hidden(table[i].perm) THEN {} ELSE {i}
    BY <2>1, FoundIs
  <2>4. HelpShows(name) <=> IsHelp(name) \/ ~is_hidden(table[i].perm)
    BY <2>2 DEF HelpShows
  <2>5. help_code(<<name>>) = 0 <=> HelpShows(name)
    BY <2>2 DEF help_code
  <2>6. Runs(name) \/ IsDenied(name) <=> ~IsHelp(name) /\ ~is_hidden(table[i].perm)
    BY <2>3 DEF Runs, IsDenied
  <2> QED
    BY <2>4, <2>5, <2>6
<1> QED
  BY <1>1, Invariant, PTL

(* What tab completes the line to runs in the mode it was completed in, or *)
(* is help: the one name offered is the one dispatch finds.                *)
THEOREM CompletedCommandIsFound == ASSUME NamedOnce PROVE LineSpec => CompletedCommandRuns
<1>1. TypeOK /\ [NextLine]_allVars =>
         [Completed => LET cmd == T!FullCommand(text, current_mode) IN
                       IsHelp(cmd) \/ Runs(cmd)]_allVars
  <2> SUFFICES ASSUME TypeOK, NextLine, Completed
               PROVE  LET cmd == T!FullCommand(text, current_mode) IN IsHelp(cmd) \/ Runs(cmd)
    OBVIOUS
  <2>1. Tab
    BY DEF NextLine, Type, SetMode, Completed
  <2>2. T!Completes(text, current_mode)
    BY <2>1 DEF Tab, Completed
  <2>3. Table
    BY DEF TypeOK, Table
  <2> QED
    BY <2>2, <2>3, CompletedRuns
<1> QED
  BY <1>1, Invariant, PTL DEF LineSpec, CompletedCommandRuns

=============================================================================
