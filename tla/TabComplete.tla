---------------------------- MODULE TabComplete ----------------------------
(***************************************************************************)
(* tab_complete(): which word of the line is completed, which command      *)
(* names it may become, and what the line is afterwards.  A line is a      *)
(* sequence of characters, Commands the sequence of the registered         *)
(* descriptors, each with its name and the modes it is available in.       *)
(***************************************************************************)
EXTENDS Naturals, Sequences, FiniteSets, FiniteSetsExt

CONSTANTS
    MaxLineLength,
    Fold,           \* Fold[c], to_lower()
    Commands        \* sequence of [name, modes] records, in array order

HelpName == <<"h", "e">>    \* HELP_COMMAND_STR, shortened

SameName(s, t) == Len(s) = Len(t) /\ \A i \in 1..Len(s) : Fold[s[i]] = Fold[t[i]]

(* The scan of extract_command_segment() for the last separator, by index: *)
(* a pair of & is passed over at once.  Where the segment starts.          *)
SegmentStart(text) ==
    LET n == Len(text)
        none == n + 1
        Pair(i) == i + 1 < n /\ text[i + 1] = "&" /\ text[i + 2] = "&"
        from[i \in 0..n] ==
            CASE i = n -> none
              [] i < n /\ Pair(i) -> IF from[i + 2] = none THEN i + 2 ELSE from[i + 2]
              [] i < n /\ text[i + 1] = ";" -> IF from[i + 1] = none THEN i + 1 ELSE from[i + 1]
              [] OTHER -> from[i + 1]
    IN  IF from[0] = none THEN 0 ELSE from[0]

(* The first non-space from where the segment starts, the first space      *)
(* after it; the end of the text if there is none.                         *)
WordStart(text) ==
    Min({i \in SegmentStart(text)..Len(text) : i = Len(text) \/ text[i + 1] # " "})

WordEnd(text) ==
    Min({i \in WordStart(text)..Len(text) : i = Len(text) \/ text[i + 1] = " "})

(* There is something to complete: a word that ends the line.              *)
HasPrefix(text) == WordEnd(text) = Len(text) /\ WordStart(text) < Len(text)

Prefix(text) == SubSeq(text, WordStart(text) + 1, Len(text))

PrefixMatch(p, name) ==
    /\ Len(p) <= Len(name)
    /\ \A i \in 1..Len(p) : Fold[p[i]] = Fold[name[i]]

(* The built-in help and the registered commands that match.               *)
HelpMatches(text) == PrefixMatch(Prefix(text), HelpName)

(* Faulty: the mode is not asked.                                          *)
MatchesInAnyMode(text, mode) ==
    {i \in 1..Len(Commands) : PrefixMatch(Prefix(text), Commands[i].name)}

Matches(text, mode) ==
    {i \in 1..Len(Commands) :
        mode \in Commands[i].modes /\ PrefixMatch(Prefix(text), Commands[i].name)}

(* More than one candidate; a registered help that is the only match       *)
(* counts once with the built-in one.                                      *)
Ambiguous(text, mode) ==
    LET ms == Matches(text, mode) IN
    IF HelpMatches(text)
      THEN ms # {} /\ ~ \E i \in ms : ms = {i} /\ SameName(Commands[i].name, HelpName)
      ELSE Cardinality(ms) > 1

NoMatch(text, mode) == ~HelpMatches(text) /\ Matches(text, mode) = {}

FullCommand(text, mode) ==
    LET ms == Matches(text, mode) IN
    IF ms = {} THEN HelpName ELSE Commands[Min(ms)].name

(* Faulty: no room is kept for the terminator.                             *)
FitsWithoutNul(text, cmd) == WordStart(text) + Len(cmd) + 1 <= MaxLineLength

(* tab_complete() completes the line, lists candidates, or does nothing.   *)
Fits(text, cmd) == WordStart(text) + Len(cmd) + 1 < MaxLineLength

Completes(text, mode) ==
    /\ HasPrefix(text) /\ ~NoMatch(text, mode) /\ ~Ambiguous(text, mode)
    /\ Fits(text, FullCommand(text, mode))

Lists(text, mode) == HasPrefix(text) /\ Ambiguous(text, mode)

(* Faulty: begins one byte too early.                                      *)
CompletedTooEarly(text, mode) ==
    SubSeq(text, 1, WordStart(text) - 1) \o FullCommand(text, mode) \o <<" ">>

CompletedText(text, mode) ==
    SubSeq(text, 1, WordStart(text)) \o FullCommand(text, mode) \o <<" ">>

=============================================================================
