----------------------------- MODULE Completion -----------------------------
(***************************************************************************)
(* Typing and completing a command line against a command table and in a   *)
(* mode: TabComplete decides what the tab key does, CommandTable what may  *)
(* run, CommandLine how the line will be parsed.                           *)
(***************************************************************************)
EXTENDS CommandTable

CONSTANTS
    MaxLineLength,
    Char,           \* the characters typed
    NUL

ASSUME LengthAssumption == MaxLineLength \in 1..255
ASSUME TableAssumption ==
    /\ HelpName \in Seq(Char)
    /\ Tables \subseteq
          Seq([name : Seq(Char), perm : SUBSET (ModeBits \cup {HideWhenUnavailable})])
ASSUME ModeAssumption == InitialMode \in ModeBits

VARIABLES
    text,       \* the characters of line_buf_, cursor at the end
    key         \* the key just pressed

allVars == <<table, current_mode, text, key>>

C == INSTANCE CommandLine

T == INSTANCE TabComplete WITH
        Commands <- [i \in 1..Len(table) |-> [name |-> table[i].name, modes |-> table[i].perm]]

-----------------------------------------------------------------------------

InitLine == Init /\ text = <<>> /\ key = "none"

Type(c) ==
    /\ Len(text) < MaxLineLength - 1
    /\ text' = Append(text, c)
    /\ key' = "char"
    /\ UNCHANGED <<table, current_mode>>

(* Listing candidates, or finding none, leaves the line as it is.          *)
Tab ==
    /\ text' = IF T!Completes(text, current_mode) THEN T!CompletedText(text, current_mode)
               ELSE text
    /\ key' = "tab"
    /\ UNCHANGED <<table, current_mode>>

SetMode(mode) == set_mode(mode) /\ key' = "none" /\ UNCHANGED text

NextLine ==
    \/ \E c \in Char : Type(c)
    \/ Tab
    \/ \E mode \in ModeBits : SetMode(mode)

LineSpec == InitLine /\ [][NextLine]_allVars

-----------------------------------------------------------------------------

TypeOK ==
    /\ table \in Tables
    /\ current_mode \in ModeBits
    /\ key \in {"none", "char", "tab"}
    /\ text \in Seq(Char \cup {" "}) /\ Len(text) < MaxLineLength

(* This step completed the line.                                           *)
Completed == key' = "tab" /\ text' # text

(* Completion and the parser agree on where a command is: pressing tab     *)
(* changes only the last segment of the chain, which becomes the bare name *)
(* of a command (lishTabComplete.h:108-113).                               *)
CompletesLastCommand ==
    [][LET before == C!Segments(text)  after == C!Segments(text') IN
       Completed =>
          after = [before EXCEPT ![Len(before)] =
                     [@ EXCEPT !.command = T!FullCommand(text, current_mode), !.args = <<>>]]]_allVars

(* A completed command can be run as it stands in the mode it was          *)
(* completed in: completion filters on availability, dispatch on           *)
(* visibility and availability, and the two never disagree                 *)
(* (lishTabComplete.h:40-44, lishShell.h:239-242).                         *)
CompletedCommandRuns ==
    [][Completed => LET cmd == T!FullCommand(text, current_mode) IN IsHelp(cmd) \/ Runs(cmd)]_allVars

(* help of a command fails exactly when dispatch would not find it: hidden *)
(* and absent commands are told apart by neither (docs/ARCHITECTURE.md:    *)
(* 150-154).                                                               *)
HelpAgreesWithDispatch ==
    \A i \in 1..Len(table) :
        LET name == table[i].name IN
        help_code(<<name>>) = 0 <=> IsHelp(name) \/ Runs(name) \/ IsDenied(name)

=============================================================================
