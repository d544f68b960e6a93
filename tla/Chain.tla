------------------------------- MODULE Chain -------------------------------
(***************************************************************************)
(* What executing a command line promises (README, Command chaining, and   *)
(* docs/ARCHITECTURE.md:140-149): the segments of the line as it was       *)
(* handed over run in the order written, each at most once; one behind     *)
(* && only if the last command of its own line succeeded; nothing runs     *)
(* behind a malformed one.  A command may execute its own arguments as a   *)
(* further line before it returns.  Of every line the code of its last     *)
(* command is kept.  Shell implements this on one array of bytes.          *)
(***************************************************************************)
EXTENDS Integers, SequencesExt, CommandLine

CONSTANTS
    Lines,      \* the lines that may be executed
    Results     \* the results a command may have: [status, code]

VARIABLES
    chains,     \* the lines being executed, the outermost first, each the
                \* segments it has and, of those that are over, the results:
                \* one if a command ran, none otherwise
    code        \* what get_last_result_code() returns

vars == <<chains, code>>

Malformed == [status |-> "Ok", code |-> -1]
NothingRan == [status |-> "Ok", code |-> 0]

Succeeded(result) == result.status = "Ok" /\ result.code = 0

(* The result of the last segment that ran a command.                      *)
LastResult(ran) ==
    LET executed == {k \in 1..Len(ran) : ran[k] # <<>>} IN
    IF executed = {} THEN NothingRan ELSE ran[Max(executed)][1]

(* There is a next segment and it is its turn.                             *)
GoesOn(chain) ==
    LET last == Len(chain.ran) IN
    \/ last = 0
    \/ chain.segments[last].kind = "Semicolon"
    \/ chain.segments[last].kind = "LogicalAnd" /\ Succeeded(LastResult(chain.ran))

top == chains[Len(chains)]

next == top.segments[Len(top.ran) + 1]

Executed(line) == [segments |-> Segments(line), ran |-> <<>>]

(* A command line of these words.                                          *)
Joined(words) ==
    LET join[k \in 1..Len(words)] ==
          IF k = 1 THEN words[1] ELSE join[k - 1] \o <<" ">> \o words[k]
    IN  join[Len(words)]

-----------------------------------------------------------------------------

Init == chains = <<>> /\ code = 0

Begin(line) ==
    /\ chains = <<>>
    /\ chains' = <<Executed(line)>>
    /\ UNCHANGED code

(* run_line() of no bytes at all.                                          *)
EmptyCommand == chains = <<>> /\ code' = 0 /\ UNCHANGED chains

Turn == chains # <<>> /\ GoesOn(top)

Over(results) ==
    /\ chains' = [chains EXCEPT ![Len(chains)].ran = Append(@, results)]
    /\ UNCHANGED code

Skip == Turn /\ next.command = <<>> /\ next.kind # "ParseError" /\ Over(<<>>)

Reject == Turn /\ next.kind = "ParseError" /\ Over(<<Malformed>>)

Run == Turn /\ next.command # <<>> /\ \E result \in Results : Over(<<result>>)

Nest ==
    /\ Turn
    /\ next.command # <<>> /\ next.args # <<>>
    /\ \E line \in {Joined(next.args)} : chains' = Append(chains, Executed(line))
    /\ UNCHANGED code

End ==
    /\ chains # <<>> /\ ~GoesOn(top)
    /\ code' = LastResult(top.ran).code
    /\ chains' = Front(chains)

Next ==
    \/ \E line \in Lines : Begin(line)
    \/ EmptyCommand
    \/ Skip
    \/ Reject
    \/ Run
    \/ Nest
    \/ End

Spec == Init /\ [][Next]_vars

=============================================================================
