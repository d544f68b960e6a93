---------------------------- MODULE CommandTable ----------------------------
(***************************************************************************)
(* The registered commands, and who sees which of them in which mode: the  *)
(* permission predicates, the search of invoke_slice(), and the built-in   *)
(* help.  Unregistered slots (nullptr) are skipped by every loop over the  *)
(* array, so a table here has none.  Names are compared by hash first, and *)
(* two of them may have the same hash.                                     *)
(***************************************************************************)
EXTENDS Integers, Sequences, FiniteSets, FiniteSetsExt

CONSTANTS
    Tables,     \* the tables a shell may be built with
    ModeBits,   \* Mode0 to Mode6, of which the shell is in one
    InitialMode,
    Fold,       \* Fold[c], to_lower()
    Hash(_)     \* what FNV-1a makes of a name in lower case

HideWhenUnavailable == "HideWhenUnavailable"

VARIABLES
    table,          \* cmds_: a sequence of [name, perm], perm a set of bits
    current_mode

vars == <<table, current_mode>>

HelpName == <<"h", "e">>    \* HELP_COMMAND_STR, shortened

string_matches(s, t) == Len(s) = Len(t) /\ \A i \in 1..Len(s) : Fold[s[i]] = Fold[t[i]]

hash_cmd(name) == Hash([i \in DOMAIN name |-> Fold[name[i]]])

is_available(perm) == perm \cap {current_mode} \cap ModeBits # {}

is_hidden(perm) == HideWhenUnavailable \in perm /\ ~is_available(perm)

(* Of the descriptor at i, which was made with the hash of its name.       *)
matches_hash(i, hash) == hash_cmd(table[i].name) = hash

matches_name(i, name) == string_matches(table[i].name, name)

Named(name) ==
    {i \in 1..Len(table) : matches_hash(i, hash_cmd(name)) /\ matches_name(i, name)}

(* The search of invoke_slice(): the first descriptor of that name that is *)
(* not hidden decides.  help comes before any descriptor.                  *)
Found(name) == {i \in Named(name) : ~is_hidden(table[i].perm)}

IsHelp(name) == hash_cmd(name) = hash_cmd(HelpName) /\ string_matches(name, HelpName)

IsDenied(name) ==
    /\ ~IsHelp(name) /\ Found(name) # {}
    /\ ~is_available(table[Min(Found(name))].perm)

Runs(name) ==
    /\ ~IsHelp(name) /\ Found(name) # {}
    /\ is_available(table[Min(Found(name))].perm)

(* Faulty: hides what is merely unavailable.                               *)
HelpShowsAvailable(name) ==
    \/ IsHelp(name)
    \/ Named(name) # {} /\ is_available(table[Min(Named(name))].perm)

(* execute_help() of one command: the first descriptor of that name        *)
(* decides, hidden or not.  The codes are its return values.               *)
HelpShows(name) ==
    \/ IsHelp(name)
    \/ Named(name) # {} /\ ~is_hidden(table[Min(Named(name))].perm)

help_code(args) ==
    CASE Len(args) = 0 -> 0
      [] Len(args) = 1 -> IF args[1] # <<>> /\ HelpShows(args[1]) THEN 0 ELSE -1
      [] OTHER -> -2

-----------------------------------------------------------------------------

Init ==
    /\ table \in Tables
    /\ current_mode = InitialMode

set_mode(mode) == current_mode' = mode /\ UNCHANGED table

Next == \E mode \in ModeBits : set_mode(mode)

Spec == Init /\ [][Next]_vars

=============================================================================
