---------------------------- MODULE MCCompletion ----------------------------
(* Tables of two commands with a common first letter, available in one of  *)
(* two modes, in both or in none, hidden or shown where they are not, with *)
(* and without a registered help.                                          *)
EXTENDS Completion

MCFold == [c \in {"h", "H", "e", "a", " ", ";", "&"} |-> IF c = "H" THEN "h" ELSE c]

(* "a" and "he" collide with every other name of their length.             *)
MCHash(name) == Len(name)

Now == {"Mode0"}
Later == {"Mode1"}
Hidden == {"Mode1", HideWhenUnavailable}

MCTables ==
    {<<[name |-> names[1], perm |-> p], [name |-> names[2], perm |-> q]>> :
        names \in {<< <<"h", "a">>, <<"a">> >>, << <<"h", "e">>, <<"h", "h">> >>},
        p \in {{}, Now, Later, Hidden, Now \cup Hidden}, q \in {Now, Later, Hidden}}
=============================================================================
