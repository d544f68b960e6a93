---------------------------- MODULE MCLineBuffer ----------------------------
(* A five byte line over a letter in both cases and the space; history     *)
(* brings in texts from the empty one up to the capacity, and the command  *)
(* names reach past it.                                                    *)
EXTENDS LineBuffer

MCLower == [c \in Char |-> IF c = "H" THEN "h" ELSE c]
MCEntry == {<<>>, <<"H">>, <<"h", " ", "H">>, <<"h", "h", "H", " ">>}
MCCommand == {<<"H">>, <<"h", "H">>, <<"h", "h", "h">>, <<"h", "H", "h", "h">>}
=============================================================================
