----------------------------- MODULE MCHistory -----------------------------
(* Lines of one to three letters, some equal but for case, and one line    *)
(* that is larger than the whole buffer.                                   *)
EXTENDS History

MCFold == [c \in Char |-> IF c = "A" THEN "a" ELSE c]
MCLine == {<<"a">>, <<"A">>, <<"b">>, <<"a", "b">>, <<"A", "b">>,
           <<"b", "a", "b">>, <<"b", "b", "a", "a", "b", "b", "a", "b">>}
=============================================================================
