------------------------------ MODULE MCLogin ------------------------------
(* login, logout, a user's name in either case, a password, a line as long *)
(* as a prompt holds, and longer ones of which a password is left over for *)
(* the next prompt, or a login for the shell.                              *)
EXTENDS Login

MCFold == [b \in {"l", "o", "u", "U", "p", "q"} |-> IF b = "U" THEN "u" ELSE b]

MCUsers == {[name |-> <<"u">>, password |-> <<"p", "q">>, mode |-> "Mode1"],
            [name |-> <<"p">>, password |-> <<"u">>, mode |-> "Mode2"]}

MCEndings == {<<CR>>, <<LF>>, <<CR, LF>>}

MCLogin == <<"l">>
MCLogout == <<"o">>

MCLines == {<<>>, MCLogin, MCLogout, <<"u">>, <<"U">>, <<"p", "q">>, <<"p", "p", "q">>,
            <<"u", "u", "u", "u", "p", "q">>, <<"u", "u", "u", "u", "p", "q", "q", "p", "l">>}
=============================================================================
