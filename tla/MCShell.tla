------------------------------ MODULE MCShell ------------------------------
(* The commands of examples/BasicShell and two more: one that elevates in  *)
(* every mode, so that elevations nest, and one that may return any code.  *)
EXTENDS BasicShell

MCFold == [w \in ModeBits \cup {"h", "e", "echo", "uptime", "mode", "sudo", "login", "logout",
                                "whoami", "do", "test", "none"} |-> w]

(* Two pairs of names have the same hash.                                  *)
MCHash(name) ==
    CASE name = <<"test">> -> <<"mode">>
      [] name = <<"none">> -> <<"whoami">>
      [] OTHER -> name

MCCommands == commands \o <<
    [name |-> <<"do">>, perm |-> AllModes, handler |-> "sudo"],
    [name |-> <<"test">>, perm |-> AllModes, handler |-> "plain"] >>

q == "\""
b == " "

(* Segments: that succeed and fail, elevate, change the mode, have quotes. *)
First == {<<"whoami">>, <<"mode", b, "2">>, <<"none">>, <<>>, <<"do", b, "mode", b, "2">>}
Second == {<<"test">>, <<"logout">>, <<"h", "e", b, "sudo">>, <<"echo", q>>,
           <<"do", b, "do", b, "mode", b, "2">>, <<"do", b, q, "mode", b, "3", q>>}

MCSubmitted ==
    {s \o sep \o t : s \in First, t \in Second, sep \in {<<";">>, <<"&", "&", b>>}}
    \cup {<<"login">>, <<"sudo", b, "logout">>, <<"sudo">>, <<"mode">>, <<q, "echo", q>>,
          <<"do", b, b, "echo", b, q, "test", "&", "&", "login", q, b, ";", b, "whoami">>,
          <<"test", "&", "&", "none", ";", "echo">>, <<"none", ";", ";", "uptime">>,
          <<"uptime", b, "3", ";">>, <<"h", "e", b, "none">>, <<"sudo", "&", "&", b>>,
          <<"none", ";", q, "echo", q>>,
          <<"test", ";", "whoami", "&", "&", "do", b, "none", "&", "&", "test">>,
          <<"do", b, "do", b, "'", "test", ";", "none", "'", b, "2", "&", "&", "mode", b, "3">>,
          <<"do", b, q, "logout", q, b, "none", ";", "test">>}

MCScripted == {<<>>, <<b>>, <<"mode", b, "none">>, <<"do", b, "test">>}

(* For the runs that look for one behaviour: what can be typed with the    *)
(* table of the example alone.                                             *)
FewLines == {<<"login">>, <<"mode", b, "3">>, <<"whoami", b, "3">>, <<"sudo", b, "logout">>,
             <<"sudo", b, "echo">>, <<"h", "e", ";", "uptime">>}
LinesWithEmpty == {<<"login">>, <<"whoami">>,
                   <<"sudo", b, "echo", b, q, q, b, ";", b, "whoami">>}
=============================================================================
