-------------------------- MODULE MCInputProcessor --------------------------
(* Keyboards and command tables for the runs of InputProcessor.  The       *)
(* alphabet is small: A, B, C and D are letters as well as the finals of   *)
(* the arrow keys, "he" is the built-in help.                              *)
EXTENDS InputProcessor

MCFold == [c \in Char |-> CASE c = "A" -> "a" [] c = "B" -> "b" [] OTHER -> c]

(* No command shares a prefix with another, so tab never lists.            *)
UniqueCommands == <<[name |-> <<"a">>, modes |-> {"Mode0"}],
                    [name |-> <<"b", "a">>, modes |-> {"Mode1"}]>>

(* The keys of a keyboard, and any byte at any point of a sequence:        *)
(* sequences broken off, restarted, unknown, or cut by a line ending; and  *)
(* every mix of CR and LF.                                                 *)
Keyboard == [Idle |-> {"b", "A", BS, TAB, "CTL", CR, LF, ESC},
             Escape |-> {"A", "[", "O", BS, CR, ESC},
             Csi |-> {"A", "B", "C", "D", "1", "3", "~", "[", CR, ESC},
             Ss3 |-> {"A", "B", "C", "D", "F", "H", "x", LF, ESC}]

(* Three letters, enter and the up arrow.                                  *)
LettersAndUp == [Idle |-> {"a", "b", "h", CR, ESC}, Escape |-> {"["}, Csi |-> {"A"}, Ss3 |-> {}]

(* Two commands share a prefix, so tab may list them.                      *)
SharedPrefix == <<[name |-> <<"a", "h">>, modes |-> {"Mode0"}],
                  [name |-> <<"a", "a">>, modes |-> {"Mode0"}]>>
=============================================================================
