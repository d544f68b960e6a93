------------------------------- MODULE Login -------------------------------
(***************************************************************************)
(* What the user types is read by two loops: Shell::service(), one byte at *)
(* a time into the line it edits, and cmd_login(), which takes over the    *)
(* same bytes for a user name and a password while service() waits for it. *)
(* Editing, history and other commands are in other modules.               *)
(***************************************************************************)
EXTENDS Naturals, Sequences

CONSTANTS
    Lines,          \* what the user may type before pressing enter
    Endings,        \* what a terminal may send for enter: CR, LF or both
    Fold,           \* Fold[c], tolower()
    Users,          \* [name, password, mode] records
    LoginName, LogoutName,
    MaxLineLength,
    NameLimit,      \* the characters username and password hold, 15
    MaxLines        \* bound: lines typed

CR == "CR"
LF == "LF"
Newline == {CR, LF}
Other == "other"
Mode0 == "Mode0"

(* The example's shell has lines of 32 bytes, and a user's name and        *)
(* password leave a prompt room for a byte more (cmd_login.cpp:90-95).     *)
ASSUME EndingAssumption == Endings \subseteq {<<CR>>, <<LF>>, <<CR, LF>>}
ASSUME LineAssumption == Lines \subseteq Seq(DOMAIN Fold) /\ DOMAIN Fold \cap Newline = {}
ASSUME LimitAssumption ==
    /\ MaxLineLength \in Nat /\ NameLimit \in Nat /\ NameLimit < MaxLineLength
    /\ MaxLines \in Nat
ASSUME UserAssumption ==
    \A user \in Users :
        /\ user.name \in Seq(DOMAIN Fold) /\ Len(user.name) \in 1..(NameLimit - 1)
        /\ user.password \in Seq(DOMAIN Fold) /\ Len(user.password) \in 1..(NameLimit - 1)

VARIABLES
    ending,         \* what this terminal sends
    typed,          \* the lines typed (to state properties)
    rx,             \* the bytes that have arrived and not been read
    reader,         \* who reads: service(), or login for one of its prompts
    partial,        \* line_buf_, username or password so far
    username,
    last_char,
    current_mode,
    readings        \* the lines as they were read (to state properties)

vars == <<ending, typed, rx, reader, partial, username, last_char, current_mode, readings>>

-----------------------------------------------------------------------------

Init ==
    /\ ending \in Endings
    /\ typed = <<>> /\ rx = <<>>
    /\ reader = "service" /\ partial = <<>> /\ username = <<>>
    /\ last_char = Other
    /\ current_mode = Mode0
    /\ readings = <<>>

Type(line) ==
    /\ Len(typed) < MaxLines
    /\ typed' = Append(typed, line)
    /\ rx' = rx \o line \o ending
    /\ UNCHANGED <<ending, reader, partial, username, last_char, current_mode, readings>>

c == Head(rx)

Reads(who) == reader \in who /\ rx # <<>> /\ rx' = Tail(rx) /\ UNCHANGED <<ending, typed>>

(* service(): process_char() as far as it does not draw.                   *)
SwallowNewline ==
    /\ Reads({"service"})
    /\ {c, last_char} = Newline
    /\ last_char' = Other
    /\ UNCHANGED <<reader, partial, username, current_mode, readings>>

EditLine ==
    /\ Reads({"service"})
    /\ c \notin Newline
    /\ partial' = IF Len(partial) < MaxLineLength - 1 THEN Append(partial, c) ELSE partial
    /\ last_char' = Other
    /\ UNCHANGED <<reader, username, current_mode, readings>>

(* The line is complete: its reader has it, and next reads on from nothing. *)
LineRead(next) ==
    /\ readings' = Append(readings, partial)
    /\ partial' = <<>>
    /\ reader' = next

(* login is there in Mode0 only, logout in all the others.                 *)
Submit ==
    /\ Reads({"service"})
    /\ c \in Newline /\ {c, last_char} # Newline
    /\ last_char' = c
    /\ LineRead(IF partial = LoginName /\ current_mode = Mode0 THEN "username" ELSE "service")
    /\ current_mode' = IF partial = LogoutName THEN Mode0 ELSE current_mode
    /\ UNCHANGED username

(* cmd_login(): a byte that does not fit is read, dropped, and ends the    *)
(* prompt like a line ending.  last_char_ is not told.                     *)
HasRoomForNul == Len(partial) < NameLimit - 1   \* Faulty: one too few

HasRoomWithoutNul == Len(partial) <= NameLimit  \* Faulty: one too many

HasRoom == Len(partial) < NameLimit

Takes == c \notin Newline /\ HasRoom

ReadName ==
    /\ Reads({"username", "password"})
    /\ Takes
    /\ partial' = Append(partial, c)
    /\ UNCHANGED <<reader, username, last_char, current_mode, readings>>

EndUsername ==
    /\ Reads({"username"})
    /\ ~Takes
    /\ username' = partial
    /\ LineRead("password")
    /\ UNCHANGED <<last_char, current_mode>>

SameName(s, t) == Len(s) = Len(t) /\ \A i \in 1..Len(s) : Fold[s[i]] = Fold[t[i]]

(* Faulty: compares only the characters typed.                             *)
IsPrefixOfCredentials(user, name, password) ==
    SameName(name, user.name) /\ password = SubSeq(user.password, 1, Len(password))

IsValid(user, name, password) == SameName(name, user.name) /\ password = user.password

EndPassword ==
    /\ Reads({"password"})
    /\ ~Takes
    /\ LineRead("service")
    /\ LET granted == {user \in Users : IsValid(user, username, partial)} IN
       IF granted = {} THEN UNCHANGED current_mode
       ELSE \E user \in granted : current_mode' = user.mode
    /\ UNCHANGED <<username, last_char>>

Next ==
    \/ \E line \in Lines : Type(line)
    \/ SwallowNewline
    \/ EditLine
    \/ Submit
    \/ ReadName
    \/ EndUsername
    \/ EndPassword

Spec == Init /\ [][Next]_vars

-----------------------------------------------------------------------------

(* With the bounds of username[] and password[], which keep a last NUL.    *)
TypeOK ==
    /\ typed \in Seq(Lines) /\ Len(typed) <= MaxLines
    /\ reader \in {"service", "username", "password"}
    /\ Len(partial) <= IF reader = "service" THEN MaxLineLength - 1 ELSE NameLimit
    /\ Len(username) <= NameLimit
    /\ current_mode \in {Mode0} \cup {user.mode : user \in Users}

(* If the terminal sends one byte for enter, and as long as every line     *)
(* fits its prompt, the shell and login's prompts each read one typed      *)
(* line, whole and in the order typed, however far ahead the user types:   *)
(* login leaves last_char_ and the bytes behind its second line as         *)
(* service() needs them (cmd_login.cpp:68-83, lishInputProcessor.h:        *)
(* 117-134).  After CR LF the LF of login's own line is its user name.     *)
EachReadsOneTypedLine ==
    Len(ending) = 1 /\ (\A k \in 1..Len(typed) : Len(typed[k]) <= NameLimit) =>
        \A k \in 1..Len(readings) : k <= Len(typed) /\ readings[k] = typed[k]

(* The mode is a user's only if the user name and right after it the whole *)
(* password were typed, each a line of its own: what is left of a line     *)
(* that was too long never makes up for one (cmd_login.cpp:89-102).        *)
LoggedInAsTyped ==
    current_mode # Mode0 =>
        \E k \in 1..(Len(typed) - 1), user \in Users :
            /\ user.mode = current_mode
            /\ SameName(typed[k], user.name) /\ typed[k + 1] = user.password

=============================================================================
