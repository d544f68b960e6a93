----------------------------- MODULE BasicShell -----------------------------
(***************************************************************************)
(* The application of examples/BasicShell: its command table and the       *)
(* handlers behind it, run by Shell.  What login reads from the keyboard   *)
(* is in Login; here it may succeed as either user or fail.                *)
(***************************************************************************)
EXTENDS Shell

VARIABLES
    current_user,   \* the AppContext
    granted         \* the mode last set outside sudo (to state properties)

appVars == <<current_user, granted>>

vars == <<stack, bytes, current_mode, last_result_code, printed, current_user, granted>>

(* The modes the handlers set: logged out, the two users', elevated.       *)
ASSUME GrantedAssumption == {"0", "1", "2", "6"} \subseteq ModeBits

(* The descriptors; a mode is written as its number.                       *)
AllModes == ModeBits
HideWhenUnavailable == {"HideWhenUnavailable"}

make(name, perm) == [name |-> <<name>>, perm |-> perm, handler |-> name]

cmd_echo_descriptor == make("echo", {"6"})
cmd_uptime_descriptor == make("uptime", AllModes)
cmd_mode_descriptor == make("mode", AllModes \ {"0"})
cmd_sudo_descriptor == make("sudo", {"2"})
cmd_login_descriptor == make("login", {"0"} \cup HideWhenUnavailable)
cmd_logout_descriptor == make("logout", (AllModes \ {"0"}) \cup HideWhenUnavailable)
cmd_whoami_descriptor == make("whoami", AllModes)

commands ==
    <<cmd_echo_descriptor, cmd_uptime_descriptor, cmd_mode_descriptor, cmd_sudo_descriptor,
      cmd_login_descriptor, cmd_logout_descriptor, cmd_whoami_descriptor>>

Init == ShellInit /\ current_user = "" /\ granted = InitialMode

cmd_echo == Executes("echo") /\ Returns(Ok(0)) /\ UNCHANGED appVars

WithoutArguments == Returns(Ok(IF View!count = 0 THEN 0 ELSE -1)) /\ UNCHANGED appVars

cmd_uptime == Executes("uptime") /\ WithoutArguments

cmd_whoami == Executes("whoami") /\ WithoutArguments

(* set_mode() by a handler, which then returns 0.                          *)
Grant(mode, user) ==
    /\ set_mode(mode)
    /\ current_user' = user
    /\ granted' = IF \E d \in 1..Len(stack) : Waiting(d) THEN granted ELSE mode
    /\ Proceed(Ok(0))
    /\ UNCHANGED <<bytes, last_result_code, printed>>

Fail == Returns(Ok(-1)) /\ UNCHANGED appVars

cmd_login ==
    /\ Executes("login")
    /\ \/ View!count = 0 /\ Grant("1", "unpriv")
       \/ View!count = 0 /\ Grant("2", "priv")
       \/ Fail

cmd_logout == Executes("logout") /\ Grant("0", "")

(* Without an argument the mode is shown; an argument that operator[] does *)
(* not find is not looked at here, the handler would dereference nullptr.  *)
cmd_mode ==
    /\ Executes("mode")
    /\ IF View!count = 0 THEN Returns(Ok(0)) /\ UNCHANGED appVars
       ELSE /\ View!ArgAt(0) # View!nullptr
            /\ IF arg(0) \in {<<mode>> : mode \in ModeBits}
                 THEN Grant(arg(0)[1], current_user)
                 ELSE Fail

(* Faulty: reads the mode to restore after it was raised.                  *)
RaisedMode == "6"

original_mode == current_mode

(* Where cmd_sudo() finds its command, and the end of the last argument:   *)
(* what is between them becomes one line again, without its quotes.        *)
cmd_start == View!ArgAt(0)

(* Faulty: the rest of the line is taken for the command.                  *)
end_of_line == Len(top.text)

actual_end == View!ArgAt(View!count - 1) + Len(arg(View!count - 1))

(* Arguments that operator[] does not find are as above.                   *)
cmd_sudo ==
    /\ Executes("sudo")
    /\ IF View!count = 0 THEN Fail
       ELSE /\ View!ArgAt(0) # View!nullptr
            /\ View!ArgAt(View!count - 1) # View!nullptr
            /\ \E first \in {top.base + cmd_start}, last \in {top.base + actual_end} :
                  \E array \in {[p \in DOMAIN bytes |->
                                   IF p - 1 \in first..(last - 1) /\ bytes[p] = NUL THEN " "
                                   ELSE bytes[p]]} :
                     Nest(array, first, last - first, original_mode)
            /\ set_mode("6")
            /\ UNCHANGED <<last_result_code, printed>> /\ UNCHANGED appVars

(* Faulty: a command that fails is run again.                              *)
SudoRetries ==
    /\ Doing("waiting")
    /\ set_mode(top.saved)
    /\ IF last_result_code = 0 THEN Proceed(Ok(0))
       ELSE Replace([top EXCEPT !.doing = "invoking"])
    /\ UNCHANGED <<bytes, last_result_code, printed>> /\ UNCHANGED appVars

(* run_line() has returned to cmd_sudo(), which restores the mode and      *)
(* ignores the result.                                                     *)
SudoReturns ==
    /\ Doing("waiting")
    /\ set_mode(top.saved)
    /\ Proceed(Ok(0))
    /\ UNCHANGED <<bytes, last_result_code, printed>> /\ UNCHANGED appVars

Execution ==
    \/ Step /\ UNCHANGED appVars
    \/ cmd_echo
    \/ cmd_uptime
    \/ cmd_whoami
    \/ cmd_login
    \/ cmd_logout
    \/ cmd_mode
    \/ cmd_sudo
    \/ SudoReturns

Next ==
    \/ \E line \in Submitted : on_submit(line) /\ UNCHANGED appVars
    \/ \E line \in Scripted : run_line(line) /\ UNCHANGED appVars
    \/ Execution

(* A dispatch, once begun, is a sequence of function calls that the        *)
(* processor executes; nothing obliges anyone to submit a line.            *)
Spec == Init /\ [][Next]_vars /\ WF_vars(Execution)

-----------------------------------------------------------------------------

(* Elevation ends with the command it was asked for: outside sudo the mode *)
(* is the one last granted outside sudo, whatever failed, nested or set    *)
(* modes under it (examples/BasicShell/cmd_sudo.cpp:47-80).                *)
ElevationEnds ==
    LET elevated == {d \in 1..Len(stack) : Waiting(d)} IN
    granted = IF elevated = {} THEN current_mode ELSE stack[Min(elevated)].saved

(* "Logout and return to mode 0" (examples/BasicShell/cmd_logout.cpp:31):  *)
(* between lines, nobody logged in means Mode0.                            *)
LoggedOutMeansMode0 == stack = <<>> /\ current_user = "" => current_mode = "0"

=============================================================================
