-------------------------- MODULE BasicShellProofs --------------------------
(***************************************************************************)
(* Properties of lines that run lines, whatever table, lines, codes and    *)
(* hash the shell has and however deep they are nested: an elevation by    *)
(* sudo ends with the command it was for, the one status byte of a typed   *)
(* line is about its own last command, and, lines with empty arguments     *)
(* aside, no nested line leaves its segment.                               *)
(***************************************************************************)
EXTENDS BasicShell, SequenceTheorems, FiniteSetTheorems, TLAPS

Facts == INSTANCE ScanFacts

IsStack(s) == \E S : s \in Seq(S)

HasLocals(f) == {"doing", "saved"} \subseteq DOMAIN f

(* All calls but the innermost wait for the next.                          *)
Frames ==
    /\ IsStack(stack)
    /\ \A d \in 1..Len(stack) : HasLocals(stack[d])
    /\ \A d \in 1..(Len(stack) - 1) : Waiting(d)

(* The outermost call is therefore the first that elevated, if any did.    *)
GrantedOutside ==
    granted = IF stack # <<>> /\ Waiting(1) THEN stack[1].saved ELSE current_mode

IInv == Frames /\ GrantedOutside

(* The three things that happen to a stack.                                *)
LEMMA ReplacedTop ==
    ASSUME NEW s, IsStack(s), s # <<>>, NEW f, NEW t, t = [s EXCEPT ![Len(s)] = f]
    PROVE  /\ IsStack(t) /\ t # <<>> /\ Len(t) = Len(s) /\ Len(s) \in Nat \ {0}
           /\ t[Len(s)] = f
           /\ \A d \in 1..(Len(s) - 1) : t[d] = s[d]
<1>1. PICK S : s \in Seq(S)
  BY DEF IsStack
<1>2. t \in Seq(S \cup {f}) /\ Len(t) = Len(s) /\ Len(s) \in Nat \ {0}
  BY <1>1
<1>3. t[Len(s)] = f /\ \A d \in 1..(Len(s) - 1) : t[d] = s[d]
  BY <1>1, <1>2
<1>4. t # <<>>
  BY <1>2
<1> QED
  BY <1>2, <1>3, <1>4 DEF IsStack

LEMMA PushedOn ==
    ASSUME NEW s, IsStack(s), NEW f, NEW t, t = Append(s, f)
    PROVE  /\ IsStack(t) /\ t # <<>> /\ Len(t) = Len(s) + 1 /\ Len(s) \in Nat
           /\ t[Len(s) + 1] = f
           /\ \A d \in 1..Len(s) : t[d] = s[d]
<1>1. PICK S : s \in Seq(S)
  BY DEF IsStack
<1>2. t \in Seq(S \cup {f}) /\ Len(t) = Len(s) + 1 /\ Len(s) \in Nat
  BY <1>1
<1>3. t[Len(s) + 1] = f /\ \A d \in 1..Len(s) : t[d] = s[d]
  BY <1>1
<1>4. t # <<>>
  BY <1>2
<1> QED
  BY <1>2, <1>3, <1>4 DEF IsStack

LEMMA PoppedOff ==
    ASSUME NEW s, IsStack(s), s # <<>>, NEW t, t = Front(s)
    PROVE  /\ IsStack(t) /\ Len(t) = Len(s) - 1 /\ Len(s) \in Nat \ {0}
           /\ \A d \in 1..(Len(s) - 1) : t[d] = s[d]
<1>1. PICK S : s \in Seq(S)
  BY DEF IsStack
<1>2. Len(s) \in Nat \ {0}
  BY <1>1
<1>3. t = SubSeq(s, 1, Len(s) - 1)
  BY DEF Front
<1>4. ASSUME NEW n \in Int, \A d \in 1..n : s[d] \in S
      PROVE  /\ SubSeq(s, 1, n) \in Seq(S)
             /\ Len(SubSeq(s, 1, n)) = IF 1 <= n THEN n - 1 + 1 ELSE 0
             /\ \A d \in 1..(n - 1 + 1) : SubSeq(s, 1, n)[d] = s[1 + d - 1]
  BY <1>4, 1 \in Int, SubSeqProperties
<1>5. t \in Seq(S)
  BY <1>1, <1>2, <1>3, <1>4
<1>6. Len(s) - 1 \in Int /\ \A d \in 1..(Len(s) - 1) : s[d] \in S
  BY <1>1, <1>2
<1>7. Len(t) = Len(s) - 1
  <2>1. Len(t) = IF 1 <= Len(s) - 1 THEN Len(s) - 1 - 1 + 1 ELSE 0
    BY <1>3, <1>4, <1>6, Zenon
  <2>2. \A n \in Nat \ {0} : (IF 1 <= n - 1 THEN n - 1 - 1 + 1 ELSE 0) = n - 1
    OBVIOUS
  <2> QED
    BY <1>2, <2>1, <2>2, Zenon
<1>8. ASSUME NEW d \in 1..(Len(s) - 1) PROVE t[d] = s[d]
  <2>1. d \in 1..(Len(s) - 1 - 1 + 1) /\ 1 + d - 1 = d
    BY <1>2
  <2> QED
    BY <1>3, <1>4, <1>6, <2>1, Zenon
<1> QED
  BY <1>2, <1>5, <1>7, <1>8 DEF IsStack

(* What the stack looks like while the call on top is busy.                *)
LEMMA TopOfStack ==
    ASSUME IInv, stack # <<>>
    PROVE  /\ Len(stack) \in Nat \ {0}
           /\ HasLocals(top)
           /\ Len(stack) > 1 => Waiting(1)
<1>1. Len(stack) \in Nat \ {0}
  BY PushedOn DEF IInv, Frames, IsStack
<1> QED
  BY <1>1 DEF IInv, Frames, top

(* The frame of a handler that is about to run a line.                     *)
LEMMA CallerWaits ==
    ASSUME IsStack(stack), Len(stack) \in Nat \ {0}, NEW mode
    PROVE  [stack EXCEPT ![Len(stack)].doing = "waiting", ![Len(stack)].saved = mode]
             = [stack EXCEPT ![Len(stack)] = [top EXCEPT !.doing = "waiting", !.saved = mode]]
<1>1. PICK S : stack \in Seq(S)
  BY DEF IsStack
<1> QED
  BY <1>1 DEF top

(* The mode outside sudo after a step of the call on top.                  *)
Keeps == UNCHANGED <<current_mode, granted>>
Grants == granted' = IF \E d \in 1..Len(stack) : Waiting(d) THEN granted ELSE current_mode'

(* A step that only replaces the innermost call, which neither waited nor  *)
(* begins to.                                                              *)
LEMMA TopGoesOn ==
    ASSUME IInv, stack # <<>>, top.doing # "waiting",
           NEW f, HasLocals(f), f.doing # "waiting", Replace(f), Keeps \/ Grants
    PROVE  IInv'
<1>1. IsStack(stack) /\ stack' = [stack EXCEPT ![Len(stack)] = f]
  BY DEF IInv, Frames, Replace
<1>2. /\ IsStack(stack') /\ stack' # <<>> /\ Len(stack') = Len(stack) /\ Len(stack) \in Nat \ {0}
      /\ stack'[Len(stack)] = f
  BY <1>1, ReplacedTop
<1>2a. \A d \in 1..(Len(stack) - 1) : stack'[d] = stack[d]
  BY <1>1, ReplacedTop
<1>3. Frames'
  BY <1>2, <1>2a DEF IInv, Frames, Waiting
<1>4. CASE Len(stack) = 1
  <2>1. ~Waiting(1) /\ ~Waiting(1)'
    BY <1>2, <1>2a, <1>4 DEF Waiting, top
  <2>2. granted' = current_mode'
    BY <1>4, <2>1 DEF IInv, GrantedOutside, Keeps, Grants
  <2> QED
    BY <1>3, <2>1, <2>2 DEF IInv, GrantedOutside
<1>5. CASE Len(stack) > 1
  <2>1. Waiting(1) /\ stack'[1] = stack[1]
    BY <1>2, <1>2a, <1>5, TopOfStack
  <2>2. granted' = granted
    BY <1>2, <1>2a, <2>1 DEF Keeps, Grants
  <2> QED
    BY <1>2, <1>2a, <1>3, <2>1, <2>2 DEF IInv, GrantedOutside, Waiting
<1> QED
  BY <1>2, <1>2a, <1>4, <1>5

(* The segment on top is over, and its chain goes on or is done.           *)
LEMMA AfterSegment ==
    ASSUME NEW f, HasLocals(f), NEW results
    PROVE  /\ HasLocals(After(f, results))
           /\ After(f, results).doing \in {"parsing", "done"}
  BY DEF HasLocals, After

LEMMA SegmentOver ==
    ASSUME IInv, stack # <<>>, top.doing # "waiting", NEW results, Replace(After(top, results)),
           Keeps \/ Grants
    PROVE  IInv'
<1>1. HasLocals(After(top, results)) /\ After(top, results).doing # "waiting"
  BY TopOfStack, AfterSegment
<1> QED
  BY <1>1, TopGoesOn

LEMMA ReturnsKeeps ==
    ASSUME IInv, stack # <<>>, top.doing # "waiting", NEW result, Returns(result), UNCHANGED appVars
    PROVE  IInv'
<1>1. Replace(After(top, <<result>>)) /\ Keeps
  BY DEF Returns, Proceed, Keeps, appVars
<1> QED
  BY <1>1, SegmentOver

LEMMA GrantKeeps ==
    ASSUME IInv, stack # <<>>, top.doing # "waiting", NEW mode, NEW user, Grant(mode, user)
    PROVE  IInv'
<1>1. Replace(After(top, <<Ok(0)>>)) /\ Grants
  BY DEF Grant, Proceed, set_mode, Grants
<1> QED
  BY <1>1, SegmentOver

(* sudo leaves the mode it found in its frame and hands over to a new one. *)
LEMMA NestKeeps ==
    ASSUME IInv, stack # <<>>, top.doing # "waiting", UNCHANGED granted,
           NEW array, NEW first, NEW length, Nest(array, first, length, current_mode)
    PROVE  IInv'
<1> DEFINE f == [top EXCEPT !.doing = "waiting", !.saved = current_mode]
           s == [stack EXCEPT ![Len(stack)] = f]
<1>1. PICK call : /\ HasLocals(call)
                  /\ stack' = Append([stack EXCEPT ![Len(stack)].doing = "waiting",
                                                   ![Len(stack)].saved = current_mode], call)
  BY DEF Nest, HasLocals, Call
<1>2. IsStack(stack) /\ Len(stack) \in Nat \ {0} /\ HasLocals(top)
  BY TopOfStack DEF IInv, Frames
<1>3. stack' = Append(s, call)
  BY <1>1, <1>2, CallerWaits
<1>4. HasLocals(f) /\ f.doing = "waiting" /\ f.saved = current_mode
  BY <1>2 DEF HasLocals
<1> HIDE DEF f
<1>5. IsStack(s) /\ s # <<>> /\ Len(s) = Len(stack) /\ s[Len(stack)] = f
  BY <1>2, ReplacedTop
<1>6. \A d \in 1..(Len(stack) - 1) : s[d] = stack[d]
  BY <1>2, ReplacedTop
<1> HIDE DEF s
<1>7. IsStack(stack') /\ stack' # <<>>
  BY <1>3, <1>5, PushedOn
<1>8. Len(stack') = Len(stack) + 1 /\ stack'[Len(stack) + 1] = call
  BY <1>3, <1>5, PushedOn
<1>9. \A d \in 1..Len(stack) : stack'[d] = s[d]
  BY <1>3, <1>5, PushedOn
<1>10. \A d \in 1..(Len(stack) - 1) : stack'[d] = stack[d]
  BY <1>2, <1>6, <1>9
<1>11. stack'[Len(stack)] = f
  BY <1>2, <1>5, <1>9
<1>12. Frames'
  <2>1. ASSUME NEW d \in 1..Len(stack') PROVE HasLocals(stack'[d])
    <3>1. d \in 1..(Len(stack) - 1) \/ d = Len(stack) \/ d = Len(stack) + 1
      BY <1>2, <1>8
    <3>2. d \in 1..(Len(stack) - 1) => HasLocals(stack[d])
      BY <1>2 DEF IInv, Frames
    <3> QED
      BY <1>1, <1>4, <1>8, <1>10, <1>11, <3>1, <3>2
  <2>2. \A d \in 1..Len(stack) : Waiting(d)'
    BY <1>2, <1>4, <1>10, <1>11 DEF IInv, Frames, Waiting
  <2> QED
    BY <1>2, <1>7, <1>8, <2>1, <2>2 DEF Frames
<1>13. Waiting(1)'
  BY <1>2, <1>8, <1>12 DEF Frames
<1>14. granted = stack'[1].saved
  <2>1. CASE Len(stack) = 1
    BY <1>4, <1>11, <2>1 DEF IInv, GrantedOutside, Waiting, top
  <2>2. CASE Len(stack) > 1
    <3>1. stack'[1] = stack[1] /\ Waiting(1)
      BY <1>2, <1>10, <2>2, TopOfStack
    <3> QED
      BY <3>1 DEF IInv, GrantedOutside
  <2>3. \A n \in Nat \ {0} : n = 1 \/ n > 1
    OBVIOUS
  <2> QED
    BY <1>2, <2>1, <2>2, <2>3, Zenon
<1> QED
  BY <1>7, <1>12, <1>13, <1>14 DEF IInv, GrantedOutside

(* The handler of sudo resumes and restores the mode it saved.             *)
LEMMA SudoReturnsKeeps ==
    ASSUME IInv, SudoReturns
    PROVE  IInv'
<1> DEFINE f == After(top, <<Ok(0)>>)
<1>1. /\ stack # <<>> /\ Waiting(Len(stack)) /\ IsStack(stack)
      /\ current_mode' = top.saved /\ granted' = granted
      /\ stack' = [stack EXCEPT ![Len(stack)] = f]
  BY DEF IInv, Frames, SudoReturns, Doing, Waiting, top, set_mode, Proceed, Replace, appVars
<1>2. HasLocals(f) /\ f.doing \in {"parsing", "done"}
  BY <1>1, TopOfStack, AfterSegment
<1> HIDE DEF f
<1>3. /\ IsStack(stack') /\ stack' # <<>> /\ Len(stack') = Len(stack) /\ Len(stack) \in Nat \ {0}
      /\ stack'[Len(stack)] = f
  BY <1>1, ReplacedTop
<1>4. \A d \in 1..(Len(stack) - 1) : stack'[d] = stack[d]
  BY <1>1, ReplacedTop
<1>5. Frames'
  BY <1>2, <1>3, <1>4 DEF IInv, Frames, Waiting
<1>6. CASE Len(stack) = 1
  <2>1. ~Waiting(1)' /\ granted = top.saved
    BY <1>1, <1>2, <1>3, <1>6 DEF IInv, GrantedOutside, Waiting, top
  <2> QED
    BY <1>1, <1>5, <2>1 DEF IInv, GrantedOutside
<1>7. CASE Len(stack) > 1
  <2>1. Waiting(1)
    BY <1>1, <1>7, TopOfStack
  <2>2. stack'[1] = stack[1]
    BY <1>3, <1>4, <1>7
  <2> QED
    BY <1>1, <1>3, <1>5, <2>1, <2>2 DEF IInv, GrantedOutside, Waiting
<1> QED
  BY <1>3, <1>6, <1>7

(* A chain returns to the frame that waits for it, or to the prompt.       *)
LEMMA ReturnKeeps ==
    ASSUME IInv, Return, UNCHANGED appVars
    PROVE  IInv'
<1>1. /\ stack # <<>> /\ top.doing = "done" /\ IsStack(stack)
      /\ stack' = Front(stack) /\ UNCHANGED <<current_mode, granted>>
  BY DEF IInv, Frames, Return, Doing, appVars
<1>2. IsStack(stack') /\ Len(stack') = Len(stack) - 1 /\ Len(stack) \in Nat \ {0}
  BY <1>1, PoppedOff
<1>3. \A d \in 1..(Len(stack) - 1) : stack'[d] = stack[d]
  BY <1>1, PoppedOff
<1>4. Frames'
  BY <1>2, <1>3 DEF IInv, Frames, Waiting
<1>5. CASE Len(stack) = 1
  <2>1. stack' = <<>>
    BY <1>2, <1>5 DEF IsStack
  <2>2. granted = current_mode
    BY <1>1, <1>5 DEF IInv, GrantedOutside, Waiting, top
  <2> QED
    BY <1>1, <1>4, <2>1, <2>2 DEF IInv, GrantedOutside
<1>6. CASE Len(stack) > 1
  <2>1. Waiting(1) /\ stack'[1] = stack[1]
    BY <1>1, <1>2, <1>3, <1>6, TopOfStack
  <2>2. stack' # <<>>
    BY <1>2, <1>6
  <2> QED
    BY <1>1, <1>4, <2>1, <2>2 DEF IInv, GrantedOutside, Waiting
<1> QED
  BY <1>2, <1>5, <1>6
(* Every step keeps the invariant.                                         *)
LEMMA StepKeeps ==
    ASSUME IInv, [Next]_vars
    PROVE  IInv'
<1>1. ASSUME NEW line, NEW typed, stack = <<>>, Dispatch(line, typed), UNCHANGED appVars
      PROVE  IInv'
  <2>1. PICK call : HasLocals(call) /\ call.doing = "parsing" /\ stack' = <<call>>
    BY <1>1 DEF Dispatch, HasLocals, Call
  <2>2. IsStack(stack') /\ Len(stack') = 1 /\ stack'[1] = call
    <3>1. stack' \in Seq({call}) /\ Len(stack') = 1 /\ stack'[1] = call
      BY <2>1
    <3> QED
      BY <3>1 DEF IsStack
  <2>3. UNCHANGED <<current_mode, granted>>
    BY <1>1 DEF Dispatch, appVars
  <2> QED
    BY <1>1, <2>1, <2>2, <2>3 DEF IInv, Frames, GrantedOutside, Waiting
<1>2. ASSUME NEW line, on_submit(line), UNCHANGED appVars
      PROVE  IInv'
  BY <1>1, <1>2 DEF on_submit
<1>3. ASSUME NEW line, run_line(line), UNCHANGED appVars
      PROVE  IInv'
  <2>1. CASE line # <<>>
    BY <1>1, <1>3, <2>1 DEF run_line
  <2>2. CASE line = <<>>
    BY <1>3, <2>2 DEF run_line, appVars, IInv, Frames, GrantedOutside, Waiting
  <2> QED
    BY <2>1, <2>2
<1>4. ASSUME Parse, UNCHANGED appVars
      PROVE  IInv'
  <2>1. PICK f : HasLocals(f) /\ f.doing # "waiting" /\ Replace(f)
    <3>1. stack # <<>> /\ HasLocals(top)
      BY <1>4, TopOfStack DEF Parse, Doing
    <3> QED
      BY <1>4, <3>1 DEF Parse, HasLocals
  <2>2. stack # <<>> /\ top.doing # "waiting" /\ Keeps
    BY <1>4 DEF Parse, Doing, Keeps, appVars
  <2> QED
    BY <2>1, <2>2, TopGoesOn
<1>5. ASSUME EmptySegment, UNCHANGED appVars
      PROVE  IInv'
  BY <1>5, SegmentOver DEF EmptySegment, Doing, Keeps, appVars
<1>6. ASSUME Invoking, NEW result, Returns(result), UNCHANGED appVars
      PROVE  IInv'
  BY <1>6, ReturnsKeeps DEF Invoking, Doing
<1>7. ASSUME Invoking, NEW mode, NEW user, Grant(mode, user)
      PROVE  IInv'
  BY <1>7, GrantKeeps DEF Invoking, Doing
<1>8. ASSUME help \/ Refuse \/ plain, UNCHANGED appVars
      PROVE  IInv'
  BY <1>6, <1>8 DEF help, Refuse, plain, Executes
<1>9. ASSUME Step, UNCHANGED appVars
      PROVE  IInv'
  BY <1>4, <1>5, <1>8, <1>9, ReturnKeeps DEF Step
<1>10. ASSUME cmd_echo \/ cmd_uptime \/ cmd_whoami
       PROVE  IInv'
  BY <1>6, <1>10 DEF cmd_echo, cmd_uptime, cmd_whoami, WithoutArguments, Executes
<1>11. ASSUME cmd_login \/ cmd_logout \/ cmd_mode
       PROVE  IInv'
  BY <1>6, <1>7, <1>11 DEF cmd_login, cmd_logout, cmd_mode, Fail, Executes
<1>12. ASSUME cmd_sudo
       PROVE  IInv'
  <2>1. CASE View!count = 0
    BY <1>6, <1>12, <2>1 DEF cmd_sudo, Fail, Executes
  <2>2. CASE View!count # 0
    <3>1. /\ stack # <<>> /\ top.doing # "waiting" /\ UNCHANGED granted
          /\ \E array, first, length : Nest(array, first, length, current_mode)
      BY <1>12, <2>2 DEF cmd_sudo, original_mode, Executes, Invoking, Doing, appVars
    <3> QED
      BY <3>1, NestKeeps
  <2> QED
    BY <2>1, <2>2
<1>13. ASSUME UNCHANGED vars
       PROVE  IInv'
  BY <1>13 DEF vars, IInv, Frames, GrantedOutside, Waiting
<1> QED
  BY <1>2, <1>3, <1>9, <1>10, <1>11, <1>12, <1>13, SudoReturnsKeeps DEF Next, Execution

(* Outside sudo the mode is the one last granted outside sudo.             *)
LEMMA InvariantImplies == IInv => ElevationEnds
<1> SUFFICES ASSUME IInv PROVE ElevationEnds
  OBVIOUS
<1> DEFINE elevated == {d \in 1..Len(stack) : Waiting(d)}
<1>1. Len(stack) \in Nat /\ (Len(stack) = 0 <=> stack = <<>>)
  BY DEF IInv, Frames, IsStack
<1>2. CASE stack # <<>> /\ Waiting(1)
  <2>1. 1 \in elevated /\ \A d \in elevated : d \in Nat /\ 1 <= d
    BY <1>1, <1>2
  <2>2. Min(elevated) = 1
    BY <2>1 DEF Min
  <2> QED
    BY <1>2, <2>1, <2>2 DEF IInv, GrantedOutside, ElevationEnds
<1>3. CASE stack = <<>> \/ ~Waiting(1)
  <2>1. elevated = {}
    BY <1>1, <1>3 DEF IInv, Frames
  <2> QED
    BY <1>3, <2>1 DEF IInv, GrantedOutside, ElevationEnds
<1> QED
  BY <1>2, <1>3

LEMMA InitKeeps == Init => IInv
<1>1. <<>> \in Seq({}) /\ Len(<<>>) = 0
  OBVIOUS
<1>2. Init => IsStack(stack) /\ Len(stack) = 0
  BY <1>1 DEF Init, ShellInit, IsStack
<1>3. 1..0 = {} /\ 1..(0 - 1) = {}
  OBVIOUS
<1>4. Init => Frames
  BY <1>2, <1>3, Zenon DEF Frames
<1> QED
  BY <1>4 DEF Init, ShellInit, IInv, GrantedOutside

(* Elevation ends with the command it was asked for, for every table,      *)
(* every line and every depth of sudo.                                     *)
THEOREM SudoRestoresMode == Spec => []ElevationEnds
  BY InitKeeps, StepKeeps, InvariantImplies, PTL DEF Spec

-----------------------------------------------------------------------------

(* A call knows the result of its last command, whatever ran inside it.    *)
Sound(f) ==
    /\ {"result", "ran", "typed", "doing", "saved"} \subseteq DOMAIN f
    /\ IsStack(f.ran)
    /\ f.result = Chains!LastResult(f.ran)

(* Only the outermost line was typed, and no byte is sent before its end.  *)
SInv ==
    /\ IsStack(stack)
    /\ \A d \in 1..Len(stack) : Sound(stack[d])
    /\ \A d \in 2..Len(stack) : ~stack[d].typed
    /\ stack # <<>> => printed = <<>>

LEMMA HasGreatest ==
    ASSUME NEW n \in Nat, NEW S \in SUBSET (1..n), S # {}
    PROVE  Max(S) \in S
<1>1. S \in SUBSET (0..n)
  OBVIOUS
<1>2. \E greatest \in S : \A m \in S : greatest >= m
  BY <1>1, Facts!HasGreatest
<1> QED
  BY <1>2, Zenon DEF Max

LEMMA GreatestIs ==
    ASSUME NEW S, NEW n \in S, n \in Int, \A k \in S : k \in Int /\ n >= k
    PROVE  Max(S) = n
<1>1. Max(S) \in S /\ \A k \in S : Max(S) >= k
  BY Zenon DEF Max
<1>2. PICK m : m = Max(S)
  OBVIOUS
<1>3. m \in Int /\ n >= m /\ m >= n
  BY <1>1, <1>2
<1> QED
  BY <1>2, <1>3

(* A segment that ran a command gives the last result, another leaves it.  *)
LEMMA LastOfRan ==
    ASSUME NEW ran, IsStack(ran), NEW r
    PROVE  Chains!LastResult(Append(ran, <<r>>)) = r
<1> DEFINE t == Append(ran, <<r>>)
           executed == {k \in 1..Len(t) : t[k] # <<>>}
<1>1. Len(t) = Len(ran) + 1 /\ Len(ran) \in Nat /\ t[Len(ran) + 1] = <<r>>
  BY PushedOn
<1> HIDE DEF t
<1>2. \A n \in Nat : n + 1 \in 1..(n + 1) /\ \A k \in 1..(n + 1) : n + 1 >= k
  OBVIOUS
<1>3. Len(t) \in executed /\ \A k \in executed : Len(t) >= k
  <2>1. <<r>> # <<>>
    OBVIOUS
  <2>2. Len(t) \in 1..Len(t) /\ \A k \in 1..Len(t) : Len(t) >= k
    BY <1>1, <1>2, Zenon
  <2> QED
    BY <1>1, <2>1, <2>2, Zenon
<1>4. Max(executed) = Len(t)
  <2>1. Len(t) \in Int /\ \A k \in executed : k \in Int
    BY <1>1
  <2> HIDE DEF executed
  <2> QED
    BY <1>3, <2>1, GreatestIs
<1>5. Chains!LastResult(t) = IF executed = {} THEN Chains!NothingRan ELSE t[Max(executed)][1]
  BY DEF Chains!LastResult, Chains!Max, Max
<1>6. t[Max(executed)] = <<r>> /\ <<r>>[1] = r
  BY <1>1, <1>4
<1>7. Chains!LastResult(t) = r
  BY <1>3, <1>5, <1>6, Zenon
<1> QED
  BY <1>7 DEF t

LEMMA LastOfSkipped ==
    ASSUME NEW ran, IsStack(ran)
    PROVE  Chains!LastResult(Append(ran, <<>>)) = Chains!LastResult(ran)
<1> DEFINE t == Append(ran, <<>>)
           executed == {k \in 1..Len(ran) : ran[k] # <<>>}
<1>1. Len(t) = Len(ran) + 1 /\ Len(ran) \in Nat /\ t[Len(ran) + 1] = <<>>
  BY PushedOn
<1>2. \A d \in 1..Len(ran) : t[d] = ran[d]
  BY PushedOn
<1> HIDE DEF t
<1>3. \A n \in Nat : \A k : k \in 1..(n + 1) <=> k \in 1..n \/ k = n + 1
  OBVIOUS
<1>4. {k \in 1..Len(t) : t[k] # <<>>} = executed
  BY <1>1, <1>2, <1>3, Zenon
<1>5. executed # {} => Max(executed) \in executed
  BY <1>1, HasGreatest
<1>6. executed # {} => t[Max(executed)] = ran[Max(executed)]
  BY <1>2, <1>5
<1>7. Chains!LastResult(ran) = IF executed = {} THEN Chains!NothingRan ELSE ran[Max(executed)][1]
  BY DEF Chains!LastResult, Chains!Max, Max
<1> DEFINE also == {k \in 1..Len(t) : t[k] # <<>>}
<1>8. Chains!LastResult(t) = IF also = {} THEN Chains!NothingRan ELSE t[Max(also)][1]
  BY DEF Chains!LastResult, Chains!Max, Max
<1>9. also = executed
  BY <1>4
<1> HIDE DEF executed, also
<1>10. Chains!LastResult(t) = Chains!LastResult(ran)
  <2>1. CASE executed = {}
    BY <1>7, <1>8, <1>9, <2>1, Zenon
  <2>2. CASE executed # {}
    BY <1>6, <1>7, <1>8, <1>9, <2>2
  <2> QED
    BY <2>1, <2>2
<1> QED
  BY <1>10 DEF t

LEMMA NothingRanYet == Chains!LastResult(<<>>) = Ok(0)
<1>1. {k \in 1..Len(<<>>) : <<>>[k] # <<>>} = {}
  OBVIOUS
<1> QED
  BY <1>1 DEF Chains!LastResult, Chains!NothingRan, Ok, Result

LEMMA EmptyIsStack == IsStack(<<>>)
<1>1. <<>> \in Seq({})
  OBVIOUS
<1> QED
  BY <1>1 DEF IsStack

(* A step of the call on top leaves it sound.                              *)
LEMMA TopStaysSound ==
    ASSUME SInv, stack # <<>>, NEW f, Sound(f), f.typed = top.typed, Replace(f), UNCHANGED printed
    PROVE  SInv'
<1>1. IsStack(stack) /\ stack' = [stack EXCEPT ![Len(stack)] = f]
  BY DEF SInv, Replace
<1>2. /\ IsStack(stack') /\ stack' # <<>> /\ Len(stack') = Len(stack) /\ Len(stack) \in Nat \ {0}
      /\ stack'[Len(stack)] = f
  BY <1>1, ReplacedTop
<1>3. \A d \in 1..(Len(stack) - 1) : stack'[d] = stack[d]
  BY <1>1, ReplacedTop
<1>4. ASSUME NEW d \in 1..Len(stack')
      PROVE  Sound(stack'[d]) /\ (d \in 2..Len(stack') => ~stack'[d].typed)
  <2>1. CASE d = Len(stack)
    BY <1>2, <2>1 DEF SInv, top
  <2>2. CASE d \in 1..(Len(stack) - 1)
    BY <1>2, <1>3, <2>2 DEF SInv
  <2> QED
    BY <1>2, <2>1, <2>2
<1> QED
  BY <1>2, <1>4 DEF SInv

LEMMA TopSound ==
    ASSUME SInv, stack # <<>>
    PROVE  Sound(top) /\ Len(stack) \in Nat \ {0}
<1>1. Len(stack) \in Nat \ {0}
  BY DEF SInv, IsStack
<1> QED
  BY <1>1 DEF SInv, top

LEMMA AppendedIsStack ==
    ASSUME NEW s, IsStack(s), NEW x
    PROVE  IsStack(Append(s, x))
  BY PushedOn

LEMMA ProceedSound ==
    ASSUME SInv, stack # <<>>, NEW r, Proceed(r), UNCHANGED printed
    PROVE  SInv'
<1> DEFINE f == After(top, <<r>>)
<1>1. f.result = r /\ f.ran = Append(top.ran, <<r>>) /\ f.typed = top.typed
      /\ {"result", "ran", "typed", "doing", "saved"} \subseteq DOMAIN f
  BY TopSound DEF After, Sound
<1>2. Replace(f)
  BY DEF Proceed
<1> HIDE DEF f
<1>3. Sound(f)
  BY <1>1, TopSound, AppendedIsStack, LastOfRan DEF Sound
<1> QED
  BY <1>1, <1>2, <1>3, TopStaysSound

LEMMA SkipSound ==
    ASSUME SInv, EmptySegment
    PROVE  SInv'
<1> DEFINE f == After(top, <<>>)
<1>1. stack # <<>> /\ Replace(f) /\ UNCHANGED printed
  BY DEF EmptySegment, Doing
<1>2. f.result = top.result /\ f.ran = Append(top.ran, <<>>) /\ f.typed = top.typed
      /\ {"result", "ran", "typed", "doing", "saved"} \subseteq DOMAIN f
  BY <1>1, TopSound DEF After, Sound
<1> HIDE DEF f
<1>3. Sound(f)
  BY <1>1, <1>2, TopSound, AppendedIsStack, LastOfSkipped DEF Sound
<1> QED
  BY <1>1, <1>2, <1>3, TopStaysSound

LEMMA ParseSound ==
    ASSUME SInv, Parse
    PROVE  SInv'
<1>1. stack # <<>> /\ UNCHANGED printed
  BY DEF Parse, Doing
<1>2. Sound(top)
  BY <1>1, TopSound
<1>3. PICK seg : Replace(
            IF seg.kind = "ParseError"
            THEN [top EXCEPT !.result = Ok(-1), !.doing = "done", !.ran = Append(@, <<Ok(-1)>>)]
            ELSE [top EXCEPT !.offset = C!SegmentBegin(slice, top.slice_offset),
                             !.slice_offset = seg.next, !.arg_count = Len(seg.tokens),
                             !.terminator = seg.kind, !.doing = "invoking"])
  BY DEF Parse
<1>4. CASE seg.kind = "ParseError"
  <2> DEFINE f == [top EXCEPT !.result = Ok(-1), !.doing = "done", !.ran = Append(@, <<Ok(-1)>>)]
  <2>1. f.result = Ok(-1) /\ f.ran = Append(top.ran, <<Ok(-1)>>) /\ f.typed = top.typed
        /\ {"result", "ran", "typed", "doing", "saved"} \subseteq DOMAIN f
    BY <1>2 DEF Sound
  <2>2. Replace(f)
    BY <1>3, <1>4
  <2> HIDE DEF f
  <2>3. Sound(f)
    BY <1>2, <2>1, AppendedIsStack, LastOfRan DEF Sound
  <2> QED
    BY <1>1, <2>1, <2>2, <2>3, TopStaysSound
<1>5. CASE seg.kind # "ParseError"
  <2> DEFINE f == [top EXCEPT !.offset = C!SegmentBegin(slice, top.slice_offset),
                              !.slice_offset = seg.next, !.arg_count = Len(seg.tokens),
                              !.terminator = seg.kind, !.doing = "invoking"]
  <2>1. f.result = top.result /\ f.ran = top.ran /\ f.typed = top.typed
        /\ {"result", "ran", "typed", "doing", "saved"} \subseteq DOMAIN f
    BY <1>2 DEF Sound
  <2>2. Replace(f)
    BY <1>3, <1>5
  <2> HIDE DEF f
  <2>3. Sound(f)
    BY <1>2, <2>1 DEF Sound
  <2> QED
    BY <1>1, <2>1, <2>2, <2>3, TopStaysSound
<1> QED
  BY <1>4, <1>5
LEMMA NestSound ==
    ASSUME SInv, stack # <<>>, UNCHANGED printed,
           NEW array, NEW first, NEW length, Nest(array, first, length, current_mode)
    PROVE  SInv'
<1> DEFINE f == [top EXCEPT !.doing = "waiting", !.saved = current_mode]
           s == [stack EXCEPT ![Len(stack)] = f]
<1>1. PICK call : /\ {"result", "ran", "typed", "doing", "saved"} \subseteq DOMAIN call
                  /\ call.result = Ok(0) /\ call.ran = <<>> /\ call.typed = FALSE
                  /\ stack' = Append([stack EXCEPT ![Len(stack)].doing = "waiting",
                                                   ![Len(stack)].saved = current_mode], call)
  BY DEF Nest, Call
<1>2. IsStack(stack) /\ Len(stack) \in Nat \ {0} /\ Sound(top)
  BY TopSound DEF SInv
<1>3. stack' = Append(s, call)
  BY <1>1, <1>2, CallerWaits
<1>4. Sound(f) /\ f.typed = top.typed
  BY <1>2 DEF Sound
<1>5. Sound(call) /\ ~call.typed
  <2>1. call.result = Chains!LastResult(call.ran)
    BY <1>1, NothingRanYet
  <2>2. IsStack(call.ran)
    BY <1>1, EmptyIsStack
  <2> QED
    BY <1>1, <2>1, <2>2 DEF Sound
<1> HIDE DEF f
<1>6. IsStack(s) /\ s # <<>> /\ Len(s) = Len(stack) /\ s[Len(stack)] = f
  BY <1>2, ReplacedTop
<1>7. \A d \in 1..(Len(stack) - 1) : s[d] = stack[d]
  BY <1>2, ReplacedTop
<1> HIDE DEF s
<1>8. IsStack(stack')
  BY <1>3, <1>6, PushedOn
<1>9. Len(stack') = Len(stack) + 1 /\ stack'[Len(stack) + 1] = call
  BY <1>3, <1>6, PushedOn
<1>10. \A d \in 1..Len(stack) : stack'[d] = s[d]
  BY <1>3, <1>6, PushedOn
<1>11. ASSUME NEW d \in 1..Len(stack')
       PROVE  Sound(stack'[d]) /\ (d \in 2..Len(stack') => ~stack'[d].typed)
  <2>1. d \in 1..(Len(stack) - 1) \/ d = Len(stack) \/ d = Len(stack) + 1
    BY <1>2, <1>9
  <2>2. CASE d = Len(stack) + 1
    BY <1>5, <1>9, <2>2
  <2>3. CASE d = Len(stack)
    <3>1. stack'[d] = f /\ (d \in 2..Len(stack') => d \in 2..Len(stack))
      BY <1>2, <1>6, <1>9, <1>10, <2>3
    <3> QED
      BY <1>4, <2>3, <3>1 DEF SInv, top
  <2>4. CASE d \in 1..(Len(stack) - 1)
    <3>1. stack'[d] = stack[d] /\ d \in 1..Len(stack) /\ (d \in 2..Len(stack') => d \in 2..Len(stack))
      BY <1>2, <1>7, <1>9, <1>10, <2>4
    <3> QED
      BY <3>1 DEF SInv
  <2> QED
    BY <2>1, <2>2, <2>3, <2>4
<1>12. printed' = <<>>
  BY DEF SInv
<1> QED
  BY <1>8, <1>11, <1>12 DEF SInv

LEMMA ReturnSound ==
    ASSUME SInv, Return
    PROVE  SInv'
<1>1. stack # <<>> /\ IsStack(stack) /\ stack' = Front(stack)
  BY DEF SInv, Return, Doing
<1>2. IsStack(stack') /\ Len(stack') = Len(stack) - 1 /\ Len(stack) \in Nat \ {0}
  BY <1>1, PoppedOff
<1>3. \A d \in 1..(Len(stack) - 1) : stack'[d] = stack[d]
  BY <1>1, PoppedOff
<1>4. ASSUME NEW d \in 1..Len(stack')
      PROVE  Sound(stack'[d]) /\ (d \in 2..Len(stack') => ~stack'[d].typed)
  <2>1. stack'[d] = stack[d] /\ d \in 1..Len(stack) /\ (d \in 2..Len(stack') => d \in 2..Len(stack))
    BY <1>2, <1>3
  <2> QED
    BY <2>1 DEF SInv
<1>5. CASE stack' = <<>>
  BY <1>2, <1>4, <1>5 DEF SInv
<1>6. CASE stack' # <<>>
  <2>1. Len(stack) \in 2..Len(stack)
    <3>1. Len(stack') # 0
      BY SMTT(30), <1>2, <1>6 DEF IsStack
    <3>2. \A n \in Nat \ {0} : n - 1 # 0 => n \in 2..n
      OBVIOUS
    <3> QED
      BY <1>2, <3>1, <3>2, Zenon
  <2>2. ~top.typed /\ printed = <<>>
    BY <1>1, <2>1 DEF SInv, top
  <2>3. printed' = <<>>
    BY <2>2 DEF Return, Prints
  <2> QED
    BY <1>2, <1>4, <2>3 DEF SInv
<1> QED
  BY <1>5, <1>6

LEMMA StepSound ==
    ASSUME SInv, [Next]_vars
    PROVE  SInv'
<1>1. ASSUME NEW line, NEW typed, stack = <<>>, Dispatch(line, typed)
      PROVE  SInv'
  <2>1. PICK call : /\ {"result", "ran", "typed", "doing", "saved"} \subseteq DOMAIN call
                    /\ call.result = Ok(0) /\ call.ran = <<>> /\ stack' = <<call>>
    BY <1>1 DEF Dispatch, Call
  <2>2. Sound(call)
    BY <2>1, NothingRanYet, EmptyIsStack DEF Sound
  <2>3. IsStack(stack') /\ Len(stack') = 1 /\ stack'[1] = call
    <3>1. stack' \in Seq({call}) /\ Len(stack') = 1 /\ stack'[1] = call
      BY <2>1
    <3> QED
      BY <3>1 DEF IsStack
  <2>4. printed' = <<>>
    BY <1>1 DEF Dispatch
  <2> QED
    BY <2>2, <2>3, <2>4 DEF SInv
<1>2. ASSUME UNCHANGED <<stack, printed>>
      PROVE  SInv'
  BY <1>2 DEF SInv
<1>3. ASSUME NEW line, on_submit(line) \/ run_line(line)
      PROVE  SInv'
  BY <1>1, <1>2, <1>3 DEF on_submit, run_line
<1>4. ASSUME Invoking, NEW result, Returns(result)
      PROVE  SInv'
  BY <1>4, ProceedSound DEF Invoking, Doing, Returns
<1>5. ASSUME Invoking, NEW mode, NEW user, Grant(mode, user)
      PROVE  SInv'
  BY <1>5, ProceedSound DEF Invoking, Doing, Grant
<1>6. ASSUME help \/ Refuse \/ plain
      PROVE  SInv'
  BY <1>4, <1>6 DEF help, Refuse, plain, Executes
<1>7. ASSUME Step
      PROVE  SInv'
  BY <1>6, <1>7, ParseSound, SkipSound, ReturnSound DEF Step
<1>8. ASSUME cmd_echo \/ cmd_uptime \/ cmd_whoami
      PROVE  SInv'
  BY <1>4, <1>8 DEF cmd_echo, cmd_uptime, cmd_whoami, WithoutArguments, Executes
<1>9. ASSUME cmd_login \/ cmd_logout \/ cmd_mode
      PROVE  SInv'
  BY <1>4, <1>5, <1>9 DEF cmd_login, cmd_logout, cmd_mode, Fail, Executes
<1>10. ASSUME cmd_sudo
       PROVE  SInv'
  <2>1. CASE View!count = 0
    BY <1>4, <1>10, <2>1 DEF cmd_sudo, Fail, Executes
  <2>2. CASE View!count # 0
    <3>1. /\ stack # <<>> /\ UNCHANGED printed
          /\ \E array, first, length : Nest(array, first, length, current_mode)
      BY <1>10, <2>2 DEF cmd_sudo, original_mode, Executes, Invoking, Doing
    <3> QED
      BY <3>1, NestSound
  <2> QED
    BY <2>1, <2>2
<1>11. ASSUME SudoReturns
       PROVE  SInv'
  BY <1>11, ProceedSound DEF SudoReturns, Doing
<1>12. ASSUME UNCHANGED vars
       PROVE  SInv'
  BY <1>2, <1>12 DEF vars
<1> QED
  BY <1>3, <1>7, <1>8, <1>9, <1>10, <1>11, <1>12 DEF Next, Execution

(* Only the return of the outermost call empties the stack.                *)
LEMMA OnlyReturnEnds ==
    ASSUME SInv, [Next]_vars, Len(stack) = 1, stack' = <<>>
    PROVE  Return
<1>1. IsStack(stack) /\ stack # <<>>
  <2>1. Len(<<>>) = 0
    OBVIOUS
  <2> QED
    BY <2>1 DEF SInv
<1>2. ASSUME NEW f, Replace(f) PROVE FALSE
  BY <1>1, <1>2, ReplacedTop DEF Replace
<1>3. ASSUME NEW result, Returns(result) PROVE FALSE
  BY <1>2, <1>3 DEF Returns, Proceed
<1>4. ASSUME NEW mode, NEW user, Grant(mode, user) PROVE FALSE
  BY <1>2, <1>4 DEF Grant, Proceed
<1>5. ASSUME NEW array, NEW first, NEW length, NEW mode, Nest(array, first, length, mode) PROVE FALSE
  <2> DEFINE f == [top EXCEPT !.doing = "waiting", !.saved = mode]
             s == [stack EXCEPT ![Len(stack)] = f]
  <2>1. Len(stack) \in Nat \ {0}
    BY <1>1, TopSound
  <2>2. IsStack(s)
    <3> HIDE DEF f
    <3> QED
      BY <1>1, ReplacedTop
  <2>3. PICK call : stack' = Append(s, call)
    BY <1>1, <1>5, <2>1, CallerWaits DEF Nest
  <2> HIDE DEF s
  <2> QED
    BY <2>2, <2>3, PushedOn
<1>6. ~Parse /\ ~EmptySegment
  BY <1>2 DEF Parse, EmptySegment
<1>7. ~help /\ ~Refuse /\ ~plain
  BY <1>3 DEF help, Refuse, plain
<1>8. ~cmd_echo /\ ~cmd_uptime /\ ~cmd_whoami /\ ~cmd_login /\ ~cmd_logout /\ ~cmd_mode
  BY <1>3, <1>4 DEF cmd_echo, cmd_uptime, cmd_whoami, WithoutArguments, cmd_login, cmd_logout,
                    cmd_mode, Fail
<1>9. ~cmd_sudo
  BY <1>3, <1>5 DEF cmd_sudo, Fail
<1>10. ~SudoReturns
  BY <1>2 DEF SudoReturns, Proceed
<1>11. ASSUME NEW line, on_submit(line) \/ run_line(line) PROVE FALSE
  BY <1>1, <1>11 DEF on_submit, run_line
<1>12. ~UNCHANGED vars
  BY <1>1 DEF vars
<1> QED
  BY <1>6, <1>7, <1>8, <1>9, <1>10, <1>11, <1>12 DEF Next, Execution, Step

(* One status byte for a line typed at the prompt, none for another, and   *)
(* ACK exactly if the line's last command succeeded, whatever lines were   *)
(* run inside it.                                                          *)
THEOREM StatusIsOfTheTypedLine == Spec => OneStatusPerLine
<1>1. Init => SInv
  <2>1. 1..0 = {} /\ 2..0 = {} /\ Len(<<>>) = 0
    OBVIOUS
  <2> QED
    BY <2>1, EmptyIsStack, Zenon DEF Init, ShellInit, SInv
<1>2. ASSUME SInv, [Next]_vars
      PROVE  [Len(stack) = 1 /\ stack' = <<>> =>
                 printed' = IF ~top.typed THEN <<>>
                            ELSE IF Succeeded(Chains!LastResult(top.ran)) THEN <<"ACK">>
                            ELSE <<"NAK">>]_shellVars
  <2> SUFFICES ASSUME Len(stack) = 1, stack' = <<>>
               PROVE  printed' = IF ~top.typed THEN <<>>
                                 ELSE IF Succeeded(Chains!LastResult(top.ran)) THEN <<"ACK">>
                                 ELSE <<"NAK">>
    OBVIOUS
  <2>1. Return
    BY <1>2, OnlyReturnEnds
  <2>2. stack # <<>>
    BY <2>1 DEF Return, Doing
  <2>3. printed = <<>> /\ top.result = Chains!LastResult(top.ran)
    BY <1>2, <2>2, TopSound DEF SInv, Sound
  <2> QED
    BY <2>1, <2>3 DEF Return, Prints, StatusByte
<1> QED
  BY <1>1, <1>2, StepSound, PTL DEF Spec, OneStatusPerLine
-----------------------------------------------------------------------------

(* What ScanFacts calls the segments of a line are those of the line.      *)
LEMMA SameSegments ==
    ASSUME NEW t, NEW from
    PROVE  /\ C!SegmentBegin(t, from) = Facts!SegmentBegin(t, from)
           /\ C!Segment(t, from) = Facts!Segment(t, from)
           /\ C!Erased(t, from) = Facts!Erased(t, from)
<1>1. C!SegmentBegin(t, from) = Facts!SegmentBegin(t, from)
  BY SMTT(30) DEF C!SegmentBegin, Facts!SegmentBegin, C!IsBlankAt, Facts!IsBlankAt, C!Ends, Facts!Ends,
         C!SeparatorWidth, Facts!SeparatorWidth
<1>2. C!Segment(t, from) = Facts!Segment(t, from)
  BY ZenonT(40) DEF C!Segment, Facts!Segment, C!SegmentWith, Facts!SegmentWith, C!Ending, Facts!Ending,
         C!Tokens, Facts!Tokens, C!Token, Facts!Token, C!QuotedToken, Facts!QuotedToken,
         C!BareToken, Facts!BareToken, C!Breaks, Facts!Breaks, C!IsQuoteAt, Facts!IsQuoteAt,
         C!Quotes, Facts!Quotes,
         C!SegmentBegin, Facts!SegmentBegin, C!IsBlankAt, Facts!IsBlankAt, C!Ends, Facts!Ends,
         C!SeparatorWidth, Facts!SeparatorWidth
<1>3. C!Erased(t, from) = Facts!Erased(t, from)
  BY DEF C!Erased, Facts!Erased, C!Ending, Facts!Ending,
         C!Tokens, Facts!Tokens, C!Token, Facts!Token, C!QuotedToken, Facts!QuotedToken,
         C!BareToken, Facts!BareToken, C!Breaks, Facts!Breaks, C!IsQuoteAt, Facts!IsQuoteAt,
         C!Quotes, Facts!Quotes,
         C!SegmentBegin, Facts!SegmentBegin, C!IsBlankAt, Facts!IsBlankAt, C!Ends, Facts!Ends,
         C!SeparatorWidth, Facts!SeparatorWidth
<1> QED
  BY <1>1, <1>2, <1>3

(* The segment that is parsed next lies in the line, and so do the bytes   *)
(* that parsing it overwrites.                                             *)
LEMMA SegmentInLine ==
    ASSUME NEW t, Len(t) \in Nat, NEW from \in 0..Len(t)
    PROVE  /\ C!SegmentBegin(t, from) \in from..Len(t)
           /\ C!Segment(t, from).next \in C!SegmentBegin(t, from)..Len(t)
           /\ Len(C!Segment(t, from).tokens) \in Nat
           /\ C!Erased(t, from) \subseteq from..(C!Segment(t, from).next - 1)
  BY SameSegments, Facts!SegmentInLine, Facts!SegmentBeginInLine

(* A sequence whose elements are overwritten.                              *)
LEMMA Overwritten ==
    ASSUME NEW s, IsStack(s), NEW t, t = [p \in DOMAIN s |-> t[p]]
    PROVE  IsStack(t) /\ Len(t) = Len(s) /\ DOMAIN t = DOMAIN s
<1>1. PICK S : s \in Seq(S)
  BY DEF IsStack
<1>2. DOMAIN s = 1..Len(s) /\ Len(s) \in Nat
  BY <1>1
<1> DEFINE T == {t[p] : p \in DOMAIN s}
<1>3. t \in [1..Len(s) -> T]
  BY <1>2
<1>4. t \in Seq(T) /\ Len(t) = Len(s)
  BY <1>2, <1>3
<1> QED
  BY <1>3, <1>4, <1>2 DEF IsStack

(* A part of a sequence.                                                   *)
LEMMA PartOf ==
    ASSUME NEW s, IsStack(s), NEW m \in Nat, NEW n \in Int, m + n <= Len(s), NEW t,
           t = SubSeq(s, m + 1, m + n)
    PROVE  /\ IsStack(t) /\ Len(t) = IF n >= 0 THEN n ELSE 0
           /\ \A k \in 0..(Len(t) - 1) : t[k + 1] = s[m + k + 1]
<1>1. PICK S : s \in Seq(S)
  BY DEF IsStack
<1>2. \A k \in (m + 1)..(m + n) : s[k] \in S
  BY <1>1
<1>3. m + 1 \in Int /\ m + n \in Int
  OBVIOUS
<1>4. /\ t \in Seq(S)
      /\ Len(t) = IF m + 1 <= m + n THEN (m + n) - (m + 1) + 1 ELSE 0
      /\ \A k \in 1..((m + n) - (m + 1) + 1) : t[k] = s[m + 1 + k - 1]
  BY <1>2, <1>3, SubSeqProperties
<1>5. Len(t) = IF n >= 0 THEN n ELSE 0
  BY <1>4
<1>6. ASSUME NEW k \in 0..(Len(t) - 1) PROVE t[k + 1] = s[m + k + 1]
  <2>1. k + 1 \in 1..((m + n) - (m + 1) + 1) /\ m + 1 + (k + 1) - 1 = m + k + 1
    BY <1>5
  <2> QED
    BY <1>4, <2>1
<1> QED
  BY <1>4, <1>5, <1>6 DEF IsStack

(* A call whose line lies in an array of n bytes.                          *)
Fields == {"text", "base", "slice_offset", "offset", "arg_count", "terminator", "result",
           "doing", "saved", "ran"}

Fits(f, n) ==
    /\ Fields \subseteq DOMAIN f
    /\ IsStack(f.text) /\ Len(f.text) \in Nat /\ f.base \in Nat
    /\ f.base + Len(f.text) <= n
    /\ f.offset \in 0..Len(f.text)
    /\ f.slice_offset \in 0..Len(f.text)
    /\ f.arg_count \in Nat
    /\ f.result \in Results
    /\ f.saved \in ModeBits

TInv ==
    /\ IsStack(bytes)
    /\ \A d \in 1..Len(stack) : Fits(stack[d], Len(bytes))
    /\ current_mode \in ModeBits
    /\ last_result_code \in AnyCode

LEMMA TInvImplies == IInv /\ TInv => TypeOK
  BY DEF IInv, Frames, TInv, Fits, TypeOK, IsStack

LEMMA TopFits ==
    ASSUME IInv, TInv, stack # <<>>
    PROVE  Fits(top, Len(bytes)) /\ Len(stack) \in Nat \ {0} /\ Len(bytes) \in Nat
<1>1. Len(stack) \in Nat \ {0}
  BY TopOfStack
<1>2. Len(bytes) \in Nat
  BY DEF TInv, IsStack
<1> QED
  BY <1>1, <1>2 DEF TInv, top

(* A step that replaces the innermost call and keeps the array's length.   *)
LEMMA ReplaceFits ==
    ASSUME IInv, TInv, stack # <<>>, NEW f, Replace(f), Fits(f, Len(bytes)),
           IsStack(bytes'), Len(bytes') = Len(bytes),
           current_mode' \in ModeBits, last_result_code' \in AnyCode
    PROVE  TInv'
<1>0. IsStack(stack) /\ stack' = [stack EXCEPT ![Len(stack)] = f]
  BY DEF Replace, IInv, Frames
<1>1. /\ IsStack(stack') /\ stack' # <<>> /\ Len(stack') = Len(stack)
      /\ Len(stack) \in Nat \ {0} /\ stack'[Len(stack)] = f
  BY <1>0, ReplacedTop
<1>1a. \A d \in 1..(Len(stack) - 1) : stack'[d] = stack[d]
  BY <1>0, ReplacedTop
<1>2. ASSUME NEW d \in 1..Len(stack') PROVE Fits(stack'[d], Len(bytes'))
  <2>1. CASE d = Len(stack)
    BY <1>1, <2>1
  <2>2. CASE d # Len(stack)
    <3>1. d \in 1..(Len(stack) - 1) /\ d \in 1..Len(stack)
      BY <1>1, <2>2
    <3> QED
      BY <1>1a, <3>1 DEF TInv
  <2> QED
    BY <2>1, <2>2
<1> QED
  BY <1>2 DEF TInv

(* A segment that is over.                                                 *)
LEMMA AfterFits ==
    ASSUME NEW f, NEW n, Fits(f, n), NEW results, results = <<>> \/ results[1] \in Results
    PROVE  /\ Fits(After(f, results), n)
           /\ After(f, results).base = f.base /\ After(f, results).text = f.text
           /\ After(f, results).offset = f.offset
           /\ After(f, results).slice_offset = f.slice_offset
<1> DEFINE result == IF results = <<>> THEN f.result ELSE results[1]
           doing == IF GoesOn(f, result) THEN "parsing" ELSE "done"
           ran == Append(f.ran, results)
<1>1. result \in Results
  BY DEF Fits
<1>2. After(f, results) = [f EXCEPT !.result = result, !.doing = doing, !.ran = ran]
  BY DEF After
<1> HIDE DEF result, doing, ran
<1> QED
  BY <1>1, <1>2 DEF Fits, Fields

LEMMA CallFits ==
    ASSUME NEW text, IsStack(text), NEW base \in Nat, NEW n \in Nat, base + Len(text) <= n,
           NEW typed, current_mode \in ModeBits
    PROVE  /\ Fits(Call(text, base, typed), n)
           /\ Call(text, base, typed).base = base /\ Call(text, base, typed).text = text
           /\ Call(text, base, typed).slice_offset = 0
<1>1. Len(text) \in Nat
  BY DEF IsStack
<1>2. Ok(0) \in Results
  BY DEF Ok, Result, Results, AnyCode
<1> QED
  BY <1>1, <1>2 DEF Call, Fits, Fields

(* What the call on top reads of the array.                                *)
LEMMA SliceOfTop ==
    ASSUME NEW n, n = Len(bytes), IsStack(bytes), Fits(top, n)
    PROVE  /\ IsStack(slice) /\ Len(slice) = Len(top.text)
           /\ \A k \in 0..(Len(top.text) - 1) : slice[k + 1] = bytes[top.base + k + 1]
<1>1. top.base \in Nat /\ Len(top.text) \in Nat /\ top.base + Len(top.text) <= Len(bytes)
  BY DEF Fits
<1>2. PICK b \in Nat, l \in Nat : b = top.base /\ l = Len(top.text)
  BY <1>1
<1>3. b + l <= Len(bytes) /\ l \in Int
  BY <1>1, <1>2
<1>4. PICK t : t = slice /\ t = SubSeq(bytes, b + 1, b + l)
  BY <1>2, Zenon DEF slice
<1>5. IsStack(t) /\ Len(t) = IF l >= 0 THEN l ELSE 0
  BY <1>3, <1>4, PartOf
<1>6. Len(t) = l
  BY <1>5
<1>7. \A k \in 0..(l - 1) : t[k + 1] = bytes[b + k + 1]
  BY <1>3, <1>4, <1>6, PartOf
<1>8. t = slice
  BY <1>4
<1>9. IsStack(slice) /\ Len(slice) = Len(top.text)
  BY <1>2, <1>5, <1>6, <1>8, Zenon
<1>10. \A k \in 0..(Len(top.text) - 1) : slice[k + 1] = bytes[top.base + k + 1]
  BY <1>2, <1>7, <1>8, Zenon
<1> QED
  BY <1>9, <1>10

(* What parsing a segment does to the call on top, now f, and to the array *)
(* of which it overwrites nothing that is still to be parsed.              *)
Parses(f) ==
    /\ Replace(f) /\ Fits(f, Len(bytes)) /\ f.base = top.base /\ f.text = top.text
    /\ IsStack(bytes') /\ Len(bytes') = Len(bytes)
    /\ \A p \in DOMAIN bytes :
          bytes'[p] = bytes[p] \/ p \in (top.base + 1)..(top.base + Len(top.text))
    /\ f.doing # "done" => \A p \in DOMAIN bytes :
          p > top.base + f.slice_offset => bytes'[p] = bytes[p]
    /\ f.slice_offset >= top.slice_offset

LEMMA ParseFits ==
    ASSUME IInv, TInv, Parse
    PROVE  /\ TInv' /\ stack # <<>> /\ top.doing # "done"
           /\ \E f : Parses(f)
<1> DEFINE from == top.slice_offset
           seg == C!Segment(slice, from)
           begin == C!SegmentBegin(slice, from)
           erased == C!Erased(slice, from)
           f == IF seg.kind = "ParseError"
                THEN [top EXCEPT !.result = Ok(-1), !.doing = "done",
                                 !.ran = Append(@, <<Ok(-1)>>)]
                ELSE [top EXCEPT !.offset = begin, !.slice_offset = seg.next,
                                 !.arg_count = Len(seg.tokens),
                                 !.terminator = seg.kind, !.doing = "invoking"]
<1>1. /\ stack # <<>> /\ top.doing = "parsing"
      /\ bytes' = [p \in DOMAIN bytes |->
                      IF p - 1 - top.base \in erased THEN NUL ELSE bytes[p]]
      /\ Replace(f)
      /\ current_mode' = current_mode /\ last_result_code' = last_result_code
  BY DEF Parse, Doing
<1>2. /\ Fits(top, Len(bytes)) /\ Len(bytes) \in Nat
      /\ IsStack(bytes) /\ DOMAIN bytes = 1..Len(bytes)
  BY <1>1, TopFits DEF TInv, IsStack
<1>3. Len(slice) = Len(top.text)
  BY <1>2, SliceOfTop
<1>4. from \in 0..Len(top.text) /\ Len(top.text) \in Nat /\ top.base \in Nat
  BY <1>2 DEF Fits
<1>5. /\ begin \in from..Len(top.text) /\ seg.next \in begin..Len(top.text)
      /\ erased \subseteq from..(seg.next - 1) /\ Len(seg.tokens) \in Nat
  BY <1>3, <1>4, SegmentInLine
<1> HIDE DEF seg, begin, erased
<1>6. /\ Fits(f, Len(bytes)) /\ f.base = top.base /\ f.text = top.text
      /\ f.slice_offset >= from
      /\ f.doing # "done" => f.slice_offset = seg.next
  <2>1. CASE seg.kind = "ParseError"
    <3>1. Ok(-1) \in Results
      BY DEF Ok, Result, Results, AnyCode
    <3>2. from >= from
      BY <1>4
    <3> QED
      BY <1>2, <2>1, <3>1, <3>2 DEF Fits, Fields
  <2>2. CASE seg.kind # "ParseError"
    <3>1. begin \in 0..Len(top.text) /\ seg.next \in 0..Len(top.text) /\ seg.next >= from
          /\ Len(seg.tokens) \in Nat
      BY <1>4, <1>5
    <3> QED
      BY <1>2, <2>2, <3>1 DEF Fits, Fields
  <2> QED
    BY <2>1, <2>2
<1>7. bytes' = [p \in DOMAIN bytes |-> bytes'[p]]
  BY <1>1
<1>8. IsStack(bytes') /\ Len(bytes') = Len(bytes)
  BY <1>2, <1>7, Overwritten
<1>9. ASSUME NEW p \in DOMAIN bytes, bytes'[p] # bytes[p]
      PROVE  /\ p \in (top.base + 1)..(top.base + Len(top.text))
             /\ f.doing # "done" => ~(p > top.base + f.slice_offset)
  <2>1. p - 1 - top.base \in erased /\ p \in Nat
    BY <1>1, <1>2, <1>9
  <2>2. PICK next : next = seg.next
    OBVIOUS
  <2>3. p - 1 - top.base \in from..(next - 1) /\ next \in 0..Len(top.text)
    BY <1>4, <1>5, <2>1, <2>2
  <2>4. p \in (top.base + 1)..(top.base + Len(top.text)) /\ ~(p > top.base + next)
    BY <1>4, <2>1, <2>3
  <2> HIDE DEF f
  <2> QED
    BY <1>6, <2>2, <2>4
<1> HIDE DEF f
<1>10. Parses(f)
  BY <1>1, <1>6, <1>8, <1>9 DEF Parses
<1>11. TInv'
  BY <1>1, <1>6, <1>8, ReplaceFits DEF TInv
<1> QED
  BY <1>1, <1>10, <1>11

(* What operator[] finds begins behind the command's name, in the line.    *)
LEMMA ArgumentInLine ==
    ASSUME NEW i, View!ArgAt(i) # View!nullptr
    PROVE  /\ View!ArgAt(i) \in View!TokenStarts
           /\ Cardinality({j \in View!TokenStarts : j < View!ArgAt(i)}) = i + 1
<1> DEFINE starts == View!TokenStarts
           found == {k \in starts : View!Cardinality({j \in starts : j < k}) = i + 1}
<1>1. found # {} /\ View!ArgAt(i) = CHOOSE k \in found : TRUE
  BY DEF View!ArgAt
<1>2. View!ArgAt(i) \in found
  BY <1>1
<1> QED
  BY <1>2 DEF View!Cardinality, Cardinality

LEMMA StartsInLine ==
    ASSUME NEW k \in View!TokenStarts
    PROVE  k \in top.offset..(Len(top.text) - 1)
  BY DEF View!TokenStarts, View!max_length

(* The string at p ends in the line, and at the first NUL.                 *)
LEMMA StringInLine ==
    ASSUME Len(top.text) \in Nat, NEW p \in 0..Len(top.text)
    PROVE  /\ Len(View!CString(p)) \in 0..(Len(top.text) - p)
           /\ \A z \in p..(Len(top.text) - 1) :
                 bytes[top.base + z + 1] = NUL => Len(View!CString(p)) <= z - p
<1> DEFINE n == Len(top.text)
           b == [k \in 0..(n - 1) |-> bytes[top.base + k + 1]]
           D == {k \in p..n : k = n \/ b[k] = NUL}
           end == CHOOSE e : e = [k \in p..n |->
                                    IF k = n \/ b[k] = NUL THEN k ELSE e[k + 1]]
           base == [k \in p..n |-> k]
           next == [k \in p..n |-> k + 1]
<1>1. View!CString(p) = [k \in 1..(end[p] - p) |-> b[p + k - 1]]
  BY DEF View!CString, View!max_length
<1>2. n \in Nat /\ p \in Nat /\ p <= n /\ p \in p..n /\ n = Len(top.text)
  OBVIOUS
<1>3. \A k \in p..n : (k \in D <=> k = n \/ b[k] = NUL) /\ base[k] = k /\ next[k] = k + 1
  OBVIOUS
<1> HIDE DEF n, b, D, base, next
<1>4. /\ \A k \in p..n : k \in D => base[k] \in p..n
      /\ \A k \in p..n : k \notin D => next[k] \in (k + 1)..n
  BY <1>2, <1>3
<1>5. PICK f : Facts!IsWalk(f, p, n, p..n, D, base, next)
  BY <1>2, <1>4, Facts!WalkExists
<1>6. f = [k \in p..n |-> IF k = n \/ b[k] = NUL THEN k ELSE f[k + 1]]
  <2>1. f = [k \in p..n |-> f[k]]
    BY <1>5 DEF Facts!IsWalk
  <2>2. ASSUME NEW k \in p..n PROVE f[k] = IF k = n \/ b[k] = NUL THEN k ELSE f[k + 1]
    <3>1. f[k] = IF k \in D THEN base[k] ELSE f[next[k]]
      BY <1>5 DEF Facts!IsWalk
    <3> QED
      BY <1>3, <3>1, Zenon
  <2> QED
    BY <2>1, <2>2
<1>7. end = [k \in p..n |-> IF k = n \/ b[k] = NUL THEN k ELSE end[k + 1]]
  BY <1>6
<1> HIDE DEF end
<1>8. end[p] \in p..n /\ \A z \in p..n : z \in D => end[p] <= z
  <2> DEFINE Q == {k \in p..n : end[k] \in p..n /\ \A z \in k..n : z \in D => end[k] <= z}
  <2>1. ASSUME NEW k \in p..n, \A j \in (k + 1)..n : j \in Q
        PROVE  k \in Q
    <3>1. end[k] = IF k \in D THEN k ELSE end[k + 1]
      BY <1>3, <1>7
    <3>2. CASE k \in D
      <4>1. \A z \in k..n : k <= z
        BY <1>2
      <4> QED
        BY <3>1, <3>2, <4>1
    <3>3. CASE k \notin D
      <4>1. k + 1 \in (k + 1)..n
        BY <1>2, <1>3, <3>3
      <4>2. \A z \in k..n : z = k \/ z \in (k + 1)..n
        BY <1>2
      <4>3. end[k + 1] \in p..n /\ \A z \in (k + 1)..n : z \in D => end[k + 1] <= z
        BY <2>1, <4>1
      <4> QED
        BY <3>1, <3>3, <4>2, <4>3
    <3> QED
      BY <3>2, <3>3
  <2> HIDE DEF Q
  <2>2. \A k \in p..n : k \in Q
    BY <1>2, <2>1, Facts!Downward
  <2> QED
    BY <1>2, <2>2 DEF Q
<1>9. PICK l \in Nat : l = end[p] - p /\ l <= n - p
  BY <1>2, <1>8
<1>10. Len([k \in 1..l |-> b[p + k - 1]]) = l
  OBVIOUS
<1>11. Len(View!CString(p)) = l
  BY <1>1, <1>9, <1>10, Zenon
<1>12. l \in 0..(n - p)
  BY <1>2, <1>9
<1>13. ASSUME NEW z \in p..(n - 1), bytes[top.base + z + 1] = NUL
       PROVE  l <= z - p
  <2>1. z \in 0..(n - 1) /\ z \in p..n
    BY <1>2
  <2>2. b[z] = NUL
    BY <1>13, <2>1 DEF b
  <2>3. end[p] <= z
    BY <1>3, <1>8, <2>1, <2>2
  <2> QED
    BY <1>2, <1>8, <1>9, <2>3
<1> QED
  BY <1>2, <1>11, <1>12, <1>13

(* Tokens are found in order.                                              *)
LEMMA ArgumentsInOrder ==
    ASSUME Len(top.text) \in Nat, top.offset \in Nat, NEW i \in Nat, NEW j \in Nat, i <= j,
           View!ArgAt(i) # View!nullptr, View!ArgAt(j) # View!nullptr
    PROVE  View!ArgAt(i) <= View!ArgAt(j) /\ top.offset < View!ArgAt(i)
<1> DEFINE starts == View!TokenStarts
           Before(k) == {s \in starts : s < k}
<1>1. PICK a \in starts, b \in starts : /\ a = View!ArgAt(i) /\ Cardinality(Before(a)) = i + 1
                                         /\ b = View!ArgAt(j) /\ Cardinality(Before(b)) = j + 1
  BY ArgumentInLine
<1>2. \A k \in starts : k \in top.offset..(Len(top.text) - 1)
  BY StartsInLine
<1> HIDE DEF starts
<1>3. IsFiniteSet(Before(a)) /\ IsFiniteSet(Before(b))
  <2>1. starts \subseteq top.offset..(Len(top.text) - 1)
    BY <1>2
  <2>2. IsFiniteSet(top.offset..(Len(top.text) - 1))
    <3>1. top.offset \in Int /\ Len(top.text) - 1 \in Int
      OBVIOUS
    <3> QED
      BY <3>1, FS_Interval
  <2>3. IsFiniteSet(starts)
    BY <2>1, <2>2, FS_Subset
  <2> QED
    BY <2>3, FS_Subset
<1>4. a <= b
  <2> SUFFICES ASSUME b < a PROVE FALSE
    BY <1>2
  <2>1. Before(b) \subseteq Before(a) /\ b \in Before(a) /\ b \notin Before(b)
    BY <1>2
  <2> HIDE DEF Before
  <2>2. Cardinality(Before(b)) < Cardinality(Before(a))
    <3>1. Before(b) # Before(a)
      BY <2>1
    <3>2. Cardinality(Before(b)) <= Cardinality(Before(a))
      BY <1>3, <2>1, FS_Subset
    <3>3. Cardinality(Before(b)) = Cardinality(Before(a)) => Before(b) = Before(a)
      BY <1>3, <2>1, FS_Subset
    <3> QED
      BY <1>1, <3>1, <3>2, <3>3
  <2> QED
    BY <1>1, <2>2
<1>5. top.offset < a
  <2>1. Before(a) # {}
    <3> HIDE DEF Before
    <3> SUFFICES ASSUME Before(a) = {} PROVE FALSE
      OBVIOUS
    <3>1. Cardinality(Before(a)) = 0
      BY FS_EmptySet
    <3> QED
      BY <1>1, <3>1
  <2> QED
    BY <1>2, <2>1
<1> QED
  BY <1>1, <1>4, <1>5

(* The stack when the handler of the call on top has a line run.           *)
Pushes(call) ==
    stack' = Append([stack EXCEPT ![Len(stack)].doing = "waiting",
                                  ![Len(stack)].saved = current_mode], call)

LEMMA NestStack ==
    ASSUME IsStack(stack), Len(stack) \in Nat \ {0},
           NEW call, Pushes(call)
    PROVE  /\ Len(stack') = Len(stack) + 1
           /\ \A d \in 1..(Len(stack) - 1) : stack'[d] = stack[d]
           /\ stack'[Len(stack)] = [top EXCEPT !.doing = "waiting", !.saved = current_mode]
           /\ stack'[Len(stack) + 1] = call
<1> DEFINE f == [top EXCEPT !.doing = "waiting", !.saved = current_mode]
           s == [stack EXCEPT ![Len(stack)] = f]
<1>2. stack' = Append(s, call)
  BY CallerWaits DEF Pushes
<1> HIDE DEF f
<1>3. IsStack(s) /\ Len(s) = Len(stack) /\ s[Len(stack)] = f
  BY ReplacedTop
<1>4. \A d \in 1..(Len(stack) - 1) : s[d] = stack[d]
  BY ReplacedTop
<1> HIDE DEF s
<1>5. Len(stack') = Len(stack) + 1 /\ stack'[Len(stack) + 1] = call
  BY <1>2, <1>3, PushedOn
<1>6. \A d \in 1..Len(stack) : stack'[d] = s[d]
  BY <1>2, <1>3, PushedOn
<1>7. stack'[Len(stack)] = f /\ \A d \in 1..(Len(stack) - 1) : stack'[d] = stack[d]
  BY <1>3, <1>4, <1>6
<1> QED
  BY <1>5, <1>7 DEF f

(* What sudo hands to run_line(): its arguments, where they are.           *)
Hands(text, first) ==
    /\ IsStack(text) /\ Len(text) \in Nat /\ first \in Nat
    /\ top.base + top.offset < first
    /\ first + Len(text) = top.base + actual_end
    /\ actual_end \in Nat /\ actual_end <= Len(top.text)
    /\ IsStack(bytes') /\ Len(bytes') = Len(bytes)
    /\ \A p \in DOMAIN bytes : p \notin (first + 1)..(first + Len(text)) => bytes'[p] = bytes[p]
    /\ \A k \in 0..(Len(text) - 1) : text[k + 1] = bytes'[first + k + 1]
    /\ Len(stack') = Len(stack) + 1
    /\ \A d \in 1..(Len(stack) - 1) : stack'[d] = stack[d]
    /\ stack'[Len(stack)] = [top EXCEPT !.doing = "waiting", !.saved = current_mode]
    /\ stack'[Len(stack) + 1] = Call(text, first, FALSE)

LEMMA SudoNests ==
    ASSUME IInv, TInv, cmd_sudo, View!count # 0
    PROVE  stack # <<>> /\ top.doing = "invoking" /\ \E text, first : Hands(text, first)
<1> DEFINE last == View!count - 1
           first == top.base + cmd_start
           end == top.base + actual_end
           length == end - first
<1>0. PICK rejoined : rejoined = [p \in DOMAIN bytes |->
                         IF p - 1 \in first..(end - 1) /\ bytes[p] = NUL THEN " " ELSE bytes[p]]
  OBVIOUS
<1> DEFINE array == rejoined
           text == SubSeq(array, first + 1, first + length)
<1>1. /\ stack # <<>> /\ top.doing = "invoking"
      /\ View!ArgAt(0) # View!nullptr /\ View!ArgAt(last) # View!nullptr
      /\ Nest(array, first, length, current_mode)
  BY <1>0 DEF cmd_sudo, Executes, Invoking, Doing, original_mode
<1>1a. /\ array = [p \in DOMAIN bytes |-> array[p]]
       /\ \A p \in DOMAIN bytes : p - 1 \notin first..(end - 1) => array[p] = bytes[p]
  BY <1>0, Zenon
<1>2. /\ Fits(top, Len(bytes)) /\ Len(stack) \in Nat \ {0} /\ Len(bytes) \in Nat
      /\ IsStack(stack) /\ IsStack(bytes)
  BY <1>1, TopFits DEF TInv, IInv, Frames
<1>3. /\ top.base \in Nat /\ Len(top.text) \in Nat /\ top.offset \in Nat
      /\ top.base + Len(top.text) <= Len(bytes) /\ top.arg_count \in Nat
  BY <1>2 DEF Fits
<1>4. last \in Nat
  BY <1>3 DEF View!count
<1> HIDE DEF last
<1>5. View!ArgAt(0) <= View!ArgAt(last) /\ top.offset < View!ArgAt(0)
  <2>1. 0 \in Nat /\ 0 <= last
    BY <1>4
  <2> QED
    BY <1>1, <1>3, <1>4, <2>1, ArgumentsInOrder
<1>6. View!ArgAt(0) \in top.offset..(Len(top.text) - 1)
      /\ View!ArgAt(last) \in top.offset..(Len(top.text) - 1)
  BY <1>1, ArgumentInLine, StartsInLine
<1>7. Len(arg(last)) \in 0..(Len(top.text) - View!ArgAt(last))
  <2>1. PICK p : p = View!ArgAt(last)
    OBVIOUS
  <2>2. p \in 0..Len(top.text)
    BY <1>3, <1>6, <2>1
  <2>3. arg(last) = View!CString(p)
    BY <1>1, <2>1 DEF arg
  <2> QED
    BY <1>3, <2>1, <2>2, <2>3, StringInLine
<1>8. actual_end = View!ArgAt(last) + Len(arg(last)) /\ cmd_start = View!ArgAt(0)
  BY DEF actual_end, cmd_start, last
<1>9. PICK s \in Nat, e \in Nat : /\ s = cmd_start /\ e = actual_end
                                  /\ top.offset < s /\ s <= e /\ e <= Len(top.text)
  BY <1>3, <1>5, <1>6, <1>7, <1>8
<1>10. /\ first \in Nat /\ end \in Nat /\ length \in Nat /\ first + length = top.base + actual_end
       /\ first + length <= Len(bytes) /\ top.base + top.offset < first
       /\ actual_end <= Len(top.text) /\ actual_end \in Nat
  <2>1. PICK b \in Nat, o \in Nat, n \in Nat : b = top.base /\ o = top.offset /\ n = Len(top.text)
    BY <1>3
  <2>2. first = b + s /\ end = b + e /\ length = (b + e) - (b + s)
    BY <1>9, <2>1, Zenon
  <2>3. o < s /\ s <= e /\ e <= n /\ b + n <= Len(bytes)
    BY <1>3, <1>9, <2>1
  <2>4. /\ b + s \in Nat /\ b + e \in Nat /\ (b + e) - (b + s) \in Nat
        /\ (b + s) + ((b + e) - (b + s)) = b + e
        /\ b + e <= Len(bytes) /\ b + o < b + s
    BY <1>2, <2>3
  <2> HIDE DEF first, end, length
  <2>5. first + length = end /\ end <= Len(bytes) /\ b + o < first
    BY <2>2, <2>4
  <2>6. end = top.base + actual_end
    BY DEF end
  <2> QED
    BY <1>9, <2>1, <2>2, <2>3, <2>4, <2>5, <2>6
<1>12. ASSUME NEW p \in DOMAIN bytes, p \notin (first + 1)..(first + length)
       PROVE  array[p] = bytes[p]
  <2>1. p \in Nat
    BY <1>2, <1>12 DEF IsStack
  <2>2. p - 1 \notin first..(end - 1)
    BY <1>10, <1>12, <2>1
  <2> QED
    BY <1>1a, <1>12, <2>2
<1> HIDE DEF first, end, length
<1>13. IsStack(array) /\ Len(array) = Len(bytes)
  BY <1>1a, <1>2, Overwritten
<1>14. PICK t : t = text /\ t = SubSeq(array, first + 1, first + length)
  OBVIOUS
<1> HIDE DEF text
<1>15. /\ IsStack(t) /\ Len(t) = length
       /\ \A k \in 0..(length - 1) : t[k + 1] = array[first + k + 1]
  <2>1. /\ IsStack(array) /\ first \in Nat /\ length \in Int /\ first + length <= Len(array)
        /\ t = SubSeq(array, first + 1, first + length)
    BY <1>10, <1>13, <1>14
  <2>2. IsStack(t) /\ Len(t) = IF length >= 0 THEN length ELSE 0
    BY <2>1, PartOf
  <2>3. Len(t) = length
    BY <1>10, <2>2
  <2>4. \A k \in 0..(Len(t) - 1) : t[k + 1] = array[first + k + 1]
    BY <2>1, PartOf
  <2> QED
    BY <2>2, <2>3, <2>4
<1>16. bytes' = array
  BY <1>1 DEF Nest
<1>17. PICK call : /\ call = Call(SubSeq(array, first + 1, first + length), first, FALSE)
                   /\ Pushes(call)
  BY <1>1, Zenon DEF Nest, Pushes
<1>18. /\ Len(stack') = Len(stack) + 1
       /\ \A d \in 1..(Len(stack) - 1) : stack'[d] = stack[d]
       /\ stack'[Len(stack)] = [top EXCEPT !.doing = "waiting", !.saved = current_mode]
       /\ stack'[Len(stack) + 1] = call
  <2>1. IsStack(stack) /\ Len(stack) \in Nat \ {0}
    BY <1>2
  <2> QED
    BY <1>17, <2>1, NestStack
<1>19. call = Call(t, first, FALSE)
  BY <1>14, <1>17, Zenon
<1>20. Hands(t, first)
  BY <1>10, <1>12, <1>13, <1>15, <1>16, <1>18, <1>19 DEF Hands
<1> QED
  BY <1>1, <1>20

LEMMA SudoFits ==
    ASSUME IInv, TInv, cmd_sudo, View!count # 0
    PROVE  TInv'
<1>1. stack # <<>> /\ \E text, first : Hands(text, first)
  BY SudoNests
<1>2. PICK text, first : Hands(text, first)
  BY <1>1
<1>3. Fits(top, Len(bytes)) /\ Len(stack) \in Nat \ {0} /\ Len(bytes) \in Nat
  BY <1>1, TopFits
<1>4. current_mode \in ModeBits /\ current_mode' \in ModeBits /\ last_result_code' \in AnyCode
  BY GrantedAssumption DEF TInv, cmd_sudo, Fail, set_mode
<1>5. Fits([top EXCEPT !.doing = "waiting", !.saved = current_mode], Len(bytes))
  BY <1>3, <1>4 DEF Fits, Fields
<1>6. Fits(Call(text, first, FALSE), Len(bytes))
  <2>1. first + Len(text) <= Len(bytes)
    BY <1>2, <1>3 DEF Hands, Fits
  <2>2. IsStack(text) /\ first \in Nat
    BY <1>2 DEF Hands
  <2> QED
    BY <1>3, <1>4, <2>1, <2>2, CallFits
<1>7. ASSUME NEW d \in 1..Len(stack') PROVE Fits(stack'[d], Len(bytes'))
  <2>1. d \in 1..(Len(stack) - 1) \/ d = Len(stack) \/ d = Len(stack) + 1
    BY <1>2, <1>3 DEF Hands
  <2>2. CASE d \in 1..(Len(stack) - 1)
    <3>1. d \in 1..Len(stack) /\ stack'[d] = stack[d] /\ Len(bytes') = Len(bytes)
      BY <1>2, <1>3, <2>2 DEF Hands
    <3> QED
      BY <3>1 DEF TInv
  <2>3. CASE d = Len(stack)
    BY <1>2, <1>5, <2>3 DEF Hands
  <2>4. CASE d = Len(stack) + 1
    BY <1>2, <1>6, <2>4 DEF Hands
  <2> QED
    BY <2>1, <2>2, <2>3, <2>4
<1> QED
  BY <1>2, <1>4, <1>7 DEF TInv, Hands

(* The other steps: a segment is over, or nothing is dispatched.           *)
Over ==
    /\ stack # <<>> /\ top.doing # "done"
    /\ \E results : Replace(After(top, results)) /\ (results = <<>> \/ results[1] \in Results)
    /\ UNCHANGED <<bytes, last_result_code>> /\ current_mode' \in ModeBits

Idle ==
    /\ UNCHANGED <<stack, bytes, current_mode>>
    /\ last_result_code' \in {0, last_result_code}

LEMMA ReturnsAreOver ==
    ASSUME TInv, stack # <<>>, top.doing # "done", NEW r \in Results,
           Proceed(r), UNCHANGED <<bytes, last_result_code>>, current_mode' \in ModeBits
    PROVE  Over
<1>1. <<r>>[1] \in Results
  OBVIOUS
<1>2. Replace(After(top, <<r>>))
  BY DEF Proceed
<1> QED
  BY <1>1, <1>2 DEF Over

LEMMA StepKinds ==
    ASSUME IInv, TInv, [Next]_vars
    PROVE  \/ /\ stack = <<>>
              /\ \E line \in Submitted \cup Scripted, typed \in BOOLEAN : Dispatch(line, typed)
           \/ Idle \/ Parse \/ Over \/ Return
           \/ cmd_sudo /\ View!count # 0
<1> DEFINE dispatches ==
             /\ stack = <<>>
             /\ \E line \in Submitted \cup Scripted, typed \in BOOLEAN : Dispatch(line, typed)
<1>1. ASSUME NEW line \in Submitted, on_submit(line) PROVE dispatches
  BY <1>1 DEF on_submit
<1>2. ASSUME NEW line \in Scripted, run_line(line) PROVE dispatches \/ Idle
  BY <1>2 DEF run_line, Idle
<1>3. ASSUME Invoking, NEW r \in Results, Returns(r) PROVE Over
  <2>1. stack # <<>> /\ top.doing # "done" /\ current_mode' \in ModeBits
    BY <1>3 DEF Invoking, Doing, Returns, TInv
  <2> QED
    BY <1>3, <2>1, ReturnsAreOver DEF Returns
<1>4. ASSUME Invoking, NEW mode \in ModeBits, NEW user, Grant(mode, user) PROVE Over
  <2>1. stack # <<>> /\ top.doing # "done" /\ current_mode' \in ModeBits
    BY <1>4 DEF Invoking, Doing, Grant, set_mode
  <2>2. Ok(0) \in Results
    BY DEF Ok, Result, Results, AnyCode
  <2> QED
    BY <1>4, <2>1, <2>2, ReturnsAreOver DEF Grant
<1>5. ASSUME EmptySegment PROVE Over
  <2>1. stack # <<>> /\ top.doing # "done" /\ current_mode' \in ModeBits
    BY <1>5 DEF EmptySegment, Doing, TInv
  <2> QED
    BY <1>5, <2>1 DEF EmptySegment, Over
<1>6. ASSUME help PROVE Over
  <2>1. PICK list : Returns(Ok(Narrowed(Table!help_code(list))))
    BY <1>6 DEF help
  <2>2. Table!help_code(list) \in {0, -1, -2}
    <3>1. PICK length : length = Len(list)
      OBVIOUS
    <3>2. PICK shown : shown <=> list[1] # <<>> /\ Table!HelpShows(list[1])
      OBVIOUS
    <3>3. Table!help_code(list) = CASE length = 0 -> 0
                                    [] length = 1 -> IF shown THEN 0 ELSE -1
                                    [] OTHER -> -2
      BY <3>1, <3>2 DEF Table!help_code
    <3> QED
      BY <3>3
  <2>3. \A code \in {0, -1, -2} : Narrowed(code) = code
    <3>1. 0 % 256 = 0
      OBVIOUS
    <3>2. \A n \in -2..0 : n < 0 => n % 256 = n + 256
      OBVIOUS
    <3>3. \A code \in -2..0 : Narrowed(code) = code
      BY <3>1, <3>2 DEF Narrowed
    <3> QED
      BY <3>3
  <2>4. \A code \in {0, -1, -2} : Ok(Narrowed(code)) \in Results
    BY <2>3 DEF Ok, Result, Results, AnyCode
  <2>5. Invoking
    BY <1>6 DEF help
  <2> QED
    BY <1>3, <2>1, <2>2, <2>4, <2>5
<1>7. ASSUME Refuse PROVE Over
  <2>1. PICK status \in {"PermissionDenied", "CommandNotFound"} : Returns(Result(status, 0))
    BY <1>7 DEF Refuse
  <2>2. Result(status, 0) \in Results
    BY DEF Result, Results, AnyCode
  <2> QED
    BY <1>3, <1>7, <2>1, <2>2 DEF Refuse
<1>8. ASSUME plain PROVE Over
  <2>1. PICK code \in Codes : Returns(Ok(code))
    BY <1>8 DEF plain
  <2>2. Ok(code) \in Results
    BY DEF Ok, Result, Results, AnyCode
  <2> QED
    BY <1>3, <1>8, <2>1, <2>2 DEF plain, Executes
<1>9. Ok(0) \in Results /\ Ok(-1) \in Results
  BY DEF Ok, Result, Results, AnyCode
<1>10. ASSUME Invoking, Fail \/ WithoutArguments PROVE Over
  BY <1>3, <1>9, <1>10 DEF Fail, WithoutArguments
<1>11. ASSUME cmd_echo \/ cmd_uptime \/ cmd_whoami PROVE Over
  BY <1>3, <1>9, <1>10, <1>11 DEF cmd_echo, cmd_uptime, cmd_whoami, Executes
<1>12. ASSUME cmd_login \/ cmd_logout PROVE Over
  BY <1>4, <1>10, <1>12, GrantedAssumption DEF cmd_login, cmd_logout, Executes
<1>13. ASSUME cmd_mode PROVE Over
  <2>1. Invoking
    BY <1>13 DEF cmd_mode, Executes
  <2>2. CASE View!count = 0
    BY <1>3, <1>9, <1>13, <2>1, <2>2 DEF cmd_mode
  <2>3. CASE View!count # 0
    <3>1. CASE arg(0) \in {<<mode>> : mode \in ModeBits}
      <4>1. Grant(arg(0)[1], current_user) /\ arg(0)[1] \in ModeBits
        BY <1>13, <2>3, <3>1 DEF cmd_mode
      <4> QED
        BY <1>4, <2>1, <4>1
    <3>2. CASE arg(0) \notin {<<mode>> : mode \in ModeBits}
      BY <1>10, <1>13, <2>1, <2>3, <3>2 DEF cmd_mode
    <3> QED
      BY <3>1, <3>2
  <2> QED
    BY <2>2, <2>3
<1>14. ASSUME cmd_sudo PROVE Over \/ (cmd_sudo /\ View!count # 0)
  <2>1. CASE View!count = 0
    BY <1>10, <1>14, <2>1 DEF cmd_sudo, Executes
  <2> QED
    BY <1>14, <2>1
<1>15. ASSUME SudoReturns PROVE Over
  <2>1. stack # <<>> /\ top.doing # "done" /\ current_mode' = top.saved
    BY <1>15 DEF SudoReturns, Doing, set_mode
  <2>2. top.saved \in ModeBits
    BY <2>1, TopFits DEF Fits
  <2> QED
    BY <1>9, <1>15, <2>1, <2>2, ReturnsAreOver DEF SudoReturns
<1>16. ASSUME UNCHANGED vars PROVE Idle
  BY <1>16 DEF vars, Idle
<1>17. Step => Parse \/ Over \/ Return
  BY <1>5, <1>6, <1>7, <1>8 DEF Step
<1>18. Execution => Parse \/ Over \/ Return \/ (cmd_sudo /\ View!count # 0)
  BY <1>11, <1>12, <1>13, <1>14, <1>15, <1>17 DEF Execution
<1> QED
  BY <1>1, <1>2, <1>16, <1>18 DEF Next

LEMMA StepFits ==
    ASSUME IInv, TInv, [Next]_vars
    PROVE  TInv'
<1>1. ASSUME NEW line \in Submitted \cup Scripted, NEW typed, Dispatch(line, typed)
      PROVE  TInv'
  <2>1. IsStack(line) /\ Len(line) \in Nat
    BY LineAssumption DEF IsStack
  <2>2. stack' = <<Call(line, 0, typed)>> /\ bytes' = line
        /\ UNCHANGED <<current_mode, last_result_code>>
    BY <1>1 DEF Dispatch
  <2>3. Fits(Call(line, 0, typed), Len(line))
    <3>1. 0 \in Nat /\ 0 + Len(line) <= Len(line) /\ current_mode \in ModeBits
      BY <2>1 DEF TInv
    <3> QED
      BY <2>1, <3>1, CallFits
  <2>4. PICK call : call = Call(line, 0, typed)
    OBVIOUS
  <2>5. stack' = <<call>> /\ Fits(call, Len(line))
    BY <2>2, <2>3, <2>4
  <2> QED
    BY <2>1, <2>2, <2>5 DEF TInv
<1>2. ASSUME Idle PROVE TInv'
  BY <1>2 DEF Idle, TInv, AnyCode
<1>3. ASSUME Over PROVE TInv'
  <2>1. PICK results : Replace(After(top, results)) /\ (results = <<>> \/ results[1] \in Results)
    BY <1>3 DEF Over
  <2>2. Fits(top, Len(bytes)) /\ stack # <<>>
    BY <1>3, TopFits DEF Over
  <2>3. Fits(After(top, results), Len(bytes))
    BY <2>1, <2>2, AfterFits
  <2>4. /\ IsStack(bytes') /\ Len(bytes') = Len(bytes)
        /\ current_mode' \in ModeBits /\ last_result_code' \in AnyCode
    BY <1>3 DEF Over, TInv
  <2> QED
    BY <2>1, <2>2, <2>3, <2>4, ReplaceFits
<1>4. ASSUME Return PROVE TInv'
  <2>1. stack # <<>> /\ IsStack(stack) /\ stack' = Front(stack)
    BY <1>4 DEF Return, Doing, IInv, Frames
  <2>2. /\ Len(stack') = Len(stack) - 1 /\ Len(stack) \in Nat \ {0}
        /\ \A d \in 1..(Len(stack) - 1) : stack'[d] = stack[d]
    BY <2>1, PoppedOff
  <2>3. last_result_code' \in AnyCode /\ current_mode' \in ModeBits
    <3>1. top.result \in Results
      BY <2>1, TopFits DEF Fits
    <3> QED
      BY <1>4, <3>1 DEF Return, Results, TInv
  <2>4. CASE Len(stack) = 1
    <3>1. bytes' = <<>> /\ Len(stack') = 0
      BY <1>4, <2>2, <2>4 DEF Return
    <3> QED
      BY <2>3, <3>1, EmptyIsStack DEF TInv
  <2>5. CASE Len(stack) # 1
    <3>1. bytes' = bytes
      BY <1>4, <2>5 DEF Return
    <3>2. ASSUME NEW d \in 1..Len(stack') PROVE Fits(stack'[d], Len(bytes'))
      <4>1. d \in 1..(Len(stack) - 1) /\ d \in 1..Len(stack)
        BY <2>2
      <4> QED
        BY <2>2, <3>1, <4>1 DEF TInv
    <3> QED
      BY <2>3, <3>1, <3>2 DEF TInv
  <2> QED
    BY <2>4, <2>5
<1> QED
  BY <1>1, <1>2, <1>3, <1>4, StepKinds, ParseFits, SudoFits

LEMMA InitFits == Init => TInv
<1>1. 1..0 = {} /\ Len(<<>>) = 0 /\ 0 \in AnyCode
  BY DEF AnyCode
<1> QED
  BY <1>1, EmptyIsStack, ModeAssumption DEF Init, ShellInit, TInv

(* The modes, results and codes of the calls are the declared ones, every  *)
(* line that is dispatched, nested ones included, lies in the array, and   *)
(* the offsets of its segments in the line (lishShell.h:203-263).          *)
THEOREM ShellTypeCorrect == Spec => []TypeOK
  BY InitKeeps, InitFits, StepKeeps, StepFits, TInvImplies, PTL DEF Spec
-----------------------------------------------------------------------------

(* Where a call stands in the array: the end of its line, and of what it   *)
(* has parsed so far.                                                      *)
LineEnd(f) == f.base + Len(f.text)
Parsed(f) == f.base + f.slice_offset

(* The rest of a call's line is as it was handed over.                     *)
RestIntact(f, array) ==
    f.doing # "done" =>
        \A k \in f.slice_offset..(Len(f.text) - 1) : array[f.base + k + 1] = f.text[k + 1]

(* Every line lies in what each of its callers has parsed, behind the name *)
(* of the command that runs it.                                            *)
NInv ==
    /\ \A d \in 1..(Len(stack) - 1) : \A e \in (d + 1)..Len(stack) :
          LineEnd(stack[e]) <= Parsed(stack[d])
    /\ \A d \in 1..(Len(stack) - 1) : stack[d].base + stack[d].offset < stack[d + 1].base
    /\ \A d \in 1..Len(stack) : RestIntact(stack[d], bytes)

LEMMA NInvImplies == IInv /\ NInv => NestedLineInItsSegment
<1> SUFFICES ASSUME IInv, NInv PROVE NestedLineInItsSegment
  OBVIOUS
<1>1. Len(stack) \in Nat
  BY DEF IInv, Frames, IsStack
<1>2. ASSUME NEW d \in 1..Len(stack), d < Len(stack)
      PROVE  /\ stack[d].base + stack[d].offset < stack[d + 1].base
             /\ LineEnd(stack[d + 1]) <= Parsed(stack[d])
  <2>1. d \in 1..(Len(stack) - 1) /\ d + 1 \in (d + 1)..Len(stack)
    BY <1>1, <1>2
  <2> QED
    BY <2>1 DEF NInv
<1> QED
  BY <1>2 DEF NInv, NestedLineInItsSegment, LineEnd, Parsed, RestIntact

(* A step of the call on top that reads on, and writes in its own line     *)
(* only, before what it will read next.                                    *)
Moves(f) ==
    /\ Replace(f) /\ f.base = top.base /\ f.text = top.text
    /\ f.slice_offset \in Nat /\ f.slice_offset >= top.slice_offset
    /\ Len(bytes') = Len(bytes) /\ DOMAIN bytes' = DOMAIN bytes
    /\ \A p \in DOMAIN bytes :
          bytes'[p] = bytes[p] \/ p \in (top.base + 1)..(top.base + Len(top.text))
    /\ f.doing # "done" => \A p \in DOMAIN bytes :
          p > top.base + f.slice_offset => bytes'[p] = bytes[p]

LEMMA Ahead ==
    ASSUME NEW base \in Nat, NEW length \in Nat, NEW n \in Nat, base + length <= n,
           NEW offset \in Nat, NEW k \in offset..(length - 1)
    PROVE  /\ base + k + 1 \in 1..n /\ base + k + 1 > base + offset
           /\ \A a, z \in Nat : z <= base + offset => base + k + 1 \notin (a + 1)..z
  OBVIOUS

LEMMA MovesNests ==
    ASSUME IInv, TInv, NInv, stack # <<>>, top.doing # "done", NEW f, Moves(f)
    PROVE  NInv'
<1>1. /\ Fits(top, Len(bytes)) /\ Len(stack) \in Nat \ {0} /\ Len(bytes) \in Nat
      /\ DOMAIN bytes = 1..Len(bytes)
  BY TopFits DEF TInv, IsStack
<1>2. /\ top.base \in Nat /\ Len(top.text) \in Nat /\ top.slice_offset \in Nat
      /\ top.base + Len(top.text) <= Len(bytes) /\ f.slice_offset \in Nat
      /\ f.base = top.base /\ f.text = top.text /\ f.slice_offset >= top.slice_offset
  BY <1>1 DEF Fits, Moves
<1>3. Len(stack') = Len(stack) /\ stack'[Len(stack)] = f
  <2>1. IsStack(stack) /\ stack' = [stack EXCEPT ![Len(stack)] = f]
    BY DEF IInv, Frames, Moves, Replace
  <2> QED
    BY <2>1, ReplacedTop
<1>4. \A d \in 1..(Len(stack) - 1) : stack'[d] = stack[d]
  <2>1. IsStack(stack) /\ stack' = [stack EXCEPT ![Len(stack)] = f]
    BY DEF IInv, Frames, Moves, Replace
  <2> QED
    BY <2>1, ReplacedTop
<1>5. top = stack[Len(stack)]
  BY DEF top
<1>6. LineEnd(f) = LineEnd(top)
  BY <1>2 DEF LineEnd
<1>7. ASSUME NEW d \in 1..(Len(stack') - 1), NEW e \in (d + 1)..Len(stack')
      PROVE  LineEnd(stack'[e]) <= Parsed(stack'[d])
  <2>1. d \in 1..(Len(stack) - 1) /\ e \in (d + 1)..Len(stack)
        /\ (e = Len(stack) \/ e \in 1..(Len(stack) - 1))
    BY <1>1, <1>3
  <2>2. LineEnd(stack'[e]) = LineEnd(stack[e]) /\ stack'[d] = stack[d]
    BY <1>3, <1>4, <1>5, <1>6, <2>1
  <2>3. LineEnd(stack[e]) <= Parsed(stack[d])
    BY <2>1 DEF NInv
  <2> QED
    BY <2>2, <2>3
<1>8. ASSUME NEW d \in 1..(Len(stack') - 1)
      PROVE  stack'[d].base + stack'[d].offset < stack'[d + 1].base
  <2>1. d \in 1..(Len(stack) - 1)
        /\ (d + 1 = Len(stack) \/ d + 1 \in 1..(Len(stack) - 1))
    BY <1>1, <1>3
  <2>2. stack'[d + 1].base = stack[d + 1].base /\ stack'[d] = stack[d]
    BY <1>2, <1>3, <1>4, <1>5, <2>1
  <2>3. stack[d].base + stack[d].offset < stack[d + 1].base
    BY <2>1 DEF NInv
  <2> QED
    BY <2>2, <2>3
<1>9. ASSUME NEW d \in 1..Len(stack') PROVE RestIntact(stack'[d], bytes')
  <2>1. d = Len(stack) \/ d \in 1..(Len(stack) - 1)
    BY <1>1, <1>3
  <2>2. CASE d = Len(stack)
    <3> SUFFICES ASSUME f.doing # "done", NEW k \in f.slice_offset..(Len(top.text) - 1)
                 PROVE  bytes'[top.base + k + 1] = top.text[k + 1]
      BY <1>2, <1>3, <2>2 DEF RestIntact
    <3>1. /\ top.base + k + 1 \in 1..Len(bytes) /\ top.base + k + 1 > top.base + f.slice_offset
          /\ k \in top.slice_offset..(Len(top.text) - 1)
      <4>1. k \in top.slice_offset..(Len(top.text) - 1)
        BY <1>2
      <4> QED
        BY <1>1, <1>2, <4>1, Ahead
    <3>2. RestIntact(top, bytes)
      BY <1>1, <1>5 DEF NInv
    <3>3. bytes[top.base + k + 1] = top.text[k + 1]
      BY <3>1, <3>2 DEF RestIntact
    <3>4. bytes'[top.base + k + 1] = bytes[top.base + k + 1]
      BY <1>1, <3>1 DEF Moves
    <3> QED
      BY <3>3, <3>4
  <2>3. CASE d \in 1..(Len(stack) - 1)
    <3>1. stack'[d] = stack[d] /\ Fits(stack[d], Len(bytes)) /\ RestIntact(stack[d], bytes)
      <4>1. d \in 1..Len(stack)
        BY <1>1, <2>3
      <4> QED
        BY <1>4, <2>3, <4>1 DEF TInv, NInv
    <3>2. LineEnd(top) <= Parsed(stack[d])
      <4>1. Len(stack) \in (d + 1)..Len(stack)
        BY <1>1, <2>3
      <4> QED
        BY <1>5, <2>3, <4>1 DEF NInv
    <3> DEFINE g == stack[d]
    <3>3. /\ g.base \in Nat /\ Len(g.text) \in Nat /\ g.slice_offset \in Nat
          /\ g.base + Len(g.text) <= Len(bytes)
      BY <3>1 DEF Fits
    <3> HIDE DEF g
    <3> SUFFICES ASSUME g.doing # "done", NEW k \in g.slice_offset..(Len(g.text) - 1)
                 PROVE  bytes'[g.base + k + 1] = g.text[k + 1]
      BY <3>1 DEF RestIntact, g
    <3>4. bytes[g.base + k + 1] = g.text[k + 1]
      BY <3>1 DEF RestIntact, g
    <3>5. top.base + Len(top.text) <= g.base + g.slice_offset
      BY <3>2 DEF LineEnd, Parsed, g
    <3>6. /\ g.base + k + 1 \in 1..Len(bytes)
          /\ g.base + k + 1 \notin (top.base + 1)..(top.base + Len(top.text))
      <4>1. PICK a \in Nat, z \in Nat : /\ a = top.base /\ z = top.base + Len(top.text)
                                        /\ z <= g.base + g.slice_offset
        BY SMTT(30), <1>2, <3>5
      <4>2. PICK b \in Nat, l \in Nat, s \in Nat, n \in Nat :
              b = g.base /\ l = Len(g.text) /\ s = g.slice_offset /\ n = Len(bytes)
        BY <1>1, <3>3
      <4>3. b + l <= n /\ k \in s..(l - 1) /\ z <= b + s
        BY <3>3, <4>1, <4>2
      <4>4. b + k + 1 \in 1..n
        BY <4>3, Ahead
      <4>5. b + k + 1 \notin (a + 1)..z
        BY <4>3, Ahead
      <4> QED
        BY <4>1, <4>2, <4>4, <4>5
    <3>7. bytes'[g.base + k + 1] = bytes[g.base + k + 1]
      BY <1>1, <3>6 DEF Moves
    <3> QED
      BY <3>4, <3>7
  <2> QED
    BY <2>1, <2>2, <2>3
<1> QED
  BY <1>7, <1>8, <1>9 DEF NInv

LEMMA ParseNests ==
    ASSUME IInv, TInv, NInv, Parse
    PROVE  NInv'
<1>1. stack # <<>> /\ top.doing # "done" /\ \E f : Parses(f)
  BY ParseFits
<1>2. PICK f : Parses(f)
  BY <1>1
<1>3. DOMAIN bytes' = DOMAIN bytes
  BY <1>2 DEF Parses, IsStack, TInv
<1>4. f.slice_offset \in Nat
  BY <1>2 DEF Parses, Fits
<1>5. Moves(f)
  BY <1>2, <1>3, <1>4 DEF Parses, Moves
<1> QED
  BY <1>1, <1>5, MovesNests

LEMMA OverNests ==
    ASSUME IInv, TInv, NInv, Over
    PROVE  NInv'
<1>1. PICK results : Replace(After(top, results)) /\ (results = <<>> \/ results[1] \in Results)
  BY DEF Over
<1>2. stack # <<>> /\ top.doing # "done" /\ bytes' = bytes
  BY DEF Over
<1>3. Fits(top, Len(bytes))
  BY <1>2, TopFits
<1>4. PICK f : f = After(top, results)
  OBVIOUS
<1>5. f.base = top.base /\ f.text = top.text /\ f.slice_offset = top.slice_offset
  BY <1>1, <1>3, <1>4, AfterFits
<1>6. top.slice_offset \in Nat
  BY <1>3 DEF Fits
<1>7. Moves(f)
  BY <1>1, <1>2, <1>4, <1>5, <1>6 DEF Moves
<1> QED
  BY <1>2, <1>7, MovesNests

LEMMA ReturnNests ==
    ASSUME IInv, NInv, Return
    PROVE  NInv'
<1>1. stack # <<>> /\ IsStack(stack) /\ stack' = Front(stack)
  BY DEF Return, Doing, IInv, Frames
<1>2. /\ Len(stack') = Len(stack) - 1 /\ Len(stack) \in Nat \ {0}
      /\ \A d \in 1..(Len(stack) - 1) : stack'[d] = stack[d]
  BY <1>1, PoppedOff
<1>3. CASE Len(stack) = 1
  <2>1. Len(stack') = 0
    BY <1>2, <1>3
  <2> QED
    BY <2>1 DEF NInv
<1>4. CASE Len(stack) # 1
  <2>1. bytes' = bytes
    BY <1>4 DEF Return
  <2>2. ASSUME NEW d \in 1..(Len(stack') - 1), NEW e \in (d + 1)..Len(stack')
        PROVE  LineEnd(stack'[e]) <= Parsed(stack'[d])
    <3>1. d \in 1..(Len(stack) - 1) /\ e \in 1..(Len(stack) - 1) /\ e \in (d + 1)..Len(stack)
      BY <1>2
    <3> QED
      BY <1>2, <3>1 DEF NInv
  <2>3. ASSUME NEW d \in 1..(Len(stack') - 1)
        PROVE  stack'[d].base + stack'[d].offset < stack'[d + 1].base
    <3>1. d \in 1..(Len(stack) - 1) /\ d + 1 \in 1..(Len(stack) - 1)
      BY <1>2
    <3> QED
      BY <1>2, <3>1 DEF NInv
  <2>4. ASSUME NEW d \in 1..Len(stack') PROVE RestIntact(stack'[d], bytes')
    <3>1. d \in 1..(Len(stack) - 1) /\ d \in 1..Len(stack)
      BY <1>2
    <3> QED
      BY <1>2, <2>1, <3>1 DEF NInv
  <2> QED
    BY <2>2, <2>3, <2>4 DEF NInv
<1> QED
  BY <1>3, <1>4

LEMMA DispatchNests ==
    ASSUME NEW line \in Submitted \cup Scripted, NEW typed, Dispatch(line, typed)
    PROVE  NInv'
<1>1. Len(line) \in Nat
  BY LineAssumption
<1>2. PICK call : call = Call(line, 0, typed)
  OBVIOUS
<1>3. call.base = 0 /\ call.text = line /\ call.slice_offset = 0
  BY <1>2 DEF Call
<1>4. stack' = <<call>> /\ bytes' = line
  BY <1>2 DEF Dispatch
<1>5. \A k \in 0..(Len(line) - 1) : 0 + k + 1 = k + 1
  BY <1>1
<1>6. RestIntact(call, line)
  BY <1>3, <1>5 DEF RestIntact
<1> QED
  BY <1>4, <1>6 DEF NInv

(* Where operator[] sees a token of f begin, and that the tokens it counts *)
(* are there in the segment, before anything else begins.                  *)
Starts(f, array) ==
    {k \in f.offset..(Len(f.text) - 1) :
        array[f.base + k + 1] # NUL /\ (k = f.offset \/ array[f.base + k] = NUL)}

Stand(first, f, array) ==
    /\ \A i \in 1..f.arg_count : first[i] \in Starts(f, array) /\ first[i] < f.slice_offset
    /\ \A i, j \in 1..f.arg_count : i < j => first[i] < first[j]

EndsInSegment(f, array) ==
    \/ f.slice_offset = Len(f.text)
    \/ array[f.base + f.slice_offset + 1] = NUL
    \/ f.offset < f.slice_offset /\ array[f.base + f.slice_offset] = NUL

AInv ==
    Doing("invoking") =>
        (\E first : Stand(first, top, bytes)) /\ EndsInSegment(top, bytes)

(* The segment that is to be parsed has no empty token: one that is quoted *)
(* and empty is overwritten whole.                                         *)
NoEmptyToken ==
    Doing("parsing") =>
        \A i \in 1..Len(C!Segment(slice, top.slice_offset).tokens) :
            Len(C!Segment(slice, top.slice_offset).tokens[i]) > 0

LEMMA StartsAre ==
    ASSUME Len(top.text) \in Nat, top.offset \in Nat, top.base \in Nat
    PROVE  View!TokenStarts = Starts(top, bytes)
<1> DEFINE b == [k \in 0..(Len(top.text) - 1) |-> bytes[top.base + k + 1]]
<1>1. View!TokenStarts = {k \in top.offset..(Len(top.text) - 1) :
                             b[k] # NUL /\ (k = top.offset \/ b[k - 1] = NUL)}
  BY DEF View!TokenStarts, View!max_length
<1>2. ASSUME NEW k \in top.offset..(Len(top.text) - 1)
      PROVE  /\ b[k] = bytes[top.base + k + 1]
             /\ k # top.offset => b[k - 1] = bytes[top.base + k]
  <2>1. /\ k \in 0..(Len(top.text) - 1) /\ top.base + (k - 1) + 1 = top.base + k
        /\ k # top.offset => k - 1 \in 0..(Len(top.text) - 1)
    OBVIOUS
  <2> QED
    BY <2>1
<1> HIDE DEF b
<1> QED
  BY <1>1, <1>2 DEF Starts

(* What operator[] finds of the arguments that were counted lies in the    *)
(* segment, and so does the string it begins.                              *)
LEMMA LastFound ==
    ASSUME IInv, TInv, AInv, cmd_sudo, View!count # 0
    PROVE  actual_end <= top.slice_offset
<1> DEFINE last == View!count - 1
<1>1. /\ stack # <<>> /\ top.doing = "invoking" /\ View!ArgAt(last) # View!nullptr
      /\ Doing("invoking")
  BY DEF cmd_sudo, Executes, Invoking, Doing
<1>2. Fits(top, Len(bytes))
  BY <1>1, TopFits
<1>3. PICK base \in Nat, length \in Nat, offset \in Nat, slice_offset \in Nat, arg_count \in Nat :
        /\ base = top.base /\ length = Len(top.text) /\ offset = top.offset
        /\ slice_offset = top.slice_offset /\ arg_count = top.arg_count
        /\ slice_offset <= length
  <2>1. /\ top.base \in Nat /\ Len(top.text) \in Nat /\ top.offset \in Nat
        /\ top.slice_offset \in Nat /\ top.arg_count \in Nat
        /\ top.slice_offset <= Len(top.text)
    BY <1>2 DEF Fits
  <2> QED
    BY <2>1
<1>4. last + 1 = arg_count - 1 /\ arg_count > 0
  BY <1>3 DEF View!count
<1>5. PICK starts : starts = View!TokenStarts
  OBVIOUS
<1>6. PICK p : p = View!ArgAt(last) /\ p \in starts
               /\ Cardinality({j \in starts : j < p}) = last + 1
  BY <1>1, <1>5, ArgumentInLine
<1> HIDE DEF last
<1>7. starts = Starts(top, bytes) /\ starts \subseteq offset..(length - 1)
  <2>1. starts = Starts(top, bytes)
    BY <1>3, <1>5, StartsAre
  <2> QED
    BY <1>3, <2>1 DEF Starts
<1>8. PICK first : /\ \A i \in 1..arg_count : first[i] \in starts /\ first[i] < slice_offset
                   /\ \A i, j \in 1..arg_count : i < j => first[i] < first[j]
  BY <1>1, <1>3, <1>7 DEF AInv, Stand
<1>9. p < slice_offset
  <2> SUFFICES ASSUME slice_offset <= p PROVE FALSE
    BY <1>3, <1>6, <1>7
  <2> DEFINE Before == {j \in starts : j < p}
             f == [i \in 1..arg_count |-> first[i]]
  <2>1. f \in [1..arg_count -> Before]
    <3>1. \A i \in 1..arg_count : first[i] < p
      BY <1>3, <1>6, <1>7, <1>8
    <3> QED
      BY <1>8, <3>1
  <2>2. IsFiniteSet(1..arg_count) /\ Cardinality(1..arg_count) = arg_count
    BY <1>4, FS_Interval
  <2>3. IsFiniteSet(Before)
    <3>1. IsFiniteSet(offset..(length - 1))
      <4>1. offset \in Int /\ length - 1 \in Int
        BY <1>3
      <4> QED
        BY <4>1, FS_Interval
    <3>2. Before \subseteq offset..(length - 1)
      BY <1>7
    <3> HIDE DEF Before
    <3> QED
      BY <3>1, <3>2, FS_Subset
  <2>4. Cardinality(Before) < Cardinality(1..arg_count)
    <3>1. Cardinality(Before) = last + 1
      BY <1>6
    <3> HIDE DEF Before
    <3> QED
      BY <1>4, <2>2, <3>1
  <2>5. \A i \in 1..arg_count : f[i] = first[i]
    OBVIOUS
  <2> HIDE DEF Before, f
  <2>6. \E i, j \in 1..arg_count : i # j /\ f[i] = f[j]
    BY <2>1, <2>2, <2>3, <2>4, FS_PigeonHole
  <2>7. PICK i \in 1..arg_count, j \in 1..arg_count : i # j /\ f[i] = f[j]
    BY <2>6
  <2>8. first[i] = first[j] /\ (i < j \/ j < i) /\ first[i] \in Nat
    BY <1>3, <1>7, <1>8, <2>5, <2>7
  <2> QED
    BY <1>8, <2>7, <2>8
<1>10. p \in 0..length /\ p \in Nat /\ offset <= p
  BY <1>3, <1>6, <1>7
<1>11. /\ Len(View!CString(p)) \in 0..(length - p)
       /\ \A z \in p..(length - 1) : bytes[base + z + 1] = NUL => Len(View!CString(p)) <= z - p
  BY <1>3, <1>10, StringInLine
<1>12. actual_end = p + Len(View!CString(p))
  BY <1>1, <1>6 DEF actual_end, last, arg
<1>13. PICK l \in Nat : /\ l = Len(View!CString(p)) /\ l <= length - p
                        /\ \A z \in p..(length - 1) : bytes[base + z + 1] = NUL => l <= z - p
  <2>1. Len(View!CString(p)) \in Nat /\ Len(View!CString(p)) <= length - p
    BY <1>3, <1>10, <1>11
  <2> QED
    BY <1>11, <2>1
<1>14. p + l <= slice_offset
  <2>1. CASE slice_offset = length
    BY <1>10, <1>13, <2>1
  <2>2. CASE slice_offset # length /\ bytes[base + slice_offset + 1] = NUL
    <3>1. slice_offset \in p..(length - 1)
      BY <1>3, <1>9, <1>10, <2>2
    <3>2. l <= slice_offset - p
      BY <1>13, <2>2, <3>1
    <3> QED
      BY <1>10, <3>2
  <2>3. CASE bytes[base + slice_offset] = NUL
    <3>1. slice_offset - 1 \in p..(length - 1) /\ base + (slice_offset - 1) + 1 = base + slice_offset
      BY SMTT(30), <1>3, <1>9, <1>10
    <3>2. l <= (slice_offset - 1) - p
      BY <1>13, <2>3, <3>1
    <3> QED
      BY <1>10, <3>2
  <2>4. EndsInSegment(top, bytes)
    BY <1>1 DEF AInv
  <2> QED
    BY <1>3, <2>1, <2>2, <2>3, <2>4 DEF EndsInSegment
<1> QED
  BY <1>3, <1>12, <1>13, <1>14

(* What parsing leaves is where the segment's tokens were.                 *)
LEMMA ParseStands ==
    ASSUME IInv, TInv, Parse, NoEmptyToken
    PROVE  AInv'
<1> DEFINE from == top.slice_offset
           seg == C!Segment(slice, from)
           begin == C!SegmentBegin(slice, from)
           erased == C!Erased(slice, from)
           f == IF seg.kind = "ParseError"
                THEN [top EXCEPT !.result = Ok(-1), !.doing = "done",
                                 !.ran = Append(@, <<Ok(-1)>>)]
                ELSE [top EXCEPT !.offset = begin, !.slice_offset = seg.next,
                                 !.arg_count = Len(seg.tokens),
                                 !.terminator = seg.kind, !.doing = "invoking"]
<1>1. /\ stack # <<>> /\ Doing("parsing")
      /\ bytes' = [p \in DOMAIN bytes |->
                      IF p - 1 - top.base \in erased THEN NUL ELSE bytes[p]]
      /\ Replace(f)
  BY DEF Parse, Doing
<1>2. /\ Fits(top, Len(bytes)) /\ Len(bytes) \in Nat
      /\ IsStack(bytes) /\ DOMAIN bytes = 1..Len(bytes)
  BY <1>1, TopFits DEF TInv, IsStack
<1>3. PICK b \in Nat, n \in Nat : b = top.base /\ n = Len(top.text) /\ b + n <= Len(bytes)
  BY <1>2 DEF Fits
<1>4. /\ IsStack(slice) /\ Len(slice) = n
      /\ \A k \in 0..(n - 1) : slice[k + 1] = bytes[b + k + 1]
  BY <1>2, <1>3, SliceOfTop
<1>5. from \in 0..Len(slice) /\ Len(slice) \in Nat
  BY <1>2, <1>3, <1>4 DEF Fits
<1>6. PICK t : t = slice
  OBVIOUS
<1>7. /\ begin = Facts!SegmentBegin(t, from) /\ seg = Facts!Segment(t, from)
      /\ erased = Facts!Erased(t, from)
  BY <1>6, SameSegments
<1>8. begin \in 0..n /\ seg.next \in begin..n
  BY <1>4, <1>5, SegmentInLine
<1>9. ASSUME seg.kind # "ParseError"
      PROVE  \E first : Facts!StandAt(first, t, from)
  <2>1. PICK S : t \in Seq(S)
    BY <1>4, <1>6 DEF IsStack
  <2>2. \A i \in 1..Len(Facts!Segment(t, from).tokens) : Len(Facts!Segment(t, from).tokens[i]) > 0
    BY <1>1, <1>7 DEF NoEmptyToken
  <2>3. from \in 0..Len(t) /\ Facts!Segment(t, from).kind # "ParseError"
    BY <1>5, <1>6, <1>7, <1>9
  <2> QED
    BY <2>1, <2>2, <2>3, Facts!SegmentPlaced
<1>10. Fields \subseteq DOMAIN top
  BY <1>2 DEF Fits
<1> HIDE DEF seg, begin, erased
<1>11. /\ seg.kind = "ParseError" => f.doing = "done"
       /\ seg.kind # "ParseError" =>
             /\ f.base = top.base /\ f.text = top.text /\ f.offset = begin
             /\ f.slice_offset = seg.next /\ f.arg_count = Len(seg.tokens)
  BY <1>10 DEF Fields
<1> HIDE DEF f
<1>12. top' = f
  <2>1. IsStack(stack) /\ stack' = [stack EXCEPT ![Len(stack)] = f]
    BY <1>1 DEF IInv, Frames, Replace
  <2>2. Len(stack') = Len(stack) /\ stack'[Len(stack)] = f
    BY <1>1, <2>1, ReplacedTop
  <2> QED
    BY <2>2 DEF top
<1>13. CASE seg.kind = "ParseError"
  BY <1>11, <1>12, <1>13 DEF AInv, Doing
<1>14. CASE seg.kind # "ParseError"
  <2>1. PICK first : Facts!StandAt(first, t, from)
    BY <1>9, <1>14
  <2>2. PICK next \in 0..n : next = seg.next /\ begin <= next
    <3>1. seg.next \in 0..n /\ begin <= seg.next
      BY <1>8
    <3> QED
      BY <3>1
  <2>2a. PICK count : count = Len(seg.tokens)
    OBVIOUS
  <2>3. /\ \A i \in 1..count :
              /\ first[i] \in begin..(next - 1) /\ ~Facts!Ends(t, first[i]) /\ first[i] \notin erased
              /\ first[i] = begin \/ first[i] - 1 \in erased
        /\ \A i, j \in 1..count : i < j => first[i] < first[j]
        /\ Facts!Ends(t, next) \/ (begin < next /\ next - 1 \in erased)
    BY <1>7, <2>1, <2>2, <2>2a DEF Facts!StandAt
  <2>4. ASSUME NEW k \in 0..(n - 1)
        PROVE  /\ bytes'[b + k + 1] = IF k \in erased THEN NUL ELSE bytes[b + k + 1]
               /\ Facts!Ends(t, k) <=> bytes[b + k + 1] = NUL
    <3>1. b + k + 1 \in DOMAIN bytes /\ (b + k + 1) - 1 - b = k
      BY SMTT(30), <1>2, <1>3
    <3>2. Facts!Ends(t, k) <=> t[k + 1] = NUL
      BY <1>4, <1>6 DEF Facts!Ends
    <3> QED
      BY <1>1, <1>3, <1>4, <1>6, <3>1, <3>2
  <2>5. ASSUME NEW i \in 1..count
        PROVE  first[i] \in Starts(f, bytes') /\ first[i] < f.slice_offset
    <3>1. first[i] \in 0..(n - 1) /\ first[i] \in begin..(n - 1) /\ first[i] < next
      BY <1>8, <2>2, <2>3
    <3>2. bytes'[b + first[i] + 1] # NUL
      BY <2>3, <2>4, <3>1
    <3>3. first[i] = begin \/ bytes'[b + first[i]] = NUL
      <4> SUFFICES ASSUME first[i] # begin PROVE bytes'[b + first[i]] = NUL
        OBVIOUS
      <4>1. first[i] - 1 \in 0..(n - 1) /\ b + (first[i] - 1) + 1 = b + first[i]
        <5>1. PICK g \in Nat, m \in Nat :
                g = first[i] /\ m = begin /\ g \in 0..(n - 1) /\ m <= g /\ g # m
          BY <1>8, <3>1
        <5>2. g - 1 \in 0..(n - 1) /\ b + (g - 1) + 1 = b + g
          BY <5>1
        <5> QED
          BY <5>1, <5>2
      <4>2. bytes'[b + (first[i] - 1) + 1] = NUL
        BY <2>3, <2>4, <4>1
      <4> QED
        BY <4>1, <4>2
    <3> QED
      BY <1>3, <1>11, <1>14, <2>2, <3>1, <3>2, <3>3 DEF Starts
  <2>6. Stand(first, f, bytes')
    <3>1. f.arg_count = count
      BY <1>11, <1>14, <2>2a
    <3> QED
      BY <2>3, <2>5, <3>1 DEF Stand
  <2>7. EndsInSegment(f, bytes')
    <3>1. f.base = b /\ Len(f.text) = n /\ f.offset = begin /\ f.slice_offset = next
      BY <1>3, <1>11, <1>14, <2>2
    <3>2. CASE next = n
      BY <3>1, <3>2 DEF EndsInSegment
    <3>3. CASE next # n /\ Facts!Ends(t, next)
      <4>1. next \in 0..(n - 1)
        BY <2>2, <3>3
      <4>2. bytes'[b + next + 1] = NUL
        BY <2>4, <3>3, <4>1
      <4> QED
        BY <3>1, <4>2 DEF EndsInSegment
    <3>4. CASE begin < next /\ next - 1 \in erased
      <4>1. next - 1 \in 0..(n - 1) /\ b + (next - 1) + 1 = b + next
        <5>1. PICK m \in Nat : m = begin /\ m < next
          BY <1>8, <3>4
        <5>2. b + (next - 1) + 1 = b + next
          OBVIOUS
        <5> QED
          BY <5>1, <5>2
      <4>2. bytes'[b + (next - 1) + 1] = NUL
        BY <2>4, <3>4, <4>1
      <4> QED
        BY <3>1, <3>4, <4>1, <4>2 DEF EndsInSegment
    <3> QED
      BY <2>3, <3>2, <3>3, <3>4
  <2>8. top' = f
    BY <1>12
  <2> QED
    BY <2>6, <2>7, <2>8 DEF AInv
<1> QED
  BY <1>13, <1>14

(* No other step has a handler run next: whatever is on top then waits, or *)
(* is parsing or done.                                                     *)
LEMMA StepStands ==
    ASSUME IInv, TInv, AInv, [Next]_vars, NoEmptyToken
    PROVE  AInv'
<1>1. ASSUME NEW line, NEW typed, Dispatch(line, typed) PROVE AInv'
  <2>1. PICK call : call.doing = "parsing" /\ stack' = <<call>>
    BY <1>1 DEF Dispatch, Call
  <2>2. top' = call
    BY <2>1 DEF top
  <2> QED
    BY <2>1, <2>2 DEF AInv, Doing
<1>2. ASSUME Idle PROVE AInv'
  <2>1. top' = top /\ bytes' = bytes /\ (Doing("invoking")' <=> Doing("invoking"))
    BY <1>2 DEF Idle, top, Doing
  <2> QED
    BY <2>1 DEF AInv
<1>3. ASSUME Over PROVE AInv'
  <2>1. PICK results : stack # <<>> /\ Replace(After(top, results))
    BY <1>3 DEF Over
  <2>2. PICK f : f = After(top, results)
    OBVIOUS
  <2>3. HasLocals(top)
    BY <2>1, TopOfStack
  <2>4. f.doing # "invoking"
    BY <2>2, <2>3, AfterSegment
  <2>5. IsStack(stack) /\ stack' = [stack EXCEPT ![Len(stack)] = f]
    BY <2>1, <2>2 DEF IInv, Frames, Replace
  <2>6. Len(stack') = Len(stack) /\ stack'[Len(stack)] = f
    BY <2>1, <2>5, ReplacedTop
  <2>7. top' = f
    BY <2>6 DEF top
  <2> QED
    BY <2>4, <2>7 DEF AInv, Doing
<1>4. ASSUME Return PROVE AInv'
  <2>1. stack # <<>> /\ IsStack(stack) /\ stack' = Front(stack)
    BY <1>4 DEF Return, Doing, IInv, Frames
  <2>2. Len(stack') = Len(stack) - 1 /\ Len(stack) \in Nat \ {0} /\ IsStack(stack')
    BY <2>1, PoppedOff
  <2>3. \A d \in 1..(Len(stack) - 1) : stack'[d] = stack[d]
    BY <2>1, PoppedOff
  <2>4. CASE Len(stack) = 1
    <3>1. stack' = <<>>
      BY <2>2, <2>4 DEF IsStack
    <3> QED
      BY <3>1 DEF AInv, Doing
  <2>5. CASE Len(stack) # 1
    <3>1. Len(stack) - 1 \in 1..(Len(stack) - 1)
      BY <2>2, <2>5
    <3>2. top' = stack[Len(stack) - 1]
      BY <2>2, <2>3, <3>1 DEF top
    <3>3. stack[Len(stack) - 1].doing = "waiting"
      BY <3>1 DEF IInv, Frames, Waiting
    <3> QED
      BY <3>2, <3>3 DEF AInv, Doing
  <2> QED
    BY <2>4, <2>5
<1>5. ASSUME cmd_sudo, View!count # 0 PROVE AInv'
  <2>1. \E text, first : Hands(text, first)
    BY <1>5, SudoNests
  <2>2. PICK text, first : Hands(text, first)
    BY <2>1
  <2>3. PICK call : call = Call(text, first, FALSE) /\ call.doing = "parsing"
    <3>1. Call(text, first, FALSE).doing = "parsing"
      BY DEF Call
    <3> QED
      BY <3>1
  <2>4. top' = call
    BY <2>2, <2>3 DEF Hands, top
  <2> QED
    BY <2>3, <2>4 DEF AInv, Doing
<1> QED
  BY <1>1, <1>2, <1>3, <1>4, <1>5, StepKinds, ParseStands

LEMMA SudoNestsLines ==
    ASSUME IInv, TInv, NInv, AInv, cmd_sudo, View!count # 0
    PROVE  NInv'
<1>1. stack # <<>> /\ \E text, first : Hands(text, first)
  BY SudoNests
<1>2. PICK text, first : Hands(text, first)
  BY <1>1
<1>3. /\ Fits(top, Len(bytes)) /\ Len(stack) \in Nat \ {0} /\ Len(bytes) \in Nat
      /\ DOMAIN bytes = 1..Len(bytes) /\ top = stack[Len(stack)]
  BY <1>1, TopFits DEF TInv, IsStack, top
<1>4. PICK f, call : /\ f = [top EXCEPT !.doing = "waiting", !.saved = current_mode]
                     /\ call = Call(text, first, FALSE)
  OBVIOUS
<1>5. /\ f.base = top.base /\ f.text = top.text /\ f.slice_offset = top.slice_offset
      /\ f.offset = top.offset /\ f.doing = "waiting"
  BY <1>3, <1>4 DEF Fits, Fields
<1>6. call.base = first /\ call.text = text /\ call.slice_offset = 0
  BY <1>4 DEF Call
<1>7. /\ Len(stack') = Len(stack) + 1 /\ stack'[Len(stack)] = f
      /\ stack'[Len(stack) + 1] = call /\ \A d \in 1..(Len(stack) - 1) : stack'[d] = stack[d]
  BY <1>2, <1>4 DEF Hands
<1>8. /\ top.base \in Nat /\ top.offset \in Nat /\ top.slice_offset \in Nat
      /\ Len(top.text) \in Nat /\ top.slice_offset <= Len(top.text)
  BY <1>3 DEF Fits
<1>9. /\ first \in Nat /\ Len(text) \in Nat /\ actual_end \in Nat
      /\ top.base + top.offset < first /\ first + Len(text) = top.base + actual_end
      /\ actual_end <= Len(top.text)
  BY <1>2 DEF Hands
<1>10. actual_end <= top.slice_offset
  BY LastFound
<1>11. LineEnd(call) \in Nat /\ LineEnd(call) <= Parsed(f) /\ LineEnd(call) <= LineEnd(f)
  BY SMTT(30), <1>5, <1>6, <1>8, <1>9, <1>10 DEF LineEnd, Parsed
<1>12. ASSUME NEW d \in 1..(Len(stack) - 1)
       PROVE  /\ stack'[d] = stack[d] /\ Fits(stack[d], Len(bytes)) /\ RestIntact(stack[d], bytes)
              /\ LineEnd(f) <= Parsed(stack[d]) /\ Parsed(stack[d]) \in Nat
              /\ LineEnd(call) <= Parsed(stack[d])
  <2>1. d \in 1..Len(stack) /\ Len(stack) \in (d + 1)..Len(stack)
    BY <1>3
  <2>2. Fits(stack[d], Len(bytes)) /\ RestIntact(stack[d], bytes)
    BY <2>1 DEF TInv, NInv
  <2>3. LineEnd(top) <= Parsed(stack[d])
    BY <1>3, <2>1 DEF NInv
  <2>4. LineEnd(f) = LineEnd(top) /\ LineEnd(f) \in Nat
    BY <1>5, <1>8 DEF LineEnd
  <2>5. Parsed(stack[d]) \in Nat
    BY SMTT(30), <2>2 DEF Fits, Parsed
  <2> QED
    BY <1>7, <1>11, <2>2, <2>3, <2>4, <2>5
<1>13. ASSUME NEW d \in 1..(Len(stack') - 1), NEW e \in (d + 1)..Len(stack')
       PROVE  LineEnd(stack'[e]) <= Parsed(stack'[d])
  <2>1. \/ d = Len(stack) /\ e = Len(stack) + 1
        \/ d \in 1..(Len(stack) - 1) /\ e = Len(stack) + 1
        \/ d \in 1..(Len(stack) - 1) /\ e = Len(stack)
        \/ d \in 1..(Len(stack) - 1) /\ e \in 1..(Len(stack) - 1) /\ e \in (d + 1)..Len(stack)
    <3>1. PICK n \in Nat \ {0} : n = Len(stack) /\ Len(stack') = n + 1
      BY <1>3, <1>7
    <3>2. d \in 1..n /\ e \in (d + 1)..(n + 1)
      BY <3>1
    <3>3. d = n => e = n + 1
      BY <3>2
    <3>4. d # n => d \in 1..(n - 1)
      BY <3>2
    <3>5. e = n + 1 \/ e = n \/ (e \in 1..(n - 1) /\ e \in (d + 1)..n)
      BY <3>2
    <3> QED
      BY <3>1, <3>3, <3>4, <3>5
  <2>2. CASE d = Len(stack) /\ e = Len(stack) + 1
    BY <1>7, <1>11, <2>2
  <2>3. CASE d \in 1..(Len(stack) - 1) /\ e = Len(stack) + 1
    BY <1>7, <1>12, <2>3
  <2>4. CASE d \in 1..(Len(stack) - 1) /\ e = Len(stack)
    BY <1>7, <1>12, <2>4
  <2>5. CASE d \in 1..(Len(stack) - 1) /\ e \in 1..(Len(stack) - 1) /\ e \in (d + 1)..Len(stack)
    BY <1>12, <2>5 DEF NInv
  <2> QED
    BY <2>1, <2>2, <2>3, <2>4, <2>5
<1>14. ASSUME NEW d \in 1..(Len(stack') - 1)
       PROVE  stack'[d].base + stack'[d].offset < stack'[d + 1].base
  <2>1. \/ d = Len(stack)
        \/ d \in 1..(Len(stack) - 1) /\ (d + 1 = Len(stack) \/ d + 1 \in 1..(Len(stack) - 1))
    BY <1>3, <1>7
  <2>2. CASE d = Len(stack)
    BY <1>5, <1>6, <1>7, <1>9, <2>2
  <2>3. CASE d \in 1..(Len(stack) - 1)
    <3>1. stack[d].base + stack[d].offset < stack[d + 1].base
      BY <2>3 DEF NInv
    <3>2. stack'[d] = stack[d] /\ stack'[d + 1].base = stack[d + 1].base
      <4>1. d + 1 = Len(stack) \/ d + 1 \in 1..(Len(stack) - 1)
        BY <1>3, <2>3
      <4>2. CASE d + 1 = Len(stack)
        BY <1>3, <1>5, <1>7, <2>3, <4>2
      <4>3. CASE d + 1 \in 1..(Len(stack) - 1)
        BY <1>7, <2>3, <4>3
      <4> QED
        BY <4>1, <4>2, <4>3
    <3> QED
      BY <3>1, <3>2
  <2> QED
    BY <2>1, <2>2, <2>3
<1>15. ASSUME NEW g, Fits(g, Len(bytes)), RestIntact(g, bytes), LineEnd(call) <= Parsed(g)
       PROVE  RestIntact(g, bytes')
  <2> SUFFICES ASSUME g.doing # "done", NEW k \in g.slice_offset..(Len(g.text) - 1)
               PROVE  bytes'[g.base + k + 1] = g.text[k + 1]
    BY DEF RestIntact
  <2>1. PICK b \in Nat, l \in Nat, s \in Nat, n \in Nat :
          b = g.base /\ l = Len(g.text) /\ s = g.slice_offset /\ n = Len(bytes)
    <3>1. g.base \in Nat /\ Len(g.text) \in Nat /\ g.slice_offset \in Nat
      BY <1>15 DEF Fits
    <3>2. Len(bytes) \in Nat
      BY <1>3
    <3> QED
      BY <3>1, <3>2
  <2>2. b + l <= n /\ k \in s..(l - 1)
    BY <1>15, <2>1 DEF Fits
  <2>3. PICK z \in Nat : z = first + Len(text) /\ z <= b + s
    BY <1>6, <1>9, <1>15, <2>1 DEF LineEnd, Parsed
  <2>4. b + k + 1 \in 1..n
    BY <2>2, Ahead
  <2>5. b + k + 1 \notin (first + 1)..z
    BY <1>9, <2>2, <2>3, Ahead
  <2>6. bytes'[b + k + 1] = bytes[b + k + 1]
    <3>1. \A p \in DOMAIN bytes : p \notin (first + 1)..z => bytes'[p] = bytes[p]
      BY <1>2, <2>3 DEF Hands
    <3>2. b + k + 1 \in DOMAIN bytes
      BY <1>3, <2>1, <2>4
    <3> QED
      BY <2>5, <3>1, <3>2
  <2>7. bytes[g.base + k + 1] = g.text[k + 1]
    BY <1>15 DEF RestIntact
  <2> QED
    BY <2>1, <2>6, <2>7
<1>16. RestIntact(f, bytes')
  <2>1. Fits(f, Len(bytes))
    BY <1>3, <1>4 DEF Fits, Fields, TInv
  <2>2. RestIntact(top, bytes) /\ top.doing # "done"
    <3>1. Len(stack) \in 1..Len(stack)
      BY <1>3
    <3> QED
      BY <1>3, <3>1, SudoNests DEF NInv
  <2>3. RestIntact(f, bytes)
    BY <1>5, <2>2 DEF RestIntact
  <2> QED
    BY <1>11, <1>15, <2>1, <2>3
<1>17. RestIntact(call, bytes')
  BY <1>2, <1>6 DEF RestIntact, Hands
<1>18. ASSUME NEW d \in 1..Len(stack') PROVE RestIntact(stack'[d], bytes')
  <2>1. d \in 1..(Len(stack) - 1) \/ d = Len(stack) \/ d = Len(stack) + 1
    BY <1>3, <1>7
  <2>2. CASE d \in 1..(Len(stack) - 1)
    BY <1>12, <1>15, <2>2
  <2> QED
    BY <1>7, <1>16, <1>17, <2>1, <2>2
<1> QED
  BY <1>13, <1>14, <1>18 DEF NInv

LEMMA StepNests ==
    ASSUME IInv, TInv, NInv, AInv, [Next]_vars
    PROVE  NInv'
<1>1. ASSUME Idle PROVE NInv'
  BY <1>1 DEF Idle, NInv
<1> QED
  BY <1>1, StepKinds, DispatchNests, ParseNests, OverNests, ReturnNests, SudoNestsLines

(* A line that sudo runs lies in sudo's own segment, and neither parsing   *)
(* nor what is run inside a line touches the segments still to come, as    *)
(* long as no empty token is written (lishShell.h:209-215).                *)
THEOREM NestedLinesStayInside == Spec /\ []NoEmptyToken => []NestedLineInItsSegment
<1>1. Init => TInv
  BY InitFits
<1>2. Init => NInv /\ AInv
  <2>1. 1..0 = {} /\ 1..(0 - 1) = {} /\ Len(<<>>) = 0
    OBVIOUS
  <2> QED
    BY <2>1 DEF Init, ShellInit, NInv, AInv, Doing
<1>3. IInv /\ TInv /\ NInv /\ AInv /\ NoEmptyToken /\ [Next]_vars => NInv' /\ AInv'
  BY StepNests, StepStands
<1> QED
  BY <1>1, <1>2, <1>3, InitKeeps, StepKeeps, StepFits, NInvImplies, PTL DEF Spec

=============================================================================
