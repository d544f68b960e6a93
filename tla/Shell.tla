------------------------------- MODULE Shell -------------------------------
(***************************************************************************)
(* Executing command lines: on_submit() and run_line() hand a line to      *)
(* dispatch_chain(), which parses one segment at a time, in place, and     *)
(* runs it before the next is parsed.  A handler may call run_line() again *)
(* on a part of the bytes it was given, so there is a stack of lines in    *)
(* one array.  Handlers that call the shell are in the modules that extend *)
(* this one.  A byte of a line is a word, a blank, a separator, a quote or *)
(* NUL: a word is never cut, so it counts as one.                          *)
(***************************************************************************)
EXTENDS Integers, SequencesExt

CONSTANTS
    Submitted,      \* the lines typed at the prompt
    Scripted,       \* the lines the application passes to run_line()
    Commands,       \* the registered commands: [name, perm, handler] records
    Codes,          \* the codes a plain handler may return
    ModeBits, InitialMode, Fold, Hash(_),
    NUL

ASSUME LineAssumption == \A line \in Submitted \cup Scripted : line \in Seq(Range(line))
ASSUME ModeAssumption == InitialMode \in ModeBits

VARIABLES
    stack,              \* the calls of dispatch_chain(), the outermost first
    bytes,              \* the array they all parse in, while there is one
    current_mode,
    last_result_code,
    printed             \* the status bytes sent since the array was handed over

shellVars == <<stack, bytes, current_mode, last_result_code, printed>>

C == INSTANCE CommandLine

Table == INSTANCE CommandTable WITH table <- Commands, Tables <- {}

(* CommandResult                                                           *)
Result(status, code) == [status |-> status, code |-> code]
Ok(code) == Result("Ok", code)
Succeeded(r) == r.status = "Ok" /\ r.code = 0

top == stack[Len(stack)]
Doing(what) == stack # <<>> /\ top.doing = what
Replace(f) == stack' = [stack EXCEPT ![Len(stack)] = f]

(* A call of dispatch_chain() on the bytes text, at base in the array: the *)
(* fields of its Args, the result so far, and what it is doing.  saved is  *)
(* a local variable of the handler that waits for a nested call; typed     *)
(* tells on_submit() from run_line().  For the properties there are text,  *)
(* written, its segments as they were handed over, and ran, the results of *)
(* those that are over.                                                    *)
Call(text, base, typed) ==
    [text |-> text, written |-> C!Segments(text), base |-> base, typed |-> typed,
     slice_offset |-> 0, offset |-> 0, arg_count |-> 0, terminator |-> "None",
     result |-> Ok(0), doing |-> "parsing", saved |-> current_mode, ran |-> <<>>]

(* The bytes of the call on top as they are now, and its Args on them.     *)
slice == SubSeq(bytes, top.base + 1, top.base + Len(top.text))

View == INSTANCE Args WITH
          text <- top.text,
          buffer <- [k \in 0..(Len(top.text) - 1) |-> bytes[top.base + k + 1]],
          slice_offset <- top.slice_offset, offset <- top.offset,
          arg_count <- top.arg_count, terminator <- top.terminator,
          from <- 0, i <- 0, in_token <- FALSE, Text <- {}, Char <- {}

arg(k) == IF View!ArgAt(k) = View!nullptr THEN <<>> ELSE View!CString(View!ArgAt(k))

args == [k \in 1..View!count |-> arg(k - 1)]

(* Faulty: && goes on whatever happened.                                   *)
GoesOnAnyway(f, result) == f.terminator # "EndOfLine"

(* The loop condition of dispatch_chain().                                 *)
GoesOn(f, result) ==
    f.terminator # "EndOfLine" /\ (f.terminator = "Semicolon" \/ Succeeded(result))

(* The segment is over with these results, none if it had no command.      *)
After(f, results) ==
    LET result == IF results = <<>> THEN f.result ELSE results[1] IN
    [f EXCEPT !.result = result,
              !.doing = IF GoesOn(f, result) THEN "parsing" ELSE "done",
              !.ran = Append(@, results)]

Proceed(result) == Replace(After(top, <<result>>))

-----------------------------------------------------------------------------

ShellInit ==
    /\ stack = <<>> /\ bytes = <<>>
    /\ current_mode = InitialMode
    /\ last_result_code = 0
    /\ printed = <<>>

Dispatch(line, typed) ==
    /\ stack' = <<Call(line, 0, typed)>>
    /\ bytes' = line
    /\ printed' = <<>>
    /\ UNCHANGED <<current_mode, last_result_code>>

IsBlank(line) == \A k \in 1..Len(line) : line[k] = " "

(* A line at the prompt: a blank one is not dispatched at all.             *)
on_submit(line) == stack = <<>> /\ ~IsBlank(line) /\ Dispatch(line, TRUE)

(* run_line() by the application; an empty line is EmptyCommand, code 0.   *)
run_line(line) ==
    /\ stack = <<>>
    /\ IF line # <<>> THEN Dispatch(line, FALSE)
       ELSE last_result_code' = 0 /\ UNCHANGED <<stack, bytes, current_mode, printed>>

(* parse() of the next segment, from where the last call of it stopped. A  *)
(* malformed argument ends the chain.                                      *)
Parse ==
    /\ Doing("parsing")
    /\ \E now \in {slice} : \E seg \in {C!Segment(now, top.slice_offset)},
                             erased \in {C!Erased(now, top.slice_offset)} :
          /\ bytes' = [p \in DOMAIN bytes |->
                          IF p - 1 - top.base \in erased THEN NUL ELSE bytes[p]]
          /\ Replace(
                IF seg.kind = "ParseError"
                THEN [top EXCEPT !.result = Ok(-1), !.doing = "done",
                                 !.ran = Append(@, <<Ok(-1)>>)]
                ELSE [top EXCEPT !.offset = C!SegmentBegin(now, top.slice_offset),
                                 !.slice_offset = seg.next,
                                 !.arg_count = Len(seg.tokens),
                                 !.terminator = seg.kind, !.doing = "invoking"])
    /\ UNCHANGED <<current_mode, last_result_code, printed>>

(* A segment without a command name leaves the result as it was.           *)
EmptySegment ==
    /\ Doing("invoking")
    /\ View!command = <<>>
    /\ Replace(After(top, <<>>))
    /\ UNCHANGED <<bytes, current_mode, last_result_code, printed>>

(* invoke_slice() of the other segments.                                   *)
Invoking == Doing("invoking") /\ View!command # <<>>

Returns(result) ==
    /\ Proceed(result)
    /\ UNCHANGED <<bytes, current_mode, last_result_code, printed>>

(* Faulty: the uint8_t that execute_help() is assigned to is kept.         *)
Widened(code) == code % 256

(* The int8_t of execute_help() is stored as a uint8_t and becomes the     *)
(* int8_t of a CommandResult again.                                        *)
Narrowed(code) == IF code % 256 < 128 THEN code % 256 ELSE (code % 256) - 256

help ==
    /\ Invoking
    /\ \E cmd \in {View!command} :
          /\ Table!IsHelp(cmd)
          /\ Returns(Ok(Narrowed(Table!help_code(args))))

Refuse ==
    /\ Invoking
    /\ \E cmd \in {View!command} :
          /\ ~Table!IsHelp(cmd) /\ ~Table!Runs(cmd)
          /\ Returns(Result(IF Table!IsDenied(cmd) THEN "PermissionDenied"
                            ELSE "CommandNotFound", 0))

Executes(handler) ==
    /\ Invoking
    /\ \E cmd \in {View!command} :
          /\ Table!Runs(cmd)
          /\ Commands[Min(Table!Found(cmd))].handler = handler

(* A handler that calls nothing of the shell, with any code.               *)
plain == Executes("plain") /\ \E code \in Codes : Returns(Ok(code))

set_mode(mode) == current_mode' = mode

(* run_line() by a handler, on a part of the bytes of its own line.        *)
Nest(array, first, length, mode) ==
    /\ bytes' = array
    /\ \E text \in {SubSeq(array, first + 1, first + length)} :
          stack' = Append([stack EXCEPT ![Len(stack)].doing = "waiting",
                                        ![Len(stack)].saved = mode],
                          Call(text, first, FALSE))

(* print_status(), by on_submit() only: one byte tells the outcome.        *)
StatusByte(result) == IF Succeeded(result) THEN "ACK" ELSE "NAK"

(* Faulty: run_line() prints one, too.                                     *)
AlwaysPrints(f) == <<StatusByte(f.result)>>

Prints(f) == IF f.typed THEN <<StatusByte(f.result)>> ELSE <<>>

(* dispatch_chain() returns to on_submit() or to run_line(), which both    *)
(* store the code.                                                         *)
Return ==
    /\ Doing("done")
    /\ last_result_code' = top.result.code
    /\ printed' = printed \o Prints(top)
    /\ stack' = Front(stack)
    /\ bytes' = IF Len(stack) = 1 THEN <<>> ELSE bytes
    /\ UNCHANGED current_mode

Step == Parse \/ EmptySegment \/ help \/ Refuse \/ plain \/ Return

Waiting(d) == stack[d].doing = "waiting"

-----------------------------------------------------------------------------

(* The codes of the handlers and of help.                                  *)
AnyCode == {-2, -1, 0} \cup Codes
Results == [status : {"Ok", "CommandNotFound", "PermissionDenied"}, code : AnyCode]

TypeOK ==
    /\ \A d \in 1..Len(stack) :
          /\ stack[d].base + Len(stack[d].text) <= Len(bytes)
          /\ stack[d].offset \in 0..Len(stack[d].text)
          /\ stack[d].slice_offset \in 0..Len(stack[d].text)
          /\ stack[d].result \in Results
          /\ d < Len(stack) => Waiting(d)
          /\ stack[d].saved \in ModeBits
    /\ current_mode \in ModeBits
    /\ last_result_code \in AnyCode

(* The chains being executed are what Chain promises of the lines as they  *)
(* were handed over, although every call of dispatch_chain() overwrites    *)
(* its part of one array, and nested ones a part of their caller's.        *)
Chains == INSTANCE Chain WITH
            chains <- [d \in 1..Len(stack) |->
                          [segments |-> stack[d].written, ran |-> stack[d].ran]],
            code <- last_result_code, Lines <- Submitted \cup Scripted

ImplementsChain == Chains!Spec

(* The line a handler runs lies behind its own name and before the next    *)
(* segment, and whatever is parsed and rewritten inside it, the segments   *)
(* still to come are as they were handed over (lishShell.h:209-215).       *)
NestedLineInItsSegment ==
    \A d \in 1..Len(stack) :
        LET outer == stack[d] IN
        /\ d < Len(stack) =>
              LET line == stack[d + 1] IN
              /\ outer.base + outer.offset < line.base
              /\ line.base + Len(line.text) <= outer.base + outer.slice_offset
        /\ outer.doing # "done" => \A k \in outer.slice_offset..(Len(outer.text) - 1) :
              bytes[outer.base + k + 1] = outer.text[k + 1]

(* Once a line typed at the prompt has been executed, one status byte is   *)
(* sent, none by the lines its handlers ran, and it is ACK exactly if the  *)
(* last command of the typed line succeeded (lishDefs.h:81-95,             *)
(* lishShell.h:258-263).                                                   *)
OneStatusPerLine ==
    [][Len(stack) = 1 /\ stack' = <<>> =>
          printed' = IF ~top.typed THEN <<>>
                     ELSE IF Succeeded(Chains!LastResult(top.ran)) THEN <<"ACK">>
                     ELSE <<"NAK">>]_shellVars

(* Every line submitted is dispatched to its end, nested lines included.   *)
DispatchEnds == stack # <<>> ~> stack = <<>>

(* "`cmd1 ; cmd2` (always run both)" (README.md:41): once a line without   *)
(* && and malformed arguments is done, each of its commands has run.       *)
SequenceRunsBoth ==
    \A d \in 1..Len(stack) :
        LET line == stack[d] IN
        /\ line.doing = "done"
        /\ \A k \in 1..Len(line.written) : line.written[k].kind \in {"Semicolon", "EndOfLine"}
        => \A k \in 1..Len(line.written) :
              line.written[k].command # <<>> => line.ran[k] # <<>>

=============================================================================
