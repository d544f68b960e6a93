----------------------------- MODULE SerialRead -----------------------------
(***************************************************************************)
(* The input side of the shell: read(c, timeout_ms) of the IOAdapter, a    *)
(* loop that polls the serial port and a clock that wraps around, while    *)
(* bytes arrive and time passes at any point.  Shell::service() calls it   *)
(* without a timeout, handlers call it through IShell::read() with any.    *)
(***************************************************************************)
EXTENDS Naturals

CONSTANTS
    Modulus,    \* the values millis() has, 2^32
    Infinite,   \* the timeout that means none, 0xFFFF
    Timeouts,   \* the timeouts callers give
    Capacity,   \* the bytes Serial holds; further ones are lost
    MaxLag      \* bound: milliseconds between two steps of the loop

(* A turn of the loop is short against the 49 days millis() takes to wrap  *)
(* around.                                                                 *)
ASSUME ClockAssumption ==
    /\ Modulus \in Nat /\ Infinite \in Nat /\ MaxLag \in Nat
    /\ Timeouts \subseteq 0..Infinite
    /\ Infinite + 2 * MaxLag < Modulus
ASSUME CapacityAssumption == Capacity \in Nat

VARIABLES
    millis,         \* millis()
    waiting,        \* Serial.available()
    pc,             \* what the loop does next: look at the port, at the clock
    start, timeout_ms,
    result,         \* how the last read() ended
    elapsed,        \* milliseconds since it was called (to state properties)
    lag             \* milliseconds since the loop's last step

readVars == <<millis, waiting, pc, start, timeout_ms, result, elapsed, lag>>

infinite == timeout_ms = Infinite

Reading == pc # "idle"

(* now - then, as unsigned long.                                           *)
Since(then, now) == IF now >= then THEN now - then ELSE now + Modulus - then

(* The time up to which elapsed counts, past what any timeout takes.       *)
Horizon == Infinite + 2 * MaxLag + 1

-----------------------------------------------------------------------------

ReadInit ==
    /\ millis \in 0..(Modulus - 1)
    /\ waiting = 0
    /\ pc = "idle" /\ result = "none"
    /\ start = 0 /\ timeout_ms = 0
    /\ elapsed = 0 /\ lag = 0

(* The world: a millisecond passes, a byte arrives.                        *)
Tick ==
    /\ Reading => lag < MaxLag
    /\ millis' = IF millis = Modulus - 1 THEN 0 ELSE millis + 1
    /\ elapsed' = IF Reading /\ elapsed < Horizon THEN elapsed + 1 ELSE elapsed
    /\ lag' = IF Reading THEN lag + 1 ELSE lag
    /\ UNCHANGED <<waiting, pc, start, timeout_ms, result>>

Arrive ==
    /\ waiting < Capacity
    /\ waiting' = waiting + 1
    /\ UNCHANGED <<millis, pc, start, timeout_ms, result, elapsed, lag>>

read(timeout) ==
    /\ ~Reading
    /\ start' = millis
    /\ timeout_ms' = timeout
    /\ pc' = "port"
    /\ result' = "none"
    /\ elapsed' = 0 /\ lag' = 0
    /\ UNCHANGED <<millis, waiting>>

Return(outcome) ==
    /\ pc' = "idle"
    /\ result' = outcome
    /\ lag' = 0
    /\ UNCHANGED <<millis, start, timeout_ms, elapsed>>

Continue(next) ==
    /\ pc' = next
    /\ lag' = 0
    /\ UNCHANGED <<millis, waiting, start, timeout_ms, result, elapsed>>

(* Faulty: reads an empty port.                                            *)
AlwaysAvailable == waiting >= 0

(* Faulty: the last byte is left.                                          *)
SeveralAvailable == waiting > 1

Available == waiting > 0

ReceiveByte == pc = "port" /\ Available /\ waiting' = waiting - 1 /\ Return("byte")

PortEmpty == pc = "port" /\ ~Available /\ Continue("clock")

(* Faulty: compares with a deadline that wraps around.                     *)
DeadlineReached == ~infinite /\ millis >= (start + timeout_ms) % Modulus

(* Faulty: compares with a deadline that the clock need not reach.         *)
WideDeadlineReached == ~infinite /\ millis >= start + timeout_ms

TimedOut == ~infinite /\ Since(start, millis) >= timeout_ms

(* A byte that has arrived since the port was looked at stays there.       *)
GiveUp == pc = "clock" /\ TimedOut /\ Return("timeout") /\ UNCHANGED waiting

NotYet == pc = "clock" /\ ~TimedOut /\ Continue("port")

Loop == ReceiveByte \/ PortEmpty \/ GiveUp \/ NotYet

ReadNext ==
    \/ Tick
    \/ Arrive
    \/ \E timeout \in Timeouts : read(timeout)
    \/ Loop

(* The loop runs and time passes.  Callers and bytes owe nothing.          *)
ReadSpec == ReadInit /\ [][ReadNext]_readVars /\ WF_readVars(Loop) /\ WF_readVars(Tick)

-----------------------------------------------------------------------------

ReadTypeOK ==
    /\ millis \in 0..(Modulus - 1)
    /\ waiting \in 0..Capacity
    /\ pc \in {"idle", "port", "clock"}
    /\ start \in 0..(Modulus - 1)
    /\ timeout_ms \in Timeouts \cup {0}
    /\ result \in {"none", "byte", "timeout"}
    /\ elapsed \in 0..Horizon
    /\ lag \in 0..MaxLag

(* A read gives up only after the time it was given, across a wrap-around  *)
(* of millis(), and never if that is forever (lishIShell.h:104-107).       *)
NeverEarly == result = "timeout" => ~infinite /\ elapsed >= timeout_ms

(* A read that was given a time is back by then, but for two steps of the  *)
(* loop: one that looked at the clock just before, one at the port.        *)
NeverLate == Reading /\ ~infinite => elapsed <= timeout_ms + 2 * MaxLag

(* Every read that was given a time returns, byte or none.                 *)
ReadReturns == Reading /\ ~infinite ~> ~Reading

(* Every read returns once a byte has arrived: login is not stuck.         *)
ByteEndsRead == Reading /\ waiting > 0 ~> ~Reading

=============================================================================
