---------------------------- MODULE HistoryList ----------------------------
(***************************************************************************)
(* What lish::History promises: the submitted lines, newest first, no two  *)
(* of them equal case aside, kept in a budget of bytes, and a cursor that  *)
(* browses them.  The operators are functions on histories; History is the *)
(* packed byte array that implements them, InputProcessor the caller.      *)
(***************************************************************************)
EXTENDS Naturals, Sequences, SequencesExt, FiniteSetsExt

CONSTANTS
    HistoryLength,      \* template argument; as a cursor, "not browsing"
    TypicalLineLength,  \* template argument; sizes the byte budget
    Line,               \* the lines that may be submitted
    Fold                \* Fold[c], the case folding of strncasecmp()

VARIABLE history

BUFFER_SIZE == HistoryLength * TypicalLineLength

NotBrowsing == HistoryLength

EmptyHistory == [entries |-> <<>>, cursor |-> NotBrowsing]

SameLine(s, t) == Len(s) = Len(t) /\ \A i \in 1..Len(s) : Fold[s[i]] = Fold[t[i]]

(* Bytes an entry and a list of entries take, terminators included.        *)
EntrySize(s) == Len(s) + 1
SizeOf(es) ==
    LET from[k \in 0..Len(es)] ==
          IF k = Len(es) THEN 0 ELSE EntrySize(es[k + 1]) + from[k + 1]
    IN  from[0]

(* The entries that remain when the oldest are evicted, one at a time,     *)
(* until need more bytes fit or none is left.                              *)
Evicted(es, need) ==
    LET fits == {k \in 0..Len(es) : SizeOf(SubSeq(es, 1, k)) + need <= BUFFER_SIZE}
    IN  IF fits = {} THEN <<>> ELSE SubSeq(es, 1, Max(fits))

Duplicates(es, s) == {k \in 1..Len(es) : SameLine(es[k], s)}

Pushed(h, s) ==
    LET dups == Duplicates(h.entries, s)
        kept == Evicted(h.entries, EntrySize(s))
    IN  CASE s = <<>> -> h
          [] 1 \in dups -> [h EXCEPT !.cursor = NotBrowsing]
          [] dups # {} /\ 1 \notin dups ->
                [entries |-> <<s>> \o RemoveAt(h.entries, Min(dups)),
                 cursor  |-> NotBrowsing]
          [] s # <<>> /\ dups = {} /\ EntrySize(s) > BUFFER_SIZE ->
                [h EXCEPT !.entries = kept]
          [] OTHER -> [entries |-> <<s>> \o kept, cursor |-> NotBrowsing]

IsBrowsing(h) == h.cursor # NotBrowsing

(* The uint8_t count of entries.                                           *)
Count(h) == Len(h.entries) % 256

(* prev() and next(), each with the truth value it returns.                *)
PrevMoves(h) == Count(h) > 0 /\ (IsBrowsing(h) => h.cursor < Count(h) - 1)

Older(h) ==
    IF ~PrevMoves(h) THEN h
    ELSE [h EXCEPT !.cursor = IF IsBrowsing(h) THEN h.cursor + 1 ELSE 0]

NextMoves(h) == IsBrowsing(h) /\ h.cursor > 0

Newer(h) ==
    [h EXCEPT !.cursor = IF NextMoves(h) THEN h.cursor - 1 ELSE NotBrowsing]

Cancelled(h) == [h EXCEPT !.cursor = NotBrowsing]

Current(h) ==
    IF h.entries = <<>> THEN <<>>
    ELSE h.entries[(IF IsBrowsing(h) THEN h.cursor ELSE 0) + 1]

-----------------------------------------------------------------------------

Init == history = EmptyHistory

Push(s) == history' = Pushed(history, s)
Prev == history' = Older(history)
NextNewer == history' = Newer(history)
CancelBrowsing == history' = Cancelled(history)

Next ==
    \/ \E s \in Line : Push(s)
    \/ Prev
    \/ NextNewer
    \/ CancelBrowsing

Spec == Init /\ [][Next]_history

=============================================================================
