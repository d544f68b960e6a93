------------------------------ MODULE History ------------------------------
(***************************************************************************)
(* lish::History: NUL-terminated lines packed newest first into one byte   *)
(* array.  Entries have no index or length field: every operation finds    *)
(* them by walking terminators, and push() moves them with one memmove().  *)
(***************************************************************************)
EXTENDS Naturals, Sequences, FiniteSetsExt

CONSTANTS HistoryLength, TypicalLineLength, Line, Fold,
          Char,     \* the bytes of a line
          NUL       \* '\0'

ASSUME LengthAssumption ==
    /\ HistoryLength \in 1..255
    /\ TypicalLineLength \in 1..255
ASSUME CharAssumption ==
    /\ NUL \notin Char
    /\ Line \subseteq Seq(Char)
    /\ Fold \in [Char -> Char]
ASSUME LineAssumption ==        \* push() takes a LineBuffer of uint8_t size
    \A s \in Line : Len(s) < 255

VARIABLES history_buffer, bytes_used, cursor

vars == <<history_buffer, bytes_used, cursor>>

BUFFER_SIZE == HistoryLength * TypicalLineLength

Index == 0..(BUFFER_SIZE - 1)

EntrySize(s) == Len(s) + 1

nullptr == BUFFER_SIZE + 1

-----------------------------------------------------------------------------
(* Walking the array.  A pointer is an offset.                             *)

(* strnlen(p, BUFFER_SIZE - p)                                             *)
StrnLen(p) ==
    LET ends == {q \in p..(BUFFER_SIZE - 1) : history_buffer[q] = NUL}
    IN  (IF ends = {} THEN BUFFER_SIZE ELSE Min(ends)) - p

Terminated(p) == p + StrnLen(p) < BUFFER_SIZE

After(p) == p + StrnLen(p) + 1

entry_length(p) == IF Terminated(p) THEN StrnLen(p) % 256 ELSE 0

get_entry_ptr(index) ==
    LET ptr[i \in 0..index] ==
          IF i = 0 THEN 0
          ELSE LET p == ptr[i - 1] IN
               IF p = nullptr \/ ~Terminated(p) \/ p + StrnLen(p) >= bytes_used
                 THEN nullptr ELSE After(p)
    IN  ptr[index]

count_entries ==
    LET from[p \in 0..BUFFER_SIZE] ==
          IF p >= bytes_used \/ ~Terminated(p) \/ StrnLen(p) = 0
            THEN 0 ELSE 1 + from[After(p)]
    IN  from[0] % 256

(* Faulty: compares with strncmp().                                        *)
Identical(c, d) == c = d

SameByte(c, d) == c \in Char /\ Fold[c] = Fold[d]

(* strncasecmp(p, s, Len(s)) == 0 for an entry of the length of s.         *)
Matches(p, s) ==
    /\ entry_length(p) = Len(s)
    /\ \A i \in 1..Len(s) : SameByte(history_buffer[p + i - 1], s[i])

(* The search of push() for a duplicate: the first entry that matches.     *)
FindDuplicate(s) ==
    LET from[p \in 0..BUFFER_SIZE] ==
          IF p >= bytes_used THEN nullptr
          ELSE IF Matches(p, s) THEN p ELSE from[p + entry_length(p) + 1]
    IN  from[0]

(* Where the last entry of the first used bytes starts.                    *)
OldestEntry(used) ==
    LET from[p \in 0..(used - 1)] ==
          IF ~Terminated(p) \/ StrnLen(p) = 0 \/ After(p) >= used
            THEN p ELSE from[After(p)]
    IN  from[0]

(* Faulty: a line larger than the whole array is written all the same.     *)
AlwaysRoom(used, need) == FALSE

(* Faulty: there is no room for a line that fits exactly.                  *)
NoRoomIfFull(used, need) == used + need >= BUFFER_SIZE

NoRoom(used, need) == used + need > BUFFER_SIZE

(* The eviction loop of push(): bytes still used when it ends.             *)
UsedAfterEviction(need) ==
    LET loop[used \in 0..BUFFER_SIZE] ==
          IF NoRoom(used, need) /\ used > 0
            THEN loop[OldestEntry(used)] ELSE used
    IN  loop[bytes_used]

(* Faulty: the shift is one byte short.                                    *)
ShiftedTooFew(s, moved) == EntrySize(s)..(Len(s) + moved - 1)

(* Where the first moved bytes are once they are shifted up.               *)
Shifted(s, moved) == EntrySize(s)..(Len(s) + moved)

(* The array once its first moved bytes are shifted up by EntrySize(s) and *)
(* s is written, with its terminator, in front of them.                    *)
WrittenInFront(s, moved) ==
    [q \in Index |->
        IF q < Len(s) THEN s[q + 1]
        ELSE IF q = Len(s) THEN NUL
        ELSE IF q \in Shifted(s, moved) THEN history_buffer[q - EntrySize(s)]
        ELSE history_buffer[q]]

(* Faulty: the duplicate stays where it is.                                *)
NotPromoted(s, dup_offset) == history_buffer

Promoted(s, dup_offset) == WrittenInFront(s, dup_offset)

(* Faulty: a push leaves the cursor on what may have been evicted.         *)
CursorKept == cursor

CursorAfterPush == HistoryLength

-----------------------------------------------------------------------------

Init ==
    /\ history_buffer = [q \in Index |-> NUL]
    /\ bytes_used = 0
    /\ cursor = HistoryLength

(* push() of an empty line returns at once and is not a step.  Case 1: the *)
(* line is the newest entry already.                                       *)
PushNewest(s) ==
    /\ s # <<>>
    /\ bytes_used > 0 /\ Matches(0, s)
    /\ cursor' = CursorAfterPush
    /\ UNCHANGED <<history_buffer, bytes_used>>

(* Case 2: it is an older entry, which moves to the front.                 *)
PushDuplicate(s) ==
    LET dup_offset == FindDuplicate(s) IN
    /\ s # <<>>
    /\ ~(bytes_used > 0 /\ Matches(0, s))
    /\ dup_offset # nullptr
    /\ history_buffer' = Promoted(s, dup_offset)
    /\ cursor' = CursorAfterPush
    /\ UNCHANGED bytes_used

(* Case 3: it is new.  Evictions are kept even when it fits nowhere, and   *)
(* then the cursor stays where it was.                                     *)
PushNew(s) ==
    LET need == EntrySize(s)
        used == UsedAfterEviction(need)
    IN
    /\ s # <<>>
    /\ FindDuplicate(s) = nullptr
    /\ IF NoRoom(used, need)
         THEN /\ bytes_used' = used
              /\ UNCHANGED <<history_buffer, cursor>>
         ELSE /\ history_buffer' = WrittenInFront(s, used)
              /\ bytes_used' = used + need
              /\ cursor' = CursorAfterPush

Push(s) == PushNewest(s) \/ PushDuplicate(s) \/ PushNew(s)

IsBrowsing == cursor # HistoryLength

(* Faulty: browsing starts from the oldest entry.                          *)
OldestFirst == count_entries - 1

NewestFirst == 0

Prev ==
    /\ count_entries # 0
    /\ IsBrowsing => cursor < count_entries - 1
    /\ cursor' = IF IsBrowsing THEN cursor + 1 ELSE NewestFirst
    /\ UNCHANGED <<history_buffer, bytes_used>>

NextNewer ==
    /\ IsBrowsing
    /\ cursor' = IF cursor > 0 THEN cursor - 1 ELSE HistoryLength
    /\ UNCHANGED <<history_buffer, bytes_used>>

CancelBrowsing ==
    /\ cursor' = HistoryLength
    /\ UNCHANGED <<history_buffer, bytes_used>>

Next ==
    \/ \E s \in Line : Push(s)
    \/ Prev
    \/ NextNewer
    \/ CancelBrowsing

Spec == Init /\ [][Next]_vars

-----------------------------------------------------------------------------

(* current(): the C string at the entry the cursor selects.                *)
CString(p) == [i \in 1..StrnLen(p) |-> history_buffer[p + i - 1]]

Current ==
    LET p == get_entry_ptr(IF IsBrowsing THEN cursor ELSE 0) IN
    IF bytes_used = 0 \/ p = nullptr THEN <<>> ELSE CString(p)

(* The entries the used bytes stand for.                                   *)
Entries ==
    LET from[p \in 0..BUFFER_SIZE] ==
          IF p >= bytes_used THEN <<>> ELSE <<CString(p)>> \o from[After(p)]
    IN  from[0]

List == INSTANCE HistoryList WITH history <- [entries |-> Entries, cursor |-> cursor]

TypeOK ==
    /\ history_buffer \in [Index -> Char \cup {NUL}]
    /\ bytes_used \in 0..BUFFER_SIZE
    /\ cursor \in 0..HistoryLength

(* The used bytes are whole entries end to end: memmove() and truncation   *)
(* never leave a gap, an empty entry or a fragment at which a walk would   *)
(* stop early (the class invariants of lishHistory.h:37-44).               *)
Packed ==
    /\ bytes_used > 0 => history_buffer[0] # NUL /\ history_buffer[bytes_used - 1] = NUL
    /\ \A q \in 1..(bytes_used - 1) :
            history_buffer[q - 1] = NUL => history_buffer[q] # NUL

(* Deduplication is total: however lines are interleaved and evicted, no   *)
(* two entries are the same line case aside (lishHistory.h:109-119).       *)
NoDuplicates ==
    LET es == Entries IN
    \A j, k \in 1..Len(es) : List!SameLine(es[j], es[k]) => j = k

(* While there are entries, a browsing cursor selects one of them, also    *)
(* after pushes that evicted entries, so current() never reads past the    *)
(* used bytes.                                                             *)
CursorSelectsEntry ==
    LET es == Entries IN
    bytes_used > 0 /\ IsBrowsing => cursor < Len(es) /\ Current = es[cursor + 1]

(* A recorded line becomes the newest entry, and the others keep their     *)
(* order and spelling: push() takes out an entry that is the same line, or *)
(* else evicts a suffix (lishHistory.h:39-41, 109-119).                    *)
PushKeepsOrder ==
    [][LET old == Entries  new == Entries' IN
       \A s \in Line : Push(s) /\ new # <<>> =>
          /\ List!SameLine(Head(new), s)
          /\ LET dups == List!Duplicates(old, s) IN
             IF dups = {}
               THEN \E k \in 0..Len(old) : Tail(new) = SubSeq(old, 1, k)
               ELSE \E j \in dups :
                       Tail(new) = SubSeq(old, 1, j - 1) \o SubSeq(old, j + 1, Len(old))]_vars

(* Promoting a duplicate evicts nothing, and an entry is evicted only when *)
(* it and everything newer would not fit beside the new line               *)
(* (lishHistory.h:115-119).                                                *)
EvictsOnlyForRoom ==
    [][LET old == Entries  new == Entries' IN
       \A s \in Line : Push(s) =>
          IF \E k \in 1..Len(old) : List!SameLine(old[k], s)
            THEN Len(new) = Len(old)
            ELSE Len(new) <= Len(old) =>
                   Len(s) + 1 + List!SizeOf(SubSeq(old, 1, Len(new))) > BUFFER_SIZE]_vars

(* The byte array is the list HistoryList promises, operation by operation.*)
ImplementsList == List!Spec

=============================================================================
