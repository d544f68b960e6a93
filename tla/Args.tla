-------------------------------- MODULE Args --------------------------------
(***************************************************************************)
(* lish::Args: the parser that cuts a command line into segments and       *)
(* tokens in place, by overwriting blanks, separators and quotes with NUL. *)
(* parse() is called once per segment with the offset the previous call    *)
(* returned; its loop is a scanner here, one action per kind of byte.      *)
(* Offsets are the code's, from 0.                                         *)
(***************************************************************************)
EXTENDS Naturals, Sequences, SequencesExt

CONSTANTS
    Text,       \* the lines that may be parsed, sequences of bytes
    Char,       \* the bytes of a line
    NUL         \* '\0', which also pads a caller's array

SingleQuote == "'"
DoubleQuote == "\""
Quote == {SingleQuote, DoubleQuote}

(* MaxLineLength and run_line()'s length are uint8_t.                      *)
ASSUME TextAssumption ==
    /\ Text \subseteq Seq(Char \cup {NUL})
    /\ \A t \in Text : Len(t) <= 255
ASSUME CharAssumption == NUL \notin Char /\ {" ", ";", "&"} \cup Quote \subseteq Char
ASSUME NulAssumption == NUL \notin {" ", ";", "&"} \cup Quote

VARIABLES
    text,           \* the line as submitted (to state properties)
    buffer,         \* buffer_: the same bytes, being overwritten
    slice_offset,   \* where the next call of parse() begins
    from,           \* where the last call began (to state properties)
    offset,         \* offset_: where its first token is
    arg_count, in_token,
    i,              \* the byte to be scanned next
    terminator      \* what the last call returned, or "Scanning"

vars == <<text, buffer, slice_offset, from, offset, arg_count, in_token, i, terminator>>

max_length == Len(text)

Index == 0..(max_length - 1)

Terminator == {"Semicolon", "LogicalAnd", "EndOfLine", "ParseError"}

-----------------------------------------------------------------------------

Init ==
    /\ text \in Text
    /\ buffer = [k \in Index |-> text[k + 1]]
    /\ slice_offset = 0 /\ from = 0 /\ offset = 0 /\ i = 0
    /\ arg_count = 0
    /\ in_token = FALSE
    /\ terminator = "None"

(* parse() is entered: at the start of the line, or after a separator.     *)
Parse ==
    /\ terminator \in {"None", "Semicolon", "LogicalAnd"}
    /\ from' = slice_offset
    /\ offset' = slice_offset
    /\ i' = slice_offset
    /\ arg_count' = 0
    /\ in_token' = FALSE
    /\ terminator' = IF slice_offset >= max_length THEN "EndOfLine" ELSE "Scanning"
    /\ UNCHANGED <<text, buffer, slice_offset>>

Scanning == terminator = "Scanning" /\ i < max_length

(* Faulty: the second & is not looked at.                                  *)
IsOneAnd(k) == k < max_length /\ buffer[k] = "&"

IsAnd(k) == k + 1 < max_length /\ buffer[k] = "&" /\ buffer[k + 1] = "&"

(* Faulty: the first token is looked for at the blank itself.              *)
NeverLeading == FALSE

(* No token of the segment has begun.                                      *)
Leading == ~in_token /\ arg_count = 0

(* Faulty: one byte too many.                                              *)
BytesAndNext(width) == i..(i + width)

Bytes(width) == i..(i + width - 1)

(* Faulty: also without a token.                                           *)
AlwaysEnds == arg_count >= 0

EndsSegment == arg_count > 0

Erased(ks) == [k \in Index |-> IF k \in ks THEN NUL ELSE buffer[k]]

ScanBlank ==
    /\ Scanning
    /\ buffer[i] = " "
    /\ buffer' = Erased({i})
    /\ offset' = IF Leading THEN i + 1 ELSE offset
    /\ in_token' = FALSE
    /\ i' = i + 1
    /\ UNCHANGED <<text, slice_offset, from, arg_count, terminator>>

(* A separator ends a segment that has a token; before that it is skipped. *)
Separator(width, kind) ==
    /\ buffer' = Erased(Bytes(width))
    /\ i' = i + width
    /\ in_token' = FALSE
    /\ IF EndsSegment
         THEN slice_offset' = i + width /\ terminator' = kind /\ UNCHANGED offset
         ELSE offset' = i + width /\ UNCHANGED <<slice_offset, terminator>>
    /\ UNCHANGED <<text, from, arg_count>>

ScanSemicolon == Scanning /\ buffer[i] = ";" /\ Separator(1, "Semicolon")

ScanAnd == Scanning /\ IsAnd(i) /\ Separator(2, "LogicalAnd")

EndAt(p) ==
    /\ slice_offset' = p
    /\ terminator' = "EndOfLine"
    /\ UNCHANGED <<text, buffer, from, offset, arg_count, in_token, i>>

ScanNul == Scanning /\ buffer[i] = NUL /\ EndAt(i)

(* Faulty: the end of the buffer is missed.                                *)
PastEndOfBuffer == terminator = "Scanning" /\ i > max_length /\ EndAt(max_length)

EndOfBuffer == terminator = "Scanning" /\ i >= max_length /\ EndAt(max_length)

(* What may follow a closing quote.                                        *)
EndsToken(k) ==
    \/ k >= max_length
    \/ k < max_length /\ buffer[k] \in {NUL, " ", ";"}
    \/ IsAnd(k)

(* The byte at j is the first that repeats the quote at i, nothing before  *)
(* it ends the line, and what follows it ends the token.                   *)
Closes(j) ==
    /\ buffer[j] = buffer[i]
    /\ \A k \in (i + 1)..(j - 1) : buffer[k] \notin {buffer[i], NUL}
    /\ EndsToken(j + 1)

ScanQuoted ==
    /\ Scanning
    /\ buffer[i] \in Quote /\ ~in_token
    /\ \E j \in (i + 1)..(max_length - 1) :
          /\ Closes(j)
          /\ buffer' = Erased({i, j})
          /\ i' = j + 1
    /\ arg_count' = arg_count + 1
    /\ in_token' = TRUE
    /\ UNCHANGED <<text, slice_offset, from, offset, terminator>>

RejectQuote ==
    /\ Scanning
    /\ buffer[i] \in Quote
    /\ in_token \/ ~ \E j \in (i + 1)..(max_length - 1) : Closes(j)
    /\ terminator' = "ParseError"
    /\ UNCHANGED <<text, buffer, slice_offset, from, offset, arg_count, in_token, i>>

ScanWord ==
    /\ Scanning
    /\ buffer[i] \notin {" ", ";", NUL} \cup Quote /\ ~IsAnd(i)
    /\ arg_count' = IF in_token THEN arg_count ELSE arg_count + 1
    /\ in_token' = TRUE
    /\ i' = i + 1
    /\ UNCHANGED <<text, buffer, slice_offset, from, offset, terminator>>

Scan ==
    \/ ScanBlank
    \/ ScanSemicolon
    \/ ScanAnd
    \/ ScanNul
    \/ EndOfBuffer
    \/ ScanQuoted
    \/ RejectQuote
    \/ ScanWord

Next == Parse \/ Scan

(* parse() is a loop the processor runs to its end, and dispatch_chain()   *)
(* calls it again as long as every segment succeeds.                       *)
Spec == Init /\ [][Next]_vars /\ WF_vars(Next)

-----------------------------------------------------------------------------
(* The accessors, on the bytes parse() left.                               *)

(* The C string at p; the byte after the line is a NUL.                    *)
CString(p) ==
    LET end[k \in p..max_length] ==
          IF k = max_length \/ buffer[k] = NUL THEN k ELSE end[k + 1]
    IN  [k \in 1..(end[p] - p) |-> buffer[p + k - 1]]

command == IF offset >= max_length THEN <<>> ELSE CString(offset)

count == IF arg_count > 0 THEN arg_count - 1 ELSE 0

(* Where the walk of operator[] sees a token begin: it goes from offset_   *)
(* to the end of the line, whatever the end of the segment is.             *)
TokenStarts ==
    {k \in offset..(max_length - 1) :
        buffer[k] # NUL /\ (k = offset \/ buffer[k - 1] = NUL)}

nullptr == 256

(* operator[], as an offset in the buffer: there are as many tokens before *)
(* the one it finds as the walk passes, the command among them.            *)
ArgAt(index) ==
    LET starts == TokenStarts
        found == {k \in starts : Cardinality({j \in starts : j < k}) = index + 1}
    IN  IF arg_count = 0 \/ index >= arg_count - 1 \/ found = {}
          THEN nullptr ELSE CHOOSE k \in found : TRUE

-----------------------------------------------------------------------------

L == INSTANCE CommandLine

TypeOK ==
    /\ text \in Text
    /\ buffer \in [Index -> Char \cup {NUL}]
    /\ slice_offset \in 0..max_length
    /\ from \in 0..max_length
    /\ offset \in 0..max_length
    /\ i \in 0..max_length
    /\ arg_count \in 0..max_length
    /\ in_token \in BOOLEAN
    /\ terminator \in Terminator \cup {"None", "Scanning"}

(* Parsing in place is safe for the segments still to come: nothing is     *)
(* written at or past the byte being scanned, nor past the end of a        *)
(* segment when its handler runs (lishShell.h:211-215 parses each segment  *)
(* only after the previous one was executed), and what is written is NUL.  *)
LaterSegmentsIntact ==
    \A k \in Index :
        /\ k >= i => buffer[k] = text[k + 1]
        /\ buffer[k] \in {text[k + 1], NUL}

(* The scan never falls behind the tokens it counted, and a call that ends *)
(* at a separator has found a token and moved past it: dispatch_chain()    *)
(* cannot be handed the same segment twice.                                *)
SeparatorsAdvance ==
    /\ from + arg_count <= i
    /\ terminator = "None" => i = 0 /\ slice_offset = 0
    /\ terminator \in {"Semicolon", "LogicalAnd"} =>
          arg_count > 0 /\ from < slice_offset /\ slice_offset = i

(* Token 0 of a segment as it is written, nothing if it has none.          *)
FirstToken(seg) == IF seg.tokens = <<>> THEN <<>> ELSE Head(seg.tokens)

QuotedFirst == L!IsQuoteAt(text, L!SegmentBegin(text, from))

(* Every call reports the segment as it is written: how it ends, where the *)
(* next one begins (or, malformed, where this one does), how many tokens   *)
(* it has (quoting rules and offset invariant of lishArgs.h:36-57); reads  *)
(* back the command, if it is not quoted, and the arguments, as long as no *)
(* token is empty.  Of a quoted command nothing is said: lishArgs.h:101-   *)
(* 102 has command() return it, the code returns an empty string.          *)
SegmentAsWritten ==
    LET seg == L!Segment(text, from)
        written == L!ArgumentsOf(text, from)
    IN
    /\ terminator \in Terminator => terminator = seg.kind
    /\ terminator = "ParseError" => slice_offset = from
    /\ terminator \in Terminator =>
          \A k \in from..(max_length - 1) :
              buffer[k] = IF k \in L!Erased(text, from) THEN NUL ELSE text[k + 1]
    /\ terminator \in Terminator \ {"ParseError"} =>
          /\ slice_offset = seg.next
          /\ arg_count = Len(seg.tokens)
          /\ ~QuotedFirst => command = FirstToken(seg)
          /\ (\A k \in 1..Len(seg.tokens) : seg.tokens[k] # <<>>) =>
                \A k \in 1..Len(written) :
                    ArgAt(k - 1) # nullptr /\ CString(ArgAt(k - 1)) = written[k]

(* Every line is parsed to its end or to a malformed argument.             *)
ParsingEnds == <>(terminator \in {"EndOfLine", "ParseError"})

=============================================================================
