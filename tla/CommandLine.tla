---------------------------- MODULE CommandLine ----------------------------
(***************************************************************************)
(* What a command line means: a chain of segments, each a sequence of      *)
(* tokens and the way it ends.  Args is the in-place parser that implements *)
(* this, Shell executes the segments.  A line is a sequence of bytes,      *)
(* offsets in it count from 0.                                             *)
(***************************************************************************)
EXTENDS Naturals, Sequences

CONSTANT NUL    \* pads a line that is shorter than the array it is in

Quotes == {"'", "\""}

Ends(t, k) == k >= Len(t) \/ t[k + 1] = NUL

IsBlankAt(t, k) == ~Ends(t, k) /\ t[k + 1] = " "

IsQuoteAt(t, k) == ~Ends(t, k) /\ t[k + 1] \in Quotes

SeparatorWidth(t, k) ==
    CASE ~Ends(t, k) /\ t[k + 1] = ";" -> 1
      [] ~Ends(t, k + 1) /\ ~Ends(t, k) /\ t[k + 1] = "&" /\ t[k + 2] = "&" -> 2
      [] OTHER -> 0

(* A token may end here: no part of one is written at k.                   *)
Breaks(t, k) == Ends(t, k) \/ IsBlankAt(t, k) \/ SeparatorWidth(t, k) > 0

(* Leading blanks and separators belong to no segment.                     *)
SegmentBegin(t, from) ==
    LET begin[k \in from..(Len(t) + 1)] ==
          IF IsBlankAt(t, k) THEN begin[k + 1]
          ELSE IF SeparatorWidth(t, k) > 0 THEN begin[k + SeparatorWidth(t, k)]
          ELSE k
    IN  begin[from]

QuotedToken(t, k, stop) ==
    [first |-> k + 1, text |-> SubSeq(t, k + 2, stop), next |-> stop + 1,
     wellFormed |-> ~Ends(t, stop) /\ Breaks(t, stop + 1)]

BareToken(t, k, stop) ==
    [first |-> k, text |-> SubSeq(t, k + 1, stop), next |-> stop,
     wellFormed |-> ~IsQuoteAt(t, stop)]

(* The token that starts at k.  A quote stands at the start of a token     *)
(* only, and its closing quote at the end of one.                          *)
Token(t, k) ==
    LET close[j \in Nat] == IF Ends(t, j) \/ t[j + 1] = t[k + 1] THEN j ELSE close[j + 1]
        break[j \in Nat] == IF Breaks(t, j) \/ IsQuoteAt(t, j) THEN j ELSE break[j + 1]
    IN  IF IsQuoteAt(t, k) THEN QuotedToken(t, k, close[k + 1]) ELSE BareToken(t, k, break[k + 1])

(* How the segment ends that begins at begin, and where the next one does; *)
(* if it is malformed, where the token is that cannot be read.             *)
Ending(t, begin) ==
    LET Behind(token, end, k) ==
          IF token.wellFormed THEN end[token.next] ELSE [kind |-> "ParseError", next |-> k]
        end[k \in 0..Len(t)] ==
          CASE Ends(t, k) -> [kind |-> "EndOfLine", next |-> k]
            [] IsBlankAt(t, k) -> end[k + 1]
            [] SeparatorWidth(t, k) = 1 -> [kind |-> "Semicolon", next |-> k + 1]
            [] SeparatorWidth(t, k) = 2 -> [kind |-> "LogicalAnd", next |-> k + 2]
            [] OTHER -> Behind(Token(t, k), end, k)
    IN  end[begin]

(* The tokens of a segment, up to one that is malformed.                   *)
Tokens(t, begin) ==
    LET Onwards(token, read) ==
          IF token.wellFormed THEN <<token>> \o read[token.next] ELSE <<>>
        read[k \in 0..Len(t)] ==
          CASE IsBlankAt(t, k) -> read[k + 1]
            [] Ends(t, k) \/ SeparatorWidth(t, k) > 0 -> <<>>
            [] OTHER -> Onwards(Token(t, k), read)
    IN  read[begin]

SegmentWith(ending, tokens) ==
    [kind |-> ending.kind, next |-> ending.next,
     tokens |-> IF ending.kind = "ParseError" THEN <<>>
                ELSE [i \in 1..Len(tokens) |-> tokens[i].text]]

Segment(t, from) ==
    LET Begun(begin) == SegmentWith(Ending(t, begin), Tokens(t, begin)) IN
    Begun(IF from > Len(t) THEN Len(t) ELSE SegmentBegin(t, from))

(* The command of a segment is its first token when that is a bare word;   *)
(* quoted, it names no command.                                            *)
CommandOf(t, from) ==
    LET FirstOf(tokens) ==
          IF tokens = <<>> \/ IsQuoteAt(t, SegmentBegin(t, from)) THEN <<>> ELSE Head(tokens)
    IN  FirstOf(Segment(t, from).tokens)

ArgumentsOf(t, from) ==
    LET RestOf(tokens) == IF tokens = <<>> THEN <<>> ELSE Tail(tokens) IN
    RestOf(Segment(t, from).tokens)

(* Parsing the segment overwrites what is in no token: its blanks, its     *)
(* separators and those before it, and its tokens' quotes.                 *)
Erased(t, from) ==
    LET Kept(token) == token.first..(token.first + Len(token.text) - 1)
        Between(last, tokens) ==
          (from..last) \ UNION {Kept(tokens[i]) : i \in 1..Len(tokens)}
        Begun(begin) == Between(Ending(t, begin).next - 1, Tokens(t, begin))
    IN  Begun(SegmentBegin(t, from))

(* The line as a whole: what there is to execute, in order.                *)
Segments(t) ==
    LET Reported(seg, command, args) == [kind |-> seg.kind, command |-> command, args |-> args]
        AndNext(this, next, from) ==
          <<this>> \o IF this.kind \in {"EndOfLine", "ParseError"} THEN <<>> ELSE from[next]
        from[k \in 0..Len(t)] ==
          AndNext(Reported(Segment(t, k), CommandOf(t, k), ArgumentsOf(t, k)),
                  Segment(t, k).next, from)
    IN  from[0]

=============================================================================
