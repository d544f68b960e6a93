----------------------------- MODULE ArgsProofs -----------------------------
(***************************************************************************)
(* The parser of Args stays inside the line, leaves the segments still to  *)
(* come as they were, and reports each segment as it is written, for every *)
(* line.  What a segment is read to be is in ScanFacts.                    *)
(***************************************************************************)
EXTENDS Args, SequenceTheorems, FunctionTheorems, FiniteSetTheorems, TLAPS

Facts == INSTANCE ScanFacts

IInv == TypeOK /\ LaterSegmentsIntact /\ SeparatorsAdvance

(* The length of a line, and so the index set of the buffer, is sensible.  *)
LEMMA LengthIsNat == text \in Text => max_length \in Nat /\ text \in Seq(Char \cup {NUL})
BY TextAssumption DEF max_length

(* The fresh parser satisfies the invariant.                               *)
LEMMA InitInv == Init => IInv
<1> SUFFICES ASSUME Init PROVE IInv
  OBVIOUS
<1> USE LengthIsNat DEF Init
<1>1. max_length \in Nat /\ text \in Seq(Char \cup {NUL}) /\ Len(text) = max_length
  BY DEF max_length
<1>2. buffer \in [Index -> Char \cup {NUL}]
  BY <1>1 DEF Index
<1>3. in_token \in BOOLEAN
  OBVIOUS
<1> HIDE DEF Init
<1>5. text \in Text /\ slice_offset = 0 /\ from = 0 /\ offset = 0 /\ i = 0
      /\ arg_count = 0 /\ terminator = "None"
  BY DEF Init
<1>6. TypeOK
  BY <1>1, <1>2, <1>3, <1>5 DEF TypeOK
<1>4. LaterSegmentsIntact /\ SeparatorsAdvance
  BY <1>1, <1>5 DEF LaterSegmentsIntact, SeparatorsAdvance, Index, Init
<1> QED
  BY <1>6, <1>4 DEF IInv

(* Erasing bytes before p keeps the invariant's view of the buffer at p.   *)
LEMMA EraseBefore ==
    ASSUME IInv, NEW ks, NEW p \in 0..max_length, i <= p,
           \A k \in ks : k < p
    PROVE  /\ Erased(ks) \in [Index -> Char \cup {NUL}]
           /\ \A k \in Index : /\ k >= p => Erased(ks)[k] = text[k + 1]
                               /\ Erased(ks)[k] \in {text[k + 1], NUL}
<1>1. max_length \in Nat
  BY LengthIsNat DEF IInv, TypeOK
<1>2. Erased(ks) \in [Index -> Char \cup {NUL}]
  BY DEF Erased, IInv, TypeOK
<1>3. ASSUME NEW k \in Index
      PROVE  /\ k >= p => Erased(ks)[k] = text[k + 1]
             /\ Erased(ks)[k] \in {text[k + 1], NUL}
  BY <1>1, <1>3 DEF Erased, IInv, TypeOK, LaterSegmentsIntact, Index
<1> QED
  BY <1>2, <1>3

(* Each kind of byte, and each call, preserves the invariant.              *)
LEMMA NextInv == IInv /\ [Next]_vars => IInv'
<1> SUFFICES ASSUME IInv, [Next]_vars PROVE IInv'
  OBVIOUS
<1>0. max_length \in Nat
  BY LengthIsNat DEF IInv, TypeOK
<1>a. /\ text \in Text /\ buffer \in [Index -> Char \cup {NUL}]
      /\ slice_offset \in 0..max_length /\ from \in 0..max_length
      /\ offset \in 0..max_length /\ i \in 0..max_length
      /\ arg_count \in 0..max_length
  BY DEF IInv, TypeOK
<1>b. /\ from + arg_count <= i
      /\ terminator = "None" => i = 0 /\ slice_offset = 0
      /\ terminator \in {"Semicolon", "LogicalAnd"} =>
            arg_count > 0 /\ from < slice_offset /\ slice_offset = i
  BY DEF IInv, SeparatorsAdvance
<1>1. CASE UNCHANGED vars
  BY <1>1 DEF vars, IInv, TypeOK, SeparatorsAdvance, LaterSegmentsIntact, max_length, Index
<1>2. CASE Parse
  <2>1. text' = text /\ buffer' = buffer /\ max_length' = max_length /\ Index' = Index
    BY <1>2 DEF Parse, max_length, Index
  <2>2. from' = slice_offset /\ offset' = slice_offset /\ i' = slice_offset
        /\ slice_offset' = slice_offset /\ arg_count' = 0
    BY <1>2 DEF Parse
  <2>i. i' = i
    BY <1>2, <1>b, <2>2 DEF Parse
  <2>3. in_token' \in BOOLEAN
    BY <1>2 DEF Parse
  <2>4. terminator' \in {"EndOfLine", "Scanning"}
    BY <1>2 DEF Parse
  <2>5. TypeOK'
    BY <1>0, <1>a, <2>1, <2>2, <2>3, <2>4 DEF TypeOK, Terminator
  <2>6. LaterSegmentsIntact'
    BY <2>1, <2>i DEF IInv, LaterSegmentsIntact
  <2>7. SeparatorsAdvance'
    BY <1>0, <1>a, <2>2, <2>4 DEF SeparatorsAdvance
  <2> QED
    BY <2>5, <2>6, <2>7 DEF IInv
<1>3. CASE ScanBlank
  <2>1. text' = text /\ max_length' = max_length /\ Index' = Index
    BY <1>3 DEF ScanBlank, max_length, Index
  <2>2. i < max_length /\ terminator = "Scanning"
    BY <1>3 DEF ScanBlank, Scanning
  <2>3. i + 1 \in 0..max_length /\ i <= i + 1 /\ \A k \in {i} : k < i + 1
    BY <1>0, <1>a, <2>2
  <2>4. buffer' = Erased({i}) /\ i' = i + 1 /\ slice_offset' = slice_offset
        /\ from' = from /\ arg_count' = arg_count /\ terminator' = terminator
    BY <1>3 DEF ScanBlank
  <2>5. offset' = i + 1 \/ offset' = offset
    BY <1>3 DEF ScanBlank, Leading
  <2>6. in_token' \in BOOLEAN
    BY <1>3 DEF ScanBlank
  <2>7. buffer' \in [Index -> Char \cup {NUL}] /\ LaterSegmentsIntact'
    BY <2>1, <2>3, <2>4, EraseBefore DEF LaterSegmentsIntact
  <2>8. TypeOK'
    BY <1>0, <1>a, <2>1, <2>2, <2>3, <2>4, <2>5, <2>6, <2>7 DEF TypeOK
  <2>9. SeparatorsAdvance'
    BY <1>0, <1>a, <1>b, <2>2, <2>4 DEF SeparatorsAdvance
  <2> QED
    BY <2>7, <2>8, <2>9 DEF IInv
<1>4. ASSUME NEW width \in {1, 2}, NEW kind \in {"Semicolon", "LogicalAnd"},
             Scanning, i + width <= max_length, Separator(width, kind)
      PROVE  IInv'
  <2>1. text' = text /\ max_length' = max_length /\ Index' = Index
    BY <1>4 DEF Separator, max_length, Index
  <2>2. terminator = "Scanning" /\ width \in Nat /\ width > 0
    BY <1>4 DEF Scanning
  <2>3. i + width \in 0..max_length /\ i <= i + width
        /\ \A k \in i..(i + width - 1) : k < i + width
    BY <1>0, <1>a, <1>4, <2>2
  <2>4. buffer' = Erased(i..(i + width - 1)) /\ i' = i + width
        /\ from' = from /\ arg_count' = arg_count
    BY <1>4 DEF Separator, Bytes
  <2>5. \/ arg_count > 0 /\ slice_offset' = i + width /\ terminator' = kind /\ offset' = offset
        \/ offset' = i + width /\ slice_offset' = slice_offset /\ terminator' = terminator
    BY <1>4 DEF Separator, EndsSegment
  <2>6. in_token' \in BOOLEAN
    BY <1>4 DEF Separator
  <2>7. buffer' \in [Index -> Char \cup {NUL}] /\ LaterSegmentsIntact'
    BY <2>1, <2>3, <2>4, EraseBefore DEF LaterSegmentsIntact
  <2>8. TypeOK'
    BY <1>0, <1>a, <2>1, <2>2, <2>3, <2>4, <2>5, <2>6, <2>7 DEF TypeOK, Terminator
  <2>9. SeparatorsAdvance'
    BY <1>0, <1>a, <1>b, <2>2, <2>3, <2>4, <2>5 DEF SeparatorsAdvance
  <2> QED
    BY <2>7, <2>8, <2>9 DEF IInv
<1>5. CASE ScanSemicolon
  <2>1. Scanning /\ Separator(1, "Semicolon")
    BY <1>5 DEF ScanSemicolon
  <2>2. i + 1 <= max_length
    BY <1>0, <1>a, <2>1 DEF Scanning
  <2> QED
    BY <1>4, <2>1, <2>2
<1>6. CASE ScanAnd
  <2>1. Scanning /\ Separator(2, "LogicalAnd")
    BY <1>6 DEF ScanAnd
  <2>2. i + 2 <= max_length
    BY <1>0, <1>a, <1>6 DEF ScanAnd, IsAnd
  <2> QED
    BY <1>4, <2>1, <2>2
<1>7. ASSUME terminator = "Scanning", NEW p \in 0..max_length,
             UNCHANGED <<text, buffer, from, offset, arg_count, in_token, i>>,
             slice_offset' = p, terminator' \in {"EndOfLine", "ParseError"}
      PROVE  IInv'
  <2>1. max_length' = max_length /\ Index' = Index
    BY <1>7 DEF max_length, Index
  <2>2. in_token' \in BOOLEAN
    BY <1>7 DEF IInv, TypeOK
  <2>3. TypeOK'
    BY <1>0, <1>a, <1>7, <2>1, <2>2 DEF TypeOK, Terminator
  <2>4. LaterSegmentsIntact'
    BY <1>7, <2>1 DEF IInv, LaterSegmentsIntact
  <2>5. SeparatorsAdvance'
    BY <1>b, <1>7 DEF SeparatorsAdvance
  <2> QED
    BY <2>3, <2>4, <2>5 DEF IInv
<1>8. CASE ScanNul
  BY <1>a, <1>7, <1>8 DEF ScanNul, EndAt, Scanning
<1>9. CASE EndOfBuffer
  BY <1>0, <1>7, <1>9 DEF EndOfBuffer, EndAt
<1>10. CASE ScanQuoted
  <2>1. PICK j \in (i + 1)..(max_length - 1) :
            buffer' = Erased({i, j}) /\ i' = j + 1
    BY <1>10 DEF ScanQuoted
  <2>2. text' = text /\ max_length' = max_length /\ Index' = Index
    BY <1>10 DEF ScanQuoted, max_length, Index
  <2>3. j + 1 \in 0..max_length /\ i <= j + 1 /\ \A k \in {i, j} : k < j + 1
    BY <1>0, <1>a, <2>1
  <2>4. terminator = "Scanning" /\ terminator' = terminator /\ slice_offset' = slice_offset
        /\ from' = from /\ offset' = offset /\ arg_count' = arg_count + 1
    BY <1>10 DEF ScanQuoted, Scanning
  <2>5. in_token' \in BOOLEAN
    BY <1>10 DEF ScanQuoted
  <2>6. buffer' \in [Index -> Char \cup {NUL}] /\ LaterSegmentsIntact'
    BY <2>1, <2>2, <2>3, EraseBefore DEF LaterSegmentsIntact
  <2>7. from + arg_count + 1 <= j + 1
    BY <1>0, <1>a, <1>b, <2>1
  <2>8. TypeOK'
    BY <1>0, <1>a, <2>1, <2>2, <2>3, <2>4, <2>5, <2>6, <2>7 DEF TypeOK
  <2>9. SeparatorsAdvance'
    BY <1>0, <1>a, <2>1, <2>4, <2>7 DEF SeparatorsAdvance
  <2> QED
    BY <2>6, <2>8, <2>9 DEF IInv
<1>11. CASE RejectQuote
  BY <1>a, <1>7, <1>11 DEF RejectQuote, Scanning
<1>12. CASE ScanWord
  <2>1. text' = text /\ buffer' = buffer /\ max_length' = max_length /\ Index' = Index
    BY <1>12 DEF ScanWord, max_length, Index
  <2>2. terminator = "Scanning" /\ terminator' = terminator /\ i < max_length /\ i' = i + 1
        /\ slice_offset' = slice_offset /\ from' = from /\ offset' = offset
    BY <1>12 DEF ScanWord, Scanning
  <2>3. arg_count' = arg_count \/ arg_count' = arg_count + 1
    BY <1>12 DEF ScanWord
  <2>4. in_token' \in BOOLEAN
    BY <1>12 DEF ScanWord
  <2>5. TypeOK'
    BY <1>0, <1>a, <1>b, <2>1, <2>2, <2>3, <2>4 DEF TypeOK
  <2>6. LaterSegmentsIntact'
    BY <1>0, <1>a, <2>1, <2>2 DEF IInv, LaterSegmentsIntact, Index
  <2>7. SeparatorsAdvance'
    BY <1>0, <1>a, <1>b, <2>2, <2>3 DEF SeparatorsAdvance
  <2> QED
    BY <2>5, <2>6, <2>7 DEF IInv
<1> QED
  BY <1>1, <1>2, <1>3, <1>5, <1>6, <1>8, <1>9, <1>10, <1>11, <1>12 DEF Next, Scan

(* Whatever the line, parsing it in place never writes at or past the      *)
(* byte it scans, so a handler that runs between two calls of parse()      *)
(* finds, and leaves, the later segments as they were submitted.           *)
THEOREM ParserKeepsLaterSegments == Spec => [](TypeOK /\ LaterSegmentsIntact)
<1>1. Init => IInv
  BY InitInv
<1>2. IInv /\ [Next]_vars => IInv'
  BY NextInv
<1>3. IInv => TypeOK /\ LaterSegmentsIntact
  BY DEF IInv
<1> QED
  BY <1>1, <1>2, <1>3, PTL DEF Spec

(* Whatever line is parsed, every offset and the number of arguments stay  *)
(* within its length, which run_line() has in a byte.                      *)
THEOREM ParserTypeCorrect == Spec => []TypeOK
<1>1. IInv => TypeOK
  BY DEF IInv
<1> QED
  BY <1>1, InitInv, NextInv, PTL DEF Spec

(* A call that ends at a separator consumed at least one byte and found at *)
(* least one token, for every line: the chain loop makes progress.         *)
THEOREM ParserAdvances == Spec => []SeparatorsAdvance
<1>1. IInv => SeparatorsAdvance
  BY DEF IInv
<1> QED
  BY <1>1, InitInv, NextInv, PTL DEF Spec

-----------------------------------------------------------------------------
(* What every call of parse() reports.                                     *)

(* What ScanFacts calls the segments of a line are those of the line.      *)
LEMMA SameSegments ==
    /\ L!Segment(text, from) = Facts!Segment(text, from)
    /\ L!Erased(text, from) = Facts!Erased(text, from)
    /\ L!SegmentBegin(text, from) = Facts!SegmentBegin(text, from)
    /\ \A k : L!IsQuoteAt(text, k) <=> Facts!IsQuoteAt(text, k)
<1>1. L!Segment(text, from) = Facts!Segment(text, from)
  BY ZenonT(60) DEF L!Segment, Facts!Segment, L!SegmentWith, Facts!SegmentWith, L!Ending, Facts!Ending,
         L!Tokens, Facts!Tokens, L!Token, Facts!Token, L!QuotedToken, Facts!QuotedToken,
         L!BareToken, Facts!BareToken, L!Breaks, Facts!Breaks, L!IsQuoteAt, Facts!IsQuoteAt,
         L!Quotes, Facts!Quotes, L!SegmentBegin, Facts!SegmentBegin, L!IsBlankAt,
         Facts!IsBlankAt, L!Ends, Facts!Ends, L!SeparatorWidth, Facts!SeparatorWidth
<1>2. L!Erased(text, from) = Facts!Erased(text, from)
  BY DEF L!Erased, Facts!Erased, L!Ending, Facts!Ending,
         L!Tokens, Facts!Tokens, L!Token, Facts!Token, L!QuotedToken, Facts!QuotedToken,
         L!BareToken, Facts!BareToken, L!Breaks, Facts!Breaks, L!IsQuoteAt, Facts!IsQuoteAt,
         L!Quotes, Facts!Quotes, L!SegmentBegin, Facts!SegmentBegin, L!IsBlankAt,
         Facts!IsBlankAt, L!Ends, Facts!Ends, L!SeparatorWidth, Facts!SeparatorWidth
<1>3. L!SegmentBegin(text, from) = Facts!SegmentBegin(text, from)
  BY DEF L!SegmentBegin, Facts!SegmentBegin, L!IsBlankAt, Facts!IsBlankAt, L!Ends, Facts!Ends,
         L!SeparatorWidth, Facts!SeparatorWidth
<1>4. \A k : L!IsQuoteAt(text, k) <=> Facts!IsQuoteAt(text, k)
  BY DEF L!IsQuoteAt, Facts!IsQuoteAt, L!Quotes, Facts!Quotes, L!Ends, Facts!Ends
<1> QED
  BY <1>1, <1>2, <1>3, <1>4

(* What has not been scanned is read in the buffer as it is written.       *)
LEMMA ByteIs ==
    ASSUME IInv, NEW k \in Nat, i <= k
    PROVE  /\ Facts!Ends(text, k) <=> k >= max_length \/ (k < max_length /\ buffer[k] = NUL)
           /\ Facts!IsBlankAt(text, k) <=> k < max_length /\ buffer[k] = " "
           /\ Facts!SeparatorWidth(text, k) = 1 <=> k < max_length /\ buffer[k] = ";"
           /\ Facts!SeparatorWidth(text, k) = 2 <=> IsAnd(k)
           /\ Facts!IsQuoteAt(text, k) <=> k < max_length /\ buffer[k] \in Quote
           /\ Facts!SeparatorWidth(text, k) \in {0, 1, 2}
           /\ k < max_length => buffer[k] = text[k + 1]
<1>1. max_length \in Nat /\ max_length = Len(text) /\ i \in Nat
  BY LengthIsNat DEF IInv, TypeOK, max_length
<1>2. ASSUME NEW j \in Nat, i <= j, j < max_length
      PROVE  buffer[j] = text[j + 1]
  <2>1. j \in Index
    BY <1>1, <1>2 DEF Index
  <2> QED
    BY <1>2, <2>1 DEF IInv, LaterSegmentsIntact
<1>3. ASSUME NEW j \in Nat, i <= j
      PROVE  Facts!Ends(text, j) <=> j >= max_length \/ (j < max_length /\ buffer[j] = NUL)
  <2>1. j >= max_length \/ j < max_length
    BY <1>1
  <2>2. j < max_length => buffer[j] = text[j + 1]
    BY <1>2, <1>3
  <2> QED
    BY <1>1, <2>1, <2>2 DEF Facts!Ends
<1>4. k + 1 \in Nat /\ i <= k + 1 /\ (k + 1) + 1 = k + 2 /\ (~(k >= max_length) <=> k < max_length)
      /\ (~(k + 1 >= max_length) <=> k + 1 < max_length)
      /\ (k + 1 < max_length => k < max_length)
  BY <1>1
<1>5. /\ Facts!Ends(text, k) <=> k >= max_length \/ (k < max_length /\ buffer[k] = NUL)
      /\ Facts!Ends(text, k + 1) <=>
            k + 1 >= max_length \/ (k + 1 < max_length /\ buffer[k + 1] = NUL)
      /\ k < max_length => buffer[k] = text[k + 1]
      /\ k + 1 < max_length => buffer[k + 1] = text[k + 2]
  <2>1. Facts!Ends(text, k) <=> k >= max_length \/ (k < max_length /\ buffer[k] = NUL)
    BY <1>3
  <2>2. Facts!Ends(text, k + 1) <=>
            k + 1 >= max_length \/ (k + 1 < max_length /\ buffer[k + 1] = NUL)
    BY <1>3, <1>4
  <2>3. k < max_length => buffer[k] = text[k + 1]
    BY <1>2
  <2>4. k + 1 < max_length => buffer[k + 1] = text[(k + 1) + 1]
    BY <1>2, <1>4
  <2> QED
    BY <1>4, <2>1, <2>2, <2>3, <2>4
<1>6. /\ Facts!SeparatorWidth(text, k) = 1 <=> ~Facts!Ends(text, k) /\ text[k + 1] = ";"
      /\ Facts!SeparatorWidth(text, k) = 2 <=>
            ~Facts!Ends(text, k + 1) /\ ~Facts!Ends(text, k) /\ text[k + 1] = "&" /\ text[k + 2] = "&"
      /\ Facts!IsBlankAt(text, k) <=> ~Facts!Ends(text, k) /\ text[k + 1] = " "
  BY Facts!OneKind
<1>7. /\ NUL # " " /\ NUL # ";" /\ NUL # "&" /\ NUL # SingleQuote /\ NUL # DoubleQuote
  BY NulAssumption, Zenon DEF Quote
<1>8. Facts!IsBlankAt(text, k) <=> k < max_length /\ buffer[k] = " "
  BY <1>4, <1>5, <1>6, <1>7, Zenon
<1>9. Facts!SeparatorWidth(text, k) = 1 <=> k < max_length /\ buffer[k] = ";"
  BY <1>4, <1>5, <1>6, <1>7, Zenon
<1>10. Facts!SeparatorWidth(text, k) = 2 <=> IsAnd(k)
  BY <1>4, <1>5, <1>6, <1>7, Zenon DEF IsAnd
<1>11. Facts!IsQuoteAt(text, k) <=> k < max_length /\ buffer[k] \in Quote
  BY <1>4, <1>5, <1>7, Zenon DEF Facts!IsQuoteAt, Facts!Quotes, Quote, SingleQuote, DoubleQuote
<1>12. Facts!SeparatorWidth(text, k) \in {0, 1, 2}
  BY <1>1, Facts!BytesInLine
<1> QED
  BY <1>5, <1>8, <1>9, <1>10, <1>11, <1>12, Zenon

(* A call has read the tokens of d up to r.                                *)
ReadTo(d, r) ==
    /\ Facts!SegmentBegin(text, from) = offset
    /\ Facts!Reads(d, text, from, offset, r, buffer)

(* The scanner is before the segment's first token, between two tokens or  *)
(* at the end of one, or in a bare one that begins at r.                   *)
Leads ==
    /\ arg_count = 0 /\ ~in_token /\ offset = i /\ from <= i
    /\ Facts!SegmentBegin(text, from) = Facts!SegmentBegin(text, i)
    /\ \A k \in from..(i - 1) : buffer[k] = NUL

Between ==
    /\ arg_count > 0 /\ (in_token => Facts!Breaks(text, i))
    /\ \E d : ReadTo(d, i) /\ arg_count = Len(d)

InWord ==
    /\ arg_count > 0 /\ in_token
    /\ \E r \in from..(i - 1) :
          /\ \E d : ReadTo(d, r) /\ arg_count = Len(d) + 1
          /\ \A k \in r..(i - 1) : k \notin Facts!Breaking(text) /\ buffer[k] = text[k + 1]

(* The call has returned: the segment was read to its end, or up to a      *)
(* token that is malformed.                                                *)
Over(begin, next) ==
    LET d == Facts!Tokens(text, begin) IN
    /\ begin = Facts!SegmentBegin(text, from)
    /\ Facts!Ending(text, begin).kind = terminator /\ Facts!Ending(text, begin).next = next
    /\ Facts!Leaves(d, text, from, next, buffer)
    /\ terminator = "ParseError" => slice_offset = from
    /\ terminator # "ParseError" =>
          /\ Facts!WasRead(d, text, from, begin, next, buffer)
          /\ slice_offset = next /\ offset = begin /\ arg_count = Len(d)
          /\ arg_count = 0 => Facts!Ends(text, begin)

PInv ==
    /\ terminator = "Scanning" => slice_offset = from /\ (Leads \/ Between \/ InWord)
    /\ terminator \in Terminator => \E begin : \E next : Over(begin, next)

LEMMA Typed ==
    ASSUME IInv
    PROVE  /\ text \in Seq(Char \cup {NUL}) /\ max_length = Len(text) /\ max_length \in Nat
           /\ i \in Nat /\ i <= max_length /\ from \in Nat /\ from <= i
           /\ offset \in Nat /\ arg_count \in Nat /\ in_token \in BOOLEAN
           /\ slice_offset \in Nat /\ slice_offset <= max_length
<1>1. /\ text \in Seq(Char \cup {NUL}) /\ max_length = Len(text) /\ max_length \in Nat
  BY LengthIsNat DEF IInv, TypeOK, max_length
<1>2. /\ i \in 0..max_length /\ from \in 0..max_length /\ offset \in 0..max_length
      /\ slice_offset \in 0..max_length
      /\ arg_count \in 0..max_length /\ in_token \in BOOLEAN /\ from + arg_count <= i
  BY DEF IInv, TypeOK, SeparatorsAdvance
<1> QED
  BY <1>1, <1>2

(* Where no token is being read, or one ends, everything before is read.   *)
LEMMA ReadHere ==
    ASSUME IInv,
           \/ Leads /\ ~Facts!IsLeading(text, i)
           \/ Between
           \/ InWord /\ Facts!Breaks(text, i)
    PROVE  \E d : ReadTo(d, i) /\ arg_count = Len(d)
<1>0. /\ text \in Seq(Char \cup {NUL}) /\ max_length = Len(text) /\ max_length \in Nat
      /\ i \in Nat /\ i <= max_length /\ from \in Nat /\ from <= i /\ arg_count \in Nat
  BY Typed
<1>1. CASE Leads /\ ~Facts!IsLeading(text, i)
  <2>1. Facts!SegmentBegin(text, i) = i
    BY <1>0, <1>1, Facts!SegmentBeginUnfolds
  <2>2. /\ offset = i /\ arg_count = 0 /\ Facts!SegmentBegin(text, from) = offset
        /\ \A k \in from..(i - 1) : buffer[k] = NUL
    BY <1>1, <2>1 DEF Leads
  <2>3. i \in from..Len(text)
    BY <1>0
  <2>4. Facts!Reads(<<>>, text, from, i, i, buffer)
    BY <1>0, <2>2, <2>3, Facts!NothingRead
  <2>5. Len(<<>>) = 0
    OBVIOUS
  <2> QED
    BY <2>2, <2>4, <2>5 DEF ReadTo
<1>2. CASE Between
  BY <1>2 DEF Between
<1>3. CASE InWord /\ Facts!Breaks(text, i)
  <2>1. PICK r \in from..(i - 1) :
          /\ \E d : ReadTo(d, r) /\ arg_count = Len(d) + 1
          /\ \A k \in r..(i - 1) : k \notin Facts!Breaking(text) /\ buffer[k] = text[k + 1]
    BY <1>3 DEF InWord
  <2>2. PICK d : ReadTo(d, r) /\ arg_count = Len(d) + 1
    BY <2>1
  <2>3. r \in Nat /\ r < i /\ from <= r /\ r < Len(text) /\ r \in r..(i - 1)
        /\ r \in 0..Len(text) /\ i \in (r + 1)..Len(text)
    BY <1>0, <2>1
  <2>4. ~Facts!Breaks(text, r) /\ ~Facts!IsQuoteAt(text, r)
    BY <2>1, <2>3 DEF Facts!Breaking
  <2>5. ~Facts!IsQuoteAt(text, i)
    BY <1>0, <1>3, Facts!QuoteBreaksNot
  <2>6. Facts!IsFirst(i, r + 1, Len(text), Facts!Breaking(text))
    <3>1. i \in Facts!Breaking(text)
      BY <1>0, <1>3 DEF Facts!Breaking
    <3>2. \A j \in (r + 1)..(i - 1) : j \in r..(i - 1)
      BY <2>3
    <3> QED
      BY <2>1, <2>3, <3>1, <3>2 DEF Facts!IsFirst
  <2>7. Facts!Token(text, r) = Facts!BareToken(text, r, i)
    BY <1>0, <2>3, <2>4, <2>6, Facts!BareIs
  <2>8. PICK token : token = Facts!Token(text, r) /\ token = Facts!BareToken(text, r, i)
    BY <2>7
  <2>9. /\ token.next = i /\ Facts!KeptBytes(token) = r..(i - 1) /\ token.wellFormed
    BY <1>0, <2>3, <2>5, <2>8, Facts!BareParts
  <2>10. Facts!Reads(Append(d, token), text, from, offset, i, buffer)
    <3>1. Facts!Reads(d, text, from, offset, r, buffer)
      BY <2>2 DEF ReadTo
    <3>2. /\ i = Facts!Token(text, r).next /\ Facts!Token(text, r).wellFormed
          /\ Facts!KeptBytes(Facts!Token(text, r)) = r..(i - 1)
      BY <2>8, <2>9
    <3>3. \A k \in r..(i - 1) : buffer[k] = IF k \in Facts!KeptBytes(Facts!Token(text, r))
                                            THEN text[k + 1] ELSE NUL
      BY <2>1, <3>2
    <3>4. Facts!Reads(Append(d, Facts!Token(text, r)), text, from, offset, i, buffer)
      BY <1>0, <2>4, <3>1, <3>2, <3>3, Facts!ReadsToken
    <3> QED
      BY <2>8, <3>4
  <2>11. Len(Append(d, token)) = Len(d) + 1
    <3>1. PICK S : d \in Seq(S)
      BY <2>2 DEF ReadTo, Facts!Reads
    <3> QED
      BY <3>1
  <2>12. ReadTo(Append(d, token), i)
    BY <2>2, <2>10 DEF ReadTo
  <2> QED
    BY <2>2, <2>11, <2>12
<1> QED
  BY <1>1, <1>2, <1>3

(* What a segment's end leaves: the bytes before it as they were, those of *)
(* a separator overwritten, those behind it as written.                    *)
Ended(c, next) ==
    /\ \A k \in from..(i - 1) : c[k] = buffer[k]
    /\ \A k \in i..(next - 1) : c[k] = NUL
    /\ \A k \in next..(max_length - 1) : c[k] = text[k + 1]

LEMMA EndReads ==
    ASSUME IInv, PInv, terminator = "Scanning",
           arg_count = 0 => Facts!Ends(text, i),
           Facts!Ends(text, i) \/ Facts!SeparatorWidth(text, i) > 0,
           NEW next \in i..Len(text), Facts!Ending(text, i).next = next,
           NEW kind, Facts!Ending(text, i).kind = kind, kind # "ParseError",
           text' = text, from' = from, offset' = offset, arg_count' = arg_count,
           slice_offset' = next, terminator' = kind, Ended(buffer', next)
    PROVE  PInv'
<1>0. /\ text \in Seq(Char \cup {NUL}) /\ max_length = Len(text) /\ max_length \in Nat
      /\ i \in Nat /\ i <= max_length /\ from \in Nat /\ from <= i /\ arg_count \in Nat
  BY Typed
<1>1. Facts!Breaks(text, i)
  BY DEF Facts!Breaks
<1>2. Leads => ~Facts!IsLeading(text, i)
  <2> SUFFICES ASSUME Leads PROVE ~Facts!IsLeading(text, i)
    OBVIOUS
  <2>1. Facts!Ends(text, i)
    BY DEF Leads
  <2>2. ~Facts!IsBlankAt(text, i)
    BY <2>1 DEF Facts!IsBlankAt
  <2>3. Facts!SeparatorWidth(text, i) # 1 /\ Facts!SeparatorWidth(text, i) # 2
    BY <2>1, Facts!OneKind, Zenon
  <2>4. Facts!SeparatorWidth(text, i) \in {0, 1, 2}
    BY <1>0, Facts!BytesInLine
  <2>5. ~(Facts!SeparatorWidth(text, i) > 0)
    BY <2>3, <2>4
  <2> QED
    BY <2>2, <2>5 DEF Facts!IsLeading
<1>3. Leads \/ Between \/ InWord
  BY DEF PInv
<1>4. PICK d : ReadTo(d, i) /\ arg_count = Len(d)
  BY <1>1, <1>2, <1>3, ReadHere
<1>5. Facts!SegmentBegin(text, from) = offset /\ Facts!Reads(d, text, from, offset, i, buffer)
  BY <1>4 DEF ReadTo
<1>6. Facts!Tokens(text, i) = <<>>
  <2>1. i \in 0..Len(text) /\ Len(text) \in Nat
    BY <1>0
  <2> QED
    BY <2>1, Facts!TokensUnfold, Zenon
<1>7. /\ \A k \in from..(i - 1) : buffer'[k] = buffer[k]
      /\ \A k \in i..(next - 1) : buffer'[k] = NUL
      /\ \A k \in next..(Len(text) - 1) : buffer'[k] = text[k + 1]
  BY <1>0 DEF Ended
<1>8. /\ Facts!Tokens(text, offset) = d /\ Facts!Ending(text, offset) = Facts!Ending(text, i)
      /\ Facts!Leaves(d, text, from, next, buffer')
      /\ Facts!WasRead(d, text, from, offset, next, buffer')
  BY <1>0, <1>5, <1>6, <1>7, Facts!ReadsEnd
<1>9. arg_count = 0 => Facts!Ends(text, offset)
  <2> SUFFICES ASSUME arg_count = 0 PROVE Facts!Ends(text, offset)
    OBVIOUS
  <2>1. Leads
    BY <1>0, <1>3 DEF Between, InWord
  <2> QED
    BY <2>1 DEF Leads
<1>10. Over(offset, next)'
  BY <1>4, <1>5, <1>8, <1>9 DEF Over
<1>11. terminator' # "Scanning"
  <2>1. kind \in Facts!Kinds
    BY <1>0, Facts!EndingInLine
  <2> QED
    BY <2>1 DEF Facts!Kinds
<1> QED
  BY <1>10, <1>11 DEF PInv

LEMMA ParseReads ==
    ASSUME IInv, Parse
    PROVE  PInv'
<1>0. /\ text \in Seq(Char \cup {NUL}) /\ max_length = Len(text) /\ max_length \in Nat
      /\ slice_offset \in Nat /\ slice_offset <= max_length
  BY Typed
<1>1. /\ text' = text /\ buffer' = buffer /\ slice_offset' = slice_offset /\ from' = slice_offset
      /\ offset' = slice_offset /\ i' = slice_offset /\ arg_count' = 0 /\ ~in_token'
  BY DEF Parse
<1>2. CASE slice_offset >= max_length
  <2>1. terminator' = "EndOfLine"
    BY <1>2 DEF Parse
  <2>2. PICK n \in Nat : n = Len(text) /\ slice_offset = n
    BY <1>0, <1>2
  <2>3. Facts!SegmentBegin(text, n) = n
    <3>1. Facts!SegmentBegin(text, n) \in n..n
      BY <2>2, Facts!SegmentBeginInLine
    <3> QED
      BY <3>1
  <2>4. Facts!Ends(text, n)
    BY <2>2 DEF Facts!Ends
  <2>5. Facts!Tokens(text, n) = <<>> /\ Facts!Ending(text, n) = [kind |-> "EndOfLine", next |-> n]
    <3>1. n \in 0..Len(text) /\ Len(text) \in Nat
      BY <2>2
    <3>2. Facts!Tokens(text, n) = <<>>
      BY <2>4, <3>1, Facts!TokensUnfold, Zenon
    <3>3. Facts!Ending(text, n) = [kind |-> "EndOfLine", next |-> n]
      BY <2>4, <3>1, Facts!EndingUnfolds, Zenon
    <3> QED
      BY <3>2, <3>3
  <2>6. Facts!Ending(text, n).kind = "EndOfLine" /\ Facts!Ending(text, n).next = n
    BY <2>5
  <2>7. Facts!Reads(<<>>, text, n, n, n, buffer)
    <3>1. n \in n..Len(text) /\ \A k \in n..(n - 1) : buffer[k] = NUL
      BY <2>2
    <3> QED
      BY <2>2, <3>1, Facts!NothingRead
  <2>8. Facts!Leaves(<<>>, text, n, n, buffer) /\ Facts!WasRead(<<>>, text, n, n, n, buffer)
    <3>1. /\ n \in n..Len(text) /\ \A k \in n..(n - 1) : buffer[k] = buffer[k]
          /\ \A k \in n..(n - 1) : buffer[k] = NUL
          /\ \A k \in n..(Len(text) - 1) : buffer[k] = text[k + 1]
      BY <2>2
    <3> QED
      BY <2>2, <2>5, <2>6, <2>7, <3>1, Facts!ReadsEnd
  <2>9. Len(<<>>) = 0
    OBVIOUS
  <2>10. Over(n, n)'
    BY <1>1, <2>1, <2>2, <2>3, <2>4, <2>5, <2>6, <2>8, <2>9 DEF Over
  <2> QED
    BY <2>1, <2>10 DEF PInv
<1>3. CASE ~(slice_offset >= max_length)
  <2>1. terminator' = "Scanning"
    BY <1>3 DEF Parse
  <2>2. \A k \in slice_offset..(slice_offset - 1) : FALSE
    BY <1>0
  <2>3. Leads'
    BY <1>0, <1>1, <2>2 DEF Leads
  <2> QED
    BY <1>1, <2>1, <2>3 DEF PInv, Terminator
<1> QED
  BY <1>2, <1>3

(* What is read while the segment has not begun, and is skipped.           *)
LEMMA LeadReads ==
    ASSUME IInv, Leads, Facts!IsLeading(text, i), NEW next, next = Facts!PastLeading(text, i),
           text' = text, from' = from, i' = next, offset' = next, arg_count' = 0, ~in_token',
           buffer' = Erased(i..(next - 1))
    PROVE  Leads'
<1>0. /\ text \in Seq(Char \cup {NUL}) /\ max_length = Len(text) /\ max_length \in Nat
      /\ i \in Nat /\ i <= max_length /\ from \in Nat /\ from <= i
  BY Typed
<1>1. next \in (i + 1)..Len(text)
  BY <1>0, Facts!PastLeadingInLine
<1>2. Facts!SegmentBegin(text, i) = Facts!SegmentBegin(text, next)
  BY <1>0, Facts!SegmentBeginUnfolds
<1>3. ASSUME NEW k \in from..(next - 1) PROVE buffer'[k] = NUL
  <2>1. k \in Index /\ (k \in i..(next - 1) \/ k \in from..(i - 1))
    BY <1>0, <1>1 DEF Index
  <2>2. buffer'[k] = IF k \in i..(next - 1) THEN NUL ELSE buffer[k]
    BY <2>1 DEF Erased
  <2>3. k \in from..(i - 1) => buffer[k] = NUL
    BY DEF Leads
  <2> QED
    BY <2>1, <2>2, <2>3
<1>4. from <= next /\ Facts!SegmentBegin(text, from) = Facts!SegmentBegin(text, next)
  BY <1>0, <1>1, <1>2 DEF Leads
<1> QED
  BY <1>3, <1>4 DEF Leads

LEMMA BlankReads ==
    ASSUME IInv, PInv, ScanBlank
    PROVE  PInv'
<1>0. /\ text \in Seq(Char \cup {NUL}) /\ max_length = Len(text) /\ max_length \in Nat
      /\ i \in Nat /\ i <= max_length /\ from \in Nat /\ from <= i
  BY Typed
<1>1. /\ terminator = "Scanning" /\ i < max_length /\ buffer[i] = " "
  BY Zenon DEF ScanBlank, Scanning
<1>2. /\ text' = text /\ from' = from /\ i' = i + 1 /\ ~in_token' /\ arg_count' = arg_count
      /\ buffer' = Erased({i}) /\ slice_offset' = slice_offset /\ terminator' = terminator
      /\ offset' = IF Leading THEN i + 1 ELSE offset
  BY Zenon DEF ScanBlank
<1>3. Facts!IsBlankAt(text, i)
  <2>1. i <= i
    BY <1>0
  <2> QED
    BY <1>0, <1>1, <2>1, ByteIs, Zenon
<1> HIDE DEF ScanBlank
<1>4. Leads \/ Between \/ InWord
  BY <1>1 DEF PInv
<1>5. CASE Leads
  <2>1. arg_count = 0 /\ offset' = i + 1
    BY <1>2, <1>5 DEF Leads, Leading
  <2>2. Facts!IsLeading(text, i) /\ Facts!PastLeading(text, i) = i + 1
    BY <1>3 DEF Facts!IsLeading, Facts!PastLeading
  <2>3. i..((i + 1) - 1) = {i}
    BY <1>0
  <2>4. Leads'
    BY <1>2, <1>5, <2>1, <2>2, <2>3, LeadReads
  <2>5. terminator' = "Scanning" /\ slice_offset' = from'
    BY <1>1, <1>2, Zenon DEF PInv
  <2> QED
    BY <2>4, <2>5 DEF PInv, Terminator
<1>6. CASE Between \/ InWord
  <2>1. Facts!Breaks(text, i) /\ arg_count > 0
    BY <1>3, <1>6 DEF Facts!Breaks, Between, InWord
  <2>2. PICK d : ReadTo(d, i) /\ arg_count = Len(d)
    BY <1>6, <2>1, ReadHere
  <2>3. offset' = offset
    BY <1>2, <2>1 DEF Leading
  <2>4. buffer'[i] = NUL /\ \A k \in from..(i - 1) : buffer'[k] = buffer[k]
    <3>0. i < max_length
      BY <1>1, Zenon
    <3>1. i \in Index /\ \A k \in from..(i - 1) : k \in Index /\ k \notin {i}
      BY <1>0, <3>0 DEF Index
    <3> QED
      BY <1>2, <3>1 DEF Erased
  <2>5. Facts!Reads(d, text, from, offset, i + 1, buffer')
    BY <1>0, <1>3, <2>2, <2>4, Facts!ReadsBlank DEF ReadTo
  <2>6. ReadTo(d, i)'
    BY <1>2, <2>2, <2>3, <2>5 DEF ReadTo
  <2>7. Between'
    BY <1>2, <2>1, <2>2, <2>6 DEF Between
  <2>8. terminator' = "Scanning" /\ slice_offset' = from'
    BY <1>1, <1>2, Zenon DEF PInv
  <2> QED
    BY <2>7, <2>8 DEF PInv, Terminator
<1> QED
  BY <1>4, <1>5, <1>6

LEMMA SeparatorReads ==
    ASSUME IInv, PInv, Scanning, NEW width \in {1, 2}, Facts!SeparatorWidth(text, i) = width,
           NEW kind \in {"Semicolon", "LogicalAnd"},
           Facts!Ending(text, i) = [kind |-> kind, next |-> i + width], Separator(width, kind)
    PROVE  PInv'
<1>0. /\ text \in Seq(Char \cup {NUL}) /\ max_length = Len(text) /\ max_length \in Nat
      /\ i \in Nat /\ i <= max_length /\ from \in Nat /\ from <= i /\ arg_count \in Nat
  BY Typed
<1>1. PICK next \in Nat : next = i + width /\ i < next
  BY <1>0
<1>2. next <= max_length
  BY <1>0, <1>1, Facts!BytesInLine
<1>3. /\ text' = text /\ from' = from /\ i' = next /\ ~in_token' /\ arg_count' = arg_count
      /\ buffer' = Erased(i..(next - 1)) /\ terminator = "Scanning"
  <2>1. /\ text' = text /\ from' = from /\ i' = i + width /\ ~in_token' /\ arg_count' = arg_count
        /\ buffer' = Erased(i..(i + width - 1)) /\ terminator = "Scanning"
    BY Zenon DEF Separator, Bytes, Scanning
  <2>2. i..(i + width - 1) = i..(next - 1)
    <3>0. width \in Nat
      OBVIOUS
    <3>1. i + width - 1 = next - 1
      BY <1>0, <1>1, <3>0
    <3>2. ASSUME NEW a, NEW b, a = b PROVE i..a = i..b
      BY <3>2, Zenon
    <3> QED
      BY <3>1, <3>2
  <2>3. buffer' = Erased(i..(next - 1))
    BY <2>1, <2>2, Zenon
  <2> QED
    BY <1>1, <2>1, <2>3, Zenon
<1>4. CASE arg_count = 0
  <2>1. Leads
    BY <1>0, <1>3, <1>4 DEF PInv, Between, InWord
  <2>2. offset' = next /\ slice_offset' = slice_offset /\ terminator' = terminator
    BY <1>0, <1>1, <1>4 DEF Separator, EndsSegment
  <2>3. ~Facts!IsBlankAt(text, i)
    <3>1. (width = 1 => text[i + 1] = ";") /\ (width = 2 => text[i + 1] = "&")
      BY Facts!OneKind
    <3>2. width = 1 \/ width = 2
      OBVIOUS
    <3>3. Facts!IsBlankAt(text, i) => text[i + 1] = " "
      BY Zenon DEF Facts!IsBlankAt
    <3>4. ";" # " " /\ "&" # " "
      BY Zenon
    <3> QED
      BY <3>1, <3>2, <3>3, <3>4, Zenon
  <2>4. Facts!IsLeading(text, i) /\ Facts!PastLeading(text, i) = next
    BY <1>1, <2>3 DEF Facts!IsLeading, Facts!PastLeading
  <2>5. Leads'
    BY <1>3, <1>4, <2>1, <2>2, <2>4, LeadReads
  <2> QED
    BY <1>3, <2>2, <2>5 DEF PInv, Terminator
<1>5. CASE arg_count # 0
  <2>1. slice_offset' = next /\ terminator' = kind /\ offset' = offset
    BY <1>0, <1>1, <1>5 DEF Separator, EndsSegment
  <2>2. Ended(buffer', next)
    <3>1. ASSUME NEW k \in Index
          PROVE  buffer'[k] = IF k \in i..(next - 1) THEN NUL ELSE buffer[k]
      BY <1>3 DEF Erased
    <3>2. \A k \in from..(i - 1) : buffer'[k] = buffer[k]
      <4>1. \A k \in from..(i - 1) : k \in Index /\ k \notin i..(next - 1)
        BY <1>0 DEF Index
      <4> QED
        BY <3>1, <4>1
    <3>3. \A k \in i..(next - 1) : buffer'[k] = NUL
      <4>1. \A k \in i..(next - 1) : k \in Index
        BY <1>0, <1>2 DEF Index
      <4> QED
        BY <3>1, <4>1
    <3>4. ASSUME NEW k \in next..(max_length - 1) PROVE buffer'[k] = text[k + 1]
      <4>1. k \in Index /\ k \notin i..(next - 1) /\ k >= i
        BY <1>0, <1>1 DEF Index
      <4>2. buffer[k] = text[k + 1]
        BY <4>1 DEF IInv, LaterSegmentsIntact
      <4> QED
        BY <3>1, <4>1, <4>2
    <3> QED
      BY <3>2, <3>3, <3>4 DEF Ended
  <2>3. Facts!Ending(text, i).next = next /\ Facts!Ending(text, i).kind = kind
    BY <1>1
  <2>4. next \in i..Len(text) /\ kind # "ParseError" /\ width > 0
    BY <1>0, <1>1, <1>2
  <2> QED
    BY <1>3, <1>5, <2>1, <2>2, <2>3, <2>4, EndReads
<1> QED
  BY <1>4, <1>5

LEMMA LineEndReads ==
    ASSUME IInv, PInv, terminator = "Scanning", Facts!Ends(text, i), EndAt(i)
    PROVE  PInv'
<1>0. /\ text \in Seq(Char \cup {NUL}) /\ max_length = Len(text) /\ max_length \in Nat
      /\ i \in Nat /\ i <= max_length /\ from \in Nat /\ from <= i
  BY Typed
<1>1. i \in 0..Len(text) /\ Len(text) \in Nat
  BY <1>0
<1>2. Facts!Ending(text, i) = [kind |-> "EndOfLine", next |-> i]
  BY <1>1, Facts!EndingUnfolds, Zenon
<1>3. Facts!Ending(text, i).kind = "EndOfLine" /\ Facts!Ending(text, i).next = i
  BY <1>2
<1>4. /\ text' = text /\ from' = from /\ offset' = offset /\ arg_count' = arg_count
      /\ slice_offset' = i /\ terminator' = "EndOfLine" /\ buffer' = buffer
  BY DEF EndAt
<1>5. Ended(buffer', i)
  <2>1. \A k \in i..(i - 1) : FALSE
    BY <1>0
  <2>2. ASSUME NEW k \in i..(max_length - 1) PROVE buffer[k] = text[k + 1]
    <3>1. k \in Index /\ k >= i
      BY <1>0 DEF Index
    <3> QED
      BY <3>1 DEF IInv, LaterSegmentsIntact
  <2> QED
    BY <1>4, <2>1, <2>2 DEF Ended
<1>6. i \in i..Len(text)
  BY <1>0
<1> QED
  BY <1>3, <1>4, <1>5, <1>6, EndReads

(* A token that cannot be read ends the call where it begins.              *)
LEMMA MalformedReads ==
    ASSUME IInv, PInv, terminator = "Scanning", NEW r \in from..i, NEW d,
           Facts!SegmentBegin(text, from) = offset,
           Facts!Reads(d, text, from, offset, r, buffer),
           ~Facts!Breaks(text, r), ~Facts!Token(text, r).wellFormed,
           \A k \in r..(i - 1) : buffer[k] = text[k + 1],
           text' = text, buffer' = buffer, from' = from, slice_offset' = slice_offset,
           terminator' = "ParseError"
    PROVE  PInv'
<1>0. /\ text \in Seq(Char \cup {NUL}) /\ max_length = Len(text) /\ max_length \in Nat
      /\ i \in Nat /\ i <= max_length /\ from \in Nat /\ from <= i
  BY Typed
<1>1. r \in 0..Len(text) /\ Len(text) \in Nat /\ r \in r..Len(text) /\ r \in Nat
  BY <1>0
<1>2. Facts!Tokens(text, r) = <<>>
  BY <1>1, Facts!TokensUnfold, Zenon
<1>3. Facts!Ending(text, r) = [kind |-> "ParseError", next |-> r]
  BY <1>1, Facts!EndingUnfolds, Zenon
<1>4. Facts!Ending(text, r).kind = "ParseError" /\ Facts!Ending(text, r).next = r
  BY <1>3
<1>5. ASSUME NEW k \in r..(Len(text) - 1) PROVE buffer[k] = text[k + 1]
  <2>1. k \in Index /\ (k \in r..(i - 1) \/ k >= i)
    BY <1>0, <1>1 DEF Index
  <2> QED
    BY <2>1 DEF IInv, LaterSegmentsIntact
<1>6. \A k \in r..(r - 1) : buffer[k] = NUL
  BY <1>1
<1>7. \A k \in from..(r - 1) : buffer[k] = buffer[k]
  OBVIOUS
<1>8. /\ Facts!Tokens(text, offset) = d /\ Facts!Ending(text, offset) = Facts!Ending(text, r)
      /\ Facts!Leaves(d, text, from, r, buffer)
  BY <1>0, <1>1, <1>2, <1>4, <1>5, <1>6, <1>7, Facts!ReadsEnd
<1>9. slice_offset = from
  BY DEF PInv
<1>10. PICK begin : begin = offset
  OBVIOUS
<1>11. Over(begin, r)'
  BY <1>4, <1>8, <1>9, <1>10 DEF Over
<1> QED
  BY <1>11 DEF PInv

LEMMA QuotedReads ==
    ASSUME IInv, PInv, ScanQuoted
    PROVE  PInv'
<1>0. /\ text \in Seq(Char \cup {NUL}) /\ max_length = Len(text) /\ max_length \in Nat
      /\ i \in Nat /\ i <= max_length /\ from \in Nat /\ from <= i /\ arg_count \in Nat
  BY Typed
<1>1. /\ terminator = "Scanning" /\ i < max_length /\ buffer[i] \in Quote /\ ~in_token
      /\ text' = text /\ from' = from /\ offset' = offset /\ slice_offset' = slice_offset
      /\ terminator' = terminator /\ in_token' /\ arg_count' = arg_count + 1
  BY DEF ScanQuoted, Scanning
<1>2. PICK j \in (i + 1)..(max_length - 1) :
        Closes(j) /\ buffer' = Erased({i, j}) /\ i' = j + 1
  BY DEF ScanQuoted
<1>3. j \in Nat /\ i < j /\ j < max_length /\ i <= i
  BY <1>0, <1>2
<1>4. Facts!IsQuoteAt(text, i) /\ ~Facts!Breaks(text, i)
  <2>1. Facts!IsQuoteAt(text, i)
    BY <1>0, <1>1, <1>3, ByteIs
  <2> QED
    BY <1>0, <2>1, Facts!QuoteBreaksNot
<1>5. ~Facts!IsLeading(text, i)
  BY <1>4 DEF Facts!Breaks, Facts!IsLeading
<1>6. Leads \/ Between
  BY <1>1 DEF PInv, InWord
<1>7. PICK d : ReadTo(d, i) /\ arg_count = Len(d)
  BY <1>5, <1>6, ReadHere
<1>8. /\ buffer[j] = buffer[i] /\ EndsToken(j + 1)
      /\ \A k \in (i + 1)..(j - 1) : buffer[k] \notin {buffer[i], NUL}
  BY <1>2 DEF Closes
<1>9. ASSUME NEW k \in i..j PROVE buffer[k] = text[k + 1] /\ k \in Nat /\ k < max_length
  <2>1. k \in Index /\ k >= i /\ k \in Nat /\ k < max_length
    BY <1>0, <1>3 DEF Index
  <2> QED
    BY <2>1 DEF IInv, LaterSegmentsIntact
<1>10. Facts!IsFirst(j, i + 1, Len(text), Facts!Closing(text, i))
  <2>1. j \in (i + 1)..Len(text)
    BY <1>0, <1>3
  <2>2. j \in Facts!Closing(text, i)
    <3>1. text[j + 1] = text[i + 1]
      BY <1>0, <1>3, <1>8, <1>9
    <3> QED
      BY <1>3, <3>1 DEF Facts!Closing
  <2>3. ASSUME NEW k \in (i + 1)..(j - 1) PROVE k \notin Facts!Closing(text, i)
    <3>1. k \in i..j /\ k \in Nat /\ i \in i..j /\ ~(k >= max_length)
      BY <1>0, <1>3
    <3>2. text[k + 1] # text[i + 1] /\ text[k + 1] # NUL
      BY <1>8, <1>9, <3>1
    <3>3. ~Facts!Ends(text, k)
      BY <1>0, <3>1, <3>2 DEF Facts!Ends
    <3> QED
      BY <3>2, <3>3 DEF Facts!Closing
  <2> QED
    BY <2>1, <2>2, <2>3 DEF Facts!IsFirst
<1>11. PICK token : token = Facts!Token(text, i) /\ token = Facts!QuotedToken(text, i, j)
  BY <1>0, <1>1, <1>4, <1>10, Facts!QuotedIs
<1>12. Facts!Breaks(text, j + 1) /\ ~Facts!Ends(text, j)
  <2>1. ~Facts!Ends(text, j)
    <3>1. text[j + 1] = buffer[i] /\ buffer[i] # NUL /\ ~(j >= Len(text))
      <4>0. j \in i..j
        BY <1>0, <1>3
      <4>1. text[j + 1] = buffer[i]
        BY <1>8, <1>9, <4>0
      <4>2. buffer[i] # NUL
        BY <1>1, NulAssumption
      <4> QED
        BY <1>0, <1>3, <4>1, <4>2
    <3> QED
      BY <3>1 DEF Facts!Ends
  <2>2. PICK z \in Nat : z = j + 1 /\ i <= z
    BY <1>0, <1>3
  <2>3. EndsToken(z) => Facts!Breaks(text, z)
    <3>1. /\ Facts!Ends(text, z) <=> z >= max_length \/ (z < max_length /\ buffer[z] = NUL)
          /\ Facts!IsBlankAt(text, z) <=> z < max_length /\ buffer[z] = " "
          /\ Facts!SeparatorWidth(text, z) = 1 <=> z < max_length /\ buffer[z] = ";"
          /\ Facts!SeparatorWidth(text, z) = 2 <=> IsAnd(z)
      BY <2>2, ByteIs, Zenon
    <3>2. Facts!SeparatorWidth(text, z) = 1 => Facts!SeparatorWidth(text, z) > 0
      OBVIOUS
    <3>3. Facts!SeparatorWidth(text, z) = 2 => Facts!SeparatorWidth(text, z) > 0
      OBVIOUS
    <3>4. ASSUME EndsToken(z)
          PROVE  \/ Facts!Ends(text, z) \/ Facts!IsBlankAt(text, z)
                 \/ Facts!SeparatorWidth(text, z) = 1 \/ Facts!SeparatorWidth(text, z) = 2
      BY <3>1, <3>4, Zenon DEF EndsToken
    <3> QED
      BY <3>2, <3>3, <3>4, Zenon DEF Facts!Breaks
  <2> QED
    BY <1>8, <2>1, <2>2, <2>3
<1>13. /\ token.next = j + 1 /\ Facts!KeptBytes(token) = (i + 1)..(j - 1) /\ token.wellFormed
  BY <1>0, <1>3, <1>11, <1>12, Facts!QuotedParts
<1>14. ASSUME NEW k \in from..j
       PROVE  buffer'[k] = IF k = i \/ k = j THEN NUL ELSE buffer[k]
  <2>1. k \in Index
    BY <1>0, <1>3 DEF Index
  <2> QED
    BY <1>2, <2>1 DEF Erased
<1>15. \A k \in from..(i - 1) : buffer'[k] = buffer[k]
  BY <1>0, <1>3, <1>14
<1>16. PICK next \in Nat : next = j + 1 /\ next - 1 = j
  BY <1>3
<1>17. ASSUME NEW k \in i..(next - 1)
       PROVE  buffer'[k] = IF k \in Facts!KeptBytes(Facts!Token(text, i)) THEN text[k + 1] ELSE NUL
  <2>1. k \in from..j /\ k \in i..j /\ (k \in (i + 1)..(j - 1) <=> ~(k = i \/ k = j))
    BY <1>0, <1>3, <1>16
  <2>2. buffer[k] = text[k + 1]
    BY <1>9, <2>1
  <2>3. buffer'[k] = IF k = i \/ k = j THEN NUL ELSE buffer[k]
    BY <1>14, <2>1
  <2> QED
    BY <1>11, <1>13, <2>1, <2>2, <2>3
<1>18. /\ Facts!Reads(Append(d, Facts!Token(text, i)), text, from, offset, next, buffer')
       /\ Facts!Breaks(text, next)
  <2>1. Facts!Reads(d, text, from, offset, i, buffer)
    BY <1>7 DEF ReadTo
  <2>2. next = Facts!Token(text, i).next /\ Facts!Token(text, i).wellFormed
    BY <1>11, <1>13, <1>16
  <2>3. \A k \in i..(next - 1) :
            buffer'[k] = IF k \in Facts!KeptBytes(Facts!Token(text, i)) THEN text[k + 1] ELSE NUL
    BY <1>17, Zenon
  <2>4. text \in Seq(Char \cup {NUL}) /\ from \in Nat /\ ~Facts!Breaks(text, i)
    BY <1>0, <1>4
  <2> HIDE <1>0, <1>1, <1>2
  <2> QED
    BY <1>15, <2>1, <2>2, <2>3, <2>4, Facts!ReadsToken
<1>19. Len(Append(d, token)) = Len(d) + 1
  <2>1. PICK S : d \in Seq(S)
    BY <1>7 DEF ReadTo, Facts!Reads
  <2> QED
    BY <2>1
<1>20. ReadTo(Append(d, token), i)'
  BY <1>1, <1>2, <1>7, <1>11, <1>16, <1>18 DEF ReadTo
<1>21. Between'
  <2>1. arg_count' > 0 /\ arg_count' = Len(Append(d, token))
    BY <1>0, <1>1, <1>7, <1>19
  <2>2. Facts!Breaks(text', i')
    BY <1>1, <1>2, <1>16, <1>18
  <2> QED
    BY <1>20, <2>1, <2>2 DEF Between
<1>22. terminator' = "Scanning" /\ slice_offset' = from'
  BY <1>1 DEF PInv
<1> QED
  BY <1>21, <1>22 DEF PInv, Terminator

LEMMA RejectReads ==
    ASSUME IInv, PInv, RejectQuote
    PROVE  PInv'
<1>0. /\ text \in Seq(Char \cup {NUL}) /\ max_length = Len(text) /\ max_length \in Nat
      /\ i \in Nat /\ i <= max_length /\ from \in Nat /\ from <= i /\ arg_count \in Nat
  BY Typed
<1>1. /\ terminator = "Scanning" /\ i < max_length /\ buffer[i] \in Quote
      /\ text' = text /\ from' = from /\ slice_offset' = slice_offset /\ buffer' = buffer
      /\ terminator' = "ParseError"
  BY DEF RejectQuote, Scanning
<1>2. Facts!IsQuoteAt(text, i) /\ ~Facts!Breaks(text, i)
  <2>0. i <= i
    BY <1>0
  <2>1. Facts!IsQuoteAt(text, i)
    BY <1>0, <1>1, <2>0, ByteIs, Zenon
  <2> QED
    BY <1>0, <2>1, Facts!QuoteBreaksNot
<1>3. ~Facts!IsLeading(text, i)
  BY <1>2 DEF Facts!Breaks, Facts!IsLeading
<1>4. Leads \/ Between \/ InWord
  BY <1>1 DEF PInv
<1>5. CASE in_token
  <2>1. InWord
    BY <1>2, <1>4, <1>5 DEF Leads, Between
  <2>2. PICK r \in from..(i - 1) :
          /\ \E d : ReadTo(d, r) /\ arg_count = Len(d) + 1
          /\ \A k \in r..(i - 1) : k \notin Facts!Breaking(text) /\ buffer[k] = text[k + 1]
    BY <2>1 DEF InWord
  <2>3. PICK d : ReadTo(d, r) /\ arg_count = Len(d) + 1
    BY <2>2
  <2>4. r \in Nat /\ r < i /\ from <= r /\ r < Len(text) /\ r \in r..(i - 1) /\ r \in from..i
        /\ r \in 0..Len(text) /\ i \in (r + 1)..Len(text)
    BY <1>0, <2>2
  <2>5. ~Facts!Breaks(text, r) /\ ~Facts!IsQuoteAt(text, r)
    BY <2>2, <2>4 DEF Facts!Breaking
  <2>6. Facts!IsFirst(i, r + 1, Len(text), Facts!Breaking(text))
    <3>1. i \in Facts!Breaking(text)
      BY <1>0, <1>2 DEF Facts!Breaking
    <3>2. \A j \in (r + 1)..(i - 1) : j \in r..(i - 1)
      BY <2>4
    <3> QED
      BY <2>2, <2>4, <3>1, <3>2 DEF Facts!IsFirst
  <2>7. Facts!Token(text, r) = Facts!BareToken(text, r, i)
    BY <1>0, <2>4, <2>5, <2>6, Facts!BareIs
  <2>8. ~Facts!Token(text, r).wellFormed
    BY <1>0, <1>2, <2>4, <2>7, Facts!BareParts
  <2>9. Facts!SegmentBegin(text, from) = offset /\ Facts!Reads(d, text, from, offset, r, buffer)
    BY <2>3 DEF ReadTo
  <2> QED
    BY <1>1, <2>2, <2>4, <2>5, <2>8, <2>9, MalformedReads
<1>6. CASE ~in_token
  <2>1. PICK d : ReadTo(d, i) /\ arg_count = Len(d)
    BY <1>3, <1>4, <1>6, ReadHere DEF InWord
  <2>2. PICK stop : /\ Facts!IsFirst(stop, i + 1, Len(text), Facts!Closing(text, i))
                    /\ Facts!Token(text, i) = Facts!QuotedToken(text, i, stop)
    BY <1>0, <1>1, <1>2, Facts!QuotedStops
  <2>3. stop \in Nat /\ i < stop /\ stop <= Len(text) /\ i <= i
    BY <1>0, <2>2 DEF Facts!IsFirst
  <2>4. ~Facts!Token(text, i).wellFormed
    <3> SUFFICES ASSUME Facts!Token(text, i).wellFormed PROVE FALSE
      OBVIOUS
    <3>1. ~Facts!Ends(text, stop) /\ Facts!Breaks(text, stop + 1)
      BY <1>0, <2>2, <2>3, Facts!QuotedParts
    <3>2. stop < max_length /\ stop \in (i + 1)..(max_length - 1)
      BY <1>0, <2>3, <3>1 DEF Facts!Ends
    <3>3. ASSUME NEW k \in i..stop PROVE buffer[k] = text[k + 1] /\ k \in Nat /\ k < Len(text)
      <4>1. k \in Index /\ k >= i /\ k \in Nat /\ k < Len(text)
        BY <1>0, <2>3, <3>2 DEF Index
      <4> QED
        BY <4>1 DEF IInv, LaterSegmentsIntact
    <3>4. i \in i..stop /\ stop \in i..stop /\ \A k \in (i + 1)..(stop - 1) : k \in i..stop
      BY <1>0, <2>3
    <3>5. buffer[stop] = buffer[i]
      <4>1. text[stop + 1] = text[i + 1]
        BY <2>2, <3>1 DEF Facts!IsFirst, Facts!Closing
      <4> QED
        BY <3>3, <3>4, <4>1
    <3>6. ASSUME NEW k \in (i + 1)..(stop - 1) PROVE buffer[k] \notin {buffer[i], NUL}
      <4>1. k \in Nat /\ k < Len(text) /\ buffer[k] = text[k + 1] /\ buffer[i] = text[i + 1]
        BY <3>3, <3>4, <3>6
      <4>2. k \notin Facts!Closing(text, i)
        BY <2>2, <3>6 DEF Facts!IsFirst
      <4>3. ~Facts!Ends(text, k) /\ text[k + 1] # text[i + 1]
        BY <4>1, <4>2 DEF Facts!Closing
      <4>4. text[k + 1] # NUL
        BY <4>3 DEF Facts!Ends
      <4> QED
        BY <4>1, <4>3, <4>4
    <3>7. EndsToken(stop + 1)
      <4>1. PICK z \in Nat : z = stop + 1 /\ i <= z
        BY <1>0, <2>3
      <4>2. /\ Facts!Ends(text, z) <=> z >= max_length \/ (z < max_length /\ buffer[z] = NUL)
            /\ Facts!IsBlankAt(text, z) <=> z < max_length /\ buffer[z] = " "
            /\ Facts!SeparatorWidth(text, z) = 1 <=> z < max_length /\ buffer[z] = ";"
            /\ Facts!SeparatorWidth(text, z) = 2 <=> IsAnd(z)
            /\ Facts!SeparatorWidth(text, z) \in {0, 1, 2}
        BY <4>1, ByteIs, Zenon
      <4>3. Facts!Ends(text, z) \/ Facts!IsBlankAt(text, z) \/ Facts!SeparatorWidth(text, z) > 0
        BY <3>1, <4>1 DEF Facts!Breaks
      <4>4. Facts!SeparatorWidth(text, z) \in {0, 1, 2}
        BY <4>2, Zenon
      <4>5. Facts!SeparatorWidth(text, z) > 0 =>
              Facts!SeparatorWidth(text, z) = 1 \/ Facts!SeparatorWidth(text, z) = 2
        BY <4>4
      <4>6. EndsToken(z)
        BY <4>2, <4>3, <4>5, Zenon DEF EndsToken
      <4> QED
        BY <4>1, <4>6
    <3>8. Closes(stop)
      BY <3>5, <3>6, <3>7 DEF Closes
    <3> QED
      BY <1>6, <3>2, <3>8 DEF RejectQuote
  <2>5. i \in from..i /\ \A k \in i..(i - 1) : FALSE
    BY <1>0
  <2>6. Facts!SegmentBegin(text, from) = offset /\ Facts!Reads(d, text, from, offset, i, buffer)
    BY <2>1 DEF ReadTo
  <2> QED
    BY <1>1, <1>2, <2>4, <2>5, <2>6, MalformedReads
<1> QED
  BY <1>5, <1>6

LEMMA WordReads ==
    ASSUME IInv, PInv, ScanWord
    PROVE  PInv'
<1>0. /\ text \in Seq(Char \cup {NUL}) /\ max_length = Len(text) /\ max_length \in Nat
      /\ i \in Nat /\ i <= max_length /\ from \in Nat /\ from <= i /\ arg_count \in Nat
  BY Typed
<1>1. /\ terminator = "Scanning" /\ i < max_length
      /\ text' = text /\ from' = from /\ slice_offset' = slice_offset /\ buffer' = buffer
      /\ terminator' = terminator /\ offset' = offset /\ i' = i + 1 /\ in_token'
      /\ arg_count' = IF in_token THEN arg_count ELSE arg_count + 1
  BY Zenon DEF ScanWord, Scanning
<1>2. i \notin Facts!Breaking(text) /\ buffer[i] = text[i + 1]
  <2>0. i <= i /\ ~(i >= max_length)
    BY <1>0, <1>1
  <2>1. /\ Facts!Ends(text, i) <=> i >= max_length \/ (i < max_length /\ buffer[i] = NUL)
        /\ Facts!IsBlankAt(text, i) <=> i < max_length /\ buffer[i] = " "
        /\ Facts!SeparatorWidth(text, i) = 1 <=> i < max_length /\ buffer[i] = ";"
        /\ Facts!SeparatorWidth(text, i) = 2 <=> IsAnd(i)
        /\ Facts!IsQuoteAt(text, i) <=> i < max_length /\ buffer[i] \in Quote
        /\ Facts!SeparatorWidth(text, i) \in {0, 1, 2}
        /\ i < max_length => buffer[i] = text[i + 1]
    BY <1>0, <2>0, ByteIs, Zenon
  <2>2. buffer[i] \notin {" ", ";", NUL} \cup Quote /\ ~IsAnd(i)
    BY Zenon DEF ScanWord
  <2>3. ~Facts!Ends(text, i) /\ ~Facts!IsBlankAt(text, i) /\ ~Facts!IsQuoteAt(text, i)
        /\ Facts!SeparatorWidth(text, i) # 1 /\ Facts!SeparatorWidth(text, i) # 2
    BY <2>0, <2>1, <2>2, Zenon
  <2>4. Facts!SeparatorWidth(text, i) \in {0, 1, 2}
    BY <2>1, Zenon
  <2>5. ~(Facts!SeparatorWidth(text, i) > 0)
    BY <2>3, <2>4
  <2>6. ~(Facts!Breaks(text, i) \/ Facts!IsQuoteAt(text, i))
    BY <2>3, <2>5, Zenon DEF Facts!Breaks
  <2> QED
    BY <1>1, <2>1, <2>6, Zenon DEF Facts!Breaking
<1> HIDE DEF ScanWord
<1>3. ~Facts!Breaks(text, i) /\ ~Facts!IsLeading(text, i)
  BY <1>0, <1>2 DEF Facts!Breaking, Facts!Breaks, Facts!IsLeading
<1>4. Leads \/ Between \/ InWord
  BY <1>1 DEF PInv
<1>5. PICK r \in from..i :
        /\ \E d : ReadTo(d, r) /\ arg_count' = Len(d) + 1
        /\ \A k \in r..i : k \notin Facts!Breaking(text) /\ buffer[k] = text[k + 1]
  <2>1. CASE in_token
    <3>1. InWord
      BY <1>3, <1>4, <2>1 DEF Leads, Between
    <3>2. PICK r \in from..(i - 1) :
          /\ \E d : ReadTo(d, r) /\ arg_count = Len(d) + 1
          /\ \A k \in r..(i - 1) : k \notin Facts!Breaking(text) /\ buffer[k] = text[k + 1]
      BY <3>1 DEF InWord
    <3>3. r \in from..i /\ \A k \in r..i : k \in r..(i - 1) \/ k = i
      BY <1>0, <3>2
    <3>4. arg_count' = arg_count
      BY <1>1, <2>1
    <3> QED
      BY <1>2, <3>2, <3>3, <3>4
  <2>2. CASE ~in_token
    <3>1. PICK d : ReadTo(d, i) /\ arg_count = Len(d)
      BY <1>3, <1>4, <2>2, ReadHere DEF InWord
    <3>2. i \in from..i /\ \A k \in i..i : k = i
      BY <1>0
    <3>3. arg_count' = arg_count + 1
      BY <1>1, <2>2
    <3> QED
      BY <1>2, <3>1, <3>2, <3>3
  <2> QED
    BY <2>1, <2>2
<1>6. PICK d : ReadTo(d, r) /\ arg_count' = Len(d) + 1
  BY <1>5
<1>7. InWord'
  <2>1. r \in from'..(i' - 1) /\ \A k \in r..(i' - 1) : k \in r..i
    BY <1>0, <1>1, <1>5
  <2>2. ReadTo(d, r)'
    BY <1>1, <1>6 DEF ReadTo
  <2>3. arg_count' > 0
    <3>1. PICK S : d \in Seq(S)
      BY <1>6 DEF ReadTo, Facts!Reads
    <3>2. Len(d) \in Nat
      BY <3>1
    <3> QED
      BY <1>6, <3>2
  <2>4. \A k \in r..(i' - 1) : k \notin Facts!Breaking(text') /\ buffer'[k] = text'[k + 1]
    BY <1>1, <1>5, <2>1
  <2> QED
    BY <1>1, <1>6, <2>1, <2>2, <2>3, <2>4 DEF InWord
<1>8. terminator' = "Scanning" /\ slice_offset' = from'
  BY <1>1 DEF PInv
<1> QED
  BY <1>7, <1>8 DEF PInv, Terminator

(* Each kind of byte, and each call, keeps what was read.                  *)
LEMMA NextReads == IInv /\ PInv /\ [Next]_vars => PInv'
<1> SUFFICES ASSUME IInv, PInv, [Next]_vars PROVE PInv'
  OBVIOUS
<1>0. /\ max_length = Len(text) /\ max_length \in Nat /\ i \in Nat /\ i <= max_length
      /\ i \in 0..Len(text) /\ Len(text) \in Nat /\ i <= i
  BY Typed
<1>1. CASE UNCHANGED vars
  BY <1>1 DEF vars, PInv, Leads, Between, InWord, ReadTo, Over
<1>2. CASE ScanSemicolon
  <2>1. Scanning /\ buffer[i] = ";" /\ Separator(1, "Semicolon") /\ i < max_length
    BY <1>2 DEF ScanSemicolon, Scanning
  <2>2. Facts!SeparatorWidth(text, i) = 1
    BY <1>0, <2>1, ByteIs, Zenon
  <2>3. Facts!Ending(text, i) = [kind |-> "Semicolon", next |-> i + 1]
    BY <1>0, <2>2, Facts!EndingUnfolds, Zenon
  <2>4. 1 \in {1, 2} /\ "Semicolon" \in {"Semicolon", "LogicalAnd"}
    BY Zenon
  <2> QED
    BY <2>1, <2>2, <2>3, <2>4, SeparatorReads, Zenon
<1>3. CASE ScanAnd
  <2>1. Scanning /\ IsAnd(i) /\ Separator(2, "LogicalAnd") /\ i < max_length
    BY <1>3 DEF ScanAnd, Scanning
  <2>2. Facts!SeparatorWidth(text, i) = 2
    BY <1>0, <2>1, ByteIs, Zenon
  <2>3. Facts!Ending(text, i) = [kind |-> "LogicalAnd", next |-> i + 2]
    BY <1>0, <2>2, Facts!EndingUnfolds, Zenon
  <2>4. 2 \in {1, 2} /\ "LogicalAnd" \in {"Semicolon", "LogicalAnd"}
    BY Zenon
  <2> QED
    BY <2>1, <2>2, <2>3, <2>4, SeparatorReads, Zenon
<1>4. CASE ScanNul
  <2>1. terminator = "Scanning" /\ i < max_length /\ buffer[i] = NUL /\ EndAt(i)
    BY <1>4 DEF ScanNul, Scanning
  <2>2. Facts!Ends(text, i)
    BY <1>0, <2>1, ByteIs, Zenon
  <2> QED
    BY <2>1, <2>2, LineEndReads
<1>5. CASE EndOfBuffer
  <2>1. terminator = "Scanning" /\ i = max_length /\ EndAt(max_length)
    BY <1>0, <1>5 DEF EndOfBuffer
  <2>2. Facts!Ends(text, i)
    BY <1>0, <2>1 DEF Facts!Ends
  <2>3. EndAt(i)
    BY <2>1
  <2> QED
    BY <2>1, <2>2, <2>3, LineEndReads
<1> QED
  BY <1>1, <1>2, <1>3, <1>4, <1>5, ParseReads, BlankReads, QuotedReads, RejectReads, WordReads
     DEF Next, Scan

-----------------------------------------------------------------------------
(* What the accessors find.                                                *)

(* A C string is what is before the first NUL.                             *)
LEMMA StringIs ==
    ASSUME max_length \in Nat, NEW p \in 0..max_length, NEW stop \in p..max_length,
           \A k \in p..(stop - 1) : buffer[k] # NUL, stop = max_length \/ buffer[stop] = NUL
    PROVE  CString(p) = [k \in 1..(stop - p) |-> buffer[p + k - 1]]
<1> DEFINE n == max_length
           D == {k \in p..n : k = n \/ buffer[k] = NUL}
           end == CHOOSE e : e = [k \in p..n |->
                                    IF k = n \/ buffer[k] = NUL THEN k ELSE e[k + 1]]
           base == [k \in p..n |-> k]
           next == [k \in p..n |-> k + 1]
<1>1. CString(p) = [k \in 1..(end[p] - p) |-> buffer[p + k - 1]]
  BY DEF CString
<1>2. n \in Nat /\ p \in Nat /\ p <= n /\ p \in p..stop /\ stop \in Nat /\ stop <= n /\ n = max_length
  OBVIOUS
<1>3. \A k \in p..n : (k \in D <=> k = n \/ buffer[k] = NUL) /\ base[k] = k /\ next[k] = k + 1
  OBVIOUS
<1> HIDE DEF n, D, base, next
<1>4. /\ \A k \in p..n : k \in D => base[k] \in p..n
      /\ \A k \in p..n : k \notin D => next[k] \in (k + 1)..n
  BY <1>2, <1>3
<1>5. PICK f : Facts!IsWalk(f, p, n, p..n, D, base, next)
  BY <1>2, <1>4, Facts!WalkExists
<1>6. f = [k \in p..n |-> IF k = n \/ buffer[k] = NUL THEN k ELSE f[k + 1]]
  <2>1. f = [k \in p..n |-> f[k]]
    BY <1>5 DEF Facts!IsWalk
  <2>2. ASSUME NEW k \in p..n PROVE f[k] = IF k = n \/ buffer[k] = NUL THEN k ELSE f[k + 1]
    <3>1. f[k] = IF k \in D THEN base[k] ELSE f[next[k]]
      BY <1>5 DEF Facts!IsWalk
    <3> QED
      BY <1>3, <3>1, Zenon
  <2> QED
    BY <2>1, <2>2
<1>7. end = [k \in p..n |-> IF k = n \/ buffer[k] = NUL THEN k ELSE end[k + 1]]
  BY <1>6
<1> HIDE DEF end
<1> DEFINE Q == {k \in p..stop : end[k] = stop}
<1>8. ASSUME NEW k \in p..stop, \A j \in (k + 1)..stop : j \in Q
      PROVE  k \in Q
  <2>1. k \in p..n /\ end[k] = IF k = n \/ buffer[k] = NUL THEN k ELSE end[k + 1]
    BY <1>2, <1>7
  <2>2. CASE k = stop
    BY <1>2, <2>1, <2>2
  <2>3. CASE k # stop
    <3>1. k \in p..(stop - 1) /\ k + 1 \in (k + 1)..stop /\ k # n
      BY <1>2, <2>3
    <3>2. buffer[k] # NUL /\ end[k + 1] = stop
      BY <1>8, <3>1
    <3> QED
      BY <2>1, <3>1, <3>2
  <2> QED
    BY <2>2, <2>3
<1> HIDE DEF Q
<1>9. \A k \in p..stop : k \in Q
  BY <1>2, <1>8, Facts!Downward
<1>10. end[p] = stop
  BY <1>2, <1>9 DEF Q
<1> QED
  BY <1>1, <1>10

(* The first n elements of a set in order, as far as the k-th is concerned.*)
ListsTo(k, n, f, S) ==
    /\ S \in SUBSET Nat /\ n \in Nat /\ k \in 1..n
    /\ f \in [1..n -> S]
    /\ \A l, m \in 1..n : l < m => f[l] < f[m]
    /\ \A s \in S : s < f[k] => \E m \in 1..n : s = f[m]

(* Of a set so listed, f[k] is what has k - 1 elements before it.          *)
LEMMA RankIs ==
    ASSUME NEW S, NEW n, NEW f, NEW k, ListsTo(k, n, f, S)
    PROVE  \A s \in S : Cardinality({j \in S : j < s}) = k - 1 <=> s = f[k]
<1> SUFFICES ASSUME S \in SUBSET Nat, n \in Nat, k \in 1..n, f \in [1..n -> S],
                    \A l, m \in 1..n : l < m => f[l] < f[m],
                    \A s \in S : s < f[k] => \E m \in 1..n : s = f[m]
             PROVE  \A s \in S : Cardinality({j \in S : j < s}) = k - 1 <=> s = f[k]
  BY DEF ListsTo
<1> DEFINE Before(s) == {j \in S : j < s}
<1>1. ASSUME NEW s \in S PROVE IsFiniteSet(Before(s))
  <2>1. Before(s) \subseteq 0..s /\ 0 \in Int /\ s \in Int
    <3>1. s \in Nat /\ \A j \in Before(s) : j \in Nat /\ j < s
      OBVIOUS
    <3> HIDE DEF Before
    <3> QED
      BY <3>1
  <2> HIDE DEF Before
  <2>2. IsFiniteSet(0..s)
    BY <2>1, FS_Interval
  <2> QED
    BY <2>1, <2>2, FS_Subset
<1>2. f[k] \in S /\ f[k] \in Nat /\ \A m \in 1..n : f[m] \in S /\ f[m] \in Nat
  OBVIOUS
<1>3. Cardinality(Before(f[k])) = k - 1
  <2> DEFINE g == [m \in 1..(k - 1) |-> f[m]]
             T == Before(f[k])
  <2>1. g \in [1..(k - 1) -> T]
    BY <1>2
  <2>2. ASSUME NEW a \in 1..(k - 1), NEW b \in 1..(k - 1), g[a] = g[b] PROVE a = b
    <3>1. a \in 1..n /\ b \in 1..n /\ f[a] = f[b] /\ f[a] \in Nat
      BY <1>2, <2>2
    <3>2. ~(a < b) /\ ~(b < a)
      BY <3>1
    <3> QED
      BY <3>1, <3>2
  <2>3. ASSUME NEW s \in T PROVE \E m \in 1..(k - 1) : g[m] = s
    <3>1. s \in S /\ s < f[k] /\ s \in Nat
      BY <2>3
    <3>2. PICK m \in 1..n : s = f[m]
      BY <3>1
    <3>3. m < k
      <4> SUFFICES ASSUME k <= m PROVE FALSE
        OBVIOUS
      <4>1. k = m \/ k < m
        OBVIOUS
      <4> QED
        BY <1>2, <3>1, <3>2, <4>1
    <3> QED
      BY <3>2, <3>3
  <2> HIDE DEF g, T
  <2>4. g \in Bijection(1..(k - 1), T)
    BY <2>1, <2>2, <2>3, Fun_IsBij
  <2>5. ExistsBijection(1..(k - 1), T)
    BY <2>4 DEF ExistsBijection
  <2>6. 1 \in Int /\ k - 1 \in Int /\ k >= 1
    OBVIOUS
  <2>7. IsFiniteSet(1..(k - 1)) /\ Cardinality(1..(k - 1)) = k - 1
    BY <2>6, FS_Interval
  <2>8. Cardinality(T) = k - 1
    BY <2>5, <2>7, FS_Bijection
  <2> QED
    BY <2>8 DEF T
<1>4. ASSUME NEW a \in S, NEW b \in S, a < b
      PROVE  Cardinality(Before(a)) # Cardinality(Before(b))
  <2>1. Before(a) \subseteq Before(b) /\ a \in Before(b) /\ a \notin Before(a)
    <3>1. a \in Nat /\ b \in Nat /\ ~(a < a)
      OBVIOUS
    <3>2. ASSUME NEW j \in S, j < a PROVE j < b
      <4>1. j \in Nat
        OBVIOUS
      <4> QED
        BY <1>4, <3>1, <3>2, <4>1
    <3> QED
      BY <1>4, <3>1, <3>2, Zenon
  <2> HIDE DEF Before
  <2>2. Before(a) # Before(b)
    BY <2>1
  <2>3. IsFiniteSet(Before(b))
    BY <1>1
  <2> QED
    <3>1. Before(a) \in SUBSET Before(b)
      BY <2>1
    <3> QED
      BY <2>2, <2>3, <3>1, FS_Subset
<1>5. ASSUME NEW s \in S, Cardinality(Before(s)) = k - 1 PROVE s = f[k]
  <2>1. Cardinality(Before(s)) = Cardinality(Before(f[k]))
    BY <1>3, <1>5
  <2>2. ~(s < f[k]) /\ ~(f[k] < s)
    BY <1>2, <1>4, <2>1
  <2> QED
    BY <1>2, <2>2
<1> QED
  BY <1>3, <1>5

(* The bytes of a token that was read are a string.                        *)
LEMMA TokenText ==
    ASSUME IInv, NEW begin, NEW next, NEW d,
           Facts!WasRead(d, text, from, begin, next, buffer), NEW m \in 1..Len(d)
    PROVE  CString(d[m].first) = d[m].text
<1>0. text \in Seq(Char \cup {NUL}) /\ max_length = Len(text) /\ max_length \in Nat
  BY Typed
<1>1. PICK first \in Nat, length \in Nat : first = d[m].first /\ length = Len(d[m].text)
  BY <1>0, Facts!TokensRise
<1>2. PICK behind \in Nat : behind = first + length
  BY <1>1
<1>3. /\ behind <= Len(text)
      /\ d[m].text = SubSeq(text, d[m].first + 1, d[m].first + Len(d[m].text))
      /\ \A k \in first..(behind - 1) : buffer[k] = text[k + 1] /\ buffer[k] # NUL
      /\ behind = Len(text) \/ buffer[behind] = NUL
  <2>1. text \in Seq(Char \cup {NUL})
    BY <1>0
  <2>2. /\ Facts!StandsIn(buffer, text, first, behind)
        /\ d[m].text = SubSeq(text, d[m].first + 1, d[m].first + Len(d[m].text))
    BY SMTT(30), <1>1, <1>2, <2>1, Facts!TokensStand
  <2> QED
    BY <2>2 DEF Facts!StandsIn
<1>4. first \in 0..max_length /\ behind \in first..max_length /\ behind - first = length
  BY <1>0, <1>2, <1>3
<1>5. CString(first) = [k \in 1..(behind - first) |-> buffer[first + k - 1]]
  BY <1>0, <1>3, <1>4, StringIs
<1>6. PICK part : part = d[m].text /\ part = SubSeq(text, first + 1, behind)
  BY <1>1, <1>2, <1>3
<1>7. /\ part \in Seq(Char \cup {NUL}) /\ Len(part) = length
      /\ \A k \in 1..length : part[k] = text[first + 1 + k - 1]
  <2>1. first + 1 \in Int /\ behind \in Int /\ \A k \in (first + 1)..behind : text[k] \in Char \cup {NUL}
    BY <1>0, <1>3
  <2>2. /\ part \in Seq(Char \cup {NUL})
        /\ Len(part) = IF first + 1 <= behind THEN behind - (first + 1) + 1 ELSE 0
        /\ \A k \in 1..(behind - (first + 1) + 1) : part[k] = text[first + 1 + k - 1]
    BY <1>6, <2>1, SubSeqProperties
  <2>3. behind - (first + 1) + 1 = length
    BY <1>2
  <2> QED
    BY <1>2, <2>2, <2>3
<1>8. part = [k \in 1..length |-> part[k]]
  BY <1>7
<1>9. ASSUME NEW k \in 1..length PROVE part[k] = buffer[first + k - 1]
  <2>1. first + k - 1 \in first..(behind - 1) /\ first + 1 + k - 1 = (first + k - 1) + 1
    BY <1>2
  <2> QED
    BY <1>3, <1>7, <2>1
<1>10. part = [k \in 1..length |-> buffer[first + k - 1]]
  BY <1>8, <1>9
<1> QED
  BY <1>1, <1>4, <1>5, <1>6, <1>10

(* operator[] finds the tokens behind the first, if none is empty.         *)
LEMMA ArgumentIs ==
    ASSUME IInv, NEW next, NEW d,
           Facts!WasRead(d, text, from, offset, next, buffer), arg_count = Len(d),
           \A m \in 1..Len(d) : Len(d[m].text) > 0, NEW k \in 2..Len(d)
    PROVE  ArgAt(k - 2) = d[k].first /\ ArgAt(k - 2) # nullptr
<1>0. /\ text \in Seq(Char \cup {NUL}) /\ max_length = Len(text) /\ max_length \in Nat
      /\ offset \in Nat /\ arg_count \in Nat /\ max_length <= 255
  BY Typed, TextAssumption DEF IInv, TypeOK, max_length
<1>1. PICK n \in Nat : n = Len(d) /\ n = arg_count
  BY <1>0
<1>2. /\ next \in offset..Len(text)
      /\ \A i1 \in 1..n :
            /\ d[i1].first \in Nat /\ Len(d[i1].text) \in Nat /\ offset <= d[i1].first
            /\ d[i1].first + Len(d[i1].text) <= next
            /\ \A j1 \in 1..n : i1 < j1 => d[i1].first + Len(d[i1].text) < d[j1].first
  BY <1>0, <1>1, Facts!TokensRise
<1>3. PICK f : f = [m \in 1..n |-> d[m].first]
  OBVIOUS
<1>4. \A m \in 1..n : f[m] = d[m].first /\ f[m] \in offset..(next - 1) /\ f[m] \in Nat
  <2> SUFFICES ASSUME NEW m \in 1..n
               PROVE  f[m] = d[m].first /\ f[m] \in offset..(next - 1) /\ f[m] \in Nat
    OBVIOUS
  <2>1. PICK a \in Nat, l \in Nat : a = d[m].first /\ l = Len(d[m].text) /\ l > 0
                                    /\ offset <= a /\ a + l <= next
    BY <1>1, <1>2
  <2>2. a \in offset..(next - 1)
    BY SMTT(30), <1>0, <1>2, <2>1
  <2> QED
    BY <1>3, <2>1, <2>2
<1>5. \A i1, j1 \in 1..n : i1 < j1 => f[i1] < f[j1]
  <2> SUFFICES ASSUME NEW i1 \in 1..n, NEW j1 \in 1..n, i1 < j1 PROVE f[i1] < f[j1]
    OBVIOUS
  <2>1. PICK a \in Nat, l \in Nat, b \in Nat : a = d[i1].first /\ l = Len(d[i1].text)
                                               /\ b = d[j1].first /\ a + l < b
    BY <1>2
  <2>2. a < b
    BY <2>1
  <2> QED
    BY <1>4, <2>1, <2>2
<1>6. PICK S : S = TokenStarts
  OBVIOUS
<1>7. /\ S \in SUBSET Nat
      /\ \A s \in S : s >= offset /\ s < max_length
      /\ \A s \in offset..(max_length - 1) :
            s \in S <=> buffer[s] # NUL /\ (s = offset \/ buffer[s - 1] = NUL)
  BY <1>0, <1>6 DEF TokenStarts
<1>8. ASSUME NEW s \in offset..(next - 1)
      PROVE  s \in S <=> \E m \in 1..n : s = f[m]
  <2>1. s \in offset..(max_length - 1)
    BY <1>0, <1>2
  <2>2. buffer[s] # NUL /\ (s = offset \/ buffer[s - 1] = NUL) <=> \E m \in 1..Len(d) : s = d[m].first
    <3>1. PICK T : text \in Seq(T)
      BY <1>0
    <3>2. PICK t \in Seq(T) : t = text
      BY <3>1
    <3>b. PICK b : b = buffer
      OBVIOUS
    <3>3. Facts!WasRead(d, t, from, offset, next, b)
      BY <3>2, <3>b
    <3>4. b[s] # NUL /\ (s = offset \/ b[s - 1] = NUL) <=> \E m \in 1..Len(d) : s = d[m].first
      BY <3>3, Facts!TokensBegin
    <3> QED
      BY <3>2, <3>b, <3>4
  <2> QED
    BY <1>1, <1>4, <1>7, <2>1, <2>2
<1>9. f \in [1..n -> S]
  <2>1. \A m \in 1..n : f[m] \in S
    BY <1>4, <1>8
  <2> QED
    BY <1>3, <2>1
<1>10. k \in 1..n /\ k \in Nat /\ k >= 2 /\ k <= n
  BY <1>1
<1>11. \A s \in S : s < f[k] => \E m \in 1..n : s = f[m]
  <2> SUFFICES ASSUME NEW s \in S, s < f[k] PROVE \E m \in 1..n : s = f[m]
    OBVIOUS
  <2>1. f[k] \in offset..(next - 1) /\ s \in Nat /\ s >= offset
    BY <1>4, <1>7, <1>10
  <2>2. s \in offset..(next - 1)
    BY <1>0, <1>2, <2>1
  <2> QED
    BY <1>8, <2>2
<1>12. \A s \in S : Cardinality({j \in S : j < s}) = k - 1 <=> s = f[k]
  <2>1. ListsTo(k, n, f, S)
    BY <1>5, <1>7, <1>9, <1>10, <1>11 DEF ListsTo
  <2> QED
    BY <2>1, RankIs
<1>13. f[k] \in S /\ f[k] # nullptr
  <2>1. f[k] \in S
    BY <1>9, <1>10
  <2>2. f[k] \in Nat /\ f[k] < 255
    <3>1. PICK a \in Nat : a = f[k] /\ a < max_length
      BY <1>4, <1>7, <1>10, <2>1
    <3> QED
      BY <1>0, <3>1
  <2> QED
    BY <2>1, <2>2 DEF nullptr
<1>14. (k - 2) + 1 = k - 1 /\ ~(arg_count = 0 \/ k - 2 >= arg_count - 1)
  BY <1>1, <1>10
<1> DEFINE found == {z \in TokenStarts : Cardinality({j \in TokenStarts : j < z}) = (k - 2) + 1}
<1>15. found = {f[k]}
  <2>1. found = {z \in S : Cardinality({j \in S : j < z}) = k - 1}
    BY <1>6, <1>14
  <2> HIDE DEF found
  <2> QED
    BY <1>12, <1>13, <2>1
<1>16. ArgAt(k - 2) = IF arg_count = 0 \/ k - 2 >= arg_count - 1 \/ found = {}
                      THEN nullptr ELSE CHOOSE z \in found : TRUE
  BY Zenon DEF ArgAt
<1> HIDE DEF found
<1>17. ArgAt(k - 2) = f[k]
  BY <1>14, <1>15, <1>16
<1> QED
  BY <1>4, <1>10, <1>13, <1>17

(* The segment as the command line has it.                                 *)
LEMMA SegmentParts ==
    ASSUME IInv, NEW begin, begin = Facts!SegmentBegin(text, from),
           NEW d, d = Facts!Tokens(text, begin)
    PROVE  /\ begin \in 0..Len(text) /\ Len(d) \in Nat
           /\ L!Segment(text, from).kind = Facts!Ending(text, begin).kind
           /\ L!Segment(text, from).next = Facts!Ending(text, begin).next
           /\ Facts!Ending(text, begin).kind # "ParseError" =>
                 /\ Len(L!Segment(text, from).tokens) = Len(d)
                 /\ L!Segment(text, from).tokens = [m \in 1..Len(d) |-> d[m].text]
<1>0. /\ text \in Seq(Char \cup {NUL}) /\ max_length = Len(text) /\ max_length \in Nat
      /\ from \in 0..Len(text) /\ ~(from > Len(text))
  <2>1. /\ text \in Seq(Char \cup {NUL}) /\ max_length = Len(text) /\ max_length \in Nat
        /\ i \in Nat /\ i <= max_length /\ from \in Nat /\ from <= i
    BY Typed
  <2> QED
    BY <2>1
<1>1. begin \in 0..Len(text)
  <2>1. begin \in from..Len(text)
    BY <1>0, Facts!SegmentBeginInLine
  <2> QED
    BY <1>0, <2>1
<1>2. PICK n \in Nat : n = Len(d)
  <2>1. d \in Seq({Facts!Token(text, k) : k \in 0..Len(text)})
    BY <1>0, <1>1, Facts!TokensRead
  <2> QED
    BY <2>1
<1>3. Facts!Segment(text, from) = Facts!SegmentWith(Facts!Ending(text, begin), d)
  BY <1>0 DEF Facts!Segment
<1>4. L!Segment(text, from) =
        [kind |-> Facts!Ending(text, begin).kind, next |-> Facts!Ending(text, begin).next,
         tokens |-> IF Facts!Ending(text, begin).kind = "ParseError" THEN <<>>
                    ELSE [m \in 1..Len(d) |-> d[m].text]]
  BY <1>3, SameSegments, Zenon DEF Facts!SegmentWith
<1>5. Len([m \in 1..n |-> d[m].text]) = n
  OBVIOUS
<1> QED
  BY <1>1, <1>2, <1>4, <1>5

(* The first token is the command, unless it is quoted.                    *)
LEMMA CommandIs ==
    ASSUME IInv, NEW next, NEW d, offset = Facts!SegmentBegin(text, from),
           Facts!WasRead(d, text, from, offset, next, buffer), arg_count = Len(d),
           arg_count = 0 => Facts!Ends(text, offset)
    PROVE  command = L!CommandOf(text, from)
<1>0. /\ text \in Seq(Char \cup {NUL}) /\ max_length = Len(text) /\ max_length \in Nat
      /\ offset \in Nat /\ arg_count \in Nat /\ from \in Nat /\ from \in 0..Len(text)
  <2>1. /\ text \in Seq(Char \cup {NUL}) /\ max_length = Len(text) /\ max_length \in Nat
        /\ i \in Nat /\ i <= max_length /\ from \in Nat /\ from <= i
        /\ offset \in Nat /\ arg_count \in Nat
    BY Typed
  <2> QED
    BY <2>1
<1>1. d = Facts!Tokens(text, offset) /\ offset \in from..Len(text)
      /\ Facts!Ending(text, offset).kind # "ParseError"
  BY DEF Facts!WasRead
<1>2. PICK n \in Nat : n = Len(d) /\ n = arg_count
  BY <1>0
<1>3. PICK tokens : tokens = L!Segment(text, from).tokens /\ tokens = [m \in 1..n |-> d[m].text]
  <2>1. L!Segment(text, from).tokens = [m \in 1..Len(d) |-> d[m].text]
    BY <1>1, SegmentParts
  <2> QED
    BY <1>2, <2>1
<1>4. L!CommandOf(text, from) = IF tokens = <<>> \/ Facts!IsQuoteAt(text, offset)
                                THEN <<>> ELSE Head(tokens)
  BY <1>3, SameSegments, Zenon DEF L!CommandOf
<1>5. offset \in 0..max_length /\ offset \in offset..max_length /\ \A k \in offset..(offset - 1) : FALSE
  BY <1>0, <1>1
<1>6. ASSUME offset < max_length => buffer[offset] = NUL PROVE command = <<>>
  <2>1. CASE offset >= max_length
    BY <2>1 DEF command
  <2>2. CASE ~(offset >= max_length)
    <3>1. buffer[offset] = NUL
      BY <1>0, <1>6, <2>2
    <3>2. CString(offset) = [k \in 1..(offset - offset) |-> buffer[offset + k - 1]]
      BY <1>0, <1>5, <3>1, StringIs
    <3>3. 1..(offset - offset) = {}
      BY <1>0
    <3>4. [k \in 1..(offset - offset) |-> buffer[offset + k - 1]] = <<>>
      BY <3>3
    <3> QED
      BY <2>2, <3>2, <3>4 DEF command
  <2> QED
    BY <2>1, <2>2
<1>7. CASE n = 0
  <2>1. tokens = <<>>
    BY <1>3, <1>7
  <2>2. offset < max_length => buffer[offset] = NUL
    <3> SUFFICES ASSUME offset < max_length PROVE buffer[offset] = NUL
      OBVIOUS
    <3>1. text[offset + 1] = NUL
      BY <1>0, <1>2, <1>7 DEF Facts!Ends
    <3>2. offset \in Index
      BY <1>0 DEF Index
    <3> QED
      BY <3>1, <3>2 DEF IInv, LaterSegmentsIntact
  <2> QED
    BY <1>4, <1>6, <2>1, <2>2
<1>8. CASE n # 0
  <2>1. 1 \in 1..n /\ d # <<>> /\ tokens # <<>> /\ Head(tokens) = d[1].text
    <3>1. 1 \in 1..n
      BY <1>8
    <3>2. d # <<>>
      <4>1. Len(<<>>) = 0
        OBVIOUS
      <4> QED
        BY <1>2, <1>8, <4>1
    <3>3. Len(tokens) = n /\ tokens[1] = d[1].text
      BY <1>3, <3>1
    <3>4. tokens # <<>>
      <4>1. Len(<<>>) = 0
        OBVIOUS
      <4> QED
        BY <1>8, <3>3, <4>1
    <3>5. Head(tokens) = tokens[1]
      BY <1>3, <3>4
    <3> QED
      BY <3>1, <3>2, <3>3, <3>4, <3>5
  <2>2. ~Facts!Breaks(text, offset)
    <3>1. ~Facts!IsLeading(text, offset)
      BY <1>0, Facts!SegmentBeginStands
    <3>2. ~Facts!Ends(text, offset)
      BY <1>0, <1>1, <1>5, <2>1, Facts!TokensUnfold
    <3> QED
      BY <3>1, <3>2 DEF Facts!Breaks, Facts!IsLeading
  <2>3. PICK token : token = Facts!Token(text, offset) /\ d[1] = token
    <3>1. Facts!Tokens(text, offset) = IF Facts!Token(text, offset).wellFormed
            THEN <<Facts!Token(text, offset)>> \o Facts!Tokens(text, Facts!Token(text, offset).next)
            ELSE <<>>
      BY <1>0, <1>5, <2>2, Facts!TokensUnfold
    <3>2. PICK token : token = Facts!Token(text, offset)
      OBVIOUS
    <3>3. token.wellFormed /\ d = <<token>> \o Facts!Tokens(text, token.next)
      BY <1>1, <2>1, <3>1, <3>2
    <3>4. token.next \in 0..Len(text)
      <4>1. ~Facts!Ends(text, offset) /\ offset \in Nat /\ Len(text) \in Nat
        BY <1>0, <2>2 DEF Facts!Breaks
      <4>2. token.next \in (offset + 1)..Len(text)
        BY <3>2, <3>3, <4>1, Facts!TokenInLine
      <4> QED
        BY <1>0, <4>2
    <3>5. PICK V : Facts!Tokens(text, token.next) \in Seq(V)
      BY <1>0, <3>4, Facts!TokensRead
    <3>6. d[1] = token
      BY <3>3, <3>5
    <3> QED
      BY <3>2, <3>6
  <2>4. offset < Len(text)
    BY <1>0, <2>2 DEF Facts!Breaks, Facts!Ends
  <2>5. CASE Facts!IsQuoteAt(text, offset)
    <3>1. PICK stop : /\ Facts!IsFirst(stop, offset + 1, Len(text), Facts!Closing(text, offset))
                      /\ Facts!Token(text, offset) = Facts!QuotedToken(text, offset, stop)
      BY <1>0, <2>4, <2>5, Facts!QuotedStops
    <3>2. stop \in Nat /\ offset < stop /\ stop <= Len(text)
      BY <1>0, <3>1 DEF Facts!IsFirst
    <3>3. d[1].first = offset + 1
      BY <1>0, <2>3, <3>1, <3>2, Facts!QuotedParts
    <3>4. /\ next \in offset..Len(text)
          /\ \A m \in 1..n :
                /\ d[m].first \in Nat /\ Len(d[m].text) \in Nat
                /\ d[m].first + Len(d[m].text) <= next
                /\ \A j \in 1..n : m < j => d[m].first + Len(d[m].text) < d[j].first
      BY <1>0, <1>2, Facts!TokensRise
    <3>5. PICK a \in Nat, l \in Nat : a = d[1].first /\ l = Len(d[1].text) /\ a + l <= next
      BY <2>1, <3>4
    <3>6. offset < next
      BY <1>0, <3>3, <3>4, <3>5
    <3>7. ~Facts!Held(d, offset)
      <4> SUFFICES ASSUME NEW m \in 1..n PROVE offset \notin Facts!KeptBytes(d[m])
        BY <1>2 DEF Facts!Held
      <4>1. PICK c \in Nat, h \in Nat : c = d[m].first /\ h = Len(d[m].text)
        BY <3>4
      <4>2. offset < c
        <5>1. m = 1 => offset < c
          BY <1>0, <3>3, <4>1
        <5>2. 1 < m => a + l < c
          BY <2>1, <3>4, <3>5, <4>1
        <5>3. a = offset + 1
          BY <3>3, <3>5
        <5> QED
          BY <1>0, <5>1, <5>2, <5>3
      <4>3. Facts!KeptBytes(d[m]) = c..(c + h - 1)
        BY <4>1, Facts!KeptIs
      <4> QED
        BY <1>0, <4>2, <4>3
    <3>8. buffer[offset] = NUL
      <4>1. Facts!Leaves(d, text, from, next, buffer) /\ offset \in from..(Len(text) - 1)
        BY <1>0, <1>1, <2>4 DEF Facts!WasRead
      <4> QED
        BY <3>6, <3>7, <4>1 DEF Facts!Leaves
    <3> QED
      BY <1>4, <1>6, <2>5, <3>8
  <2>6. CASE ~Facts!IsQuoteAt(text, offset)
    <3>1. PICK stop : /\ Facts!IsFirst(stop, offset + 1, Len(text), Facts!Breaking(text))
                      /\ Facts!Token(text, offset) = Facts!BareToken(text, offset, stop)
      BY <1>0, <2>4, <2>6, Facts!BareStops
    <3>2. stop \in Nat /\ offset < stop /\ stop <= Len(text)
      BY <1>0, <3>1 DEF Facts!IsFirst
    <3>3. d[1].first = offset
      BY <1>0, <2>3, <3>1, <3>2, Facts!BareParts
    <3>4. CString(offset) = d[1].text
      BY <1>2, <2>1, <3>3, TokenText
    <3>5. command = CString(offset)
      BY <1>0, <2>4 DEF command
    <3> QED
      BY <1>4, <2>1, <2>6, <3>4, <3>5
  <2> QED
    BY <2>5, <2>6
<1> QED
  BY <1>7, <1>8

(* What the parser read is what the command line says.                     *)
LEMMA PInvImplies == IInv /\ PInv => SegmentAsWritten
<1> SUFFICES ASSUME IInv, PInv, terminator \in Terminator PROVE SegmentAsWritten
  BY DEF SegmentAsWritten, Terminator
<1>1. PICK begin, next : Over(begin, next)
  BY DEF PInv
<1>2. PICK d : d = Facts!Tokens(text, begin)
  OBVIOUS
<1>3. /\ begin = Facts!SegmentBegin(text, from)
      /\ Facts!Ending(text, begin).kind = terminator /\ Facts!Ending(text, begin).next = next
      /\ Facts!Leaves(d, text, from, next, buffer)
      /\ terminator = "ParseError" => slice_offset = from
      /\ terminator # "ParseError" =>
            /\ Facts!WasRead(d, text, from, begin, next, buffer)
            /\ slice_offset = next /\ offset = begin /\ arg_count = Len(d)
            /\ arg_count = 0 => Facts!Ends(text, begin)
  BY <1>1, <1>2 DEF Over
<1>4. PICK seg : seg = L!Segment(text, from)
  OBVIOUS
<1>5. /\ Len(d) \in Nat
      /\ seg.kind = Facts!Ending(text, begin).kind /\ seg.next = Facts!Ending(text, begin).next
      /\ Facts!Ending(text, begin).kind # "ParseError" =>
            /\ Len(seg.tokens) = Len(d)
            /\ seg.tokens = [m \in 1..Len(d) |-> d[m].text]
  BY <1>2, <1>3, <1>4, SegmentParts
<1>6. ASSUME NEW k \in from..(max_length - 1)
      PROVE  buffer[k] = IF k \in L!Erased(text, from) THEN NUL ELSE text[k + 1]
  <2>1. k \in L!Erased(text, from) <=> k \in from..(next - 1) /\ ~Facts!Held(d, k)
    BY <1>2, <1>3, SameSegments, Facts!ErasedIs
  <2>2. buffer[k] = IF k < next /\ ~Facts!Held(d, k) THEN NUL ELSE text[k + 1]
    BY <1>3, Typed DEF Facts!Leaves
  <2>3. k \in from..(next - 1) <=> k < next
    <3>1. begin \in 0..Len(text) /\ Len(text) \in Nat /\ from \in Nat
      BY <1>2, <1>3, SegmentParts, Typed
    <3>2. next \in Nat
      <4>1. Facts!Ending(text, begin).next \in begin..Len(text)
        BY <3>1, Facts!EndingInLine
      <4> QED
        BY <1>3, <3>1, <4>1
    <3> QED
      BY <3>1, <3>2
  <2> QED
    BY <2>1, <2>2, <2>3
<1>7. CASE terminator = "ParseError"
  BY <1>3, <1>4, <1>5, <1>6, <1>7 DEF SegmentAsWritten
<1>8. CASE terminator # "ParseError"
  <2>1. ~QuotedFirst => command = FirstToken(seg)
    <3>1. command = L!CommandOf(text, from)
      BY <1>3, <1>8, CommandIs
    <3>2. L!CommandOf(text, from) =
             IF seg.tokens = <<>> \/ QuotedFirst THEN <<>> ELSE Head(seg.tokens)
      BY <1>4, Zenon DEF L!CommandOf, QuotedFirst
    <3> QED
      BY <3>1, <3>2 DEF FirstToken
  <2>2. PICK n \in Nat : n = Len(d)
    BY <1>5
  <2>3. PICK tokens : /\ tokens = seg.tokens /\ tokens = [m \in 1..n |-> d[m].text]
                      /\ Len(tokens) = n
    BY <1>3, <1>5, <1>8, <2>2
  <2>4. PICK written : written = L!ArgumentsOf(text, from)
                       /\ written = IF tokens = <<>> THEN <<>> ELSE Tail(tokens)
    BY <1>4, <2>3, Zenon DEF L!ArgumentsOf
  <2>5. ASSUME \A m \in 1..n : tokens[m] # <<>>, NEW k \in 1..Len(written)
        PROVE  ArgAt(k - 1) # nullptr /\ CString(ArgAt(k - 1)) = written[k]
    <3>1. Len(<<>>) = 0 /\ \A m \in 1..0 : FALSE
      OBVIOUS
    <3>2. tokens # <<>> /\ written = Tail(tokens)
      BY <2>4, <2>5, <3>1
    <3>3. PICK S : tokens \in Seq(S)
      <4>1. tokens \in Seq({d[m].text : m \in 1..n})
        BY <2>3
      <4> QED
        BY <4>1
    <3>4. Len(written) = n - 1 /\ \A m \in 1..Len(written) : written[m] = tokens[m + 1]
      BY <2>3, <3>2, <3>3, HeadTailProperties
    <3>5. k + 1 \in 2..n /\ k + 1 \in 1..n /\ (k + 1) - 2 = k - 1 /\ written[k] = d[k + 1].text
      BY <2>2, <2>3, <3>4
    <3>6. ASSUME NEW m \in 1..Len(d) PROVE Len(d[m].text) > 0
      <4>1. Facts!WasRead(d, text, from, begin, next, buffer)
        BY <1>3, <1>8
      <4>2. text \in Seq(Char \cup {NUL})
        BY Typed
      <4>3. \A i1 \in 1..Len(d) : d[i1].first \in Nat /\ Len(d[i1].text) \in Nat
        BY <4>1, <4>2, Facts!TokensRise
      <4>4. PICK l \in Nat : l = Len(d[m].text)
        BY <4>3
      <4>5. PICK part : part = d[m].text /\ part # <<>>
        BY <2>2, <2>3, <2>5
      <4>6. \E k1 \in Nat : Facts!Place(d[m], text, k1)
        BY <4>1 DEF Facts!WasRead
      <4>7. PICK a \in Nat : a = d[m].first /\ part = SubSeq(text, a + 1, a + l)
        BY <4>3, <4>4, <4>5, <4>6 DEF Facts!Place
      <4>8. l = 0 => part = <<>>
        <5>1. l = 0 => a + l < a + 1 /\ a + 1 \in Int /\ a + l \in Int
          OBVIOUS
        <5> QED
          BY <4>7, <5>1, SubSeqEmpty
      <4> QED
        BY <4>4, <4>5, <4>8
    <3>7. ArgAt(k - 1) = d[k + 1].first /\ ArgAt(k - 1) # nullptr
      <4>1. PICK k2 \in 2..Len(d) : k2 = k + 1 /\ k2 - 2 = k - 1
        BY <2>2, <3>5
      <4>2. Facts!WasRead(d, text, from, offset, next, buffer) /\ arg_count = Len(d)
        BY <1>3, <1>8
      <4>3. ArgAt(k2 - 2) = d[k2].first /\ ArgAt(k2 - 2) # nullptr
        BY <3>6, <4>2, ArgumentIs
      <4> QED
        BY <4>1, <4>3
    <3>8. CString(d[k + 1].first) = d[k + 1].text
      BY <1>3, <1>8, <2>2, <3>5, TokenText
    <3> QED
      BY <3>5, <3>7, <3>8
  <2>6. /\ terminator = seg.kind /\ slice_offset = seg.next /\ arg_count = Len(seg.tokens)
        /\ Len(seg.tokens) = n /\ seg.tokens = tokens
    BY <1>3, <1>5, <1>8, <2>2, <2>3
  <2> QED
    BY <1>4, <1>6, <1>8, <2>1, <2>4, <2>5, <2>6 DEF SegmentAsWritten
<1> QED
  BY <1>7, <1>8

(* Whatever the line, every call of parse() reports its segment as it is   *)
(* written: how the segment ends, where the next one begins or that a      *)
(* quote is malformed, how many tokens there are, its command unless that  *)
(* is quoted, and, unless a token is empty, each argument as the accessors *)
(* read it in the overwritten line.                                        *)
THEOREM CallsReportTheSegment == Spec => []SegmentAsWritten
<1>1. Init => PInv
  BY DEF Init, PInv, Terminator
<1> QED
  BY <1>1, InitInv, NextInv, NextReads, PInvImplies, PTL DEF Spec

=============================================================================
