---------------------------- MODULE DocumentText -----------------------------
(***************************************************************************)
(* Incremental synchronisation of one document (src/src/document.rs): the  *)
(* client edits its text and describes each change by a range in lines and *)
(* UTF-16 units; the server turns the range into byte offsets, splices its *)
(* UTF-8 text, rebuilds the line index and re-parses incrementally.        *)
(*                                                                         *)
(* A text of the client is a sequence of characters of four kinds: "a" of  *)
(* one byte, "e" of two bytes, "g" of four bytes and two UTF-16 units, and *)
(* the newline "n".  The server's text is the sequence of its bytes; a     *)
(* byte is the character it belongs to and its place in it.  The tree is   *)
(* represented by the bytes its nodes stand for.                           *)
(***************************************************************************)
EXTENDS Integers, Sequences, FiniteSets, FiniteSetsExt

CONSTANTS
    MaxLen,     \* bound of the model: characters of a text
    MaxPending, \* bound of the model: changes of one didChange
    Inserts     \* texts the client types

Chars == {"a", "e", "g", "n"}

ASSUME MaxLenType     == MaxLen \in Nat
ASSUME MaxPendingType == MaxPending \in Nat
ASSUME InsertsType    == Inserts \subseteq Seq(Chars)

ByteLen(c) == CASE c = "e" -> 2 [] c = "g" -> 4 [] OTHER -> 1

\* The characters from + 1 to to that are c, counted.
Occurrences(t, c, from, to) == Cardinality({j \in (from + 1)..to : t[j] = c})

\* The bytes of the first i characters: one each, one more for "e", three for "g".
ByteOffset(t, i) == i + Occurrences(t, "e", 0, i) + 3 * Occurrences(t, "g", 0, i)

\* The character a byte belongs to.
CharOf(t, o) ==
    CHOOSE i \in 1..Len(t) : ByteOffset(t, i - 1) < o /\ o <= ByteOffset(t, i)

Encode(t) ==
    [o \in 1..ByteOffset(t, Len(t)) |->
        LET i == CharOf(t, o) IN <<t[i], o - ByteOffset(t, i - 1)>>]

\* Bytes from..to of a sequence are replaced.
Splice(s, from, to, new) == SubSeq(s, 1, from) \o new \o SubSeq(s, to + 1, Len(s))

VARIABLES
    text,       \* the client's text
    pending,    \* changes the client has made and the server has not applied
    bytes,      \* Document::text
    index,      \* Document::line_index, represented by the bytes it was built from
    tree,       \* Document::tree, represented by the bytes its nodes stand for
    isAscii,    \* Document::is_ascii
    panicked    \* replace_range was called outside the text or within a character

vars == <<text, pending, bytes, index, tree, isAscii, panicked>>

-----------------------------------------------------------------------------
(* The line_index crate, version 0.1.2.                                    *)

LineStarts(b) == {0} \union {o \in 1..Len(b) : b[o] = <<"n", 1>>}

LineOf(b, offset) == Cardinality({s \in LineStarts(b) : 0 < s /\ s <= offset})

\* The offset at which a line begins, or -1.
StartOffset(b, line) ==
    LET here == {s \in LineStarts(b) : LineOf(b, s) = line}
    IN  IF here = {} THEN -1 ELSE CHOOSE s \in here : TRUE

\* The characters of a line that are not ASCII, by the offset of their first byte.
WideChars(b, line) ==
    {o \in 0..(Len(b) - 1) : b[o + 1] \in {<<"e", 1>>, <<"g", 1>>} /\ LineOf(b, o) = line}

\* The bytes that a set of wide characters takes beyond its UTF-16 units.
Shift(b, wide) ==
    Cardinality({o \in wide : b[o + 1][1] = "e"}) +
    2 * Cardinality({o \in wide : b[o + 1][1] = "g"})

\* to_wide: a byte column is moved back by every wide character that ends before it.
ToWide(b, line, col) ==
    LET start  == StartOffset(b, line)
        end(o) == o - start + ByteLen(b[o + 1][1])
    IN  col - Shift(b, {o \in WideChars(b, line) : end(o) <= col})

\* to_utf8: a UTF-16 column is moved on by every wide character that begins before it.
ToUtf8(b, pos) ==
    LET start    == StartOffset(b, pos.line)
        begin(o) == ToWide(b, pos.line, o - start)
    IN  pos.character + Shift(b, {o \in WideChars(b, pos.line) : begin(o) < pos.character})

-----------------------------------------------------------------------------
(* Positions.                                                              *)

\* Mutant of OffsetOf: a UTF-16 column is taken for a byte offset.
OffsetInUnits(b, pos) ==
    LET start == StartOffset(b, pos.line)
    IN  IF start = -1 THEN Len(b) ELSE start + pos.character

\* from_lsp_position: a line beyond the text is its end.
OffsetOf(b, pos) ==
    LET start == StartOffset(b, pos.line)
    IN  IF start = -1 THEN Len(b) ELSE start + ToUtf8(b, pos)

\* byte_to_point: a tree-sitter point counts bytes.
ByteToPoint(b, offset) ==
    LET line == LineOf(b, offset) IN [row |-> line, column |-> offset - StartOffset(b, line)]

\* to_lsp_position.
PositionOf(b, offset) ==
    LET p == ByteToPoint(b, offset)
    IN  [line |-> p.row, character |-> ToWide(b, p.row, p.column)]

\* point_to_position: the columns of an ASCII document need no conversion.
PointToPosition(b, ascii, p) ==
    [line |-> p.row,
     character |-> IF ascii THEN p.column ELSE ToWide(b, p.row, p.column)]

AllAscii(b) == \A i \in DOMAIN b : b[i][1] \in {"a", "n"}

-----------------------------------------------------------------------------
(* The client.                                                             *)

\* Where the client sees the position before its (i + 1)-st character.
ClientPosition(t, i) ==
    LET breaks == {j \in 1..i : t[j] = "n"}
        begin  == IF breaks = {} THEN 0 ELSE Max(breaks)
    IN  [line |-> Occurrences(t, "n", 0, i),
         character |-> (i - begin) + Occurrences(t, "g", begin, i)]

\* How the client may write a position; the end also as a line of its own.
Positions(t, i) ==
    {ClientPosition(t, i)} \union
    (IF i = Len(t) THEN {[line |-> ClientPosition(t, i).line + 1, character |-> 0]} ELSE {})

Init ==
    /\ text \in Inserts
    /\ pending = <<>>
    /\ bytes = Encode(text)
    /\ index = bytes
    /\ tree = bytes
    /\ isAscii = AllAscii(bytes)
    /\ panicked = FALSE

\* A change of a range, relative to the text after the changes before it.
Type(from, to, new) ==
    /\ Len(pending) < MaxPending
    /\ Len(text) - (to - from) + Len(new) <= MaxLen
    /\ text' = Splice(text, from, to, new)
    /\ \E end \in Positions(text, to) :
          pending' = Append(pending, [start |-> ClientPosition(text, from), end |-> end,
                                      new |-> Encode(new)])
    /\ UNCHANGED <<bytes, index, tree, isAscii, panicked>>

\* A change without a range.
Replace(new) ==
    /\ Len(pending) < MaxPending
    /\ text' = new
    /\ pending' = Append(pending, [all |-> Encode(new)])
    /\ UNCHANGED <<bytes, index, tree, isAscii, panicked>>

-----------------------------------------------------------------------------
(* The server: one change of the loop in on_did_change.                    *)

Boundary(b, offset) == offset = Len(b) \/ (offset < Len(b) /\ b[offset + 1][2] = 1)

\* The edit tree-sitter is told about.
InputEdit(old, new, from, to, newEnd) ==
    [startByte |-> from, oldEndByte |-> to, newEndByte |-> newEnd,
     startPosition |-> ByteToPoint(old, from), oldEndPosition |-> ByteToPoint(old, to),
     newEndPosition |-> ByteToPoint(new, newEnd)]

\* The bytes up to a point, counted in lines.
ByteOfPoint(b, p) == StartOffset(b, p.row) + p.column

\* tree.edit and reparse: nodes outside the edited range are kept, the range is
\* parsed anew.  The points and the bytes of the edit must be the same places.
Reparse(nodes, source, e) ==
    IF /\ ByteOfPoint(nodes, e.startPosition) = e.startByte
       /\ ByteOfPoint(nodes, e.oldEndPosition) = e.oldEndByte
       /\ ByteOfPoint(source, e.newEndPosition) = e.newEndByte
    THEN Splice(nodes, e.startByte, e.oldEndByte,
                SubSeq(source, e.startByte + 1, e.newEndByte))
    ELSE <<>>

\* Mutant of ApplyEdit: the flag of the previous text is kept.
ApplyEditKeepsAscii ==
    /\ pending # <<>>
    /\ "all" \notin DOMAIN Head(pending)
    /\ LET change == Head(pending)
           from   == OffsetOf(index, change.start)
           to     == OffsetOf(index, change.end)
       IN  /\ bytes' = Splice(bytes, from, to, change.new)
           /\ tree' = Reparse(tree, bytes', InputEdit(index, bytes', from, to,
                                                      from + Len(change.new)))
    /\ index' = bytes'
    /\ pending' = Tail(pending)
    /\ UNCHANGED <<text, isAscii, panicked>>

\* Mutant of ApplyEdit: the line index of the old text is kept for the next change.
ApplyEditKeepsIndex ==
    /\ pending # <<>>
    /\ ~panicked
    /\ "all" \notin DOMAIN Head(pending)
    /\ LET change == Head(pending)
           from   == OffsetOf(index, change.start)
           to     == OffsetOf(index, change.end)
       IN  /\ from <= to /\ to <= Len(bytes)
           /\ bytes' = Splice(bytes, from, to, change.new)
           /\ tree' = bytes'
    /\ isAscii' = AllAscii(bytes')
    /\ pending' = Tail(pending)
    /\ UNCHANGED <<text, index, panicked>>

ApplyEdit ==
    /\ pending # <<>>
    /\ ~panicked
    /\ "all" \notin DOMAIN Head(pending)
    /\ LET change == Head(pending)
           from   == OffsetOf(index, change.start)
           to     == OffsetOf(index, change.end)
       IN  IF from <= to /\ Boundary(bytes, from) /\ Boundary(bytes, to)
           THEN /\ bytes' = Splice(bytes, from, to, change.new)
                /\ index' = bytes'
                /\ tree' = Reparse(tree, bytes', InputEdit(index, bytes', from, to,
                                                           from + Len(change.new)))
                /\ isAscii' = AllAscii(bytes')
                /\ UNCHANGED panicked
           ELSE /\ panicked' = TRUE
                /\ UNCHANGED <<bytes, index, tree, isAscii>>
    /\ pending' = Tail(pending)
    /\ UNCHANGED text

ReplaceFull ==
    /\ pending # <<>>
    /\ ~panicked
    /\ "all" \in DOMAIN Head(pending)
    /\ bytes' = Head(pending).all
    /\ index' = bytes'
    /\ tree' = bytes'
    /\ isAscii' = AllAscii(bytes')
    /\ pending' = Tail(pending)
    /\ UNCHANGED <<text, panicked>>

Next ==
    \/ \E from, to \in 0..Len(text), new \in Inserts : from <= to /\ Type(from, to, new)
    \/ \E new \in Inserts : Replace(new)
    \/ ApplyEdit
    \/ ReplaceFull

Spec == Init /\ [][Next]_vars

-----------------------------------------------------------------------------
\* When every change has been applied the server has the client's text, and the
\* tree and the line index are those of that text, whatever the widths of the
\* characters before and inside the edited ranges (apply_edit, "Order matters").
InSync == pending = <<>> => bytes = Encode(text) /\ tree = bytes /\ index = bytes

\* A client that sends positions of its own text never makes replace_range
\* panic, however many changes are under way.
NoPanic == ~panicked

\* For every character of the text, the position shown to the client is the one
\* the client has for it, by both of the conversions, and leads back to the same
\* byte: neither the ASCII short cut nor the line index is that of an older text.
PositionsAgree ==
    pending = <<>> =>
        \A i \in 0..Len(text) :
            LET offset == Len(Encode(SubSeq(text, 1, i)))
                p      == ClientPosition(text, i)
            IN  /\ PositionOf(index, offset) = p
                /\ PointToPosition(index, isAscii, ByteToPoint(bytes, offset)) = p
                /\ OffsetOf(index, p) = offset
=============================================================================
