-------------------------- MODULE CaretEditingProofs --------------------------
(***************************************************************************)
(* Where the caret and the selection are while the text changes: for every *)
(* text, every clipboard and every sequence of keys.                       *)
(***************************************************************************)
EXTENDS CaretEditing, TextBufferProofs

-----------------------------------------------------------------------------
(***************************************************************************)
(* A buffer whose lines are in a closed set W: its fields, and a state of  *)
(* each of its paragraphs.  The set is all the lines of bytes, or those of *)
(* them that are UTF-8; the same lemmas serve both.                        *)
(***************************************************************************)
IsBuffer(b) ==
  b = [lines |-> b.lines, formats |-> b.formats,
       pageBreakBefore |-> b.pageBreakBefore, alignment |-> b.alignment,
       listLevel |-> b.listLevel, anchors |-> b.anchors]

Levels == {v \in Nat : v % NumberedFlag \in 0 .. MaxListLevel}

Paragraphs(b, n) ==
  /\ b.pageBreakBefore \in Seq(BOOLEAN) /\ Len(b.pageBreakBefore) = n
  /\ b.alignment \in Seq({"left"}) /\ Len(b.alignment) = n
  /\ b.listLevel \in Seq(Levels) /\ Len(b.listLevel) = n

Sound(W, b) ==
  /\ IsBuffer(b)
  /\ b.lines \in Seq(W) /\ b.lines # << >>
  /\ Paragraphs(b, Len(b.lines))

\* A set of lines that has all that is typed and pasted.
Lines(W) ==
  /\ Closed(W, Bytes)
  /\ \A ch \in Typed : <<ch>> \in W
  /\ TabText \in W
  /\ Texts \subseteq Seq(W)

\* A buffer that is sound, with a place that cuts a line of it within W.
SoundAt(W, b, row, col) == Sound(W, b) /\ CaretIn(W, b.lines, row, col)

\* A plain paragraph has a level.
LEMMA PlainLevel == 0 \in Levels
<1>1. MaxListLevel \in Nat
  BY LevelsAssumption DEF NumberedFlag
<1>2. 0 % NumberedFlag = 0
  BY DEF NumberedFlag
<1>3. QED
  BY <1>1, <1>2 DEF Levels

\* The text and its formats are set, the paragraphs stay.
WithText(b, x, y) == [b EXCEPT !.lines = x, !.formats = y]

\* What is set, and what stays.
LEMMA TextSet ==
  ASSUME NEW b, IsBuffer(b), NEW x, NEW y
  PROVE  /\ IsBuffer(WithText(b, x, y)) /\ WithText(b, x, y).lines = x
         /\ WithText(b, x, y).pageBreakBefore = b.pageBreakBefore
         /\ WithText(b, x, y).alignment = b.alignment
         /\ WithText(b, x, y).listLevel = b.listLevel
<1> DEFINE l == b.lines
           f == b.formats
           p == b.pageBreakBefore
           a == b.alignment
           v == b.listLevel
           n == b.anchors
<1>1. b = [lines |-> l, formats |-> f, pageBreakBefore |-> p,
           alignment |-> a, listLevel |-> v, anchors |-> n]
  BY DEF IsBuffer
<1> HIDE DEF l, f, p, a, v, n
<1>2. WithText(b, x, y) =
        [lines |-> x, formats |-> y, pageBreakBefore |-> p,
         alignment |-> a, listLevel |-> v, anchors |-> n]
  <2> DEFINE r == [b EXCEPT !.lines = x]
  <2>1. r = [lines |-> x, formats |-> f, pageBreakBefore |-> p,
             alignment |-> a, listLevel |-> v, anchors |-> n]
    BY <1>1
  <2>2. WithText(b, x, y) = [r EXCEPT !.formats = y]
    BY DEF WithText
  <2> HIDE DEF r
  <2>3. [r EXCEPT !.formats = y] =
          [lines |-> x, formats |-> y, pageBreakBefore |-> p,
           alignment |-> a, listLevel |-> v, anchors |-> n]
    BY <2>1
  <2>4. QED
    BY <2>2, <2>3
<1>3. QED
  BY <1>1, <1>2 DEF IsBuffer

\* The formats are set, and nothing else is.
LEMMA FormatsSet ==
  ASSUME NEW b, IsBuffer(b), NEW y
  PROVE  LET r == [b EXCEPT !.formats = y]
         IN  /\ IsBuffer(r) /\ r.lines = b.lines /\ r.formats = y
             /\ r.pageBreakBefore = b.pageBreakBefore
             /\ r.alignment = b.alignment /\ r.listLevel = b.listLevel
<1> DEFINE l == b.lines
           f == b.formats
           p == b.pageBreakBefore
           a == b.alignment
           v == b.listLevel
           n == b.anchors
<1>1. b = [lines |-> l, formats |-> f, pageBreakBefore |-> p,
           alignment |-> a, listLevel |-> v, anchors |-> n]
  BY DEF IsBuffer
<1> HIDE DEF l, f, p, a, v, n
<1>2. [b EXCEPT !.formats = y] =
        [lines |-> l, formats |-> y, pageBreakBefore |-> p,
         alignment |-> a, listLevel |-> v, anchors |-> n]
  BY <1>1
<1>3. QED
  BY <1>1, <1>2 DEF IsBuffer

\* Within the rows there are.
LEMMA SameRows ==
  ASSUME NEW W, NEW b, Sound(W, b), NEW x \in Seq(W), NEW y, Len(x) = Len(b.lines)
  PROVE  Sound(W, WithText(b, x, y)) /\ WithText(b, x, y).lines = x
<1> DEFINE r == WithText(b, x, y)
<1>1. IsBuffer(b)
  BY DEF Sound
<1>2. /\ IsBuffer(r) /\ r.lines = x
      /\ r.pageBreakBefore = b.pageBreakBefore
      /\ r.alignment = b.alignment /\ r.listLevel = b.listLevel
  BY <1>1, TextSet
<1>3. x # << >>
  <2>1. b.lines \in Seq(W) /\ b.lines # << >>
    BY DEF Sound
  <2>2. Len(b.lines) # 0
    BY <2>1, EmptySeq
  <2>3. QED
    BY <2>2
<1> HIDE DEF r
<1>4. Sound(W, r)
  BY <1>2, <1>3 DEF Sound, Paragraphs
<1>5. QED
  BY <1>2, <1>4 DEF r

\* The parts of a sound buffer.
LEMMA SoundFacts ==
  ASSUME NEW W, NEW b, Sound(W, b)
  PROVE  /\ IsBuffer(b) /\ b.lines \in Seq(W)
         /\ Len(b.lines) \in Nat \ {0} /\ DOMAIN b.lines = 1 .. Len(b.lines)
         /\ b.pageBreakBefore \in Seq(BOOLEAN)
         /\ Len(b.pageBreakBefore) = Len(b.lines)
         /\ b.alignment \in Seq({"left"}) /\ Len(b.alignment) = Len(b.lines)
         /\ b.listLevel \in Seq(Levels) /\ Len(b.listLevel) = Len(b.lines)
<1>1. b.lines \in Seq(W) /\ b.lines # << >>
  BY DEF Sound
<1>2. Len(b.lines) \in Nat \ {0}
  BY <1>1, EmptySeq
<1>3. DOMAIN b.lines = 1 .. Len(b.lines)
  BY <1>1, LenProperties
<1>4. QED
  BY <1>1, <1>2, <1>3 DEF Sound, Paragraphs

\* A buffer put together from its parts.
LEMMA Rebuilt ==
  ASSUME NEW W, NEW x \in Seq(W), x # << >>, NEW f, NEW pb \in Seq(BOOLEAN),
         NEW al \in Seq({"left"}), NEW ll \in Seq(Levels), NEW an,
         Len(pb) = Len(x), Len(al) = Len(x), Len(ll) = Len(x)
  PROVE  LET r == [lines |-> x, formats |-> f, pageBreakBefore |-> pb,
                   alignment |-> al, listLevel |-> ll, anchors |-> an]
         IN  Sound(W, r) /\ r.lines = x
BY DEF Sound, Paragraphs, IsBuffer

-----------------------------------------------------------------------------
(***************************************************************************)
(* The mutators of the formatted buffer, one lemma each.                   *)
(***************************************************************************)
\* A character goes in.
LEMMA InsertCharKeeps ==
  ASSUME NEW W, Lines(W), NEW b, NEW row, NEW col, SoundAt(W, b, row, col),
         NEW ch \in Typed
  PROVE  SoundAt(W, InsertChar(b, col, row, ch, Plain), row, col + 1)
<1> DEFINE ls == b.lines
           x  == InsertCharText(ls, col, row, ch)
<1>1. Closed(W, Bytes) /\ <<ch>> \in W /\ Sound(W, b) /\ CaretIn(W, ls, row, col)
  BY DEF Lines, SoundAt
<1>2. ls \in Seq(W)
  BY <1>1, SoundFacts
<1> HIDE DEF ls
<1>3. row \in DOMAIN ls /\ Clamp(col, 0, Len(ls[row])) = col
  BY <1>1, <1>2, CaretFacts
<1>4. x \in Seq(W) /\ Len(x) = Len(ls) /\ CaretIn(W, x, row, col + 1)
  BY <1>1, <1>2, InsertCharText_In
<1>5. PICK y : InsertChar(b, col, row, ch, Plain) = WithText(b, x, y)
  BY <1>3 DEF InsertChar, WithText, ls
<1> HIDE DEF x
<1>6. Len(x) = Len(b.lines)
  BY <1>4 DEF ls
<1>7. Sound(W, WithText(b, x, y)) /\ WithText(b, x, y).lines = x
  BY <1>1, <1>4, <1>6, SameRows
<1>8. QED
  BY <1>4, <1>5, <1>7 DEF SoundAt

\* A line break goes in.
LEMMA InsertNewlineKeeps ==
  ASSUME NEW W, Lines(W), NEW b, NEW row, NEW col, SoundAt(W, b, row, col)
  PROVE  SoundAt(W, InsertNewline(b, col, row), row + 1, 0)
<1> DEFINE ls == b.lines
           x  == InsertNewlineText(ls, col, row)
           pb == InsertBelow(b.pageBreakBefore, row, FALSE)
           al == InsertBelow(b.alignment, row, RowValue(b.alignment, row, "left"))
           ll == InsertBelow(b.listLevel, row, RowValue(b.listLevel, row, 0))
<1>1. Closed(W, Bytes) /\ Sound(W, b) /\ CaretIn(W, ls, row, col)
  BY DEF Lines, SoundAt
<1>2. /\ ls \in Seq(W) /\ Len(ls) \in Nat \ {0}
      /\ b.pageBreakBefore \in Seq(BOOLEAN) /\ Len(b.pageBreakBefore) = Len(ls)
      /\ b.alignment \in Seq({"left"}) /\ Len(b.alignment) = Len(ls)
      /\ b.listLevel \in Seq(Levels) /\ Len(b.listLevel) = Len(ls)
  BY <1>1, SoundFacts
<1> HIDE DEF ls
<1>3. row \in DOMAIN ls /\ Clamp(col, 0, Len(ls[row])) = col /\ row \in 1 .. Len(ls)
  BY <1>1, <1>2, CaretFacts
<1>4. x \in Seq(W) /\ Len(x) = Len(ls) + 1 /\ CaretIn(W, x, row + 1, 0)
  BY <1>1, <1>2, InsertNewlineText_In
<1>5. pb \in Seq(BOOLEAN) /\ Len(pb) = Len(x)
  <2>1. FALSE \in BOOLEAN /\ row \in 1 .. Len(b.pageBreakBefore)
    BY <1>2, <1>3
  <2>2. pb \in Seq(BOOLEAN) /\ Len(pb) = Len(b.pageBreakBefore) + 1
    BY <1>2, <2>1, InsertBelowFacts
  <2>3. QED
    BY <1>2, <1>4, <2>2
<1>6. al \in Seq({"left"}) /\ Len(al) = Len(x)
  <2>1. "left" \in {"left"} /\ row \in 1 .. Len(b.alignment)
    BY <1>2, <1>3
  <2>2. RowValue(b.alignment, row, "left") \in {"left"}
    BY <1>2, <2>1, RowValueFacts
  <2>3. al \in Seq({"left"}) /\ Len(al) = Len(b.alignment) + 1
    BY <1>2, <2>1, <2>2, InsertBelowFacts
  <2>4. QED
    BY <1>2, <1>4, <2>3
<1>7. ll \in Seq(Levels) /\ Len(ll) = Len(x)
  <2>1. row \in 1 .. Len(b.listLevel)
    BY <1>2, <1>3
  <2>2. RowValue(b.listLevel, row, 0) \in Levels
    BY <1>2, <2>1, RowValueFacts, PlainLevel
  <2>3. ll \in Seq(Levels) /\ Len(ll) = Len(b.listLevel) + 1
    BY <1>2, <2>1, <2>2, InsertBelowFacts
  <2>4. QED
    BY <1>2, <1>4, <2>3
<1>8. PICK f, an : InsertNewline(b, col, row) =
        [lines |-> x, formats |-> f, pageBreakBefore |-> pb,
         alignment |-> al, listLevel |-> ll, anchors |-> an]
  BY <1>3 DEF InsertNewline, ls
<1> DEFINE r == [lines |-> x, formats |-> f, pageBreakBefore |-> pb,
                 alignment |-> al, listLevel |-> ll, anchors |-> an]
<1> HIDE DEF x, pb, al, ll
<1>9. x # << >>
  BY <1>2, <1>4
<1>10. Sound(W, r) /\ r.lines = x
  BY <1>4, <1>5, <1>6, <1>7, <1>9, Rebuilt
<1>11. QED
  BY <1>4, <1>8, <1>10 DEF SoundAt

\* The vector of a paragraph's state has one for each of n rows.
ForRows(s, S, n) == s \in Seq(S) /\ Len(s) = n

\* Rows come in below a row.
LEMMA MoreRows ==
  ASSUME NEW S, NEW s, NEW n \in Nat, ForRows(s, S, n), NEW row \in 1 .. n,
         NEW k \in Nat, NEW x \in S
  PROVE  ForRows(Splice(s, row, row, Fill(k, x)), S, n + k)
BY InsertRowsFacts DEF ForRows

\* The rows of a range go, but for its first.
LEMMA FewerRows ==
  ASSUME NEW S, NEW s, NEW n \in Nat, ForRows(s, S, n),
         NEW r1 \in 1 .. n, NEW r2 \in r1 + 1 .. n
  PROVE  ForRows(EraseRowsPresent(s, r1 + 1, r2), S, n - (r2 - r1))
<1> DEFINE from == r1 + 1
<1>1. from \in 1 .. n /\ r2 \in from .. n /\ n - (r2 - from + 1) = n - (r2 - r1)
  OBVIOUS
<1> HIDE DEF from
<1>2. s \in Seq(S) /\ Len(s) = n
  BY DEF ForRows
<1>3. /\ EraseRowsPresent(s, from, r2) \in Seq(S)
      /\ Len(EraseRowsPresent(s, from, r2)) = n - (r2 - from + 1)
  BY <1>1, <1>2, EraseRangeFacts
<1>4. QED
  BY <1>1, <1>3 DEF ForRows, from

\* A text goes in; its rows take alignment and level over from the row above.
LEMMA InsertTextKeeps ==
  ASSUME NEW W, Lines(W), NEW b, NEW row, NEW col, SoundAt(W, b, row, col),
         NEW parts \in Seq(W), parts # << >>
  PROVE  SoundAt(W, InsertText(b, col, row, parts, Plain),
                 row + Len(parts) - 1,
                 Len(parts[Len(parts)]) + IF Len(parts) = 1 THEN col ELSE 0)
<1> DEFINE ls  == b.lines
           x   == InsertTextText(ls, col, row, parts)
           new == Len(parts) - 1
           row2 == row + Len(parts) - 1
           col2 == Len(parts[Len(parts)]) + IF Len(parts) = 1 THEN col ELSE 0
           r   == InsertText(b, col, row, parts, Plain)
           pb == Splice(b.pageBreakBefore, row, row, Fill(new, FALSE))
           al == Splice(b.alignment, row, row,
                        Fill(new, RowValue(b.alignment, row, "left")))
           ll == Splice(b.listLevel, row, row,
                        Fill(new, RowValue(b.listLevel, row, 0)))
<1>1. Closed(W, Bytes) /\ Sound(W, b) /\ CaretIn(W, ls, row, col)
  BY DEF Lines, SoundAt
<1>2. /\ ls \in Seq(W) /\ Len(ls) \in Nat \ {0}
      /\ b.pageBreakBefore \in Seq(BOOLEAN) /\ Len(b.pageBreakBefore) = Len(ls)
      /\ b.alignment \in Seq({"left"}) /\ Len(b.alignment) = Len(ls)
      /\ b.listLevel \in Seq(Levels) /\ Len(b.listLevel) = Len(ls)
  BY <1>1, SoundFacts
<1>3. row \in DOMAIN ls /\ row \in 1 .. Len(ls)
  <2> HIDE DEF ls
  <2>1. QED
    BY <1>1, <1>2, CaretFacts
<1>4. /\ x \in Seq(W) /\ Len(x) = Len(ls) + new
      /\ CaretIn(W, x, row2, col2)
  <2> HIDE DEF ls
  <2>1. QED
    BY <1>1, <1>2, InsertTextText_In
<1>5. new \in Nat
  <2>1. Len(parts) \in Nat \ {0}
    BY EmptySeq
  <2>2. QED
    BY <2>1
<1>6. CASE Len(parts) = 1
  <2>1. \E y : r = WithText(b, x, y)
    BY <1>3, <1>6 DEF InsertText, WithText
  <2>2. PICK y : r = WithText(b, x, y)
    BY <2>1
  <2> HIDE DEF x, r, row2, col2
  <2>3. Len(x) = Len(b.lines)
    BY <1>2, <1>4, <1>6
  <2>4. Sound(W, WithText(b, x, y)) /\ WithText(b, x, y).lines = x
    BY <1>1, <1>4, <2>3, SameRows
  <2>5. SoundAt(W, r, row2, col2)
    BY <1>4, <2>2, <2>4 DEF SoundAt
  <2>6. QED
    BY <2>5 DEF r, row2, col2
<1>7. CASE Len(parts) # 1
  <2>1. \E f, an : r = [lines |-> x, formats |-> f, pageBreakBefore |-> pb,
                        alignment |-> al, listLevel |-> ll, anchors |-> an]
    BY <1>3, <1>7 DEF InsertText
  <2>2. PICK f, an : r = [lines |-> x, formats |-> f, pageBreakBefore |-> pb,
                          alignment |-> al, listLevel |-> ll, anchors |-> an]
    BY <2>1
  <2> DEFINE n == Len(ls)
  <2>3. n \in Nat /\ row \in 1 .. n
    BY <1>2, <1>3
  <2> HIDE DEF new, n
  <2>4. pb \in Seq(BOOLEAN) /\ Len(pb) = Len(x)
    <3>1. FALSE \in BOOLEAN /\ ForRows(b.pageBreakBefore, BOOLEAN, n)
      BY <1>2 DEF ForRows, n
    <3>2. ForRows(pb, BOOLEAN, n + new)
      BY <1>5, <2>3, <3>1, MoreRows
    <3>3. QED
      BY <1>4, <3>2 DEF ForRows, n
  <2>5. al \in Seq({"left"}) /\ Len(al) = Len(x)
    <3>1. "left" \in {"left"} /\ ForRows(b.alignment, {"left"}, n)
      BY <1>2 DEF ForRows, n
    <3>2. RowValue(b.alignment, row, "left") \in {"left"}
      BY <1>2, <3>1, RowValueFacts
    <3>3. ForRows(al, {"left"}, n + new)
      BY <1>5, <2>3, <3>1, <3>2, MoreRows
    <3>4. QED
      BY <1>4, <3>3 DEF ForRows, n
  <2>6. ll \in Seq(Levels) /\ Len(ll) = Len(x)
    <3>1. ForRows(b.listLevel, Levels, n)
      BY <1>2 DEF ForRows, n
    <3>2. RowValue(b.listLevel, row, 0) \in Levels
      BY <1>2, RowValueFacts, PlainLevel
    <3>3. ForRows(ll, Levels, n + new)
      BY <1>5, <2>3, <3>1, <3>2, MoreRows
    <3>4. QED
      BY <1>4, <3>3 DEF ForRows, n
  <2>7. x # << >>
    <3>1. Len(x) # 0
      BY <1>2, <1>4, <1>5
    <3>2. QED
      BY <3>1
  <2> HIDE DEF x, pb, al, ll, r, row2, col2
  <2> DEFINE d == [lines |-> x, formats |-> f, pageBreakBefore |-> pb,
                   alignment |-> al, listLevel |-> ll, anchors |-> an]
  <2>8. Sound(W, d) /\ d.lines = x
    BY <1>4, <2>4, <2>5, <2>6, <2>7, Rebuilt
  <2> HIDE DEF d
  <2>9. SoundAt(W, r, row2, col2)
    BY <1>4, <2>2, <2>8 DEF SoundAt, d
  <2>10. QED
    BY <2>9 DEF r, row2, col2
<1>8. QED
  BY <1>6, <1>7

\* What is between two places goes.
LEMMA DeleteRangeKeeps ==
  ASSUME NEW W, Lines(W), NEW b, NEW r1, NEW c1, SoundAt(W, b, r1, c1),
         NEW r2, NEW c2, CaretIn(W, b.lines, r2, c2), r1 <= r2
  PROVE  SoundAt(W, DeleteRange(b, r1, c1, r2, c2), r1, c1)
<1> DEFINE ls  == b.lines
           x   == DeleteRangeText(ls, r1, c1, r2, c2)
           r   == DeleteRange(b, r1, c1, r2, c2)
           pb  == EraseRowsPresent(b.pageBreakBefore, r1 + 1, r2)
           al  == EraseRowsPresent(b.alignment, r1 + 1, r2)
           ll  == EraseRowsPresent(b.listLevel, r1 + 1, r2)
<1>1. /\ Closed(W, Bytes) /\ Sound(W, b)
      /\ CaretIn(W, ls, r1, c1) /\ CaretIn(W, ls, r2, c2)
  BY DEF Lines, SoundAt
<1>2. /\ ls \in Seq(W) /\ Len(ls) \in Nat \ {0}
      /\ b.pageBreakBefore \in Seq(BOOLEAN) /\ Len(b.pageBreakBefore) = Len(ls)
      /\ b.alignment \in Seq({"left"}) /\ Len(b.alignment) = Len(ls)
      /\ b.listLevel \in Seq(Levels) /\ Len(b.listLevel) = Len(ls)
  BY <1>1, SoundFacts
<1>3. /\ r1 \in 1 .. Len(ls) /\ r2 \in 1 .. Len(ls)
      /\ Clamp(r1, 1, Len(ls)) = r1 /\ Clamp(r2, 1, Len(ls)) = r2
      /\ Clamp(c1, 0, Len(ls[r1])) = c1 /\ Clamp(c2, 0, Len(ls[r2])) = c2
  <2> HIDE DEF ls
  <2>1. QED
    BY <1>1, <1>2, CaretFacts
<1>4. /\ x \in Seq(W) /\ Len(x) = Len(ls) - (r2 - r1)
      /\ CaretIn(W, x, r1, c1)
  <2> HIDE DEF ls
  <2>1. QED
    BY <1>1, <1>2, DeleteRangeText_In
<1>5. CASE r1 = r2
  <2>1. \E y : r = WithText(b, x, y)
    BY <1>3, <1>5 DEF DeleteRange, WithText
  <2>2. PICK y : r = WithText(b, x, y)
    BY <2>1
  <2> HIDE DEF x, r
  <2>3. Len(x) = Len(b.lines)
    BY <1>2, <1>3, <1>4, <1>5
  <2>4. Sound(W, WithText(b, x, y)) /\ WithText(b, x, y).lines = x
    BY <1>1, <1>4, <2>3, SameRows
  <2>5. SoundAt(W, r, r1, c1)
    BY <1>4, <2>2, <2>4 DEF SoundAt
  <2>6. QED
    BY <2>5 DEF r
<1>6. CASE r1 # r2
  <2>1. \E f, an : r = [lines |-> x, formats |-> f, pageBreakBefore |-> pb,
                        alignment |-> al, listLevel |-> ll, anchors |-> an]
    BY <1>3, <1>6 DEF DeleteRange
  <2>2. PICK f, an : r = [lines |-> x, formats |-> f, pageBreakBefore |-> pb,
                          alignment |-> al, listLevel |-> ll, anchors |-> an]
    BY <2>1
  <2> DEFINE n == Len(ls)
  <2>3. n \in Nat /\ r1 \in 1 .. n /\ r2 \in r1 + 1 .. n
    BY <1>2, <1>3, <1>6
  <2>4. Len(x) = n - (r2 - r1)
    BY <1>4
  <2> HIDE DEF n
  <2>5. pb \in Seq(BOOLEAN) /\ Len(pb) = Len(x)
    <3>1. ForRows(b.pageBreakBefore, BOOLEAN, n)
      BY <1>2 DEF ForRows, n
    <3>2. ForRows(pb, BOOLEAN, n - (r2 - r1))
      BY <2>3, <3>1, FewerRows
    <3>3. QED
      BY <2>4, <3>2 DEF ForRows
  <2>6. al \in Seq({"left"}) /\ Len(al) = Len(x)
    <3>1. ForRows(b.alignment, {"left"}, n)
      BY <1>2 DEF ForRows, n
    <3>2. ForRows(al, {"left"}, n - (r2 - r1))
      BY <2>3, <3>1, FewerRows
    <3>3. QED
      BY <2>4, <3>2 DEF ForRows
  <2>7. ll \in Seq(Levels) /\ Len(ll) = Len(x)
    <3>1. ForRows(b.listLevel, Levels, n)
      BY <1>2 DEF ForRows, n
    <3>2. ForRows(ll, Levels, n - (r2 - r1))
      BY <2>3, <3>1, FewerRows
    <3>3. QED
      BY <2>4, <3>2 DEF ForRows
  <2>8. x # << >>
    <3>1. Len(x) # 0
      BY <2>3, <2>4
    <3>2. QED
      BY <3>1
  <2> HIDE DEF x, pb, al, ll, r
  <2> DEFINE d == [lines |-> x, formats |-> f, pageBreakBefore |-> pb,
                   alignment |-> al, listLevel |-> ll, anchors |-> an]
  <2>9. Sound(W, d) /\ d.lines = x
    BY <1>4, <2>5, <2>6, <2>7, <2>8, Rebuilt
  <2> HIDE DEF d
  <2>10. SoundAt(W, r, r1, c1)
    BY <1>4, <2>2, <2>9 DEF SoundAt, d
  <2>11. QED
    BY <2>10 DEF r
<1>7. QED
  BY <1>5, <1>6

\* The state of the paragraphs is set.
WithState(b, pb, al, ll, an) ==
  [b EXCEPT !.pageBreakBefore = pb, !.alignment = al, !.listLevel = ll,
            !.anchors = an]

\* What is set, and what stays.
LEMMA StateSet ==
  ASSUME NEW b, IsBuffer(b), NEW pb, NEW al, NEW ll, NEW an
  PROVE  WithState(b, pb, al, ll, an) =
           [lines |-> b.lines, formats |-> b.formats, pageBreakBefore |-> pb,
            alignment |-> al, listLevel |-> ll, anchors |-> an]
<1> DEFINE l == b.lines
           f == b.formats
           p == b.pageBreakBefore
           a == b.alignment
           v == b.listLevel
           n == b.anchors
           b1 == [b EXCEPT !.pageBreakBefore = pb]
           b2 == [b1 EXCEPT !.alignment = al]
           b3 == [b2 EXCEPT !.listLevel = ll]
           b4 == [b3 EXCEPT !.anchors = an]
<1>1. b = [lines |-> l, formats |-> f, pageBreakBefore |-> p,
           alignment |-> a, listLevel |-> v, anchors |-> n]
  BY DEF IsBuffer
<1>2. WithState(b, pb, al, ll, an) = b4
  BY DEF WithState
<1> HIDE DEF l, f, p, a, v, n, b4
<1>3. b1 = [lines |-> l, formats |-> f, pageBreakBefore |-> pb,
            alignment |-> a, listLevel |-> v, anchors |-> n]
  BY <1>1
<1> HIDE DEF b1
<1>4. b2 = [lines |-> l, formats |-> f, pageBreakBefore |-> pb,
            alignment |-> al, listLevel |-> v, anchors |-> n]
  BY <1>3
<1> HIDE DEF b2
<1>5. b3 = [lines |-> l, formats |-> f, pageBreakBefore |-> pb,
            alignment |-> al, listLevel |-> ll, anchors |-> n]
  BY <1>4
<1> HIDE DEF b3
<1>6. b4 = [lines |-> l, formats |-> f, pageBreakBefore |-> pb,
            alignment |-> al, listLevel |-> ll, anchors |-> an]
  BY <1>5 DEF b4
<1>7. QED
  BY <1>2, <1>6 DEF l, f

\* A row joined to the one above it.
LEMMA JoinKeeps ==
  ASSUME NEW W, Lines(W), NEW b, Sound(W, b), NEW r \in 2 .. Len(b.lines), NEW y
  PROVE  SoundAt(W, WithoutRow(WithText(b, JoinRows(b.lines, r), y), r),
                 r - 1, Len(b.lines[r - 1]))
<1> DEFINE ls == b.lines
           n  == Len(ls)
           x  == JoinRows(ls, r)
           c  == Len(ls[r - 1])
           b2 == WithText(b, x, y)
           pb == EraseIfPresent(b.pageBreakBefore, r)
           al == EraseIfPresent(b.alignment, r)
           ll == EraseIfPresent(b.listLevel, r)
           an == MergeFloatAnchors(b2.anchors, r, r - 1)
           d  == [lines |-> x, formats |-> b2.formats, pageBreakBefore |-> pb,
                  alignment |-> al, listLevel |-> ll, anchors |-> an]
<1>1. Closed(W, Bytes) /\ IsBuffer(b)
  BY DEF Lines, Sound
<1>2. /\ ls \in Seq(W) /\ n \in Nat \ {0}
      /\ b.pageBreakBefore \in Seq(BOOLEAN) /\ Len(b.pageBreakBefore) = n
      /\ b.alignment \in Seq({"left"}) /\ Len(b.alignment) = n
      /\ b.listLevel \in Seq(Levels) /\ Len(b.listLevel) = n
  BY SoundFacts
<1>3. x \in Seq(W) /\ Len(x) = n - 1 /\ CaretIn(W, x, r - 1, c)
  <2> HIDE DEF ls
  <2>1. r \in 2 .. Len(ls)
    BY DEF ls
  <2>2. QED
    BY <1>1, <1>2, <2>1, JoinRows_In
<1>4. /\ IsBuffer(b2) /\ b2.lines = x
      /\ b2.pageBreakBefore = b.pageBreakBefore
      /\ b2.alignment = b.alignment /\ b2.listLevel = b.listLevel
  <2> HIDE DEF x
  <2>1. QED
    BY <1>1, TextSet
<1>5. r \in 1 .. n /\ n - 1 # 0
  <2>1. n \in Nat \ {0} /\ r \in 2 .. n
    BY <1>2
  <2> HIDE DEF n
  <2>2. QED
    BY <2>1
<1>6. WithoutRow(b2, r) = d
  <2>1. WithoutRow(b2, r) = WithState(b2, pb, al, ll, an)
    <3> HIDE DEF b2
    <3>1. QED
      BY <1>4 DEF WithoutRow, WithState
  <2> HIDE DEF b2, pb, al, ll, an
  <2>2. WithState(b2, pb, al, ll, an) =
          [lines |-> b2.lines, formats |-> b2.formats, pageBreakBefore |-> pb,
           alignment |-> al, listLevel |-> ll, anchors |-> an]
    BY <1>4, StateSet
  <2>3. QED
    BY <1>4, <2>1, <2>2
<1>7. pb \in Seq(BOOLEAN) /\ Len(pb) = Len(x)
  <2>1. r \in 1 .. Len(b.pageBreakBefore)
    BY <1>2, <1>5
  <2>2. pb \in Seq(BOOLEAN) /\ Len(pb) = Len(b.pageBreakBefore) - 1
    BY <1>2, <2>1, EraseOneFacts
  <2>3. QED
    BY <1>2, <1>3, <2>2
<1>8. al \in Seq({"left"}) /\ Len(al) = Len(x)
  <2>1. r \in 1 .. Len(b.alignment)
    BY <1>2, <1>5
  <2>2. al \in Seq({"left"}) /\ Len(al) = Len(b.alignment) - 1
    BY <1>2, <2>1, EraseOneFacts
  <2>3. QED
    BY <1>2, <1>3, <2>2
<1>9. ll \in Seq(Levels) /\ Len(ll) = Len(x)
  <2>1. r \in 1 .. Len(b.listLevel)
    BY <1>2, <1>5
  <2>2. ll \in Seq(Levels) /\ Len(ll) = Len(b.listLevel) - 1
    BY <1>2, <2>1, EraseOneFacts
  <2>3. QED
    BY <1>2, <1>3, <2>2
<1>10. x # << >>
  <2>1. Len(x) # 0
    BY <1>3, <1>5
  <2>2. QED
    BY <2>1
<1>11. Sound(W, d) /\ d.lines = x
  <2> DEFINE f == b2.formats
  <2> HIDE DEF x, pb, al, ll, an, b2, f
  <2>1. QED
    BY <1>3, <1>7, <1>8, <1>9, <1>10, Rebuilt DEF f
<1> HIDE DEF x, c, d, b2
<1>12. SoundAt(W, d, r - 1, c)
  BY <1>3, <1>11 DEF SoundAt
<1>13. QED
  BY <1>6, <1>12 DEF b2, x, c

\* Backspace at the start of a row.
LEMMA BackspaceKeeps ==
  ASSUME NEW W, Lines(W), NEW b, Sound(W, b), NEW r \in 2 .. Len(b.lines)
  PROVE  SoundAt(W, Backspace(b, 0, r), r - 1, Len(b.lines[r - 1]))
<1>1. Len(b.lines) \in Nat /\ DOMAIN b.lines = 1 .. Len(b.lines) /\ r > 1
      /\ r \in 1 .. Len(b.lines) /\ ~(0 > 0)
  BY SoundFacts
<1> DEFINE x == JoinRows(b.lines, r)
           y == JoinRows(b.formats, r)
<1>2. BackspaceText(b.lines, 0, r) = x
  BY <1>1 DEF BackspaceText
<1>3. Backspace(b, 0, r) = WithoutRow(WithText(b, x, y), r)
  BY <1>1, <1>2 DEF Backspace, WithText
<1> HIDE DEF y
<1>4. QED
  BY <1>3, JoinKeeps

\* Delete at the end of a row.
LEMMA DeleteForwardKeeps ==
  ASSUME NEW W, Lines(W), NEW b, Sound(W, b), NEW r \in 1 .. Len(b.lines) - 1
  PROVE  SoundAt(W, DeleteForward(b, Len(b.lines[r]), r), r, Len(b.lines[r]))
<1> DEFINE s == r + 1
           c == Len(b.lines[r])
           x == JoinRows(b.lines, s)
           y == JoinRows(b.formats, s)
<1>1. /\ Len(b.lines) \in Nat /\ DOMAIN b.lines = 1 .. Len(b.lines)
      /\ b.lines \in Seq(W)
  BY SoundFacts
<1>2. r < Len(b.lines) /\ r \in 1 .. Len(b.lines) /\ s \in 2 .. Len(b.lines) /\ s - 1 = r
  BY <1>1
<1>3. ~(c < c)
  <2>1. b.lines[r] \in W
    BY <1>1, <1>2, ElementOfSeq
  <2>2. b.lines[r] \in Seq(Bytes)
    BY <2>1 DEF Lines, Closed
  <2>3. c \in Nat
    BY <2>2, LenProperties
  <2>4. QED
    BY <2>3
<1>4. DeleteForwardText(b.lines, c, r) = x
  BY <1>1, <1>2, <1>3 DEF DeleteForwardText
<1>5. DeleteForward(b, c, r) = WithoutRow(WithText(b, x, y), s)
  BY <1>1, <1>2, <1>3, <1>4 DEF DeleteForward, WithText
<1> HIDE DEF y, s
<1>6. SoundAt(W, WithoutRow(WithText(b, x, y), s), s - 1, Len(b.lines[s - 1]))
  BY <1>2, JoinKeeps
<1>7. QED
  BY <1>2, <1>5, <1>6

\* One vector of the paragraphs is set.
WithBreaks(b, pb) == [b EXCEPT !.pageBreakBefore = pb]

WithLevels(b, ll) == [b EXCEPT !.listLevel = ll]

\* The vector is the new one, and the rest stays.
LEMMA BreaksKeep ==
  ASSUME NEW W, NEW b, Sound(W, b), NEW pb, ForRows(pb, BOOLEAN, Len(b.lines))
  PROVE  Sound(W, WithBreaks(b, pb)) /\ WithBreaks(b, pb).lines = b.lines
<1> DEFINE l == b.lines
           f == b.formats
           a == b.alignment
           v == b.listLevel
           n == b.anchors
           d == [lines |-> l, formats |-> f, pageBreakBefore |-> pb,
                 alignment |-> a, listLevel |-> v, anchors |-> n]
<1>1. b = [lines |-> l, formats |-> f, pageBreakBefore |-> b.pageBreakBefore,
           alignment |-> a, listLevel |-> v, anchors |-> n]
  BY DEF Sound, IsBuffer
<1>2. /\ l \in Seq(W) /\ l # << >>
      /\ a \in Seq({"left"}) /\ Len(a) = Len(l)
      /\ v \in Seq(Levels) /\ Len(v) = Len(l)
      /\ pb \in Seq(BOOLEAN) /\ Len(pb) = Len(l)
  BY DEF Sound, Paragraphs, ForRows
<1> HIDE DEF l, f, a, v, n
<1>3. WithBreaks(b, pb) = d
  BY <1>1 DEF WithBreaks
<1>4. Sound(W, d) /\ d.lines = l
  BY <1>2, Rebuilt
<1>5. QED
  BY <1>3, <1>4 DEF l

\* The levels are the new ones, and the rest stays.
LEMMA LevelsKeep ==
  ASSUME NEW W, NEW b, Sound(W, b), NEW ll, ForRows(ll, Levels, Len(b.lines))
  PROVE  /\ Sound(W, WithLevels(b, ll)) /\ WithLevels(b, ll).lines = b.lines
         /\ WithLevels(b, ll).listLevel = ll
<1> DEFINE l == b.lines
           f == b.formats
           a == b.alignment
           p == b.pageBreakBefore
           n == b.anchors
           d == [lines |-> l, formats |-> f, pageBreakBefore |-> p,
                 alignment |-> a, listLevel |-> ll, anchors |-> n]
<1>1. b = [lines |-> l, formats |-> f, pageBreakBefore |-> p,
           alignment |-> a, listLevel |-> b.listLevel, anchors |-> n]
  BY DEF Sound, IsBuffer
<1>2. /\ l \in Seq(W) /\ l # << >>
      /\ a \in Seq({"left"}) /\ Len(a) = Len(l)
      /\ p \in Seq(BOOLEAN) /\ Len(p) = Len(l)
      /\ ll \in Seq(Levels) /\ Len(ll) = Len(l)
  BY DEF Sound, Paragraphs, ForRows
<1> HIDE DEF l, f, a, p, n
<1>3. WithLevels(b, ll) = d
  BY <1>1 DEF WithLevels
<1>4. Sound(W, d) /\ d.lines = l
  BY <1>2, Rebuilt
<1>5. d.listLevel = ll
  OBVIOUS
<1>6. QED
  BY <1>3, <1>4, <1>5 DEF l

\* A page break before a row.
LEMMA SetPageBreakKeeps ==
  ASSUME NEW W, NEW b, NEW row, NEW col, SoundAt(W, b, row, col),
         NEW on \in BOOLEAN
  PROVE  SoundAt(W, SetPageBreakBefore(b, row, on), row, col)
<1> DEFINE pb == [b.pageBreakBefore EXCEPT ![row] = on]
<1>1. Sound(W, b) /\ CaretIn(W, b.lines, row, col)
  BY DEF SoundAt
<1>2. /\ b.pageBreakBefore \in Seq(BOOLEAN)
      /\ Len(b.pageBreakBefore) = Len(b.lines)
  BY <1>1, SoundFacts
<1>3. row \in 1 .. Len(b.pageBreakBefore)
  BY <1>1, <1>2 DEF CaretIn
<1>4. row \in DOMAIN b.pageBreakBefore
  BY <1>2, <1>3, LenProperties
<1>5. pb \in Seq(BOOLEAN) /\ Len(pb) = Len(b.pageBreakBefore)
  BY <1>2, <1>3, SetOneFacts
<1>6. ForRows(pb, BOOLEAN, Len(b.lines))
  BY <1>2, <1>5 DEF ForRows
<1>7. SetPageBreakBefore(b, row, on) = WithBreaks(b, pb)
  BY <1>4 DEF SetPageBreakBefore, WithBreaks
<1> HIDE DEF pb
<1>8. Sound(W, WithBreaks(b, pb)) /\ WithBreaks(b, pb).lines = b.lines
  BY <1>1, <1>6, BreaksKeep
<1>9. QED
  BY <1>1, <1>7, <1>8 DEF SoundAt

\* The byte of a paragraph, its level set.
LEMMA LevelByte ==
  ASSUME NEW v \in Levels, NEW k \in 0 .. MaxListLevel
  PROVE  /\ (IF k = 0 THEN 0 ELSE v - (v % NumberedFlag) + k) \in Levels
         /\ (v % NumberedFlag) \in Levels
         /\ (v % NumberedFlag) + NumberedFlag \in Levels
<1>1. MaxListLevel \in 1 .. 63
  BY LevelsAssumption DEF NumberedFlag
<1>2. v \in Nat /\ v % 64 \in 0 .. MaxListLevel
  BY DEF Levels, NumberedFlag
<1> DEFINE m == v % 64
           q == v \div 64
<1>3. v = 64 * q + m /\ m \in 0 .. 63 /\ q \in Nat
  BY <1>2
<1>4. m \in 0 .. MaxListLevel
  BY <1>2
<1> HIDE DEF m, q
<1>5. k \in 0 .. 63 /\ m \in Nat /\ k \in Nat
  BY <1>1, <1>3
<1>6. (64 * q + k) % 64 = k /\ 64 * q + k \in Nat
  BY <1>3, <1>5
<1>7. m % 64 = m
  BY <1>3
<1>8. (m + 64) % 64 = m /\ m + 64 \in Nat
  BY <1>3
<1>9. v - m + k = 64 * q + k
  BY <1>3, <1>5
<1>10. v - m + k \in Levels
  BY <1>6, <1>9 DEF Levels, NumberedFlag
<1>11. m \in Levels /\ m + 64 \in Levels
  BY <1>4, <1>5, <1>7, <1>8 DEF Levels, NumberedFlag
<1>12. QED
  BY <1>10, <1>11, PlainLevel DEF m, NumberedFlag

\* The level of a row, or none for a row that is not there.
LEMMA ListLevelRange ==
  ASSUME NEW W, NEW b, Sound(W, b), NEW row
  PROVE  ListLevel(b, row) \in 0 .. MaxListLevel
<1>1. b.listLevel \in Seq(Levels)
  BY SoundFacts
<1>2. RowValue(b.listLevel, row, 0) \in Levels
  BY <1>1, PlainLevel, RowValueFacts
<1>3. QED
  BY <1>2 DEF ListLevel, Levels

\* SetListLevel, within the levels there are.
LEMMA SetListLevelKeeps ==
  ASSUME NEW W, NEW b, Sound(W, b), NEW row, NEW k \in 0 .. MaxListLevel
  PROVE  /\ Sound(W, SetListLevel(b, row, k))
         /\ SetListLevel(b, row, k).lines = b.lines
<1> DEFINE v  == b.listLevel[row]
           w  == IF k = 0 THEN 0 ELSE v - (v % NumberedFlag) + k
           ll == [b.listLevel EXCEPT ![row] = w]
<1>1. /\ b.listLevel \in Seq(Levels) /\ Len(b.listLevel) = Len(b.lines)
  BY SoundFacts
<1>2. CASE row \in DOMAIN b.listLevel
  <2>1. row \in 1 .. Len(b.listLevel)
    BY <1>1, <1>2, LenProperties
  <2>2. v \in Levels
    BY <1>1, <2>1, ElementOfSeq
  <2> HIDE DEF v
  <2>3. w \in Levels
    BY <2>2, LevelByte
  <2>4. SetListLevel(b, row, k) = WithLevels(b, ll)
    BY <1>2 DEF SetListLevel, WithLevels, v
  <2> HIDE DEF w
  <2>5. ll \in Seq(Levels) /\ Len(ll) = Len(b.listLevel)
    BY <1>1, <2>1, <2>3, SetOneFacts
  <2> HIDE DEF ll
  <2>6. ForRows(ll, Levels, Len(b.lines))
    BY <1>1, <2>5 DEF ForRows
  <2>7. Sound(W, WithLevels(b, ll)) /\ WithLevels(b, ll).lines = b.lines
    BY <2>6, LevelsKeep
  <2>8. QED
    BY <2>4, <2>7
<1>3. CASE row \notin DOMAIN b.listLevel
  BY <1>3 DEF SetListLevel
<1>4. QED
  BY <1>2, <1>3

\* SetListNumbered leaves a row that is in no list as it is.
LEMMA SetListNumberedKeeps ==
  ASSUME NEW W, NEW b, Sound(W, b), NEW row, NEW numbered
  PROVE  /\ Sound(W, SetListNumbered(b, row, numbered))
         /\ SetListNumbered(b, row, numbered).lines = b.lines
<1> DEFINE v  == b.listLevel[row]
           w  == (v % NumberedFlag) + (IF numbered THEN NumberedFlag ELSE 0)
           ll == [b.listLevel EXCEPT ![row] = w]
<1>1. /\ b.listLevel \in Seq(Levels) /\ Len(b.listLevel) = Len(b.lines)
  BY SoundFacts
<1>2. CASE ListLevel(b, row) # 0
  <2>1. row \in DOMAIN b.listLevel
    <3>1. 0 % NumberedFlag = 0
      BY DEF NumberedFlag
    <3>2. QED
      BY <1>2, <3>1 DEF ListLevel, RowValue
  <2>2. row \in 1 .. Len(b.listLevel)
    BY <1>1, <2>1, LenProperties
  <2>3. v \in Levels
    BY <1>1, <2>2, ElementOfSeq
  <2> HIDE DEF v
  <2>4. w \in Levels
    <3>1. 0 \in 0 .. MaxListLevel
      BY LevelsAssumption DEF NumberedFlag
    <3>2. (v % NumberedFlag) \in Levels /\ (v % NumberedFlag) + NumberedFlag \in Levels
      BY <2>3, <3>1, LevelByte
    <3>3. (v % NumberedFlag) + 0 = v % NumberedFlag
      BY <3>2 DEF Levels
    <3>4. QED
      BY <3>2, <3>3
  <2>5. SetListNumbered(b, row, numbered) = WithLevels(b, ll)
    BY <1>2 DEF SetListNumbered, WithLevels, v
  <2> HIDE DEF w
  <2>6. ll \in Seq(Levels) /\ Len(ll) = Len(b.listLevel)
    BY <1>1, <2>2, <2>4, SetOneFacts
  <2> HIDE DEF ll
  <2>7. ForRows(ll, Levels, Len(b.lines))
    BY <1>1, <2>6 DEF ForRows
  <2>8. Sound(W, WithLevels(b, ll)) /\ WithLevels(b, ll).lines = b.lines
    BY <2>7, LevelsKeep
  <2>9. QED
    BY <2>5, <2>8
<1>3. CASE ListLevel(b, row) = 0
  BY <1>3 DEF SetListNumbered
<1>4. QED
  BY <1>2, <1>3

-----------------------------------------------------------------------------
(***************************************************************************)
(* The invariant, the steps, and what each leaves of the text, the caret   *)
(* and the anchor.                                                         *)
(***************************************************************************)
\* A caret need not be in the text, so it is not asked to be; nor does a
\* step need it, but for those that say so.
IInv ==
  /\ Sound(Seq(Bytes), buffer)
  /\ DOMAIN buffer.formats = DOMAIN buffer.lines
  /\ cursor \in Places /\ anchor \in Places
  /\ textSelectDragActive \in BOOLEAN

Here(W, p) == CaretIn(W, buffer.lines, p.row, p.col)

\* What an edit may start from.
Ready(W) ==
  /\ Lines(W) /\ Sound(W, buffer)
  /\ Here(W, cursor) /\ (Selected => Here(W, anchor))
  /\ cursor \in Places /\ anchor \in Places

\* The buffer a step leaves.
Left(W) ==
  /\ Sound(W, buffer')
  /\ DOMAIN buffer'.formats = DOMAIN buffer'.lines
  /\ UNCHANGED textSelectDragActive

\* An edit of the text uses the selection up.
Edited(W) ==
  /\ Left(W)
  /\ CaretIn(W, buffer'.lines, cursor'.row, cursor'.col)
  /\ cursor' \in Places
  /\ anchor' \in {anchor, None} /\ (Selected => anchor' = None)

\* An edit of a list leaves the text.
Listed(W) ==
  /\ Left(W)
  /\ buffer'.lines = buffer.lines
  /\ cursor' = cursor /\ anchor' = anchor

\* The handlers give the formats up, which are the subject of BufferLayers.
LEMMA SetBufferKeeps ==
  ASSUME NEW W, NEW b, Sound(W, b), SetBuffer(b)
  PROVE  /\ Sound(W, buffer') /\ buffer'.lines = b.lines
         /\ DOMAIN buffer'.formats = DOMAIN buffer'.lines
<1> DEFINE y == [r \in DOMAIN b.lines |-> << >>]
           r == [b EXCEPT !.formats = y]
<1>1. IsBuffer(b) /\ buffer' = r /\ DOMAIN y = DOMAIN b.lines
  BY DEF Sound, SetBuffer
<1>2. /\ b.lines \in Seq(W) /\ b.lines # << >>
      /\ Paragraphs(b, Len(b.lines))
  BY DEF Sound
<1> HIDE DEF y
<1>3. /\ IsBuffer(r) /\ r.lines = b.lines /\ r.formats = y
      /\ r.pageBreakBefore = b.pageBreakBefore
      /\ r.alignment = b.alignment /\ r.listLevel = b.listLevel
  BY <1>1, FormatsSet
<1> HIDE DEF r
<1>4. Paragraphs(r, Len(r.lines))
  BY <1>2, <1>3 DEF Paragraphs
<1>5. Sound(W, r)
  BY <1>2, <1>3, <1>4 DEF Sound
<1>6. QED
  BY <1>1, <1>3, <1>5

\* A caret that is in a line is a place.
LEMMA CaretIsPlace ==
  ASSUME NEW W, Lines(W), NEW b, NEW row, NEW col, SoundAt(W, b, row, col)
  PROVE  /\ At(row, col) \in Places
         /\ row \in 1 .. Len(b.lines) /\ row \in DOMAIN b.lines
         /\ col \in 0 .. Len(b.lines[row]) /\ Len(b.lines[row]) \in Nat
         /\ b.lines[row] \in W /\ b.lines[row] \in Seq(Bytes)
<1> DEFINE ls == b.lines
<1>1. Closed(W, Bytes) /\ ls \in Seq(W) /\ CaretIn(W, ls, row, col)
  BY DEF Lines, SoundAt, Sound
<1> HIDE DEF ls
<1>2. /\ row \in 1 .. Len(ls) /\ row \in Nat /\ row \in DOMAIN ls
      /\ ls[row] \in W /\ ls[row] \in Seq(Bytes)
      /\ col \in 0 .. Len(ls[row]) /\ col \in Nat
  BY <1>1, CaretFacts
<1>3. Len(ls[row]) \in Nat
  BY <1>2, LenProperties
<1>4. At(row, col) \in Places
  BY <1>2 DEF At, Places
<1>5. QED
  BY <1>2, <1>3, <1>4 DEF ls

\* An edit that leaves the caret in the text.
LEMMA ResultEdits ==
  ASSUME NEW W, Lines(W), NEW b, NEW row, NEW col, SoundAt(W, b, row, col),
         NEW a \in {anchor, None}, Selected => a = None,
         Result(b, row, col, a)
  PROVE  Edited(W)
<1>1. /\ SetBuffer(b) /\ cursor' = At(row, col) /\ anchor' = a
      /\ UNCHANGED textSelectDragActive
  BY DEF Result
<1>2. Sound(W, b) /\ CaretIn(W, b.lines, row, col) /\ At(row, col) \in Places
  BY CaretIsPlace DEF SoundAt
<1>3. /\ Sound(W, buffer') /\ buffer'.lines = b.lines
      /\ DOMAIN buffer'.formats = DOMAIN buffer'.lines
  BY <1>1, <1>2, SetBufferKeeps
<1>4. cursor'.row = row /\ cursor'.col = col
  BY <1>1 DEF At
<1>5. Left(W)
  BY <1>1, <1>3 DEF Left
<1>6. QED
  BY <1>1, <1>2, <1>3, <1>4, <1>5 DEF Edited

\* An edit that leaves text, caret and anchor.
LEMMA ResultLists ==
  ASSUME NEW W, NEW b, Sound(W, b), b.lines = buffer.lines, cursor \in Places,
         Result(b, cursor.row, cursor.col, anchor)
  PROVE  Listed(W)
<1>1. /\ SetBuffer(b) /\ cursor' = At(cursor.row, cursor.col) /\ anchor' = anchor
      /\ UNCHANGED textSelectDragActive
  BY DEF Result
<1>2. /\ Sound(W, buffer') /\ buffer'.lines = b.lines
      /\ DOMAIN buffer'.formats = DOMAIN buffer'.lines
  BY <1>1, SetBufferKeeps
<1>3. At(cursor.row, cursor.col) = cursor
  BY DEF At, Places
<1>4. QED
  BY <1>1, <1>2, <1>3 DEF Listed, Left

\* The ends of a selection are in order.
LEMMA RangeFacts ==
  ASSUME cursor \in Places, anchor \in Places
  PROVE  /\ GetRange.from \in {anchor, cursor} /\ GetRange.to \in {anchor, cursor}
         /\ NotAfter(GetRange.from, GetRange.to)
BY DEF GetRange, Places, NotAfter

\* What an edit starts from.
LEMMA ErasedFacts ==
  ASSUME NEW W, Ready(W)
  PROVE  /\ SoundAt(W, Erased.buffer, Erased.cursor.row, Erased.cursor.col)
         /\ Erased.anchor \in {anchor, None}
         /\ Selected => Erased.anchor = None
<1>1. CASE ~ Selected
  <2>1. Erased.buffer = buffer /\ Erased.cursor = cursor /\ Erased.anchor = anchor
    BY <1>1 DEF Erased
  <2>2. SoundAt(W, buffer, cursor.row, cursor.col)
    BY DEF Ready, Here, SoundAt
  <2>3. QED
    BY <1>1, <2>1, <2>2
<1>2. CASE Selected
  <2> DEFINE p == GetRange.from
             q == GetRange.to
             d == DeleteRange(buffer, p.row, p.col, q.row, q.col)
  <2>1. Erased.buffer = d /\ Erased.cursor = p /\ Erased.anchor = None
    BY <1>2 DEF Erased
  <2>2. /\ p \in {anchor, cursor} /\ q \in {anchor, cursor} /\ NotAfter(p, q)
    BY RangeFacts DEF Ready
  <2> HIDE DEF p, q
  <2>3. p \in Places /\ q \in Places /\ Here(W, p) /\ Here(W, q) /\ Lines(W) /\ Sound(W, buffer)
    BY <1>2, <2>2 DEF Ready
  <2>4. p.row <= q.row
    BY <2>2, <2>3 DEF NotAfter, Places
  <2>5. SoundAt(W, buffer, p.row, p.col) /\ CaretIn(W, buffer.lines, q.row, q.col)
    BY <2>3 DEF Here, SoundAt
  <2>6. SoundAt(W, d, p.row, p.col)
    BY <2>3, <2>4, <2>5, DeleteRangeKeeps
  <2> HIDE DEF d
  <2>7. QED
    BY <2>1, <2>6
<1>3. QED
  BY <1>1, <1>2

-----------------------------------------------------------------------------
(***************************************************************************)
(* The edits, one lemma each.                                              *)
(***************************************************************************)
\* TypeCharacter.
LEMMA TypeEdits ==
  ASSUME NEW W, Ready(W), TypeCharacter
  PROVE  Edited(W)
<1> DEFINE e == Erased
           p == e.cursor
<1>1. PICK ch \in Typed :
        Result(InsertChar(e.buffer, p.col, p.row, ch, Plain),
               p.row, p.col + 1, e.anchor)
  BY DEF TypeCharacter
<1>2. /\ SoundAt(W, e.buffer, p.row, p.col) /\ Lines(W)
      /\ e.anchor \in {anchor, None} /\ (Selected => e.anchor = None)
  BY ErasedFacts DEF Ready
<1> HIDE DEF e
<1>3. SoundAt(W, InsertChar(e.buffer, p.col, p.row, ch, Plain), p.row, p.col + 1)
  BY <1>2, InsertCharKeeps
<1>4. QED
  BY <1>1, <1>2, <1>3, ResultEdits

\* KeyReturn.
LEMMA ReturnEdits ==
  ASSUME NEW W, Ready(W), KeyReturn
  PROVE  Edited(W)
<1> DEFINE e == Erased
           p == e.cursor
<1>1. Result(InsertNewline(e.buffer, p.col, p.row), p.row + 1, 0, e.anchor)
  BY DEF KeyReturn
<1>2. /\ SoundAt(W, e.buffer, p.row, p.col) /\ Lines(W)
      /\ e.anchor \in {anchor, None} /\ (Selected => e.anchor = None)
  BY ErasedFacts DEF Ready
<1> HIDE DEF e
<1>3. SoundAt(W, InsertNewline(e.buffer, p.col, p.row), p.row + 1, 0)
  BY <1>2, InsertNewlineKeeps
<1>4. QED
  BY <1>1, <1>2, <1>3, ResultEdits

\* InsertPageBreak.
LEMMA PageBreakEdits ==
  ASSUME NEW W, Ready(W), InsertPageBreak
  PROVE  Edited(W)
<1> DEFINE e == Erased
           p == e.cursor
           b == InsertNewline(e.buffer, p.col, p.row)
           r == SetPageBreakBefore(b, p.row + 1, TRUE)
<1>1. Result(r, p.row + 1, 0, None)
  BY DEF InsertPageBreak
<1>2. SoundAt(W, e.buffer, p.row, p.col) /\ Lines(W)
  BY ErasedFacts DEF Ready
<1> HIDE DEF e
<1>3. SoundAt(W, b, p.row + 1, 0)
  BY <1>2, InsertNewlineKeeps
<1> HIDE DEF b
<1>4. SoundAt(W, r, p.row + 1, 0)
  BY <1>3, SetPageBreakKeeps
<1> HIDE DEF r
<1>5. None \in {anchor, None}
  OBVIOUS
<1>6. QED
  BY <1>1, <1>2, <1>4, <1>5, ResultEdits

\* Insert, of a text that comes as lines.
LEMMA InsertEdits ==
  ASSUME NEW W, Ready(W), NEW parts \in Seq(W), parts # << >>,
         NEW a, a \in {anchor, None}, Selected => a = None, Insert(parts, a)
  PROVE  Edited(W)
<1> DEFINE e == Erased
           p == e.cursor
           n == Len(parts)
           col == Len(parts[n]) + IF n = 1 THEN p.col ELSE 0
           r == InsertText(e.buffer, p.col, p.row, parts, Plain)
           row == p.row + n - 1
<1>1. Result(r, row, col, a)
  BY DEF Insert
<1>2. SoundAt(W, e.buffer, p.row, p.col) /\ Lines(W)
  BY ErasedFacts DEF Ready
<1> HIDE DEF e
<1>3. SoundAt(W, r, row, col)
  BY <1>2, InsertTextKeeps
<1> HIDE DEF r, row, col
<1>4. QED
  BY <1>1, <1>2, <1>3, ResultEdits

\* PasteClipboard.
LEMMA PasteEdits ==
  ASSUME NEW W, Ready(W), PasteClipboard
  PROVE  Edited(W)
<1>1. PICK parts \in Texts : Insert(parts, None)
  BY DEF PasteClipboard
<1>2. parts \in Seq(W) /\ parts # << >>
  BY TextsAssumption DEF Ready, Lines
<1>3. None \in {anchor, None}
  OBVIOUS
<1>4. QED
  BY <1>1, <1>2, <1>3, InsertEdits

\* DeleteSelection.
LEMMA DeleteSelectionEdits ==
  ASSUME NEW W, Ready(W), DeleteSelection
  PROVE  Edited(W)
<1> DEFINE b == Erased.buffer
           p == Erased.cursor
<1>1. Result(b, p.row, p.col, None)
  BY DEF DeleteSelection
<1>2. SoundAt(W, b, p.row, p.col) /\ Lines(W)
  BY ErasedFacts DEF Ready
<1>3. None \in {anchor, None}
  OBVIOUS
<1> HIDE DEF b, p
<1>4. QED
  BY <1>1, <1>2, <1>3, ResultEdits

\* KeyTab: within a list the level, anywhere else a text.
LEMMA TabEdits ==
  ASSUME NEW W, Sound(W, buffer), cursor \in Places, NEW shift, KeyTab(shift)
  PROVE  \/ Listed(W)
         \/ EraseDefined /\ (Ready(W) => Edited(W))
<1>1. CASE AtListItemStart
  <2> DEFINE level == ListLevel(buffer, cursor.row)
             new   == IF ~ shift
                      THEN IF level < MaxListLevel THEN level + 1 ELSE MaxListLevel
                      ELSE IF level > 1 THEN level - 1 ELSE level
             r     == SetListLevel(buffer, cursor.row, new)
  <2>1. Result(r, cursor.row, cursor.col, anchor)
    BY <1>1 DEF KeyTab
  <2>2. level \in 0 .. MaxListLevel
    BY ListLevelRange
  <2> HIDE DEF level
  <2>3. new \in 0 .. MaxListLevel
    BY <2>2, LevelsAssumption DEF NumberedFlag
  <2> HIDE DEF new
  <2>4. Sound(W, r) /\ r.lines = buffer.lines
    BY <2>3, SetListLevelKeeps
  <2> HIDE DEF r
  <2>5. QED
    BY <2>1, <2>4, ResultLists
<1>2. CASE ~ AtListItemStart
  <2> DEFINE parts == <<TabText>>
  <2>1. EraseDefined /\ Insert(parts, Erased.anchor)
    BY <1>2 DEF KeyTab
  <2>2. ASSUME Ready(W)
        PROVE  Edited(W)
    <3>1. TabText \in W
      BY <2>2 DEF Ready, Lines
    <3>2. parts \in Seq(W) /\ parts # << >>
      BY <3>1
    <3>3. /\ Erased.anchor \in {anchor, None}
          /\ Selected => Erased.anchor = None
      BY <2>2, ErasedFacts
    <3> HIDE DEF parts
    <3>4. QED
      BY <2>1, <2>2, <3>2, <3>3, InsertEdits
  <2>3. QED
    BY <2>1, <2>2
<1>3. QED
  BY <1>1, <1>2

-----------------------------------------------------------------------------
(***************************************************************************)
(* Where the caret may stop: a set of lines is cut within itself before    *)
(* every byte but a continuation, behind a codepoint, and at both ends of  *)
(* a match.                                                                *)
(***************************************************************************)
Stops(W) ==
  /\ \A line \in W : \A c \in 0 .. Len(line) :
       ~ IsContinuation(line, c) => CutIn(W, line, c)
  /\ \A line \in W : \A c \in 0 .. Len(line) - 1 :
       CutIn(W, line, c) =>
         CutIn(W, line, Clamp(c + CodepointSize(line[c + 1]), 0, Len(line)))
  /\ \A line \in W, q \in Queries : \A c \in 0 .. Len(line) - Len(q) :
       SubSeq(line, c + 1, c + Len(q)) = q =>
         CutIn(W, line, c) /\ CutIn(W, line, c + Len(q))

\* Back over continuation bytes.
LEMMA LeadAtFacts ==
  ASSUME NEW W, Lines(W), Stops(W), NEW line \in W, NEW col \in 0 .. Len(line)
  PROVE  LeadAt(line, col) \in 0 .. col /\ CutIn(W, line, LeadAt(line, col))
<1>1. line \in Seq(Bytes) /\ Closed(W, Bytes)
  BY DEF Lines, Closed
<1>2. Len(line) \in Nat
  BY <1>1, LenProperties
<1> DEFINE P(k) == k = 0 \/ ~ IsContinuation(line, k)
           T == {k \in 0 .. col : P(k)}
           Q(k) == P(k) /\ \A j \in k + 1 .. col : IsContinuation(line, j)
<1>3. \E k \in T : \A j \in T : j <= k
  <2>1. T \subseteq Nat /\ 0 \in T /\ col \in Nat /\ \A x \in T : x <= col
    BY <1>2
  <2> HIDE DEF T
  <2>2. QED
    BY <2>1, Greatest
<1>4. \E k \in 0 .. col : Q(k)
  <2>1. PICK k \in T : \A j \in T : j <= k
    BY <1>3
  <2>2. k \in 0 .. col /\ P(k)
    BY <2>1
  <2>3. ASSUME NEW j \in k + 1 .. col
        PROVE  IsContinuation(line, j)
    <3>1. j \in 0 .. col /\ ~ (j <= k)
      BY <1>2, <2>2
    <3>2. j \notin T
      BY <2>1, <3>1
    <3>3. QED
      BY <3>1, <3>2
  <2>4. QED
    BY <2>2, <2>3
<1> DEFINE lead == LeadAt(line, col)
<1>5. lead = CHOOSE k \in 0 .. col : Q(k)
  BY DEF LeadAt
<1> HIDE DEF lead
<1>6. lead \in 0 .. col /\ P(lead)
  BY <1>4, <1>5
<1>7. CutIn(W, line, 0)
  BY <1>1, CutAtEnds
<1>8. lead \in 0 .. Len(line)
  BY <1>2, <1>6
<1>9. CutIn(W, line, lead)
  BY <1>6, <1>7, <1>8 DEF Stops
<1>10. QED
  BY <1>6, <1>9 DEF lead

\* On over continuation bytes.
LEMMA NextLeadFacts ==
  ASSUME NEW W, Lines(W), Stops(W), NEW line \in W, NEW col \in 0 .. Len(line) - 1
  PROVE  CutIn(W, line, NextLead(line, col))
<1>1. line \in Seq(Bytes)
  BY DEF Lines, Closed
<1>2. Len(line) \in Nat
  BY <1>1, LenProperties
<1> DEFINE P(k) == ~ IsContinuation(line, k)
           T == {k \in col + 1 .. Len(line) : P(k)}
           Q(k) == P(k) /\ \A j \in col + 1 .. k - 1 : IsContinuation(line, j)
<1>3. \E k \in T : \A j \in T : k <= j
  <2>1. P(Len(line))
    BY <1>2 DEF IsContinuation
  <2>2. T \subseteq Nat /\ Len(line) \in T
    BY <1>2, <2>1
  <2> HIDE DEF T
  <2>3. QED
    BY <2>2, Least
<1>4. \E k \in col + 1 .. Len(line) : Q(k)
  <2>1. PICK k \in T : \A j \in T : k <= j
    BY <1>3
  <2>2. k \in col + 1 .. Len(line) /\ P(k)
    BY <2>1
  <2>3. ASSUME NEW j \in col + 1 .. k - 1
        PROVE  IsContinuation(line, j)
    <3>1. j \in col + 1 .. Len(line) /\ ~ (k <= j)
      BY <1>2, <2>2
    <3>2. j \notin T
      BY <2>1, <3>1
    <3>3. QED
      BY <3>1, <3>2
  <2>4. QED
    BY <2>2, <2>3
<1> DEFINE lead == NextLead(line, col)
<1>5. lead = CHOOSE k \in col + 1 .. Len(line) : Q(k)
  BY DEF NextLead
<1> HIDE DEF lead
<1>6. lead \in col + 1 .. Len(line) /\ P(lead)
  BY <1>4, <1>5
<1>7. lead \in 0 .. Len(line)
  BY <1>2, <1>6
<1>8. CutIn(W, line, lead)
  BY <1>6, <1>7 DEF Stops
<1>9. QED
  BY <1>8 DEF lead

\* The caret, in the row it is in.
LEMMA CaretRow ==
  ASSUME NEW W, Lines(W), Sound(W, buffer), Here(W, cursor)
  PROVE  /\ SoundAt(W, buffer, cursor.row, cursor.col)
         /\ cursor.row \in 1 .. LastRow /\ LastRow \in Nat
         /\ Line(cursor.row) \in W /\ Line(cursor.row) \in Seq(Bytes)
         /\ Len(Line(cursor.row)) \in Nat
         /\ cursor.col \in 0 .. Len(Line(cursor.row))
         /\ CutIn(W, Line(cursor.row), cursor.col)
<1>1. SoundAt(W, buffer, cursor.row, cursor.col)
  BY DEF Here, SoundAt
<1>2. CutIn(W, Line(cursor.row), cursor.col)
  BY <1>1 DEF SoundAt, CaretIn, Line
<1>3. Len(buffer.lines) \in Nat
  BY SoundFacts
<1>4. QED
  BY <1>1, <1>2, <1>3, CaretIsPlace DEF Line, LastRow

\* The caret of an edit.
LEMMA ReadyFacts ==
  ASSUME NEW W, Ready(W)
  PROVE  /\ SoundAt(W, buffer, cursor.row, cursor.col)
         /\ cursor.row \in 1 .. LastRow /\ LastRow \in Nat
         /\ Line(cursor.row) \in W /\ Line(cursor.row) \in Seq(Bytes)
         /\ Len(Line(cursor.row)) \in Nat
         /\ cursor.col \in 0 .. Len(Line(cursor.row))
         /\ CutIn(W, Line(cursor.row), cursor.col)
BY CaretRow DEF Ready

\* What is between the caret and another stop of its line goes.
LEMMA EraseInLine ==
  ASSUME NEW W, Ready(W), ~ Selected, NEW c, NEW d,
         CutIn(W, Line(cursor.row), c), CutIn(W, Line(cursor.row), d),
         Result(DeleteRange(buffer, cursor.row, c, cursor.row, d),
                cursor.row, c, anchor)
  PROVE  Edited(W)
<1> DEFINE row == cursor.row
           b == DeleteRange(buffer, row, c, row, d)
<1>1. /\ Lines(W) /\ Sound(W, buffer)
      /\ row \in 1 .. Len(buffer.lines) /\ row <= row
  BY ReadyFacts DEF Ready, LastRow
<1>2. /\ SoundAt(W, buffer, row, c)
      /\ CaretIn(W, buffer.lines, row, d)
  BY <1>1 DEF SoundAt, CaretIn, Line
<1> HIDE DEF row
<1>3. SoundAt(W, b, row, c)
  BY <1>1, <1>2, DeleteRangeKeeps
<1>4. Result(b, row, c, anchor)
  BY DEF row
<1> HIDE DEF b
<1>5. anchor \in {anchor, None} /\ (Selected => anchor = None)
  OBVIOUS
<1>6. QED
  BY <1>1, <1>3, <1>4, <1>5, ResultEdits

\* KeyBackspace.
LEMMA BackspaceEdits ==
  ASSUME NEW W, Ready(W), Stops(W), KeyBackspace
  PROVE  Edited(W) \/ Listed(W)
<1> DEFINE row == cursor.row
<1>1. CASE DeleteSelection
  BY <1>1, DeleteSelectionEdits
<1>2. CASE /\ Unselected /\ cursor.col > 0
           /\ EraseBack(LeadAt(Line(row), cursor.col - 1))
  <2> DEFINE c == LeadAt(Line(row), cursor.col - 1)
  <2>1. Lines(W) /\ Line(row) \in W /\ CutIn(W, Line(row), cursor.col)
    BY ReadyFacts DEF Ready
  <2>2. cursor.col - 1 \in 0 .. Len(Line(row))
    BY <1>2, ReadyFacts
  <2>3. CutIn(W, Line(row), c)
    BY <2>1, <2>2, LeadAtFacts
  <2>4. Result(DeleteRange(buffer, row, c, row, cursor.col), row, c, anchor) /\ ~ Selected
    BY <1>2 DEF EraseBack, Unselected
  <2> HIDE DEF c
  <2>5. QED
    BY <2>1, <2>3, <2>4, EraseInLine
<1>3. CASE Unselected /\ AtListItemStart /\ Outdent
  <2> DEFINE k == ListLevel(buffer, row) - 1
             r == SetListLevel(buffer, row, k)
  <2>1. Sound(W, buffer) /\ cursor \in Places
    BY DEF Ready
  <2>2. k \in 0 .. MaxListLevel
    <3> DEFINE level == ListLevel(buffer, row)
    <3>1. level \in 0 .. MaxListLevel /\ level >= 1
      BY <1>3, <2>1, ListLevelRange DEF AtListItemStart
    <3> HIDE DEF level
    <3>2. level - 1 \in 0 .. MaxListLevel
      BY <3>1, LevelsAssumption DEF NumberedFlag
    <3>3. QED
      BY <3>2 DEF level
  <2>3. Result(r, cursor.row, cursor.col, anchor)
    BY <1>3 DEF Outdent
  <2> HIDE DEF k
  <2>4. Sound(W, r) /\ r.lines = buffer.lines
    BY <2>1, <2>2, SetListLevelKeeps
  <2> HIDE DEF r
  <2>5. QED
    BY <2>1, <2>3, <2>4, ResultLists
<1>4. CASE /\ Unselected /\ cursor.col = 0 /\ ~ AtListItemStart /\ row > 1
           /\ JoinWithPrevious
  <2> DEFINE b == Backspace(buffer, 0, row)
             s == row - 1
             c == Len(Line(row - 1))
  <2>1. Lines(W) /\ Sound(W, buffer) /\ row \in 2 .. Len(buffer.lines)
    BY <1>4, ReadyFacts DEF Ready, LastRow
  <2>2. SoundAt(W, b, s, c)
    BY <2>1, BackspaceKeeps DEF Line
  <2>3. Result(b, s, c, anchor)
    BY <1>4 DEF JoinWithPrevious
  <2>4. anchor \in {anchor, None} /\ (Selected => anchor = None)
    BY <1>4 DEF Unselected
  <2> HIDE DEF b, s, c
  <2>5. QED
    BY <2>1, <2>2, <2>3, <2>4, ResultEdits
<1>5. QED
  BY <1>1, <1>2, <1>3, <1>4 DEF KeyBackspace

\* KeyDelete.
LEMMA DeleteEdits ==
  ASSUME NEW W, Ready(W), Stops(W), KeyDelete
  PROVE  Edited(W)
<1> DEFINE row == cursor.row
           col == cursor.col
<1>1. CASE DeleteSelection
  BY <1>1, DeleteSelectionEdits
<1>2. CASE /\ Unselected /\ col < Len(Line(row))
           /\ EraseCodepoint(row, col)
  <2> DEFINE line == Line(row)
             end == Clamp(col + CodepointSize(line[col + 1]), 0, Len(line))
  <2>1. line \in W /\ CutIn(W, line, col)
    BY ReadyFacts
  <2>2. col \in 0 .. Len(line) - 1
    BY <1>2, ReadyFacts
  <2>3. Result(DeleteRange(buffer, row, col, row, end), row, col, anchor) /\ ~ Selected
    BY <1>2 DEF EraseCodepoint, Unselected
  <2>4. CutIn(W, line, end)
    <3> HIDE DEF line, col
    <3>1. QED
      BY <2>1, <2>2 DEF Stops
  <2> HIDE DEF end
  <2>5. QED
    BY <2>1, <2>3, <2>4, EraseInLine
<1>3. CASE /\ Unselected /\ col = Len(Line(row)) /\ row < LastRow
           /\ Result(DeleteForward(buffer, col, row), row, col, anchor)
  <2>1. Lines(W) /\ Sound(W, buffer) /\ row \in 1 .. Len(buffer.lines) - 1
    BY <1>3, ReadyFacts DEF Ready, LastRow
  <2>2. col = Len(buffer.lines[row])
    BY <1>3 DEF Line
  <2> DEFINE b == DeleteForward(buffer, col, row)
  <2>3. SoundAt(W, b, row, col)
    <3> HIDE DEF row, col
    <3>1. QED
      BY <2>1, <2>2, DeleteForwardKeeps
  <2>4. anchor \in {anchor, None} /\ (Selected => anchor = None)
    BY <1>3 DEF Unselected
  <2>5. Result(b, row, col, anchor)
    BY <1>3
  <2> HIDE DEF b, row, col
  <2>6. QED
    BY <2>1, <2>3, <2>4, <2>5, ResultEdits
<1>4. QED
  BY <1>1, <1>2, <1>3 DEF KeyDelete

\* ToggleList: the rows of the span get the level that the setters give one.
LEMMA ToggleLists ==
  ASSUME NEW W, Sound(W, buffer), cursor \in Places, NEW numbered,
         ToggleList(numbered)
  PROVE  Listed(W)
<1> DEFINE first == IF Selected THEN GetRange.from.row ELSE cursor.row
           on    == ~ (/\ ListLevel(buffer, first) >= 1
                       /\ ListNumbered(buffer, first) = numbered)
           Level(r) == IF ListLevel(buffer, r) >= 1 THEN ListLevel(buffer, r) ELSE 1
           Toggled(r) == IF ~ on THEN SetListLevel(buffer, r, 0)
                         ELSE SetListNumbered(SetListLevel(buffer, r, Level(r)), r, numbered)
           list == [r \in DOMAIN buffer.listLevel |->
                      IF r \in Span THEN Toggled(r).listLevel[r]
                      ELSE buffer.listLevel[r]]
           n == Len(buffer.listLevel)
<1>1. Result(WithLevels(buffer, list), cursor.row, cursor.col, anchor)
  BY DEF ToggleList, WithLevels
<1>2. /\ buffer.listLevel \in Seq(Levels) /\ n = Len(buffer.lines)
      /\ n \in Nat /\ DOMAIN buffer.listLevel = 1 .. n
  <2>1. buffer.listLevel \in Seq(Levels) /\ n = Len(buffer.lines)
    BY SoundFacts
  <2>2. QED
    BY <2>1, LenProperties
<1> HIDE DEF on, n
<1>3. ASSUME NEW r \in 1 .. n
      PROVE  Toggled(r).listLevel[r] \in Levels
  <2>1. Sound(W, SetListLevel(buffer, r, 0))
    BY LevelsAssumption, SetListLevelKeeps DEF NumberedFlag
  <2>2. Level(r) \in 0 .. MaxListLevel
    <3> DEFINE v == ListLevel(buffer, r)
    <3>1. v \in 0 .. MaxListLevel
      BY ListLevelRange
    <3> HIDE DEF v
    <3>2. (IF v >= 1 THEN v ELSE 1) \in 0 .. MaxListLevel
      BY <3>1, LevelsAssumption DEF NumberedFlag
    <3>3. QED
      BY <3>2 DEF v
  <2> DEFINE b1 == SetListLevel(buffer, r, Level(r))
             b2 == SetListNumbered(b1, r, numbered)
             b0 == SetListLevel(buffer, r, 0)
             t  == Toggled(r)
  <2> HIDE DEF Level
  <2>3. Sound(W, b0) /\ b0.lines = buffer.lines
    BY LevelsAssumption, SetListLevelKeeps DEF NumberedFlag
  <2>4. Sound(W, b1) /\ b1.lines = buffer.lines
    BY <2>2, SetListLevelKeeps
  <2>5. Sound(W, b2) /\ b2.lines = buffer.lines
    <3> HIDE DEF b1
    <3>1. Sound(W, b2) /\ b2.lines = b1.lines
      BY <2>4, SetListNumberedKeeps
    <3>2. QED
      BY <2>4, <3>1
  <2>6. t = b0 \/ t = b2
    BY DEF on
  <2> HIDE DEF t, b0, b1, b2
  <2>7. Sound(W, t) /\ t.lines = buffer.lines
    BY <2>3, <2>5, <2>6
  <2>8. t.listLevel \in Seq(Levels) /\ Len(t.listLevel) = n
    BY <1>2, <2>7, SoundFacts
  <2>9. t.listLevel[r] \in Levels
    BY <2>8, ElementOfSeq
  <2>10. QED
    BY <2>9 DEF t, Level
<1>4. ASSUME NEW r \in 1 .. n
      PROVE  buffer.listLevel[r] \in Levels
  BY <1>2, ElementOfSeq DEF n
<1> HIDE DEF Toggled
<1>5. list = [r \in 1 .. n |-> IF r \in Span THEN Toggled(r).listLevel[r]
                               ELSE buffer.listLevel[r]]
  BY <1>2
<1> HIDE DEF list
<1>6. \A r \in 1 .. n : (IF r \in Span THEN Toggled(r).listLevel[r]
                         ELSE buffer.listLevel[r]) \in Levels
  BY <1>3, <1>4 DEF Toggled
<1>7. list \in Seq(Levels) /\ Len(list) = n
  BY <1>2, <1>5, <1>6, IsASeq
<1>8. ForRows(list, Levels, Len(buffer.lines))
  BY <1>2, <1>7 DEF ForRows
<1>9. Sound(W, WithLevels(buffer, list)) /\ WithLevels(buffer, list).lines = buffer.lines
  BY <1>8, LevelsKeep
<1>10. QED
  BY <1>1, <1>9, ResultLists

\* New and Open: a text that comes as lines, or the empty one.
LEMMA LoadEdits ==
  ASSUME NEW W, Lines(W), LoadDocument
  PROVE  Edited(W)
<1>1. PICK lines \in Texts \cup {EmptyBuffer.lines} :
        SetBuffer([EmptyBuffer EXCEPT !.lines = lines,
                     !.pageBreakBefore = Fill(Len(lines), FALSE),
                     !.alignment = Fill(Len(lines), "left"),
                     !.listLevel = Fill(Len(lines), 0)])
  BY DEF LoadDocument
<1>2. /\ cursor' = At(1, 0) /\ anchor' = None
      /\ UNCHANGED textSelectDragActive
  BY DEF LoadDocument
<1>3. lines \in Seq(W) /\ lines # << >> /\ Len(lines) \in Nat \ {0}
  <2>1. << >> \in W
    BY DEF Lines, Closed
  <2>2. EmptyBuffer.lines = << << >> >>
    BY DEF EmptyBuffer
  <2>3. << << >> >> \in Seq(W) /\ << << >> >> # << >>
    BY <2>1
  <2>4. lines \in Seq(W) /\ lines # << >>
    BY <1>1, <2>2, <2>3, TextsAssumption DEF Lines
  <2>5. QED
    BY <2>4, EmptySeq
<1> DEFINE n  == Len(lines)
           pb == Fill(n, FALSE)
           al == Fill(n, "left")
           ll == Fill(n, 0)
           f  == << << >> >>
           an == << >>
           b  == [lines |-> lines, formats |-> f, pageBreakBefore |-> pb,
                  alignment |-> al, listLevel |-> ll, anchors |-> an]
<1>4. pb \in Seq(BOOLEAN) /\ Len(pb) = n
  <2>1. FALSE \in BOOLEAN /\ n \in Nat
    BY <1>3
  <2>2. QED
    BY <2>1, FillFacts
<1>5. al \in Seq({"left"}) /\ Len(al) = n
  <2>1. "left" \in {"left"} /\ n \in Nat
    BY <1>3
  <2>2. QED
    BY <2>1, FillFacts
<1>6. ll \in Seq(Levels) /\ Len(ll) = n
  BY <1>3, PlainLevel, FillFacts
<1>7. SetBuffer(b)
  <2> DEFINE e  == EmptyBuffer
             e1 == [e EXCEPT !.lines = lines]
             e2 == [e1 EXCEPT !.pageBreakBefore = pb]
             e3 == [e2 EXCEPT !.alignment = al]
             e4 == [e3 EXCEPT !.listLevel = ll]
  <2>1. SetBuffer(e4)
    BY <1>1
  <2>2. e = [lines |-> e.lines, formats |-> f,
             pageBreakBefore |-> e.pageBreakBefore, alignment |-> e.alignment,
             listLevel |-> e.listLevel, anchors |-> an]
    BY DEF EmptyBuffer
  <2> HIDE DEF e, pb, al, ll, f, an, e4
  <2>3. e1 = [lines |-> lines, formats |-> f,
              pageBreakBefore |-> e.pageBreakBefore, alignment |-> e.alignment,
              listLevel |-> e.listLevel, anchors |-> an]
    BY <2>2
  <2> HIDE DEF e1
  <2>4. e2 = [lines |-> lines, formats |-> f, pageBreakBefore |-> pb,
              alignment |-> e.alignment, listLevel |-> e.listLevel,
              anchors |-> an]
    BY <2>3
  <2> HIDE DEF e2
  <2>5. e3 = [lines |-> lines, formats |-> f, pageBreakBefore |-> pb,
              alignment |-> al, listLevel |-> e.listLevel, anchors |-> an]
    BY <2>4
  <2> HIDE DEF e3
  <2>6. e4 = b
    BY <2>5 DEF e4
  <2>7. QED
    BY <2>1, <2>6
<1> HIDE DEF pb, al, ll, f, an
<1>8. Sound(W, b) /\ b.lines = lines
  BY <1>3, <1>4, <1>5, <1>6, Rebuilt
<1> HIDE DEF b
<1>9. /\ Sound(W, buffer') /\ buffer'.lines = lines
      /\ DOMAIN buffer'.formats = DOMAIN buffer'.lines
  BY <1>7, <1>8, SetBufferKeeps
<1>10. CaretIn(W, lines, 1, 0)
  <2>1. 1 \in 1 .. Len(lines)
    BY <1>3
  <2>2. lines[1] \in W
    BY <1>3, <2>1, ElementOfSeq
  <2>3. CutIn(W, lines[1], 0)
    BY <2>2, CutAtEnds DEF Lines
  <2>4. QED
    BY <2>1, <2>3 DEF CaretIn
<1>11. cursor'.row = 1 /\ cursor'.col = 0 /\ cursor' \in Places
  BY <1>2 DEF At, Places
<1>12. QED
  BY <1>2, <1>9, <1>10, <1>11 DEF Edited, Left

\* Where an edit erases or inserts, the caret and the anchor of what is
\* selected are in the text; elsewhere the text stays, or gives way to one
\* that is loaded.
LEMMA EditKeeps ==
  ASSUME NEW W, Lines(W), Stops(W), Sound(W, buffer),
         cursor \in Places, anchor \in Places, Edit
  PROVE  \/ Listed(W)
         \/ Edited(W)
         \/ EraseDefined /\ ~ Ready(W)
<1>1. CASE TypeCharacter
  BY <1>1, TypeEdits DEF TypeCharacter
<1>2. CASE KeyReturn
  BY <1>2, ReturnEdits DEF KeyReturn
<1>3. CASE InsertPageBreak
  BY <1>3, PageBreakEdits DEF InsertPageBreak
<1>4. ASSUME NEW shift \in BOOLEAN, KeyTab(shift)
      PROVE  Listed(W) \/ Edited(W) \/ (EraseDefined /\ ~ Ready(W))
  BY <1>4, TabEdits
<1>5. CASE KeyBackspace
  <2>1. EraseDefined
    BY <1>5 DEF KeyBackspace, DeleteSelection, Unselected, EraseDefined
  <2>2. QED
    BY <1>5, <2>1, BackspaceEdits
<1>6. CASE KeyDelete
  <2>1. EraseDefined
    BY <1>6 DEF KeyDelete, DeleteSelection, Unselected, EraseDefined
  <2>2. QED
    BY <1>6, <2>1, DeleteEdits
<1>7. CASE CutSelection
  BY <1>7, DeleteSelectionEdits DEF CutSelection, DeleteSelection
<1>8. CASE PasteClipboard
  BY <1>8, PasteEdits DEF PasteClipboard
<1>9. ASSUME NEW numbered \in ListKinds, ToggleList(numbered)
      PROVE  Listed(W)
  BY <1>9, ToggleLists
<1>10. CASE LoadDocument
  BY <1>10, LoadEdits
<1>11. QED
  BY <1>1, <1>2, <1>3, <1>4, <1>5, <1>6, <1>7, <1>8, <1>9, <1>10 DEF Edit

-----------------------------------------------------------------------------
(***************************************************************************)
(* The moves of the caret.                                                 *)
(***************************************************************************)
\* What a move may start from: most of them take the caret to be in the text.
Standing(W) ==
  /\ Lines(W) /\ Stops(W) /\ Sound(W, buffer)
  /\ cursor \in Places /\ anchor \in Places
  /\ InText(cursor) => Here(W, cursor)

\* The caret and the anchor of an active selection cut lines of the text.
Apart(W) == Here(W, cursor) /\ (anchor # None => Here(W, anchor))

\* A move leaves the text, and caret and anchor between the same parts of it.
Moved(W) ==
  /\ buffer' = buffer
  /\ cursor' \in Places /\ anchor' \in Places
  /\ Apart(W) => Here(W, cursor') /\ (anchor' # None => Here(W, anchor'))

\* The rows of the text, and the stops that every line has.
LEMMA RowFacts ==
  ASSUME NEW W, Lines(W), Sound(W, buffer)
  PROVE  /\ LastRow \in Nat \ {0} /\ Rows = 1 .. LastRow
         /\ \A row \in Rows :
              /\ Line(row) \in W /\ Len(Line(row)) \in Nat
              /\ CutIn(W, Line(row), 0) /\ CutIn(W, Line(row), Len(Line(row)))
<1>1. /\ buffer.lines \in Seq(W) /\ LastRow \in Nat \ {0} /\ Rows = 1 .. LastRow
  BY SoundFacts DEF LastRow, Rows
<1>2. ASSUME NEW row \in Rows
      PROVE  /\ Line(row) \in W /\ Len(Line(row)) \in Nat
             /\ CutIn(W, Line(row), 0) /\ CutIn(W, Line(row), Len(Line(row)))
  <2>1. Closed(W, Bytes)
    BY DEF Lines
  <2>2. row \in 1 .. Len(buffer.lines)
    BY <1>1 DEF LastRow
  <2>3. Line(row) \in W
    BY <1>1, <2>2, ElementOfSeq DEF Line
  <2>4. Line(row) \in Seq(Bytes)
    BY <2>1, <2>3 DEF Closed
  <2>5. Len(Line(row)) \in Nat
    BY <2>4, LenProperties
  <2>6. QED
    BY <2>1, <2>3, <2>5, CutAtEnds
<1>3. QED
  BY <1>1, <1>2

\* A stop of a row is one of the text.
LEMMA StopHere ==
  ASSUME NEW W, Lines(W), Sound(W, buffer),
         NEW row \in Rows, NEW col, CutIn(W, Line(row), col)
  PROVE  Here(W, At(row, col)) /\ At(row, col) \in Places
<1>1. Rows = 1 .. LastRow /\ LastRow \in Nat /\ Len(Line(row)) \in Nat
  BY RowFacts
<1>2. Here(W, At(row, col))
  BY <1>1 DEF Here, CaretIn, At, LastRow, Line
<1>3. col \in 0 .. Len(Line(row))
  BY DEF CutIn
<1>4. row \in Nat /\ col \in Nat
  BY <1>1, <1>3
<1>5. QED
  BY <1>2, <1>4 DEF At, Places

\* Left, over a codepoint or to the end of the row above.
LEMMA LeftOfFacts ==
  ASSUME NEW W, Standing(W), InText(cursor)
  PROVE  Here(W, LeftOf(cursor)) /\ LeftOf(cursor) \in Places
<1> DEFINE row == cursor.row
           col == cursor.col
<1>1. /\ Lines(W) /\ Stops(W) /\ Sound(W, buffer) /\ Here(W, cursor)
      /\ cursor \in Places
  BY DEF Standing
<1>2. /\ row \in 1 .. LastRow /\ LastRow \in Nat
      /\ Line(row) \in W /\ Len(Line(row)) \in Nat /\ col \in 0 .. Len(Line(row))
  BY <1>1, CaretRow
<1>3. Rows = 1 .. LastRow
  BY <1>1, RowFacts
<1>4. CASE col > 0
  <2> DEFINE c == LeadAt(Line(row), col - 1)
  <2>1. col - 1 \in 0 .. Len(Line(row))
    BY <1>2, <1>4
  <2>2. CutIn(W, Line(row), c)
    BY <1>1, <1>2, <2>1, LeadAtFacts
  <2>3. LeftOf(cursor) = At(row, c)
    BY <1>4 DEF LeftOf
  <2> HIDE DEF c, row
  <2>4. QED
    BY <1>1, <1>2, <1>3, <2>2, <2>3, StopHere
<1>5. CASE ~ (col > 0) /\ row > 1
  <2> DEFINE up == row - 1
             c  == Len(Line(up))
  <2>1. up \in Rows
    BY <1>2, <1>3, <1>5
  <2>2. LeftOf(cursor) = At(up, c)
    BY <1>5 DEF LeftOf
  <2> HIDE DEF up
  <2>3. CutIn(W, Line(up), c)
    BY <1>1, <2>1, RowFacts
  <2> HIDE DEF c
  <2>4. QED
    BY <1>1, <2>1, <2>2, <2>3, StopHere
<1>6. CASE ~ (col > 0) /\ ~ (row > 1)
  BY <1>1, <1>6 DEF LeftOf
<1>7. QED
  BY <1>4, <1>5, <1>6

\* Right, over a codepoint or to the start of the row below.
LEMMA RightOfFacts ==
  ASSUME NEW W, Standing(W), InText(cursor)
  PROVE  Here(W, RightOf(cursor)) /\ RightOf(cursor) \in Places
<1> DEFINE row == cursor.row
           col == cursor.col
<1>1. /\ Lines(W) /\ Stops(W) /\ Sound(W, buffer) /\ Here(W, cursor)
      /\ cursor \in Places
  BY DEF Standing
<1>2. /\ row \in 1 .. LastRow /\ LastRow \in Nat
      /\ Line(row) \in W /\ Len(Line(row)) \in Nat /\ col \in 0 .. Len(Line(row))
  BY <1>1, CaretRow
<1>3. Rows = 1 .. LastRow
  BY <1>1, RowFacts
<1>4. CASE col < Len(Line(row))
  <2> DEFINE c == NextLead(Line(row), col)
  <2>1. col \in 0 .. Len(Line(row)) - 1
    BY <1>2, <1>4
  <2>2. CutIn(W, Line(row), c)
    BY <1>1, <1>2, <2>1, NextLeadFacts
  <2>3. RightOf(cursor) = At(row, c)
    BY <1>4 DEF RightOf
  <2> HIDE DEF c, row
  <2>4. QED
    BY <1>1, <1>2, <1>3, <2>2, <2>3, StopHere
<1>5. CASE ~ (col < Len(Line(row))) /\ row < LastRow
  <2> DEFINE down == row + 1
  <2>1. down \in Rows
    BY <1>2, <1>3, <1>5
  <2>2. RightOf(cursor) = At(down, 0)
    BY <1>5 DEF RightOf
  <2> HIDE DEF down
  <2>3. CutIn(W, Line(down), 0)
    BY <1>1, <2>1, RowFacts
  <2>4. QED
    BY <1>1, <2>1, <2>2, <2>3, StopHere
<1>6. CASE ~ (col < Len(Line(row))) /\ ~ (row < LastRow)
  BY <1>1, <1>6 DEF RightOf
<1>7. QED
  BY <1>4, <1>5, <1>6

\* Where the mouse may put the caret.
LEMMA HitFacts ==
  ASSUME NEW W, Lines(W), Stops(W), Sound(W, buffer), NEW p \in HitPlaces
  PROVE  Here(W, p) /\ p \in Places
<1>1. PICK row \in Rows :
        p \in {At(row, LeadAt(Line(row), col)) : col \in 0 .. Len(Line(row))}
  BY DEF HitPlaces
<1>2. Line(row) \in W
  BY RowFacts
<1> PICK c \in 0 .. Len(Line(row)) : p = At(row, LeadAt(Line(row), c))
  BY <1>1
<1>3. CutIn(W, Line(row), LeadAt(Line(row), c))
  BY <1>2, LeadAtFacts
<1>4. QED
  BY <1>3, StopHere

\* The match a search comes to.
LEMMA FoundFacts ==
  ASSUME NEW W, Lines(W), Stops(W), Sound(W, buffer), NEW q \in Queries,
         NEW row, NEW col,
         FindNextText(buffer.lines, q, row, col) # NotFound
  PROVE  LET found == FindNextText(buffer.lines, q, row, col)
         IN  /\ Here(W, found) /\ found \in Places
             /\ Here(W, At(found.row, found.col + Len(q)))
             /\ At(found.row, found.col + Len(q)) \in Places
<1> DEFINE ls == buffer.lines
           found == FindNextText(ls, q, row, col)
           all == Matches(ls, q)
           ahead == {p \in all : NotAfter([row |-> row, col |-> col + Len(q)], p)}
           wrapped == {p \in all : p.row <= row}
<1>1. ls \in Seq(W) /\ q \in Seq(Bytes) /\ q # << >>
  BY SoundFacts, TextsAssumption
<1>2. ls \in Seq(Seq(Bytes))
  <2>1. W \subseteq Seq(Bytes)
    BY DEF Lines, Closed
  <2> HIDE DEF ls
  <2>2. QED
    BY <1>1, <2>1
<1>3. \A p \in all :
        /\ p \in PlaceSet /\ p = [row |-> p.row, col |-> p.col]
        /\ p.row \in 1 .. Len(ls)
        /\ p.col \in 0 .. Len(ls[p.row]) - Len(q)
        /\ SubSeq(ls[p.row], p.col + 1, p.col + Len(q)) = q
  <2> HIDE DEF ls
  <2>1. QED
    BY <1>1, <1>2, MatchFacts
<1>4. found \in all
  <2>1. found = IF ahead # {} THEN FirstOf(ahead)
                ELSE IF wrapped # {} THEN FirstOf(wrapped) ELSE NotFound
    BY DEF FindNextText
  <2>2. ahead \subseteq all /\ wrapped \subseteq all /\ all \subseteq PlaceSet
    BY <1>3
  <2> HIDE DEF ahead, wrapped, all, found
  <2>3. found # NotFound
    BY DEF found
  <2>4. ahead \subseteq PlaceSet /\ wrapped \subseteq PlaceSet
    BY <2>2
  <2>5. /\ ahead # {} => FirstOf(ahead) \in ahead
        /\ wrapped # {} => FirstOf(wrapped) \in wrapped
    BY <2>4, FirstOfFacts
  <2>6. QED
    BY <2>1, <2>2, <2>3, <2>5
<1> HIDE DEF found, all
<1> DEFINE r == found.row
           c == found.col
<1>5. /\ found \in PlaceSet /\ r \in 1 .. Len(ls)
      /\ c \in 0 .. Len(ls[r]) - Len(q)
      /\ SubSeq(ls[r], c + 1, c + Len(q)) = q
  BY <1>3, <1>4
<1>6. ls[r] \in W /\ Len(q) \in Nat
  BY <1>1, <1>5, ElementOfSeq, LenProperties
<1> HIDE DEF ls
<1>7. CutIn(W, ls[r], c) /\ CutIn(W, ls[r], c + Len(q))
  BY <1>5, <1>6 DEF Stops
<1>8. Here(W, found)
  BY <1>5, <1>7 DEF Here, CaretIn, ls
<1>9. found \in Places
  BY <1>5 DEF PlaceSet, Places
<1>10. Here(W, At(r, c + Len(q)))
  BY <1>5, <1>7 DEF Here, CaretIn, At, ls
<1>11. At(r, c + Len(q)) \in Places
  BY <1>6, <1>9 DEF Places, At
<1>12. QED
  BY <1>8, <1>9, <1>10, <1>11 DEF found, ls

\* A move of the caret that goes on with the selection, or gives it up.
LEMMA UpdateMoves ==
  ASSUME NEW W, Standing(W), NEW shift, UpdateSelection(shift),
         cursor' \in Places, Here(W, cursor'), buffer' = buffer
  PROVE  Moved(W)
<1>1. anchor' \in {None, cursor, anchor} /\ None \in Places
  BY DEF UpdateSelection, None, Places
<1>2. anchor' # None => anchor' \in {cursor, anchor} /\ (anchor' = anchor \/ anchor = None)
  BY DEF UpdateSelection
<1>3. anchor' \in Places
  BY <1>1 DEF Standing
<1>4. Apart(W) => (anchor' # None => Here(W, anchor'))
  BY <1>2 DEF Apart
<1>5. QED
  BY <1>3, <1>4 DEF Moved

\* Left and Right.
LEMMA HorizontalMoves ==
  ASSUME NEW W, Standing(W), NEW shift, NEW end \in {anchor, cursor},
         NEW target, InText(cursor) => Here(W, target) /\ target \in Places,
         MoveHorizontally(shift, end, target)
  PROVE  Moved(W)
<1>1. buffer' = buffer
  BY DEF MoveHorizontally, Keyed
<1>2. CASE ~ shift /\ Selected
  <2>1. cursor' = end /\ anchor' = None /\ anchor # None
    BY <1>2 DEF MoveHorizontally, Selected
  <2>2. cursor' \in Places /\ anchor' \in Places
    BY <2>1 DEF Standing, None, Places
  <2>3. Apart(W) => Here(W, cursor')
    BY <2>1 DEF Apart
  <2>4. QED
    BY <1>1, <2>1, <2>2, <2>3 DEF Moved
<1>3. CASE ~ (~ shift /\ Selected)
  <2>1. UpdateSelection(shift) /\ cursor' = target
    BY <1>3 DEF MoveHorizontally
  <2>2. InText(cursor)
    BY <2>1 DEF UpdateSelection
  <2>3. cursor' \in Places /\ Here(W, cursor')
    BY <2>1, <2>2
  <2>4. QED
    BY <1>1, <2>1, <2>3, UpdateMoves
<1>4. QED
  BY <1>2, <1>3

\* Home and End.
LEMMA HomeEndMoves ==
  ASSUME NEW W, Standing(W), NEW shift, KeyHomeEnd(shift)
  PROVE  Moved(W)
<1>1. PICK col \in {0, Len(Line(cursor.row))} : cursor' = At(cursor.row, col)
  BY DEF KeyHomeEnd
<1>2. UpdateSelection(shift) /\ InText(cursor) /\ buffer' = buffer
  BY DEF KeyHomeEnd, Keyed, UpdateSelection
<1>3. Lines(W) /\ Sound(W, buffer) /\ cursor.row \in Rows
  BY <1>2 DEF Standing, InText
<1>4. CutIn(W, Line(cursor.row), col)
  BY <1>1, <1>3, RowFacts
<1>5. Here(W, cursor') /\ cursor' \in Places
  BY <1>1, <1>3, <1>4, StopHere
<1>6. QED
  BY <1>2, <1>5, UpdateMoves

\* Select All.
LEMMA SelectAllMoves ==
  ASSUME NEW W, Standing(W), SelectAll
  PROVE  Moved(W)
<1>1. /\ anchor' = At(1, 0) /\ cursor' = At(LastRow, Len(Line(LastRow)))
      /\ buffer' = buffer
  BY DEF SelectAll, Keyed
<1>2. Lines(W) /\ Sound(W, buffer)
  BY DEF Standing
<1>3. LastRow \in Nat \ {0} /\ Rows = 1 .. LastRow
  BY <1>2, RowFacts
<1>4. 1 \in Rows /\ LastRow \in Rows
  BY <1>3
<1>5. CutIn(W, Line(1), 0) /\ CutIn(W, Line(LastRow), Len(Line(LastRow)))
  BY <1>2, <1>4, RowFacts
<1>6. Here(W, anchor') /\ anchor' \in Places
  BY <1>1, <1>2, <1>4, <1>5, StopHere
<1>7. Here(W, cursor') /\ cursor' \in Places
  BY <1>1, <1>2, <1>4, <1>5, StopHere
<1>8. QED
  BY <1>1, <1>6, <1>7 DEF Moved

\* The mouse, and the find command.
LEMMA MouseMoves ==
  ASSUME NEW W, Standing(W), PressText \/ DragText \/ ReleaseText \/ DoFind
  PROVE  Moved(W)
<1>1. /\ Lines(W) /\ Stops(W) /\ Sound(W, buffer)
      /\ cursor \in Places /\ anchor \in Places
  BY DEF Standing
<1>2. CASE PressText
  <2>1. PICK p \in HitPlaces : cursor' = p /\ anchor' = p
    BY <1>2 DEF PressText
  <2>2. Here(W, p) /\ p \in Places /\ buffer' = buffer
    BY <1>1, <1>2, HitFacts DEF PressText
  <2>3. QED
    BY <2>1, <2>2 DEF Moved
<1>3. CASE DragText
  <2>1. PICK p \in HitPlaces : cursor' = p
    BY <1>3 DEF DragText
  <2>2. Here(W, p) /\ p \in Places /\ buffer' = buffer /\ anchor' = anchor
    BY <1>1, <1>3, HitFacts DEF DragText
  <2>3. QED
    BY <1>1, <2>1, <2>2 DEF Moved, Apart
<1>4. CASE ReleaseText
  <2>1. anchor' \in {None, anchor} /\ cursor' = cursor /\ buffer' = buffer
    BY <1>4 DEF ReleaseText
  <2>2. None \in Places
    BY DEF None, Places
  <2>3. QED
    BY <1>1, <2>1, <2>2 DEF Moved, Apart
<1>5. CASE DoFind
  <2>1. PICK q \in Queries, from \in StalePlaces :
          LET found == FindNextText(buffer.lines, q, from.row, from.col)
          IN  /\ found # NotFound
              /\ cursor' = At(found.row, found.col + Len(q))
              /\ anchor' = found
    BY <1>5 DEF DoFind
  <2> DEFINE row == from.row
             col == from.col
             found == FindNextText(buffer.lines, q, row, col)
  <2>2. found # NotFound /\ anchor' = found
        /\ cursor' = At(found.row, found.col + Len(q))
    BY <2>1
  <2> HIDE DEF row, col
  <2>3. /\ Here(W, found) /\ found \in Places
        /\ Here(W, At(found.row, found.col + Len(q)))
        /\ At(found.row, found.col + Len(q)) \in Places
    BY <1>1, <2>2, FoundFacts
  <2>4. buffer' = buffer
    BY <1>5 DEF DoFind, Keyed
  <2>5. QED
    BY <2>2, <2>3, <2>4 DEF Moved
<1>6. QED
  BY <1>2, <1>3, <1>4, <1>5

\* The moves along the text.
LEMMA MoveKeeps ==
  ASSUME NEW W, Standing(W), Move
  PROVE  Moved(W)
<1>1. GetRange.from \in {anchor, cursor} /\ GetRange.to \in {anchor, cursor}
  BY RangeFacts DEF Standing
<1>2. ASSUME NEW shift \in BOOLEAN, KeyLeft(shift)
      PROVE  Moved(W)
  <2> DEFINE end == GetRange.from
             target == LeftOf(cursor)
  <2>1. MoveHorizontally(shift, end, target)
    BY <1>2 DEF KeyLeft
  <2>2. InText(cursor) => Here(W, target) /\ target \in Places
    BY LeftOfFacts
  <2> HIDE DEF end, target
  <2>3. end \in {anchor, cursor}
    BY <1>1 DEF end
  <2>4. QED
    BY <2>1, <2>2, <2>3, HorizontalMoves
<1>3. ASSUME NEW shift \in BOOLEAN, KeyRight(shift)
      PROVE  Moved(W)
  <2> DEFINE end == GetRange.to
             target == RightOf(cursor)
  <2>1. MoveHorizontally(shift, end, target)
    BY <1>3 DEF KeyRight
  <2>2. InText(cursor) => Here(W, target) /\ target \in Places
    BY RightOfFacts
  <2> HIDE DEF end, target
  <2>3. end \in {anchor, cursor}
    BY <1>1 DEF end
  <2>4. QED
    BY <2>1, <2>2, <2>3, HorizontalMoves
<1>4. QED
  BY <1>2, <1>3, HomeEndMoves, SelectAllMoves, MouseMoves DEF Move

\* Up and Down, Page Up and Page Down, for which a stop is any column.
LEMMA MoveVerticallyKeeps ==
  ASSUME Standing(Seq(Bytes)), MoveVertically
  PROVE  Moved(Seq(Bytes))
<1> DEFINE W == Seq(Bytes)
<1>1. Lines(W) /\ Sound(W, buffer) /\ Standing(W)
  BY DEF Standing
<1>2. ASSUME NEW row \in Rows, NEW col \in 0 .. Len(Line(row))
      PROVE  CutIn(W, Line(row), col)
  <2>1. Line(row) \in Seq(Bytes)
    BY <1>1, RowFacts
  <2>2. Take(Line(row), col) \in W /\ Drop(Line(row), col) \in W
    BY <2>1, TakeFacts, DropFacts
  <2>3. QED
    BY <2>2 DEF CutIn
<1>3. LastRow \in Nat \ {0} /\ Rows = 1 .. LastRow /\ \A row \in Rows : Len(Line(row)) \in Nat
  BY <1>1, RowFacts
<1> HIDE DEF W
<1>4. ASSUME NEW shift, NEW row, UpdateSelection(shift), MoveToRow(row), Keyed
      PROVE  Moved(W)
  <2>1. buffer' = buffer /\ InText(cursor)
    BY <1>4 DEF Keyed, UpdateSelection
  <2>2. CASE row \in Rows
    <3>1. PICK c \in NearestColumns(Line(row), cursor.col) : cursor' = At(row, c)
      BY <1>4, <2>2 DEF MoveToRow
    <3>2. DOMAIN Line(row) = 1 .. Len(Line(row))
      <4>1. Line(row) \in Seq(Bytes)
        BY <1>1, <2>2, RowFacts DEF W
      <4>2. QED
        BY <4>1, LenProperties
    <3>3. c \in 0 .. Len(Line(row))
      BY <1>3, <2>2, <3>1, <3>2 DEF NearestColumns
    <3>4. CutIn(W, Line(row), c)
      BY <1>2, <2>2, <3>3
    <3>5. Here(W, cursor') /\ cursor' \in Places
      BY <1>1, <2>2, <3>1, <3>4, StopHere
    <3>6. QED
      BY <1>1, <1>4, <2>1, <3>5, UpdateMoves
  <2>3. CASE row \notin Rows
    <3>1. cursor' = cursor
      BY <1>4, <2>3 DEF MoveToRow
    <3>2. Here(W, cursor') /\ cursor' \in Places
      BY <1>1, <2>1, <3>1 DEF Standing
    <3>3. QED
      BY <1>1, <1>4, <2>1, <3>2, UpdateMoves
  <2>4. QED
    BY <2>2, <2>3
<1>5. ASSUME NEW shift, KeyPage(shift)
      PROVE  Moved(W)
  <2>1. PICK rows \in {- EditorRows, EditorRows} :
          cursor' = ClampedToLine(cursor.row + rows, cursor.col)
    BY <1>5 DEF KeyPage
  <2> DEFINE n == cursor.row + rows
             r == Clamp(n, 1, LastRow)
             c == Clamp(cursor.col, 0, Len(Line(r)))
  <2>2. cursor' = At(r, c)
    BY <2>1 DEF ClampedToLine
  <2>3. n \in Int /\ cursor.col \in Int
    BY <1>1, RowsAssumption DEF Standing, Places
  <2> HIDE DEF n
  <2>4. r \in Rows
    BY <1>3, <2>3 DEF Clamp
  <2> HIDE DEF r
  <2>5. Len(Line(r)) \in Nat
    BY <1>3, <2>4
  <2>6. c \in 0 .. Len(Line(r))
    BY <2>3, <2>5 DEF Clamp
  <2>7. CutIn(W, Line(r), c)
    BY <1>2, <2>4, <2>6
  <2> HIDE DEF c
  <2>8. Here(W, cursor') /\ cursor' \in Places
    BY <1>1, <2>2, <2>4, <2>7, StopHere
  <2>9. UpdateSelection(shift) /\ buffer' = buffer
    BY <1>5 DEF KeyPage, Keyed
  <2>10. QED
    BY <1>1, <2>8, <2>9, UpdateMoves
<1>6. PICK shift \in BOOLEAN : KeyUp(shift) \/ KeyDown(shift) \/ KeyPage(shift)
  BY DEF MoveVertically
<1>7. KeyUp(shift) \/ KeyDown(shift) => Moved(W)
  BY <1>4 DEF KeyUp, KeyDown
<1>8. QED
  BY <1>5, <1>6, <1>7 DEF W

-----------------------------------------------------------------------------
(***************************************************************************)
(* All the lines of bytes are a set of lines that is cut within itself at  *)
(* every column.                                                           *)
(***************************************************************************)
LEMMA ByteLines == Lines(Seq(Bytes)) /\ Stops(Seq(Bytes))
<1> DEFINE W == Seq(Bytes)
<1>1. Closed(W, Bytes)
  <2>1. \A x \in Seq(Bytes), y \in Seq(Bytes) : x \o y \in Seq(Bytes)
    BY ConcatProperties
  <2>2. << >> \in Seq(Bytes)
    OBVIOUS
  <2>3. QED
    BY <2>1, <2>2 DEF Closed
<1>2. Typed \subseteq Bytes
  BY DEF Bytes
<1>3. \A ch \in Typed : <<ch>> \in W
  BY <1>2
<1>4. TabText \in W
  <2>1. Len(TabText) \in Nat /\ TabText \in [1 .. Len(TabText) -> Typed]
    BY TextsAssumption, LenProperties, ElementOfSeq
  <2>2. \A i \in 1 .. Len(TabText) : TabText[i] \in Bytes
    BY <1>2, <2>1
  <2>3. TabText = [i \in 1 .. Len(TabText) |-> TabText[i]]
    BY <2>1
  <2>4. QED
    BY <2>1, <2>2, <2>3, IsASeq
<1>5. Lines(W)
  BY <1>1, <1>3, <1>4, TextsAssumption DEF Lines
<1>6. ASSUME NEW line \in W, NEW c \in 0 .. Len(line)
      PROVE  CutIn(W, line, c)
  <2>1. Take(line, c) \in W /\ Drop(line, c) \in W
    BY TakeFacts, DropFacts
  <2>2. QED
    BY <2>1 DEF CutIn
<1>7. \A line \in W : Len(line) \in Nat
  BY LenProperties
<1> HIDE DEF W
<1>8. ASSUME NEW line \in W, NEW c \in 0 .. Len(line) - 1
      PROVE  CutIn(W, line, Clamp(c + CodepointSize(line[c + 1]), 0, Len(line)))
  <2> DEFINE n == Len(line)
             d == Clamp(c + CodepointSize(line[c + 1]), 0, n)
  <2>1. n \in Nat /\ CodepointSize(line[c + 1]) \in {1, 2}
    BY <1>7 DEF CodepointSize
  <2>2. d \in 0 .. n
    BY <2>1 DEF Clamp
  <2> HIDE DEF d
  <2>3. CutIn(W, line, d)
    BY <1>6, <2>2
  <2>4. QED
    BY <2>3 DEF d
<1>9. ASSUME NEW line \in W, NEW q \in Queries, NEW c \in 0 .. Len(line) - Len(q)
      PROVE  CutIn(W, line, c) /\ CutIn(W, line, c + Len(q))
  <2>1. Len(line) \in Nat /\ Len(q) \in Nat
    BY <1>7, TextsAssumption, LenProperties
  <2>2. c \in 0 .. Len(line) /\ c + Len(q) \in 0 .. Len(line)
    BY <2>1
  <2>3. QED
    BY <1>6, <2>2
<1>10. Stops(W)
  BY <1>6, <1>8, <1>9 DEF Stops
<1>11. QED
  BY <1>5, <1>10 DEF W

\* A place of the text is one that such a caret may have.
LEMMA HereIsInText ==
  ASSUME Sound(Seq(Bytes), buffer), NEW p
  PROVE  Here(Seq(Bytes), p) <=> InText(p)
<1>1. Rows = 1 .. Len(buffer.lines)
  BY SoundFacts DEF Rows
<1>2. ASSUME p.row \in Rows, p.col \in 0 .. Len(Line(p.row))
      PROVE  CutIn(Seq(Bytes), Line(p.row), p.col)
  <2>1. Line(p.row) \in Seq(Bytes)
    BY <1>2, ByteLines, RowFacts
  <2>2. Take(Line(p.row), p.col) \in Seq(Bytes) /\ Drop(Line(p.row), p.col) \in Seq(Bytes)
    BY <1>2, <2>1, TakeFacts, DropFacts
  <2>3. QED
    BY <1>2, <2>2 DEF CutIn
<1>3. QED
  BY <1>1, <1>2 DEF Here, CaretIn, CutIn, InText, Line

\* The invariant is what a move may start from, and an edit with a caret and
\* a selection that are in the text.
LEMMA InvariantStands ==
  ASSUME IInv
  PROVE  /\ Standing(Seq(Bytes))
         /\ EraseDefined => Ready(Seq(Bytes))
         /\ PlacesInText <=> Apart(Seq(Bytes))
<1>1. Sound(Seq(Bytes), buffer) /\ cursor \in Places /\ anchor \in Places
  BY DEF IInv
<1>2. \A p : Here(Seq(Bytes), p) <=> InText(p)
  BY <1>1, HereIsInText
<1>3. QED
  BY <1>1, <1>2, ByteLines
  DEF Standing, EraseDefined, Ready, PlacesInText, Apart

\* A step of the code: the drag of the mouse is on or off.
LEMMA DragTypes ==
  ASSUME Move \/ MoveVertically
  PROVE  textSelectDragActive' \in {TRUE, FALSE, textSelectDragActive}
<1>1. ASSUME NEW shift, KeyLeft(shift) \/ KeyRight(shift) \/ KeyHomeEnd(shift)
                          \/ KeyUp(shift) \/ KeyDown(shift) \/ KeyPage(shift)
      PROVE  Keyed
  BY <1>1 DEF KeyLeft, KeyRight, KeyHomeEnd, KeyUp, KeyDown, KeyPage, MoveHorizontally
<1>2. SelectAll \/ DoFind => Keyed
  BY DEF SelectAll, DoFind
<1>3. PressText \/ DragText \/ ReleaseText =>
        textSelectDragActive' \in {TRUE, FALSE, textSelectDragActive}
  BY DEF PressText, DragText, ReleaseText
<1>4. QED
  BY <1>1, <1>2, <1>3 DEF Move, MoveVertically, Keyed

\* What a step does, seen from the invariant.
LEMMA StepFacts ==
  ASSUME IInv, Next
  PROVE  \/ Moved(Seq(Bytes)) /\ (Move \/ MoveVertically)
         \/ Edit /\ Listed(Seq(Bytes))
         \/ Edit /\ Edited(Seq(Bytes))
<1>1. Standing(Seq(Bytes)) /\ (EraseDefined => Ready(Seq(Bytes)))
  BY InvariantStands
<1>2. /\ Lines(Seq(Bytes)) /\ Stops(Seq(Bytes)) /\ Sound(Seq(Bytes), buffer)
      /\ cursor \in Places /\ anchor \in Places
  BY <1>1 DEF Standing
<1>3. QED
  BY <1>1, <1>2, MoveKeeps, MoveVerticallyKeeps, EditKeeps DEF Next

\* The first state.
LEMMA InitialState == Init => IInv
<1> SUFFICES ASSUME Init
             PROVE  IInv
  OBVIOUS
<1> DEFINE x == << << >> >>
           f == << << >> >>
           pb == <<FALSE>>
           al == <<"left">>
           ll == <<0>>
           an == << >>
<1>1. buffer = [lines |-> x, formats |-> f, pageBreakBefore |-> pb,
                alignment |-> al, listLevel |-> ll, anchors |-> an]
  BY DEF Init, EmptyBuffer
<1>2. /\ x \in Seq(Seq(Bytes)) /\ x # << >> /\ Len(x) = 1 /\ DOMAIN x = DOMAIN f
      /\ pb \in Seq(BOOLEAN) /\ Len(pb) = 1
      /\ al \in Seq({"left"}) /\ Len(al) = 1
      /\ ll \in Seq(Levels) /\ Len(ll) = 1
  BY PlainLevel
<1> HIDE DEF x, f, pb, al, ll, an
<1>3. Sound(Seq(Bytes), buffer) /\ buffer.lines = x
  <2> DEFINE W == Seq(Bytes)
             d == [lines |-> x, formats |-> f, pageBreakBefore |-> pb,
                   alignment |-> al, listLevel |-> ll, anchors |-> an]
  <2>1. x \in Seq(W) /\ Len(pb) = Len(x) /\ Len(al) = Len(x) /\ Len(ll) = Len(x)
    BY <1>2
  <2> HIDE DEF W
  <2>2. Sound(W, d) /\ d.lines = x
    BY <1>2, <2>1, Rebuilt DEF W
  <2>3. buffer = d
    BY <1>1
  <2> HIDE DEF d
  <2>4. QED
    BY <2>2, <2>3 DEF W
<1>4. DOMAIN buffer.formats = DOMAIN buffer.lines
  BY <1>1, <1>2
<1>5. cursor \in Places /\ anchor \in Places /\ textSelectDragActive \in BOOLEAN
  BY DEF Init, At, None, Places
<1>6. QED
  BY <1>3, <1>4, <1>5 DEF IInv

\* The invariant, over a step.
LEMMA InvariantKept == IInv /\ [Next]_vars => IInv'
<1> SUFFICES ASSUME IInv, [Next]_vars
             PROVE  IInv'
  OBVIOUS
<1>1. CASE UNCHANGED vars
  BY <1>1 DEF vars, IInv
<1>2. CASE Next
  <2>1. CASE Moved(Seq(Bytes)) /\ (Move \/ MoveVertically)
    BY <2>1, DragTypes DEF Moved, IInv
  <2>2. CASE Listed(Seq(Bytes))
    BY <2>2 DEF Listed, Left, IInv
  <2>3. CASE Edited(Seq(Bytes))
    <3>1. None \in Places
      BY DEF None, Places
    <3>2. QED
      BY <2>3, <3>1 DEF Edited, Left, IInv
  <2>4. QED
    BY <1>2, <2>1, <2>2, <2>3, StepFacts
<1>3. QED
  BY <1>1, <1>2

\* Of every behaviour.
LEMMA Invariance == Spec => []IInv
BY InitialState, InvariantKept, PTL DEF Spec

\* The invariant says what the types are.
LEMMA InvariantTypes == IInv => TypeOK
<1> SUFFICES ASSUME IInv
             PROVE  TypeOK
  OBVIOUS
<1>1. Sound(Seq(Bytes), buffer)
  BY DEF IInv
<1>2. Rows = 1 .. LastRow /\ LastRow \in Nat
  BY <1>1, ByteLines, RowFacts
<1>3. ASSUME NEW r \in Rows, NEW i \in DOMAIN Line(r)
      PROVE  Line(r)[i] \in Bytes
  <2>1. Line(r) \in Seq(Bytes)
    BY <1>1, ByteLines, RowFacts
  <2>2. i \in 1 .. Len(Line(r))
    BY <2>1, LenProperties
  <2>3. QED
    BY <2>1, <2>2, ElementOfSeq
<1>4. /\ DOMAIN buffer.formats = Rows /\ DOMAIN buffer.pageBreakBefore = Rows
      /\ DOMAIN buffer.alignment = Rows /\ DOMAIN buffer.listLevel = Rows
  <2>1. /\ buffer.pageBreakBefore \in Seq(BOOLEAN)
        /\ Len(buffer.pageBreakBefore) = LastRow
        /\ buffer.alignment \in Seq({"left"}) /\ Len(buffer.alignment) = LastRow
        /\ buffer.listLevel \in Seq(Levels) /\ Len(buffer.listLevel) = LastRow
    BY <1>1, SoundFacts DEF LastRow
  <2>2. QED
    BY <1>2, <2>1, LenProperties DEF IInv, Rows
<1>5. \A r \in Rows : ListLevel(buffer, r) \in 0 .. MaxListLevel
  BY <1>1, ListLevelRange
<1>6. QED
  BY <1>3, <1>4, <1>5 DEF TypeOK, IInv

-----------------------------------------------------------------------------
(***************************************************************************)
(* What the edits of the text owe to the places.                           *)
(***************************************************************************)
\* With nothing selected and no empty selection left there is no anchor.
LEMMA NothingPending ==
  ASSUME ~ Pending, ~ Selected
  PROVE  anchor = None
BY DEF Pending, Selected

\* Caret and anchor stay in the text.
LEMMA PlacesStep ==
  ASSUME IInv, Next, PlacesInText, ~ Pending
  PROVE  PlacesInText'
<1> DEFINE W == Seq(Bytes)
<1>1. Apart(W)
  BY InvariantStands
<1>2. Sound(W, buffer')
  BY InvariantKept DEF IInv
<1>3. ASSUME CaretIn(W, buffer'.lines, cursor'.row, cursor'.col),
             anchor' # None => CaretIn(W, buffer'.lines, anchor'.row, anchor'.col)
      PROVE  PlacesInText'
  <2>1. DOMAIN buffer'.lines = 1 .. Len(buffer'.lines)
    BY <1>2, SoundFacts
  <2>2. QED
    BY <1>3, <2>1 DEF PlacesInText, InText, Rows, Line, CaretIn, CutIn
<1>4. CASE Moved(W)
  BY <1>1, <1>3, <1>4 DEF Moved, Here
<1>5. CASE Listed(W)
  BY <1>1, <1>3, <1>5 DEF Listed, Apart, Here
<1>6. CASE Edited(W)
  <2>1. anchor' = None
    BY <1>6, NothingPending DEF Edited
  <2>2. QED
    BY <1>3, <1>6, <2>1 DEF Edited
<1>7. QED
  BY <1>4, <1>5, <1>6, StepFacts

\* No change of the text leaves a selection active.
LEMMA SelectionStep ==
  ASSUME IInv, Next, buffer'.lines # buffer.lines, ~ Pending
  PROVE  anchor' = None
<1>1. ~ Moved(Seq(Bytes)) /\ ~ Listed(Seq(Bytes))
  BY DEF Moved, Listed
<1>2. Edited(Seq(Bytes))
  BY <1>1, StepFacts
<1>3. QED
  BY <1>2, NothingPending DEF Edited

-----------------------------------------------------------------------------
(***************************************************************************)
(* The lines that are UTF-8 are closed too, and cut within themselves      *)
(* before every byte but a continuation.                                   *)
(***************************************************************************)
Utf8 == {line \in Seq(Bytes) : WellFormed(line)}

\* A line is put together from such lines.
LEMMA Utf8Joins ==
  ASSUME NEW x \in Utf8, NEW y \in Utf8
  PROVE  x \o y \in Utf8
<1> DEFINE z == x \o y
           m == Len(x)
           n == Len(y)
<1>1. /\ x \in Seq(Bytes) /\ y \in Seq(Bytes) /\ WellFormed(x) /\ WellFormed(y)
  BY DEF Utf8
<1>2. /\ m \in Nat /\ n \in Nat /\ DOMAIN x = 1 .. m /\ DOMAIN y = 1 .. n
  BY <1>1, LenProperties
<1>3. /\ z \in Seq(Bytes) /\ Len(z) = m + n
      /\ \A i \in 1 .. m + n : z[i] = IF i <= m THEN x[i] ELSE y[i - m]
  BY <1>1, ConcatProperties
<1>4. DOMAIN z = 1 .. m + n
  BY <1>3, LenProperties
<1>8. ASSUME NEW i \in 1 .. m
      PROVE  z[i] = x[i]
  BY <1>2, <1>3
<1>9. ASSUME NEW i \in 1 .. n
      PROVE  z[m + i] = y[i]
  <2>1. m + i \in 1 .. m + n /\ ~ (m + i <= m) /\ m + i - m = i
    BY <1>2
  <2>2. QED
    BY <1>3, <2>1
<1>10. \A i \in 1 .. m : /\ x[i] = Lead <=> i < m /\ x[i + 1] = Continuation
                         /\ x[i] = Continuation => i > 1
  BY <1>1, <1>2 DEF WellFormed
<1>11. \A i \in 1 .. n : /\ y[i] = Lead <=> i < n /\ y[i + 1] = Continuation
                         /\ y[i] = Continuation => i > 1
  BY <1>1, <1>2 DEF WellFormed
<1> HIDE DEF z, m, n
<1>5. ASSUME NEW i \in 1 .. m + n
      PROVE  /\ z[i] = Lead <=> i < m + n /\ z[i + 1] = Continuation
             /\ z[i] = Continuation => i > 1
  <2>1. CASE i < m
    <3>1. i \in 1 .. m /\ i + 1 \in 1 .. m /\ i < m + n
      BY <1>2, <2>1
    <3>2. z[i] = x[i] /\ z[i + 1] = x[i + 1]
      BY <1>8, <3>1
    <3>3. QED
      BY <1>10, <2>1, <3>1, <3>2
  <2>2. CASE i = m
    <3>1. m \in 1 .. m /\ ~ (m < m)
      BY <1>2, <2>2
    <3>2. z[m] = x[m] /\ x[m] # Lead /\ (x[m] = Continuation => m > 1)
      BY <1>8, <1>10, <3>1
    <3>3. ASSUME m < m + n
          PROVE  z[m + 1] # Continuation
      <4>1. 1 \in 1 .. n /\ ~ (1 > 1)
        BY <1>2, <3>3
      <4>2. z[m + 1] = y[1]
        BY <1>9, <4>1
      <4>3. QED
        BY <1>11, <4>1, <4>2
    <3>4. QED
      BY <2>2, <3>2, <3>3
  <2>3. CASE i > m
    <3> DEFINE j == i - m
    <3>1. j \in 1 .. n /\ i = m + j /\ (i < m + n <=> j < n) /\ j <= i /\ i + 1 = m + (j + 1)
      BY <1>2, <2>3
    <3>2. z[i] = y[j]
      BY <1>9, <3>1
    <3>3. j < n => z[i + 1] = y[j + 1]
      <4>1. j < n => j + 1 \in 1 .. n
        BY <1>2, <3>1
      <4>2. QED
        BY <1>9, <3>1, <4>1
    <3>4. /\ y[j] = Lead <=> j < n /\ y[j + 1] = Continuation
          /\ y[j] = Continuation => j > 1
      BY <1>11, <3>1
    <3>5. j > 1 => i > 1
      BY <1>2, <2>3, <3>1
    <3>6. QED
      BY <3>1, <3>2, <3>3, <3>4, <3>5
  <2>4. QED
    BY <1>2, <2>1, <2>2, <2>3
<1>6. WellFormed(z)
  BY <1>3, <1>4, <1>5 DEF WellFormed
<1>7. QED
  BY <1>3, <1>6 DEF Utf8, z

\* A line is cut into such lines before every byte but a continuation, and
\* nowhere else.
LEMMA Utf8Cuts ==
  ASSUME NEW line \in Utf8, NEW c \in 0 .. Len(line)
  PROVE  CutIn(Utf8, line, c) <=> ~ IsContinuation(line, c)
<1> DEFINE n == Len(line)
           x == Take(line, c)
           y == Drop(line, c)
<1>1. line \in Seq(Bytes) /\ WellFormed(line)
  BY DEF Utf8
<1>2. n \in Nat /\ DOMAIN line = 1 .. n
  BY <1>1, LenProperties
<1>3. /\ x \in Seq(Bytes) /\ Len(x) = c /\ \A i \in 1 .. c : x[i] = line[i]
      /\ y \in Seq(Bytes) /\ Len(y) = n - c
      /\ \A i \in 1 .. n - c : y[i] = line[c + i]
  BY <1>1, TakeFacts, DropFacts
<1>4. DOMAIN x = 1 .. c /\ DOMAIN y = 1 .. n - c
  BY <1>3, LenProperties
<1>5. \A i \in 1 .. n : /\ line[i] = Lead <=> i < n /\ line[i + 1] = Continuation
                        /\ line[i] = Continuation => i > 1
  BY <1>1, <1>2 DEF WellFormed
<1>6. IsContinuation(line, c) <=> c < n /\ line[c + 1] = Continuation
  BY DEF IsContinuation
<1>7. CutIn(Utf8, line, c) <=> WellFormed(x) /\ WellFormed(y)
  BY <1>3 DEF CutIn, Utf8
<1> HIDE DEF n, x, y
<1>8. ASSUME ~ IsContinuation(line, c)
      PROVE  WellFormed(x) /\ WellFormed(y)
  <2>1. ASSUME NEW i \in 1 .. c
        PROVE  /\ x[i] = Lead <=> i < c /\ x[i + 1] = Continuation
               /\ x[i] = Continuation => i > 1
    <3>1. i \in 1 .. n /\ x[i] = line[i] /\ c \in 0 .. n
      BY <1>2, <1>3 DEF n
    <3>2. i < c => i + 1 \in 1 .. c /\ x[i + 1] = line[i + 1] /\ i < n
      BY <1>2, <1>3, <3>1
    <3>3. i = c => (c < n => line[i + 1] # Continuation)
      BY <1>6, <1>8
    <3>4. i < c \/ i = c
      BY <1>2, <3>1
    <3>5. QED
      BY <1>5, <3>1, <3>2, <3>3, <3>4
  <2>2. ASSUME NEW i \in 1 .. n - c
        PROVE  /\ y[i] = Lead <=> i < n - c /\ y[i + 1] = Continuation
               /\ y[i] = Continuation => i > 1
    <3> DEFINE j == c + i
    <3>1. c \in 0 .. n
      BY DEF n
    <3>2. j \in 1 .. n /\ y[i] = line[j] /\ (j < n <=> i < n - c)
      BY <1>2, <1>3, <3>1
    <3>3. i < n - c => y[i + 1] = line[j + 1]
      <4>1. i < n - c => i + 1 \in 1 .. n - c /\ c + (i + 1) = j + 1
        BY <1>2, <3>1
      <4>2. QED
        BY <1>3, <4>1
    <3>4. i = 1 => line[j] # Continuation
      <4>1. i = 1 => j = c + 1 /\ c < n
        BY <1>2, <3>1
      <4>2. QED
        BY <1>6, <1>8, <4>1
    <3>5. i > 1 \/ i = 1
      BY <1>2, <3>1
    <3> HIDE DEF j
    <3>6. QED
      BY <1>5, <3>2, <3>3, <3>4, <3>5
  <2>3. QED
    BY <1>3, <1>4, <2>1, <2>2 DEF WellFormed
<1>9. ASSUME IsContinuation(line, c), WellFormed(y)
      PROVE  FALSE
  <2>1. c < n /\ line[c + 1] = Continuation /\ c \in 0 .. n
    BY <1>6, <1>9 DEF n
  <2>2. 1 \in 1 .. n - c
    BY <1>2, <2>1
  <2>3. y[1] = Continuation /\ 1 \in DOMAIN y
    BY <1>3, <1>4, <2>1, <2>2
  <2>4. \A i \in DOMAIN y : y[i] = Continuation => i > 1
    BY <1>9 DEF WellFormed
  <2>5. ~ (1 > 1)
    OBVIOUS
  <2>6. QED
    BY <2>3, <2>4, <2>5
<1>10. QED
  BY <1>7, <1>8, <1>9

\* Those lines are closed, and the stops cut them, if texts are UTF-8.
LEMMA Utf8Lines ==
  ASSUME TextsAreUtf8
  PROVE  Lines(Utf8) /\ Stops(Utf8)
<1>1. Closed(Utf8, Bytes)
  <2>1. << >> \in Utf8
    BY DEF Utf8, WellFormed
  <2>2. Utf8 \subseteq Seq(Bytes)
    BY DEF Utf8
  <2>3. QED
    BY <2>1, <2>2, Utf8Joins DEF Closed
<1>2. ASSUME NEW line \in Seq(Typed)
      PROVE  line \in Utf8
  <2>1. Len(line) \in Nat /\ DOMAIN line = 1 .. Len(line)
    BY LenProperties
  <2>2. \A i \in 1 .. Len(line) : line[i] \in Typed
    BY ElementOfSeq
  <2>3. \A i \in 1 .. Len(line) : line[i] # Lead /\ line[i] # Continuation
    BY <2>2, CharactersAssumption
  <2>4. \A i \in 1 .. Len(line) : i < Len(line) => line[i + 1] # Continuation
    <3>1. ASSUME NEW i \in 1 .. Len(line), i < Len(line)
          PROVE  line[i + 1] # Continuation
      <4>1. i + 1 \in 1 .. Len(line)
        BY <2>1, <3>1
      <4>2. QED
        BY <2>3, <4>1
    <3>2. QED
      BY <3>1
  <2>5. WellFormed(line)
    BY <2>1, <2>3, <2>4 DEF WellFormed
  <2>6. line \in Seq(Bytes)
    <3>1. \A i \in 1 .. Len(line) : line[i] \in Bytes
      BY <2>2 DEF Bytes
    <3>2. line = [i \in 1 .. Len(line) |-> line[i]]
      BY <2>1
    <3>3. QED
      BY <2>1, <3>1, <3>2, IsASeq
  <2>7. QED
    BY <2>5, <2>6 DEF Utf8
<1>3. \A ch \in Typed : <<ch>> \in Utf8
  <2>1. \A ch \in Typed : <<ch>> \in Seq(Typed)
    OBVIOUS
  <2>2. QED
    BY <1>2, <2>1
<1>4. TabText \in Utf8
  BY <1>2, TextsAssumption
<1>5. ASSUME NEW parts \in Texts
      PROVE  parts \in Seq(Utf8)
  <2>1. parts \in Seq(Seq(Bytes))
    BY TextsAssumption
  <2>2. Len(parts) \in Nat /\ DOMAIN parts = 1 .. Len(parts)
    BY <2>1, LenProperties
  <2>3. \A i \in 1 .. Len(parts) : parts[i] \in Seq(Bytes)
    BY <2>1, ElementOfSeq
  <2>4. \A i \in 1 .. Len(parts) : parts[i] \in Utf8
    BY <2>2, <2>3 DEF TextsAreUtf8, Utf8
  <2>5. parts = [i \in 1 .. Len(parts) |-> parts[i]]
    <3>1. parts = [i \in DOMAIN parts |-> parts[i]]
      BY <2>1
    <3>2. QED
      BY <2>2, <3>1
  <2>6. QED
    BY <2>2, <2>4, <2>5, IsASeq
<1>6. Lines(Utf8)
  BY <1>1, <1>3, <1>4, <1>5 DEF Lines
<1>7. \A line \in Utf8 : Len(line) \in Nat
  BY LenProperties DEF Utf8
<1>8. ASSUME NEW line \in Utf8, NEW c \in 0 .. Len(line) - 1, CutIn(Utf8, line, c)
      PROVE  CutIn(Utf8, line, Clamp(c + CodepointSize(line[c + 1]), 0, Len(line)))
  <2> DEFINE n == Len(line)
             d == Clamp(c + CodepointSize(line[c + 1]), 0, n)
  <2>1. n \in Nat /\ c \in 0 .. n - 1 /\ c \in 0 .. n /\ c + 1 \in 1 .. n
    BY <1>7
  <2>2. ~ IsContinuation(line, c)
    BY <1>8, <2>1, Utf8Cuts
  <2>3. line[c + 1] # Continuation
    BY <2>1, <2>2 DEF IsContinuation
  <2>4. \A i \in 1 .. n : /\ line[i] = Lead <=> i < n /\ line[i + 1] = Continuation
                          /\ line[i] = Continuation => i > 1
    <3>1. WellFormed(line) /\ DOMAIN line = 1 .. n
      BY LenProperties DEF Utf8
    <3>2. QED
      BY <3>1 DEF WellFormed
  <2>5. d \in 0 .. n
    <3>1. CodepointSize(line[c + 1]) \in {1, 2}
      BY DEF CodepointSize
    <3>2. QED
      BY <2>1, <3>1 DEF Clamp
  <2>6. ~ IsContinuation(line, d)
    <3>1. CASE line[c + 1] # Lead
      <4>1. d = c + 1
        BY <2>1, <3>1 DEF Clamp, CodepointSize
      <4>2. ~ (c + 1 < n /\ line[c + 1 + 1] = Continuation)
        BY <2>1, <2>4, <3>1
      <4> HIDE DEF d
      <4>3. QED
        BY <4>1, <4>2 DEF IsContinuation
    <3>2. CASE line[c + 1] = Lead
      <4>1. c + 1 < n
        BY <2>1, <2>4, <3>2
      <4>2. line[c + 1 + 1] = Continuation
        BY <2>1, <2>4, <3>2
      <4>3. d = c + 2 /\ c + 2 \in 1 .. n /\ c + 1 + 1 = c + 2
        BY <2>1, <3>2, <4>1 DEF Clamp, CodepointSize
      <4>4. line[c + 2] # Lead
        BY <4>2, <4>3, CharactersAssumption
      <4>5. ~ (c + 2 < n /\ line[c + 2 + 1] = Continuation)
        BY <2>4, <4>3, <4>4
      <4> HIDE DEF d
      <4>6. QED
        BY <4>3, <4>5 DEF IsContinuation
    <3>3. QED
      BY <3>1, <3>2
  <2> HIDE DEF d
  <2>7. CutIn(Utf8, line, d)
    BY <2>5, <2>6, Utf8Cuts
  <2>8. QED
    BY <2>7 DEF d
<1>9. ASSUME NEW line \in Utf8, NEW q \in Queries, NEW c \in 0 .. Len(line) - Len(q),
             SubSeq(line, c + 1, c + Len(q)) = q
      PROVE  CutIn(Utf8, line, c) /\ CutIn(Utf8, line, c + Len(q))
  <2> DEFINE n == Len(line)
             m == Len(q)
             e == c + m
  <2>1. q \in Seq(Bytes) /\ q # << >> /\ line \in Seq(Bytes)
    BY TextsAssumption DEF Utf8
  <2>2. /\ n \in Nat /\ m \in Nat \ {0}
        /\ DOMAIN line = 1 .. n /\ DOMAIN q = 1 .. m
    BY <2>1, LenProperties, EmptySeq
  <2>3. c \in 0 .. n /\ e \in c .. n /\ e - c = m /\ e \in 0 .. n
    BY <2>2
  <2>4. \A i \in 1 .. m : q[i] = line[c + i]
    <3> DEFINE s == SubSeq(line, c + 1, e)
    <3>1. s = q
      BY <1>9
    <3>2. \A i \in 1 .. e - c : s[i] = line[c + i]
      <4> HIDE DEF e
      <4>1. c \in 0 .. Len(line) /\ e \in c .. Len(line)
        BY <2>3
      <4>2. QED
        BY <2>1, <4>1, MiddleFacts
    <3> HIDE DEF s, e
    <3>3. QED
      BY <2>3, <3>1, <3>2
  <2>5. /\ \A i \in 1 .. n : line[i] = Lead <=> i < n /\ line[i + 1] = Continuation
        /\ \A i \in 1 .. m : /\ q[i] = Lead <=> i < m /\ q[i + 1] = Continuation
                             /\ q[i] = Continuation => i > 1
    <3>1. WellFormed(line) /\ WellFormed(q)
      BY DEF Utf8, TextsAreUtf8
    <3>2. QED
      BY <2>2, <3>1 DEF WellFormed
  <2>6. ~ IsContinuation(line, c)
    <3>1. 1 \in 1 .. m /\ ~ (1 > 1)
      BY <2>2
    <3>2. line[c + 1] # Continuation
      BY <2>4, <2>5, <3>1
    <3>3. QED
      BY <3>2 DEF IsContinuation
  <2>7. ~ IsContinuation(line, e)
    <3>1. m \in 1 .. m /\ ~ (m < m)
      BY <2>2
    <3>2. line[c + m] # Lead
      BY <2>4, <2>5, <3>1
    <3>3. e \in 1 .. n
      BY <2>2, <2>3
    <3>4. ~ (e < n /\ line[e + 1] = Continuation)
      BY <2>5, <3>2, <3>3
    <3>5. QED
      BY <3>4 DEF IsContinuation
  <2> HIDE DEF e
  <2>8. CutIn(Utf8, line, c) /\ CutIn(Utf8, line, e)
    BY <2>3, <2>6, <2>7, Utf8Cuts
  <2>9. QED
    BY <2>8 DEF e
<1>10. Stops(Utf8)
  BY <1>8, <1>9, Utf8Cuts DEF Stops
<1>11. QED
  BY <1>6, <1>10

\* The text is UTF-8, and caret and anchor are between codepoints.
LEMMA WholeStep ==
  ASSUME TextsAreUtf8, IInv, Next, ~ MoveVertically,
         PlacesInText, ~ Pending, Whole
  PROVE  Whole'
<1>1. Lines(Utf8) /\ Stops(Utf8)
  BY Utf8Lines
<1>2. /\ Rows = 1 .. LastRow /\ LastRow \in Nat
      /\ \A row \in Rows : Line(row) \in Seq(Bytes)
  BY ByteLines, RowFacts DEF IInv
<1>3. Sound(Utf8, buffer)
  <2>1. \A row \in 1 .. LastRow : buffer.lines[row] \in Utf8
    BY <1>2 DEF Whole, Utf8, Line
  <2>2. /\ buffer.lines \in Seq(Seq(Bytes)) /\ buffer.lines # << >>
        /\ IsBuffer(buffer) /\ Paragraphs(buffer, Len(buffer.lines))
    BY DEF IInv, Sound
  <2>3. buffer.lines = [row \in 1 .. LastRow |-> buffer.lines[row]]
    <3>1. buffer.lines = [row \in DOMAIN buffer.lines |-> buffer.lines[row]]
      BY <2>2
    <3>2. QED
      BY <1>2, <3>1 DEF Rows
  <2>4. buffer.lines \in Seq(Utf8)
    <3> DEFINE ls == buffer.lines
               n  == LastRow
               W  == Utf8
    <3>1. n \in Nat /\ (\A row \in 1 .. n : ls[row] \in W)
          /\ ls = [row \in 1 .. n |-> ls[row]]
      BY <1>2, <2>1, <2>3
    <3> HIDE DEF ls, n, W
    <3>2. ls \in Seq(W)
      BY <3>1, IsASeq
    <3>3. QED
      BY <3>2 DEF ls, W
  <2>5. QED
    BY <2>2, <2>4 DEF Sound
<1>4. ASSUME NEW p, InText(p), OnCodepoint(p)
      PROVE  Here(Utf8, p)
  <2>1. p.row \in Rows /\ p.col \in 0 .. Len(Line(p.row))
    BY <1>4 DEF InText
  <2>2. ~ IsContinuation(Line(p.row), p.col)
    BY <1>4 DEF OnCodepoint
  <2>3. Line(p.row) \in Utf8
    BY <1>1, <1>3, <2>1, RowFacts
  <2>4. CutIn(Utf8, Line(p.row), p.col)
    BY <2>1, <2>2, <2>3, Utf8Cuts
  <2>5. QED
    BY <1>2, <2>1, <2>4 DEF Here, CaretIn, LastRow, Line
<1>5. Apart(Utf8) /\ cursor \in Places /\ anchor \in Places
  BY <1>4 DEF Apart, PlacesInText, Whole, IInv
<1>6. Standing(Utf8) /\ Ready(Utf8)
  BY <1>1, <1>3, <1>5 DEF Standing, Ready, Apart, Selected
<1>7. ASSUME Sound(Utf8, buffer'),
             CaretIn(Utf8, buffer'.lines, cursor'.row, cursor'.col),
             anchor' # None => CaretIn(Utf8, buffer'.lines, anchor'.row, anchor'.col)
      PROVE  Whole'
  <2> DEFINE ls == buffer'.lines
  <2>1. /\ ls \in Seq(Utf8) /\ Len(ls) \in Nat /\ DOMAIN ls = 1 .. Len(ls)
    BY <1>7, SoundFacts
  <2>2. \A row \in 1 .. Len(ls) : ls[row] \in Utf8
    BY <2>1, ElementOfSeq
  <2>3. \A row \in DOMAIN ls : WellFormed(ls[row])
    BY <2>1, <2>2 DEF Utf8
  <2> HIDE DEF ls
  <2>4. ASSUME NEW row, NEW col, CaretIn(Utf8, ls, row, col)
        PROVE  ~ IsContinuation(ls[row], col)
    <3>1. row \in 1 .. Len(ls) /\ CutIn(Utf8, ls[row], col) /\ col \in 0 .. Len(ls[row])
      BY <2>4 DEF CaretIn, CutIn
    <3>2. ls[row] \in Utf8
      BY <2>2, <3>1
    <3>3. QED
      BY <3>1, <3>2, Utf8Cuts
  <2>5. OnCodepoint(cursor)'
    BY <1>7, <2>4 DEF OnCodepoint, Line, ls
  <2>6. (anchor # None => OnCodepoint(anchor))'
    BY <1>7, <2>4 DEF OnCodepoint, Line, ls, None
  <2>7. QED
    BY <2>3, <2>5, <2>6 DEF Whole, Rows, Line, ls
<1>8. CASE Move
  <2>1. Moved(Utf8)
    BY <1>6, <1>8, MoveKeeps
  <2>2. QED
    BY <1>3, <1>5, <1>7, <2>1 DEF Moved, Here
<1>9. CASE Edit
  <2>1. Listed(Utf8) \/ Edited(Utf8)
    BY <1>1, <1>3, <1>5, <1>6, <1>9, EditKeeps
  <2>2. CASE Listed(Utf8)
    BY <1>5, <1>7, <2>2 DEF Listed, Left, Apart, Here
  <2>3. CASE Edited(Utf8)
    <3>1. anchor' = None
      BY <2>3, NothingPending DEF Edited
    <3>2. QED
      BY <1>7, <2>3, <3>1 DEF Edited, Left
  <2>4. QED
    BY <2>1, <2>2, <2>3
<1>10. QED
  BY <1>8, <1>9 DEF Next

-----------------------------------------------------------------------------
(***************************************************************************)
(* Cut and Paste, and the repeated search.                                 *)
(***************************************************************************)
\* What Cut takes, Paste puts back.
LEMMA CutPasted == IInv => CutThenPasteRestores
<1> SUFFICES ASSUME IInv, Selected, PlacesInText
             PROVE  LET from  == GetRange.from
                        to    == GetRange.to
                        parts == GetText(buffer.lines, from.row, from.col, to.row, to.col)
                        cut   == DeleteRangeText(buffer.lines, from.row, from.col, to.row, to.col)
                    IN  InsertTextText(cut, from.col, from.row, parts) = buffer.lines
  BY DEF CutThenPasteRestores
<1> DEFINE ls == buffer.lines
           p  == GetRange.from
           q  == GetRange.to
           r1 == p.row
           c1 == p.col
           r2 == q.row
           c2 == q.col
<1>1. cursor \in Places /\ anchor \in Places /\ Sound(Seq(Bytes), buffer)
  BY DEF IInv
<1>2. p \in {anchor, cursor} /\ q \in {anchor, cursor} /\ NotAfter(p, q)
  BY <1>1, RangeFacts
<1>3. InText(cursor) /\ InText(anchor)
  BY DEF PlacesInText, Selected
<1>4. ls \in Seq(Seq(Bytes)) /\ DOMAIN ls = 1 .. Len(ls)
  BY <1>1, SoundFacts
<1>5. /\ r1 \in 1 .. Len(ls) /\ c1 \in 0 .. Len(ls[r1])
      /\ r2 \in 1 .. Len(ls) /\ c2 \in 0 .. Len(ls[r2])
  <2> HIDE DEF p, q
  <2>1. InText(p) /\ InText(q)
    BY <1>2, <1>3
  <2>2. QED
    BY <1>4, <2>1 DEF InText, Rows, Line
<1>6. r1 < r2 \/ (r1 = r2 /\ c1 <= c2)
  BY <1>2 DEF NotAfter
<1> HIDE DEF r1, c1, r2, c2, ls
<1>7. InsertTextText(DeleteRangeText(ls, r1, c1, r2, c2), c1, r1,
                     GetText(ls, r1, c1, r2, c2)) = ls
  BY <1>4, <1>5, <1>6, PasteAfterCut
<1>8. QED
  BY <1>7 DEF r1, c1, r2, c2, ls

\* Every match is come to, whatever the text and the query.
LEMMA EveryMatchFound == IInv => FindReachesEveryMatch
<1> SUFFICES ASSUME IInv, NEW query \in Queries,
                    NEW from \in {cursor, At(LastRow + 1, cursor.col)}
             PROVE  LET all == Matches(buffer.lines, query)
                        found[n \in 0 .. Cardinality(all)] ==
                          LET last == IF n = 0 THEN from ELSE found[n - 1]
                          IN  FindNextText(buffer.lines, query, last.row, last.col)
                    IN  \A m \in all :
                          /\ \E n \in DOMAIN found : Overlap(m, found[n], Len(query))
                          /\ \A n \in DOMAIN found : found[n] # NotFound
  BY DEF FindReachesEveryMatch
<1> DEFINE ls  == buffer.lines
           all == Matches(ls, query)
           size == Cardinality(all)
           Round(f) == f = [n \in 0 .. size |->
                              LET last == IF n = 0 THEN from ELSE f[n - 1]
                              IN  FindNextText(ls, query, last.row, last.col)]
           found == CHOOSE f : Round(f)
<1>1. /\ Sound(Seq(Bytes), buffer) /\ cursor \in Places
      /\ ls \in Seq(Seq(Bytes)) /\ LastRow \in Nat
      /\ query \in Seq(Bytes) \ {<< >>}
  BY SoundFacts, TextsAssumption DEF IInv, LastRow
<1>2. from \in PlaceSet
  BY <1>1 DEF Places, PlaceSet, At
<1>3. size \in Nat
  <2>1. IsFiniteSet(all)
    <3> HIDE DEF ls
    <3>1. QED
      BY <1>1, MatchFacts
  <2>2. QED
    BY <2>1, FS_CardinalityType
<1>4. ASSUME NEW f
      PROVE  Round(f) <=> SearchRun(f, size, ls, query, from)
  BY DEF SearchRun, SearchFrom
<1>5. \E f : SearchRun(f, size, ls, query, from)
  <2> HIDE DEF size, ls
  <2>1. QED
    BY <1>3, SearchRunExists
<1>6. \E f : Round(f)
  BY <1>4, <1>5
<1> HIDE DEF Round
<1>7. Round(found)
  BY <1>6
<1>8. SearchRun(found, size, ls, query, from) /\ found = [n \in 0 .. size |-> found[n]]
  BY <1>4, <1>7 DEF Round
<1>9. ASSUME NEW m \in all
      PROVE  /\ \E n \in DOMAIN found : Overlap(m, found[n], Len(query))
             /\ \A n \in DOMAIN found : found[n] # NotFound
  <2> HIDE DEF found, ls
  <2>3. /\ m \in Matches(ls, query)
        /\ SearchRun(found, Cardinality(Matches(ls, query)), ls, query, from)
    BY <1>8
  <2>4. ls \in Seq(Seq(Bytes)) /\ query \in Seq(Bytes) \ {<< >>} /\ from \in PlaceSet
    BY <1>1, <1>2
  <2> HIDE DEF all, size
  <2>1. /\ \E k \in DOMAIN found :
             /\ m.row = found[k].row
             /\ m.col < found[k].col + Len(query)
             /\ found[k].col < m.col + Len(query)
        /\ \A k \in DOMAIN found : found[k] # NotFound
    BY <2>3, <2>4, SearchesReach
  <2>2. QED
    BY <2>1 DEF Overlap
<1>10. QED
  BY <1>9 DEF Round

-----------------------------------------------------------------------------
(***************************************************************************)
(* The theorems.                                                           *)
(***************************************************************************)
\* The layers of the buffer stay parallel under every key, its lines hold
\* bytes, its lists are no deeper than kMaxListLevel, and caret and anchor
\* are places.
THEOREM TypeCorrect == Spec => []TypeOK
<1>1. IInv => TypeOK
  BY InvariantTypes
<1>2. QED
  BY <1>1, Invariance, PTL

\* Every command, from a caret and an anchor in the text and no empty
\* selection, leaves caret and anchor in the text: the mutators and the line
\* accesses take them unclamped.
THEOREM PlacesStay == Spec => PlacesStayInText
<1>1. IInv /\ [Next]_vars => [PlacesInText /\ ~ Pending => PlacesInText']_vars
  BY PlacesStep
<1>2. QED
  BY <1>1, Invariance, PTL DEF Spec, PlacesStayInText

\* No command that changes the text leaves a selection active.
THEOREM SelectionUsedUp == Spec => EditsUseSelectionUp
<1>1. IInv /\ [Next]_vars =>
        [buffer'.lines # buffer.lines /\ ~ Pending => anchor' = None]_vars
  BY SelectionStep
<1>2. QED
  BY <1>1, Invariance, PTL DEF Spec, EditsUseSelectionUp

\* Where texts are UTF-8, every edit keeps the text UTF-8, and every command
\* but the moves up and down keeps caret and anchor between codepoints.
THEOREM CodepointsWhole ==
  ASSUME TextsAreUtf8
  PROVE  Spec => CodepointsStayWhole
<1>1. IInv /\ [Next]_vars =>
        [PlacesInText /\ ~ Pending /\ Whole => Whole' \/ MoveVertically]_vars
  BY WholeStep
<1>2. QED
  BY <1>1, Invariance, PTL DEF Spec, CodepointsStayWhole

\* What Cut takes out of any selection, Paste puts back.
THEOREM CutPastes == Spec => []CutThenPasteRestores
<1>1. IInv => CutThenPasteRestores
  BY CutPasted
<1>2. QED
  BY <1>1, Invariance, PTL

\* The find command, repeated, comes to every match of any text.
THEOREM FindReaches == Spec => []FindReachesEveryMatch
<1>1. IInv => FindReachesEveryMatch
  BY EveryMatchFound
<1>2. QED
  BY <1>1, Invariance, PTL
=============================================================================
