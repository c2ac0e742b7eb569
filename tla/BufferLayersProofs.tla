-------------------------- MODULE BufferLayersProofs --------------------------
(***************************************************************************)
(* The vectors of the formatted buffer stay parallel, its characters       *)
(* formatted and its floats on its rows, for every text, every set of      *)
(* formats and of pastes, and every caret and selection.                   *)
(***************************************************************************)
EXTENDS MCBufferLayers, TextBufferProofs, FunctionTheorems

(***************************************************************************)
(* A sound buffer: typed, and as the three invariants have it.             *)
(***************************************************************************)
BufferType ==
  [lines : Seq(Seq(Chars)), formats : Seq(Seq(Formats)),
   pageBreakBefore : Seq(BOOLEAN), alignment : Seq(Alignments \cup {"left"}),
   listLevel : Seq(Nat), anchors : Seq(Nat)]

Covers(ls, fs) ==
  /\ ls \in Seq(Seq(Chars)) /\ fs \in Seq(Seq(Formats))
  /\ Len(fs) = Len(ls)
  /\ \A r \in 1 .. Len(ls) : Len(fs[r]) >= Len(ls[r])

ParagraphState(b, n) ==
  /\ Len(b.pageBreakBefore) = n
  /\ Len(b.alignment) = n
  /\ Len(b.listLevel) = n
  /\ \A i \in 1 .. Len(b.anchors) : b.anchors[i] \in 1 .. n

Sound(b) ==
  /\ b \in BufferType
  /\ Len(b.lines) \in Nat \ {0}
  /\ Covers(b.lines, b.formats)
  /\ ParagraphState(b, Len(b.lines))

\* A row of each layer, and how long they are.
LEMMA RowFacts ==
  ASSUME NEW ls, NEW fs, Covers(ls, fs), NEW r \in 1 .. Len(ls)
  PROVE  /\ ls[r] \in Seq(Chars) /\ fs[r] \in Seq(Formats)
         /\ Len(ls[r]) \in Nat /\ Len(fs[r]) \in Nat
         /\ Len(ls[r]) <= Len(fs[r])
         /\ DOMAIN ls = 1 .. Len(ls) /\ DOMAIN fs = 1 .. Len(ls)
         /\ Len(ls) \in Nat
<1>1. ls \in Seq(Seq(Chars)) /\ fs \in Seq(Seq(Formats)) /\ Len(fs) = Len(ls)
  BY DEF Covers
<1>2. ls[r] \in Seq(Chars) /\ fs[r] \in Seq(Formats)
  BY <1>1, ElementOfSeq
<1>3. Len(ls[r]) \in Nat /\ Len(fs[r]) \in Nat
  BY <1>2, LenProperties
<1>4. DOMAIN ls = 1 .. Len(ls) /\ DOMAIN fs = 1 .. Len(ls) /\ Len(ls) \in Nat
  BY <1>1, LenProperties
<1>5. Len(ls[r]) <= Len(fs[r])
  BY <1>3 DEF Covers
<1>6. QED
  BY <1>2, <1>3, <1>4, <1>5

\* One row of text and its formats are replaced.
LEMMA CoverRow ==
  ASSUME NEW ls, NEW fs, Covers(ls, fs), NEW row \in 1 .. Len(ls),
         NEW x \in Seq(Chars), NEW y \in Seq(Formats), Len(y) >= Len(x)
  PROVE  /\ Covers([ls EXCEPT ![row] = x], [fs EXCEPT ![row] = y])
         /\ Len([ls EXCEPT ![row] = x]) = Len(ls)
<1>1. /\ ls \in Seq(Seq(Chars)) /\ fs \in Seq(Seq(Formats))
      /\ Len(fs) = Len(ls) /\ row \in 1 .. Len(fs)
  BY DEF Covers
<1>2. /\ [ls EXCEPT ![row] = x] \in Seq(Seq(Chars))
      /\ Len([ls EXCEPT ![row] = x]) = Len(ls)
      /\ \A j \in 1 .. Len(ls) :
           [ls EXCEPT ![row] = x][j] = IF j = row THEN x ELSE ls[j]
  BY <1>1, ExceptSeq
<1>3. /\ [fs EXCEPT ![row] = y] \in Seq(Seq(Formats))
      /\ Len([fs EXCEPT ![row] = y]) = Len(fs)
      /\ \A j \in 1 .. Len(fs) :
           [fs EXCEPT ![row] = y][j] = IF j = row THEN y ELSE fs[j]
  BY <1>1, ExceptSeq
<1>4. ASSUME NEW r \in 1 .. Len(ls)
      PROVE  Len([fs EXCEPT ![row] = y][r]) >= Len([ls EXCEPT ![row] = x][r])
  <2>1. Len(fs[r]) >= Len(ls[r])
    BY DEF Covers
  <2>2. QED
    BY <1>1, <1>2, <1>3, <2>1
<1>5. QED
  BY <1>1, <1>2, <1>3, <1>4 DEF Covers

\* The same rows of both layers give way to as many rows of each.
LEMMA CoverSplice ==
  ASSUME NEW ls, NEW fs, Covers(ls, fs), NEW t, NEW u, Covers(t, u),
         NEW from \in 0 .. Len(ls), NEW to \in from .. Len(ls)
  PROVE  /\ Covers(Splice(ls, from, to, t), Splice(fs, from, to, u))
         /\ Len(Splice(ls, from, to, t)) = from + Len(t) + (Len(ls) - to)
<1> DEFINE ls2 == Splice(ls, from, to, t)
           fs2 == Splice(fs, from, to, u)
           n   == from + Len(t) + (Len(ls) - to)
<1>1. /\ ls \in Seq(Seq(Chars)) /\ fs \in Seq(Seq(Formats))
      /\ t \in Seq(Seq(Chars)) /\ u \in Seq(Seq(Formats))
      /\ Len(fs) = Len(ls) /\ Len(u) = Len(t)
  BY DEF Covers
<1>2. /\ Len(ls) \in Nat /\ Len(t) \in Nat /\ from \in Nat /\ to \in Nat
      /\ from <= to /\ to <= Len(ls)
  BY <1>1, LenProperties
<1>3. /\ ls2 \in Seq(Seq(Chars)) /\ Len(ls2) = n
      /\ \A i \in 1 .. from : ls2[i] = ls[i]
      /\ \A i \in from + 1 .. from + Len(t) : ls2[i] = t[i - from]
      /\ \A i \in from + Len(t) + 1 .. n : ls2[i] = ls[i - from - Len(t) + to]
  <2> DEFINE S == Seq(Chars)
  <2>1. ls \in Seq(S) /\ t \in Seq(S)
    BY <1>1
  <2> HIDE DEF S
  <2>2. ls2 \in Seq(S) /\ Len(ls2) = n
    BY <2>1, SpliceFacts
  <2>3. \A i \in 1 .. from : ls2[i] = ls[i]
    BY <2>1, SpliceFacts
  <2>4. \A i \in from + 1 .. from + Len(t) : ls2[i] = t[i - from]
    BY <2>1, SpliceFacts
  <2>5. \A i \in from + Len(t) + 1 .. n : ls2[i] = ls[i - from - Len(t) + to]
    BY <2>1, SpliceFacts
  <2>6. QED
    BY <2>2, <2>3, <2>4, <2>5 DEF S
<1>4. /\ fs2 \in Seq(Seq(Formats)) /\ Len(fs2) = n
      /\ \A i \in 1 .. from : fs2[i] = fs[i]
      /\ \A i \in from + 1 .. from + Len(t) : fs2[i] = u[i - from]
      /\ \A i \in from + Len(t) + 1 .. n : fs2[i] = fs[i - from - Len(t) + to]
  <2>1. from \in 0 .. Len(fs) /\ to \in from .. Len(fs)
    BY <1>1
  <2>2. /\ fs2 \in Seq(Seq(Formats))
        /\ Len(fs2) = from + Len(u) + (Len(fs) - to)
        /\ \A i \in 1 .. from : fs2[i] = fs[i]
        /\ \A i \in from + 1 .. from + Len(u) : fs2[i] = u[i - from]
        /\ \A i \in from + Len(u) + 1 .. from + Len(u) + (Len(fs) - to) :
             fs2[i] = fs[i - from - Len(u) + to]
    <3> DEFINE S == Seq(Formats)
    <3>1. fs \in Seq(S) /\ u \in Seq(S)
      BY <1>1
    <3> HIDE DEF S
    <3>2. fs2 \in Seq(S) /\ Len(fs2) = from + Len(u) + (Len(fs) - to)
      BY <2>1, <3>1, SpliceFacts
    <3>3. \A i \in 1 .. from : fs2[i] = fs[i]
      BY <2>1, <3>1, SpliceFacts
    <3>4. \A i \in from + 1 .. from + Len(u) : fs2[i] = u[i - from]
      BY <2>1, <3>1, SpliceFacts
    <3>5. ASSUME NEW i \in from + Len(u) + 1 .. from + Len(u) + (Len(fs) - to)
          PROVE  fs2[i] = fs[i - from - Len(u) + to]
      BY <2>1, <3>1, SpliceTail
    <3>6. QED
      BY <3>2, <3>3, <3>4, <3>5 DEF S
  <2>3. QED
    BY <1>1, <2>2
<1> HIDE DEF ls2, fs2
<1>5. ASSUME NEW r \in 1 .. n
      PROVE  Len(fs2[r]) >= Len(ls2[r])
  <2>1. CASE r \in 1 .. from
    <3>1. r \in 1 .. Len(ls)
      BY <1>2, <2>1
    <3>2. QED
      BY <1>3, <1>4, <2>1, <3>1 DEF Covers
  <2>2. CASE r \in from + 1 .. from + Len(t)
    <3>1. r - from \in 1 .. Len(t)
      BY <1>2, <2>2
    <3>2. QED
      BY <1>3, <1>4, <2>2, <3>1 DEF Covers
  <2>3. CASE r \in from + Len(t) + 1 .. n
    <3>1. r - from - Len(t) + to \in 1 .. Len(ls)
      BY <1>2, <2>3
    <3>2. QED
      BY <1>3, <1>4, <2>3, <3>1 DEF Covers
  <2>4. QED
    BY <1>2, <2>1, <2>2, <2>3
<1>6. Covers(ls2, fs2)
  BY <1>3, <1>4, <1>5 DEF Covers
<1>7. QED
  BY <1>3, <1>6 DEF ls2, fs2

\* Padding the formats of a row uncovers nothing.
LEMMA EnsureFacts ==
  ASSUME NEW ls, NEW fs, Covers(ls, fs), NEW row \in 1 .. Len(ls), NEW n \in Nat
  PROVE  /\ Covers(ls, EnsureLineFormatSize(fs, row, n))
         /\ Len(EnsureLineFormatSize(fs, row, n)[row]) >= n
         /\ \A r \in 1 .. Len(ls) :
              Len(EnsureLineFormatSize(fs, row, n)[r]) >= Len(fs[r])
<1>1. /\ fs[row] \in Seq(Formats) /\ Len(fs[row]) \in Nat
      /\ Len(ls[row]) \in Nat /\ ls[row] \in Seq(Chars)
      /\ Len(ls[row]) <= Len(fs[row]) /\ DOMAIN fs = 1 .. Len(ls)
  BY RowFacts
<1>2. CASE Len(fs[row]) < n
  <2> DEFINE y == Resize(fs[row], n, Plain)
  <2>1. y \in Seq(Formats) /\ Len(y) = n
    <3>1. fs[row] \in Seq(Formats)
      BY <1>1
    <3>2. ASSUME NEW s \in Seq(Formats)
          PROVE  Resize(s, n, Plain) \in Seq(Formats)
      BY ResizeFacts, PlainAssumption
    <3>3. ASSUME NEW s \in Seq(Formats)
          PROVE  Len(Resize(s, n, Plain)) = n
      BY ResizeFacts, PlainAssumption
    <3>4. QED
      BY <3>1, <3>2, <3>3
  <2>2. EnsureLineFormatSize(fs, row, n) = [fs EXCEPT ![row] = y]
    BY <1>1, <1>2 DEF EnsureLineFormatSize
  <2> HIDE DEF y
  <2>3. Covers([ls EXCEPT ![row] = ls[row]], [fs EXCEPT ![row] = y])
    <3>1. Len(y) >= Len(ls[row])
      BY <1>1, <1>2, <2>1
    <3>2. QED
      BY <1>1, <2>1, <3>1, CoverRow
  <2>4. [ls EXCEPT ![row] = ls[row]] = ls
    BY DEF Covers
  <2>5. /\ fs \in Seq(Seq(Formats)) /\ row \in 1 .. Len(fs) /\ Len(fs) = Len(ls)
    BY DEF Covers
  <2>6. \A r \in 1 .. Len(ls) :
          [fs EXCEPT ![row] = y][r] = IF r = row THEN y ELSE fs[r]
    BY <2>1, <2>5, ExceptSeq
  <2>7. ASSUME NEW r \in 1 .. Len(ls)
        PROVE  Len([fs EXCEPT ![row] = y][r]) >= Len(fs[r])
    <3>1. Len(fs[r]) \in Nat
      BY RowFacts
    <3>2. QED
      BY <1>1, <1>2, <2>1, <2>6, <3>1
  <2>8. Len([fs EXCEPT ![row] = y][row]) >= n
    BY <2>1, <2>6
  <2>9. QED
    BY <2>2, <2>3, <2>4, <2>7, <2>8
<1>3. CASE ~(Len(fs[row]) < n)
  <2>1. EnsureLineFormatSize(fs, row, n) = fs
    BY <1>3 DEF EnsureLineFormatSize
  <2>2. \A r \in 1 .. Len(ls) : Len(fs[r]) >= Len(fs[r])
    BY RowFacts
  <2>3. QED
    BY <1>1, <1>3, <2>1, <2>2
<1>4. QED
  BY <1>2, <1>3

-----------------------------------------------------------------------------
(***************************************************************************)
(* The shapes of an edit: one row; a row joined to the one above; a row    *)
(* cut in two.                                                             *)
(***************************************************************************)
LEMMA SoundFacts ==
  ASSUME NEW b, Sound(b)
  PROVE  /\ Covers(b.lines, b.formats)
         /\ Len(b.lines) \in Nat /\ Len(b.lines) >= 1
         /\ DOMAIN b.lines = 1 .. Len(b.lines)
         /\ DOMAIN b.formats = 1 .. Len(b.lines)
<1>1. /\ b.lines \in Seq(Seq(Chars)) /\ b.formats \in Seq(Seq(Formats))
      /\ Len(b.formats) = Len(b.lines)
  BY DEF Sound, Covers
<1>2. DOMAIN b.lines = 1 .. Len(b.lines) /\ DOMAIN b.formats = 1 .. Len(b.lines)
  BY <1>1, LenProperties
<1>3. QED
  BY <1>2 DEF Sound

\* As many rows as before: the paragraphs' state is not touched.
LEMMA SameRows ==
  ASSUME NEW b, Sound(b), NEW ls, NEW fs, Covers(ls, fs),
         Len(ls) = Len(b.lines)
  PROVE  Sound([b EXCEPT !.lines = ls, !.formats = fs])
BY DEF Sound, Covers, ParagraphState, BufferType

\* One row of the text and its formats.
LEMMA RowEdit ==
  ASSUME NEW b, Sound(b), NEW fs, Covers(b.lines, fs),
         NEW row \in 1 .. Len(b.lines),
         NEW x \in Seq(Chars), NEW y \in Seq(Formats), Len(y) >= Len(x)
  PROVE  Sound([b EXCEPT !.lines = [b.lines EXCEPT ![row] = x],
                         !.formats = [fs EXCEPT ![row] = y]])
<1>1. /\ Covers([b.lines EXCEPT ![row] = x], [fs EXCEPT ![row] = y])
      /\ Len([b.lines EXCEPT ![row] = x]) = Len(b.lines)
  BY CoverRow
<1>2. QED
  BY <1>1, SameRows

\* A row of text under formats as long covers it.
LEMMA OneRow ==
  ASSUME NEW x \in Seq(Chars), NEW y \in Seq(Formats), Len(y) >= Len(x)
  PROVE  Covers(<<x>>, <<y>>) /\ Len(<<x>>) = 1
BY DEF Covers

\* Two rows of text under formats as long cover them.
LEMMA TwoRows ==
  ASSUME NEW x1 \in Seq(Chars), NEW y1 \in Seq(Formats), Len(y1) >= Len(x1),
         NEW x2 \in Seq(Chars), NEW y2 \in Seq(Formats), Len(y2) >= Len(x2)
  PROVE  Covers(<<x1, x2>>, <<y1, y2>>) /\ Len(<<x1, x2>>) = 2
BY DEF Covers

\* What covers both parts of a row covers the row.
LEMMA ConcatCover ==
  ASSUME NEW x1 \in Seq(Chars), NEW y1 \in Seq(Formats), Len(y1) >= Len(x1),
         NEW x2 \in Seq(Chars), NEW y2 \in Seq(Formats), Len(y2) >= Len(x2)
  PROVE  /\ x1 \o x2 \in Seq(Chars) /\ y1 \o y2 \in Seq(Formats)
         /\ Len(y1 \o y2) >= Len(x1 \o x2)
<1>1. x1 \o x2 \in Seq(Chars) /\ Len(x1 \o x2) = Len(x1) + Len(x2)
  BY ConcatProperties
<1>2. y1 \o y2 \in Seq(Formats) /\ Len(y1 \o y2) = Len(y1) + Len(y2)
  BY ConcatProperties
<1>3. /\ Len(x1) \in Nat /\ Len(x2) \in Nat
      /\ Len(y1) \in Nat /\ Len(y2) \in Nat
  BY LenProperties
<1>4. Len(y1) + Len(y2) >= Len(x1) + Len(x2)
  BY <1>3
<1>5. QED
  BY <1>1, <1>2, <1>4

\* Joining a row to the one above keeps text and formats parallel.
LEMMA JoinFacts ==
  ASSUME NEW ls, NEW fs, Covers(ls, fs), NEW r \in 2 .. Len(ls)
  PROVE  /\ Covers(JoinRows(ls, r), JoinRows(fs, r))
         /\ Len(JoinRows(ls, r)) = Len(ls) - 1
<1> DEFINE x == ls[r - 1] \o ls[r]
           y == fs[r - 1] \o fs[r]
<1>1. Len(ls) \in Nat /\ r - 1 \in 1 .. Len(ls) /\ r \in 1 .. Len(ls)
  <2>1. ls \in Seq(Seq(Chars))
    BY DEF Covers
  <2>2. Len(ls) \in Nat
    BY <2>1, LenProperties
  <2>3. QED
    BY <2>2
<1>2. /\ ls[r - 1] \in Seq(Chars) /\ fs[r - 1] \in Seq(Formats)
      /\ Len(ls[r - 1]) \in Nat /\ Len(fs[r - 1]) \in Nat
      /\ Len(ls[r - 1]) <= Len(fs[r - 1])
  BY <1>1, RowFacts
<1>3. /\ ls[r] \in Seq(Chars) /\ fs[r] \in Seq(Formats)
      /\ Len(ls[r]) \in Nat /\ Len(fs[r]) \in Nat
      /\ Len(ls[r]) <= Len(fs[r])
  BY <1>1, RowFacts
<1>4. x \in Seq(Chars) /\ y \in Seq(Formats) /\ Len(y) >= Len(x)
  <2>1. Len(fs[r - 1]) >= Len(ls[r - 1])
    BY <1>2
  <2>2. Len(fs[r]) >= Len(ls[r])
    BY <1>3
  <2>3. QED
    BY <1>2, <1>3, <2>1, <2>2, ConcatCover
<1>5. JoinRows(ls, r) = Splice(ls, r - 2, r, <<x>>)
      /\ JoinRows(fs, r) = Splice(fs, r - 2, r, <<y>>)
  BY DEF JoinRows
<1> HIDE DEF x, y
<1> DEFINE j == r - 2
           t == <<x>>
           u == <<y>>
<1>6. Covers(t, u) /\ Len(t) = 1
  BY <1>4, OneRow
<1>7. j \in 0 .. Len(ls) /\ r \in j .. Len(ls)
  BY <1>1
<1> HIDE DEF t, u
<1>8. j + Len(t) + (Len(ls) - r) = Len(ls) - 1
  BY <1>1, <1>6
<1> HIDE DEF j
<1>9. Covers(t, u)
  BY <1>6
<1>10. /\ Covers(Splice(ls, j, r, t), Splice(fs, j, r, u))
       /\ Len(Splice(ls, j, r, t)) = j + Len(t) + (Len(ls) - r)
  BY <1>7, <1>9, CoverSplice
<1>11. QED
  BY <1>5, <1>8, <1>10 DEF j, t, u

\* Splitting a row of both layers at one column keeps them parallel.
LEMMA SplitFacts ==
  ASSUME NEW ls, NEW fs, Covers(ls, fs), NEW r \in 1 .. Len(ls),
         NEW n \in 0 .. Len(ls[r])
  PROVE  /\ Covers(SplitRow(ls, r, n), SplitRow(fs, r, n))
         /\ Len(SplitRow(ls, r, n)) = Len(ls) + 1
<1> DEFINE x1 == Take(ls[r], n)
           x2 == Drop(ls[r], n)
           y1 == Take(fs[r], n)
           y2 == Drop(fs[r], n)
<1>1. /\ ls[r] \in Seq(Chars) /\ fs[r] \in Seq(Formats)
      /\ Len(ls[r]) \in Nat /\ Len(fs[r]) \in Nat
      /\ Len(ls[r]) <= Len(fs[r]) /\ Len(ls) \in Nat
  BY RowFacts
<1>2. n \in Nat /\ n <= Len(ls[r]) /\ n \in 0 .. Len(fs[r])
  BY <1>1
<1>3. x1 \in Seq(Chars) /\ Len(x1) = n
  BY <1>1, TakeFacts
<1>4. x2 \in Seq(Chars) /\ Len(x2) = Len(ls[r]) - n
  BY <1>1, DropFacts
<1>5. y1 \in Seq(Formats) /\ Len(y1) = n
  BY <1>1, <1>2, TakeFacts
<1>6. y2 \in Seq(Formats) /\ Len(y2) = Len(fs[r]) - n
  BY <1>1, <1>2, DropFacts
<1>7. /\ SplitRow(ls, r, n) = Splice(ls, r - 1, r, <<x1, x2>>)
      /\ SplitRow(fs, r, n) = Splice(fs, r - 1, r, <<y1, y2>>)
  BY DEF SplitRow
<1> HIDE DEF x1, x2, y1, y2
<1>8. Len(y1) >= Len(x1) /\ Len(y2) >= Len(x2)
  BY <1>1, <1>2, <1>3, <1>4, <1>5, <1>6
<1> DEFINE t == <<x1, x2>>
           u == <<y1, y2>>
<1>9. Covers(t, u) /\ Len(t) = 2
  BY <1>3, <1>4, <1>5, <1>6, <1>8, TwoRows
<1> HIDE DEF t, u
<1>10. r - 1 \in 0 .. Len(ls) /\ r \in r - 1 .. Len(ls)
  BY <1>1
<1> DEFINE j == r - 1
<1>11. j \in 0 .. Len(ls) /\ r \in j .. Len(ls)
  BY <1>10
<1>12. j + Len(t) + (Len(ls) - r) = Len(ls) + 1
  BY <1>1, <1>9
<1> HIDE DEF j
<1>13. Covers(t, u)
  BY <1>9
<1>14. /\ Covers(Splice(ls, j, r, t), Splice(fs, j, r, u))
       /\ Len(Splice(ls, j, r, t)) = j + Len(t) + (Len(ls) - r)
  BY <1>11, <1>13, CoverSplice
<1>15. QED
  BY <1>7, <1>12, <1>14 DEF j, t, u

\* A replacement inside a row: k elements from column c on give way.
LEMMA SpliceRows ==
  ASSUME NEW x \in Seq(Chars), NEW y \in Seq(Formats), Len(y) >= Len(x),
         NEW t \in Seq(Chars), NEW u \in Seq(Formats), Len(u) = Len(t),
         NEW from \in 0 .. Len(x), NEW to \in from .. Len(x)
  PROVE  /\ Splice(x, from, to, t) \in Seq(Chars)
         /\ Splice(y, from, to, u) \in Seq(Formats)
         /\ Len(Splice(x, from, to, t)) = from + Len(t) + (Len(x) - to)
         /\ Len(Splice(y, from, to, u)) >= Len(Splice(x, from, to, t))
<1>1. Len(x) \in Nat /\ Len(y) \in Nat /\ Len(t) \in Nat
  BY LenProperties
<1>2. from \in 0 .. Len(y) /\ to \in from .. Len(y)
  BY <1>1
<1>3. Splice(x, from, to, t) \in Seq(Chars)
      /\ Len(Splice(x, from, to, t)) = from + Len(t) + (Len(x) - to)
  BY SpliceFacts
<1>4. Splice(y, from, to, u) \in Seq(Formats)
      /\ Len(Splice(y, from, to, u)) = from + Len(u) + (Len(y) - to)
  BY <1>2, SpliceFacts
<1>5. from + Len(u) + (Len(y) - to) >= from + Len(t) + (Len(x) - to)
  BY <1>1
<1>6. QED
  BY <1>3, <1>4, <1>5

-----------------------------------------------------------------------------
(***************************************************************************)
(* The mutators, one lemma each.                                           *)
(***************************************************************************)
LEMMA InsertCharSound ==
  ASSUME NEW b, Sound(b), NEW row \in 1 .. Len(b.lines),
         NEW col \in 0 .. Len(b.lines[row]), NEW ch \in Chars, NEW fmt \in Formats
  PROVE  Sound(InsertChar(b, col, row, ch, fmt))
<1> DEFINE len == Len(b.lines[row])
           fs  == EnsureLineFormatSize(b.formats, row, len)
           x   == Splice(b.lines[row], col, col, <<ch>>)
           y   == Splice(fs[row], col, col, <<fmt>>)
<1>1. Covers(b.lines, b.formats) /\ DOMAIN b.lines = 1 .. Len(b.lines)
  BY SoundFacts
<1>2. b.lines[row] \in Seq(Chars) /\ len \in Nat
  BY <1>1, RowFacts
<1>3. Covers(b.lines, fs)
  BY <1>1, <1>2, EnsureFacts
<1>4. Clamp(col, 0, len) = col /\ col \in col .. len
  BY <1>2 DEF Clamp
<1>5. InsertChar(b, col, row, ch, fmt) =
        [b EXCEPT !.lines = [b.lines EXCEPT ![row] = x],
                  !.formats = [fs EXCEPT ![row] = y]]
  <2>1. InsertCharText(b.lines, col, row, ch) = [b.lines EXCEPT ![row] = x]
    BY <1>1, <1>4 DEF InsertCharText
  <2> DEFINE c == Clamp(col, 0, len)
  <2>2. InsertChar(b, col, row, ch, fmt) =
          [b EXCEPT !.lines = InsertCharText(b.lines, c, row, ch),
                    !.formats = [fs EXCEPT ![row] = Splice(fs[row], c, c, <<fmt>>)]]
    <3>1. row \in DOMAIN b.lines
      BY <1>1
    <3>2. QED
      BY <3>1 DEF InsertChar
  <2>3. c = col
    BY <1>4
  <2> HIDE DEF c
  <2>4. QED
    BY <2>1, <2>2, <2>3
<1> HIDE DEF fs
<1>6. fs[row] \in Seq(Formats) /\ Len(fs[row]) >= Len(b.lines[row])
  BY <1>3, RowFacts DEF Covers
<1>7. /\ <<ch>> \in Seq(Chars) /\ <<fmt>> \in Seq(Formats)
      /\ Len(<<fmt>>) = Len(<<ch>>)
  OBVIOUS
<1>8. x \in Seq(Chars) /\ y \in Seq(Formats) /\ Len(y) >= Len(x)
  BY <1>2, <1>4, <1>6, <1>7, SpliceRows
<1> HIDE DEF x, y
<1>9. Sound([b EXCEPT !.lines = [b.lines EXCEPT ![row] = x],
                      !.formats = [fs EXCEPT ![row] = y]])
  BY <1>3, <1>8, RowEdit
<1>10. QED
  BY <1>5, <1>9

\* One character of a row goes, with its format.
LEMMA EraseSound ==
  ASSUME NEW b, Sound(b), NEW row \in 1 .. Len(b.lines),
         NEW c \in 1 .. Len(b.lines[row])
  PROVE  /\ c <= Len(b.formats[row])
         /\ Sound([b EXCEPT
                     !.lines = [b.lines EXCEPT
                                  ![row] = Splice(b.lines[row], c - 1, c, << >>)],
                     !.formats = [b.formats EXCEPT
                                    ![row] = Splice(b.formats[row], c - 1, c, << >>)]])
<1> DEFINE x == Splice(b.lines[row], c - 1, c, << >>)
           y == Splice(b.formats[row], c - 1, c, << >>)
<1>1. Covers(b.lines, b.formats)
  BY SoundFacts
<1>2. /\ b.lines[row] \in Seq(Chars) /\ b.formats[row] \in Seq(Formats)
      /\ Len(b.lines[row]) \in Nat /\ Len(b.formats[row]) \in Nat
      /\ Len(b.lines[row]) <= Len(b.formats[row])
  BY <1>1, RowFacts
<1>3. /\ << >> \in Seq(Chars) /\ << >> \in Seq(Formats)
      /\ c - 1 \in 0 .. Len(b.lines[row]) /\ c \in c - 1 .. Len(b.lines[row])
      /\ Len(b.formats[row]) >= Len(b.lines[row]) /\ c <= Len(b.formats[row])
  BY <1>2
<1>4. x \in Seq(Chars) /\ y \in Seq(Formats) /\ Len(y) >= Len(x)
  BY <1>2, <1>3, SpliceRows
<1> HIDE DEF x, y
<1>5. Sound([b EXCEPT !.lines = [b.lines EXCEPT ![row] = x],
                      !.formats = [b.formats EXCEPT ![row] = y]])
  BY <1>1, <1>4, RowEdit
<1>6. QED
  BY <1>3, <1>5 DEF x, y

-----------------------------------------------------------------------------
(***************************************************************************)
(* The paragraphs' vectors and the anchors, as rows come and go.           *)
(***************************************************************************)
\* A buffer put together from sound parts.
LEMMA Rebuilt ==
  ASSUME NEW n \in Nat \ {0}, NEW ls, NEW fs, Covers(ls, fs), Len(ls) = n,
         NEW pb \in Seq(BOOLEAN), Len(pb) = n,
         NEW al \in Seq(Alignments \cup {"left"}), Len(al) = n,
         NEW ll \in Seq(Nat), Len(ll) = n,
         NEW an \in Seq(Nat), \A i \in 1 .. Len(an) : an[i] \in 1 .. n
  PROVE  Sound([lines |-> ls, formats |-> fs, pageBreakBefore |-> pb,
                alignment |-> al, listLevel |-> ll, anchors |-> an])
BY DEF Sound, Covers, ParagraphState, BufferType

\* The parts of a sound buffer.
LEMMA PartFacts ==
  ASSUME NEW b, Sound(b)
  PROVE  /\ Len(b.lines) \in Nat \ {0}
         /\ b.pageBreakBefore \in Seq(BOOLEAN)
         /\ Len(b.pageBreakBefore) = Len(b.lines)
         /\ b.alignment \in Seq(Alignments \cup {"left"})
         /\ Len(b.alignment) = Len(b.lines)
         /\ b.listLevel \in Seq(Nat) /\ Len(b.listLevel) = Len(b.lines)
         /\ b.anchors \in Seq(Nat)
         /\ \A i \in 1 .. Len(b.anchors) : b.anchors[i] \in 1 .. Len(b.lines)
BY DEF Sound, ParagraphState, BufferType

\* A row of text is joined to the one above; its paragraph state goes.
LEMMA WithoutRowSound ==
  ASSUME NEW b, Sound(b), NEW r \in 2 .. Len(b.lines)
  PROVE  Sound(WithoutRow([b EXCEPT !.lines = JoinRows(b.lines, r),
                                    !.formats = JoinRows(b.formats, r)], r))
<1> DEFINE n  == Len(b.lines)
           ls == JoinRows(b.lines, r)
           fs == JoinRows(b.formats, r)
           pb == EraseIfPresent(b.pageBreakBefore, r)
           al == EraseIfPresent(b.alignment, r)
           ll == EraseIfPresent(b.listLevel, r)
           an == MergeFloatAnchors(b.anchors, r, r - 1)
<1>1. n \in Nat \ {0} /\ r \in 1 .. n /\ n - 1 \in Nat \ {0}
  <2>1. n \in Nat
    BY SoundFacts
  <2> HIDE DEF n
  <2>2. r \in 2 .. n
    BY DEF n
  <2>3. QED
    BY <2>1, <2>2
<1>2. Covers(ls, fs) /\ Len(ls) = n - 1
  BY SoundFacts, JoinFacts
<1>3. pb \in Seq(BOOLEAN) /\ Len(pb) = n - 1
  <2>1. b.pageBreakBefore \in Seq(BOOLEAN) /\ r \in 1 .. Len(b.pageBreakBefore)
    BY <1>1, PartFacts
  <2>2. pb \in Seq(BOOLEAN) /\ Len(pb) = Len(b.pageBreakBefore) - 1
    BY <2>1, EraseOneFacts
  <2>3. QED
    BY <2>2, PartFacts
<1>4. al \in Seq(Alignments \cup {"left"}) /\ Len(al) = n - 1
  <2> DEFINE S == Alignments \cup {"left"}
  <2>1. b.alignment \in Seq(S) /\ r \in 1 .. Len(b.alignment)
    BY <1>1, PartFacts
  <2> HIDE DEF S
  <2>2. al \in Seq(S) /\ Len(al) = Len(b.alignment) - 1
    BY <2>1, EraseOneFacts
  <2>3. QED
    BY <2>2, PartFacts DEF S
<1>5. ll \in Seq(Nat) /\ Len(ll) = n - 1
  <2>1. b.listLevel \in Seq(Nat) /\ r \in 1 .. Len(b.listLevel)
    BY <1>1, PartFacts
  <2>2. QED
    BY <2>1, EraseOneFacts, PartFacts
<1>6. an \in Seq(Nat) /\ \A i \in 1 .. Len(an) : an[i] \in 1 .. n - 1
  BY <1>1, PartFacts, MergeFacts
<1> DEFINE c == [b EXCEPT !.lines = ls, !.formats = fs]
           w == WithoutRow(c, r)
<1> HIDE DEF ls, fs
<1>7. /\ c \in BufferType /\ c.lines = ls /\ c.formats = fs
      /\ c.pageBreakBefore = b.pageBreakBefore /\ c.alignment = b.alignment
      /\ c.listLevel = b.listLevel /\ c.anchors = b.anchors
  BY <1>2 DEF Sound, Covers, BufferType
<1> HIDE DEF c
<1>8. w = [c EXCEPT !.pageBreakBefore = pb, !.alignment = al,
                    !.listLevel = ll, !.anchors = an]
  BY <1>7 DEF WithoutRow
<1> HIDE DEF w, pb, al, ll, an
<1>9. /\ w \in BufferType /\ w.lines = ls /\ w.formats = fs
      /\ w.pageBreakBefore = pb /\ w.alignment = al
      /\ w.listLevel = ll /\ w.anchors = an
  BY <1>3, <1>4, <1>5, <1>6, <1>7, <1>8 DEF BufferType
<1>10. Sound(w)
  BY <1>1, <1>2, <1>3, <1>4, <1>5, <1>6, <1>9 DEF Sound, ParagraphState
<1>11. QED
  BY <1>10 DEF w, c, ls, fs
\* Backspace erases the character before the caret, or joins its row.
LEMMA BackspaceSound ==
  ASSUME NEW b, Sound(b), NEW row \in 1 .. Len(b.lines),
         NEW col \in 0 .. Len(b.lines[row])
  PROVE  Sound(Backspace(b, col, row))
<1>1. /\ DOMAIN b.lines = 1 .. Len(b.lines) /\ Len(b.lines) \in Nat
      /\ DOMAIN b.formats = 1 .. Len(b.lines) /\ Covers(b.lines, b.formats)
  BY SoundFacts
<1>2. Len(b.lines[row]) \in Nat
  BY <1>1, RowFacts
<1>3. CASE col > 0
  <2>1. col \in 1 .. Len(b.lines[row]) /\ Clamp(col, 1, Len(b.lines[row])) = col
    BY <1>2, <1>3 DEF Clamp
  <2> DEFINE x == Splice(b.lines[row], col - 1, col, << >>)
             y == Splice(b.formats[row], col - 1, col, << >>)
  <2>2. /\ col <= Len(b.formats[row])
        /\ Sound([b EXCEPT !.lines = [b.lines EXCEPT ![row] = x],
                           !.formats = [b.formats EXCEPT ![row] = y]])
    BY <2>1, EraseSound
  <2>3. BackspaceText(b.lines, col, row) = [b.lines EXCEPT ![row] = x]
    BY <1>1, <1>3, <2>1 DEF BackspaceText
  <2> DEFINE c == Clamp(col, 1, Len(b.lines[row]))
  <2>4. Backspace(b, col, row)
          = [b EXCEPT !.lines = BackspaceText(b.lines, c, row),
                      !.formats[row] =
                        IF c <= Len(@) THEN Splice(@, c - 1, c, << >>) ELSE @]
    BY <1>1, <1>3 DEF Backspace
  <2>5. c = col
    BY <2>1
  <2> HIDE DEF c
  <2>6. Backspace(b, col, row)
          = [b EXCEPT !.lines = [b.lines EXCEPT ![row] = x],
                      !.formats = [b.formats EXCEPT ![row] = y]]
    BY <2>2, <2>3, <2>4, <2>5
  <2>7. QED
    BY <2>2, <2>6
<1>4. CASE ~(col > 0) /\ row > 1
  <2>1. row \in 2 .. Len(b.lines)
    BY <1>1, <1>4
  <2>2. BackspaceText(b.lines, col, row) = JoinRows(b.lines, row)
    BY <1>1, <1>4 DEF BackspaceText
  <2>3. Backspace(b, col, row)
          = WithoutRow([b EXCEPT !.lines = JoinRows(b.lines, row),
                                 !.formats = JoinRows(b.formats, row)], row)
    BY <1>1, <1>4, <2>2 DEF Backspace
  <2>4. QED
    BY <2>1, <2>3, WithoutRowSound
<1>5. CASE ~(col > 0) /\ ~(row > 1)
  BY <1>1, <1>5 DEF Backspace
<1>6. QED
  BY <1>3, <1>4, <1>5

\* Delete erases the character after the caret, or joins the row below.
LEMMA DeleteForwardSound ==
  ASSUME NEW b, Sound(b), NEW row \in 1 .. Len(b.lines),
         NEW col \in 0 .. Len(b.lines[row])
  PROVE  Sound(DeleteForward(b, col, row))
<1>1. /\ DOMAIN b.lines = 1 .. Len(b.lines) /\ Len(b.lines) \in Nat
      /\ DOMAIN b.formats = 1 .. Len(b.lines) /\ Covers(b.lines, b.formats)
  BY SoundFacts
<1>2. Len(b.lines[row]) \in Nat
  BY <1>1, RowFacts
<1>3. CASE col < Len(b.lines[row])
  <2>1. /\ col + 1 \in 1 .. Len(b.lines[row]) /\ col + 1 - 1 = col
        /\ col \in Nat
    BY <1>2, <1>3
  <2> DEFINE x == Splice(b.lines[row], col, col + 1, << >>)
             y == Splice(b.formats[row], col, col + 1, << >>)
  <2>2. /\ col + 1 <= Len(b.formats[row])
        /\ Sound([b EXCEPT !.lines = [b.lines EXCEPT ![row] = x],
                           !.formats = [b.formats EXCEPT ![row] = y]])
    <3> DEFINE e == col + 1
    <3>1. e \in 1 .. Len(b.lines[row]) /\ e - 1 = col
      BY <2>1
    <3> HIDE DEF e
    <3>2. /\ e <= Len(b.formats[row])
          /\ Sound([b EXCEPT
               !.lines = [b.lines EXCEPT ![row] = Splice(b.lines[row], e - 1, e, << >>)],
               !.formats = [b.formats EXCEPT
                              ![row] = Splice(b.formats[row], e - 1, e, << >>)]])
      BY <3>1, EraseSound
    <3>3. QED
      BY <3>1, <3>2 DEF e
  <2>3. DeleteForwardText(b.lines, col, row) = [b.lines EXCEPT ![row] = x]
    BY <1>1, <1>3 DEF DeleteForwardText
  <2>4. Len(b.formats[row]) \in Nat
    BY <1>1, RowFacts
  <2>5. DeleteForward(b, col, row)
          = [b EXCEPT !.lines = DeleteForwardText(b.lines, col, row),
                      !.formats[row] =
                        IF col < Len(@) THEN Splice(@, col, col + 1, << >>) ELSE @]
    BY <1>1, <1>3 DEF DeleteForward
  <2>6. DeleteForward(b, col, row)
          = [b EXCEPT !.lines = [b.lines EXCEPT ![row] = x],
                      !.formats = [b.formats EXCEPT ![row] = y]]
    <3>1. col < Len(b.formats[row])
      BY <2>1, <2>2, <2>4
    <3>2. QED
      BY <2>3, <2>5, <3>1
  <2>7. QED
    BY <2>2, <2>6
<1>4. CASE ~(col < Len(b.lines[row])) /\ row < Len(b.lines)
  <2>1. row + 1 \in 2 .. Len(b.lines)
    BY <1>1, <1>4
  <2>2. DeleteForwardText(b.lines, col, row) = JoinRows(b.lines, row + 1)
    BY <1>1, <1>4 DEF DeleteForwardText
  <2>3. DeleteForward(b, col, row)
          = WithoutRow([b EXCEPT !.lines = JoinRows(b.lines, row + 1),
                                 !.formats = JoinRows(b.formats, row + 1)], row + 1)
    BY <1>1, <1>4, <2>2 DEF DeleteForward
  <2>4. QED
    BY <2>1, <2>3, WithoutRowSound
<1>5. CASE ~(col < Len(b.lines[row])) /\ ~(row < Len(b.lines))
  BY <1>1, <1>5 DEF DeleteForward
<1>6. QED
  BY <1>3, <1>4, <1>5
-----------------------------------------------------------------------------

\* A row gives way to the rows of a paste.
LEMMA ReplaceRowCover ==
  ASSUME NEW ls, NEW fs, Covers(ls, fs), NEW row \in 1 .. Len(ls),
         NEW t, NEW u, Covers(t, u)
  PROVE  /\ Covers(Splice(ls, row - 1, row, t), Splice(fs, row - 1, row, u))
         /\ Len(Splice(ls, row - 1, row, t)) = Len(ls) + (Len(t) - 1)
<1> DEFINE j == row - 1
<1>1. j \in 0 .. Len(ls) /\ row \in j .. Len(ls)
  <2>1. Len(ls) \in Nat
    BY LenProperties DEF Covers
  <2>2. QED
    BY <2>1
<1>2. j + Len(t) + (Len(ls) - row) = Len(ls) + (Len(t) - 1)
  <2>1. Len(ls) \in Nat /\ Len(t) \in Nat
    BY LenProperties DEF Covers
  <2>2. QED
    BY <2>1
<1> HIDE DEF j
<1>3. /\ Covers(Splice(ls, j, row, t), Splice(fs, j, row, u))
      /\ Len(Splice(ls, j, row, t)) = j + Len(t) + (Len(ls) - row)
  BY <1>1, CoverSplice
<1>4. QED
  BY <1>2, <1>3 DEF j

\* A line break.
LEMMA InsertNewlineSound ==
  ASSUME NEW b, Sound(b), NEW row \in 1 .. Len(b.lines),
         NEW col \in 0 .. Len(b.lines[row])
  PROVE  Sound(InsertNewline(b, col, row))
<1> DEFINE n   == Len(b.lines)
           len == Len(b.lines[row])
           fs  == EnsureLineFormatSize(b.formats, row, len)
           ls2 == SplitRow(b.lines, row, col)
           fs2 == SplitRow(fs, row, col)
           pb  == InsertBelow(b.pageBreakBefore, row, FALSE)
           al  == InsertBelow(b.alignment, row, RowValue(b.alignment, row, "left"))
           ll  == InsertBelow(b.listLevel, row, RowValue(b.listLevel, row, 0))
           an  == ShiftAnchorsAtOrAfter(b.anchors, row + 1, 1)
<1>1. Covers(b.lines, b.formats) /\ DOMAIN b.lines = 1 .. n /\ n \in Nat
  BY SoundFacts
<1>2. len \in Nat /\ Clamp(col, 0, len) = col
  BY <1>1, RowFacts DEF Clamp
<1>3. Covers(b.lines, fs)
  BY <1>1, <1>2, EnsureFacts
<1>4. Covers(ls2, fs2) /\ Len(ls2) = n + 1
  BY <1>3, SplitFacts
<1>5. pb \in Seq(BOOLEAN) /\ Len(pb) = n + 1
  <2> DEFINE S == BOOLEAN
  <2>1. /\ b.pageBreakBefore \in Seq(S) /\ Len(b.pageBreakBefore) = n
        /\ FALSE \in S
    BY PartFacts
  <2> HIDE DEF S
  <2> HIDE DEF n
  <2>2. row \in 1 .. Len(b.pageBreakBefore)
    BY <2>1 DEF n
  <2>3. pb \in Seq(S) /\ Len(pb) = Len(b.pageBreakBefore) + 1
    BY <2>1, <2>2, InsertBelowFacts
  <2>4. QED
    BY <2>1, <2>3 DEF S
<1>6. al \in Seq(Alignments \cup {"left"}) /\ Len(al) = n + 1
  <2> DEFINE S == Alignments \cup {"left"}
  <2>1. b.alignment \in Seq(S) /\ Len(b.alignment) = n /\ "left" \in S
    BY PartFacts
  <2> HIDE DEF S
  <2>2. RowValue(b.alignment, row, "left") \in S
    BY <2>1, RowValueFacts
  <2>3. al \in Seq(S) /\ Len(al) = n + 1
    BY <2>1, <2>2, InsertBelowFacts
  <2>4. QED
    BY <2>3 DEF S
<1>7. ll \in Seq(Nat) /\ Len(ll) = n + 1
  <2> DEFINE S == Nat
  <2>1. b.listLevel \in Seq(S) /\ Len(b.listLevel) = n /\ 0 \in S
    BY PartFacts
  <2> HIDE DEF S
  <2>2. RowValue(b.listLevel, row, 0) \in S
    BY <2>1, RowValueFacts
  <2>3. ll \in Seq(S) /\ Len(ll) = n + 1
    BY <2>1, <2>2, InsertBelowFacts
  <2>4. QED
    BY <2>3 DEF S
<1>8. an \in Seq(Nat) /\ \A i \in 1 .. Len(an) : an[i] \in 1 .. n + 1
  <2>1. row + 1 \in Nat
    BY <1>1
  <2>2. QED
    BY <1>1, <2>1, PartFacts, ShiftFacts
<1>9. InsertNewline(b, col, row)
        = [lines |-> ls2, formats |-> fs2, pageBreakBefore |-> pb,
           alignment |-> al, listLevel |-> ll, anchors |-> an]
  <2>1. InsertNewlineText(b.lines, col, row) = ls2
    BY <1>1, <1>2 DEF InsertNewlineText
  <2> DEFINE c == Clamp(col, 0, len)
  <2>2. InsertNewline(b, col, row)
          = [lines |-> InsertNewlineText(b.lines, c, row),
             formats |-> SplitRow(fs, row, c), pageBreakBefore |-> pb,
             alignment |-> al, listLevel |-> ll, anchors |-> an]
    BY <1>1 DEF InsertNewline
  <2>3. c = col
    BY <1>2
  <2> HIDE DEF c
  <2>4. QED
    BY <2>1, <2>2, <2>3
<1>10. n + 1 \in Nat \ {0}
  BY <1>1
<1> HIDE DEF n, ls2, fs2, pb, al, ll, an
<1>11. Sound([lines |-> ls2, formats |-> fs2, pageBreakBefore |-> pb,
              alignment |-> al, listLevel |-> ll, anchors |-> an])
  BY <1>4, <1>5, <1>6, <1>7, <1>8, <1>10, Rebuilt
<1>12. QED
  BY <1>9, <1>11
\* Rows that are covered, one list of them behind another.
LEMMA AppendCover ==
  ASSUME NEW t1, NEW u1, Covers(t1, u1), NEW t2, NEW u2, Covers(t2, u2)
  PROVE  Covers(t1 \o t2, u1 \o u2) /\ Len(t1 \o t2) = Len(t1) + Len(t2)
<1> DEFINE S == Seq(Chars)
           F == Seq(Formats)
<1>1. /\ t1 \in Seq(S) /\ t2 \in Seq(S) /\ u1 \in Seq(F) /\ u2 \in Seq(F)
      /\ Len(u1) = Len(t1) /\ Len(u2) = Len(t2)
  BY DEF Covers
<1> HIDE DEF S, F
<1>2. Len(t1) \in Nat /\ Len(t2) \in Nat
  BY <1>1, LenProperties
<1>3. /\ t1 \o t2 \in Seq(S) /\ Len(t1 \o t2) = Len(t1) + Len(t2)
      /\ \A i \in 1 .. Len(t1) + Len(t2) :
           (t1 \o t2)[i] = IF i <= Len(t1) THEN t1[i] ELSE t2[i - Len(t1)]
  BY <1>1, ConcatProperties
<1>4. /\ u1 \o u2 \in Seq(F) /\ Len(u1 \o u2) = Len(t1) + Len(t2)
      /\ \A i \in 1 .. Len(t1) + Len(t2) :
           (u1 \o u2)[i] = IF i <= Len(t1) THEN u1[i] ELSE u2[i - Len(t1)]
  <2>1. /\ u1 \o u2 \in Seq(F) /\ Len(u1 \o u2) = Len(u1) + Len(u2)
        /\ \A i \in 1 .. Len(u1) + Len(u2) :
             (u1 \o u2)[i] = IF i <= Len(u1) THEN u1[i] ELSE u2[i - Len(u1)]
    BY <1>1, ConcatProperties
  <2>2. QED
    BY <1>1, <2>1
<1> DEFINE t == t1 \o t2
           u == u1 \o u2
<1> HIDE DEF t, u
<1>5. ASSUME NEW r \in 1 .. Len(t1) + Len(t2)
      PROVE  Len(u[r]) >= Len(t[r])
  <2>1. CASE r <= Len(t1)
    <3>1. r \in 1 .. Len(t1) /\ t[r] = t1[r] /\ u[r] = u1[r]
      BY <1>2, <1>3, <1>4, <2>1 DEF t, u
    <3>2. QED
      BY <3>1 DEF Covers
  <2>2. CASE ~(r <= Len(t1))
    <3> DEFINE k == r - Len(t1)
    <3>1. k \in 1 .. Len(t2)
      BY <1>2, <2>2
    <3>2. t[r] = t2[k] /\ u[r] = u2[k]
      BY <1>3, <1>4, <2>2 DEF t, u
    <3> HIDE DEF k
    <3>3. QED
      BY <3>1, <3>2 DEF Covers
  <2>3. QED
    BY <2>1, <2>2
<1>6. QED
  BY <1>3, <1>4, <1>5 DEF Covers, S, F, t, u

\* The rows between the first and the last of a paste.
LEMMA MiddleCover ==
  ASSUME NEW parts \in Seq(Seq(Chars)), Len(parts) >= 2, NEW fmt \in Formats
  PROVE  LET n == Len(parts)
             t == SubSeq(parts, 2, n - 1)
             u == [i \in 1 .. n - 2 |-> Fill(Len(parts[i + 1]), fmt)]
         IN  Covers(t, u) /\ Len(t) = n - 2
<1> DEFINE n == Len(parts)
           t == SubSeq(parts, 2, n - 1)
           u == [i \in 1 .. n - 2 |-> Fill(Len(parts[i + 1]), fmt)]
           S == Seq(Chars)
<1>1. n \in Nat /\ n >= 2 /\ n - 2 \in Nat
  <2>1. n \in Nat
    BY LenProperties
  <2>2. QED
    BY <2>1
<1>2. \A i \in 1 .. n : parts[i] \in S
  BY ElementOfSeq
<1>3. t \in Seq(S) /\ Len(t) = n - 2
      /\ \A i \in 1 .. n - 2 : t[i] = parts[i + 1]
  <2>1. \A i \in 2 .. n - 1 : parts[i] \in S
    BY <1>1, <1>2
  <2> HIDE DEF n, S
  <2>2. /\ SubSeq(parts, 2, n - 1) \in Seq(S)
        /\ Len(SubSeq(parts, 2, n - 1)) = IF 2 <= n - 1 THEN n - 1 - 2 + 1 ELSE 0
        /\ \A i \in 1 .. n - 1 - 2 + 1 : SubSeq(parts, 2, n - 1)[i] = parts[2 + i - 1]
    BY <1>1, <2>1, SubSeqProperties
  <2>3. ASSUME NEW i \in 1 .. n - 2
        PROVE  t[i] = parts[i + 1]
    <3>1. i \in 1 .. n - 1 - 2 + 1 /\ 2 + i - 1 = i + 1
      BY <1>1
    <3>2. QED
      BY <2>2, <3>1
  <2>4. QED
    BY <1>1, <2>2, <2>3
<1>4. ASSUME NEW i \in 1 .. n - 2
      PROVE  /\ u[i] \in Seq(Formats) /\ Len(u[i]) = Len(t[i])
             /\ Len(t[i]) \in Nat
  <2>1. i + 1 \in 1 .. n
    BY <1>1
  <2>2. parts[i + 1] \in Seq(Chars)
    BY <1>2, <2>1
  <2>3. Len(parts[i + 1]) \in Nat
    BY <2>2, LenProperties
  <2>4. /\ Fill(Len(parts[i + 1]), fmt) \in Seq(Formats)
        /\ Len(Fill(Len(parts[i + 1]), fmt)) = Len(parts[i + 1])
    BY <2>3, FillFacts
  <2>5. u[i] = Fill(Len(parts[i + 1]), fmt)
    OBVIOUS
  <2>6. t[i] = parts[i + 1]
    BY <1>3
  <2> HIDE DEF t, u
  <2>7. QED
    BY <2>3, <2>4, <2>5, <2>6
<1>5. u \in Seq(Seq(Formats)) /\ Len(u) = n - 2
  <2>1. u = [i \in 1 .. n - 2 |-> u[i]]
    OBVIOUS
  <2>2. \A i \in 1 .. n - 2 : u[i] \in Seq(Formats)
    BY <1>4
  <2> DEFINE m == n - 2
             F == Seq(Formats)
  <2>3. m \in Nat /\ u = [i \in 1 .. m |-> u[i]] /\ \A i \in 1 .. m : u[i] \in F
    BY <1>1, <2>1, <2>2
  <2> HIDE DEF u, m, F
  <2>4. u \in [1 .. m -> F]
    BY <2>3
  <2>5. u \in Seq(F) /\ DOMAIN u = 1 .. m
    BY <2>3, <2>4, SeqDef
  <2>6. Len(u) = m
    BY <2>3, <2>5, LenProperties
  <2>7. QED
    BY <2>5, <2>6 DEF m, F
<1>6. t \in Seq(Seq(Chars))
  BY <1>3
<1> HIDE DEF t, u, n
<1>7. \A i \in 1 .. Len(t) : Len(u[i]) >= Len(t[i])
  BY <1>3, <1>4
<1>8. Covers(t, u) /\ Len(t) = n - 2
  BY <1>3, <1>5, <1>6, <1>7 DEF Covers
<1>9. QED
  BY <1>8 DEF t, u, n
\* A paste without a line break goes into a row.
LEMMA PasteWordSound ==
  ASSUME NEW b, Sound(b), NEW row \in 1 .. Len(b.lines),
         NEW col \in 0 .. Len(b.lines[row]),
         NEW parts \in Seq(Seq(Chars)), Len(parts) = 1, NEW fmt \in Formats
  PROVE  Sound(InsertText(b, col, row, parts, fmt))
<1> DEFINE p  == parts[1]
           q  == Fill(Len(p), fmt)
           x  == Splice(b.lines[row], col, col, p)
           ls == [b.lines EXCEPT ![row] = x]
           fs == EnsureLineFormatSize(b.formats, row, Len(x))
           y  == Splice(fs[row], col, col, q)
<1>1. Covers(b.lines, b.formats) /\ DOMAIN b.lines = 1 .. Len(b.lines)
  BY SoundFacts
<1>2. b.lines[row] \in Seq(Chars) /\ Len(b.lines[row]) \in Nat
  BY <1>1, RowFacts
<1>3. p \in Seq(Chars) /\ Len(p) \in Nat
  <2>1. p \in Seq(Chars)
    BY ElementOfSeq
  <2>2. QED
    BY <2>1, LenProperties
<1>4. q \in Seq(Formats) /\ Len(q) = Len(p)
  BY <1>3, FillFacts
<1>5. Clamp(col, 0, Len(b.lines[row])) = col /\ col \in col .. Len(b.lines[row])
  BY <1>2 DEF Clamp
<1> HIDE DEF p, q
<1>6. x \in Seq(Chars) /\ Len(x) \in Nat
  <2>1. x \in Seq(Chars)
    BY <1>2, <1>3, <1>5, SpliceFacts
  <2> HIDE DEF x
  <2>2. QED
    BY <2>1, LenProperties
<1>7. InsertTextText(b.lines, col, row, parts) = ls /\ ls[row] = x
  <2>1. InsertTextText(b.lines, col, row, parts) = ls
    BY <1>1, <1>5 DEF InsertTextText, p
  <2>2. ls[row] = x
    BY <1>1
  <2>3. QED
    BY <2>1, <2>2
<1> HIDE DEF x, ls
<1>8. Covers(b.lines, fs)
  BY <1>1, <1>6, EnsureFacts
<1>9. InsertText(b, col, row, parts, fmt)
        = [b EXCEPT !.lines = ls, !.formats = [fs EXCEPT ![row] = y]]
  BY <1>1, <1>7 DEF InsertText, p, q
<1> HIDE DEF fs
<1>10. fs[row] \in Seq(Formats) /\ Len(fs[row]) >= Len(b.lines[row])
  BY <1>8, RowFacts DEF Covers
<1>11. y \in Seq(Formats) /\ Len(y) >= Len(x)
  BY <1>2, <1>3, <1>4, <1>5, <1>10, SpliceRows DEF x
<1> HIDE DEF y
<1>12. Sound([b EXCEPT !.lines = [b.lines EXCEPT ![row] = x],
                       !.formats = [fs EXCEPT ![row] = y]])
  BY <1>6, <1>8, <1>11, RowEdit
<1>13. QED
  BY <1>9, <1>12 DEF ls

\* What a paste of several rows puts in place of the row it goes into.
PastedText(x, c, parts) ==
  <<Take(x, c) \o parts[1]>> \o SubSeq(parts, 2, Len(parts) - 1)
    \o <<parts[Len(parts)] \o Drop(x, c)>>

PastedFormats(y, c, parts, fmt) ==
  <<Take(y, c) \o Fill(Len(parts[1]), fmt)>>
    \o [i \in 1 .. Len(parts) - 2 |-> Fill(Len(parts[i + 1]), fmt)]
    \o <<Fill(Len(parts[Len(parts)]), fmt) \o Drop(y, c)>>

\* The formats cover the text.
LEMMA PasteCover ==
  ASSUME NEW x \in Seq(Chars), NEW y \in Seq(Formats), Len(y) >= Len(x),
         NEW c \in 0 .. Len(x),
         NEW parts \in Seq(Seq(Chars)), Len(parts) >= 2, NEW fmt \in Formats
  PROVE  /\ Covers(PastedText(x, c, parts), PastedFormats(y, c, parts, fmt))
         /\ Len(PastedText(x, c, parts)) = Len(parts)
<1> DEFINE n  == Len(parts)
           x1 == Take(x, c)
           x2 == Drop(x, c)
           y1 == Take(y, c)
           y2 == Drop(y, c)
           p1 == parts[1]
           p2 == parts[n]
           q1 == Fill(Len(p1), fmt)
           q2 == Fill(Len(p2), fmt)
           tm == SubSeq(parts, 2, n - 1)
           um == [i \in 1 .. n - 2 |-> Fill(Len(parts[i + 1]), fmt)]
<1>1. n \in Nat /\ 1 \in 1 .. n /\ n \in 1 .. n /\ n - 2 \in Nat
  <2>1. n \in Nat
    BY LenProperties
  <2>2. QED
    BY <2>1
<1>2. Len(x) \in Nat /\ Len(y) \in Nat
  BY LenProperties
<1>3. c \in Nat /\ c \in 0 .. Len(y)
  BY <1>2
<1>4. x1 \in Seq(Chars) /\ Len(x1) = c
  BY TakeFacts
<1>5. x2 \in Seq(Chars) /\ Len(x2) = Len(x) - c
  BY DropFacts
<1>6. y1 \in Seq(Formats) /\ Len(y1) = c
  BY <1>3, TakeFacts
<1>7. y2 \in Seq(Formats) /\ Len(y2) = Len(y) - c
  BY <1>3, DropFacts
<1>8. p1 \in Seq(Chars) /\ p2 \in Seq(Chars)
  BY <1>1, ElementOfSeq
<1>9. Len(p1) \in Nat /\ Len(p2) \in Nat
  BY <1>8, LenProperties
<1>10. /\ q1 \in Seq(Formats) /\ Len(q1) = Len(p1)
       /\ q2 \in Seq(Formats) /\ Len(q2) = Len(p2)
  BY <1>9, FillFacts
<1>11. Covers(tm, um) /\ Len(tm) = n - 2
  BY MiddleCover
<1> HIDE DEF x1, x2, y1, y2, p1, p2, q1, q2, tm, um, n
<1>12. /\ Len(y1) >= Len(x1) /\ Len(y2) >= Len(x2)
       /\ Len(q1) >= Len(p1) /\ Len(q2) >= Len(p2)
  BY <1>2, <1>3, <1>4, <1>5, <1>6, <1>7, <1>9, <1>10
<1> DEFINE a == x1 \o p1
           d == y1 \o q1
           e == p2 \o x2
           f == q2 \o y2
<1>13. a \in Seq(Chars) /\ d \in Seq(Formats) /\ Len(d) >= Len(a)
  BY <1>4, <1>6, <1>8, <1>10, <1>12, ConcatCover
<1>14. e \in Seq(Chars) /\ f \in Seq(Formats) /\ Len(f) >= Len(e)
  BY <1>5, <1>7, <1>8, <1>10, <1>12, ConcatCover
<1> HIDE DEF a, d, e, f
<1> DEFINE ta == <<a>>
           ua == <<d>>
           te == <<e>>
           ue == <<f>>
<1>15. Covers(ta, ua) /\ Len(ta) = 1
  BY <1>13, OneRow
<1>16. Covers(te, ue) /\ Len(te) = 1
  BY <1>14, OneRow
<1> HIDE DEF ta, ua, te, ue
<1>17. Covers(ta \o tm, ua \o um) /\ Len(ta \o tm) = Len(ta) + Len(tm)
  BY <1>11, <1>15, AppendCover
<1> DEFINE tb == ta \o tm
           ub == ua \o um
<1> HIDE DEF tb, ub
<1>18. Covers(tb, ub) /\ Len(tb) = Len(ta) + Len(tm)
  BY <1>17 DEF tb, ub
<1>19. Covers(tb \o te, ub \o ue) /\ Len(tb \o te) = Len(tb) + Len(te)
  BY <1>16, <1>18, AppendCover
<1>20. Len(tb) + Len(te) = n
  BY <1>1, <1>11, <1>15, <1>16, <1>18
<1>21. QED
  BY <1>19, <1>20
  DEF PastedText, PastedFormats, tb, ub, ta, ua, te, ue, a, d, e, f,
      x1, x2, y1, y2, p1, p2, q1, q2, tm, um, n

\* Rows come in for a row, in every vector of the buffer.
LEMMA GrowSound ==
  ASSUME NEW n \in Nat, NEW row \in 1 .. n, NEW m \in Nat, m - 1 \in Nat,
         NEW ls, NEW fs, Covers(ls, fs), Len(ls) = n,
         NEW t, NEW u, Covers(t, u), Len(t) = m,
         NEW pb \in Seq(BOOLEAN), Len(pb) = n,
         NEW al \in Seq(Alignments \cup {"left"}), Len(al) = n,
         NEW ll \in Seq(Nat), Len(ll) = n,
         NEW an \in Seq(Nat), \A i \in 1 .. Len(an) : an[i] \in 1 .. n
  PROVE  Sound([lines |-> Splice(ls, row - 1, row, t),
                formats |-> Splice(fs, row - 1, row, u),
                pageBreakBefore |-> Splice(pb, row, row, Fill(m - 1, FALSE)),
                alignment |-> Splice(al, row, row,
                                     Fill(m - 1, RowValue(al, row, "left"))),
                listLevel |-> Splice(ll, row, row,
                                     Fill(m - 1, RowValue(ll, row, 0))),
                anchors |-> ShiftAnchorsAtOrAfter(an, row + 1, m - 1)])
<1> DEFINE ls2 == Splice(ls, row - 1, row, t)
           fs2 == Splice(fs, row - 1, row, u)
           k   == m - 1
           A   == Alignments \cup {"left"}
           pb2 == Splice(pb, row, row, Fill(k, FALSE))
           al2 == Splice(al, row, row, Fill(k, RowValue(al, row, "left")))
           ll2 == Splice(ll, row, row, Fill(k, RowValue(ll, row, 0)))
           an2 == ShiftAnchorsAtOrAfter(an, row + 1, k)
<1>1. k \in Nat /\ n + k \in Nat \ {0} /\ row + 1 \in Nat
  OBVIOUS
<1>2. Covers(ls2, fs2) /\ Len(ls2) = n + k
  <2>1. row \in 1 .. Len(ls)
    OBVIOUS
  <2>2. Covers(ls2, fs2) /\ Len(ls2) = Len(ls) + (Len(t) - 1)
    BY <2>1, ReplaceRowCover
  <2>3. QED
    BY <2>2
<1>3. "left" \in A /\ al \in Seq(A)
  OBVIOUS
<1> HIDE DEF k, A
<1>4. /\ pb2 \in Seq(BOOLEAN) /\ Len(pb2) = n + k
      /\ al2 \in Seq(A) /\ Len(al2) = n + k
      /\ ll2 \in Seq(Nat) /\ Len(ll2) = n + k
  <2>1. ASSUME NEW S, NEW s \in Seq(S), Len(s) = n, NEW x \in S
        PROVE  /\ Splice(s, row, row, Fill(k, x)) \in Seq(S)
               /\ Len(Splice(s, row, row, Fill(k, x))) = n + k
    BY <1>1, <2>1, InsertRowsFacts
  <2>2. ASSUME NEW S, NEW s \in Seq(S), Len(s) = n, NEW d \in S
        PROVE  /\ Splice(s, row, row, Fill(k, RowValue(s, row, d))) \in Seq(S)
               /\ Len(Splice(s, row, row, Fill(k, RowValue(s, row, d)))) = n + k
    BY <1>1, <2>2, GrowTaken
  <2>3. FALSE \in BOOLEAN /\ 0 \in Nat
    OBVIOUS
  <2>4. pb2 \in Seq(BOOLEAN) /\ Len(pb2) = n + k
    BY <2>1, <2>3, Zenon
  <2>5. al2 \in Seq(A) /\ Len(al2) = n + k
    BY <1>3, <2>2, Zenon
  <2>6. ll2 \in Seq(Nat) /\ Len(ll2) = n + k
    BY <2>2, <2>3, Zenon
  <2>7. QED
    BY <2>4, <2>5, <2>6
<1>5. al2 \in Seq(Alignments \cup {"left"})
  BY <1>4 DEF A
<1>6. an2 \in Seq(Nat) /\ \A i \in 1 .. Len(an2) : an2[i] \in 1 .. n + k
  BY <1>1, ShiftFacts
<1> HIDE DEF ls2, fs2, pb2, al2, ll2, an2
<1>7. Sound([lines |-> ls2, formats |-> fs2, pageBreakBefore |-> pb2,
             alignment |-> al2, listLevel |-> ll2, anchors |-> an2])
  BY <1>1, <1>2, <1>4, <1>5, <1>6, Rebuilt
<1>8. QED
  BY <1>7 DEF ls2, fs2, pb2, al2, ll2, an2, k

\* A paste with line breaks brings rows of its own.
LEMMA PasteRowsSound ==
  ASSUME NEW b, Sound(b), NEW row \in 1 .. Len(b.lines),
         NEW col \in 0 .. Len(b.lines[row]),
         NEW parts \in Seq(Seq(Chars)), Len(parts) >= 2, NEW fmt \in Formats
  PROVE  Sound(InsertText(b, col, row, parts, fmt))
<1> DEFINE ls == b.lines
           n  == Len(ls)
           m  == Len(parts)
           x  == ls[row]
           t  == PastedText(x, col, parts)
           l2 == Splice(ls, row - 1, row, t)
           fs == EnsureLineFormatSize(b.formats, row, Len(l2[row]))
           u  == PastedFormats(fs[row], col, parts, fmt)
           pb == b.pageBreakBefore
           al == b.alignment
           ll == b.listLevel
           an == b.anchors
<1>1. Covers(ls, b.formats) /\ DOMAIN ls = 1 .. n /\ n \in Nat /\ row \in 1 .. n
  BY SoundFacts
<1>2. x \in Seq(Chars) /\ Len(x) \in Nat /\ col \in 0 .. Len(x)
  BY <1>1, RowFacts
<1>3. Clamp(col, 0, Len(x)) = col /\ col \in Nat
  BY <1>2 DEF Clamp
<1>4. m \in Nat /\ m >= 2 /\ m # 1 /\ m - 1 \in Nat
  <2>1. m \in Nat /\ m >= 2
    BY LenProperties
  <2> HIDE DEF m
  <2>2. QED
    BY <2>1
<1>5. /\ pb \in Seq(BOOLEAN) /\ Len(pb) = n
      /\ al \in Seq(Alignments \cup {"left"}) /\ Len(al) = n
      /\ ll \in Seq(Nat) /\ Len(ll) = n
      /\ an \in Seq(Nat) /\ \A i \in 1 .. Len(an) : an[i] \in 1 .. n
  BY PartFacts
<1>6. ASSUME NEW y \in Seq(Formats), Len(y) >= Len(x)
      PROVE  Covers(t, PastedFormats(y, col, parts, fmt)) /\ Len(t) = m
  BY <1>2, <1>6, PasteCover
<1>7. Len(l2[row]) \in Nat
  <2> DEFINE f == b.formats
             v == PastedFormats(f[row], col, parts, fmt)
  <2>1. f[row] \in Seq(Formats) /\ Len(f[row]) >= Len(x)
    BY <1>1, RowFacts DEF Covers
  <2>2. Covers(t, v) /\ Len(t) = m
    BY <1>6, <2>1
  <2> HIDE DEF ls, f, n, m, t, v
  <2>3. Covers(ls, f) /\ Len(ls) = n /\ m \in Nat
    BY <1>1, <1>4 DEF n, f
  <2>4. Covers(l2, Splice(f, row - 1, row, v)) /\ Len(l2) = n + (m - 1)
    BY <1>1, <2>2, <2>3, ReplaceRowCover
  <2> HIDE DEF l2
  <2>5. row \in 1 .. Len(l2)
    BY <1>1, <1>4, <2>4
  <2>6. QED
    BY <2>4, <2>5, RowFacts
<1>8. InsertTextText(b.lines, col, row, parts) = l2
  BY <1>1, <1>3, <1>4 DEF InsertTextText, PastedText
<1>9. Covers(ls, fs)
  <2> HIDE DEF l2
  <2>1. QED
    BY <1>1, <1>7, EnsureFacts
<1> HIDE DEF fs
<1>10. fs[row] \in Seq(Formats) /\ Len(fs[row]) >= Len(x)
  BY <1>1, <1>9, RowFacts DEF Covers
<1>11. Len(fs[row]) \in Nat
  BY <1>10, LenProperties
<1>12. Covers(t, u) /\ Len(t) = m
  BY <1>6, <1>10
<1> DEFINE result ==
             [lines |-> l2, formats |-> Splice(fs, row - 1, row, u),
              pageBreakBefore |-> Splice(pb, row, row, Fill(m - 1, FALSE)),
              alignment |-> Splice(al, row, row,
                                   Fill(m - 1, RowValue(al, row, "left"))),
              listLevel |-> Splice(ll, row, row,
                                   Fill(m - 1, RowValue(ll, row, 0))),
              anchors |-> ShiftAnchorsAtOrAfter(an, row + 1, m - 1)]
<1>13. InsertText(b, col, row, parts, fmt) = result
  <2> DEFINE head == IF col > Len(fs[row]) THEN Len(fs[row]) ELSE col
             uh   == PastedFormats(fs[row], head, parts, fmt)
  <2>1. head = col
    BY <1>2, <1>3, <1>10, <1>11
  <2>2. row \in DOMAIN b.lines
    BY <1>1
  <2> HIDE DEF l2
  <2>3. InsertText(b, col, row, parts, fmt)
          = [lines |-> l2, formats |-> Splice(fs, row - 1, row, uh),
             pageBreakBefore |-> result.pageBreakBefore,
             alignment |-> result.alignment, listLevel |-> result.listLevel,
             anchors |-> result.anchors]
    BY <1>4, <1>8, <2>2 DEF InsertText, PastedFormats, fs
  <2> HIDE DEF head
  <2>4. uh = u
    BY <2>1
  <2> HIDE DEF uh, u
  <2>5. QED
    BY <2>3, <2>4
<1>14. Sound(result)
  <2> HIDE DEF ls, t, u, n, m, pb, al, ll, an
  <2>1. Len(ls) = n
    BY DEF n
  <2>2. QED
    BY <1>1, <1>4, <1>5, <1>9, <1>12, <2>1, GrowSound
<1>15. QED
  BY <1>13, <1>14
\* A paste.
LEMMA InsertTextSound ==
  ASSUME NEW b, Sound(b), NEW row \in 1 .. Len(b.lines),
         NEW col \in 0 .. Len(b.lines[row]),
         NEW parts \in Pastes, NEW fmt \in Formats
  PROVE  Sound(InsertText(b, col, row, parts, fmt))
<1>1. parts \in Seq(Seq(Chars)) /\ parts # << >>
  BY PastesAssumption
<1>2. Len(parts) \in Nat /\ Len(parts) # 0
  <2> DEFINE S == Seq(Chars)
  <2>1. parts \in Seq(S)
    BY <1>1
  <2> HIDE DEF S
  <2>2. QED
    BY <1>1, <2>1, LenProperties, EmptySeq
<1>3. Len(parts) = 1 \/ Len(parts) >= 2
  <2> DEFINE k == Len(parts)
  <2>1. k \in Nat /\ k # 0
    BY <1>2
  <2> HIDE DEF k
  <2>2. k = 1 \/ k >= 2
    BY <2>1
  <2>3. QED
    BY <2>2 DEF k
<1>4. QED
  BY <1>1, <1>3, PasteWordSound, PasteRowsSound

-----------------------------------------------------------------------------

\* Several rows give way to one, in the text and its formats.
LEMMA ShrinkCover ==
  ASSUME NEW ls, NEW fs, Covers(ls, fs), NEW n \in Nat, Len(ls) = n,
         NEW r1 \in 1 .. n, NEW r2 \in r1 + 1 .. n,
         NEW x \in Seq(Chars), NEW y \in Seq(Formats), Len(y) >= Len(x)
  PROVE  /\ Covers(Splice(ls, r1 - 1, r2, <<x>>), Splice(fs, r1 - 1, r2, <<y>>))
         /\ Len(Splice(ls, r1 - 1, r2, <<x>>)) = n - (r2 - r1)
<1> DEFINE j == r1 - 1
           t == <<x>>
           u == <<y>>
<1>1. j \in 0 .. Len(ls) /\ r2 \in j .. Len(ls)
  OBVIOUS
<1>2. Covers(t, u) /\ Len(t) = 1
  BY OneRow
<1> HIDE DEF t, u
<1>3. j + Len(t) + (Len(ls) - r2) = n - (r2 - r1)
  BY <1>2
<1> HIDE DEF j
<1>4. /\ Covers(Splice(ls, j, r2, t), Splice(fs, j, r2, u))
      /\ Len(Splice(ls, j, r2, t)) = j + Len(t) + (Len(ls) - r2)
  BY <1>1, <1>2, CoverSplice
<1>5. QED
  BY <1>3, <1>4 DEF j, t, u

\* Several rows give way to one, in every vector of the buffer.
LEMMA ShrinkSound ==
  ASSUME NEW n \in Nat, NEW r1 \in 1 .. n, NEW r2 \in r1 + 1 .. n,
         NEW ls, NEW fs, Covers(ls, fs), Len(ls) = n,
         NEW x \in Seq(Chars), NEW y \in Seq(Formats), Len(y) >= Len(x),
         NEW pb \in Seq(BOOLEAN), Len(pb) = n,
         NEW al \in Seq(Alignments \cup {"left"}), Len(al) = n,
         NEW ll \in Seq(Nat), Len(ll) = n,
         NEW an \in Seq(Nat), \A i \in 1 .. Len(an) : an[i] \in 1 .. n
  PROVE  Sound([lines |-> Splice(ls, r1 - 1, r2, <<x>>),
                formats |-> Splice(fs, r1 - 1, r2, <<y>>),
                pageBreakBefore |-> EraseRowsPresent(pb, r1 + 1, r2),
                alignment |-> EraseRowsPresent(al, r1 + 1, r2),
                listLevel |-> EraseRowsPresent(ll, r1 + 1, r2),
                anchors |-> CollapseFloatAnchors(an, r1, r2)])
<1> DEFINE from == r1 + 1
           k    == n - (r2 - r1)
           A    == Alignments \cup {"left"}
           ls2  == Splice(ls, r1 - 1, r2, <<x>>)
           fs2  == Splice(fs, r1 - 1, r2, <<y>>)
           pb2  == EraseRowsPresent(pb, from, r2)
           al2  == EraseRowsPresent(al, from, r2)
           ll2  == EraseRowsPresent(ll, from, r2)
           an2  == CollapseFloatAnchors(an, r1, r2)
<1>1. /\ from \in 1 .. n /\ r2 \in from .. n /\ r2 \in r1 .. n
      /\ k \in Nat \ {0} /\ n - (r2 - from + 1) = k
  OBVIOUS
<1>2. Covers(ls2, fs2) /\ Len(ls2) = k
  BY ShrinkCover
<1>3. al \in Seq(A)
  OBVIOUS
<1>4. an2 \in Seq(Nat) /\ \A i \in 1 .. Len(an2) : an2[i] \in 1 .. k
  BY <1>1, CollapseFacts
<1> HIDE DEF from, A
<1>5. ASSUME NEW S, NEW s \in Seq(S), Len(s) = n
      PROVE  /\ EraseRowsPresent(s, from, r2) \in Seq(S)
             /\ Len(EraseRowsPresent(s, from, r2)) = n - (r2 - from + 1)
  BY <1>1, <1>5, EraseRangeFacts
<1>6. pb2 \in Seq(BOOLEAN) /\ Len(pb2) = n - (r2 - from + 1)
  BY <1>5, Zenon
<1>7. al2 \in Seq(A) /\ Len(al2) = n - (r2 - from + 1)
  BY <1>3, <1>5, Zenon
<1>8. ll2 \in Seq(Nat) /\ Len(ll2) = n - (r2 - from + 1)
  BY <1>5, Zenon
<1>9. al2 \in Seq(Alignments \cup {"left"})
  BY <1>7 DEF A
<1> HIDE DEF ls2, fs2, pb2, al2, ll2, an2, k
<1>10. Len(pb2) = k /\ Len(al2) = k /\ Len(ll2) = k
  BY <1>1, <1>6, <1>7, <1>8
<1>11. Sound([lines |-> ls2, formats |-> fs2, pageBreakBefore |-> pb2,
              alignment |-> al2, listLevel |-> ll2, anchors |-> an2])
  BY <1>1, <1>2, <1>4, <1>6, <1>8, <1>9, <1>10, Rebuilt
<1>12. QED
  BY <1>11 DEF ls2, fs2, pb2, al2, ll2, an2, from
\* A range is deleted, from inside a row or over several rows.
LEMMA DeleteRangeSound ==
  ASSUME NEW b, Sound(b), NEW r1 \in 1 .. Len(b.lines),
         NEW c1 \in 0 .. Len(b.lines[r1]), NEW r2 \in r1 .. Len(b.lines),
         NEW c2 \in 0 .. Len(b.lines[r2]), r1 < r2 \/ c1 < c2
  PROVE  Sound(DeleteRange(b, r1, c1, r2, c2))
<1> DEFINE ls == b.lines
           n  == Len(ls)
           f1 == EnsureLineFormatSize(b.formats, r1, c1)
           fs == EnsureLineFormatSize(f1, r2, c2)
           pb == b.pageBreakBefore
           al == b.alignment
           ll == b.listLevel
           an == b.anchors
<1>1. /\ Covers(ls, b.formats) /\ DOMAIN ls = 1 .. n /\ n \in Nat
      /\ r1 \in 1 .. n /\ r2 \in 1 .. n /\ r1 <= r2
  BY SoundFacts
<1>2. /\ ls[r1] \in Seq(Chars) /\ Len(ls[r1]) \in Nat
      /\ ls[r2] \in Seq(Chars) /\ Len(ls[r2]) \in Nat
  BY <1>1, RowFacts
<1>3. /\ Clamp(r1, 1, n) = r1 /\ Clamp(r2, 1, n) = r2
      /\ Clamp(c1, 0, Len(ls[r1])) = c1 /\ Clamp(c2, 0, Len(ls[r2])) = c2
      /\ c1 \in Nat /\ c2 \in Nat
  BY <1>1, <1>2 DEF Clamp
<1>4. Covers(ls, fs)
  <2>1. Covers(ls, f1)
    BY <1>1, <1>3, EnsureFacts
  <2> HIDE DEF f1
  <2>2. QED
    BY <1>1, <1>3, <2>1, EnsureFacts
<1> DEFINE l2 == DeleteRangeText(ls, r1, c1, r2, c2)
<1>5. DeleteRange(b, r1, c1, r2, c2)
        = IF r1 = r2
          THEN [b EXCEPT !.lines = l2,
                         !.formats = [fs EXCEPT ![r1] = Splice(fs[r1], c1, c2, << >>)]]
          ELSE [lines |-> l2,
                formats |-> Splice(fs, r1 - 1, r2,
                                   <<Take(fs[r1], c1) \o Drop(fs[r2], c2)>>),
                pageBreakBefore |-> EraseRowsPresent(pb, r1 + 1, r2),
                alignment |-> EraseRowsPresent(al, r1 + 1, r2),
                listLevel |-> EraseRowsPresent(ll, r1 + 1, r2),
                anchors |-> CollapseFloatAnchors(an, r1, r2)]
  BY <1>3 DEF DeleteRange
<1>6. l2 = IF r1 = r2
           THEN [ls EXCEPT ![r1] = Splice(ls[r1], c1, c2, << >>)]
           ELSE Splice(ls, r1 - 1, r2, <<Take(ls[r1], c1) \o Drop(ls[r2], c2)>>)
  BY <1>3 DEF DeleteRangeText
<1> HIDE DEF fs, l2
<1>7. /\ fs[r1] \in Seq(Formats) /\ Len(fs[r1]) >= Len(ls[r1])
      /\ fs[r2] \in Seq(Formats) /\ Len(fs[r2]) >= Len(ls[r2])
      /\ Len(fs[r1]) \in Nat /\ Len(fs[r2]) \in Nat
  BY <1>1, <1>4, RowFacts DEF Covers
<1>8. CASE r1 = r2
  <2> DEFINE x == Splice(ls[r1], c1, c2, << >>)
             y == Splice(fs[r1], c1, c2, << >>)
  <2>1. /\ c1 \in 0 .. Len(ls[r1]) /\ c2 \in c1 .. Len(ls[r1])
        /\ << >> \in Seq(Chars) /\ << >> \in Seq(Formats)
    BY <1>2, <1>3, <1>8
  <2>2. x \in Seq(Chars) /\ y \in Seq(Formats) /\ Len(y) >= Len(x)
    BY <1>2, <1>7, <2>1, SpliceRows
  <2> HIDE DEF x, y
  <2>3. Sound([b EXCEPT !.lines = [b.lines EXCEPT ![r1] = x],
                        !.formats = [fs EXCEPT ![r1] = y]])
    BY <1>4, <2>2, RowEdit
  <2>4. QED
    BY <1>5, <1>6, <1>8, <2>3 DEF x, y
<1>9. CASE r1 # r2
  <2> DEFINE x1 == Take(ls[r1], c1)
             x2 == Drop(ls[r2], c2)
             y1 == Take(fs[r1], c1)
             y2 == Drop(fs[r2], c2)
             x  == x1 \o x2
             y  == y1 \o y2
  <2>1. c1 \in 0 .. Len(fs[r1]) /\ c2 \in 0 .. Len(fs[r2])
    BY <1>2, <1>3, <1>7
  <2>2. x1 \in Seq(Chars) /\ Len(x1) = c1
    BY <1>2, TakeFacts
  <2>3. x2 \in Seq(Chars) /\ Len(x2) = Len(ls[r2]) - c2
    BY <1>2, DropFacts
  <2>4. y1 \in Seq(Formats) /\ Len(y1) = c1
    BY <1>7, <2>1, TakeFacts
  <2>5. y2 \in Seq(Formats) /\ Len(y2) = Len(fs[r2]) - c2
    BY <1>7, <2>1, DropFacts
  <2>6. Len(y1) >= Len(x1) /\ Len(y2) >= Len(x2)
    BY <1>2, <1>3, <1>7, <2>2, <2>3, <2>4, <2>5
  <2> HIDE DEF x1, x2, y1, y2
  <2>7. x \in Seq(Chars) /\ y \in Seq(Formats) /\ Len(y) >= Len(x)
    BY <2>2, <2>3, <2>4, <2>5, <2>6, ConcatCover
  <2>8. /\ pb \in Seq(BOOLEAN) /\ Len(pb) = n
        /\ al \in Seq(Alignments \cup {"left"}) /\ Len(al) = n
        /\ ll \in Seq(Nat) /\ Len(ll) = n
        /\ an \in Seq(Nat) /\ \A i \in 1 .. Len(an) : an[i] \in 1 .. n
    BY PartFacts
  <2> HIDE DEF ls, n, pb, al, ll, an, x, y
  <2>9. r2 \in r1 + 1 .. n /\ Len(ls) = n
    BY <1>1, <1>9 DEF n
  <2>10. Sound([lines |-> Splice(ls, r1 - 1, r2, <<x>>),
                formats |-> Splice(fs, r1 - 1, r2, <<y>>),
                pageBreakBefore |-> EraseRowsPresent(pb, r1 + 1, r2),
                alignment |-> EraseRowsPresent(al, r1 + 1, r2),
                listLevel |-> EraseRowsPresent(ll, r1 + 1, r2),
                anchors |-> CollapseFloatAnchors(an, r1, r2)])
    BY <1>1, <1>4, <2>7, <2>8, <2>9, ShrinkSound
  <2>11. QED
    BY <1>5, <1>6, <1>9, <2>10 DEF x, y, x1, x2, y1, y2
<1>10. QED
  BY <1>8, <1>9
-----------------------------------------------------------------------------
(***************************************************************************)
(* The edits that leave the text alone.                                    *)
(***************************************************************************)
\* The format of some characters of a row is set.
LEMMA PaintFacts ==
  ASSUME NEW s \in Seq(Formats), NEW from, NEW to, NEW fmt \in Formats
  PROVE  LET painted == [i \in DOMAIN s |->
                           IF from < i /\ i <= to THEN fmt ELSE s[i]]
         IN  painted \in Seq(Formats) /\ Len(painted) = Len(s)
<1> DEFINE painted == [i \in DOMAIN s |-> IF from < i /\ i <= to THEN fmt ELSE s[i]]
           n == Len(s)
<1>1. DOMAIN s = 1 .. n /\ n \in Nat
  BY LenProperties
<1>2. \A i \in 1 .. n : s[i] \in Formats
  BY ElementOfSeq
<1>3. painted \in [1 .. n -> Formats] /\ DOMAIN painted = 1 .. n
  BY <1>1, <1>2
<1> HIDE DEF painted, n
<1>4. painted \in Seq(Formats)
  BY <1>1, <1>3, SeqDef
<1>5. Len(painted) = n
  BY <1>1, <1>3, <1>4, LenProperties
<1>6. QED
  BY <1>4, <1>5 DEF painted, n

\* A range is given a format.
LEMMA SetFormatSound ==
  ASSUME NEW b, Sound(b), NEW r1, NEW c1, NEW r2, NEW c2, NEW fmt \in Formats
  PROVE  Sound(SetFormatInRange(b, r1, c1, r2, c2, fmt))
<1> DEFINE ls == b.lines
           fs == b.formats
           n  == Len(ls)
           len(r)  == Len(ls[r])
           from(r) == IF r = r1 THEN c1 ELSE 0
           to(r)   == IF r = r2 /\ c2 < len(r) THEN c2 ELSE len(r)
           row(r)  == IF Len(fs[r]) < len(r) THEN Resize(fs[r], len(r), Plain)
                      ELSE fs[r]
           new(r)  == IF r \in r1 .. r2
                      THEN [i \in DOMAIN row(r) |->
                              IF from(r) < i /\ i <= to(r) THEN fmt ELSE row(r)[i]]
                      ELSE fs[r]
           fs2 == [r \in DOMAIN fs |-> new(r)]
<1>1. Covers(ls, fs) /\ DOMAIN fs = 1 .. n /\ n \in Nat
  BY SoundFacts
<1>2. ASSUME NEW r \in 1 .. n
      PROVE  new(r) \in Seq(Formats) /\ Len(new(r)) >= Len(ls[r])
  <2>1. /\ fs[r] \in Seq(Formats) /\ Len(fs[r]) \in Nat /\ Len(ls[r]) \in Nat
        /\ Len(ls[r]) <= Len(fs[r])
    BY <1>1, RowFacts
  <2>2. row(r) = fs[r]
    BY <2>1
  <2>3. CASE r \in r1 .. r2
    <3> DEFINE s == fs[r]
               lo == from(r)
               hi == to(r)
    <3>1. new(r) = [i \in DOMAIN s |-> IF lo < i /\ i <= hi THEN fmt ELSE s[i]]
      BY <2>2, <2>3
    <3> HIDE DEF s, lo, hi, new
    <3>2. s \in Seq(Formats)
      BY <2>1 DEF s
    <3>3. new(r) \in Seq(Formats) /\ Len(new(r)) = Len(s)
      BY <3>1, <3>2, PaintFacts
    <3>4. QED
      BY <2>1, <3>3 DEF s
  <2>4. CASE ~(r \in r1 .. r2)
    <3>1. new(r) = fs[r]
      BY <2>4
    <3> HIDE DEF new
    <3>2. QED
      BY <2>1, <3>1
  <2>5. QED
    BY <2>3, <2>4
<1> HIDE DEF new
<1>3. fs2 \in Seq(Seq(Formats)) /\ Len(fs2) = n /\ \A r \in 1 .. n : fs2[r] = new(r)
  <2> DEFINE F == Seq(Formats)
  <2>1. fs2 \in [1 .. n -> F] /\ DOMAIN fs2 = 1 .. n
    BY <1>1, <1>2
  <2>2. \A r \in 1 .. n : fs2[r] = new(r)
    BY <1>1
  <2> HIDE DEF fs2, F, n
  <2>3. fs2 \in Seq(F)
    BY <1>1, <2>1, SeqDef
  <2>4. Len(fs2) = n
    BY <1>1, <2>1, <2>3, LenProperties
  <2>5. QED
    BY <2>2, <2>3, <2>4 DEF F
<1> HIDE DEF fs2
<1>4. Covers(ls, fs2)
  BY <1>1, <1>2, <1>3 DEF Covers
<1>5. Sound([b EXCEPT !.lines = ls, !.formats = fs2])
  BY <1>4, SameRows
<1>6. [b EXCEPT !.lines = ls, !.formats = fs2] = [b EXCEPT !.formats = fs2]
  BY DEF Sound, BufferType
<1>7. \/ SetFormatInRange(b, r1, c1, r2, c2, fmt) = b
      \/ SetFormatInRange(b, r1, c1, r2, c2, fmt) = [b EXCEPT !.formats = fs2]
  BY DEF SetFormatInRange, fs2, new
<1>8. QED
  BY <1>5, <1>6, <1>7

\* A page break is set or cleared on one row.
LEMMA SetPageBreakSound ==
  ASSUME NEW b, Sound(b), NEW row, NEW on \in BOOLEAN
  PROVE  Sound(SetPageBreakBefore(b, row, on))
<1> DEFINE s == b.pageBreakBefore
           new == [s EXCEPT ![row] = on]
<1>1. s \in Seq(BOOLEAN) /\ Len(s) = Len(b.lines) /\ DOMAIN s = 1 .. Len(s)
  BY PartFacts, LenProperties
<1>2. CASE row \in DOMAIN s
  <2>1. new \in Seq(BOOLEAN) /\ Len(new) = Len(s)
    <3> HIDE DEF s
    <3>1. QED
      BY <1>1, <1>2, SetOneFacts
  <2>2. SetPageBreakBefore(b, row, on) = [b EXCEPT !.pageBreakBefore = new]
    BY <1>2 DEF SetPageBreakBefore
  <2> HIDE DEF new
  <2>3. Len(new) = Len(b.lines)
    BY <1>1, <2>1
  <2>4. QED
    BY <2>1, <2>2, <2>3 DEF Sound, ParagraphState, BufferType
<1>3. QED
  BY <1>2 DEF SetPageBreakBefore

\* One row is aligned.
LEMMA SetAlignmentSound ==
  ASSUME NEW b, Sound(b), NEW row, NEW a \in Alignments
  PROVE  Sound(SetAlignment(b, row, a))
<1> DEFINE s == b.alignment
           A == Alignments \cup {"left"}
           new == [s EXCEPT ![row] = a]
<1>1. s \in Seq(A) /\ Len(s) = Len(b.lines) /\ DOMAIN s = 1 .. Len(s) /\ a \in A
  BY PartFacts, LenProperties
<1>2. CASE row \in DOMAIN s
  <2>1. new \in Seq(A) /\ Len(new) = Len(s)
    <3> HIDE DEF s, A
    <3>1. QED
      BY <1>1, <1>2, SetOneFacts
  <2>2. SetAlignment(b, row, a) = [b EXCEPT !.alignment = new]
    BY <1>2 DEF SetAlignment
  <2> HIDE DEF new
  <2>3. Len(new) = Len(b.lines)
    BY <1>1, <2>1
  <2>4. QED
    BY <2>1, <2>2, <2>3 DEF Sound, ParagraphState, BufferType
<1>3. QED
  BY <1>2 DEF SetAlignment

\* The packed byte of a paragraph is set.
LEMMA SetLevelByteSound ==
  ASSUME NEW b, Sound(b), NEW row \in DOMAIN b.listLevel, NEW v \in Nat
  PROVE  Sound([b EXCEPT !.listLevel = [b.listLevel EXCEPT ![row] = v]])
<1> DEFINE s == b.listLevel
           new == [s EXCEPT ![row] = v]
<1>1. s \in Seq(Nat) /\ Len(s) = Len(b.lines) /\ row \in 1 .. Len(s)
  BY PartFacts, LenProperties
<1>2. new \in Seq(Nat) /\ Len(new) = Len(s)
  <2> DEFINE S == Nat
  <2>1. s \in Seq(S) /\ v \in S
    BY <1>1
  <2> HIDE DEF s, S
  <2>2. new \in Seq(S) /\ Len(new) = Len(s)
    BY <1>1, <2>1, SetOneFacts
  <2>3. QED
    BY <2>2 DEF S
<1> HIDE DEF new
<1>3. Len(new) = Len(b.lines)
  BY <1>1, <1>2
<1>4. Sound([b EXCEPT !.listLevel = new])
  BY <1>2, <1>3 DEF Sound, ParagraphState, BufferType
<1>5. QED
  BY <1>4 DEF new

\* One row enters a list, leaves it, or is indented.
LEMMA SetListLevelSound ==
  ASSUME NEW b, Sound(b), NEW row, NEW level \in Levels
  PROVE  Sound(SetListLevel(b, row, level))
<1>1. level \in Nat
  BY LevelsAssumption DEF NumberedFlag
<1>2. CASE row \in DOMAIN b.listLevel
  <2> DEFINE old == b.listLevel[row]
             v   == IF level = 0 THEN 0 ELSE old - (old % NumberedFlag) + level
  <2>1. old \in Nat
    <3>1. b.listLevel \in Seq(Nat)
      BY PartFacts
    <3>2. row \in 1 .. Len(b.listLevel)
      BY <1>2, <3>1, LenProperties
    <3>3. QED
      BY <3>1, <3>2, ElementOfSeq
  <2>2. SetListLevel(b, row, level)
          = [b EXCEPT !.listLevel = [b.listLevel EXCEPT ![row] = v]]
    BY <1>2 DEF SetListLevel
  <2> HIDE DEF old
  <2>3. v \in Nat
    BY <1>1, <2>1 DEF NumberedFlag
  <2> HIDE DEF v
  <2>4. QED
    BY <1>2, <2>2, <2>3, SetLevelByteSound
<1>3. QED
  BY <1>2 DEF SetListLevel

\* One row is numbered or given a bullet.
LEMMA SetListNumberedSound ==
  ASSUME NEW b, Sound(b), NEW row, NEW numbered \in BOOLEAN
  PROVE  Sound(SetListNumbered(b, row, numbered))
<1>1. CASE row \in DOMAIN b.listLevel
  <2> DEFINE old == b.listLevel[row]
             v   == (old % NumberedFlag) + (IF numbered THEN NumberedFlag ELSE 0)
  <2>1. old \in Nat
    <3>1. b.listLevel \in Seq(Nat)
      BY PartFacts
    <3>2. row \in 1 .. Len(b.listLevel)
      BY <1>1, <3>1, LenProperties
    <3>3. QED
      BY <3>1, <3>2, ElementOfSeq
  <2>2. \/ SetListNumbered(b, row, numbered) = b
        \/ SetListNumbered(b, row, numbered)
             = [b EXCEPT !.listLevel = [b.listLevel EXCEPT ![row] = v]]
    BY <1>1 DEF SetListNumbered
  <2> HIDE DEF old
  <2>3. v \in Nat
    BY <2>1 DEF NumberedFlag
  <2> HIDE DEF v
  <2>4. QED
    BY <1>1, <2>2, <2>3, SetLevelByteSound
<1>2. CASE row \notin DOMAIN b.listLevel
  BY <1>2 DEF SetListNumbered, ListLevel, RowValue, NumberedFlag
<1>3. QED
  BY <1>1, <1>2

\* The anchors are rows: the same said of the whole sequence.
LEMMA AnchorSeq ==
  ASSUME NEW n \in Nat, NEW an
  PROVE  an \in Seq(1 .. n)
           <=> an \in Seq(Nat) /\ \A i \in 1 .. Len(an) : an[i] \in 1 .. n
<1> DEFINE S == 1 .. n
<1>1. ASSUME an \in Seq(S)
      PROVE  an \in Seq(Nat) /\ \A i \in 1 .. Len(an) : an[i] \in S
  <2>1. \A i \in 1 .. Len(an) : an[i] \in S
    <3> HIDE DEF S
    <3>1. QED
      BY <1>1, ElementOfSeq
  <2>2. an \in Seq(Nat)
    BY <1>1
  <2>3. QED
    BY <2>1, <2>2
<1>2. ASSUME an \in Seq(Nat), \A i \in 1 .. Len(an) : an[i] \in S
      PROVE  an \in Seq(S)
  BY <1>2
<1>3. QED
  BY <1>1, <1>2

\* Other anchors, each a row there is.
LEMMA AnchorsSound ==
  ASSUME NEW b, Sound(b), NEW an \in Seq(1 .. Len(b.lines))
  PROVE  Sound([b EXCEPT !.anchors = an])
<1> DEFINE n == Len(b.lines)
<1>1. n \in Nat
  BY SoundFacts
<1>2. an \in Seq(Nat) /\ \A i \in 1 .. Len(an) : an[i] \in 1 .. n
  BY <1>1, AnchorSeq
<1>3. QED
  BY <1>2 DEF Sound, ParagraphState, BufferType

\* Anchors in range are a sequence of rows.
LEMMA AnchorsTyped ==
  ASSUME NEW b, Sound(b)
  PROVE  b.anchors \in Seq(1 .. Len(b.lines))
<1> DEFINE n == Len(b.lines)
           an == b.anchors
<1>1. n \in Nat /\ an \in Seq(Nat) /\ \A i \in 1 .. Len(an) : an[i] \in 1 .. n
  BY SoundFacts, PartFacts
<1> HIDE DEF n, an
<1>2. an \in Seq(1 .. n)
  BY <1>1, AnchorSeq
<1>3. QED
  BY <1>2 DEF n, an

\* A float is added or removed.
LEMMA AddFloatSound ==
  ASSUME NEW b, Sound(b), NEW row \in 1 .. Len(b.lines)
  PROVE  Sound([b EXCEPT !.anchors = Append(b.anchors, row)])
<1> DEFINE S  == 1 .. Len(b.lines)
           an == b.anchors
<1>1. an \in Seq(S) /\ row \in S
  BY AnchorsTyped
<1> HIDE DEF S, an
<1>2. Append(an, row) \in Seq(S)
  BY <1>1, AppendProperties
<1>3. QED
  BY <1>2, AnchorsSound DEF S, an

\* A float is taken out of the list; the others keep their rows.
LEMMA RemoveFloatSound ==
  ASSUME NEW b, Sound(b), NEW i \in DOMAIN b.anchors
  PROVE  Sound([b EXCEPT !.anchors = EraseRows(b.anchors, i, i)])
<1> DEFINE S  == 1 .. Len(b.lines)
           an == b.anchors
<1>1. an \in Seq(S) /\ i \in DOMAIN an
  BY AnchorsTyped
<1> HIDE DEF S, an
<1>2. i \in 1 .. Len(an) /\ i \in i .. Len(an)
  BY <1>1, LenProperties
<1>3. EraseRows(an, i, i) \in Seq(S)
  BY <1>1, <1>2, EraseRowsFacts
<1>4. QED
  BY <1>3, AnchorsSound DEF S, an

\* A row of formats cut or padded to the length of its text stays typed.
LEMMA ResizedFormats ==
  ASSUME NEW s \in Seq(Formats), NEW k \in Nat
  PROVE  Resize(s, k, Plain) \in Seq(Formats) /\ Len(Resize(s, k, Plain)) = k
<1>1. Plain \in Formats
  BY PlainAssumption
<1> DEFINE p == Plain
<1>2. p \in Formats
  BY <1>1
<1> HIDE DEF p
<1>3. Resize(s, k, p) \in Seq(Formats) /\ Len(Resize(s, k, p)) = k
  BY <1>2, ResizeFacts
<1>4. QED
  BY <1>3 DEF p

\* A snapshot is installed: the layers are cut or padded to the text.
LEMMA RestoredSound ==
  ASSUME NEW b, Sound(b)
  PROVE  Sound(Restored(b))
<1> DEFINE ls == b.lines
           n  == Len(ls)
           F  == Seq(Formats)
           f  == Resize(b.formats, n, << >>)
           row(r) == Resize(f[r], Len(ls[r]), Plain)
           fs == [r \in 1 .. n |-> row(r)]
           pb == Resize(b.pageBreakBefore, n, FALSE)
           al == Resize(b.alignment, n, "left")
           ll == Resize(b.listLevel, n, 0)
           A  == Alignments \cup {"left"}
<1>1. Covers(ls, b.formats) /\ n \in Nat
  BY SoundFacts
<1>2. f \in Seq(F) /\ Len(f) = n
  <2> DEFINE g == b.formats
             e == << >>
  <2>1. g \in Seq(F) /\ e \in F
    BY <1>1 DEF Covers
  <2> HIDE DEF F, g, e, n
  <2>2. Resize(g, n, e) \in Seq(F) /\ Len(Resize(g, n, e)) = n
    BY <1>1, <2>1, ResizeFacts
  <2>3. QED
    BY <2>2 DEF g, e
<1>3. ASSUME NEW r \in 1 .. n
      PROVE  row(r) \in F /\ Len(row(r)) = Len(ls[r]) /\ Len(ls[r]) \in Nat
  <2> DEFINE s == f[r]
             k == Len(ls[r])
  <2>1. k \in Nat
    BY <1>1, RowFacts
  <2>2. s \in Seq(Formats)
    <3> HIDE DEF f, F, n
    <3>1. f[r] \in F
      BY <1>2, ElementOfSeq
    <3>2. QED
      BY <3>1 DEF F
  <2> HIDE DEF s, k
  <2>4. Resize(s, k, Plain) \in Seq(Formats) /\ Len(Resize(s, k, Plain)) = k
    BY <2>1, <2>2, ResizedFormats
  <2>5. QED
    BY <2>1, <2>4 DEF s, k
<1> HIDE DEF row
<1>4. fs \in Seq(F) /\ Len(fs) = n /\ \A r \in 1 .. n : fs[r] = row(r)
  <2>1. fs \in [1 .. n -> F] /\ DOMAIN fs = 1 .. n
    BY <1>3
  <2>2. \A r \in 1 .. n : fs[r] = row(r)
    OBVIOUS
  <2> HIDE DEF fs, F, n
  <2>3. fs \in Seq(F)
    BY <1>1, <2>1, SeqDef
  <2>4. Len(fs) = n
    BY <1>1, <2>1, <2>3, LenProperties
  <2>5. QED
    BY <2>2, <2>3, <2>4
<1> HIDE DEF fs
<1>5. Covers(ls, fs)
  BY <1>1, <1>3, <1>4 DEF Covers
<1>6. pb \in Seq(BOOLEAN) /\ Len(pb) = n
  <2> DEFINE s == b.pageBreakBefore
             S == BOOLEAN
             v == FALSE
  <2>1. s \in Seq(S) /\ v \in S
    BY PartFacts
  <2> HIDE DEF s, S, v, n
  <2>2. Resize(s, n, v) \in Seq(S) /\ Len(Resize(s, n, v)) = n
    BY <1>1, <2>1, ResizeFacts
  <2>3. QED
    BY <2>2 DEF s, S, v
<1>7. al \in Seq(A) /\ Len(al) = n
  <2> DEFINE s == b.alignment
             v == "left"
  <2>1. s \in Seq(A) /\ v \in A
    BY PartFacts
  <2> HIDE DEF s, A, v, n
  <2>2. Resize(s, n, v) \in Seq(A) /\ Len(Resize(s, n, v)) = n
    BY <1>1, <2>1, ResizeFacts
  <2>3. QED
    BY <2>2 DEF s, v
<1>8. ll \in Seq(Nat) /\ Len(ll) = n
  <2> DEFINE s == b.listLevel
             S == Nat
             v == 0
  <2>1. s \in Seq(S) /\ v \in S
    BY PartFacts
  <2> HIDE DEF s, S, v, n
  <2>2. Resize(s, n, v) \in Seq(S) /\ Len(Resize(s, n, v)) = n
    BY <1>1, <2>1, ResizeFacts
  <2>3. QED
    BY <2>2 DEF s, S, v
<1> DEFINE c == [b EXCEPT !.formats = fs, !.pageBreakBefore = pb,
                          !.alignment = al, !.listLevel = ll]
<1>9. Restored(b) = c
  BY DEF Restored, fs, row
<1> HIDE DEF pb, al, ll, f
<1>10. /\ c \in BufferType /\ c.lines = ls /\ c.formats = fs
       /\ c.pageBreakBefore = pb /\ c.alignment = al /\ c.listLevel = ll
       /\ c.anchors = b.anchors
  BY <1>4, <1>6, <1>7, <1>8 DEF Sound, BufferType
<1> HIDE DEF c
<1>11. Sound(c)
  BY <1>5, <1>6, <1>7, <1>8, <1>10 DEF Sound, ParagraphState
<1>12. QED
  BY <1>9, <1>11
-----------------------------------------------------------------------------
(***************************************************************************)
(* Soundness is inductive.                                                 *)
(***************************************************************************)
LEMMA InitSound ==
  ASSUME Init
  PROVE  Sound(buffer)
<1>1. Covers(<< << >> >>, << << >> >>)
  BY DEF Covers
<1> DEFINE ls == << << >> >>
           pb == <<FALSE>>
           al == <<"left">>
           ll == <<0>>
           an == << >>
<1>2. /\ Len(ls) = 1 /\ pb \in Seq(BOOLEAN) /\ Len(pb) = 1
      /\ al \in Seq(Alignments \cup {"left"}) /\ Len(al) = 1
      /\ ll \in Seq(Nat) /\ Len(ll) = 1
      /\ an \in Seq(Nat) /\ \A i \in 1 .. Len(an) : an[i] \in 1 .. 1
  OBVIOUS
<1>3. Covers(ls, ls)
  BY <1>1
<1> HIDE DEF ls, pb, al, ll, an
<1>4. Sound([lines |-> ls, formats |-> ls, pageBreakBefore |-> pb,
             alignment |-> al, listLevel |-> ll, anchors |-> an])
  <2> DEFINE n == 1
  <2>1. /\ n \in Nat \ {0} /\ Len(ls) = n /\ Len(pb) = n
        /\ Len(al) = n /\ Len(ll) = n
        /\ \A i \in 1 .. Len(an) : an[i] \in 1 .. n
    BY <1>2
  <2> HIDE DEF n
  <2>2. QED
    BY <1>2, <1>3, <2>1, Rebuilt
<1>5. QED
  BY <1>4 DEF Init, EmptyBuffer, ls, pb, al, ll, an

\* Every edit at a caret, over a selection, of a paragraph or a float.
LEMMA StepSound ==
  ASSUME Sound(buffer), [Next]_buffer
  PROVE  Sound(buffer')
<1>1. Rows = 1 .. Len(buffer.lines)
  BY SoundFacts DEF Rows
<1>2. ASSUME NEW row \in Rows, NEW col \in Columns(row), Type(row, col)
      PROVE  Sound(buffer')
  BY <1>1, <1>2, InsertCharSound DEF Columns, Type
<1>3. ASSUME NEW row \in Rows, NEW col \in Columns(row), Erase(row, col)
      PROVE  Sound(buffer')
  BY <1>1, <1>3, BackspaceSound, DeleteForwardSound DEF Columns, Erase
<1>4. ASSUME NEW row \in Rows, NEW col \in Columns(row), Break(row, col)
      PROVE  Sound(buffer')
  BY <1>1, <1>4, InsertNewlineSound DEF Columns, Break
<1>5. ASSUME NEW row \in Rows, NEW col \in Columns(row), PasteText(row, col)
      PROVE  Sound(buffer')
  BY <1>1, <1>5, InsertTextSound DEF Columns, PasteText
<1>6. ASSUME NEW row \in Rows, NEW col \in Columns(row), OverSelection(row, col)
      PROVE  Sound(buffer')
  <2>1. PICK endRow \in row .. Len(buffer.lines) : \E endCol \in Columns(endRow) :
          /\ row < endRow \/ col < endCol
          /\ \/ buffer' = DeleteRange(buffer, row, col, endRow, endCol)
             \/ \E fmt \in Formats :
                  buffer' = SetFormatInRange(buffer, row, col, endRow, endCol, fmt)
    BY <1>6 DEF OverSelection
  <2>2. PICK endCol \in Columns(endRow) :
          /\ row < endRow \/ col < endCol
          /\ \/ buffer' = DeleteRange(buffer, row, col, endRow, endCol)
             \/ \E fmt \in Formats :
                  buffer' = SetFormatInRange(buffer, row, col, endRow, endCol, fmt)
    BY <2>1
  <2>3. CASE buffer' = DeleteRange(buffer, row, col, endRow, endCol)
    BY <1>1, <2>2, <2>3, DeleteRangeSound DEF Columns
  <2>4. CASE \E fmt \in Formats :
               buffer' = SetFormatInRange(buffer, row, col, endRow, endCol, fmt)
    BY <2>4, SetFormatSound
  <2>5. QED
    BY <2>2, <2>3, <2>4
<1>7. ASSUME NEW row \in Rows, FormatParagraph(row)
      PROVE  Sound(buffer')
  BY <1>7, KindsAssumption, SetPageBreakSound, SetAlignmentSound,
     SetListLevelSound, SetListNumberedSound DEF FormatParagraph
<1>8. ASSUME NEW row \in Rows, AddFloat(row)
      PROVE  Sound(buffer')
  BY <1>1, <1>8, AddFloatSound DEF AddFloat
<1>9. ASSUME RemoveFloat
      PROVE  Sound(buffer')
  BY <1>9, RemoveFloatSound DEF RemoveFloat
<1>10. ASSUME InstallSnapshot
       PROVE  Sound(buffer')
  BY <1>10, RestoredSound DEF InstallSnapshot
<1>11. CASE UNCHANGED buffer
  BY <1>11
<1>12. QED
  BY <1>2, <1>3, <1>4, <1>5, <1>6, <1>7, <1>8, <1>9, <1>10, <1>11 DEF Next

\* The inductive invariant, from the initial buffer and every step.
LEMMA AlwaysSound == Spec => []Sound(buffer)
<1>1. Init => Sound(buffer)
  BY InitSound
<1>2. Sound(buffer) /\ [Next]_buffer => Sound(buffer)'
  <2>1. SUFFICES ASSUME Sound(buffer), [Next]_buffer
                 PROVE  Sound(buffer)'
    OBVIOUS
  <2>2. Sound(buffer')
    BY <2>1, StepSound
  <2>3. QED
    BY <2>2
<1>3. QED
  BY <1>1, <1>2, PTL DEF Spec

(***************************************************************************)
(* LayersParallel: the vectors stay parallel, whatever is edited where.    *)
(***************************************************************************)
THEOREM LayersStayParallel == Spec => []LayersParallel
<1>1. Sound(buffer) => LayersParallel
  BY SoundFacts, PartFacts DEF LayersParallel, Covers
<1>2. QED
  BY <1>1, AlwaysSound, PTL

(***************************************************************************)
(* FormatsCoverText: no edit leaves a character without a format.          *)
(***************************************************************************)
THEOREM EveryCharacterFormatted == Spec => []FormatsCoverText
<1>1. Sound(buffer) => FormatsCoverText
  BY SoundFacts DEF FormatsCoverText, Covers
<1>2. QED
  BY <1>1, AlwaysSound, PTL

(***************************************************************************)
(* AnchorsInRange: every float is on a row there is.                       *)
(***************************************************************************)
THEOREM FloatsStayOnRows == Spec => []AnchorsInRange
<1>1. ASSUME Sound(buffer)
      PROVE  AnchorsInRange
  <2>1. /\ Rows = 1 .. Len(buffer.lines)
        /\ DOMAIN buffer.anchors = 1 .. Len(buffer.anchors)
    BY <1>1, SoundFacts, PartFacts, LenProperties DEF Rows
  <2>2. QED
    BY <1>1, <2>1, PartFacts DEF AnchorsInRange
<1>2. QED
  BY <1>1, AlwaysSound, PTL

-----------------------------------------------------------------------------
(***************************************************************************)
(* The edits of a buffer whose rows have as many formats as characters are *)
(* the edits of a sequence of paragraphs: for every text, every set of     *)
(* formats, and every caret, selection and paste.                          *)
(***************************************************************************)


(***************************************************************************)
(* A row of text and a row of formats, read as formatted characters.       *)
(***************************************************************************)
Zip(l, f) ==
  [c \in DOMAIN l |-> <<l[c], IF c \in DOMAIN f THEN f[c] ELSE Plain>>]

CellSet == Chars \X Formats

\* What is spliced together the same way is the same.
LEMMA SplicedIsSplice ==
  ASSUME NEW S, NEW p \in Seq(S), NEW s \in Seq(S), NEW t \in Seq(S),
         NEW from \in 0 .. Len(s), NEW to \in from .. Len(s),
         Spliced(p, s, from, to, t)
  PROVE  p = Splice(s, from, to, t)
<1> DEFINE q == Splice(s, from, to, t)
<1>1. q \in Seq(S) /\ Spliced(q, s, from, to, t)
  BY SpliceSpliced
<1>2. Len(s) \in Nat /\ Len(t) \in Nat
  BY LenProperties
<1> HIDE DEF q
<1>3. /\ Len(p) = from + Len(t) + (Len(s) - to)
      /\ Len(q) = from + Len(t) + (Len(s) - to)
  BY <1>1 DEF Spliced
<1>4. ASSUME NEW i \in 1 .. Len(p)
      PROVE  p[i] = q[i]
  <2>1. CASE i \in 1 .. from
    BY <1>1, <2>1 DEF Spliced
  <2>2. CASE i \in from + 1 .. from + Len(t)
    BY <1>1, <2>2 DEF Spliced
  <2>3. CASE i \in from + Len(t) + 1 .. from + Len(t) + (Len(s) - to)
    BY <1>1, <2>3 DEF Spliced
  <2>4. QED
    BY <1>2, <1>3, <2>1, <2>2, <2>3
<1>5. p = q
  BY <1>1, <1>3, <1>4, SeqEqual
<1>6. QED
  BY <1>5 DEF q

\* The formatted characters of a row that is covered.
LEMMA ZipFacts ==
  ASSUME NEW l \in Seq(Chars), NEW f \in Seq(Formats), Len(f) >= Len(l)
  PROVE  /\ Zip(l, f) \in Seq(CellSet) /\ Len(Zip(l, f)) = Len(l)
         /\ \A i \in 1 .. Len(l) : Zip(l, f)[i] = <<l[i], f[i]>>
<1>1. /\ Len(l) \in Nat /\ Len(f) \in Nat
      /\ DOMAIN l = 1 .. Len(l) /\ DOMAIN f = 1 .. Len(f)
  BY LenProperties
<1>2. ASSUME NEW i \in 1 .. Len(l)
      PROVE  Zip(l, f)[i] = <<l[i], f[i]>> /\ Zip(l, f)[i] \in CellSet
  <2>1. i \in DOMAIN f /\ i \in DOMAIN l /\ i \in 1 .. Len(f)
    BY <1>1
  <2>2. l[i] \in Chars /\ f[i] \in Formats
    BY <2>1, ElementOfSeq
  <2>3. Zip(l, f)[i] = <<l[i], f[i]>>
    BY <2>1 DEF Zip
  <2>4. QED
    BY <2>2, <2>3 DEF CellSet
<1>3. Zip(l, f) = [i \in 1 .. Len(l) |-> Zip(l, f)[i]]
  BY <1>1 DEF Zip
<1>4. Zip(l, f) \in Seq(CellSet) /\ Len(Zip(l, f)) = Len(l)
  <2> DEFINE z == Zip(l, f)
  <2>1. z \in [1 .. Len(l) -> CellSet]
    BY <1>2, <1>3
  <2> HIDE DEF z
  <2>2. z \in Seq(CellSet) /\ Len(z) = Len(l)
    BY <1>1, <2>1
  <2>3. QED
    BY <2>2 DEF z
<1>5. QED
  BY <1>2, <1>4

\* Formats past the end of the text are not seen.
LEMMA ZipSame ==
  ASSUME NEW l \in Seq(Chars), NEW f \in Seq(Formats), NEW g \in Seq(Formats),
         Len(f) >= Len(l), Len(g) >= Len(l),
         \A i \in 1 .. Len(l) : f[i] = g[i]
  PROVE  Zip(l, f) = Zip(l, g)
<1>1. /\ Zip(l, f) \in Seq(CellSet) /\ Len(Zip(l, f)) = Len(l)
      /\ \A i \in 1 .. Len(l) : Zip(l, f)[i] = <<l[i], f[i]>>
  BY ZipFacts
<1>2. /\ Zip(l, g) \in Seq(CellSet) /\ Len(Zip(l, g)) = Len(l)
      /\ \A i \in 1 .. Len(l) : Zip(l, g)[i] = <<l[i], g[i]>>
  BY ZipFacts
<1>3. \A i \in 1 .. Len(Zip(l, f)) : Zip(l, f)[i] = Zip(l, g)[i]
  BY <1>1, <1>2
<1>4. QED
  BY <1>1, <1>2, <1>3, SeqEqual

\* Text and formats cut at one place.
LEMMA ZipTake ==
  ASSUME NEW l \in Seq(Chars), NEW f \in Seq(Formats), Len(f) >= Len(l),
         NEW c \in 0 .. Len(l)
  PROVE  /\ Zip(Take(l, c), Take(f, c)) = Take(Zip(l, f), c)
         /\ Take(l, c) \in Seq(Chars) /\ Take(f, c) \in Seq(Formats)
         /\ Len(Take(l, c)) = c /\ Len(Take(f, c)) = c
<1>1. Len(l) \in Nat /\ Len(f) \in Nat /\ c \in 0 .. Len(f) /\ c \in Nat
  BY LenProperties
<1>2. /\ Take(l, c) \in Seq(Chars) /\ Len(Take(l, c)) = c
      /\ \A i \in 1 .. c : Take(l, c)[i] = l[i]
  BY TakeFacts
<1>3. /\ Take(f, c) \in Seq(Formats) /\ Len(Take(f, c)) = c
      /\ \A i \in 1 .. c : Take(f, c)[i] = f[i]
  BY <1>1, TakeFacts
<1> DEFINE z == Zip(l, f)
           x == Take(l, c)
           y == Take(f, c)
<1>4. /\ z \in Seq(CellSet) /\ Len(z) = Len(l)
      /\ \A i \in 1 .. Len(l) : z[i] = <<l[i], f[i]>>
  BY ZipFacts
<1> HIDE DEF x, y, z
<1>5. /\ Take(z, c) \in Seq(CellSet) /\ Len(Take(z, c)) = c
      /\ \A i \in 1 .. c : Take(z, c)[i] = z[i]
  BY <1>4, TakeFacts
<1>6. /\ Zip(x, y) \in Seq(CellSet) /\ Len(Zip(x, y)) = Len(x)
      /\ \A i \in 1 .. Len(x) : Zip(x, y)[i] = <<x[i], y[i]>>
  BY <1>1, <1>2, <1>3, ZipFacts DEF x, y
<1>7. Len(x) = c /\ \A i \in 1 .. c : x[i] = l[i] /\ y[i] = f[i]
  BY <1>2, <1>3 DEF x, y
<1>8. \A i \in 1 .. c : i \in 1 .. Len(l)
  BY <1>1
<1>9. \A i \in 1 .. c : Zip(x, y)[i] = Take(z, c)[i]
  BY <1>4, <1>5, <1>6, <1>7, <1>8
<1>10. Zip(x, y) = Take(z, c)
  BY <1>5, <1>6, <1>7, <1>9, SeqEqual
<1>11. QED
  BY <1>2, <1>3, <1>10 DEF x, y, z

LEMMA ZipDrop ==
  ASSUME NEW l \in Seq(Chars), NEW f \in Seq(Formats), Len(f) >= Len(l),
         NEW c \in 0 .. Len(l)
  PROVE  /\ Zip(Drop(l, c), Drop(f, c)) = Drop(Zip(l, f), c)
         /\ Drop(l, c) \in Seq(Chars) /\ Drop(f, c) \in Seq(Formats)
         /\ Len(Drop(l, c)) = Len(l) - c /\ Len(Drop(f, c)) = Len(f) - c
<1>1. Len(l) \in Nat /\ Len(f) \in Nat /\ c \in 0 .. Len(f) /\ c \in Nat
  BY LenProperties
<1>2. /\ Drop(l, c) \in Seq(Chars) /\ Len(Drop(l, c)) = Len(l) - c
      /\ \A i \in 1 .. Len(l) - c : Drop(l, c)[i] = l[c + i]
  BY DropFacts
<1>3. /\ Drop(f, c) \in Seq(Formats) /\ Len(Drop(f, c)) = Len(f) - c
      /\ \A i \in 1 .. Len(f) - c : Drop(f, c)[i] = f[c + i]
  BY <1>1, DropFacts
<1> DEFINE z == Zip(l, f)
           x == Drop(l, c)
           y == Drop(f, c)
<1>4. /\ z \in Seq(CellSet) /\ Len(z) = Len(l)
      /\ \A i \in 1 .. Len(l) : z[i] = <<l[i], f[i]>>
  BY ZipFacts
<1> HIDE DEF x, y, z
<1>5. /\ Drop(z, c) \in Seq(CellSet) /\ Len(Drop(z, c)) = Len(l) - c
      /\ \A i \in 1 .. Len(l) - c : Drop(z, c)[i] = z[c + i]
  <2>1. z \in Seq(CellSet) /\ c \in 0 .. Len(z)
    BY <1>4
  <2>2. /\ Drop(z, c) \in Seq(CellSet) /\ Len(Drop(z, c)) = Len(z) - c
        /\ \A i \in 1 .. Len(z) - c : Drop(z, c)[i] = z[c + i]
    BY <2>1, DropFacts
  <2>3. QED
    BY <1>4, <2>2
<1>6. /\ Zip(x, y) \in Seq(CellSet) /\ Len(Zip(x, y)) = Len(x)
      /\ \A i \in 1 .. Len(x) : Zip(x, y)[i] = <<x[i], y[i]>>
  <2>1. x \in Seq(Chars) /\ y \in Seq(Formats)
    BY <1>2, <1>3 DEF x, y
  <2>2. Len(x) = Len(l) - c /\ Len(y) = Len(f) - c
    BY <1>2, <1>3 DEF x, y
  <2>3. Len(y) >= Len(x)
    BY <1>1, <2>2
  <2>4. QED
    BY <2>1, <2>3, ZipFacts
<1>7. ASSUME NEW i \in 1 .. Len(l) - c
      PROVE  Zip(x, y)[i] = Drop(z, c)[i]
  <2>1. c + i \in 1 .. Len(l) /\ i \in 1 .. Len(f) - c
    BY <1>1
  <2>2. x[i] = l[c + i] /\ y[i] = f[c + i] /\ Len(x) = Len(l) - c
    BY <1>2, <1>3, <2>1 DEF x, y
  <2>3. QED
    BY <1>4, <1>5, <1>6, <2>1, <2>2
<1>8. Len(x) = Len(l) - c
  BY <1>2 DEF x
<1>9. Zip(x, y) = Drop(z, c)
  BY <1>5, <1>6, <1>7, <1>8, SeqEqual
<1>10. QED
  BY <1>2, <1>3, <1>9 DEF x, y, z

\* Text and formats joined at one place.
LEMMA ZipJoin ==
  ASSUME NEW l \in Seq(Chars), NEW f \in Seq(Formats), Len(f) = Len(l),
         NEW m \in Seq(Chars), NEW g \in Seq(Formats), Len(g) >= Len(m)
  PROVE  /\ Zip(l \o m, f \o g) = Zip(l, f) \o Zip(m, g)
         /\ l \o m \in Seq(Chars) /\ f \o g \in Seq(Formats)
         /\ Len(l \o m) = Len(l) + Len(m) /\ Len(f \o g) = Len(f) + Len(g)
<1>1. /\ Len(l) \in Nat /\ Len(m) \in Nat /\ Len(f) \in Nat /\ Len(g) \in Nat
  BY LenProperties
<1>2. /\ l \o m \in Seq(Chars) /\ Len(l \o m) = Len(l) + Len(m)
      /\ \A i \in 1 .. Len(l) + Len(m) :
           (l \o m)[i] = IF i <= Len(l) THEN l[i] ELSE m[i - Len(l)]
  BY ConcatProperties
<1>3. /\ f \o g \in Seq(Formats) /\ Len(f \o g) = Len(f) + Len(g)
      /\ \A i \in 1 .. Len(f) + Len(g) :
           (f \o g)[i] = IF i <= Len(f) THEN f[i] ELSE g[i - Len(f)]
  BY ConcatProperties
<1> DEFINE x == l \o m
           y == f \o g
           z1 == Zip(l, f)
           z2 == Zip(m, g)
<1>4. /\ z1 \in Seq(CellSet) /\ Len(z1) = Len(l)
      /\ \A i \in 1 .. Len(l) : z1[i] = <<l[i], f[i]>>
  BY <1>1, ZipFacts
<1>5. /\ z2 \in Seq(CellSet) /\ Len(z2) = Len(m)
      /\ \A i \in 1 .. Len(m) : z2[i] = <<m[i], g[i]>>
  BY ZipFacts
<1>6. x \in Seq(Chars) /\ y \in Seq(Formats) /\ Len(y) >= Len(x)
      /\ Len(x) = Len(l) + Len(m)
  BY <1>1, <1>2, <1>3
<1> HIDE DEF x, y, z1, z2
<1>7. /\ z1 \o z2 \in Seq(CellSet) /\ Len(z1 \o z2) = Len(z1) + Len(z2)
      /\ \A i \in 1 .. Len(z1) + Len(z2) :
           (z1 \o z2)[i] = IF i <= Len(z1) THEN z1[i] ELSE z2[i - Len(z1)]
  <2>1. z1 \in Seq(CellSet) /\ z2 \in Seq(CellSet)
    BY <1>4, <1>5
  <2>2. QED
    BY <2>1, ConcatProperties
<1>8. /\ Zip(x, y) \in Seq(CellSet) /\ Len(Zip(x, y)) = Len(x)
      /\ \A i \in 1 .. Len(x) : Zip(x, y)[i] = <<x[i], y[i]>>
  BY <1>6, ZipFacts
<1>9. ASSUME NEW i \in 1 .. Len(l) + Len(m)
      PROVE  Zip(x, y)[i] = (z1 \o z2)[i]
  <2>1. i \in 1 .. Len(x) /\ i \in 1 .. Len(f) + Len(g)
        /\ i \in 1 .. Len(z1) + Len(z2)
    BY <1>1, <1>4, <1>5, <1>6
  <2>2. CASE i <= Len(l)
    <3>1. x[i] = l[i] /\ y[i] = f[i]
      BY <1>2, <1>3, <2>1, <2>2 DEF x, y
    <3>2. i \in 1 .. Len(l)
      BY <1>1, <2>2
    <3>3. (z1 \o z2)[i] = <<l[i], f[i]>>
      BY <1>4, <1>7, <2>1, <2>2, <3>2
    <3>4. QED
      BY <1>8, <2>1, <3>1, <3>3
  <2>3. CASE ~(i <= Len(l))
    <3>1. x[i] = m[i - Len(l)] /\ y[i] = g[i - Len(l)]
      BY <1>2, <1>3, <2>1, <2>3 DEF x, y
    <3>2. i - Len(l) \in 1 .. Len(m)
      BY <1>1, <2>3
    <3>3. (z1 \o z2)[i] = <<m[i - Len(l)], g[i - Len(l)]>>
      BY <1>4, <1>5, <1>7, <2>1, <2>3, <3>2
    <3>4. QED
      BY <1>8, <2>1, <3>1, <3>3
  <2>4. QED
    BY <2>2, <2>3
<1>10. Len(z1 \o z2) = Len(x)
  BY <1>4, <1>5, <1>6, <1>7
<1>11. Zip(x, y) = z1 \o z2
  BY <1>6, <1>7, <1>8, <1>9, <1>10, SeqEqual
<1>12. QED
  BY <1>2, <1>3, <1>11 DEF x, y, z1, z2

\* Text and formats that give way at one place to as much of either.
LEMMA ZipSplice ==
  ASSUME NEW l \in Seq(Chars), NEW f \in Seq(Formats), Len(f) >= Len(l),
         NEW t \in Seq(Chars), NEW u \in Seq(Formats), Len(u) = Len(t),
         NEW c \in 0 .. Len(l), NEW d \in c .. Len(l)
  PROVE  Zip(Splice(l, c, d, t), Splice(f, c, d, u))
           = Splice(Zip(l, f), c, d, Zip(t, u))
<1>1. Len(l) \in Nat /\ Len(t) \in Nat /\ d \in 0 .. Len(l) /\ Len(f) \in Nat
  BY LenProperties
<1> DEFINE x == Take(l, c)
           y == Take(f, c)
           v == Drop(l, d)
           w == Drop(f, d)
<1>2. /\ Zip(x, y) = Take(Zip(l, f), c)
      /\ x \in Seq(Chars) /\ y \in Seq(Formats) /\ Len(x) = c /\ Len(y) = c
  BY ZipTake
<1>3. /\ Zip(v, w) = Drop(Zip(l, f), d)
      /\ v \in Seq(Chars) /\ w \in Seq(Formats)
      /\ Len(v) = Len(l) - d /\ Len(w) = Len(f) - d
  BY <1>1, ZipDrop
<1>4. Len(w) >= Len(v) /\ Len(t) >= 0
  BY <1>1, <1>3
<1> HIDE DEF x, y, v, w
<1> DEFINE xt == x \o t
           yu == y \o u
<1>5. /\ Zip(xt, yu) = Zip(x, y) \o Zip(t, u)
      /\ xt \in Seq(Chars) /\ yu \in Seq(Formats)
      /\ Len(xt) = Len(x) + Len(t) /\ Len(yu) = Len(y) + Len(u)
  <2>1. Len(y) = Len(x) /\ Len(u) >= Len(t)
    BY <1>1, <1>2
  <2>2. x \in Seq(Chars) /\ y \in Seq(Formats)
    BY <1>2
  <2> HIDE DEF xt, yu
  <2>3. Zip(x \o t, y \o u) = Zip(x, y) \o Zip(t, u)
    BY <2>1, <2>2, ZipJoin
  <2>4. x \o t \in Seq(Chars) /\ Len(x \o t) = Len(x) + Len(t)
    BY <2>2, ConcatProperties
  <2>5. y \o u \in Seq(Formats) /\ Len(y \o u) = Len(y) + Len(u)
    <3>1. PICK v1 \in Seq(Formats) : v1 = u
      OBVIOUS
    <3>2. y \o v1 \in Seq(Formats) /\ Len(y \o v1) = Len(y) + Len(v1)
      BY <2>2, ConcatProperties
    <3>3. QED
      BY <3>1, <3>2
  <2>6. QED
    BY <2>3, <2>4, <2>5 DEF xt, yu
<1>6. Len(yu) = Len(xt)
  BY <1>2, <1>5
<1> HIDE DEF xt, yu
<1>7. Zip(xt \o v, yu \o w) = Zip(xt, yu) \o Zip(v, w)
  <2>1. /\ xt \in Seq(Chars) /\ yu \in Seq(Formats)
        /\ v \in Seq(Chars) /\ w \in Seq(Formats)
    BY <1>3, <1>5
  <2>2. QED
    BY <1>4, <1>6, <2>1, ZipJoin
<1>8. Splice(l, c, d, t) = xt \o v /\ Splice(f, c, d, u) = yu \o w
  BY DEF Splice, xt, yu, x, y, v, w
<1>9. Splice(Zip(l, f), c, d, Zip(t, u))
        = Take(Zip(l, f), c) \o Zip(t, u) \o Drop(Zip(l, f), d)
  BY DEF Splice
<1>10. QED
  BY <1>2, <1>3, <1>5, <1>7, <1>8, <1>9

(***************************************************************************)
(* The paragraphs of a sound buffer.                                       *)
(***************************************************************************)
FloatsAt(an, r) == Cardinality({i \in DOMAIN an : an[i] = r})

ParagraphSet ==
  [cells : Seq(CellSet), break : BOOLEAN, align : Alignments \cup {"left"},
   level : Nat, floats : Nat]

LEMMA FloatsFinite ==
  ASSUME NEW an \in Seq(Nat), NEW T, T \subseteq DOMAIN an
  PROVE  IsFiniteSet(T) /\ Cardinality(T) \in Nat
<1>1. DOMAIN an = 1 .. Len(an) /\ Len(an) \in Nat
  BY LenProperties
<1>2. IsFiniteSet(1 .. Len(an))
  BY <1>1, FS_Interval
<1>3. QED
  BY <1>1, <1>2, FS_Subset, FS_CardinalityType

LEMMA ParagraphFacts ==
  ASSUME NEW b, Sound(b), NEW r \in 1 .. Len(b.lines)
  PROVE  /\ ParagraphOf(b, r) \in ParagraphSet
         /\ ParagraphOf(b, r).cells = Zip(b.lines[r], b.formats[r])
         /\ ParagraphOf(b, r).break = b.pageBreakBefore[r]
         /\ ParagraphOf(b, r).align = b.alignment[r]
         /\ ParagraphOf(b, r).level = b.listLevel[r]
         /\ ParagraphOf(b, r).floats = FloatsAt(b.anchors, r)
<1> DEFINE p == ParagraphOf(b, r)
           l == b.lines[r]
           f == b.formats[r]
           cells == [c \in DOMAIN l |-> <<l[c], FormatAt(b, r, c - 1)>>]
<1>1. Covers(b.lines, b.formats) /\ DOMAIN b.formats = 1 .. Len(b.lines)
  BY SoundFacts
<1>2. l \in Seq(Chars) /\ f \in Seq(Formats) /\ Len(f) >= Len(l)
      /\ Len(l) \in Nat /\ DOMAIN l = 1 .. Len(l)
  BY <1>1, RowFacts, LenProperties
<1>3. cells = Zip(l, f)
  <2>1. ASSUME NEW c \in DOMAIN l
        PROVE  FormatAt(b, r, c - 1) = IF c \in DOMAIN f THEN f[c] ELSE Plain
    <3>1. c - 1 + 1 = c
      BY <1>2
    <3>2. r \in DOMAIN b.formats
      BY <1>1
    <3>3. QED
      BY <3>1, <3>2 DEF FormatAt
  <2>2. QED
    BY <2>1 DEF Zip
<1>4. Zip(l, f) \in Seq(CellSet)
  BY <1>2, ZipFacts
<1>5. b.pageBreakBefore[r] \in BOOLEAN /\ b.alignment[r] \in Alignments \cup {"left"}
      /\ b.listLevel[r] \in Nat
  <2>1. /\ b.pageBreakBefore \in Seq(BOOLEAN) /\ r \in 1 .. Len(b.pageBreakBefore)
        /\ b.alignment \in Seq(Alignments \cup {"left"}) /\ r \in 1 .. Len(b.alignment)
        /\ b.listLevel \in Seq(Nat) /\ r \in 1 .. Len(b.listLevel)
    BY PartFacts
  <2>2. b.pageBreakBefore[r] \in BOOLEAN
    BY <2>1, ElementOfSeq
  <2>3. b.alignment[r] \in Alignments \cup {"left"}
    BY <2>1, ElementOfSeq
  <2>4. b.listLevel[r] \in Nat
    BY <2>1, ElementOfSeq
  <2>5. QED
    BY <2>2, <2>3, <2>4
<1>6. FloatsAt(b.anchors, r) \in Nat
  BY PartFacts, FloatsFinite DEF FloatsAt
<1>7. ParagraphOf(b, r)
        = [cells |-> cells, break |-> b.pageBreakBefore[r],
           align |-> b.alignment[r], level |-> b.listLevel[r],
           floats |-> FloatsAt(b.anchors, r)]
  BY DEF ParagraphOf, FloatsAt
<1> HIDE DEF cells, l, f
<1>8. QED
  BY <1>3, <1>4, <1>5, <1>6, <1>7 DEF ParagraphSet, l, f

\* A paragraph is what its parts are.
LEMMA ParagraphEqual ==
  ASSUME NEW p \in ParagraphSet, NEW q \in ParagraphSet,
         p.cells = q.cells, p.break = q.break, p.align = q.align,
         p.level = q.level, p.floats = q.floats
  PROVE  p = q
BY DEF ParagraphSet

LEMMA TextFacts ==
  ASSUME NEW b, Sound(b)
  PROVE  /\ TextOf(b) \in Seq(ParagraphSet)
         /\ Len(TextOf(b)) = Len(b.lines) /\ Len(b.lines) \in Nat \ {0}
         /\ DOMAIN TextOf(b) = 1 .. Len(b.lines)
         /\ \A r \in 1 .. Len(b.lines) : TextOf(b)[r] = ParagraphOf(b, r)
<1> DEFINE t == TextOf(b)
           n == Len(b.lines)
<1>1. DOMAIN b.lines = 1 .. n /\ n \in Nat \ {0}
  BY SoundFacts
<1>2. t = [r \in 1 .. n |-> ParagraphOf(b, r)]
  BY <1>1 DEF TextOf
<1>3. \A r \in 1 .. n : ParagraphOf(b, r) \in ParagraphSet
  BY ParagraphFacts
<1>4. t \in [1 .. n -> ParagraphSet]
  BY <1>2, <1>3
<1> HIDE DEF t, n
<1>5. t \in Seq(ParagraphSet) /\ Len(t) = n /\ DOMAIN t = 1 .. n
  BY <1>1, <1>4
<1>6. \A r \in 1 .. n : t[r] = ParagraphOf(b, r)
  BY <1>2
<1>7. QED
  BY <1>1, <1>5, <1>6 DEF t, n

\* The paragraphs p .. q of b have given way to others, row by row.
Rewritten(b, b2, p, q, mid) ==
  /\ Len(b2.lines) = p - 1 + Len(mid) + (Len(b.lines) - q)
  /\ \A r \in 1 .. p - 1 : ParagraphOf(b2, r) = ParagraphOf(b, r)
  /\ \A r \in 1 .. Len(mid) : ParagraphOf(b2, p - 1 + r) = mid[r]
  /\ \A r \in q + 1 .. Len(b.lines) :
       ParagraphOf(b2, r - q + (p - 1 + Len(mid))) = ParagraphOf(b, r)

LEMMA TextSpliced ==
  ASSUME NEW b, Sound(b), NEW b2, Sound(b2),
         NEW p \in 1 .. Len(b.lines), NEW q \in p .. Len(b.lines),
         NEW mid \in Seq(ParagraphSet),
         Rewritten(b, b2, p, q, mid)
  PROVE  TextOf(b2) = Splice(TextOf(b), p - 1, q, mid)
<1> DEFINE s == TextOf(b)
           t == TextOf(b2)
           n == Len(b.lines)
           n2 == Len(b2.lines)
           m == Len(mid)
<1>1. /\ s \in Seq(ParagraphSet) /\ Len(s) = n /\ n \in Nat
      /\ \A r \in 1 .. n : s[r] = ParagraphOf(b, r)
  BY TextFacts
<1>2. /\ t \in Seq(ParagraphSet) /\ Len(t) = n2 /\ n2 \in Nat
      /\ \A r \in 1 .. n2 : t[r] = ParagraphOf(b2, r)
  BY TextFacts
<1>3. m \in Nat
  BY LenProperties
<1>4. n2 = p - 1 + m + (n - q) /\ p \in 1 .. n /\ q \in p .. n
  BY DEF Rewritten
<1>5. /\ \A r \in 1 .. p - 1 : ParagraphOf(b2, r) = ParagraphOf(b, r)
      /\ \A r \in 1 .. m : ParagraphOf(b2, p - 1 + r) = mid[r]
      /\ \A r \in q + 1 .. n :
           ParagraphOf(b2, r - q + (p - 1 + m)) = ParagraphOf(b, r)
  BY DEF Rewritten
<1> HIDE DEF s, t, n, n2, m
<1>6. \A i \in 1 .. p - 1 : t[i] = s[i]
  <2>1. \A i \in 1 .. p - 1 : i \in 1 .. n /\ i \in 1 .. n2
    BY <1>1, <1>3, <1>4
  <2>2. QED
    BY <1>1, <1>2, <1>5, <2>1
<1>7. ASSUME NEW i \in p - 1 + 1 .. p - 1 + m
      PROVE  t[i] = mid[i - (p - 1)]
  <2>1. i - (p - 1) \in 1 .. m /\ i \in 1 .. n2 /\ p - 1 + (i - (p - 1)) = i
    BY <1>1, <1>3, <1>4
  <2>2. QED
    BY <1>2, <1>5, <2>1
<1>8. ASSUME NEW i \in p - 1 + m + 1 .. p - 1 + m + (n - q)
      PROVE  t[i] = s[i - (p - 1) - m + q]
  <2> DEFINE r == i - (p - 1) - m + q
  <2>1. /\ r \in q + 1 .. n /\ r \in 1 .. n /\ i \in 1 .. n2
        /\ r - q + (p - 1 + m) = i
    BY <1>1, <1>3, <1>4
  <2> HIDE DEF r
  <2>2. t[i] = s[r]
    BY <1>1, <1>2, <1>5, <2>1
  <2>3. QED
    BY <2>2 DEF r
<1>9. Spliced(t, s, p - 1, q, mid)
  BY <1>1, <1>2, <1>4, <1>6, <1>7, <1>8 DEF Spliced, m
<1>10. p - 1 \in 0 .. Len(s) /\ q \in p - 1 .. Len(s)
  BY <1>1, <1>4
<1>11. t = Splice(s, p - 1, q, mid)
  BY <1>1, <1>2, <1>9, <1>10, SplicedIsSplice
<1>12. QED
  BY <1>11 DEF s, t

(***************************************************************************)
(* The edits of StyledText, as what they make of a sequence of paragraphs. *)
(***************************************************************************)
Replaced(t, p, c, q, d, cells, floats) ==
  SubSeq(t, 1, p - 1)
    \o <<[t[p] EXCEPT !.cells = SubSeq(t[p].cells, 1, c) \o cells
                                  \o SubSeq(t[q].cells, d + 1, Len(t[q].cells)),
                      !.floats = floats]>>
    \o SubSeq(t, q + 1, Len(t))

FloatsBetween(an, p, q) == Cardinality({i \in DOMAIN an : an[i] \in p .. q})

\* As many formats as characters in every row.
Aligned(b) == \A r \in DOMAIN b.lines : Len(b.formats[r]) = Len(b.lines[r])

LEMMA AlignedFacts ==
  ASSUME NEW b, Sound(b), Aligned(b), NEW r \in 1 .. Len(b.lines)
  PROVE  /\ b.lines[r] \in Seq(Chars) /\ b.formats[r] \in Seq(Formats)
         /\ Len(b.lines[r]) \in Nat /\ Len(b.formats[r]) = Len(b.lines[r])
         /\ \A k \in 0 .. Len(b.lines[r]) :
              EnsureLineFormatSize(b.formats, r, k) = b.formats
<1>1. Covers(b.lines, b.formats) /\ r \in DOMAIN b.lines
  BY SoundFacts
<1>2. /\ b.lines[r] \in Seq(Chars) /\ b.formats[r] \in Seq(Formats)
      /\ Len(b.lines[r]) \in Nat
  BY <1>1, RowFacts
<1>3. Len(b.formats[r]) = Len(b.lines[r])
  BY <1>1 DEF Aligned
<1>4. ASSUME NEW k \in 0 .. Len(b.lines[r])
      PROVE  EnsureLineFormatSize(b.formats, r, k) = b.formats
  <2>1. ~(Len(b.formats[r]) < k)
    BY <1>2, <1>3
  <2>2. QED
    BY <2>1 DEF EnsureLineFormatSize
<1>5. QED
  BY <1>2, <1>3, <1>4

\* The layers of one row are replaced.
WithRow(b, fs, row, x, y) ==
  [b EXCEPT !.lines = [b.lines EXCEPT ![row] = x],
            !.formats = [fs EXCEPT ![row] = y]]

\* The formats of b, with that row's perhaps padded.
Padded(b, fs, row) ==
  /\ Covers(b.lines, fs)
  /\ \A r \in 1 .. Len(b.lines) : r # row => fs[r] = b.formats[r]
  /\ Zip(b.lines[row], fs[row]) = Zip(b.lines[row], b.formats[row])

LEMMA NotPadded ==
  ASSUME NEW b, Sound(b), NEW row
  PROVE  Padded(b, b.formats, row)
BY SoundFacts DEF Padded

LEMMA RowRewritten ==
  ASSUME NEW b, Sound(b), NEW row \in 1 .. Len(b.lines),
         NEW fs, Padded(b, fs, row),
         NEW x \in Seq(Chars), NEW y \in Seq(Formats), Len(y) >= Len(x)
  PROVE  TextOf(WithRow(b, fs, row, x, y))
           = Splice(TextOf(b), row - 1, row,
                    <<[ParagraphOf(b, row) EXCEPT !.cells = Zip(x, y)]>>)
<1> DEFINE b2 == WithRow(b, fs, row, x, y)
           n == Len(b.lines)
           P == [ParagraphOf(b, row) EXCEPT !.cells = Zip(x, y)]
<1>0. /\ Covers(b.lines, fs)
      /\ \A r \in 1 .. Len(b.lines) : r # row => fs[r] = b.formats[r]
  BY DEF Padded
<1>1. Sound(b2)
  BY <1>0, RowEdit DEF WithRow
<1>2. /\ b2.lines = [b.lines EXCEPT ![row] = x]
      /\ b2.formats = [fs EXCEPT ![row] = y]
      /\ b2.pageBreakBefore = b.pageBreakBefore /\ b2.alignment = b.alignment
      /\ b2.listLevel = b.listLevel /\ b2.anchors = b.anchors
  BY DEF Sound, BufferType, WithRow
<1>3. DOMAIN b.lines = 1 .. n /\ n \in Nat /\ DOMAIN fs = 1 .. n
  <2>1. DOMAIN b.lines = 1 .. n /\ n \in Nat
    BY SoundFacts
  <2>2. DOMAIN fs = 1 .. n
    BY <1>0, RowFacts
  <2>3. QED
    BY <2>1, <2>2
<1>4. Len(b2.lines) = n
  BY <1>0, <1>2, CoverRow
<1>5. b2.lines[row] = x /\ b2.formats[row] = y
  BY <1>2, <1>3
<1>6. \A r \in 1 .. n : r # row =>
        b2.lines[r] = b.lines[r] /\ b2.formats[r] = b.formats[r]
  BY <1>0, <1>2, <1>3
<1> HIDE DEF b2, n
<1>7. row \in 1 .. n /\ row \in 1 .. Len(b2.lines) /\ row \in 1 .. Len(b.lines)
  BY <1>4 DEF n
<1>8. Zip(x, y) \in Seq(CellSet)
  BY ZipFacts
<1>9. /\ ParagraphOf(b, row) \in ParagraphSet
      /\ ParagraphOf(b, row).break = b.pageBreakBefore[row]
      /\ ParagraphOf(b, row).align = b.alignment[row]
      /\ ParagraphOf(b, row).level = b.listLevel[row]
      /\ ParagraphOf(b, row).floats = FloatsAt(b.anchors, row)
  BY ParagraphFacts
<1>10. /\ ParagraphOf(b2, row) \in ParagraphSet
       /\ ParagraphOf(b2, row).cells = Zip(b2.lines[row], b2.formats[row])
       /\ ParagraphOf(b2, row).break = b2.pageBreakBefore[row]
       /\ ParagraphOf(b2, row).align = b2.alignment[row]
       /\ ParagraphOf(b2, row).level = b2.listLevel[row]
       /\ ParagraphOf(b2, row).floats = FloatsAt(b2.anchors, row)
  BY <1>1, <1>7, ParagraphFacts
<1>11. /\ P \in ParagraphSet /\ P.cells = Zip(x, y)
       /\ P.break = ParagraphOf(b, row).break /\ P.align = ParagraphOf(b, row).align
       /\ P.level = ParagraphOf(b, row).level
       /\ P.floats = ParagraphOf(b, row).floats
  BY <1>8, <1>9 DEF ParagraphSet
<1> HIDE DEF P
<1>12. ParagraphOf(b2, row) = P
  BY <1>2, <1>5, <1>9, <1>10, <1>11, ParagraphEqual
<1>13. ASSUME NEW r \in 1 .. n, r # row
       PROVE  ParagraphOf(b2, r) = ParagraphOf(b, r)
  <2>1. r \in 1 .. Len(b.lines) /\ r \in 1 .. Len(b2.lines)
    BY <1>4 DEF n
  <2>2. /\ ParagraphOf(b, r) \in ParagraphSet
        /\ ParagraphOf(b, r).cells = Zip(b.lines[r], b.formats[r])
        /\ ParagraphOf(b, r).break = b.pageBreakBefore[r]
        /\ ParagraphOf(b, r).align = b.alignment[r]
        /\ ParagraphOf(b, r).level = b.listLevel[r]
        /\ ParagraphOf(b, r).floats = FloatsAt(b.anchors, r)
    BY <2>1, ParagraphFacts
  <2>3. /\ ParagraphOf(b2, r) \in ParagraphSet
        /\ ParagraphOf(b2, r).cells = Zip(b2.lines[r], b2.formats[r])
        /\ ParagraphOf(b2, r).break = b2.pageBreakBefore[r]
        /\ ParagraphOf(b2, r).align = b2.alignment[r]
        /\ ParagraphOf(b2, r).level = b2.listLevel[r]
        /\ ParagraphOf(b2, r).floats = FloatsAt(b2.anchors, r)
    BY <1>1, <2>1, ParagraphFacts
  <2>4. QED
    BY <1>2, <1>6, <1>13, <2>2, <2>3, ParagraphEqual
<1>14. TextOf(b2) = Splice(TextOf(b), row - 1, row, <<P>>)
  <2> DEFINE mid == <<P>>
  <2>1. mid \in Seq(ParagraphSet) /\ Len(mid) = 1 /\ mid[1] = P
    BY <1>11
  <2> HIDE DEF mid
  <2>2. row \in row .. Len(b.lines)
    BY <1>3, <1>7
  <2>3. Len(b2.lines) = row - 1 + Len(mid) + (Len(b.lines) - row)
    <3>1. Len(b2.lines) = Len(b.lines) /\ Len(b.lines) \in Nat
      BY <1>3, <1>4 DEF n
    <3>2. QED
      BY <2>1, <3>1
  <2>4. \A r \in 1 .. row - 1 : ParagraphOf(b2, r) = ParagraphOf(b, r)
    BY <1>3, <1>7, <1>13
  <2>5. ASSUME NEW r \in 1 .. Len(mid)
        PROVE  ParagraphOf(b2, row - 1 + r) = mid[r]
    <3>1. r = 1 /\ row - 1 + r = row
      BY <1>3, <2>1
    <3>2. QED
      BY <1>12, <2>1, <3>1
  <2>6. ASSUME NEW r \in row + 1 .. Len(b.lines)
        PROVE  ParagraphOf(b2, r - row + (row - 1 + Len(mid))) = ParagraphOf(b, r)
    <3>1. r - row + (row - 1 + Len(mid)) = r /\ r \in 1 .. n /\ r # row
      BY <1>3, <2>1 DEF n
    <3>2. QED
      BY <1>13, <3>1
  <2>7. TextOf(b2) = Splice(TextOf(b), row - 1, row, mid)
    <3>1. PICK q \in row .. Len(b.lines) : q = row
      BY <2>2
    <3>2. mid \in Seq(ParagraphSet)
      BY <2>1
    <3>3. Len(b2.lines) = row - 1 + Len(mid) + (Len(b.lines) - q)
      BY <2>3, <3>1
    <3>4. \A r \in q + 1 .. Len(b.lines) :
            ParagraphOf(b2, r - q + (row - 1 + Len(mid))) = ParagraphOf(b, r)
      BY <2>6, <3>1
    <3>5. Rewritten(b, b2, row, q, mid)
      BY <2>4, <2>5, <3>3, <3>4 DEF Rewritten
    <3>6. TextOf(b2) = Splice(TextOf(b), row - 1, q, mid)
      BY <1>1, <3>2, <3>5, TextSpliced
    <3>7. QED
      BY <3>1, <3>6
  <2>8. QED
    BY <2>7 DEF mid
<1>15. QED
  BY <1>14 DEF b2, P

\* A part of one row gives way to formatted characters.
LEMMA RowReplaced ==
  ASSUME NEW b, Sound(b), NEW row \in 1 .. Len(b.lines),
         NEW fs, Padded(b, fs, row),
         NEW c \in 0 .. Len(b.lines[row]), NEW d \in c .. Len(b.lines[row]),
         NEW t \in Seq(Chars), NEW u \in Seq(Formats), Len(u) = Len(t)
  PROVE  TextOf(WithRow(b, fs, row, Splice(b.lines[row], c, d, t),
                        Splice(fs[row], c, d, u)))
           = Replaced(TextOf(b), row, c, row, d, Zip(t, u),
                      FloatsBetween(b.anchors, row, row))
<1> DEFINE l == b.lines[row]
           f == fs[row]
           x == Splice(l, c, d, t)
           y == Splice(f, c, d, u)
           P == ParagraphOf(b, row)
<1>1. l \in Seq(Chars) /\ f \in Seq(Formats) /\ Len(f) >= Len(l)
      /\ Len(l) \in Nat
  BY RowFacts DEF Covers, Padded
<1>2. x \in Seq(Chars) /\ y \in Seq(Formats) /\ Len(y) >= Len(x)
  BY <1>1, SpliceRows
<1>3. Zip(x, y) = Splice(Zip(l, f), c, d, Zip(t, u))
  BY <1>1, ZipSplice
<1> HIDE DEF x, y
<1>4. TextOf(WithRow(b, fs, row, x, y))
        = Splice(TextOf(b), row - 1, row, <<[P EXCEPT !.cells = Zip(x, y)]>>)
  BY <1>2, RowRewritten
<1>5. P \in ParagraphSet /\ P.cells = Zip(l, f)
      /\ P.floats = FloatsAt(b.anchors, row)
  BY ParagraphFacts DEF Padded
<1>6. FloatsBetween(b.anchors, row, row) = P.floats
  <2>1. \A i : i \in row .. row <=> i = row
    OBVIOUS
  <2>2. QED
    BY <1>5, <2>1 DEF FloatsBetween, FloatsAt
<1>7. TextOf(b)[row] = P
  BY TextFacts
<1> HIDE DEF l, f, P
<1>8. [P EXCEPT !.cells = Zip(x, y)]
        = [P EXCEPT !.cells = Zip(x, y), !.floats = P.floats]
  <2> DEFINE z == Zip(x, y)
  <2> HIDE DEF z
  <2>1. [P EXCEPT !.cells = z] = [P EXCEPT !.cells = z, !.floats = P.floats]
    BY <1>5 DEF ParagraphSet
  <2>2. QED
    BY <2>1 DEF z
<1>9. Zip(x, y) = SubSeq(P.cells, 1, c) \o Zip(t, u)
                    \o SubSeq(P.cells, d + 1, Len(P.cells))
  BY <1>3, <1>5 DEF Splice, Take, Drop
<1>10. Replaced(TextOf(b), row, c, row, d, Zip(t, u),
                FloatsBetween(b.anchors, row, row))
         = Splice(TextOf(b), row - 1, row,
                  <<[P EXCEPT !.cells = Zip(x, y), !.floats = P.floats]>>)
  BY <1>6, <1>7, <1>9 DEF Replaced, Splice, Take, Drop
<1>11. QED
  BY <1>4, <1>8, <1>10 DEF x, y, l, f

-----------------------------------------------------------------------------
(***************************************************************************)
(* The edits at a caret.                                                   *)
(***************************************************************************)
\* A typed character.
LEMMA TypedText ==
  ASSUME NEW b, Sound(b), Aligned(b), NEW row \in 1 .. Len(b.lines),
         NEW col \in 0 .. Len(b.lines[row]), NEW ch \in Chars, NEW fmt \in Formats
  PROVE  TextOf(InsertChar(b, col, row, ch, fmt))
           = Replaced(TextOf(b), row, col, row, col, <<<<ch, fmt>>>>,
                      FloatsBetween(b.anchors, row, row))
<1> DEFINE l == b.lines[row]
           f == b.formats[row]
           x == Splice(l, col, col, <<ch>>)
           y == Splice(f, col, col, <<fmt>>)
<1>1. row \in DOMAIN b.lines /\ Covers(b.lines, b.formats)
  BY SoundFacts
<1>2. /\ Len(l) \in Nat
      /\ EnsureLineFormatSize(b.formats, row, Len(l)) = b.formats
  <2>1. Len(l) \in 0 .. Len(l) /\ Len(l) \in Nat
    BY AlignedFacts
  <2>2. QED
    BY <2>1, AlignedFacts
<1>3. Clamp(col, 0, Len(l)) = col /\ col \in col .. Len(l)
  BY <1>2 DEF Clamp
<1>4. InsertCharText(b.lines, col, row, ch) = [b.lines EXCEPT ![row] = x]
  BY <1>1, <1>3 DEF InsertCharText
<1>5. InsertChar(b, col, row, ch, fmt)
        = [b EXCEPT !.lines = [b.lines EXCEPT ![row] = x],
                    !.formats = [b.formats EXCEPT ![row] = y]]
  <2> DEFINE c == Clamp(col, 0, Len(l))
             fs == EnsureLineFormatSize(b.formats, row, Len(l))
  <2>1. InsertChar(b, col, row, ch, fmt) =
          [b EXCEPT !.lines = InsertCharText(b.lines, c, row, ch),
                    !.formats = [fs EXCEPT ![row] = Splice(fs[row], c, c, <<fmt>>)]]
    BY <1>1 DEF InsertChar
  <2>2. c = col /\ fs = b.formats
    BY <1>2, <1>3
  <2> HIDE DEF c, fs
  <2>3. QED
    BY <1>4, <2>1, <2>2
<1>6. /\ <<ch>> \in Seq(Chars) /\ <<fmt>> \in Seq(Formats)
      /\ Len(<<fmt>>) = Len(<<ch>>)
  OBVIOUS
<1>7. Zip(<<ch>>, <<fmt>>) = <<<<ch, fmt>>>>
  BY DEF Zip
<1> DEFINE t == <<ch>>
           u == <<fmt>>
<1> HIDE DEF t, u
<1>8. t \in Seq(Chars) /\ u \in Seq(Formats) /\ Len(u) = Len(t)
  BY <1>6 DEF t, u
<1>9. TextOf(WithRow(b, b.formats, row, Splice(b.lines[row], col, col, t),
                     Splice(b.formats[row], col, col, u)))
        = Replaced(TextOf(b), row, col, row, col, Zip(t, u),
                   FloatsBetween(b.anchors, row, row))
  BY <1>3, <1>8, NotPadded, RowReplaced
<1>10. QED
  BY <1>5, <1>7, <1>9 DEF t, u, WithRow

(***************************************************************************)
(* Rows p .. q give way to m rows: the rows above and below stay.          *)
(***************************************************************************)
KeptAround(s2, s, p, q, m) ==
  /\ \A r \in 1 .. p - 1 : s2[r] = s[r]
  /\ \A r \in q + 1 .. Len(s) : s2[r - q + (p - 1 + m)] = s[r]

FloatsKept(a2, a, n, p, q, m) ==
  /\ \A r \in 1 .. p - 1 : FloatsAt(a2, r) = FloatsAt(a, r)
  /\ \A r \in q + 1 .. n : FloatsAt(a2, r - q + (p - 1 + m)) = FloatsAt(a, r)

\* The elements of t are in the vector, from behind position j on.
Placed(s2, j, t) == \A i \in 1 .. Len(t) : s2[j + i] = t[i]

LayersKept(b, b2, p, q, m) ==
  /\ Len(b2.lines) = p - 1 + m + (Len(b.lines) - q)
  /\ KeptAround(b2.lines, b.lines, p, q, m) /\ KeptAround(b2.formats, b.formats, p, q, m)
  /\ KeptAround(b2.pageBreakBefore, b.pageBreakBefore, p, q, m)
  /\ KeptAround(b2.alignment, b.alignment, p, q, m)
  /\ KeptAround(b2.listLevel, b.listLevel, p, q, m)
  /\ FloatsKept(b2.anchors, b.anchors, Len(b.lines), p, q, m)

SameAt(b, r, b2, r2) ==
  /\ b2.lines[r2] = b.lines[r] /\ b2.formats[r2] = b.formats[r]
  /\ b2.pageBreakBefore[r2] = b.pageBreakBefore[r]
  /\ b2.alignment[r2] = b.alignment[r] /\ b2.listLevel[r2] = b.listLevel[r]
  /\ FloatsAt(b2.anchors, r2) = FloatsAt(b.anchors, r)

LEMMA SameParagraph ==
  ASSUME NEW b, Sound(b), NEW b2, Sound(b2), NEW r \in 1 .. Len(b.lines),
         NEW r2 \in 1 .. Len(b2.lines), SameAt(b, r, b2, r2)
  PROVE  ParagraphOf(b2, r2) = ParagraphOf(b, r)
<1>1. /\ ParagraphOf(b, r) \in ParagraphSet
      /\ ParagraphOf(b, r).cells = Zip(b.lines[r], b.formats[r])
      /\ ParagraphOf(b, r).break = b.pageBreakBefore[r]
      /\ ParagraphOf(b, r).align = b.alignment[r]
      /\ ParagraphOf(b, r).level = b.listLevel[r]
      /\ ParagraphOf(b, r).floats = FloatsAt(b.anchors, r)
  BY ParagraphFacts
<1>2. /\ ParagraphOf(b2, r2) \in ParagraphSet
      /\ ParagraphOf(b2, r2).cells = Zip(b2.lines[r2], b2.formats[r2])
      /\ ParagraphOf(b2, r2).break = b2.pageBreakBefore[r2]
      /\ ParagraphOf(b2, r2).align = b2.alignment[r2]
      /\ ParagraphOf(b2, r2).level = b2.listLevel[r2]
      /\ ParagraphOf(b2, r2).floats = FloatsAt(b2.anchors, r2)
  BY ParagraphFacts
<1>3. QED
  BY <1>1, <1>2, ParagraphEqual DEF SameAt

LEMMA KeptRewritten ==
  ASSUME NEW b, Sound(b), NEW b2, Sound(b2),
         NEW p \in 1 .. Len(b.lines), NEW q \in p .. Len(b.lines),
         NEW mid \in Seq(ParagraphSet), LayersKept(b, b2, p, q, Len(mid)),
         \A r \in 1 .. Len(mid) : ParagraphOf(b2, p - 1 + r) = mid[r]
  PROVE  Rewritten(b, b2, p, q, mid)
<1> DEFINE n == Len(b.lines)
           n2 == Len(b2.lines)
           m == Len(mid)
<1>1. n \in Nat /\ n2 \in Nat /\ m \in Nat
      /\ n2 = p - 1 + m + (n - q) /\ p \in 1 .. n /\ q \in p .. n
  BY SoundFacts, LenProperties DEF LayersKept
<1>2. /\ Len(b.formats) = n /\ Len(b.pageBreakBefore) = n
      /\ Len(b.alignment) = n /\ Len(b.listLevel) = n
  BY SoundFacts, PartFacts DEF Covers
<1>3. ASSUME NEW r \in 1 .. p - 1
      PROVE  ParagraphOf(b2, r) = ParagraphOf(b, r)
  <2>1. r \in 1 .. Len(b.lines) /\ r \in 1 .. Len(b2.lines)
    <3> HIDE DEF n, n2, m
    <3>1. r \in 1 .. n /\ r \in 1 .. n2
      BY <1>1
    <3>2. QED
      BY <3>1 DEF n, n2
  <2>2. SameAt(b, r, b2, r)
    BY DEF LayersKept, KeptAround, FloatsKept, SameAt
  <2>3. QED
    BY <2>1, <2>2, SameParagraph
<1>4. ASSUME NEW r \in q + 1 .. n
      PROVE  ParagraphOf(b2, r - q + (p - 1 + m)) = ParagraphOf(b, r)
  <2> DEFINE k == r - q + (p - 1 + m)
  <2>1. r \in 1 .. Len(b.lines) /\ k \in 1 .. Len(b2.lines)
    <3> HIDE DEF n, n2, m
    <3>1. r \in 1 .. n /\ k \in 1 .. n2
      BY <1>1
    <3>2. QED
      BY <3>1 DEF n, n2
  <2>2. SameAt(b, r, b2, k)
    BY <1>2 DEF LayersKept, KeptAround, FloatsKept, SameAt
  <2> HIDE DEF k
  <2>3. ParagraphOf(b2, k) = ParagraphOf(b, r)
    BY <2>1, <2>2, SameParagraph
  <2>4. QED
    BY <2>3 DEF k
<1>5. QED
  BY <1>1, <1>3, <1>4 DEF Rewritten

\* Of a vector, the elements p .. q give way to t.
LEMMA SpliceKept ==
  ASSUME NEW S, NEW s \in Seq(S), NEW t \in Seq(S),
         NEW p \in 1 .. Len(s), NEW q \in p .. Len(s)
  PROVE  /\ KeptAround(Splice(s, p - 1, q, t), s, p, q, Len(t))
         /\ Placed(Splice(s, p - 1, q, t), p - 1, t)
<1> DEFINE z == Splice(s, p - 1, q, t)
           j == p - 1
           m == Len(t)
           n == Len(s)
<1>1. n \in Nat /\ m \in Nat /\ j \in 0 .. n /\ q \in j .. n /\ j = p - 1
  BY LenProperties
<1>2. Spliced(z, s, j, q, t)
  <2> HIDE DEF j
  <2>1. Spliced(Splice(s, j, q, t), s, j, q, t)
    BY <1>1, SpliceSpliced
  <2>2. QED
    BY <2>1 DEF j
<1> HIDE DEF z, j, m, n
<1>3. /\ \A i \in 1 .. j : z[i] = s[i]
      /\ \A i \in j + 1 .. j + m : z[i] = t[i - j]
      /\ \A i \in j + m + 1 .. j + m + (n - q) : z[i] = s[i - j - m + q]
  BY <1>2 DEF Spliced, m, n
<1>4. ASSUME NEW r \in q + 1 .. n
      PROVE  z[r - q + (j + m)] = s[r]
  <2> DEFINE k == r - q + (j + m)
  <2>1. k \in j + m + 1 .. j + m + (n - q) /\ k - j - m + q = r
    BY <1>1
  <2> HIDE DEF k
  <2>2. z[k] = s[k - j - m + q]
    BY <1>3, <2>1
  <2>3. QED
    BY <2>1, <2>2 DEF k
<1>5. ASSUME NEW i \in 1 .. m
      PROVE  z[j + i] = t[i]
  <2> DEFINE k == j + i
  <2>1. k \in j + 1 .. j + m /\ k - j = i
    BY <1>1
  <2> HIDE DEF k
  <2>2. z[k] = t[k - j]
    BY <1>3, <2>1
  <2>3. QED
    BY <2>1, <2>2 DEF k
<1>6. KeptAround(z, s, p, q, m)
  BY <1>1, <1>3, <1>4 DEF KeptAround, n
<1>7. Placed(z, j, t)
  BY <1>5 DEF Placed, m
<1>8. QED
  BY <1>6, <1>7 DEF z, m, j

\* Of a vector, the elements below p up to q give way to t: p itself stays.
LEMMA SpliceKeptBelow ==
  ASSUME NEW S, NEW s \in Seq(S), NEW t \in Seq(S),
         NEW p \in 1 .. Len(s), NEW q \in p .. Len(s)
  PROVE  /\ KeptAround(Splice(s, p, q, t), s, p, q, Len(t) + 1)
         /\ Splice(s, p, q, t)[p] = s[p]
         /\ Placed(Splice(s, p, q, t), p, t)
<1> DEFINE z == Splice(s, p, q, t)
           m == Len(t)
           n == Len(s)
<1>1. n \in Nat /\ m \in Nat /\ p \in 0 .. n /\ q \in p .. n
      /\ p \in Nat /\ p >= 1
  BY LenProperties
<1>2. Spliced(z, s, p, q, t)
  BY <1>1, SpliceSpliced
<1> HIDE DEF z, m, n
<1>3. /\ \A i \in 1 .. p : z[i] = s[i]
      /\ \A i \in p + 1 .. p + m : z[i] = t[i - p]
      /\ \A i \in p + m + 1 .. p + m + (n - q) : z[i] = s[i - p - m + q]
  BY <1>2 DEF Spliced, m, n
<1>4. ASSUME NEW r \in q + 1 .. n
      PROVE  z[r - q + (p - 1 + (m + 1))] = s[r]
  <2> DEFINE k == r - q + (p - 1 + (m + 1))
  <2>1. k \in p + m + 1 .. p + m + (n - q) /\ k - p - m + q = r
    BY <1>1
  <2> HIDE DEF k
  <2>2. z[k] = s[k - p - m + q]
    BY <1>3, <2>1
  <2>3. QED
    BY <2>1, <2>2 DEF k
<1>5. ASSUME NEW i \in 1 .. m
      PROVE  z[p + i] = t[i]
  <2> DEFINE k == p + i
  <2>1. k \in p + 1 .. p + m /\ k - p = i
    BY <1>1
  <2> HIDE DEF k
  <2>2. z[k] = t[k - p]
    BY <1>3, <2>1
  <2>3. QED
    BY <2>1, <2>2 DEF k
<1>6. \A r \in 1 .. p - 1 : z[r] = s[r]
  BY <1>1, <1>3
<1>7. z[p] = s[p]
  BY <1>1, <1>3
<1>8. KeptAround(z, s, p, q, m + 1)
  BY <1>4, <1>6 DEF KeptAround, n
<1>9. Placed(z, p, t)
  BY <1>5 DEF Placed, m
<1>10. QED
  BY <1>7, <1>8, <1>9 DEF z, m

\* The floats of rows that are collapsed into one gather there.
LEMMA CollapseKept ==
  ASSUME NEW n \in Nat, NEW an \in Seq(Nat),
         \A i \in 1 .. Len(an) : an[i] \in 1 .. n,
         NEW r1 \in 1 .. n, NEW r2 \in r1 .. n
  PROVE  /\ FloatsKept(CollapseFloatAnchors(an, r1, r2), an, n, r1, r2, 1)
         /\ FloatsAt(CollapseFloatAnchors(an, r1, r2), r1)
              = FloatsBetween(an, r1, r2)
<1> DEFINE a2 == CollapseFloatAnchors(an, r1, r2)
<1>1. DOMAIN an = 1 .. Len(an) /\ DOMAIN a2 = DOMAIN an
  BY LenProperties DEF CollapseFloatAnchors
<1>2. ASSUME NEW i \in DOMAIN an
      PROVE  /\ an[i] \in 1 .. n
             /\ a2[i] = IF an[i] > r2 THEN an[i] - (r2 - r1)
                        ELSE IF an[i] > r1 THEN r1 ELSE an[i]
  BY <1>1 DEF CollapseFloatAnchors
<1> HIDE DEF a2
<1>3. ASSUME NEW r \in 1 .. r1 - 1
      PROVE  FloatsAt(a2, r) = FloatsAt(an, r)
  <2>1. \A i \in DOMAIN an : a2[i] = r <=> an[i] = r
    BY <1>2
  <2>2. QED
    BY <1>1, <2>1 DEF FloatsAt
<1>4. ASSUME NEW r \in r2 + 1 .. n
      PROVE  FloatsAt(a2, r - r2 + (r1 - 1 + 1)) = FloatsAt(an, r)
  <2> DEFINE k == r - r2 + (r1 - 1 + 1)
  <2>1. k = r - (r2 - r1) /\ k > r1
    OBVIOUS
  <2> HIDE DEF k
  <2>2. ASSUME NEW x \in 1 .. n
        PROVE  (IF x > r2 THEN x - (r2 - r1) ELSE IF x > r1 THEN r1 ELSE x) = k
                 <=> x = r
    BY <2>1
  <2>3. \A i \in DOMAIN an : a2[i] = k <=> an[i] = r
    BY <1>2, <2>2
  <2>4. FloatsAt(a2, k) = FloatsAt(an, r)
    BY <1>1, <2>3 DEF FloatsAt
  <2>5. QED
    BY <2>4 DEF k
<1>5. FloatsAt(a2, r1) = FloatsBetween(an, r1, r2)
  <2>1. \A i \in DOMAIN an : a2[i] = r1 <=> an[i] \in r1 .. r2
    BY <1>2
  <2>2. QED
    BY <1>1, <2>1 DEF FloatsAt, FloatsBetween
<1>6. QED
  BY <1>3, <1>4, <1>5 DEF FloatsKept, a2

\* The floats below a row move down with their rows; new rows have none.
Floatless(an, row, k) == \A i \in 1 .. k : FloatsAt(an, row + i) = 0

LEMMA ShiftKept ==
  ASSUME NEW n \in Nat, NEW an \in Seq(Nat),
         \A i \in 1 .. Len(an) : an[i] \in 1 .. n,
         NEW row \in 1 .. n, NEW k \in Nat
  PROVE  /\ FloatsKept(ShiftAnchorsAtOrAfter(an, row + 1, k), an, n, row, row, k + 1)
         /\ FloatsAt(ShiftAnchorsAtOrAfter(an, row + 1, k), row) = FloatsAt(an, row)
         /\ Floatless(ShiftAnchorsAtOrAfter(an, row + 1, k), row, k)
<1> DEFINE a2 == ShiftAnchorsAtOrAfter(an, row + 1, k)
<1>1. DOMAIN an = 1 .. Len(an) /\ DOMAIN a2 = DOMAIN an
  BY LenProperties DEF ShiftAnchorsAtOrAfter
<1>2. ASSUME NEW i \in DOMAIN an
      PROVE  /\ an[i] \in 1 .. n
             /\ a2[i] = IF an[i] >= row + 1 THEN an[i] + k ELSE an[i]
  BY <1>1 DEF ShiftAnchorsAtOrAfter
<1> HIDE DEF a2
<1>3. ASSUME NEW r \in 1 .. row
      PROVE  FloatsAt(a2, r) = FloatsAt(an, r)
  <2>1. \A i \in DOMAIN an : a2[i] = r <=> an[i] = r
    BY <1>2
  <2>2. QED
    BY <1>1, <2>1 DEF FloatsAt
<1>4. ASSUME NEW r \in row + 1 .. n
      PROVE  FloatsAt(a2, r - row + (row - 1 + (k + 1))) = FloatsAt(an, r)
  <2> DEFINE j == r - row + (row - 1 + (k + 1))
  <2>1. j = r + k
    OBVIOUS
  <2> HIDE DEF j
  <2>2. \A i \in DOMAIN an : a2[i] = j <=> an[i] = r
    BY <1>2, <2>1
  <2>3. FloatsAt(a2, j) = FloatsAt(an, r)
    BY <1>1, <2>2 DEF FloatsAt
  <2>4. QED
    BY <2>3 DEF j
<1>5. ASSUME NEW i \in 1 .. k
      PROVE  FloatsAt(a2, row + i) = 0
  <2>1. \A j \in DOMAIN an : a2[j] # row + i
    BY <1>2
  <2>2. {j \in DOMAIN a2 : a2[j] = row + i} = {}
    BY <1>1, <2>1
  <2>3. QED
    BY <2>2, FS_EmptySet DEF FloatsAt
<1>6. /\ \A r \in 1 .. row - 1 : FloatsAt(a2, r) = FloatsAt(an, r)
      /\ FloatsAt(a2, row) = FloatsAt(an, row)
  BY <1>3
<1>7. FloatsKept(a2, an, n, row, row, k + 1)
  BY <1>4, <1>6 DEF FloatsKept
<1>8. QED
  BY <1>5, <1>6, <1>7 DEF a2, Floatless

\* Of a vector of paragraph state, the rows below r1 up to r2 are erased.
LEMMA EraseKept ==
  ASSUME NEW S, NEW n \in Nat, NEW s \in Seq(S), Len(s) = n,
         NEW r1 \in 1 .. n, NEW r2 \in r1 + 1 .. n
  PROVE  /\ KeptAround(EraseRowsPresent(s, r1 + 1, r2), s, r1, r2, 1)
         /\ EraseRowsPresent(s, r1 + 1, r2)[r1] = s[r1]
<1>1. r2 <= Len(s) /\ r1 + 1 <= r2 /\ r1 + 1 - 1 = r1
  OBVIOUS
<1>2. EraseRowsPresent(s, r1 + 1, r2) = EraseRows(s, r1 + 1, r2)
  BY <1>1 DEF EraseRowsPresent
<1>3. EraseRowsPresent(s, r1 + 1, r2) = Splice(s, r1, r2, << >>)
  BY <1>1, <1>2 DEF EraseRows
<1>4. r1 \in 1 .. Len(s) /\ r2 \in r1 .. Len(s) /\ << >> \in Seq(S)
      /\ Len(<< >>) = 0
  OBVIOUS
<1> DEFINE t == << >>
<1> HIDE DEF t
<1>5. t \in Seq(S) /\ Len(t) = 0 /\ Len(t) + 1 = 1
  BY <1>4 DEF t
<1>6. /\ KeptAround(Splice(s, r1, r2, t), s, r1, r2, Len(t) + 1)
      /\ Splice(s, r1, r2, t)[r1] = s[r1]
  BY <1>4, <1>5, SpliceKeptBelow
<1>7. QED
  BY <1>3, <1>5, <1>6 DEF t

(***************************************************************************)
(* What lies between two places of different rows goes.                    *)
(***************************************************************************)
Joined(b, r1, c1, r2, c2) ==
  [lines |-> Splice(b.lines, r1 - 1, r2,
                    <<Take(b.lines[r1], c1) \o Drop(b.lines[r2], c2)>>),
   formats |-> Splice(b.formats, r1 - 1, r2,
                      <<Take(b.formats[r1], c1) \o Drop(b.formats[r2], c2)>>),
   pageBreakBefore |-> EraseRowsPresent(b.pageBreakBefore, r1 + 1, r2),
   alignment |-> EraseRowsPresent(b.alignment, r1 + 1, r2),
   listLevel |-> EraseRowsPresent(b.listLevel, r1 + 1, r2),
   anchors |-> CollapseFloatAnchors(b.anchors, r1, r2)]

\* The row that is left: what comes before the one place and after the other.
JoinedCells(b, r1, c1, r2, c2) ==
  SubSeq(ParagraphOf(b, r1).cells, 1, c1) \o << >>
    \o SubSeq(ParagraphOf(b, r2).cells, c2 + 1, Len(ParagraphOf(b, r2).cells))

JoinedLine(rows, r1, c1, r2, c2) == Take(rows[r1], c1) \o Drop(rows[r2], c2)

LEMMA JoinedRow ==
  ASSUME NEW b, Sound(b), Aligned(b), NEW r1 \in 1 .. Len(b.lines),
         NEW c1 \in 0 .. Len(b.lines[r1]), NEW r2 \in r1 + 1 .. Len(b.lines),
         NEW c2 \in 0 .. Len(b.lines[r2])
  PROVE  /\ JoinedLine(b.lines, r1, c1, r2, c2) \in Seq(Chars)
         /\ JoinedLine(b.formats, r1, c1, r2, c2) \in Seq(Formats)
         /\ Len(JoinedLine(b.formats, r1, c1, r2, c2))
              >= Len(JoinedLine(b.lines, r1, c1, r2, c2))
         /\ Zip(JoinedLine(b.lines, r1, c1, r2, c2),
                JoinedLine(b.formats, r1, c1, r2, c2))
              = JoinedCells(b, r1, c1, r2, c2)
<1> DEFINE l1 == b.lines[r1]
           f1 == b.formats[r1]
           l2 == b.lines[r2]
           f2 == b.formats[r2]
           z1 == Zip(l1, f1)
           z2 == Zip(l2, f2)
<1>1. r1 \in 1 .. Len(b.lines) /\ r2 \in 1 .. Len(b.lines)
  OBVIOUS
<1>2. /\ l1 \in Seq(Chars) /\ f1 \in Seq(Formats)
      /\ Len(l1) \in Nat /\ Len(f1) = Len(l1)
  BY <1>1, AlignedFacts
<1>3. /\ l2 \in Seq(Chars) /\ f2 \in Seq(Formats)
      /\ Len(l2) \in Nat /\ Len(f2) = Len(l2)
  BY <1>1, AlignedFacts
<1>4. ParagraphOf(b, r1).cells = z1 /\ ParagraphOf(b, r2).cells = z2
  BY <1>1, ParagraphFacts
<1>5. c1 \in 0 .. Len(l1) /\ c2 \in 0 .. Len(l2)
  OBVIOUS
<1> HIDE DEF l1, f1, l2, f2
<1>6. Len(f1) >= Len(l1) /\ Len(f2) >= Len(l2)
  BY <1>2, <1>3
<1> DEFINE xa == Take(l1, c1)
           ya == Take(f1, c1)
           xb == Drop(l2, c2)
           yb == Drop(f2, c2)
<1>7. /\ Zip(xa, ya) = Take(z1, c1)
      /\ xa \in Seq(Chars) /\ ya \in Seq(Formats) /\ Len(xa) = c1 /\ Len(ya) = c1
  BY <1>2, <1>5, <1>6, ZipTake
<1>8. /\ Zip(xb, yb) = Drop(z2, c2)
      /\ xb \in Seq(Chars) /\ yb \in Seq(Formats)
      /\ Len(xb) = Len(l2) - c2 /\ Len(yb) = Len(f2) - c2
  BY <1>3, <1>5, <1>6, ZipDrop
<1>9. /\ JoinedLine(b.lines, r1, c1, r2, c2) = xa \o xb
      /\ JoinedLine(b.formats, r1, c1, r2, c2) = ya \o yb
  BY DEF l1, f1, l2, f2, JoinedLine
<1> HIDE DEF xa, ya, xb, yb
<1>10. Len(ya) = Len(xa) /\ Len(yb) >= Len(xb)
  BY <1>3, <1>7, <1>8
<1>11. Zip(xa \o xb, ya \o yb) = Zip(xa, ya) \o Zip(xb, yb)
  BY <1>7, <1>8, <1>10, ZipJoin
<1>12. xa \o xb \in Seq(Chars) /\ ya \o yb \in Seq(Formats)
       /\ Len(ya \o yb) >= Len(xa \o xb)
  <2>1. Len(ya) >= Len(xa)
    BY <1>7
  <2>2. QED
    BY <1>7, <1>8, <1>10, <2>1, ConcatCover
<1>13. z1 \in Seq(CellSet) /\ c1 \in 0 .. Len(z1)
  BY <1>2, <1>5, <1>6, ZipFacts
<1> HIDE DEF z1, z2
<1>14. Take(z1, c1) \in Seq(CellSet)
  BY <1>13, TakeFacts
<1> DEFINE before == Take(z1, c1)
<1> HIDE DEF before
<1>15. before \o << >> = before
  BY <1>14, ConcatEmptySeq DEF before
<1>16. Zip(xa \o xb, ya \o yb) = before \o << >> \o Drop(z2, c2)
  BY <1>7, <1>8, <1>11, <1>15 DEF before
<1>17. QED
  BY <1>4, <1>9, <1>12, <1>16 DEF before, Take, Drop, JoinedCells

LEMMA JoinedText ==
  ASSUME NEW b, Sound(b), Aligned(b), NEW r1 \in 1 .. Len(b.lines),
         NEW c1 \in 0 .. Len(b.lines[r1]), NEW r2 \in r1 + 1 .. Len(b.lines),
         NEW c2 \in 0 .. Len(b.lines[r2])
  PROVE  TextOf(Joined(b, r1, c1, r2, c2))
           = Replaced(TextOf(b), r1, c1, r2, c2, << >>,
                      FloatsBetween(b.anchors, r1, r2))
<1> DEFINE n  == Len(b.lines)
           b2 == Joined(b, r1, c1, r2, c2)
           P  == ParagraphOf(b, r1)
<1>1. /\ Covers(b.lines, b.formats) /\ n \in Nat
      /\ r1 \in 1 .. n /\ r2 \in r1 + 1 .. n /\ r2 \in r1 .. n /\ r2 \in 1 .. n
  BY SoundFacts
<1> DEFINE x == JoinedLine(b.lines, r1, c1, r2, c2)
           y == JoinedLine(b.formats, r1, c1, r2, c2)
<1>4. /\ x \in Seq(Chars) /\ y \in Seq(Formats) /\ Len(y) >= Len(x)
      /\ Zip(x, y) = JoinedCells(b, r1, c1, r2, c2)
  BY JoinedRow
<1>5. /\ b.pageBreakBefore \in Seq(BOOLEAN) /\ Len(b.pageBreakBefore) = n
      /\ b.alignment \in Seq(Alignments \cup {"left"}) /\ Len(b.alignment) = n
      /\ b.listLevel \in Seq(Nat) /\ Len(b.listLevel) = n
      /\ b.anchors \in Seq(Nat)
      /\ \A i \in 1 .. Len(b.anchors) : b.anchors[i] \in 1 .. n
  BY PartFacts
<1>6. b2 = [lines |-> Splice(b.lines, r1 - 1, r2, <<x>>),
            formats |-> Splice(b.formats, r1 - 1, r2, <<y>>),
            pageBreakBefore |-> EraseRowsPresent(b.pageBreakBefore, r1 + 1, r2),
            alignment |-> EraseRowsPresent(b.alignment, r1 + 1, r2),
            listLevel |-> EraseRowsPresent(b.listLevel, r1 + 1, r2),
            anchors |-> CollapseFloatAnchors(b.anchors, r1, r2)]
  BY DEF Joined, JoinedLine
<1> HIDE DEF n, b2, P, x, y
<1>7. Len(b.lines) = n
  BY DEF n
<1>8. Sound(b2)
  <2> DEFINE ls == b.lines
             fs == b.formats
             pb == b.pageBreakBefore
             al == b.alignment
             ll == b.listLevel
             an == b.anchors
  <2> HIDE DEF ls, fs, pb, al, ll, an
  <2>1. /\ Covers(ls, fs) /\ Len(ls) = n
        /\ pb \in Seq(BOOLEAN) /\ Len(pb) = n
        /\ al \in Seq(Alignments \cup {"left"}) /\ Len(al) = n
        /\ ll \in Seq(Nat) /\ Len(ll) = n
        /\ an \in Seq(Nat) /\ \A i \in 1 .. Len(an) : an[i] \in 1 .. n
    BY <1>1, <1>5, <1>7 DEF ls, fs, pb, al, ll, an
  <2>2. Sound([lines |-> Splice(ls, r1 - 1, r2, <<x>>),
               formats |-> Splice(fs, r1 - 1, r2, <<y>>),
               pageBreakBefore |-> EraseRowsPresent(pb, r1 + 1, r2),
               alignment |-> EraseRowsPresent(al, r1 + 1, r2),
               listLevel |-> EraseRowsPresent(ll, r1 + 1, r2),
               anchors |-> CollapseFloatAnchors(an, r1, r2)])
    BY <1>1, <1>4, <2>1, ShrinkSound
  <2>3. QED
    BY <1>6, <2>2 DEF ls, fs, pb, al, ll, an
<1>9. /\ KeptAround(b2.lines, b.lines, r1, r2, 1) /\ b2.lines[r1] = x
      /\ KeptAround(b2.formats, b.formats, r1, r2, 1) /\ b2.formats[r1] = y
      /\ Len(b2.lines) = r1 - 1 + 1 + (n - r2)
  <2>1. ASSUME NEW S, NEW s \in Seq(S), Len(s) = n, NEW v \in S
        PROVE  /\ KeptAround(Splice(s, r1 - 1, r2, <<v>>), s, r1, r2, 1)
               /\ Splice(s, r1 - 1, r2, <<v>>)[r1] = v
               /\ Len(Splice(s, r1 - 1, r2, <<v>>)) = r1 - 1 + 1 + (n - r2)
    <3> DEFINE t == <<v>>
               j == r1 - 1
    <3>1. t \in Seq(S) /\ Len(t) = 1 /\ t[1] = v /\ 1 \in 1 .. Len(t)
      BY <2>1
    <3>0. j \in 0 .. Len(s) /\ r2 \in j .. Len(s)
      BY <1>1, <2>1
    <3> HIDE DEF t
    <3>2. r1 \in 1 .. Len(s) /\ r2 \in r1 .. Len(s)
      BY <1>1, <2>1
    <3>3. /\ KeptAround(Splice(s, r1 - 1, r2, t), s, r1, r2, Len(t))
          /\ Placed(Splice(s, r1 - 1, r2, t), r1 - 1, t)
      BY <3>1, <3>2, SpliceKept
    <3>4. r1 - 1 + 1 = r1
      BY <1>1
    <3>5. Splice(s, r1 - 1, r2, t)[r1] = v
      BY <3>1, <3>3, <3>4 DEF Placed
    <3>6. Len(Splice(s, j, r2, t)) = j + Len(t) + (Len(s) - r2)
      <4> HIDE DEF j
      <4>1. t \in Seq(S)
        BY <3>1
      <4>2. QED
        BY <3>0, <4>1, SpliceFacts
    <3>7. QED
      BY <2>1, <3>1, <3>3, <3>5, <3>6 DEF t
  <2>2. b.lines \in Seq(Seq(Chars)) /\ b.formats \in Seq(Seq(Formats))
        /\ Len(b.formats) = n
    BY <1>1, <1>7 DEF Covers
  <2>3. /\ KeptAround(b2.lines, b.lines, r1, r2, 1) /\ b2.lines[r1] = x
        /\ Len(b2.lines) = r1 - 1 + 1 + (n - r2)
    BY <1>4, <1>6, <1>7, <2>1, <2>2
  <2>4. /\ KeptAround(b2.formats, b.formats, r1, r2, 1) /\ b2.formats[r1] = y
    BY <1>4, <1>6, <2>1, <2>2
  <2>5. QED
    BY <2>3, <2>4
<1>10. /\ KeptAround(b2.pageBreakBefore, b.pageBreakBefore, r1, r2, 1)
       /\ b2.pageBreakBefore[r1] = b.pageBreakBefore[r1]
       /\ KeptAround(b2.alignment, b.alignment, r1, r2, 1)
       /\ b2.alignment[r1] = b.alignment[r1]
       /\ KeptAround(b2.listLevel, b.listLevel, r1, r2, 1)
       /\ b2.listLevel[r1] = b.listLevel[r1]
  <2>1. ASSUME NEW S, NEW s \in Seq(S), Len(s) = n
        PROVE  /\ KeptAround(EraseRowsPresent(s, r1 + 1, r2), s, r1, r2, 1)
               /\ EraseRowsPresent(s, r1 + 1, r2)[r1] = s[r1]
    BY <1>1, <2>1, EraseKept
  <2>2. /\ KeptAround(b2.pageBreakBefore, b.pageBreakBefore, r1, r2, 1)
        /\ b2.pageBreakBefore[r1] = b.pageBreakBefore[r1]
    BY <1>5, <1>6, <2>1
  <2>3. /\ KeptAround(b2.alignment, b.alignment, r1, r2, 1)
        /\ b2.alignment[r1] = b.alignment[r1]
    BY <1>5, <1>6, <2>1
  <2>4. /\ KeptAround(b2.listLevel, b.listLevel, r1, r2, 1)
        /\ b2.listLevel[r1] = b.listLevel[r1]
    BY <1>5, <1>6, <2>1
  <2>5. QED
    BY <2>2, <2>3, <2>4
<1>11. /\ FloatsKept(b2.anchors, b.anchors, n, r1, r2, 1)
       /\ FloatsAt(b2.anchors, r1) = FloatsBetween(b.anchors, r1, r2)
  BY <1>1, <1>5, <1>6, CollapseKept
<1>12. LayersKept(b, b2, r1, r2, 1)
  BY <1>7, <1>9, <1>10, <1>11 DEF LayersKept
<1> DEFINE Q == [P EXCEPT !.cells = Zip(x, y),
                          !.floats = FloatsBetween(b.anchors, r1, r2)]
<1>13. ParagraphOf(b2, r1) = Q /\ Q \in ParagraphSet
  <2>1. /\ P \in ParagraphSet
        /\ P.break = b.pageBreakBefore[r1]
        /\ P.align = b.alignment[r1]
        /\ P.level = b.listLevel[r1]
    BY ParagraphFacts DEF P
  <2>2. r1 \in 1 .. Len(b2.lines)
    BY <1>1, <1>9
  <2>3. /\ ParagraphOf(b2, r1) \in ParagraphSet
        /\ ParagraphOf(b2, r1).cells = Zip(b2.lines[r1], b2.formats[r1])
        /\ ParagraphOf(b2, r1).break = b2.pageBreakBefore[r1]
        /\ ParagraphOf(b2, r1).align = b2.alignment[r1]
        /\ ParagraphOf(b2, r1).level = b2.listLevel[r1]
        /\ ParagraphOf(b2, r1).floats = FloatsAt(b2.anchors, r1)
    BY <1>8, <2>2, ParagraphFacts
  <2>4. /\ Q \in ParagraphSet /\ Q.cells = Zip(x, y)
        /\ Q.break = P.break /\ Q.align = P.align /\ Q.level = P.level
        /\ Q.floats = FloatsBetween(b.anchors, r1, r2)
    <3>1. Zip(x, y) \in Seq(CellSet)
      BY <1>4, ZipFacts
    <3>2. FloatsBetween(b.anchors, r1, r2) \in Nat
      BY <1>5, FloatsFinite DEF FloatsBetween
    <3>3. QED
      BY <2>1, <3>1, <3>2 DEF ParagraphSet
  <2> HIDE DEF Q
  <2>5. ParagraphOf(b2, r1) = Q
    BY <1>9, <1>10, <1>11, <2>1, <2>3, <2>4, ParagraphEqual
  <2>6. QED
    BY <2>4, <2>5
<1> HIDE DEF Q
<1>14. TextOf(b2) = Splice(TextOf(b), r1 - 1, r2, <<Q>>)
  <2> DEFINE mid == <<Q>>
  <2>1. mid \in Seq(ParagraphSet) /\ Len(mid) = 1 /\ mid[1] = Q
    BY <1>13
  <2> HIDE DEF mid
  <2>2. \A r \in 1 .. Len(mid) : ParagraphOf(b2, r1 - 1 + r) = mid[r]
    <3>1. r1 - 1 + 1 = r1 /\ \A r \in 1 .. Len(mid) : r = 1
      BY <1>1, <2>1
    <3>2. QED
      BY <1>13, <2>1, <3>1
  <2>3. LayersKept(b, b2, r1, r2, Len(mid)) /\ r2 \in r1 .. Len(b.lines)
    BY <1>1, <1>7, <1>12, <2>1
  <2>4. Rewritten(b, b2, r1, r2, mid)
    BY <1>8, <2>1, <2>2, <2>3, KeptRewritten
  <2>5. TextOf(b2) = Splice(TextOf(b), r1 - 1, r2, mid)
    BY <1>8, <2>1, <2>3, <2>4, TextSpliced
  <2>6. QED
    BY <2>5 DEF mid
<1>15. TextOf(b)[r1] = P /\ TextOf(b)[r2] = ParagraphOf(b, r2)
  BY <1>1, <1>7, TextFacts DEF P
<1>16. Replaced(TextOf(b), r1, c1, r2, c2, << >>, FloatsBetween(b.anchors, r1, r2))
         = Splice(TextOf(b), r1 - 1, r2, <<Q>>)
  BY <1>4, <1>15 DEF Replaced, Splice, Take, Drop, Q, P, JoinedCells
<1>17. QED
  BY <1>14, <1>16 DEF b2

LEMMA TakeAll ==
  ASSUME NEW S, NEW s \in Seq(S)
  PROVE  Take(s, Len(s)) = s
<1> DEFINE n == Len(s)
           t == Take(s, n)
<1>1. n \in Nat /\ n \in 0 .. Len(s) /\ n = Len(s)
  BY LenProperties
<1> HIDE DEF n
<1>2. t \in Seq(S) /\ Len(t) = n /\ \A i \in 1 .. n : t[i] = s[i]
  BY <1>1, TakeFacts
<1> HIDE DEF t
<1>3. t = s
  BY <1>1, <1>2, SeqEqual
<1>4. QED
  BY <1>3 DEF t, n

LEMMA DropNone ==
  ASSUME NEW S, NEW s \in Seq(S)
  PROVE  Drop(s, 0) = s
<1> DEFINE t == Drop(s, 0)
<1>1. Len(s) \in Nat /\ 0 \in 0 .. Len(s)
  BY LenProperties
<1>2. PICK z \in 0 .. Len(s) : z = 0
  BY <1>1
<1>3. /\ Drop(s, z) \in Seq(S) /\ Len(Drop(s, z)) = Len(s) - z
      /\ \A i \in 1 .. Len(s) - z : Drop(s, z)[i] = s[z + i]
  BY DropFacts
<1>4. /\ t \in Seq(S) /\ Len(t) = Len(s)
      /\ \A i \in 1 .. Len(s) : t[i] = s[i]
  BY <1>1, <1>2, <1>3
<1> HIDE DEF t
<1>5. t = s
  BY <1>4, SeqEqual
<1>6. QED
  BY <1>5 DEF t

\* A part of one row goes.
LEMMA CutRow ==
  ASSUME NEW b, Sound(b), NEW row \in 1 .. Len(b.lines),
         NEW c \in 0 .. Len(b.lines[row]), NEW d \in c .. Len(b.lines[row])
  PROVE  TextOf(WithRow(b, b.formats, row, Splice(b.lines[row], c, d, << >>),
                        Splice(b.formats[row], c, d, << >>)))
           = Replaced(TextOf(b), row, c, row, d, << >>,
                      FloatsBetween(b.anchors, row, row))
<1>1. PICK t : t = << >>
  OBVIOUS
<1>2. t \in Seq(Chars) /\ t \in Seq(Formats) /\ Len(t) = Len(t)
  BY <1>1
<1>3. Zip(t, t) = t
  BY <1>1 DEF Zip
<1>4. TextOf(WithRow(b, b.formats, row, Splice(b.lines[row], c, d, t),
                     Splice(b.formats[row], c, d, t)))
        = Replaced(TextOf(b), row, c, row, d, Zip(t, t),
                   FloatsBetween(b.anchors, row, row))
  BY <1>2, NotPadded, RowReplaced
<1>5. QED
  BY <1>1, <1>3, <1>4

\* A row joined to the one above loses what lies between them: nothing.
LEMMA JoinedAbove ==
  ASSUME NEW b, Sound(b), Aligned(b), NEW p \in 1 .. Len(b.lines),
         NEW r \in p + 1 .. Len(b.lines), r = p + 1
  PROVE  WithoutRow([b EXCEPT !.lines = JoinRows(b.lines, r),
                              !.formats = JoinRows(b.formats, r)], r)
           = Joined(b, p, Len(b.lines[p]), r, 0)
<1> DEFINE n  == Len(b.lines)
           l1 == b.lines[p]
           l2 == b.lines[r]
           f1 == b.formats[p]
           f2 == b.formats[r]
<1>1. n \in Nat /\ r \in 1 .. n /\ p \in 1 .. n
      /\ r - 1 = p /\ r - 2 = p - 1 /\ r \in Nat
  BY SoundFacts
<1>2. /\ l1 \in Seq(Chars) /\ f1 \in Seq(Formats)
      /\ Len(l1) \in Nat /\ Len(f1) = Len(l1)
  BY <1>1, AlignedFacts
<1>3. l2 \in Seq(Chars) /\ f2 \in Seq(Formats)
  BY <1>1, AlignedFacts
<1>4. ASSUME NEW S, NEW s \in Seq(S), NEW t \in Seq(S)
      PROVE  Take(s, Len(s)) \o Drop(t, 0) = s \o t
  <2>1. Take(s, Len(s)) = s /\ Drop(t, 0) = t
    BY TakeAll, DropNone
  <2>2. QED
    BY <2>1
<1>5. /\ JoinRows(b.lines, r) = Splice(b.lines, p - 1, r, <<l1 \o l2>>)
      /\ JoinRows(b.formats, r) = Splice(b.formats, p - 1, r, <<f1 \o f2>>)
  BY <1>1 DEF JoinRows
<1>6. /\ Take(l1, Len(l1)) \o Drop(l2, 0) = l1 \o l2
      /\ Take(f1, Len(l1)) \o Drop(f2, 0) = f1 \o f2
  <2>1. Take(l1, Len(l1)) \o Drop(l2, 0) = l1 \o l2
    BY <1>2, <1>3, <1>4
  <2>2. Take(f1, Len(f1)) \o Drop(f2, 0) = f1 \o f2
    BY <1>2, <1>3, <1>4
  <2>3. QED
    BY <1>2, <2>1, <2>2
<1>7. ASSUME NEW S, NEW s \in Seq(S), Len(s) = n
      PROVE  EraseIfPresent(s, r) = EraseRowsPresent(s, p + 1, r)
  <2>1. r \in DOMAIN s /\ r <= Len(s) /\ p + 1 = r
    BY <1>1, <1>7, LenProperties
  <2>2. EraseIfPresent(s, r) = EraseRows(s, r, r)
    BY <2>1 DEF EraseIfPresent
  <2>3. EraseRowsPresent(s, r, r) = EraseRows(s, r, r)
    BY <1>1, <2>1 DEF EraseRowsPresent
  <2>4. QED
    BY <2>1, <2>2, <2>3
<1>8. /\ EraseIfPresent(b.pageBreakBefore, r)
           = EraseRowsPresent(b.pageBreakBefore, p + 1, r)
      /\ EraseIfPresent(b.alignment, r) = EraseRowsPresent(b.alignment, p + 1, r)
      /\ EraseIfPresent(b.listLevel, r) = EraseRowsPresent(b.listLevel, p + 1, r)
  BY <1>7, PartFacts
<1>9. MergeFloatAnchors(b.anchors, r, p) = CollapseFloatAnchors(b.anchors, p, r)
  <2> DEFINE an == b.anchors
  <2>1. an \in Seq(Nat) /\ DOMAIN an = 1 .. Len(an)
    BY PartFacts, LenProperties
  <2>2. \A i \in DOMAIN an : an[i] \in Nat
    BY <2>1, ElementOfSeq
  <2> HIDE DEF an
  <2>3. ASSUME NEW k \in Nat
        PROVE  (IF k = r THEN p ELSE IF k > r THEN k - 1 ELSE k)
                 = (IF k > r THEN k - (r - p) ELSE IF k > p THEN p ELSE k)
    BY <1>1
  <2>4. MergeFloatAnchors(an, r, p) = CollapseFloatAnchors(an, p, r)
    BY <2>2, <2>3 DEF MergeFloatAnchors, CollapseFloatAnchors
  <2>5. QED
    BY <2>4 DEF an
<1> DEFINE ls == JoinRows(b.lines, r)
           fs == JoinRows(b.formats, r)
           pb == EraseIfPresent(b.pageBreakBefore, r)
           al == EraseIfPresent(b.alignment, r)
           ll == EraseIfPresent(b.listLevel, r)
           an == MergeFloatAnchors(b.anchors, r, p)
           c  == [b EXCEPT !.lines = ls, !.formats = fs]
<1> HIDE DEF ls, fs, n
<1>10. /\ c.pageBreakBefore = b.pageBreakBefore /\ c.alignment = b.alignment
       /\ c.listLevel = b.listLevel /\ c.anchors = b.anchors
  BY DEF Sound, BufferType
<1>11. WithoutRow(c, r)
         = [c EXCEPT !.pageBreakBefore = pb, !.alignment = al,
                     !.listLevel = ll, !.anchors = an]
  <2> HIDE DEF c
  <2>1. QED
    BY <1>1, <1>10 DEF WithoutRow
<1> HIDE DEF pb, al, ll, an
<1>12. [c EXCEPT !.pageBreakBefore = pb, !.alignment = al,
                 !.listLevel = ll, !.anchors = an]
         = [lines |-> ls, formats |-> fs, pageBreakBefore |-> pb,
            alignment |-> al, listLevel |-> ll, anchors |-> an]
  <2> DEFINE w == WithoutRow(c, r)
  <2>1. w \in BufferType
    <3>1. Sound(WithoutRow([b EXCEPT !.lines = JoinRows(b.lines, r),
                                     !.formats = JoinRows(b.formats, r)], r))
      <4>1. r \in 2 .. Len(b.lines)
        BY SoundFacts
      <4>2. QED
        BY <4>1, WithoutRowSound
    <3>2. QED
      BY <3>1 DEF Sound, ls, fs
  <2>2. /\ w.lines = ls /\ w.formats = fs /\ w.pageBreakBefore = pb
        /\ w.alignment = al /\ w.listLevel = ll /\ w.anchors = an
    <3>1. w = [c EXCEPT !.pageBreakBefore = pb, !.alignment = al,
                        !.listLevel = ll, !.anchors = an]
      BY <1>11
    <3>2. /\ c.lines = ls /\ c.formats = fs
          /\ DOMAIN c = {"lines", "formats", "pageBreakBefore", "alignment",
                         "listLevel", "anchors"}
      BY DEF Sound, BufferType
    <3> HIDE DEF c, w
    <3>3. QED
      BY <3>1, <3>2
  <2> HIDE DEF w
  <2>3. w = [lines |-> w.lines, formats |-> w.formats,
             pageBreakBefore |-> w.pageBreakBefore, alignment |-> w.alignment,
             listLevel |-> w.listLevel, anchors |-> w.anchors]
    BY <2>1 DEF BufferType
  <2>4. QED
    BY <1>11, <2>2, <2>3 DEF w
<1>13. Joined(b, p, Len(l1), r, 0)
         = [lines |-> ls, formats |-> fs, pageBreakBefore |-> pb,
            alignment |-> al, listLevel |-> ll, anchors |-> an]
  BY <1>5, <1>6, <1>8, <1>9 DEF Joined, ls, fs, pb, al, ll, an
<1>14. QED
  BY <1>11, <1>12, <1>13 DEF ls, fs

(***************************************************************************)
(* Every way to take text away is a cut between two places.                *)
(***************************************************************************)
CutText(b, b2, p, c, q, d) ==
  TextOf(b2) = Replaced(TextOf(b), p, c, q, d, << >>,
                        FloatsBetween(b.anchors, p, q))

LEMMA DeleteRangeCuts ==
  ASSUME NEW b, Sound(b), Aligned(b), NEW r1 \in 1 .. Len(b.lines),
         NEW c1 \in 0 .. Len(b.lines[r1]), NEW r2 \in r1 .. Len(b.lines),
         NEW c2 \in 0 .. Len(b.lines[r2]), r1 < r2 \/ c1 < c2
  PROVE  CutText(b, DeleteRange(b, r1, c1, r2, c2), r1, c1, r2, c2)
<1> DEFINE ls == b.lines
           n  == Len(ls)
           fs == EnsureLineFormatSize(EnsureLineFormatSize(b.formats, r1, c1), r2, c2)
           l2 == DeleteRangeText(ls, r1, c1, r2, c2)
<1>1. /\ DOMAIN ls = 1 .. n /\ n \in Nat
      /\ r1 \in 1 .. n /\ r2 \in 1 .. n /\ r1 <= r2
  BY SoundFacts
<1>2. Len(ls[r1]) \in Nat /\ Len(ls[r2]) \in Nat
  <2>1. Len(ls[r1]) \in Nat
    BY <1>1, AlignedFacts
  <2>2. Len(ls[r2]) \in Nat
    BY <1>1, AlignedFacts
  <2>3. QED
    BY <2>1, <2>2
<1>3. /\ Clamp(r1, 1, n) = r1 /\ Clamp(r2, 1, n) = r2
      /\ Clamp(c1, 0, Len(ls[r1])) = c1 /\ Clamp(c2, 0, Len(ls[r2])) = c2
      /\ c1 \in Nat /\ c2 \in Nat
  BY <1>1, <1>2 DEF Clamp
<1>4. fs = b.formats
  <2>1. EnsureLineFormatSize(b.formats, r1, c1) = b.formats
    BY <1>1, AlignedFacts
  <2>2. EnsureLineFormatSize(b.formats, r2, c2) = b.formats
    BY <1>1, AlignedFacts
  <2>3. QED
    BY <2>1, <2>2
<1>5. DeleteRange(b, r1, c1, r2, c2)
        = IF r1 = r2
          THEN [b EXCEPT !.lines = l2,
                         !.formats = [fs EXCEPT ![r1] = Splice(fs[r1], c1, c2, << >>)]]
          ELSE [lines |-> l2,
                formats |-> Splice(fs, r1 - 1, r2,
                                   <<Take(fs[r1], c1) \o Drop(fs[r2], c2)>>),
                pageBreakBefore |-> EraseRowsPresent(b.pageBreakBefore, r1 + 1, r2),
                alignment |-> EraseRowsPresent(b.alignment, r1 + 1, r2),
                listLevel |-> EraseRowsPresent(b.listLevel, r1 + 1, r2),
                anchors |-> CollapseFloatAnchors(b.anchors, r1, r2)]
  BY <1>3 DEF DeleteRange
<1>6. l2 = IF r1 = r2
           THEN [ls EXCEPT ![r1] = Splice(ls[r1], c1, c2, << >>)]
           ELSE Splice(ls, r1 - 1, r2, <<Take(ls[r1], c1) \o Drop(ls[r2], c2)>>)
  BY <1>3 DEF DeleteRangeText
<1> HIDE DEF fs, l2
<1>7. CASE r1 = r2
  <2>1. c2 \in c1 .. Len(b.lines[r1])
    BY <1>2, <1>3, <1>7
  <2>2. DeleteRange(b, r1, c1, r2, c2)
          = WithRow(b, b.formats, r1, Splice(b.lines[r1], c1, c2, << >>),
                    Splice(b.formats[r1], c1, c2, << >>))
    BY <1>4, <1>5, <1>6, <1>7 DEF WithRow
  <2>3. CutText(b, DeleteRange(b, r1, c1, r2, c2), r1, c1, r1, c2)
    BY <2>1, <2>2, CutRow DEF CutText
  <2>4. QED
    BY <1>7, <2>3
<1>8. CASE r1 # r2
  <2>1. r2 \in r1 + 1 .. Len(b.lines)
    BY <1>1, <1>8
  <2>2. DeleteRange(b, r1, c1, r2, c2) = Joined(b, r1, c1, r2, c2)
    BY <1>4, <1>5, <1>6, <1>8 DEF Joined
  <2>3. QED
    BY <2>1, <2>2, JoinedText DEF CutText
<1>9. QED
  BY <1>7, <1>8

LEMMA BackspaceCuts ==
  ASSUME NEW b, Sound(b), Aligned(b), NEW row \in 1 .. Len(b.lines),
         NEW col \in 0 .. Len(b.lines[row])
  PROVE  \/ Backspace(b, col, row) = b
         \/ /\ col > 0
            /\ CutText(b, Backspace(b, col, row), row, col - 1, row, col)
         \/ /\ row > 1
            /\ CutText(b, Backspace(b, col, row),
                       row - 1, Len(b.lines[row - 1]), row, 0)
<1>1. /\ DOMAIN b.lines = 1 .. Len(b.lines) /\ Len(b.lines) \in Nat
      /\ DOMAIN b.formats = 1 .. Len(b.lines) /\ row \in Nat
  BY SoundFacts
<1>2. Len(b.lines[row]) \in Nat
  BY AlignedFacts
<1>3. CASE col > 0
  <2>1. col \in 1 .. Len(b.lines[row]) /\ Clamp(col, 1, Len(b.lines[row])) = col
    BY <1>2, <1>3 DEF Clamp
  <2> DEFINE k == col - 1
             x == Splice(b.lines[row], k, col, << >>)
             y == Splice(b.formats[row], k, col, << >>)
             c == Clamp(col, 1, Len(b.lines[row]))
  <2>2. k \in 0 .. Len(b.lines[row]) /\ col \in k .. Len(b.lines[row])
    BY <1>2, <2>1
  <2>3. col <= Len(b.formats[row])
    BY <2>1, AlignedFacts
  <2>4. BackspaceText(b.lines, col, row) = [b.lines EXCEPT ![row] = x]
    BY <1>1, <1>3, <2>1 DEF BackspaceText
  <2>5. Backspace(b, col, row)
          = [b EXCEPT !.lines = BackspaceText(b.lines, c, row),
                      !.formats[row] =
                        IF c <= Len(@) THEN Splice(@, c - 1, c, << >>) ELSE @]
    BY <1>1, <1>3 DEF Backspace
  <2>6. c = col
    BY <2>1
  <2> HIDE DEF c
  <2>7. Backspace(b, col, row) = WithRow(b, b.formats, row, x, y)
    BY <2>3, <2>4, <2>5, <2>6 DEF WithRow
  <2> HIDE DEF k
  <2>8. CutText(b, Backspace(b, col, row), row, k, row, col)
    BY <2>2, <2>7, CutRow DEF CutText
  <2>9. QED
    BY <1>3, <2>8 DEF k
<1>4. CASE ~(col > 0) /\ row > 1
  <2> DEFINE p == row - 1
  <2>1. p \in 1 .. Len(b.lines) /\ row \in p + 1 .. Len(b.lines) /\ row = p + 1
    BY <1>1, <1>4
  <2>2. BackspaceText(b.lines, col, row) = JoinRows(b.lines, row)
    BY <1>1, <1>4 DEF BackspaceText
  <2>3. Backspace(b, col, row)
          = WithoutRow([b EXCEPT !.lines = JoinRows(b.lines, row),
                                 !.formats = JoinRows(b.formats, row)], row)
    BY <1>1, <1>4, <2>2 DEF Backspace
  <2> HIDE DEF p
  <2>4. Backspace(b, col, row) = Joined(b, p, Len(b.lines[p]), row, 0)
    BY <2>1, <2>3, JoinedAbove
  <2>5. Len(b.lines[p]) \in 0 .. Len(b.lines[p]) /\ 0 \in 0 .. Len(b.lines[row])
    <3>1. Len(b.lines[p]) \in Nat
      BY <2>1, AlignedFacts
    <3>2. QED
      BY <1>2, <3>1
  <2>6. TextOf(Joined(b, p, Len(b.lines[p]), row, 0))
          = Replaced(TextOf(b), p, Len(b.lines[p]), row, 0, << >>,
                     FloatsBetween(b.anchors, p, row))
    BY <2>1, <2>5, JoinedText
  <2>7. CutText(b, Backspace(b, col, row), p, Len(b.lines[p]), row, 0)
    BY <2>4, <2>6 DEF CutText
  <2>8. QED
    BY <1>4, <2>7 DEF p
<1>5. CASE ~(col > 0) /\ ~(row > 1)
  BY <1>1, <1>5 DEF Backspace
<1>6. QED
  BY <1>3, <1>4, <1>5

LEMMA DeleteForwardCuts ==
  ASSUME NEW b, Sound(b), Aligned(b), NEW row \in 1 .. Len(b.lines),
         NEW col \in 0 .. Len(b.lines[row])
  PROVE  \/ DeleteForward(b, col, row) = b
         \/ /\ col < Len(b.lines[row])
            /\ CutText(b, DeleteForward(b, col, row), row, col, row, col + 1)
         \/ /\ row < Len(b.lines)
            /\ CutText(b, DeleteForward(b, col, row),
                       row, Len(b.lines[row]), row + 1, 0)
<1>1. /\ DOMAIN b.lines = 1 .. Len(b.lines) /\ Len(b.lines) \in Nat
      /\ DOMAIN b.formats = 1 .. Len(b.lines) /\ row \in Nat
  BY SoundFacts
<1>2. Len(b.lines[row]) \in Nat
  BY AlignedFacts
<1>3. CASE col < Len(b.lines[row])
  <2> DEFINE k == col + 1
             x == Splice(b.lines[row], col, k, << >>)
             y == Splice(b.formats[row], col, k, << >>)
  <2>1. k \in col .. Len(b.lines[row])
    BY <1>2, <1>3
  <2>2. DeleteForwardText(b.lines, col, row) = [b.lines EXCEPT ![row] = x]
    BY <1>1, <1>3 DEF DeleteForwardText
  <2>3. col < Len(b.formats[row])
    BY <1>3, AlignedFacts
  <2>4. DeleteForward(b, col, row)
          = [b EXCEPT !.lines = DeleteForwardText(b.lines, col, row),
                      !.formats[row] =
                        IF col < Len(@) THEN Splice(@, col, col + 1, << >>) ELSE @]
    BY <1>1, <1>3 DEF DeleteForward
  <2>5. DeleteForward(b, col, row) = WithRow(b, b.formats, row, x, y)
    BY <2>2, <2>3, <2>4 DEF WithRow
  <2> HIDE DEF k
  <2>6. CutText(b, DeleteForward(b, col, row), row, col, row, k)
    BY <2>1, <2>5, CutRow DEF CutText
  <2>7. QED
    BY <1>3, <2>6 DEF k
<1>4. CASE ~(col < Len(b.lines[row])) /\ row < Len(b.lines)
  <2> DEFINE r == row + 1
  <2>1. r \in row + 1 .. Len(b.lines) /\ r = row + 1
    BY <1>1, <1>4
  <2>2. DeleteForwardText(b.lines, col, row) = JoinRows(b.lines, r)
    BY <1>1, <1>4 DEF DeleteForwardText
  <2>3. DeleteForward(b, col, row)
          = WithoutRow([b EXCEPT !.lines = JoinRows(b.lines, r),
                                 !.formats = JoinRows(b.formats, r)], r)
    BY <1>1, <1>4, <2>2 DEF DeleteForward
  <2> HIDE DEF r
  <2>4. DeleteForward(b, col, row) = Joined(b, row, Len(b.lines[row]), r, 0)
    BY <2>1, <2>3, JoinedAbove
  <2>5. Len(b.lines[row]) \in 0 .. Len(b.lines[row]) /\ 0 \in 0 .. Len(b.lines[r])
    <3>1. r \in 1 .. Len(b.lines)
      BY <1>1, <2>1
    <3>2. Len(b.lines[r]) \in Nat
      BY <3>1, AlignedFacts
    <3>3. QED
      BY <1>2, <3>2
  <2>6. TextOf(Joined(b, row, Len(b.lines[row]), r, 0))
          = Replaced(TextOf(b), row, Len(b.lines[row]), r, 0, << >>,
                     FloatsBetween(b.anchors, row, r))
    BY <2>1, <2>5, JoinedText
  <2>7. CutText(b, DeleteForward(b, col, row), row, Len(b.lines[row]), r, 0)
    BY <2>4, <2>6 DEF CutText
  <2>8. QED
    BY <1>4, <2>7 DEF r
<1>5. CASE ~(col < Len(b.lines[row])) /\ ~(row < Len(b.lines))
  BY <1>1, <1>5 DEF DeleteForward
<1>6. QED
  BY <1>3, <1>4, <1>5

(***************************************************************************)
(* A row gives way to the rows t under the formats u; the rows after the   *)
(* first have its alignment and list level, no page break and no float.    *)
(***************************************************************************)
GrownParagraph(P, t, u, i) ==
  [P EXCEPT !.cells = Zip(t[i], u[i]), !.break = (i = 1) /\ P.break,
            !.floats = IF i = 1 THEN P.floats ELSE 0]

Grows(b, b2, fs, row, t, u) ==
  /\ b2.lines = Splice(b.lines, row - 1, row, t)
  /\ b2.formats = Splice(fs, row - 1, row, u)
  /\ b2.pageBreakBefore
       = Splice(b.pageBreakBefore, row, row, Fill(Len(t) - 1, FALSE))
  /\ b2.alignment
       = Splice(b.alignment, row, row, Fill(Len(t) - 1, b.alignment[row]))
  /\ b2.listLevel
       = Splice(b.listLevel, row, row, Fill(Len(t) - 1, b.listLevel[row]))
  /\ b2.anchors = ShiftAnchorsAtOrAfter(b.anchors, row + 1, Len(t) - 1)

\* A row of a vector gives way to others.
LEMMA RowGivesWay ==
  ASSUME NEW S, NEW s \in Seq(S), NEW v \in Seq(S), NEW row \in 1 .. Len(s)
  PROVE  /\ KeptAround(Splice(s, row - 1, row, v), s, row, row, Len(v))
         /\ Placed(Splice(s, row - 1, row, v), row - 1, v)
         /\ Len(Splice(s, row - 1, row, v)) = row - 1 + Len(v) + (Len(s) - row)
<1>1. Len(s) \in Nat /\ row \in row .. Len(s)
  BY LenProperties
<1>2. PICK q \in row .. Len(s) : q = row
  BY <1>1
<1>3. /\ KeptAround(Splice(s, row - 1, q, v), s, row, q, Len(v))
      /\ Placed(Splice(s, row - 1, q, v), row - 1, v)
  BY SpliceKept
<1> DEFINE j == row - 1
<1>4. j \in 0 .. Len(s) /\ q \in j .. Len(s)
  BY <1>1, <1>2
<1> HIDE DEF j
<1>5. Len(Splice(s, j, q, v)) = j + Len(v) + (Len(s) - q)
  BY <1>4, SpliceFacts
<1>6. QED
  BY <1>2, <1>3, <1>5 DEF j

\* A row of a vector is followed by copies of a value.
Followed(s2, s, row, m, x) ==
  /\ KeptAround(s2, s, row, row, m) /\ s2[row] = s[row]
  /\ \A i \in 2 .. m : s2[row - 1 + i] = x

LEMMA RowFollowed ==
  ASSUME NEW S, NEW s \in Seq(S), NEW x \in S, NEW row \in 1 .. Len(s),
         NEW m \in Nat, m - 1 \in Nat
  PROVE  Followed(Splice(s, row, row, Fill(m - 1, x)), s, row, m, x)
<1> DEFINE v == Fill(m - 1, x)
<1>1. v \in Seq(S) /\ Len(v) = m - 1 /\ \A i \in 1 .. m - 1 : v[i] = x
  BY DEF Fill
<1>2. Len(s) \in Nat /\ row \in row .. Len(s)
  BY LenProperties
<1>3. PICK q \in row .. Len(s) : q = row
  BY <1>2
<1> HIDE DEF v
<1>4. v \in Seq(S) /\ Len(v) + 1 = m
  BY <1>1
<1>5. /\ KeptAround(Splice(s, row, q, v), s, row, q, Len(v) + 1)
      /\ Splice(s, row, q, v)[row] = s[row]
      /\ Placed(Splice(s, row, q, v), row, v)
  <2>1. v \in Seq(S)
    BY <1>4
  <2>2. QED
    BY <2>1, SpliceKeptBelow
<1>6. ASSUME NEW i \in 2 .. m
      PROVE  Splice(s, row, q, v)[row - 1 + i] = x
  <2> DEFINE k == i - 1
  <2>1. k \in 1 .. m - 1 /\ row + k = row - 1 + i
    BY <1>2
  <2> HIDE DEF k
  <2>2. Splice(s, row, q, v)[row + k] = v[k]
    BY <1>1, <1>5, <2>1 DEF Placed
  <2>3. QED
    BY <1>1, <2>1, <2>2
<1>7. QED
  BY <1>3, <1>4, <1>5, <1>6 DEF v, Followed

LEMMA GrownLayers ==
  ASSUME NEW b, Sound(b), NEW b2, Sound(b2), NEW row \in 1 .. Len(b.lines),
         NEW fs, Padded(b, fs, row), NEW t, NEW u, Covers(t, u),
         Len(t) - 1 \in Nat, Grows(b, b2, fs, row, t, u)
  PROVE  /\ LayersKept(b, b2, row, row, Len(t))
         /\ \A i \in 1 .. Len(t) :
              /\ b2.lines[row - 1 + i] = t[i] /\ b2.formats[row - 1 + i] = u[i]
              /\ b2.pageBreakBefore[row - 1 + i]
                   = ((i = 1) /\ b.pageBreakBefore[row])
              /\ b2.alignment[row - 1 + i] = b.alignment[row]
              /\ b2.listLevel[row - 1 + i] = b.listLevel[row]
              /\ FloatsAt(b2.anchors, row - 1 + i)
                   = IF i = 1 THEN FloatsAt(b.anchors, row) ELSE 0
<1> DEFINE n == Len(b.lines)
           m == Len(t)
<1>1. /\ b.lines \in Seq(Seq(Chars)) /\ fs \in Seq(Seq(Formats)) /\ Len(fs) = n
      /\ Len(b.formats) = n
      /\ \A r \in 1 .. n : r # row => fs[r] = b.formats[r]
      /\ n \in Nat /\ row \in 1 .. n
  BY SoundFacts DEF Padded, Covers
<1>2. /\ t \in Seq(Seq(Chars)) /\ u \in Seq(Seq(Formats))
      /\ Len(u) = m /\ m \in Nat /\ m - 1 \in Nat
  BY LenProperties DEF Covers
<1>3. /\ b.pageBreakBefore \in Seq(BOOLEAN) /\ Len(b.pageBreakBefore) = n
      /\ b.alignment \in Seq(Alignments \cup {"left"}) /\ Len(b.alignment) = n
      /\ b.listLevel \in Seq(Nat) /\ Len(b.listLevel) = n
      /\ b.anchors \in Seq(Nat)
      /\ \A i \in 1 .. Len(b.anchors) : b.anchors[i] \in 1 .. n
  BY PartFacts
<1>4. /\ KeptAround(b2.lines, b.lines, row, row, m) /\ Placed(b2.lines, row - 1, t)
      /\ Len(b2.lines) = row - 1 + m + (n - row)
  <2> DEFINE ls == b.lines
             C == Seq(Chars)
  <2>1. ls \in Seq(C) /\ t \in Seq(C) /\ row \in 1 .. Len(ls)
    BY <1>1, <1>2
  <2> HIDE DEF ls, C
  <2>2. /\ KeptAround(Splice(ls, row - 1, row, t), ls, row, row, Len(t))
        /\ Placed(Splice(ls, row - 1, row, t), row - 1, t)
        /\ Len(Splice(ls, row - 1, row, t)) = row - 1 + Len(t) + (Len(ls) - row)
    BY <2>1, RowGivesWay
  <2>3. QED
    BY <2>2 DEF ls, Grows
<1>5. KeptAround(b2.formats, b.formats, row, row, m) /\ Placed(b2.formats, row - 1, u)
  <2> DEFINE F == Seq(Formats)
  <2>1. fs \in Seq(F) /\ u \in Seq(F) /\ row \in 1 .. Len(fs)
    BY <1>1, <1>2
  <2> HIDE DEF F
  <2>2. /\ KeptAround(Splice(fs, row - 1, row, u), fs, row, row, Len(u))
        /\ Placed(Splice(fs, row - 1, row, u), row - 1, u)
    BY <2>1, RowGivesWay
  <2>3. KeptAround(b2.formats, fs, row, row, m) /\ Placed(b2.formats, row - 1, u)
    BY <1>2, <2>2 DEF Grows
  <2>4. /\ \A r \in 1 .. row - 1 : fs[r] = b.formats[r]
        /\ \A r \in row + 1 .. n : fs[r] = b.formats[r]
    <3>1. ASSUME NEW r \in 1 .. row - 1
          PROVE  r \in 1 .. n /\ r # row
      BY <1>1
    <3>2. ASSUME NEW r \in row + 1 .. n
          PROVE  r \in 1 .. n /\ r # row
      BY <1>1
    <3>3. QED
      BY <1>1, <3>1, <3>2
  <2>5. QED
    BY <1>1, <2>3, <2>4 DEF KeptAround
<1>6. /\ KeptAround(b2.pageBreakBefore, b.pageBreakBefore, row, row, m)
      /\ b2.pageBreakBefore[row] = b.pageBreakBefore[row]
      /\ \A i \in 2 .. m : b2.pageBreakBefore[row - 1 + i] = FALSE
  <2>1. FALSE \in BOOLEAN /\ row \in 1 .. Len(b.pageBreakBefore)
    BY <1>1, <1>3
  <2> HIDE DEF m
  <2> DEFINE s == b.pageBreakBefore
  <2>2. s \in Seq(BOOLEAN) /\ row \in 1 .. Len(s)
    BY <1>3, <2>1
  <2> HIDE DEF s
  <2>3. Followed(Splice(s, row, row, Fill(m - 1, FALSE)), s, row, m, FALSE)
    BY <1>2, <2>1, <2>2, RowFollowed
  <2>4. b2.pageBreakBefore = Splice(s, row, row, Fill(m - 1, FALSE))
    BY DEF Grows, m, s
  <2>5. QED
    BY <2>3, <2>4 DEF Followed, s
<1>7. /\ KeptAround(b2.alignment, b.alignment, row, row, m)
      /\ \A i \in 1 .. m : b2.alignment[row - 1 + i] = b.alignment[row]
  <2> DEFINE s == b.alignment
             x == b.alignment[row]
             A == Alignments \cup {"left"}
  <2>1. s \in Seq(A) /\ row \in 1 .. Len(s)
    BY <1>1, <1>3
  <2>2. x \in A
    BY <2>1, ElementOfSeq
  <2> HIDE DEF m, s, x, A
  <2>3. Followed(Splice(s, row, row, Fill(m - 1, x)), s, row, m, x)
    BY <1>2, <2>1, <2>2, RowFollowed
  <2>4. row - 1 + 1 = row /\ \A i \in 1 .. m : i = 1 \/ i \in 2 .. m
    BY <1>2
  <2>5. b2.alignment = Splice(s, row, row, Fill(m - 1, x))
    BY DEF Grows, m, s, x
  <2>6. s[row] = x
    BY DEF s, x
  <2>7. \A i \in 1 .. m : b2.alignment[row - 1 + i] = x
    BY <2>3, <2>4, <2>5, <2>6 DEF Followed
  <2>8. QED
    BY <2>3, <2>5, <2>7 DEF s, x, Followed
<1>8. /\ KeptAround(b2.listLevel, b.listLevel, row, row, m)
      /\ \A i \in 1 .. m : b2.listLevel[row - 1 + i] = b.listLevel[row]
  <2> DEFINE s == b.listLevel
             x == b.listLevel[row]
  <2>1. s \in Seq(Nat) /\ row \in 1 .. Len(s)
    BY <1>1, <1>3
  <2>2. x \in Nat
    BY <2>1, ElementOfSeq
  <2> HIDE DEF m, s, x
  <2>3. Followed(Splice(s, row, row, Fill(m - 1, x)), s, row, m, x)
    BY <1>2, <2>1, <2>2, RowFollowed
  <2>4. row - 1 + 1 = row /\ \A i \in 1 .. m : i = 1 \/ i \in 2 .. m
    BY <1>2
  <2>5. b2.listLevel = Splice(s, row, row, Fill(m - 1, x))
    BY DEF Grows, m, s, x
  <2>6. s[row] = x
    BY DEF s, x
  <2>7. \A i \in 1 .. m : b2.listLevel[row - 1 + i] = x
    BY <2>3, <2>4, <2>5, <2>6 DEF Followed
  <2>8. QED
    BY <2>3, <2>5, <2>7 DEF s, x, Followed
<1>9. /\ FloatsKept(b2.anchors, b.anchors, n, row, row, m)
      /\ FloatsAt(b2.anchors, row) = FloatsAt(b.anchors, row)
      /\ \A i \in 2 .. m : FloatsAt(b2.anchors, row - 1 + i) = 0
  <2> DEFINE k == m - 1
             an == b.anchors
             a2 == ShiftAnchorsAtOrAfter(an, row + 1, k)
  <2>1. k \in Nat /\ k + 1 = m
    BY <1>2
  <2>2. an \in Seq(Nat) /\ \A i \in 1 .. Len(an) : an[i] \in 1 .. n
    BY <1>3
  <2>3. b2.anchors = a2
    BY DEF Grows
  <2> HIDE DEF k, an, n, m
  <2>4. /\ FloatsKept(a2, an, n, row, row, k + 1)
        /\ FloatsAt(a2, row) = FloatsAt(an, row)
        /\ Floatless(a2, row, k)
    BY <1>1, <2>1, <2>2, ShiftKept
  <2> HIDE DEF a2
  <2>5. ASSUME NEW i \in 2 .. m
        PROVE  FloatsAt(a2, row - 1 + i) = 0
    <3> DEFINE h == i - 1
    <3>1. h \in 1 .. k /\ row + h = row - 1 + i
      BY <1>1, <2>1
    <3> HIDE DEF h
    <3>2. FloatsAt(a2, row + h) = 0
      BY <2>4, <3>1 DEF Floatless
    <3>3. QED
      BY <3>1, <3>2
  <2>6. QED
    BY <2>1, <2>3, <2>4, <2>5 DEF an
<1> HIDE DEF n, m
<1>10. LayersKept(b, b2, row, row, m)
  BY <1>4, <1>5, <1>6, <1>7, <1>8, <1>9 DEF LayersKept, n
<1>11. ASSUME NEW i \in 1 .. m
       PROVE  /\ b2.lines[row - 1 + i] = t[i] /\ b2.formats[row - 1 + i] = u[i]
              /\ b2.pageBreakBefore[row - 1 + i]
                   = ((i = 1) /\ b.pageBreakBefore[row])
              /\ b2.alignment[row - 1 + i] = b.alignment[row]
              /\ b2.listLevel[row - 1 + i] = b.listLevel[row]
              /\ FloatsAt(b2.anchors, row - 1 + i)
                   = IF i = 1 THEN FloatsAt(b.anchors, row) ELSE 0
  <2>1. b2.lines[row - 1 + i] = t[i] /\ b2.formats[row - 1 + i] = u[i]
    BY <1>2, <1>4, <1>5 DEF Placed, m
  <2>2. b2.alignment[row - 1 + i] = b.alignment[row]
        /\ b2.listLevel[row - 1 + i] = b.listLevel[row]
    BY <1>7, <1>8
  <2>3. CASE i = 1
    <3>1. row - 1 + i = row
      BY <2>3
    <3>2. b.pageBreakBefore[row] \in BOOLEAN
      <4>1. row \in 1 .. Len(b.pageBreakBefore)
        BY <1>1, <1>3
      <4>2. QED
        BY <1>3, <4>1, ElementOfSeq
    <3>3. b2.pageBreakBefore[row - 1 + i] = ((i = 1) /\ b.pageBreakBefore[row])
      BY <1>6, <2>3, <3>1, <3>2
    <3>4. QED
      BY <1>9, <2>1, <2>2, <2>3, <3>1, <3>3
  <2>4. CASE i # 1
    <3>1. i \in 2 .. m
      BY <1>2, <2>4
    <3>2. QED
      BY <1>6, <1>9, <2>1, <2>2, <2>4, <3>1
  <2>5. QED
    BY <2>3, <2>4
<1>12. QED
  BY <1>10, <1>11 DEF m

GrownParagraphs(P, t, u) == [i \in 1 .. Len(t) |-> GrownParagraph(P, t, u, i)]

LEMMA GrownText ==
  ASSUME NEW b, Sound(b), NEW b2, Sound(b2), NEW row \in 1 .. Len(b.lines),
         NEW fs, Padded(b, fs, row), NEW t, NEW u, Covers(t, u),
         Len(t) - 1 \in Nat, Grows(b, b2, fs, row, t, u)
  PROVE  TextOf(b2) = Splice(TextOf(b), row - 1, row,
                             GrownParagraphs(ParagraphOf(b, row), t, u))
<1> DEFINE P   == ParagraphOf(b, row)
           mid == GrownParagraphs(P, t, u)
<1>1. /\ LayersKept(b, b2, row, row, Len(t))
      /\ \A i \in 1 .. Len(t) :
           /\ b2.lines[row - 1 + i] = t[i] /\ b2.formats[row - 1 + i] = u[i]
           /\ b2.pageBreakBefore[row - 1 + i]
                = ((i = 1) /\ b.pageBreakBefore[row])
           /\ b2.alignment[row - 1 + i] = b.alignment[row]
           /\ b2.listLevel[row - 1 + i] = b.listLevel[row]
           /\ FloatsAt(b2.anchors, row - 1 + i)
                = IF i = 1 THEN FloatsAt(b.anchors, row) ELSE 0
  BY GrownLayers
<1>2. /\ P \in ParagraphSet
      /\ P.break = b.pageBreakBefore[row] /\ P.align = b.alignment[row]
      /\ P.level = b.listLevel[row] /\ P.floats = FloatsAt(b.anchors, row)
  BY ParagraphFacts
<1>3. Len(t) \in Nat /\ Len(b.lines) \in Nat
      /\ Len(b2.lines) = row - 1 + Len(t) + (Len(b.lines) - row)
  BY <1>1, SoundFacts, LenProperties DEF Covers, LayersKept
<1> HIDE DEF P
<1>4. ASSUME NEW i \in 1 .. Len(t)
      PROVE  /\ ParagraphOf(b2, row - 1 + i) = GrownParagraph(P, t, u, i)
             /\ GrownParagraph(P, t, u, i) \in ParagraphSet
  <2> DEFINE r == row - 1 + i
             z == Zip(t[i], u[i])
             Q == GrownParagraph(P, t, u, i)
  <2>1. z \in Seq(CellSet)
    BY RowFacts, ZipFacts
  <2>2. r \in 1 .. Len(b2.lines)
    <3> DEFINE m  == Len(t)
               n  == Len(b.lines)
               n2 == Len(b2.lines)
    <3>1. m \in Nat /\ n \in Nat /\ n2 = row - 1 + m + (n - row)
          /\ i \in 1 .. m /\ row \in 1 .. n
      BY <1>3
    <3> HIDE DEF m, n, n2
    <3>2. r \in 1 .. n2
      BY <3>1
    <3>3. QED
      BY <3>2 DEF n2
  <2>3. /\ b2.lines[r] = t[i] /\ b2.formats[r] = u[i]
        /\ b2.pageBreakBefore[r] = ((i = 1) /\ b.pageBreakBefore[row])
        /\ b2.alignment[r] = b.alignment[row]
        /\ b2.listLevel[r] = b.listLevel[row]
        /\ FloatsAt(b2.anchors, r) = IF i = 1 THEN FloatsAt(b.anchors, row) ELSE 0
    BY <1>1
  <2> HIDE DEF r
  <2>4. /\ ParagraphOf(b2, r) \in ParagraphSet
        /\ ParagraphOf(b2, r).cells = Zip(b2.lines[r], b2.formats[r])
        /\ ParagraphOf(b2, r).break = b2.pageBreakBefore[r]
        /\ ParagraphOf(b2, r).align = b2.alignment[r]
        /\ ParagraphOf(b2, r).level = b2.listLevel[r]
        /\ ParagraphOf(b2, r).floats = FloatsAt(b2.anchors, r)
    BY <2>2, ParagraphFacts
  <2>5. /\ Q \in ParagraphSet /\ Q.cells = z /\ Q.break = ((i = 1) /\ P.break)
        /\ Q.align = P.align /\ Q.level = P.level
        /\ Q.floats = IF i = 1 THEN P.floats ELSE 0
    <3> HIDE DEF z
    <3>1. Q = [P EXCEPT !.cells = z, !.break = (i = 1) /\ P.break,
                        !.floats = IF i = 1 THEN P.floats ELSE 0]
      BY DEF GrownParagraph, z
    <3>2. ((i = 1) /\ P.break) \in BOOLEAN
          /\ (IF i = 1 THEN P.floats ELSE 0) \in Nat
      BY <1>2 DEF ParagraphSet
    <3> DEFINE x == (i = 1) /\ P.break
               y == IF i = 1 THEN P.floats ELSE 0
    <3> HIDE DEF Q, x, y
    <3>3. /\ Q \in ParagraphSet /\ Q.cells = z /\ Q.break = x
          /\ Q.align = P.align /\ Q.level = P.level /\ Q.floats = y
      <4>1. x \in BOOLEAN /\ y \in Nat
        BY <3>2 DEF x, y
      <4>2. Q = [P EXCEPT !.cells = z, !.break = x, !.floats = y]
        BY <3>1 DEF x, y
      <4>3. QED
        BY <1>2, <2>1, <4>1, <4>2 DEF ParagraphSet
    <3>4. QED
      BY <3>3 DEF x, y
  <2> HIDE DEF z, Q
  <2>6. ParagraphOf(b2, r) = Q
    <3>1. Zip(b2.lines[r], b2.formats[r]) = z
      BY <2>3 DEF z
    <3>2. ParagraphOf(b2, r).break = Q.break
      BY <1>2, <2>3, <2>4, <2>5
    <3>3. ParagraphOf(b2, r).floats = Q.floats
      BY <1>2, <2>3, <2>4, <2>5
    <3>4. ParagraphOf(b2, r).align = Q.align /\ ParagraphOf(b2, r).level = Q.level
      BY <1>2, <2>3, <2>4, <2>5
    <3>5. QED
      BY <2>4, <2>5, <3>1, <3>2, <3>3, <3>4, ParagraphEqual
  <2>7. QED
    BY <2>5, <2>6 DEF r, Q
<1>5. mid \in Seq(ParagraphSet) /\ Len(mid) = Len(t)
      /\ \A i \in 1 .. Len(t) : mid[i] = GrownParagraph(P, t, u, i)
  <2>1. mid = [i \in 1 .. Len(t) |-> GrownParagraph(P, t, u, i)]
    BY DEF GrownParagraphs
  <2> HIDE DEF mid
  <2>2. mid \in [1 .. Len(t) -> ParagraphSet]
    BY <1>4, <2>1
  <2>3. QED
    BY <1>3, <2>1, <2>2
<1> HIDE DEF mid
<1>6. \A r \in 1 .. Len(mid) : ParagraphOf(b2, row - 1 + r) = mid[r]
  BY <1>4, <1>5
<1>7. row \in row .. Len(b.lines)
  BY <1>3
<1>8. PICK q \in row .. Len(b.lines) : q = row
  BY <1>7
<1>9. mid \in Seq(ParagraphSet) /\ LayersKept(b, b2, row, q, Len(mid))
  BY <1>1, <1>5, <1>8
<1>10. Rewritten(b, b2, row, q, mid)
  BY <1>6, <1>9, KeptRewritten
<1>11. TextOf(b2) = Splice(TextOf(b), row - 1, q, mid)
  BY <1>9, <1>10, TextSpliced
<1>12. QED
  BY <1>8, <1>11 DEF mid, P

\* Padding a row's formats does not show.
LEMMA EnsurePadded ==
  ASSUME NEW b, Sound(b), NEW row \in 1 .. Len(b.lines), NEW k \in Nat
  PROVE  Padded(b, EnsureLineFormatSize(b.formats, row, k), row)
<1> DEFINE fs == EnsureLineFormatSize(b.formats, row, k)
           l  == b.lines[row]
           f  == b.formats[row]
           g  == fs[row]
<1>1. Covers(b.lines, b.formats) /\ row \in DOMAIN b.formats
      /\ Len(b.formats) = Len(b.lines)
  BY SoundFacts DEF Covers
<1>2. Covers(b.lines, fs)
  BY <1>1, EnsureFacts
<1>3. /\ l \in Seq(Chars) /\ f \in Seq(Formats) /\ Len(f) >= Len(l)
      /\ Len(f) \in Nat /\ Len(l) \in Nat
  BY <1>1, RowFacts
<1>4. g \in Seq(Formats) /\ Len(g) >= Len(l)
  <2> HIDE DEF fs
  <2>1. fs[row] \in Seq(Formats) /\ Len(b.lines[row]) <= Len(fs[row])
        /\ Len(b.lines[row]) \in Nat /\ Len(fs[row]) \in Nat
    BY <1>2, RowFacts
  <2>2. QED
    BY <2>1
<1>5. CASE Len(f) < k
  <2>1. fs = [b.formats EXCEPT ![row] = Resize(f, k, Plain)]
    BY <1>1, <1>5 DEF EnsureLineFormatSize
  <2>2. g = Resize(f, k, Plain) /\ \A r \in 1 .. Len(b.lines) :
          r # row => fs[r] = b.formats[r]
    BY <1>1, <2>1
  <2>3. g = f \o Fill(k - Len(f), Plain)
    <3> HIDE DEF g, f
    <3>1. ~(Len(f) >= k)
      BY <1>3, <1>5
    <3>2. QED
      BY <2>2, <3>1 DEF Resize
  <2>4. \A i \in 1 .. Len(l) : g[i] = f[i]
    <3> DEFINE h == Fill(k - Len(f), Plain)
    <3>1. k - Len(f) \in Nat /\ Plain \in Formats
      BY <1>3, <1>5, PlainAssumption
    <3>2. h \in Seq(Formats)
      BY <3>1, FillFacts
    <3> HIDE DEF h, g, f
    <3>3. \A i \in 1 .. Len(f) + Len(h) :
            (f \o h)[i] = IF i <= Len(f) THEN f[i] ELSE h[i - Len(f)]
      BY <1>3, <3>2, ConcatProperties
    <3>4. Len(h) \in Nat
      BY <3>2, LenProperties
    <3>5. \A i \in 1 .. Len(l) : i \in 1 .. Len(f) + Len(h) /\ i <= Len(f)
      BY <1>3, <3>4
    <3>6. QED
      BY <2>3, <3>3, <3>5 DEF h
  <2> HIDE DEF g, f, l, fs
  <2>5. Zip(l, g) = Zip(l, f)
    BY <1>3, <1>4, <2>4, ZipSame
  <2>6. Padded(b, fs, row)
    BY <1>2, <2>2, <2>5 DEF Padded, g, f, l
  <2>7. QED
    BY <2>6 DEF fs
<1>6. CASE ~(Len(f) < k)
  <2>1. fs = b.formats
    BY <1>6 DEF EnsureLineFormatSize
  <2> HIDE DEF fs
  <2>2. Padded(b, fs, row)
    BY <2>1, NotPadded
  <2>3. QED
    BY <2>2 DEF fs
<1>7. QED
  BY <1>5, <1>6

(***************************************************************************)
(* A paste, as paragraphs.                                                 *)
(***************************************************************************)
StyledParts(parts, fmt) ==
  [i \in DOMAIN parts |-> [k \in DOMAIN parts[i] |-> <<parts[i][k], fmt>>]]

PartCells(cells, c, parts, i) ==
  (IF i = 1 THEN SubSeq(cells, 1, c) ELSE << >>) \o parts[i]
    \o (IF i = Len(parts) THEN SubSeq(cells, c + 1, Len(cells)) ELSE << >>)

PastedParagraph(P, c, parts, i) ==
  [P EXCEPT !.cells = PartCells(P.cells, c, parts, i),
            !.break = (i = 1) /\ P.break,
            !.floats = IF i = 1 THEN P.floats ELSE 0]

PastedInto(t, p, c, parts) ==
  SubSeq(t, 1, p - 1)
    \o [i \in 1 .. Len(parts) |-> PastedParagraph(t[p], c, parts, i)]
    \o SubSeq(t, p + 1, Len(t))

\* A part, with the format it is pasted in.
LEMMA StyledPart ==
  ASSUME NEW parts \in Seq(Seq(Chars)), NEW fmt \in Formats
  PROVE  /\ Len(StyledParts(parts, fmt)) = Len(parts) /\ Len(parts) \in Nat
         /\ \A i \in 1 .. Len(parts) :
              /\ parts[i] \in Seq(Chars) /\ Len(parts[i]) \in Nat
              /\ Fill(Len(parts[i]), fmt) \in Seq(Formats)
              /\ Len(Fill(Len(parts[i]), fmt)) = Len(parts[i])
              /\ Zip(parts[i], Fill(Len(parts[i]), fmt))
                   = StyledParts(parts, fmt)[i]
              /\ StyledParts(parts, fmt)[i] \in Seq(CellSet)
<1> DEFINE n == Len(parts)
           C == Seq(Chars)
<1>1. n \in Nat /\ DOMAIN parts = 1 .. n
  <2>1. parts \in Seq(C)
    OBVIOUS
  <2> HIDE DEF C
  <2>2. QED
    BY <2>1, LenProperties
<1>2. ASSUME NEW i \in 1 .. n
      PROVE  /\ parts[i] \in Seq(Chars) /\ Len(parts[i]) \in Nat
             /\ Fill(Len(parts[i]), fmt) \in Seq(Formats)
             /\ Len(Fill(Len(parts[i]), fmt)) = Len(parts[i])
             /\ Zip(parts[i], Fill(Len(parts[i]), fmt))
                  = StyledParts(parts, fmt)[i]
             /\ StyledParts(parts, fmt)[i] \in Seq(CellSet)
  <2> DEFINE p == parts[i]
             q == Fill(Len(p), fmt)
  <2>1. p \in Seq(Chars)
    <3>1. parts \in Seq(C)
      OBVIOUS
    <3> HIDE DEF C
    <3>2. parts[i] \in C
      BY <3>1, ElementOfSeq
    <3>3. QED
      BY <3>2 DEF C
  <2>2. StyledParts(parts, fmt)[i] = [k \in DOMAIN p |-> <<p[k], fmt>>]
    BY <1>1 DEF StyledParts
  <2> HIDE DEF p
  <2>3. Len(p) \in Nat /\ DOMAIN p = 1 .. Len(p)
    BY <2>1, LenProperties
  <2>4. q \in Seq(Formats) /\ Len(q) = Len(p)
    BY <2>3, FillFacts
  <2>5. Zip(p, q) = [k \in DOMAIN p |-> <<p[k], fmt>>]
    <3>1. ASSUME NEW k \in DOMAIN p
          PROVE  (IF k \in DOMAIN q THEN q[k] ELSE Plain) = fmt
      BY <2>3 DEF Fill
    <3> HIDE DEF q
    <3>2. QED
      BY <3>1 DEF Zip
  <2> HIDE DEF q
  <2>6. Zip(p, q) \in Seq(CellSet)
    BY <2>1, <2>3, <2>4, ZipFacts
  <2>7. QED
    BY <2>1, <2>2, <2>3, <2>4, <2>5, <2>6 DEF p, q
<1>3. Len(StyledParts(parts, fmt)) = n
  <2> DEFINE z == StyledParts(parts, fmt)
  <2>1. z = [i \in 1 .. n |-> z[i]]
    BY <1>1 DEF StyledParts
  <2>2. \A i \in 1 .. n : z[i] \in Seq(CellSet)
    BY <1>2
  <2> HIDE DEF z
  <2> DEFINE S == Seq(CellSet)
  <2>3. z \in [1 .. n -> S]
    BY <2>1, <2>2
  <2> HIDE DEF S
  <2>4. Len(z) = n
    BY <1>1, <2>3
  <2>5. QED
    BY <2>4 DEF z
<1>4. QED
  BY <1>1, <1>2, <1>3

\* A first, others, and a last element.
Encloses(w, a, s, z) ==
  /\ Len(w) = Len(s) + 2 /\ w[1] = a /\ w[Len(s) + 2] = z
  /\ \A i \in 2 .. Len(s) + 1 : w[i] = s[i - 1]

LEMMA Between ==
  ASSUME NEW S, NEW a \in S, NEW z \in S, NEW s \in Seq(S)
  PROVE  Encloses(<<a>> \o s \o <<z>>, a, s, z)
<1> DEFINE h == <<a>>
           l == <<z>>
           n == Len(s)
<1>1. /\ h \in Seq(S) /\ Len(h) = 1 /\ h[1] = a
      /\ l \in Seq(S) /\ Len(l) = 1 /\ l[1] = z /\ n \in Nat
  BY LenProperties
<1> HIDE DEF h, l
<1> DEFINE v == h \o s
<1>2. /\ v \in Seq(S) /\ Len(v) = Len(h) + Len(s)
      /\ \A i \in 1 .. Len(h) + Len(s) :
           v[i] = IF i <= Len(h) THEN h[i] ELSE s[i - Len(h)]
  <2>1. h \in Seq(S)
    BY <1>1
  <2>2. QED
    BY <2>1, ConcatProperties
<1> HIDE DEF v, n
<1>3. /\ Len(v \o l) = Len(v) + Len(l)
      /\ \A i \in 1 .. Len(v) + Len(l) :
           (v \o l)[i] = IF i <= Len(v) THEN v[i] ELSE l[i - Len(v)]
  <2>1. v \in Seq(S) /\ l \in Seq(S)
    BY <1>1, <1>2
  <2>2. QED
    BY <2>1, ConcatProperties
<1>4. Len(v) = n + 1
  BY <1>1, <1>2 DEF n
<1>5. Len(v \o l) = n + 2
  BY <1>1, <1>3, <1>4
<1>6. (v \o l)[1] = a
  <2>1. 1 \in 1 .. Len(v) + Len(l) /\ 1 <= Len(v) /\ 1 \in 1 .. Len(h) + n
    BY <1>1, <1>4
  <2>2. v[1] = h[1]
    BY <1>1, <1>2, <2>1 DEF n
  <2>3. QED
    BY <1>1, <1>3, <2>1, <2>2
<1>7. (v \o l)[n + 2] = z
  <2> DEFINE k == n + 2
  <2>1. k \in 1 .. Len(v) + Len(l) /\ ~(k <= Len(v)) /\ k - Len(v) = 1
    BY <1>1, <1>4
  <2> HIDE DEF k
  <2>2. (v \o l)[k] = l[k - Len(v)]
    BY <1>3, <2>1
  <2>3. QED
    BY <1>1, <2>1, <2>2 DEF k
<1>8. ASSUME NEW i \in 2 .. n + 1
      PROVE  (v \o l)[i] = s[i - 1]
  <2>1. /\ i \in 1 .. Len(v) + Len(l) /\ i <= Len(v)
        /\ i \in 1 .. Len(h) + n /\ ~(i <= Len(h))
    BY <1>1, <1>4
  <2>2. v[i] = s[i - Len(h)]
    BY <1>2, <2>1 DEF n
  <2>3. QED
    BY <1>1, <1>3, <2>1, <2>2
<1>9. QED
  BY <1>5, <1>6, <1>7, <1>8 DEF v, h, l, n, Encloses

\* The rows a paste of several parts leaves.
RowsPasted(t, u, x, y, c, parts, fmt) ==
  /\ Len(t) = Len(parts)
  /\ t[1] = Take(x, c) \o parts[1]
  /\ u[1] = Take(y, c) \o Fill(Len(parts[1]), fmt)
  /\ t[Len(parts)] = parts[Len(parts)] \o Drop(x, c)
  /\ u[Len(parts)] = Fill(Len(parts[Len(parts)]), fmt) \o Drop(y, c)
  /\ \A i \in 2 .. Len(parts) - 1 :
       t[i] = parts[i] /\ u[i] = Fill(Len(parts[i]), fmt)

LEMMA RowsOfPaste ==
  ASSUME NEW x \in Seq(Chars), NEW y \in Seq(Formats), Len(y) >= Len(x),
         NEW c \in 0 .. Len(x),
         NEW parts \in Seq(Seq(Chars)), Len(parts) >= 2, NEW fmt \in Formats
  PROVE  RowsPasted(PastedText(x, c, parts), PastedFormats(y, c, parts, fmt),
                    x, y, c, parts, fmt)
<1> DEFINE n  == Len(parts)
           C  == Seq(Chars)
           F  == Seq(Formats)
           ta == Take(x, c) \o parts[1]
           tz == parts[n] \o Drop(x, c)
           ts == SubSeq(parts, 2, n - 1)
           ua == Take(y, c) \o Fill(Len(parts[1]), fmt)
           uz == Fill(Len(parts[n]), fmt) \o Drop(y, c)
           us == [i \in 1 .. n - 2 |-> Fill(Len(parts[i + 1]), fmt)]
<1>1. n \in Nat /\ n >= 2 /\ n - 1 \in Nat /\ n - 2 \in Nat
  <2>1. n \in Nat /\ n >= 2
    BY StyledPart
  <2> HIDE DEF n
  <2>2. QED
    BY <2>1
<1>2. \A i \in 1 .. n :
        /\ parts[i] \in C /\ Len(parts[i]) \in Nat
        /\ Fill(Len(parts[i]), fmt) \in F
  BY StyledPart
<1>3. 1 \in 1 .. n /\ n \in 1 .. n
  <2> HIDE DEF n
  <2>1. QED
    BY <1>1
<1>4. ta \in C /\ tz \in C
  <2>1. Take(x, c) \in Seq(Chars)
    BY TakeFacts
  <2>2. Drop(x, c) \in Seq(Chars)
    BY DropFacts
  <2>3. parts[1] \in Seq(Chars) /\ parts[n] \in Seq(Chars)
    BY <1>2, <1>3
  <2>4. ta \in Seq(Chars)
    BY <2>1, <2>3, ConcatProperties
  <2>5. tz \in Seq(Chars)
    BY <2>2, <2>3, ConcatProperties
  <2>6. QED
    BY <2>4, <2>5
<1>5. ua \in F /\ uz \in F
  <2>1. c \in 0 .. Len(y)
    BY LenProperties
  <2>2. Take(y, c) \in Seq(Formats)
    BY <2>1, TakeFacts
  <2>3. Drop(y, c) \in Seq(Formats)
    BY <2>1, DropFacts
  <2> DEFINE p == Fill(Len(parts[1]), fmt)
             q == Fill(Len(parts[n]), fmt)
  <2>4. p \in Seq(Formats) /\ q \in Seq(Formats)
    BY <1>2, <1>3
  <2> HIDE DEF p, q
  <2>5. Take(y, c) \o p \in Seq(Formats)
    BY <2>2, <2>4, ConcatProperties
  <2>6. q \o Drop(y, c) \in Seq(Formats)
    BY <2>3, <2>4, ConcatProperties
  <2>7. QED
    BY <2>5, <2>6 DEF p, q
<1>6. /\ ts \in Seq(C) /\ Len(ts) = n - 2
      /\ \A i \in 2 .. n - 1 : ts[i - 1] = parts[i]
  <2>1. parts \in Seq(C) /\ \A i \in 2 .. n - 1 : parts[i] \in C
    <3>1. \A i \in 2 .. n - 1 : i \in 1 .. n
      <4> HIDE DEF n
      <4>1. QED
        BY <1>1
    <3>2. QED
      BY <1>2, <3>1
  <2> HIDE DEF C, n
  <2>2. /\ ts \in Seq(C)
        /\ Len(ts) = IF 2 <= n - 1 THEN n - 1 - 2 + 1 ELSE 0
        /\ \A i \in 1 .. n - 1 - 2 + 1 : ts[i] = parts[2 + i - 1]
    <3> DEFINE m == n - 1
    <3>1. m \in Int /\ 2 \in Int
      BY <1>1
    <3>2. \A i \in 2 .. m : parts[i] \in C
      BY <2>1
    <3> HIDE DEF m
    <3>3. /\ SubSeq(parts, 2, m) \in Seq(C)
          /\ Len(SubSeq(parts, 2, m)) = IF 2 <= m THEN m - 2 + 1 ELSE 0
          /\ \A i \in 1 .. m - 2 + 1 : SubSeq(parts, 2, m)[i] = parts[2 + i - 1]
      BY <3>1, <3>2, SubSeqProperties
    <3>4. QED
      BY <3>3 DEF m
  <2> HIDE DEF ts
  <2>3. Len(ts) = n - 2
    BY <1>1, <2>2
  <2>4. ASSUME NEW i \in 2 .. n - 1
        PROVE  ts[i - 1] = parts[i]
    <3> DEFINE k == i - 1
    <3>1. k \in 1 .. n - 1 - 2 + 1 /\ 2 + k - 1 = i
      BY <1>1
    <3> HIDE DEF k
    <3>2. ts[k] = parts[2 + k - 1]
      BY <2>2, <3>1
    <3>3. QED
      BY <3>1, <3>2 DEF k
  <2>5. QED
    BY <2>2, <2>3, <2>4
<1>7. /\ us \in Seq(F) /\ Len(us) = n - 2
      /\ \A i \in 2 .. n - 1 : us[i - 1] = Fill(Len(parts[i]), fmt)
  <2>1. ASSUME NEW i \in 1 .. n - 2
        PROVE  Fill(Len(parts[i + 1]), fmt) \in F
    <3> DEFINE k == i + 1
    <3>1. k \in 1 .. n
      <4> HIDE DEF n
      <4>1. QED
        BY <1>1
    <3> HIDE DEF k
    <3>2. Fill(Len(parts[k]), fmt) \in F
      BY <1>2, <3>1
    <3>3. QED
      BY <3>2 DEF k
  <2>2. us \in [1 .. n - 2 -> F]
    BY <2>1
  <2>3. \A i \in 1 .. n - 2 : us[i] = Fill(Len(parts[i + 1]), fmt)
    OBVIOUS
  <2> HIDE DEF us, F, n
  <2>4. us \in Seq(F) /\ Len(us) = n - 2
    <3> DEFINE k == n - 2
    <3>1. k \in Nat /\ us \in [1 .. k -> F]
      BY <1>1, <2>2
    <3> HIDE DEF k
    <3>2. us \in Seq(F) /\ Len(us) = k
      BY <3>1
    <3>3. QED
      BY <3>2 DEF k
  <2>5. ASSUME NEW i \in 2 .. n - 1
        PROVE  us[i - 1] = Fill(Len(parts[i]), fmt)
    <3> DEFINE k == i - 1
    <3>1. k \in 1 .. n - 2 /\ k + 1 = i
      BY <1>1
    <3> HIDE DEF k
    <3>2. us[k] = Fill(Len(parts[k + 1]), fmt)
      BY <2>3, <3>1
    <3>3. QED
      BY <3>1, <3>2 DEF k
  <2>6. QED
    BY <2>4, <2>5
<1> DEFINE t == <<ta>> \o ts \o <<tz>>
           u == <<ua>> \o us \o <<uz>>
<1>8. PastedText(x, c, parts) = t /\ PastedFormats(y, c, parts, fmt) = u
  BY DEF PastedText, PastedFormats
<1> HIDE DEF ta, tz, ts, ua, uz, us, C, F
<1>9. Encloses(t, ta, ts, tz)
  BY <1>4, <1>6, Between
<1>10. Encloses(u, ua, us, uz)
  BY <1>5, <1>7, Between
<1> HIDE DEF t, u, n
<1>11. Len(ts) + 2 = n /\ Len(us) + 2 = n /\ Len(ts) + 1 = n - 1
       /\ Len(us) + 1 = n - 1
  BY <1>1, <1>6, <1>7
<1>12. /\ Len(t) = n /\ t[1] = ta /\ u[1] = ua /\ t[n] = tz /\ u[n] = uz
       /\ \A i \in 2 .. n - 1 :
            t[i] = parts[i] /\ u[i] = Fill(Len(parts[i]), fmt)
  BY <1>6, <1>7, <1>9, <1>10, <1>11 DEF Encloses
<1>13. QED
  BY <1>8, <1>12 DEF ta, tz, ua, uz, n, RowsPasted

\* Row by row, the text and formats of a paste are its formatted characters.
LEMMA PastedCells ==
  ASSUME NEW x \in Seq(Chars), NEW y \in Seq(Formats), Len(y) >= Len(x),
         NEW c \in 0 .. Len(x),
         NEW parts \in Seq(Seq(Chars)), Len(parts) >= 2, NEW fmt \in Formats,
         NEW i \in 1 .. Len(parts)
  PROVE  Zip(PastedText(x, c, parts)[i], PastedFormats(y, c, parts, fmt)[i])
           = PartCells(Zip(x, y), c, StyledParts(parts, fmt), i)
<1> DEFINE n == Len(parts)
           t == PastedText(x, c, parts)
           u == PastedFormats(y, c, parts, fmt)
           p == parts[i]
           q == Fill(Len(parts[i]), fmt)
           z == Zip(x, y)
           S == StyledParts(parts, fmt)
<1>1. RowsPasted(t, u, x, y, c, parts, fmt)
  BY RowsOfPaste
<1>2. Len(S) = n /\ n \in Nat /\ n >= 2
      /\ p \in Seq(Chars) /\ Len(p) \in Nat /\ q \in Seq(Formats)
      /\ Len(q) = Len(p) /\ Zip(p, q) = S[i] /\ S[i] \in Seq(CellSet)
  BY StyledPart
<1>3. /\ z \in Seq(CellSet) /\ Len(z) = Len(x) /\ Len(x) \in Nat
      /\ Len(y) \in Nat /\ c \in 0 .. Len(z)
  BY ZipFacts, LenProperties
<1>4. Take(z, c) \in Seq(CellSet) /\ Drop(z, c) \in Seq(CellSet)
  <2> HIDE DEF z
  <2>1. Take(z, c) \in Seq(CellSet)
    BY <1>3, TakeFacts
  <2>2. Drop(z, c) \in Seq(CellSet)
    BY <1>3, DropFacts
  <2>3. QED
    BY <2>1, <2>2
<1>5. PartCells(z, c, S, i)
        = (IF i = 1 THEN Take(z, c) ELSE << >>) \o S[i]
            \o (IF i = n THEN Drop(z, c) ELSE << >>)
  BY <1>2 DEF PartCells, Take, Drop
<1> HIDE DEF n, t, u, p, q, S
<1>6. CASE i = 1
  <2> DEFINE xa == Take(x, c)
             ya == Take(y, c)
  <2>1. /\ Zip(xa, ya) = Take(z, c)
        /\ xa \in Seq(Chars) /\ ya \in Seq(Formats) /\ Len(xa) = c /\ Len(ya) = c
    BY ZipTake
  <2>2. t[i] = xa \o p /\ u[i] = ya \o q
    BY <1>1, <1>6 DEF RowsPasted, p, q
  <2> HIDE DEF xa, ya
  <2>3. Len(ya) = Len(xa) /\ Len(q) >= Len(p)
    BY <1>2, <2>1
  <2>4. Zip(xa \o p, ya \o q) = Zip(xa, ya) \o Zip(p, q)
    <3>1. /\ xa \in Seq(Chars) /\ ya \in Seq(Formats)
          /\ p \in Seq(Chars) /\ q \in Seq(Formats)
      BY <1>2, <2>1
    <3>2. QED
      BY <2>3, <3>1, ZipJoin
  <2> DEFINE w == Take(z, c) \o S[i]
  <2>5. w \in Seq(CellSet)
    BY <1>2, <1>4, ConcatProperties
  <2> HIDE DEF w
  <2>6. w \o << >> = w
    BY <2>5, ConcatEmptySeq
  <2>7. i # n
    BY <1>2, <1>6
  <2>8. PartCells(z, c, S, i) = w \o << >>
    BY <1>5, <1>6, <2>7 DEF w
  <2>9. Zip(t[i], u[i]) = w
    BY <1>2, <2>1, <2>2, <2>4 DEF w
  <2>10. QED
    BY <2>6, <2>8, <2>9 DEF t, u, S
<1>7. CASE i = n
  <2> DEFINE xb == Drop(x, c)
             yb == Drop(y, c)
  <2>1. /\ Zip(xb, yb) = Drop(z, c)
        /\ xb \in Seq(Chars) /\ yb \in Seq(Formats)
        /\ Len(xb) = Len(x) - c /\ Len(yb) = Len(y) - c
    BY ZipDrop
  <2>2. t[i] = p \o xb /\ u[i] = q \o yb
    BY <1>1, <1>7 DEF RowsPasted, p, q, n
  <2> HIDE DEF xb, yb
  <2>3. Len(yb) >= Len(xb) /\ Len(q) = Len(p)
    BY <1>2, <1>3, <2>1
  <2>4. Zip(p \o xb, q \o yb) = Zip(p, q) \o Zip(xb, yb)
    <3>1. /\ xb \in Seq(Chars) /\ yb \in Seq(Formats)
          /\ p \in Seq(Chars) /\ q \in Seq(Formats)
      BY <1>2, <2>1
    <3>2. QED
      BY <2>3, <3>1, ZipJoin
  <2> DEFINE s == S[i]
  <2> HIDE DEF s
  <2>5. << >> \o s = s
    BY <1>2, ConcatEmptySeq DEF s
  <2>6. i # 1
    BY <1>2, <1>7
  <2>7. PartCells(z, c, S, i) = << >> \o s \o Drop(z, c)
    BY <1>5, <1>7, <2>6 DEF s
  <2>8. Zip(t[i], u[i]) = s \o Drop(z, c)
    BY <1>2, <2>1, <2>2, <2>4 DEF s
  <2>9. QED
    BY <2>5, <2>7, <2>8 DEF t, u, S
<1>8. CASE i # 1 /\ i # n
  <2>1. i \in 2 .. n - 1
    BY <1>2, <1>8 DEF n
  <2>2. t[i] = p /\ u[i] = q
    BY <1>1, <2>1 DEF RowsPasted, p, q, n
  <2> DEFINE s == S[i]
  <2> HIDE DEF s
  <2>3. << >> \o s = s /\ s \o << >> = s
    BY <1>2, ConcatEmptySeq DEF s
  <2>4. PartCells(z, c, S, i) = << >> \o s \o << >>
    BY <1>5, <1>8 DEF s
  <2>5. Zip(t[i], u[i]) = s
    BY <1>2, <2>2 DEF s
  <2>6. QED
    BY <2>3, <2>4, <2>5 DEF t, u, S
<1>9. QED
  BY <1>6, <1>7, <1>8

\* A paste of several rows puts rows in the place of one.
LEMMA PasteGrows ==
  ASSUME NEW b, Sound(b), NEW row \in 1 .. Len(b.lines),
         NEW col \in 0 .. Len(b.lines[row]),
         NEW parts \in Seq(Seq(Chars)), Len(parts) >= 2, NEW fmt \in Formats
  PROVE  \E fs :
           /\ Padded(b, fs, row)
           /\ Covers(PastedText(b.lines[row], col, parts),
                     PastedFormats(fs[row], col, parts, fmt))
           /\ Len(PastedText(b.lines[row], col, parts)) = Len(parts)
           /\ Grows(b, InsertText(b, col, row, parts, fmt), fs, row,
                    PastedText(b.lines[row], col, parts),
                    PastedFormats(fs[row], col, parts, fmt))
<1> DEFINE ls == b.lines
           n  == Len(ls)
           m  == Len(parts)
           x  == ls[row]
           t  == PastedText(x, col, parts)
           l2 == Splice(ls, row - 1, row, t)
           fs == EnsureLineFormatSize(b.formats, row, Len(l2[row]))
           u  == PastedFormats(fs[row], col, parts, fmt)
<1>1. Covers(ls, b.formats) /\ DOMAIN ls = 1 .. n /\ n \in Nat /\ row \in 1 .. n
  BY SoundFacts
<1>2. x \in Seq(Chars) /\ Len(x) \in Nat /\ col \in 0 .. Len(x)
  BY <1>1, RowFacts
<1>3. Clamp(col, 0, Len(x)) = col /\ col \in Nat
  BY <1>2 DEF Clamp
<1>4. m \in Nat /\ m >= 2 /\ m # 1 /\ m - 1 \in Nat
  <2>1. m \in Nat /\ m >= 2
    BY LenProperties
  <2> HIDE DEF m
  <2>2. QED
    BY <2>1
<1>5. ASSUME NEW y \in Seq(Formats), Len(y) >= Len(x)
      PROVE  Covers(t, PastedFormats(y, col, parts, fmt)) /\ Len(t) = m
  BY <1>2, <1>5, PasteCover
<1>6. Len(l2[row]) \in Nat
  <2> DEFINE f == b.formats
             v == PastedFormats(f[row], col, parts, fmt)
  <2>1. f[row] \in Seq(Formats) /\ Len(f[row]) >= Len(x)
    BY <1>1, RowFacts DEF Covers
  <2>2. Covers(t, v) /\ Len(t) = m
    BY <1>5, <2>1
  <2> HIDE DEF ls, f, n, m, t, v
  <2>3. Covers(ls, f) /\ Len(ls) = n /\ m \in Nat
    BY <1>1, <1>4 DEF n, f
  <2>4. Covers(l2, Splice(f, row - 1, row, v)) /\ Len(l2) = n + (m - 1)
    BY <1>1, <2>2, <2>3, ReplaceRowCover
  <2> HIDE DEF l2
  <2>5. row \in 1 .. Len(l2)
    BY <1>1, <1>4, <2>4
  <2>6. QED
    BY <2>4, <2>5, RowFacts
<1>7. InsertTextText(b.lines, col, row, parts) = l2
  BY <1>1, <1>3, <1>4 DEF InsertTextText, PastedText
<1>8. Padded(b, fs, row)
  <2> HIDE DEF l2
  <2>1. QED
    BY <1>6, EnsurePadded
<1> HIDE DEF fs
<1>9. fs[row] \in Seq(Formats) /\ Len(fs[row]) >= Len(x)
  BY <1>1, <1>8, RowFacts DEF Covers, Padded
<1>10. Len(fs[row]) \in Nat
  BY <1>9, LenProperties
<1>11. Covers(t, u) /\ Len(t) = m
  BY <1>5, <1>9
<1>12. /\ RowValue(b.alignment, row, "left") = b.alignment[row]
       /\ RowValue(b.listLevel, row, 0) = b.listLevel[row]
  <2>1. row \in DOMAIN b.alignment /\ row \in DOMAIN b.listLevel
    <3>1. /\ b.alignment \in Seq(Alignments \cup {"left"})
          /\ Len(b.alignment) = n
          /\ b.listLevel \in Seq(Nat) /\ Len(b.listLevel) = n
      BY PartFacts
    <3>2. DOMAIN b.alignment = 1 .. n /\ DOMAIN b.listLevel = 1 .. n
      BY <3>1, LenProperties
    <3>3. QED
      BY <1>1, <3>2
  <2>2. QED
    BY <2>1 DEF RowValue
<1> DEFINE b2 == InsertText(b, col, row, parts, fmt)
           head == IF col > Len(fs[row]) THEN Len(fs[row]) ELSE col
           uh   == PastedFormats(fs[row], head, parts, fmt)
<1>13. head = col
  BY <1>2, <1>3, <1>9, <1>10
<1>14. row \in DOMAIN b.lines
  BY <1>1
<1> HIDE DEF l2, m
<1>15. b2 = [lines |-> l2, formats |-> Splice(fs, row - 1, row, uh),
             pageBreakBefore |->
               Splice(b.pageBreakBefore, row, row, Fill(m - 1, FALSE)),
             alignment |->
               Splice(b.alignment, row, row,
                      Fill(m - 1, RowValue(b.alignment, row, "left"))),
             listLevel |->
               Splice(b.listLevel, row, row,
                      Fill(m - 1, RowValue(b.listLevel, row, 0))),
             anchors |-> ShiftAnchorsAtOrAfter(b.anchors, row + 1, m - 1)]
  <2>1. Len(parts) # 1
    BY <1>4 DEF m
  <2>2. QED
    BY <1>7, <1>14, <2>1 DEF InsertText, PastedFormats, fs, m
<1> HIDE DEF head, b2
<1>16. uh = u
  BY <1>13
<1> HIDE DEF uh, u, t
<1>17. Grows(b, b2, fs, row, t, u)
  BY <1>11, <1>12, <1>15, <1>16 DEF Grows, l2
<1>18. QED
  BY <1>8, <1>11, <1>17 DEF t, u, b2, m

LEMMA PasteRowsText ==
  ASSUME NEW b, Sound(b), NEW row \in 1 .. Len(b.lines),
         NEW col \in 0 .. Len(b.lines[row]),
         NEW parts \in Seq(Seq(Chars)), Len(parts) >= 2, NEW fmt \in Formats
  PROVE  TextOf(InsertText(b, col, row, parts, fmt))
           = PastedInto(TextOf(b), row, col, StyledParts(parts, fmt))
<1> DEFINE b2 == InsertText(b, col, row, parts, fmt)
           P  == ParagraphOf(b, row)
           t  == PastedText(b.lines[row], col, parts)
           S  == StyledParts(parts, fmt)
<1>1. Sound(b2)
  BY PasteRowsSound
<1>2. PICK fs :
        /\ Padded(b, fs, row)
        /\ Covers(t, PastedFormats(fs[row], col, parts, fmt))
        /\ Len(t) = Len(parts)
        /\ Grows(b, b2, fs, row, t, PastedFormats(fs[row], col, parts, fmt))
  BY PasteGrows
<1> DEFINE u == PastedFormats(fs[row], col, parts, fmt)
<1>3. Len(t) - 1 \in Nat /\ Len(parts) \in Nat /\ Len(S) = Len(parts)
  <2> DEFINE m == Len(parts)
  <2>1. m \in Nat /\ m >= 2 /\ Len(S) = m
    BY StyledPart
  <2> HIDE DEF m, S
  <2>2. m - 1 \in Nat
    BY <2>1
  <2>3. QED
    BY <1>2, <2>1, <2>2 DEF m
<1> HIDE DEF b2
<1>4. TextOf(b2) = Splice(TextOf(b), row - 1, row, GrownParagraphs(P, t, u))
  <2> HIDE DEF t, u, P
  <2>1. Covers(t, u) /\ Grows(b, b2, fs, row, t, u)
    BY <1>2 DEF t, u
  <2>2. Padded(b, fs, row) /\ Len(t) - 1 \in Nat
    BY <1>2, <1>3
  <2>3. TextOf(b2) = Splice(TextOf(b), row - 1, row,
                            GrownParagraphs(ParagraphOf(b, row), t, u))
    BY <1>1, <2>1, <2>2, GrownText
  <2>4. QED
    BY <2>3 DEF P
<1>5. P.cells = Zip(b.lines[row], fs[row])
  <2>1. P.cells = Zip(b.lines[row], b.formats[row])
    BY ParagraphFacts
  <2>2. QED
    BY <1>2, <2>1 DEF Padded
<1>6. /\ b.lines[row] \in Seq(Chars) /\ fs[row] \in Seq(Formats)
      /\ Len(fs[row]) >= Len(b.lines[row])
  <2>1. Covers(b.lines, fs)
    BY <1>2 DEF Padded
  <2>2. QED
    BY <2>1, RowFacts DEF Covers
<1>7. ASSUME NEW i \in 1 .. Len(parts)
      PROVE  GrownParagraph(P, t, u, i) = PastedParagraph(P, col, S, i)
  <2>1. Zip(t[i], u[i]) = PartCells(Zip(b.lines[row], fs[row]), col, S, i)
    BY <1>6, PastedCells
  <2> HIDE DEF P, t, u, S
  <2>2. Zip(t[i], u[i]) = PartCells(P.cells, col, S, i)
    BY <1>5, <2>1
  <2>3. QED
    BY <2>2 DEF GrownParagraph, PastedParagraph
<1>8. GrownParagraphs(P, t, u)
        = [i \in 1 .. Len(S) |-> PastedParagraph(P, col, S, i)]
  <2> HIDE DEF P, t, u, S
  <2>1. QED
    BY <1>2, <1>3, <1>7 DEF GrownParagraphs
<1>9. TextOf(b)[row] = P
  BY TextFacts
<1>10. QED
  BY <1>4, <1>8, <1>9 DEF PastedInto, Splice, Take, Drop, b2

\* What a paragraph becomes when only its characters change.
LEMMA Recelled ==
  ASSUME NEW P \in ParagraphSet, NEW z \in Seq(CellSet)
  PROVE  [P EXCEPT !.cells = z]
           = [P EXCEPT !.cells = z, !.break = (1 = 1) /\ P.break,
                       !.floats = IF 1 = 1 THEN P.floats ELSE 0]
<1>1. P.break \in BOOLEAN /\ ((1 = 1) /\ P.break) = P.break
  BY DEF ParagraphSet
<1>2. (IF 1 = 1 THEN P.floats ELSE 0) = P.floats
  OBVIOUS
<1>3. [P EXCEPT !.cells = z]
        = [P EXCEPT !.cells = z, !.break = P.break, !.floats = P.floats]
  BY DEF ParagraphSet
<1>4. QED
  BY <1>1, <1>2, <1>3

LEMMA PasteWordText ==
  ASSUME NEW b, Sound(b), NEW row \in 1 .. Len(b.lines),
         NEW col \in 0 .. Len(b.lines[row]),
         NEW parts \in Seq(Seq(Chars)), Len(parts) = 1, NEW fmt \in Formats
  PROVE  TextOf(InsertText(b, col, row, parts, fmt))
           = PastedInto(TextOf(b), row, col, StyledParts(parts, fmt))
<1> DEFINE l  == b.lines[row]
           p  == parts[1]
           q  == Fill(Len(p), fmt)
           x  == Splice(l, col, col, p)
           ls == [b.lines EXCEPT ![row] = x]
           fs == EnsureLineFormatSize(b.formats, row, Len(x))
           f  == fs[row]
           y  == Splice(f, col, col, q)
           P  == ParagraphOf(b, row)
           S  == StyledParts(parts, fmt)
<1>1. Covers(b.lines, b.formats) /\ DOMAIN b.lines = 1 .. Len(b.lines)
      /\ row \in DOMAIN b.lines
  BY SoundFacts
<1>2. l \in Seq(Chars) /\ Len(l) \in Nat
  BY <1>1, RowFacts
<1>3. /\ Len(S) = 1 /\ p \in Seq(Chars) /\ Len(p) \in Nat
      /\ q \in Seq(Formats) /\ Len(q) = Len(p)
      /\ Zip(p, q) = S[1] /\ S[1] \in Seq(CellSet)
  <2>1. PICK k \in 1 .. Len(parts) : k = 1
    OBVIOUS
  <2>2. /\ Len(S) = Len(parts) /\ parts[k] \in Seq(Chars) /\ Len(parts[k]) \in Nat
        /\ Fill(Len(parts[k]), fmt) \in Seq(Formats)
        /\ Len(Fill(Len(parts[k]), fmt)) = Len(parts[k])
        /\ Zip(parts[k], Fill(Len(parts[k]), fmt)) = S[k]
        /\ S[k] \in Seq(CellSet)
    BY StyledPart
  <2>3. QED
    BY <2>1, <2>2
<1>4. Clamp(col, 0, Len(l)) = col /\ col \in col .. Len(l)
  BY <1>2 DEF Clamp
<1> HIDE DEF p, q, S
<1>5. x \in Seq(Chars) /\ Len(x) \in Nat
  <2>1. x \in Seq(Chars)
    BY <1>2, <1>3, <1>4, SpliceFacts
  <2> HIDE DEF x
  <2>2. QED
    BY <2>1, LenProperties
<1>6. InsertTextText(b.lines, col, row, parts) = ls /\ ls[row] = x
  <2>1. InsertTextText(b.lines, col, row, parts) = ls
    BY <1>1, <1>4 DEF InsertTextText, p
  <2>2. ls[row] = x
    BY <1>1
  <2>3. QED
    BY <2>1, <2>2
<1> HIDE DEF x, ls
<1>7. Padded(b, fs, row)
  BY <1>5, EnsurePadded
<1>8. InsertText(b, col, row, parts, fmt)
        = [b EXCEPT !.lines = ls, !.formats = [fs EXCEPT ![row] = y]]
  BY <1>1, <1>6 DEF InsertText, p, q
<1> HIDE DEF fs
<1>9. f \in Seq(Formats) /\ Len(f) >= Len(l)
  BY <1>7, RowFacts DEF Covers, Padded
<1> HIDE DEF l, f
<1>10. y \in Seq(Formats) /\ Len(y) >= Len(x)
  <2>1. p \in Seq(Chars) /\ q \in Seq(Formats) /\ Len(q) = Len(p)
        /\ col \in 0 .. Len(l)
    BY <1>3 DEF l
  <2>2. QED
    BY <1>2, <1>4, <1>9, <2>1, SpliceRows DEF x
<1> HIDE DEF y
<1>11. TextOf(WithRow(b, fs, row, x, y))
         = Splice(TextOf(b), row - 1, row, <<[P EXCEPT !.cells = Zip(x, y)]>>)
  BY <1>5, <1>7, <1>10, RowRewritten
<1>12. P \in ParagraphSet /\ P.cells = Zip(l, f)
  <2>1. P \in ParagraphSet /\ P.cells = Zip(b.lines[row], b.formats[row])
    BY ParagraphFacts
  <2>2. QED
    BY <1>7, <2>1 DEF Padded, l, f
<1>13. Zip(x, y) = Splice(P.cells, col, col, S[1])
  <2>1. /\ p \in Seq(Chars) /\ q \in Seq(Formats) /\ Len(q) = Len(p)
        /\ col \in 0 .. Len(l)
    BY <1>3 DEF l
  <2>2. Zip(Splice(l, col, col, p), Splice(f, col, col, q))
          = Splice(Zip(l, f), col, col, Zip(p, q))
    BY <1>2, <1>4, <1>9, <2>1, ZipSplice
  <2>3. QED
    BY <1>3, <1>12, <2>2 DEF x, y
<1>14. Zip(x, y) = PartCells(P.cells, col, S, 1)
  BY <1>3, <1>13 DEF PartCells, Splice, Take, Drop
<1>15. Zip(x, y) \in Seq(CellSet)
  BY <1>5, <1>10, ZipFacts
<1>16. [P EXCEPT !.cells = Zip(x, y)] = PastedParagraph(P, col, S, 1)
  <2> DEFINE z == Zip(x, y)
  <2> HIDE DEF z, P
  <2>1. [P EXCEPT !.cells = z]
          = [P EXCEPT !.cells = z, !.break = (1 = 1) /\ P.break,
                      !.floats = IF 1 = 1 THEN P.floats ELSE 0]
    BY <1>12, <1>15, Recelled DEF z
  <2>2. PartCells(P.cells, col, S, 1) = z
    BY <1>14 DEF z
  <2>3. QED
    BY <2>1, <2>2 DEF PastedParagraph, z
<1>17. TextOf(b)[row] = P
  BY TextFacts
<1> HIDE DEF P
<1>18. [i \in 1 .. Len(S) |-> PastedParagraph(P, col, S, i)]
         = <<PastedParagraph(P, col, S, 1)>>
  <2> DEFINE w == PastedParagraph(P, col, S, 1)
  <2>1. [i \in 1 .. 1 |-> PastedParagraph(P, col, S, i)] = [i \in 1 .. 1 |-> w]
    <3>1. \A i \in 1 .. 1 : i = 1
      OBVIOUS
    <3>2. QED
      BY <3>1
  <2> HIDE DEF w
  <2>2. [i \in 1 .. 1 |-> w] = <<w>>
    OBVIOUS
  <2>3. QED
    BY <1>3, <2>1, <2>2 DEF w
<1>19. InsertText(b, col, row, parts, fmt) = WithRow(b, fs, row, x, y)
  BY <1>8 DEF WithRow, ls
<1>20. QED
  BY <1>11, <1>16, <1>17, <1>18, <1>19 DEF PastedInto, Splice, Take, Drop, S

\* A paste, of a word or of several rows.
LEMMA PastePartsText ==
  ASSUME NEW b, Sound(b), NEW row \in 1 .. Len(b.lines),
         NEW col \in 0 .. Len(b.lines[row]),
         NEW parts \in Pastes, NEW fmt \in Formats
  PROVE  TextOf(InsertText(b, col, row, parts, fmt))
           = PastedInto(TextOf(b), row, col, StyledParts(parts, fmt))
<1>1. parts \in Seq(Seq(Chars)) /\ parts # << >>
  BY PastesAssumption
<1>2. Len(parts) = 1 \/ Len(parts) >= 2
  <2> DEFINE m == Len(parts)
  <2>1. m \in Nat /\ m # 0
    BY <1>1, LenProperties, EmptySeq
  <2> HIDE DEF m
  <2>2. m = 1 \/ m >= 2
    BY <2>1
  <2>3. QED
    BY <2>2 DEF m
<1>3. CASE Len(parts) = 1
  BY <1>1, <1>3, PasteWordText
<1>4. CASE Len(parts) >= 2
  BY <1>1, <1>4, PasteRowsText
<1>5. QED
  BY <1>2, <1>3, <1>4

(***************************************************************************)
(* A line break, as paragraphs.                                            *)
(***************************************************************************)
SplitInto(t, p, c) ==
  SubSeq(t, 1, p - 1)
    \o <<[t[p] EXCEPT !.cells = SubSeq(t[p].cells, 1, c)],
         [t[p] EXCEPT !.cells = SubSeq(t[p].cells, c + 1, Len(t[p].cells)),
                      !.break = FALSE, !.floats = 0]>>
    \o SubSeq(t, p + 1, Len(t))

\* One row of a paragraph's state, put below it, is a list of one.
LEMMA BelowIsFilled ==
  ASSUME NEW S, NEW s \in Seq(S), NEW row \in 1 .. Len(s), NEW x
  PROVE  InsertBelow(s, row, x) = Splice(s, row, row, Fill(1, x))
<1>1. Len(s) \in Nat /\ Len(s) >= row
  BY LenProperties
<1>2. Fill(1, x) = <<x>>
  BY DEF Fill
<1>3. QED
  BY <1>1, <1>2 DEF InsertBelow

\* A line break puts the two parts of a row in its place.
LEMMA NewlineGrows ==
  ASSUME NEW b, Sound(b), NEW row \in 1 .. Len(b.lines),
         NEW col \in 0 .. Len(b.lines[row])
  PROVE  \E fs :
           /\ Padded(b, fs, row)
           /\ Grows(b, InsertNewline(b, col, row), fs, row,
                    <<Take(b.lines[row], col), Drop(b.lines[row], col)>>,
                    <<Take(fs[row], col), Drop(fs[row], col)>>)
<1> DEFINE n   == Len(b.lines)
           len == Len(b.lines[row])
           fs  == EnsureLineFormatSize(b.formats, row, len)
           t   == <<Take(b.lines[row], col), Drop(b.lines[row], col)>>
           u   == <<Take(fs[row], col), Drop(fs[row], col)>>
           b2  == InsertNewline(b, col, row)
<1>1. Covers(b.lines, b.formats) /\ DOMAIN b.lines = 1 .. n /\ n \in Nat
  BY SoundFacts
<1>2. len \in Nat /\ Clamp(col, 0, len) = col
  BY <1>1, RowFacts DEF Clamp
<1>3. Padded(b, fs, row)
  BY <1>2, EnsurePadded
<1>4. b2.lines = Splice(b.lines, row - 1, row, t)
  BY <1>1, <1>2 DEF InsertNewline, InsertNewlineText, SplitRow
<1>5. b2.formats = Splice(fs, row - 1, row, u)
  <2>1. b2.formats = SplitRow(fs, row, Clamp(col, 0, len))
    BY <1>1 DEF InsertNewline
  <2>2. QED
    BY <1>2, <2>1 DEF SplitRow
<1>6. /\ b2.pageBreakBefore = InsertBelow(b.pageBreakBefore, row, FALSE)
      /\ b2.alignment
           = InsertBelow(b.alignment, row, RowValue(b.alignment, row, "left"))
      /\ b2.listLevel
           = InsertBelow(b.listLevel, row, RowValue(b.listLevel, row, 0))
      /\ b2.anchors = ShiftAnchorsAtOrAfter(b.anchors, row + 1, 1)
  BY <1>1 DEF InsertNewline
<1>7. /\ b.pageBreakBefore \in Seq(BOOLEAN) /\ Len(b.pageBreakBefore) = n
      /\ b.alignment \in Seq(Alignments \cup {"left"}) /\ Len(b.alignment) = n
      /\ b.listLevel \in Seq(Nat) /\ Len(b.listLevel) = n
  BY PartFacts
<1>8. /\ RowValue(b.alignment, row, "left") = b.alignment[row]
      /\ RowValue(b.listLevel, row, 0) = b.listLevel[row]
  <2>1. DOMAIN b.alignment = 1 .. n /\ DOMAIN b.listLevel = 1 .. n
    BY <1>7, LenProperties
  <2>2. QED
    BY <2>1 DEF RowValue
<1> HIDE DEF fs, b2
<1>9. b2.pageBreakBefore = Splice(b.pageBreakBefore, row, row, Fill(1, FALSE))
  BY <1>6, <1>7, BelowIsFilled
<1>10. b2.alignment
         = Splice(b.alignment, row, row, Fill(1, b.alignment[row]))
  BY <1>6, <1>7, <1>8, BelowIsFilled
<1>11. b2.listLevel
         = Splice(b.listLevel, row, row, Fill(1, b.listLevel[row]))
  BY <1>6, <1>7, <1>8, BelowIsFilled
<1>12. Len(t) - 1 = 1
  OBVIOUS
<1> HIDE DEF t, u, n, len
<1>13. Grows(b, b2, fs, row, t, u)
  BY <1>4, <1>5, <1>6, <1>9, <1>10, <1>11, <1>12 DEF Grows
<1>14. QED
  BY <1>3, <1>13 DEF t, u, b2

LEMMA NewlineText ==
  ASSUME NEW b, Sound(b), NEW row \in 1 .. Len(b.lines),
         NEW col \in 0 .. Len(b.lines[row])
  PROVE  TextOf(InsertNewline(b, col, row)) = SplitInto(TextOf(b), row, col)
<1> DEFINE b2 == InsertNewline(b, col, row)
           P  == ParagraphOf(b, row)
           l  == b.lines[row]
<1>1. Sound(b2)
  BY InsertNewlineSound
<1>2. PICK fs :
        /\ Padded(b, fs, row)
        /\ Grows(b, b2, fs, row, <<Take(l, col), Drop(l, col)>>,
                 <<Take(fs[row], col), Drop(fs[row], col)>>)
  BY NewlineGrows
<1> DEFINE f == fs[row]
           x1 == Take(l, col)
           x2 == Drop(l, col)
           y1 == Take(f, col)
           y2 == Drop(f, col)
           t == <<x1, x2>>
           u == <<y1, y2>>
<1>3. l \in Seq(Chars) /\ f \in Seq(Formats) /\ Len(f) >= Len(l)
      /\ col \in 0 .. Len(l) /\ Len(l) \in Nat /\ Len(f) \in Nat
  <2>1. Covers(b.lines, fs)
    BY <1>2 DEF Padded
  <2>2. QED
    BY <2>1, RowFacts DEF Covers
<1>4. P \in ParagraphSet /\ P.cells = Zip(l, f)
  <2>1. P \in ParagraphSet /\ P.cells = Zip(b.lines[row], b.formats[row])
    BY ParagraphFacts
  <2>2. QED
    BY <1>2, <2>1 DEF Padded
<1>5. TextOf(b)[row] = P
  BY TextFacts
<1> HIDE DEF P, b2, l, f
<1>6. /\ Zip(x1, y1) = Take(P.cells, col)
      /\ x1 \in Seq(Chars) /\ y1 \in Seq(Formats)
      /\ Len(x1) = col /\ Len(y1) = col
  BY <1>3, <1>4, ZipTake
<1>7. /\ Zip(x2, y2) = Drop(P.cells, col)
      /\ x2 \in Seq(Chars) /\ y2 \in Seq(Formats)
      /\ Len(x2) = Len(l) - col /\ Len(y2) = Len(f) - col
  BY <1>3, <1>4, ZipDrop
<1>8. Len(y1) >= Len(x1) /\ Len(y2) >= Len(x2)
  <2>1. Len(y1) >= Len(x1)
    BY <1>3, <1>6
  <2>2. Len(f) - col >= Len(l) - col
    BY <1>3
  <2>3. QED
    BY <1>7, <2>1, <2>2
<1> HIDE DEF x1, x2, y1, y2
<1>9. Covers(t, u) /\ Len(t) = 2
  BY <1>6, <1>7, <1>8, TwoRows
<1>10. Zip(x1, y1) \in Seq(CellSet)
  BY <1>6, <1>8, ZipFacts
<1>11. GrownParagraph(P, t, u, 1) = [P EXCEPT !.cells = Take(P.cells, col)]
  <2> DEFINE z == Zip(x1, y1)
  <2>1. GrownParagraph(P, t, u, 1)
          = [P EXCEPT !.cells = z, !.break = (1 = 1) /\ P.break,
                      !.floats = IF 1 = 1 THEN P.floats ELSE 0]
    BY DEF GrownParagraph
  <2>2. z \in Seq(CellSet)
    BY <1>10
  <2> HIDE DEF z
  <2>3. [P EXCEPT !.cells = z]
          = [P EXCEPT !.cells = z, !.break = (1 = 1) /\ P.break,
                      !.floats = IF 1 = 1 THEN P.floats ELSE 0]
    BY <1>4, <2>2, Recelled
  <2>4. z = Take(P.cells, col)
    BY <1>6 DEF z
  <2>5. QED
    BY <2>1, <2>3, <2>4
<1>12. GrownParagraph(P, t, u, 2)
         = [P EXCEPT !.cells = Drop(P.cells, col), !.break = FALSE, !.floats = 0]
  <2>1. GrownParagraph(P, t, u, 2)
          = [P EXCEPT !.cells = Zip(x2, y2), !.break = (2 = 1) /\ P.break,
                      !.floats = IF 2 = 1 THEN P.floats ELSE 0]
    BY DEF GrownParagraph
  <2>2. ((2 = 1) /\ P.break) = FALSE /\ (IF 2 = 1 THEN P.floats ELSE 0) = 0
    OBVIOUS
  <2>3. QED
    BY <1>7, <2>1, <2>2
<1> HIDE DEF t, u
<1>13. GrownParagraphs(P, t, u)
         = <<GrownParagraph(P, t, u, 1), GrownParagraph(P, t, u, 2)>>
  <2>1. GrownParagraphs(P, t, u) = [i \in 1 .. 2 |-> GrownParagraph(P, t, u, i)]
    BY <1>9 DEF GrownParagraphs
  <2> DEFINE g1 == GrownParagraph(P, t, u, 1)
             g2 == GrownParagraph(P, t, u, 2)
             g(i) == GrownParagraph(P, t, u, i)
  <2>2. g(1) = g1 /\ g(2) = g2
    OBVIOUS
  <2> HIDE DEF g1, g2, g
  <2>3. [i \in 1 .. 2 |-> g(i)] = <<g1, g2>>
    BY <2>2
  <2>4. QED
    BY <2>1, <2>3 DEF g, g1, g2
<1>14. TextOf(b2) = Splice(TextOf(b), row - 1, row, GrownParagraphs(P, t, u))
  <2>1. Grows(b, b2, fs, row, t, u) /\ Padded(b, fs, row)
    BY <1>2 DEF t, u, x1, x2, y1, y2, f, l, b2
  <2>2. Len(t) - 1 \in Nat /\ Covers(t, u)
    BY <1>9
  <2>3. TextOf(b2) = Splice(TextOf(b), row - 1, row,
                            GrownParagraphs(ParagraphOf(b, row), t, u))
    BY <1>1, <2>1, <2>2, GrownText
  <2>4. QED
    BY <2>3 DEF P
<1>15. TextOf(b2)
         = SubSeq(TextOf(b), 1, row - 1)
             \o <<[P EXCEPT !.cells = SubSeq(P.cells, 1, col)],
                  [P EXCEPT !.cells = SubSeq(P.cells, col + 1, Len(P.cells)),
                            !.break = FALSE, !.floats = 0]>>
             \o SubSeq(TextOf(b), row + 1, Len(TextOf(b)))
  BY <1>11, <1>12, <1>13, <1>14 DEF Splice, Take, Drop
<1>16. QED
  BY <1>5, <1>15 DEF SplitInto, b2

(***************************************************************************)
(* A format is given to what lies between two places.                      *)
(***************************************************************************)
Within(p, c, q, d, i, k) ==
  /\ p < i \/ (p = i /\ c + 1 <= k)
  /\ i < q \/ (i = q /\ k <= d)

\* The cells of row i, those between the two places with the format f.
Painted(cells, p, c, q, d, i, f) ==
  [k \in DOMAIN cells |->
     IF Within(p, c, q, d, i, k) THEN <<cells[k][1], f>> ELSE cells[k]]

FormattedText(t, p, c, q, d, f) ==
  [i \in DOMAIN t |->
     [t[i] EXCEPT !.cells = Painted(t[i].cells, p, c, q, d, i, f)]]

\* The formats of a row, afterwards.
LEMMA PaintedFormats ==
  ASSUME NEW b, Sound(b), Aligned(b), NEW r1 \in 1 .. Len(b.lines),
         NEW c1 \in 0 .. Len(b.lines[r1]), NEW r2 \in r1 .. Len(b.lines),
         NEW c2 \in 0 .. Len(b.lines[r2]), r1 < r2 \/ c1 < c2,
         NEW fmt \in Formats, NEW r \in 1 .. Len(b.lines)
  PROVE  LET g == SetFormatInRange(b, r1, c1, r2, c2, fmt).formats[r]
         IN  /\ Len(g) = Len(b.formats[r])
             /\ \A k \in 1 .. Len(b.formats[r]) :
                  g[k] = IF Within(r1, c1, r2, c2, r, k) THEN fmt
                         ELSE b.formats[r][k]
<1> DEFINE n   == Len(b.lines)
           f   == b.formats[r]
           len == Len(b.lines[r])
           from == IF r = r1 THEN c1 ELSE 0
           to   == IF r = r2 /\ c2 < len THEN c2 ELSE len
           g   == SetFormatInRange(b, r1, c1, r2, c2, fmt).formats[r]
<1>1. /\ Len(b.formats) = n /\ DOMAIN b.formats = 1 .. n /\ n \in Nat
      /\ f \in Seq(Formats) /\ Len(f) = len /\ len \in Nat
  <2>1. Covers(b.lines, b.formats) /\ n \in Nat
    BY SoundFacts
  <2>2. Len(b.formats) = n /\ DOMAIN b.formats = 1 .. n
    BY <2>1, RowFacts DEF Covers
  <2>3. QED
    BY <2>1, <2>2, AlignedFacts
<1>2. DOMAIN f = 1 .. len
  BY <1>1, LenProperties
<1>3. /\ r1 \in Nat /\ r2 \in Nat /\ c1 \in Nat /\ c2 \in Nat /\ r \in Nat
      /\ r1 <= r2 /\ r1 >= 1 /\ r2 <= n
      /\ ~ (r1 = r2 /\ c1 >= c2)
  <2>1. /\ Len(b.lines[r1]) \in Nat /\ Len(b.lines[r2]) \in Nat
        /\ r2 \in 1 .. n
    <3>1. r2 \in 1 .. n
      BY <1>1
    <3>2. QED
      BY <3>1, AlignedFacts
  <2>2. QED
    BY <1>1, <2>1
<1>4. g = IF r \in r1 .. r2
          THEN [i \in DOMAIN f |-> IF from < i /\ i <= to THEN fmt ELSE f[i]]
          ELSE f
  <2>1. ~ (\/ r1 > r2 \/ (r1 = r2 /\ c1 >= c2)
           \/ r1 < 1 \/ r2 > Len(b.formats))
    BY <1>1, <1>3
  <2>2. SetFormatInRange(b, r1, c1, r2, c2, fmt)
          = [b EXCEPT !.formats =
               [x \in DOMAIN @ |->
                  IF x \in r1 .. r2
                  THEN LET ll  == Len(b.lines[x])
                           ff  == IF x = r1 THEN c1 ELSE 0
                           tt  == IF x = r2 /\ c2 < ll THEN c2 ELSE ll
                           row == IF Len(@[x]) < ll THEN Resize(@[x], ll, Plain)
                                  ELSE @[x]
                       IN  [i \in DOMAIN row |->
                              IF ff < i /\ i <= tt THEN fmt ELSE row[i]]
                  ELSE @[x]]]
    BY <2>1 DEF SetFormatInRange
  <2>3. b \in BufferType
    BY DEF Sound
  <2>4. g = IF r \in r1 .. r2
            THEN LET row == IF Len(f) < len THEN Resize(f, len, Plain) ELSE f
                 IN  [i \in DOMAIN row |->
                        IF from < i /\ i <= to THEN fmt ELSE row[i]]
            ELSE f
    BY <1>1, <2>2, <2>3 DEF BufferType
  <2>5. ~ (Len(f) < len)
    BY <1>1
  <2>6. QED
    BY <2>4, <2>5
<1> HIDE DEF g
<1>5. CASE r \in r1 .. r2
  <2> DEFINE h == [i \in DOMAIN f |-> IF from < i /\ i <= to THEN fmt ELSE f[i]]
  <2>1. g = h
    BY <1>4, <1>5
  <2>2. h \in Seq(Formats) /\ Len(h) = Len(f)
    <3> HIDE DEF from, to, f
    <3>1. f \in Seq(Formats)
      BY <1>1
    <3>2. QED
      BY <3>1, PaintFacts
  <2>3. \A k \in 1 .. len :
          h[k] = IF from < k /\ k <= to THEN fmt ELSE f[k]
    BY <1>2
  <2>4. \A k \in 1 .. len :
          (from < k /\ k <= to) <=> Within(r1, c1, r2, c2, r, k)
    <3> HIDE DEF len, n
    <3>1. r >= r1 /\ r <= r2 /\ len \in Nat
      BY <1>1, <1>3, <1>5
    <3>2. r = r2 => c2 <= len
      BY DEF len
    <3>3. QED
      BY <1>3, <3>1, <3>2 DEF Within
  <2> HIDE DEF h, from, to
  <2>5. QED
    BY <1>1, <2>1, <2>2, <2>3, <2>4 DEF g
<1>6. CASE r \notin r1 .. r2
  <2>1. g = f
    BY <1>4, <1>6
  <2>2. \A k \in 1 .. len : ~ Within(r1, c1, r2, c2, r, k)
    BY <1>3, <1>6 DEF Within
  <2>3. QED
    BY <1>1, <2>1, <2>2 DEF g
<1>7. QED
  BY <1>5, <1>6

\* The cells of a row whose formats have changed between two places.
LEMMA PaintedCells ==
  ASSUME NEW l \in Seq(Chars), NEW f \in Seq(Formats), Len(f) = Len(l),
         NEW g \in Seq(Formats), Len(g) = Len(f),
         NEW p, NEW c, NEW q, NEW d, NEW i, NEW fmt \in Formats,
         \A k \in 1 .. Len(f) :
           g[k] = IF Within(p, c, q, d, i, k) THEN fmt ELSE f[k]
  PROVE  Zip(l, g) = Painted(Zip(l, f), p, c, q, d, i, fmt)
<1> DEFINE z == Zip(l, f)
           y == Painted(z, p, c, q, d, i, fmt)
<1>1. Len(l) \in Nat
  BY LenProperties
<1>2. /\ Zip(l, g) \in Seq(CellSet) /\ Len(Zip(l, g)) = Len(l)
      /\ \A k \in 1 .. Len(l) : Zip(l, g)[k] = <<l[k], g[k]>>
  BY <1>1, ZipFacts
<1>3. /\ z \in Seq(CellSet) /\ Len(z) = Len(l)
      /\ \A k \in 1 .. Len(l) : z[k] = <<l[k], f[k]>>
  BY <1>1, ZipFacts
<1> HIDE DEF z
<1>4. DOMAIN z = 1 .. Len(l)
  BY <1>3, LenProperties
<1>5. DOMAIN Zip(l, g) = 1 .. Len(l)
  BY <1>2, LenProperties
<1>6. ASSUME NEW k \in 1 .. Len(l)
      PROVE  y[k] = Zip(l, g)[k]
  <2>1. y[k] = IF Within(p, c, q, d, i, k) THEN <<z[k][1], fmt>> ELSE z[k]
    BY <1>4 DEF Painted
  <2>2. z[k] = <<l[k], f[k]>> /\ Zip(l, g)[k] = <<l[k], g[k]>>
    BY <1>2, <1>3
  <2>3. g[k] = IF Within(p, c, q, d, i, k) THEN fmt ELSE f[k]
    OBVIOUS
  <2>4. z[k][1] = l[k]
    BY <2>2
  <2>5. QED
    BY <2>1, <2>2, <2>3, <2>4
<1>7. y = [k \in 1 .. Len(l) |-> y[k]]
  BY <1>4 DEF Painted
<1>8. Zip(l, g) = [k \in 1 .. Len(l) |-> Zip(l, g)[k]]
  BY <1>5 DEF Zip
<1> HIDE DEF y
<1>9. Zip(l, g) = y
  BY <1>6, <1>7, <1>8
<1>10. QED
  BY <1>9 DEF y, z

LEMMA FormatText ==
  ASSUME NEW b, Sound(b), Aligned(b), NEW r1 \in 1 .. Len(b.lines),
         NEW c1 \in 0 .. Len(b.lines[r1]), NEW r2 \in r1 .. Len(b.lines),
         NEW c2 \in 0 .. Len(b.lines[r2]), r1 < r2 \/ c1 < c2,
         NEW fmt \in Formats
  PROVE  TextOf(SetFormatInRange(b, r1, c1, r2, c2, fmt))
           = FormattedText(TextOf(b), r1, c1, r2, c2, fmt)
<1> DEFINE n  == Len(b.lines)
           b2 == SetFormatInRange(b, r1, c1, r2, c2, fmt)
<1>1. Sound(b2)
  BY SetFormatSound
<1>2. /\ b2.lines = b.lines /\ b2.pageBreakBefore = b.pageBreakBefore
      /\ b2.alignment = b.alignment /\ b2.listLevel = b.listLevel
      /\ b2.anchors = b.anchors
  <2>1. b \in BufferType
    BY DEF Sound
  <2>2. QED
    BY <2>1 DEF SetFormatInRange, BufferType
<1>3. ASSUME NEW r \in 1 .. n
      PROVE  /\ b2.formats[r] \in Seq(Formats)
             /\ Len(b2.formats[r]) = Len(b.formats[r])
             /\ \A k \in 1 .. Len(b.formats[r]) :
                  b2.formats[r][k]
                    = IF Within(r1, c1, r2, c2, r, k) THEN fmt
                      ELSE b.formats[r][k]
  <2>1. /\ Len(b2.formats[r]) = Len(b.formats[r])
        /\ \A k \in 1 .. Len(b.formats[r]) :
             b2.formats[r][k]
               = IF Within(r1, c1, r2, c2, r, k) THEN fmt
                 ELSE b.formats[r][k]
    BY PaintedFormats
  <2> HIDE DEF b2
  <2>2. b2.formats[r] \in Seq(Formats)
    <3>1. Covers(b2.lines, b2.formats) /\ r \in 1 .. Len(b2.lines)
      BY <1>1, <1>2 DEF Sound
    <3>2. QED
      BY <3>1, RowFacts
  <2>3. QED
    BY <2>1, <2>2
<1> HIDE DEF b2
<1>4. ASSUME NEW r \in 1 .. n
      PROVE  ParagraphOf(b2, r)
               = [ParagraphOf(b, r) EXCEPT
                    !.cells = Painted(ParagraphOf(b, r).cells,
                                      r1, c1, r2, c2, r, fmt)]
  <2> DEFINE P == ParagraphOf(b, r)
             Q == ParagraphOf(b2, r)
             z == Painted(P.cells, r1, c1, r2, c2, r, fmt)
  <2>1. /\ P \in ParagraphSet /\ P.cells = Zip(b.lines[r], b.formats[r])
        /\ P.break = b.pageBreakBefore[r] /\ P.align = b.alignment[r]
        /\ P.level = b.listLevel[r] /\ P.floats = FloatsAt(b.anchors, r)
    BY ParagraphFacts
  <2>2. /\ Q \in ParagraphSet /\ Q.cells = Zip(b2.lines[r], b2.formats[r])
        /\ Q.break = b2.pageBreakBefore[r] /\ Q.align = b2.alignment[r]
        /\ Q.level = b2.listLevel[r] /\ Q.floats = FloatsAt(b2.anchors, r)
    <3>1. r \in 1 .. Len(b2.lines)
      BY <1>2
    <3>2. QED
      BY <1>1, <3>1, ParagraphFacts
  <2>3. Zip(b.lines[r], b2.formats[r]) = z
    <3> DEFINE l == b.lines[r]
               f == b.formats[r]
               g == b2.formats[r]
    <3>1. l \in Seq(Chars) /\ f \in Seq(Formats) /\ Len(f) = Len(l)
      BY AlignedFacts
    <3>2. /\ g \in Seq(Formats) /\ Len(g) = Len(f)
          /\ \A k \in 1 .. Len(f) :
               g[k] = IF Within(r1, c1, r2, c2, r, k) THEN fmt ELSE f[k]
      BY <1>3
    <3> HIDE DEF l, f, g
    <3>3. Zip(l, g) = Painted(Zip(l, f), r1, c1, r2, c2, r, fmt)
      BY <3>1, <3>2, PaintedCells
    <3>4. QED
      BY <2>1, <3>3 DEF l, f, g
  <2> HIDE DEF P, Q, z
  <2>4. Q.cells = z /\ Q.cells \in Seq(CellSet)
    BY <1>2, <2>2, <2>3 DEF ParagraphSet
  <2>5. /\ [P EXCEPT !.cells = z] \in ParagraphSet
        /\ [P EXCEPT !.cells = z].cells = z
        /\ [P EXCEPT !.cells = z].break = P.break
        /\ [P EXCEPT !.cells = z].align = P.align
        /\ [P EXCEPT !.cells = z].level = P.level
        /\ [P EXCEPT !.cells = z].floats = P.floats
    BY <2>1, <2>4 DEF ParagraphSet
  <2> DEFINE w == [P EXCEPT !.cells = z]
  <2> HIDE DEF w
  <2>6. Q = w
    <3>1. w \in ParagraphSet /\ w.cells = z /\ w.break = P.break
          /\ w.align = P.align /\ w.level = P.level /\ w.floats = P.floats
      BY <2>5 DEF w
    <3>2. QED
      BY <1>2, <2>1, <2>2, <2>4, <3>1, ParagraphEqual
  <2>7. QED
    BY <2>6 DEF w, P, Q, z
<1>5. DOMAIN TextOf(b) = 1 .. n /\ \A r \in 1 .. n : TextOf(b)[r] = ParagraphOf(b, r)
  BY TextFacts
<1>6. DOMAIN b2.lines = 1 .. n
  BY <1>2, SoundFacts
<1>7. TextOf(b2)
        = [i \in 1 .. n |->
             [TextOf(b)[i] EXCEPT
                !.cells = Painted(TextOf(b)[i].cells, r1, c1, r2, c2, i, fmt)]]
  <2> DEFINE h(i) == [ParagraphOf(b, i) EXCEPT
                        !.cells = Painted(ParagraphOf(b, i).cells,
                                          r1, c1, r2, c2, i, fmt)]
             h2(i) == [TextOf(b)[i] EXCEPT
                        !.cells = Painted(TextOf(b)[i].cells,
                                          r1, c1, r2, c2, i, fmt)]
  <2>1. TextOf(b2) = [i \in 1 .. n |-> ParagraphOf(b2, i)]
    BY <1>6 DEF TextOf
  <2>2. \A i \in 1 .. n : ParagraphOf(b2, i) = h(i)
    BY <1>4
  <2>3. \A i \in 1 .. n : h(i) = h2(i)
    BY <1>5
  <2> HIDE DEF h, h2
  <2>4. TextOf(b2) = [i \in 1 .. n |-> h2(i)]
    BY <2>1, <2>2, <2>3
  <2>5. QED
    BY <2>4 DEF h2
<1>8. QED
  BY <1>5, <1>7 DEF FormattedText, b2

(***************************************************************************)
(* The state of one paragraph, or the floats on it.                        *)
(***************************************************************************)
\* Nothing but one paragraph has changed.
OnlyAt(b, b2, row) ==
  /\ Len(b2.lines) = Len(b.lines)
  /\ \A r \in 1 .. Len(b.lines) : r # row => SameAt(b, r, b2, r)

LEMMA OneParagraph ==
  ASSUME NEW b, Sound(b), NEW b2, Sound(b2), NEW row \in 1 .. Len(b.lines),
         OnlyAt(b, b2, row)
  PROVE  TextOf(b2) = [TextOf(b) EXCEPT ![row] = ParagraphOf(b2, row)]
<1> DEFINE n == Len(b.lines)
           t == TextOf(b)
           u == TextOf(b2)
<1>1. DOMAIN t = 1 .. n /\ \A r \in 1 .. n : t[r] = ParagraphOf(b, r)
  BY TextFacts
<1>2. /\ DOMAIN u = 1 .. n
      /\ \A r \in 1 .. n : u[r] = ParagraphOf(b2, r)
  BY TextFacts DEF OnlyAt
<1>3. ASSUME NEW r \in 1 .. n, r # row
      PROVE  ParagraphOf(b2, r) = ParagraphOf(b, r)
  <2>1. SameAt(b, r, b2, r) /\ r \in 1 .. Len(b2.lines)
    BY <1>3 DEF OnlyAt
  <2>2. QED
    BY <2>1, SameParagraph
<1>4. u = [r \in 1 .. n |-> u[r]]
  BY <1>2 DEF TextOf
<1>5. t = [r \in 1 .. n |-> t[r]]
  BY <1>1 DEF TextOf
<1> HIDE DEF t, u, n
<1>6. u = [t EXCEPT ![row] = ParagraphOf(b2, row)]
  <2> DEFINE w == [t EXCEPT ![row] = ParagraphOf(b2, row)]
  <2>1. \A r \in 1 .. n : w[r] = u[r]
    BY <1>1, <1>2, <1>3
  <2>2. w = [r \in 1 .. n |-> w[r]]
    BY <1>1, <1>5
  <2> HIDE DEF w
  <2>3. w = u
    BY <1>4, <2>1, <2>2
  <2>4. QED
    BY <2>3 DEF w
<1>7. QED
  BY <1>6 DEF t, u

LEMMA PageBreakText ==
  ASSUME NEW b, Sound(b), NEW row \in 1 .. Len(b.lines), NEW on \in BOOLEAN
  PROVE  TextOf(SetPageBreakBefore(b, row, on))
           = [TextOf(b) EXCEPT ![row].break = on]
<1> DEFINE n   == Len(b.lines)
           new == [b.pageBreakBefore EXCEPT ![row] = on]
           b2  == SetPageBreakBefore(b, row, on)
<1>1. Sound(b2)
  BY SetPageBreakSound
<1>2. /\ DOMAIN b.pageBreakBefore = 1 .. n
  BY PartFacts, LenProperties
<1>3. /\ b2.lines = b.lines /\ b2.formats = b.formats
      /\ b2.pageBreakBefore = new
      /\ b2.alignment = b.alignment /\ b2.listLevel = b.listLevel
      /\ b2.anchors = b.anchors
  <2>1. b \in BufferType
    BY DEF Sound
  <2>2. b2 = [b EXCEPT !.pageBreakBefore = new]
    BY <1>2 DEF SetPageBreakBefore
  <2> HIDE DEF b2, new
  <2>3. QED
    BY <2>1, <2>2 DEF BufferType
<1>4. new[row] = on /\ \A r \in 1 .. n : r # row => new[r] = b.pageBreakBefore[r]
  BY <1>2
<1> HIDE DEF b2, new
<1>5. OnlyAt(b, b2, row)
  BY <1>3, <1>4 DEF OnlyAt, SameAt
<1>6. /\ ParagraphOf(b, row) \in ParagraphSet
      /\ ParagraphOf(b, row).cells = Zip(b.lines[row], b.formats[row])
      /\ ParagraphOf(b, row).break = b.pageBreakBefore[row]
      /\ ParagraphOf(b, row).align = b.alignment[row]
      /\ ParagraphOf(b, row).level = b.listLevel[row]
      /\ ParagraphOf(b, row).floats = FloatsAt(b.anchors, row)
  BY ParagraphFacts
<1>7. /\ ParagraphOf(b2, row) \in ParagraphSet
      /\ ParagraphOf(b2, row).cells = Zip(b2.lines[row], b2.formats[row])
      /\ ParagraphOf(b2, row).break = b2.pageBreakBefore[row]
      /\ ParagraphOf(b2, row).align = b2.alignment[row]
      /\ ParagraphOf(b2, row).level = b2.listLevel[row]
      /\ ParagraphOf(b2, row).floats = FloatsAt(b2.anchors, row)
  <2>1. row \in 1 .. Len(b2.lines)
    BY <1>3
  <2>2. QED
    BY <1>1, <2>1, ParagraphFacts
<1> DEFINE P == ParagraphOf(b, row)
           Q == ParagraphOf(b2, row)
<1> HIDE DEF P, Q
<1>8. Q = [P EXCEPT !.break = on]
  BY <1>3, <1>4, <1>6, <1>7 DEF ParagraphSet, P, Q
<1>9. TextOf(b)[row] = P
  BY TextFacts DEF P
<1>10. TextOf(b2) = [TextOf(b) EXCEPT ![row] = Q]
  BY <1>1, <1>5, OneParagraph DEF Q
<1>11. QED
  BY <1>8, <1>9, <1>10 DEF b2

LEMMA AlignmentText ==
  ASSUME NEW b, Sound(b), NEW row \in 1 .. Len(b.lines), NEW a \in Alignments
  PROVE  TextOf(SetAlignment(b, row, a))
           = [TextOf(b) EXCEPT ![row].align = a]
<1> DEFINE n   == Len(b.lines)
           new == [b.alignment EXCEPT ![row] = a]
           b2  == SetAlignment(b, row, a)
<1>1. Sound(b2)
  BY SetAlignmentSound
<1>2. /\ DOMAIN b.alignment = 1 .. n
  BY PartFacts, LenProperties
<1>3. /\ b2.lines = b.lines /\ b2.formats = b.formats
      /\ b2.alignment = new
      /\ b2.pageBreakBefore = b.pageBreakBefore /\ b2.listLevel = b.listLevel
      /\ b2.anchors = b.anchors
  <2>1. b \in BufferType
    BY DEF Sound
  <2>2. b2 = [b EXCEPT !.alignment = new]
    BY <1>2 DEF SetAlignment
  <2> HIDE DEF b2, new
  <2>3. QED
    BY <2>1, <2>2 DEF BufferType
<1>4. new[row] = a /\ \A r \in 1 .. n : r # row => new[r] = b.alignment[r]
  BY <1>2
<1> HIDE DEF b2, new
<1>5. OnlyAt(b, b2, row)
  BY <1>3, <1>4 DEF OnlyAt, SameAt
<1>6. /\ ParagraphOf(b, row) \in ParagraphSet
      /\ ParagraphOf(b, row).cells = Zip(b.lines[row], b.formats[row])
      /\ ParagraphOf(b, row).break = b.pageBreakBefore[row]
      /\ ParagraphOf(b, row).align = b.alignment[row]
      /\ ParagraphOf(b, row).level = b.listLevel[row]
      /\ ParagraphOf(b, row).floats = FloatsAt(b.anchors, row)
  BY ParagraphFacts
<1>7. /\ ParagraphOf(b2, row) \in ParagraphSet
      /\ ParagraphOf(b2, row).cells = Zip(b2.lines[row], b2.formats[row])
      /\ ParagraphOf(b2, row).break = b2.pageBreakBefore[row]
      /\ ParagraphOf(b2, row).align = b2.alignment[row]
      /\ ParagraphOf(b2, row).level = b2.listLevel[row]
      /\ ParagraphOf(b2, row).floats = FloatsAt(b2.anchors, row)
  <2>1. row \in 1 .. Len(b2.lines)
    BY <1>3
  <2>2. QED
    BY <1>1, <2>1, ParagraphFacts
<1> DEFINE P == ParagraphOf(b, row)
           Q == ParagraphOf(b2, row)
<1> HIDE DEF P, Q
<1>8. Q = [P EXCEPT !.align = a]
  BY <1>3, <1>4, <1>6, <1>7 DEF ParagraphSet, P, Q
<1>9. TextOf(b)[row] = P
  BY TextFacts DEF P
<1>10. TextOf(b2) = [TextOf(b) EXCEPT ![row] = Q]
  BY <1>1, <1>5, OneParagraph DEF Q
<1>11. QED
  BY <1>8, <1>9, <1>10 DEF b2

LEMMA LevelByteText ==
  ASSUME NEW b, Sound(b), NEW row \in 1 .. Len(b.lines), NEW v \in Nat
  PROVE  TextOf([b EXCEPT !.listLevel = [b.listLevel EXCEPT ![row] = v]])
           = [TextOf(b) EXCEPT ![row].level = v]
<1> DEFINE n   == Len(b.lines)
           new == [b.listLevel EXCEPT ![row] = v]
           b2  == [b EXCEPT !.listLevel = [b.listLevel EXCEPT ![row] = v]]
<1>1. Sound(b2)
  <2>1. row \in DOMAIN b.listLevel
    BY PartFacts, LenProperties
  <2>2. QED
    BY <2>1, SetLevelByteSound
<1>2. /\ DOMAIN b.listLevel = 1 .. n
  BY PartFacts, LenProperties
<1>3. /\ b2.lines = b.lines /\ b2.formats = b.formats
      /\ b2.listLevel = new
      /\ b2.pageBreakBefore = b.pageBreakBefore /\ b2.alignment = b.alignment
      /\ b2.anchors = b.anchors
  <2>1. b \in BufferType
    BY DEF Sound
  <2>2. b2 = [b EXCEPT !.listLevel = new]
    OBVIOUS
  <2> HIDE DEF b2, new
  <2>3. QED
    BY <2>1, <2>2 DEF BufferType
<1>4. new[row] = v /\ \A r \in 1 .. n : r # row => new[r] = b.listLevel[r]
  BY <1>2
<1> HIDE DEF b2, new
<1>5. OnlyAt(b, b2, row)
  BY <1>3, <1>4 DEF OnlyAt, SameAt
<1>6. /\ ParagraphOf(b, row) \in ParagraphSet
      /\ ParagraphOf(b, row).cells = Zip(b.lines[row], b.formats[row])
      /\ ParagraphOf(b, row).break = b.pageBreakBefore[row]
      /\ ParagraphOf(b, row).align = b.alignment[row]
      /\ ParagraphOf(b, row).level = b.listLevel[row]
      /\ ParagraphOf(b, row).floats = FloatsAt(b.anchors, row)
  BY ParagraphFacts
<1>7. /\ ParagraphOf(b2, row) \in ParagraphSet
      /\ ParagraphOf(b2, row).cells = Zip(b2.lines[row], b2.formats[row])
      /\ ParagraphOf(b2, row).break = b2.pageBreakBefore[row]
      /\ ParagraphOf(b2, row).align = b2.alignment[row]
      /\ ParagraphOf(b2, row).level = b2.listLevel[row]
      /\ ParagraphOf(b2, row).floats = FloatsAt(b2.anchors, row)
  <2>1. row \in 1 .. Len(b2.lines)
    BY <1>3
  <2>2. QED
    BY <1>1, <2>1, ParagraphFacts
<1> DEFINE P == ParagraphOf(b, row)
           Q == ParagraphOf(b2, row)
<1> HIDE DEF P, Q
<1>8. Q = [P EXCEPT !.level = v]
  BY <1>3, <1>4, <1>6, <1>7 DEF ParagraphSet, P, Q
<1>9. TextOf(b)[row] = P
  BY TextFacts DEF P
<1>10. TextOf(b2) = [TextOf(b) EXCEPT ![row] = Q]
  BY <1>1, <1>5, OneParagraph DEF Q
<1>11. QED
  BY <1>8, <1>9, <1>10 DEF b2

(***************************************************************************)
(* The packed bytes of the lists are those StyledText has for levels: the  *)
(* setters make no others, and rows take theirs over from rows.            *)
(***************************************************************************)
Bytes(b) == b.listLevel \in Seq(ListBytes)

LEMMA ByteParts ==
  ASSUME NEW v \in ListBytes
  PROVE  /\ v \in Nat
         /\ v = 0 \/ \E level \in Levels \ {0}, flag \in {0, NumberedFlag} :
                       /\ v = level + flag /\ level \in 1 .. 63
                       /\ v % NumberedFlag = level
<1>1. CASE v = 0
  BY <1>1
<1>2. CASE v # 0
  <2>1. PICK level \in Levels \ {0}, flag \in {0, NumberedFlag} : v = level + flag
    BY <1>2 DEF ListBytes
  <2>2. level \in 1 .. 63
    BY LevelsAssumption DEF NumberedFlag
  <2>3. v \in Nat /\ v % NumberedFlag = level
    BY <2>1, <2>2 DEF NumberedFlag
  <2>4. QED
    BY <2>1, <2>2, <2>3
<1>3. QED
  BY <1>1, <1>2

\* A byte of a level, whichever kind its list is of.
LEMMA ByteMade ==
  ASSUME NEW level \in Levels \ {0}, NEW flag \in {0, NumberedFlag}
  PROVE  level + flag \in ListBytes
<1>1. level \in 1 .. 63
  BY LevelsAssumption DEF NumberedFlag
<1>2. CASE flag = 0
  BY <1>1, <1>2 DEF ListBytes
<1>3. CASE flag = NumberedFlag
  BY <1>3 DEF ListBytes
<1>4. QED
  BY <1>2, <1>3

LEMMA LevelByte ==
  ASSUME NEW v \in ListBytes, NEW level \in Levels
  PROVE  (IF level = 0 THEN 0 ELSE v - (v % NumberedFlag) + level) \in ListBytes
<1>1. CASE level = 0
  BY <1>1 DEF ListBytes
<1>2. CASE level # 0 /\ v = 0
  <2>1. level \in 1 .. 63
    BY <1>2, LevelsAssumption DEF NumberedFlag
  <2>2. v - (v % NumberedFlag) + level = level + 0
    BY <1>2, <2>1 DEF NumberedFlag
  <2>3. level + 0 \in ListBytes
    BY <1>2, ByteMade
  <2>4. QED
    BY <1>2, <2>2, <2>3
<1>3. CASE level # 0 /\ v # 0
  <2>1. level \in 1 .. 63
    BY <1>3, LevelsAssumption DEF NumberedFlag
  <2>2. PICK old \in Levels \ {0}, flag \in {0, NumberedFlag} :
          v = old + flag /\ old \in 1 .. 63 /\ v % NumberedFlag = old
    BY <1>3, ByteParts
  <2>3. v - (v % NumberedFlag) + level = level + flag
    BY <2>1, <2>2 DEF NumberedFlag
  <2>4. level + flag \in ListBytes
    BY <1>3, ByteMade
  <2>5. QED
    BY <1>3, <2>3, <2>4
<1>4. QED
  BY <1>1, <1>2, <1>3

LEMMA KindByte ==
  ASSUME NEW v \in ListBytes, v % NumberedFlag # 0, NEW numbered \in BOOLEAN
  PROVE  (v % NumberedFlag) + (IF numbered THEN NumberedFlag ELSE 0) \in ListBytes
<1>1. v # 0
  BY DEF NumberedFlag
<1>2. PICK old \in Levels \ {0}, flag \in {0, NumberedFlag} : v % NumberedFlag = old
  BY <1>1, ByteParts
<1>3. (IF numbered THEN NumberedFlag ELSE 0) \in {0, NumberedFlag}
  OBVIOUS
<1>4. QED
  BY <1>2, <1>3, ByteMade

\* The byte of a row that has one.
LEMMA RowByte ==
  ASSUME NEW b, Sound(b), Bytes(b), NEW row \in 1 .. Len(b.lines)
  PROVE  b.listLevel[row] \in ListBytes /\ row \in DOMAIN b.listLevel
<1>1. Len(b.listLevel) = Len(b.lines)
  BY PartFacts
<1>2. QED
  BY <1>1, ElementOfSeq, LenProperties DEF Bytes

\* One row enters a list, leaves it, or is indented.
LEMMA ListLevelText ==
  ASSUME NEW b, Sound(b), Bytes(b), NEW row \in 1 .. Len(b.lines),
         NEW level \in Levels
  PROVE  \E x \in ListBytes :
           /\ SetListLevel(b, row, level)
                = [b EXCEPT !.listLevel = [b.listLevel EXCEPT ![row] = x]]
           /\ TextOf(SetListLevel(b, row, level))
                = [TextOf(b) EXCEPT ![row].level = x]
<1> DEFINE old == b.listLevel[row]
           v   == IF level = 0 THEN 0 ELSE old - (old % NumberedFlag) + level
<1>1. old \in ListBytes /\ row \in DOMAIN b.listLevel
  BY RowByte
<1>2. SetListLevel(b, row, level)
        = [b EXCEPT !.listLevel = [b.listLevel EXCEPT ![row] = v]]
  BY <1>1 DEF SetListLevel
<1> HIDE DEF old
<1>3. v \in ListBytes
  BY <1>1, LevelByte
<1> HIDE DEF v
<1>4. v \in Nat
  BY <1>3, ByteParts
<1>5. TextOf([b EXCEPT !.listLevel = [b.listLevel EXCEPT ![row] = v]])
        = [TextOf(b) EXCEPT ![row].level = v]
  BY <1>4, LevelByteText
<1>6. QED
  BY <1>2, <1>3, <1>5

\* One row is numbered or given a bullet, if it is in a list.
LEMMA ListNumberedText ==
  ASSUME NEW b, Sound(b), Bytes(b), NEW row \in 1 .. Len(b.lines),
         NEW numbered \in BOOLEAN
  PROVE  \/ SetListNumbered(b, row, numbered) = b
         \/ \E x \in ListBytes :
              /\ SetListNumbered(b, row, numbered)
                   = [b EXCEPT !.listLevel = [b.listLevel EXCEPT ![row] = x]]
              /\ TextOf(SetListNumbered(b, row, numbered))
                   = [TextOf(b) EXCEPT ![row].level = x]
<1> DEFINE old == b.listLevel[row]
           v   == (old % NumberedFlag) + (IF numbered THEN NumberedFlag ELSE 0)
<1>1. old \in ListBytes /\ row \in DOMAIN b.listLevel
  BY RowByte
<1>2. SetListNumbered(b, row, numbered)
        = IF old % NumberedFlag = 0 THEN b
          ELSE [b EXCEPT !.listLevel = [b.listLevel EXCEPT ![row] = v]]
  BY <1>1 DEF SetListNumbered, ListLevel, RowValue
<1> HIDE DEF old
<1>3. CASE old % NumberedFlag # 0
  <2>1. v \in ListBytes
    BY <1>1, <1>3, KindByte
  <2> HIDE DEF v
  <2>2. v \in Nat
    BY <2>1, ByteParts
  <2>3. TextOf([b EXCEPT !.listLevel = [b.listLevel EXCEPT ![row] = v]])
          = [TextOf(b) EXCEPT ![row].level = v]
    BY <2>2, LevelByteText
  <2>4. QED
    BY <1>2, <1>3, <2>1, <2>3
<1>4. QED
  BY <1>2, <1>3

\* Edits that leave the bytes alone.
LEMMA BytesTyped ==
  ASSUME NEW b, Sound(b), Bytes(b), NEW row, NEW col, NEW ch, NEW fmt
  PROVE  Bytes(InsertChar(b, col, row, ch, fmt))
<1>1. b \in BufferType
  BY DEF Sound
<1>2. InsertChar(b, col, row, ch, fmt).listLevel = b.listLevel
  BY <1>1 DEF InsertChar, BufferType
<1>3. QED
  BY <1>2 DEF Bytes

LEMMA BytesFormatted ==
  ASSUME NEW b, Sound(b), Bytes(b), NEW r1, NEW c1, NEW r2, NEW c2, NEW fmt
  PROVE  Bytes(SetFormatInRange(b, r1, c1, r2, c2, fmt))
<1>1. b \in BufferType
  BY DEF Sound
<1>2. SetFormatInRange(b, r1, c1, r2, c2, fmt).listLevel = b.listLevel
  BY <1>1 DEF SetFormatInRange, BufferType
<1>3. QED
  BY <1>2 DEF Bytes

LEMMA BytesUntouched ==
  ASSUME NEW b, Sound(b), Bytes(b), NEW row
  PROVE  /\ \A on \in BOOLEAN : Bytes(SetPageBreakBefore(b, row, on))
         /\ \A a \in Alignments : Bytes(SetAlignment(b, row, a))
         /\ \A an : Bytes([b EXCEPT !.anchors = an])
<1>1. b \in BufferType
  BY DEF Sound
<1>2. \A on \in BOOLEAN : SetPageBreakBefore(b, row, on).listLevel = b.listLevel
  BY <1>1 DEF SetPageBreakBefore, BufferType
<1>3. \A a \in Alignments : SetAlignment(b, row, a).listLevel = b.listLevel
  BY <1>1 DEF SetAlignment, BufferType
<1>4. \A an : [b EXCEPT !.anchors = an].listLevel = b.listLevel
  BY <1>1 DEF BufferType
<1>5. QED
  BY <1>2, <1>3, <1>4 DEF Bytes

\* A joined row takes its byte along.
LEMMA BytesWithoutRow ==
  ASSUME NEW b, Sound(b), Bytes(b), NEW r \in 2 .. Len(b.lines), NEW ls, NEW fs
  PROVE  Bytes(WithoutRow([b EXCEPT !.lines = ls, !.formats = fs], r))
<1>1. b \in BufferType /\ Len(b.listLevel) = Len(b.lines) /\ Len(b.lines) \in Nat
  BY PartFacts DEF Sound
<1>2. WithoutRow([b EXCEPT !.lines = ls, !.formats = fs], r).listLevel
        = EraseIfPresent(b.listLevel, r)
  BY <1>1 DEF WithoutRow, BufferType
<1>3. b.listLevel \in Seq(ListBytes) /\ r \in 1 .. Len(b.listLevel)
  BY <1>1 DEF Bytes
<1>4. EraseIfPresent(b.listLevel, r) \in Seq(ListBytes)
  BY <1>3, EraseOneFacts
<1>5. QED
  BY <1>2, <1>4 DEF Bytes

LEMMA BytesErased ==
  ASSUME NEW b, Sound(b), Bytes(b), NEW row \in 1 .. Len(b.lines),
         NEW col \in 0 .. Len(b.lines[row])
  PROVE  Bytes(Backspace(b, col, row)) /\ Bytes(DeleteForward(b, col, row))
<1>1. b \in BufferType /\ DOMAIN b.lines = 1 .. Len(b.lines) /\ Len(b.lines) \in Nat
  BY SoundFacts DEF Sound
<1>2. Bytes(Backspace(b, col, row))
  <2>1. CASE col > 0
    <3>1. Backspace(b, col, row).listLevel = b.listLevel
      BY <1>1, <2>1 DEF Backspace, BufferType
    <3>2. QED
      BY <3>1 DEF Bytes
  <2>2. CASE ~ (col > 0) /\ row > 1
    <3> DEFINE ls == BackspaceText(b.lines, col, row)
               fs == JoinRows(b.formats, row)
    <3>1. Backspace(b, col, row)
            = WithoutRow([b EXCEPT !.lines = ls, !.formats = fs], row)
      BY <1>1, <2>2 DEF Backspace
    <3> HIDE DEF ls, fs
    <3>2. row \in 2 .. Len(b.lines)
      BY <1>1, <2>2
    <3>3. Bytes(WithoutRow([b EXCEPT !.lines = ls, !.formats = fs], row))
      BY <3>2, BytesWithoutRow
    <3>4. QED
      BY <3>1, <3>3
  <2>3. CASE ~ (col > 0) /\ ~ (row > 1)
    BY <1>1, <2>3 DEF Backspace
  <2>4. QED
    BY <2>1, <2>2, <2>3
<1>3. Bytes(DeleteForward(b, col, row))
  <2>1. CASE col < Len(b.lines[row])
    <3>1. DeleteForward(b, col, row).listLevel = b.listLevel
      BY <1>1, <2>1 DEF DeleteForward, BufferType
    <3>2. QED
      BY <3>1 DEF Bytes
  <2>2. CASE ~ (col < Len(b.lines[row])) /\ row < Len(b.lines)
    <3> DEFINE ls == DeleteForwardText(b.lines, col, row)
               fs == JoinRows(b.formats, row + 1)
    <3>1. DeleteForward(b, col, row)
            = WithoutRow([b EXCEPT !.lines = ls, !.formats = fs], row + 1)
      BY <1>1, <2>2 DEF DeleteForward
    <3> HIDE DEF ls, fs
    <3>2. row + 1 \in 2 .. Len(b.lines)
      BY <1>1, <2>2
    <3>3. Bytes(WithoutRow([b EXCEPT !.lines = ls, !.formats = fs], row + 1))
      BY <3>2, BytesWithoutRow
    <3>4. QED
      BY <3>1, <3>3
  <2>3. CASE ~ (col < Len(b.lines[row])) /\ ~ (row < Len(b.lines))
    BY <1>1, <2>3 DEF DeleteForward
  <2>4. QED
    BY <2>1, <2>2, <2>3
<1>4. QED
  BY <1>2, <1>3

\* New rows take their byte over from the row above them.
LEMMA BytesGrown ==
  ASSUME NEW b, Sound(b), Bytes(b), NEW row \in 1 .. Len(b.lines),
         NEW col \in 0 .. Len(b.lines[row])
  PROVE  /\ Bytes(InsertNewline(b, col, row))
         /\ \A parts \in Pastes, fmt \in Formats :
              Bytes(InsertText(b, col, row, parts, fmt))
<1> DEFINE s == b.listLevel
           S == ListBytes
<1>1. b \in BufferType /\ DOMAIN b.lines = 1 .. Len(b.lines)
  BY SoundFacts DEF Sound
<1>2. /\ s \in Seq(S) /\ Len(s) = Len(b.lines) /\ 0 \in S
      /\ row \in 1 .. Len(s)
  BY PartFacts DEF Bytes, ListBytes
<1>3. RowValue(s, row, 0) \in S
  <2> HIDE DEF S, s
  <2>1. QED
    BY <1>2, RowValueFacts
<1>4. Bytes(InsertNewline(b, col, row))
  <2>1. InsertNewline(b, col, row).listLevel
          = InsertBelow(s, row, RowValue(s, row, 0))
    BY <1>1 DEF InsertNewline
  <2> HIDE DEF S, s
  <2>2. InsertBelow(s, row, RowValue(s, row, 0)) \in Seq(S)
    BY <1>2, <1>3, InsertBelowFacts
  <2>3. QED
    BY <2>1, <2>2 DEF Bytes, S
<1>5. ASSUME NEW parts \in Pastes, NEW fmt \in Formats
      PROVE  Bytes(InsertText(b, col, row, parts, fmt))
  <2>1. Len(parts) \in Nat /\ Len(parts) >= 1
    <3> DEFINE m == Len(parts)
    <3>1. parts \in Seq(Seq(Chars)) /\ parts # << >>
      BY PastesAssumption
    <3>2. m \in Nat /\ m # 0
      BY <3>1, LenProperties, EmptySeq
    <3> HIDE DEF m
    <3>3. m \in Nat /\ m >= 1
      BY <3>2
    <3>4. QED
      BY <3>3 DEF m
  <2> DEFINE k == Len(parts) - 1
  <2>2. k \in Nat
    <3> DEFINE m == Len(parts)
    <3> HIDE DEF m
    <3>1. m - 1 \in Nat
      BY <2>1 DEF m
    <3>2. QED
      BY <3>1 DEF m
  <2>3. \/ InsertText(b, col, row, parts, fmt).listLevel = s
        \/ InsertText(b, col, row, parts, fmt).listLevel
             = Splice(s, row, row, Fill(k, RowValue(s, row, 0)))
    BY <1>1 DEF InsertText, BufferType
  <2> HIDE DEF S, s, k
  <2>4. Splice(s, row, row, Fill(k, RowValue(s, row, 0))) \in Seq(S)
    <3> DEFINE n == Len(s)
    <3>1. n \in Nat /\ row \in 1 .. n
      BY <1>2, LenProperties
    <3>2. QED
      BY <1>2, <1>3, <2>2, <3>1, InsertRowsFacts
  <2>5. QED
    BY <1>2, <2>3, <2>4 DEF Bytes, S
<1>6. QED
  BY <1>4, <1>5

LEMMA BytesCut ==
  ASSUME NEW b, Sound(b), Bytes(b), NEW r1 \in 1 .. Len(b.lines), NEW c1,
         NEW r2 \in r1 .. Len(b.lines), NEW c2
  PROVE  Bytes(DeleteRange(b, r1, c1, r2, c2))
<1> DEFINE n == Len(b.lines)
<1>1. /\ b \in BufferType /\ n \in Nat /\ Len(b.listLevel) = n
      /\ b.listLevel \in Seq(ListBytes)
  BY PartFacts DEF Sound, Bytes
<1>2. Clamp(r1, 1, n) = r1 /\ Clamp(r2, 1, n) = r2
  BY <1>1 DEF Clamp
<1>3. CASE r1 = r2
  <2>1. DeleteRange(b, r1, c1, r2, c2).listLevel = b.listLevel
    BY <1>1, <1>2, <1>3 DEF DeleteRange, BufferType
  <2>2. QED
    BY <2>1 DEF Bytes
<1>4. CASE r1 # r2
  <2>1. DeleteRange(b, r1, c1, r2, c2).listLevel
          = EraseRowsPresent(b.listLevel, r1 + 1, r2)
    BY <1>1, <1>2, <1>4 DEF DeleteRange
  <2>2. r1 + 1 \in 1 .. n /\ r2 \in r1 + 1 .. n
    BY <1>1, <1>4
  <2>3. EraseRowsPresent(b.listLevel, r1 + 1, r2) \in Seq(ListBytes)
    BY <1>1, <2>2, EraseRangeFacts
  <2>4. QED
    BY <2>1, <2>3 DEF Bytes
<1>5. QED
  BY <1>3, <1>4

LEMMA BytesListed ==
  ASSUME NEW b, Sound(b), Bytes(b), NEW row \in 1 .. Len(b.lines)
  PROVE  /\ \A level \in Levels : Bytes(SetListLevel(b, row, level))
         /\ \A numbered \in BOOLEAN : Bytes(SetListNumbered(b, row, numbered))
<1>1. ASSUME NEW x \in ListBytes
      PROVE  Bytes([b EXCEPT !.listLevel = [b.listLevel EXCEPT ![row] = x]])
  <2> DEFINE s == b.listLevel
             S == ListBytes
  <2>1. /\ b \in BufferType /\ s \in Seq(S) /\ row \in 1 .. Len(s) /\ x \in S
    BY PartFacts DEF Sound, Bytes
  <2>2. [b EXCEPT !.listLevel = [s EXCEPT ![row] = x]].listLevel
          = [s EXCEPT ![row] = x]
    BY <2>1 DEF BufferType
  <2> HIDE DEF s, S
  <2>3. [s EXCEPT ![row] = x] \in Seq(S)
    BY <2>1, SetOneFacts
  <2>4. QED
    BY <2>2, <2>3 DEF Bytes, s, S
<1>2. ASSUME NEW level \in Levels
      PROVE  Bytes(SetListLevel(b, row, level))
  BY <1>1, ListLevelText
<1>3. ASSUME NEW numbered \in BOOLEAN
      PROVE  Bytes(SetListNumbered(b, row, numbered))
  BY <1>1, ListNumberedText
<1>4. QED
  BY <1>2, <1>3

LEMMA BytesRestored ==
  ASSUME NEW b, Sound(b), Bytes(b)
  PROVE  Bytes(Restored(b))
<1>1. b \in BufferType /\ Len(b.lines) \in Nat /\ 0 \in ListBytes
      /\ b.listLevel \in Seq(ListBytes)
  BY DEF Sound, Bytes, ListBytes
<1>2. Restored(b).listLevel = Resize(b.listLevel, Len(b.lines), 0)
  BY <1>1 DEF Restored, BufferType
<1>3. Resize(b.listLevel, Len(b.lines), 0) \in Seq(ListBytes)
  BY <1>1, ResizeFacts
<1>4. QED
  BY <1>2, <1>3 DEF Bytes

LEMMA StepBytes ==
  ASSUME Sound(buffer), Bytes(buffer), [Next]_buffer
  PROVE  Bytes(buffer')
<1>1. Rows = 1 .. Len(buffer.lines)
  BY SoundFacts DEF Rows
<1>2. ASSUME NEW row \in Rows, NEW col \in Columns(row), Type(row, col)
      PROVE  Bytes(buffer')
  <2>1. \E ch \in Chars, fmt \in Formats :
          buffer' = InsertChar(buffer, col, row, ch, fmt)
    BY <1>2 DEF Type
  <2>2. QED
    BY <2>1, BytesTyped
<1>3. ASSUME NEW row \in Rows, NEW col \in Columns(row), Erase(row, col)
      PROVE  Bytes(buffer')
  BY <1>1, <1>3, BytesErased DEF Columns, Erase
<1>4. ASSUME NEW row \in Rows, NEW col \in Columns(row), Break(row, col)
      PROVE  Bytes(buffer')
  BY <1>1, <1>4, BytesGrown DEF Columns, Break
<1>5. ASSUME NEW row \in Rows, NEW col \in Columns(row), PasteText(row, col)
      PROVE  Bytes(buffer')
  BY <1>1, <1>5, BytesGrown DEF Columns, PasteText
<1>6. ASSUME NEW row \in Rows, NEW col \in Columns(row), OverSelection(row, col)
      PROVE  Bytes(buffer')
  <2>1. PICK endRow \in row .. Len(buffer.lines) : \E endCol \in Columns(endRow) :
          \/ buffer' = DeleteRange(buffer, row, col, endRow, endCol)
          \/ \E fmt \in Formats :
               buffer' = SetFormatInRange(buffer, row, col, endRow, endCol, fmt)
    BY <1>6 DEF OverSelection
  <2>2. PICK endCol \in Columns(endRow) :
          \/ buffer' = DeleteRange(buffer, row, col, endRow, endCol)
          \/ \E fmt \in Formats :
               buffer' = SetFormatInRange(buffer, row, col, endRow, endCol, fmt)
    BY <2>1
  <2>3. CASE buffer' = DeleteRange(buffer, row, col, endRow, endCol)
    BY <1>1, <2>3, BytesCut
  <2>4. CASE \E fmt \in Formats :
               buffer' = SetFormatInRange(buffer, row, col, endRow, endCol, fmt)
    BY <2>4, BytesFormatted
  <2>5. QED
    BY <2>2, <2>3, <2>4
<1>7. ASSUME NEW row \in Rows, FormatParagraph(row)
      PROVE  Bytes(buffer')
  <2>1. CASE \E on \in BOOLEAN : buffer' = SetPageBreakBefore(buffer, row, on)
    BY <2>1, BytesUntouched
  <2>2. CASE \E a \in Alignments : buffer' = SetAlignment(buffer, row, a)
    BY <2>2, BytesUntouched
  <2>3. CASE \E level \in Levels : buffer' = SetListLevel(buffer, row, level)
    BY <1>1, <2>3, BytesListed
  <2>4. CASE \E numbered \in Kinds :
               buffer' = SetListNumbered(buffer, row, numbered)
    BY <1>1, <2>4, BytesListed, KindsAssumption
  <2>5. QED
    BY <1>7, <2>1, <2>2, <2>3, <2>4 DEF FormatParagraph
<1>8. ASSUME NEW row \in Rows, AddFloat(row)
      PROVE  Bytes(buffer')
  BY <1>8, BytesUntouched DEF AddFloat
<1>9. ASSUME RemoveFloat
      PROVE  Bytes(buffer')
  BY <1>9, BytesUntouched DEF RemoveFloat
<1>10. ASSUME InstallSnapshot
       PROVE  Bytes(buffer')
  BY <1>10, BytesRestored DEF InstallSnapshot
<1>11. CASE UNCHANGED buffer
  BY <1>11
<1>12. QED
  BY <1>2, <1>3, <1>4, <1>5, <1>6, <1>7, <1>8, <1>9, <1>10, <1>11 DEF Next

\* Another float, or one float less, on a row; the other rows keep theirs.
CountedAt(a2, an, row, count) ==
  /\ FloatsAt(a2, row) = count
  /\ \A r : r # row => FloatsAt(a2, r) = FloatsAt(an, r)

LEMMA AppendCounted ==
  ASSUME NEW an \in Seq(Nat), NEW row \in Nat
  PROVE  CountedAt(Append(an, row), an, row, FloatsAt(an, row) + 1)
<1> DEFINE a2 == Append(an, row)
           n  == Len(an)
           At(a, r) == {i \in DOMAIN a : a[i] = r}
<1>1. /\ n \in Nat /\ DOMAIN an = 1 .. n /\ DOMAIN a2 = 1 .. n + 1
      /\ \A i \in 1 .. n : a2[i] = an[i]
      /\ a2[n + 1] = row
  BY LenProperties, AppendProperties
<1> HIDE DEF a2, n
<1>2. ASSUME NEW r, r # row
      PROVE  At(a2, r) = At(an, r)
  BY <1>1, <1>2
<1>3. At(a2, row) = At(an, row) \cup {n + 1} /\ n + 1 \notin At(an, row)
  BY <1>1
<1>4. IsFiniteSet(At(an, row))
  BY FloatsFinite
<1> HIDE DEF At
<1>5. Cardinality(At(a2, row)) = Cardinality(At(an, row)) + 1
  BY <1>3, <1>4, FS_AddElement
<1>6. \A r : FloatsAt(a2, r) = Cardinality(At(a2, r))
             /\ FloatsAt(an, r) = Cardinality(At(an, r))
  BY DEF FloatsAt, At
<1>7. QED
  BY <1>2, <1>5, <1>6 DEF CountedAt, a2

LEMMA EraseCounted ==
  ASSUME NEW an \in Seq(Nat), NEW i \in DOMAIN an
  PROVE  CountedAt(EraseRows(an, i, i), an, an[i], FloatsAt(an, an[i]) - 1)
<1> DEFINE a2 == EraseRows(an, i, i)
           n  == Len(an)
           At(a, r) == {k \in DOMAIN a : a[k] = r}
           move == [k \in 1 .. n |-> IF k < i THEN k ELSE k + 1]
<1>1. n \in Nat /\ DOMAIN an = 1 .. n /\ i \in 1 .. n
  BY LenProperties
<1>2. /\ a2 \in Seq(Nat) /\ Len(a2) = n - 1
      /\ \A k \in 1 .. n - 1 : a2[k] = IF k < i THEN an[k] ELSE an[k + 1]
  <2> DEFINE e == << >>
             N == Nat
             from == i - 1
  <2>1. /\ e \in Seq(N) /\ an \in Seq(N)
        /\ from \in 0 .. Len(an) /\ i \in from .. Len(an)
    BY <1>1
  <2>2. Len(e) = 0
    OBVIOUS
  <2>3. from = i - 1
    OBVIOUS
  <2>4. a2 = Splice(an, from, i, e)
    BY DEF EraseRows
  <2> HIDE DEF e, N, from, a2
  <2>5. /\ Splice(an, from, i, e) \in Seq(N)
        /\ Spliced(Splice(an, from, i, e), an, from, i, e)
    BY <2>1, SpliceSpliced
  <2>6. a2 \in Seq(N) /\ Spliced(a2, an, from, i, e)
    BY <2>4, <2>5
  <2>7. Len(an) = n
    OBVIOUS
  <2> HIDE DEF n
  <2>8. ASSUME NEW k \in 1 .. n - 1
        PROVE  a2[k] = IF k < i THEN an[k] ELSE an[k + 1]
    <3>1. CASE k < i
      <4>1. k \in 1 .. from
        BY <1>1, <2>3, <3>1
      <4>2. a2[k] = an[k]
        BY <2>6, <4>1 DEF Spliced
      <4>3. QED
        BY <3>1, <4>2
    <3>2. CASE ~ (k < i)
      <4>1. k \in from + Len(e) + 1 .. from + Len(e) + (Len(an) - i)
        BY <1>1, <2>2, <2>3, <2>7, <3>2
      <4>2. k - from - Len(e) + i = k + 1
        BY <1>1, <2>2, <2>3
      <4>3. a2[k] = an[k - from - Len(e) + i]
        BY <2>6, <4>1 DEF Spliced
      <4>4. QED
        BY <3>2, <4>2, <4>3
    <3>3. QED
      BY <3>1, <3>2
  <2>9. from + Len(e) + (Len(an) - i) = n - 1
    BY <1>1, <2>2, <2>3, <2>7
  <2>10. QED
    BY <2>8, <2>9, <2>6 DEF N, Spliced
<1>3. DOMAIN a2 = 1 .. n - 1
  BY <1>2, LenProperties
<1> HIDE DEF a2, n
<1>4. ASSUME NEW r
      PROVE  Cardinality(At(a2, r)) = Cardinality(At(an, r) \ {i})
             /\ IsFiniteSet(At(an, r))
  <2> DEFINE S == At(a2, r)
             T == At(an, r) \ {i}
             F == [k \in S |-> IF k < i THEN k ELSE k + 1]
  <2>1. IsFiniteSet(S) /\ IsFiniteSet(At(an, r))
    BY <1>2, FloatsFinite
  <2>2. \A k \in S : k \in 1 .. n - 1 /\ a2[k] = r
    BY <1>3
  <2>3. \A k \in T : k \in 1 .. n /\ an[k] = r /\ k # i
    BY <1>1
  <2>4. \A k : k \in 1 .. n /\ an[k] = r /\ k # i => k \in T
    BY <1>1
  <2>5. \A k : k \in 1 .. n - 1 /\ a2[k] = r => k \in S
    BY <1>3
  <2> HIDE DEF S, T
  <2>6. F \in [S -> T]
    <3>1. ASSUME NEW k \in S
          PROVE  (IF k < i THEN k ELSE k + 1) \in T
      <4>1. k \in 1 .. n - 1 /\ a2[k] = r
        BY <2>2
      <4>2. CASE k < i
        <5>1. k \in 1 .. n /\ an[k] = r /\ k # i
          BY <1>1, <1>2, <4>1, <4>2
        <5>2. QED
          BY <2>4, <4>2, <5>1
      <4>3. CASE ~ (k < i)
        <5>1. k + 1 \in 1 .. n /\ an[k + 1] = r /\ k + 1 # i
          BY <1>1, <1>2, <4>1, <4>3
        <5>2. QED
          BY <2>4, <4>3, <5>1
      <4>4. QED
        BY <4>2, <4>3
    <3>2. QED
      BY <3>1
  <2>7. \A x, y \in S : F[x] = F[y] => x = y
    BY <1>1, <2>2
  <2>8. \A t \in T : \E s \in S : F[s] = t
    <3> TAKE t \in T
    <3> DEFINE s == IF t < i THEN t ELSE t - 1
    <3>1. t \in 1 .. n /\ an[t] = r /\ t # i
      BY <2>3
    <3>2. s \in 1 .. n - 1 /\ (IF s < i THEN s ELSE s + 1) = t
      BY <1>1, <3>1
    <3> HIDE DEF s
    <3>3. a2[s] = r
      BY <1>2, <3>1, <3>2
    <3>4. s \in S
      BY <2>5, <3>2, <3>3
    <3>5. F[s] = t
      BY <3>2, <3>4
    <3>6. QED
      BY <3>4, <3>5
  <2> HIDE DEF F
  <2>9. F \in Bijection(S, T)
    BY <2>6, <2>7, <2>8, Fun_IsBij
  <2>10. ExistsBijection(S, T)
    BY <2>9 DEF ExistsBijection
  <2>11. Cardinality(T) = Cardinality(S)
    BY <2>1, <2>10, FS_Bijection
  <2>12. QED
    BY <2>1, <2>11 DEF S, T
<1>5. ASSUME NEW r, r # an[i]
      PROVE  At(an, r) \ {i} = At(an, r)
  BY <1>5
<1>6. i \in At(an, an[i])
  OBVIOUS
<1> HIDE DEF At
<1>7. Cardinality(At(an, an[i]) \ {i}) = Cardinality(At(an, an[i])) - 1
  BY <1>4, <1>6, FS_RemoveElement
<1>8. \A r : FloatsAt(a2, r) = Cardinality(At(a2, r))
             /\ FloatsAt(an, r) = Cardinality(At(an, r))
  BY DEF FloatsAt, At
<1>9. QED
  BY <1>4, <1>5, <1>7, <1>8 DEF CountedAt, a2

\* Nothing but the floats differs.
OnlyFloats(b, b2, row, count) ==
  /\ b2.lines = b.lines /\ b2.formats = b.formats
  /\ b2.pageBreakBefore = b.pageBreakBefore
  /\ b2.alignment = b.alignment /\ b2.listLevel = b.listLevel
  /\ CountedAt(b2.anchors, b.anchors, row, count)

LEMMA FloatsText ==
  ASSUME NEW b, Sound(b), NEW b2, Sound(b2),
         NEW row \in 1 .. Len(b.lines), NEW count,
         OnlyFloats(b, b2, row, count)
  PROVE  TextOf(b2) = [TextOf(b) EXCEPT ![row].floats = count]
<1>1. /\ b2.lines = b.lines /\ b2.formats = b.formats
      /\ b2.pageBreakBefore = b.pageBreakBefore
      /\ b2.alignment = b.alignment /\ b2.listLevel = b.listLevel
  BY DEF OnlyFloats
<1>2. row \in 1 .. Len(b2.lines)
  BY <1>1
<1>3. /\ FloatsAt(b2.anchors, row) = count
      /\ \A r : r # row => FloatsAt(b2.anchors, r) = FloatsAt(b.anchors, r)
  BY DEF OnlyFloats, CountedAt
<1>4. OnlyAt(b, b2, row)
  BY <1>1, <1>3 DEF OnlyAt, SameAt
<1>5. /\ ParagraphOf(b, row) \in ParagraphSet
      /\ ParagraphOf(b, row).cells = Zip(b.lines[row], b.formats[row])
      /\ ParagraphOf(b, row).break = b.pageBreakBefore[row]
      /\ ParagraphOf(b, row).align = b.alignment[row]
      /\ ParagraphOf(b, row).level = b.listLevel[row]
  BY ParagraphFacts
<1>6. /\ ParagraphOf(b2, row) \in ParagraphSet
      /\ ParagraphOf(b2, row).cells = Zip(b2.lines[row], b2.formats[row])
      /\ ParagraphOf(b2, row).break = b2.pageBreakBefore[row]
      /\ ParagraphOf(b2, row).align = b2.alignment[row]
      /\ ParagraphOf(b2, row).level = b2.listLevel[row]
      /\ ParagraphOf(b2, row).floats = FloatsAt(b2.anchors, row)
  BY <1>2, ParagraphFacts
<1> DEFINE P == ParagraphOf(b, row)
           Q == ParagraphOf(b2, row)
<1> HIDE DEF P, Q
<1>7. Q = [P EXCEPT !.floats = count]
  BY <1>1, <1>3, <1>5, <1>6 DEF ParagraphSet, P, Q
<1>8. TextOf(b)[row] = P
  BY TextFacts DEF P
<1>9. TextOf(b2) = [TextOf(b) EXCEPT ![row] = Q]
  BY <1>4, OneParagraph DEF Q
<1>10. QED
  BY <1>7, <1>8, <1>9

\* A float is anchored to a row.
LEMMA AddFloatText ==
  ASSUME NEW b, Sound(b), NEW row \in 1 .. Len(b.lines)
  PROVE  TextOf([b EXCEPT !.anchors = Append(b.anchors, row)])
           = [TextOf(b) EXCEPT ![row].floats = TextOf(b)[row].floats + 1]
<1> DEFINE an == Append(b.anchors, row)
           count == FloatsAt(b.anchors, row) + 1
<1>1. Sound([b EXCEPT !.anchors = an])
  BY AddFloatSound
<1>2. b.anchors \in Seq(Nat) /\ row \in Nat
  BY PartFacts
<1>3. CountedAt(an, b.anchors, row, count)
  BY <1>2, AppendCounted
<1>4. TextOf(b)[row].floats = FloatsAt(b.anchors, row)
  BY TextFacts, ParagraphFacts
<1> HIDE DEF an
<1>5. TextOf([b EXCEPT !.anchors = an]) = [TextOf(b) EXCEPT ![row].floats = count]
  <2> DEFINE b2 == [b EXCEPT !.anchors = an]
  <2> HIDE DEF count
  <2>1. Sound(b2) /\ b \in BufferType
    BY <1>1 DEF Sound
  <2>2. OnlyFloats(b, b2, row, count)
    BY <1>3, <2>1 DEF OnlyFloats, BufferType
  <2> HIDE DEF b2
  <2>3. TextOf(b2) = [TextOf(b) EXCEPT ![row].floats = count]
    BY <2>1, <2>2, FloatsText
  <2>4. QED
    BY <2>3 DEF b2
<1>6. QED
  BY <1>4, <1>5 DEF an

\* A float is taken away from a row that has one.
LEMMA RemoveFloatText ==
  ASSUME NEW b, Sound(b), NEW i \in DOMAIN b.anchors
  PROVE  \E row \in 1 .. Len(b.lines) :
           /\ TextOf(b)[row].floats > 0
           /\ TextOf([b EXCEPT !.anchors = EraseRows(b.anchors, i, i)])
                = [TextOf(b) EXCEPT ![row].floats = TextOf(b)[row].floats - 1]
<1> DEFINE an == EraseRows(b.anchors, i, i)
           row == b.anchors[i]
           count == FloatsAt(b.anchors, row) - 1
<1>1. Sound([b EXCEPT !.anchors = an])
  BY RemoveFloatSound
<1>2. /\ b.anchors \in Seq(Nat) /\ DOMAIN b.anchors = 1 .. Len(b.anchors)
      /\ row \in 1 .. Len(b.lines)
  BY PartFacts, LenProperties
<1>3. CountedAt(an, b.anchors, row, count)
  BY <1>2, EraseCounted
<1>4. FloatsAt(b.anchors, row) > 0
  <2> DEFINE T == {k \in DOMAIN b.anchors : b.anchors[k] = row}
  <2>1. i \in T
    OBVIOUS
  <2>2. IsFiniteSet(T) /\ Cardinality(T) \in Nat
    BY <1>2, FloatsFinite
  <2>3. FloatsAt(b.anchors, row) = Cardinality(T)
    BY DEF FloatsAt
  <2> HIDE DEF T
  <2>4. Cardinality(T) # 0
    BY <2>1, <2>2, FS_EmptySet
  <2> DEFINE c == Cardinality(T)
  <2>5. c \in Nat /\ c # 0
    BY <2>2, <2>4
  <2> HIDE DEF c
  <2>6. c > 0
    BY <2>5
  <2>7. QED
    BY <2>3, <2>6 DEF c
<1> HIDE DEF row
<1>5. TextOf(b)[row].floats = FloatsAt(b.anchors, row)
  BY <1>2, TextFacts, ParagraphFacts
<1> HIDE DEF an
<1>6. TextOf([b EXCEPT !.anchors = an]) = [TextOf(b) EXCEPT ![row].floats = count]
  <2> DEFINE b2 == [b EXCEPT !.anchors = an]
  <2> HIDE DEF count
  <2>1. Sound(b2) /\ b \in BufferType
    BY <1>1 DEF Sound
  <2>2. OnlyFloats(b, b2, row, count)
    BY <1>3, <2>1 DEF OnlyFloats, BufferType
  <2> HIDE DEF b2
  <2>3. TextOf(b2) = [TextOf(b) EXCEPT ![row].floats = count]
    BY <1>2, <2>1, <2>2, FloatsText
  <2>4. QED
    BY <2>3 DEF b2
<1>7. QED
  BY <1>2, <1>4, <1>5, <1>6 DEF an

\* Installing a snapshot of an aligned buffer changes nothing.
LEMMA ResizeSame ==
  ASSUME NEW S, NEW s \in Seq(S), NEW x
  PROVE  Resize(s, Len(s), x) = s
<1>1. Len(s) \in Nat
  BY LenProperties
<1>2. QED
  BY <1>1, TakeAll DEF Resize

LEMMA RestoredAligned ==
  ASSUME NEW b, Sound(b), Aligned(b)
  PROVE  Restored(b) = b
<1> DEFINE n == Len(b.lines)
           fs == b.formats
<1>1. /\ b \in BufferType /\ n \in Nat /\ fs \in Seq(Seq(Formats))
      /\ Len(fs) = n /\ DOMAIN fs = 1 .. n
  BY SoundFacts, RowFacts, LenProperties DEF Sound, Covers
<1>2. /\ b.pageBreakBefore \in Seq(BOOLEAN) /\ Len(b.pageBreakBefore) = n
      /\ b.alignment \in Seq(Alignments \cup {"left"}) /\ Len(b.alignment) = n
      /\ b.listLevel \in Seq(Nat) /\ Len(b.listLevel) = n
  BY PartFacts
<1>3. Resize(fs, n, << >>) = fs
  BY <1>1, ResizeSame
<1>4. ASSUME NEW r \in 1 .. n
      PROVE  Resize(fs[r], Len(b.lines[r]), Plain) = fs[r]
  <2>1. fs[r] \in Seq(Formats) /\ Len(fs[r]) = Len(b.lines[r])
    BY AlignedFacts
  <2>2. QED
    BY <2>1, ResizeSame
<1>5. Resize(b.pageBreakBefore, n, FALSE) = b.pageBreakBefore
  BY <1>2, ResizeSame
<1>6. Resize(b.alignment, n, "left") = b.alignment
  BY <1>2, ResizeSame
<1>7. Resize(b.listLevel, n, 0) = b.listLevel
  BY <1>2, ResizeSame
<1>8. fs = [r \in 1 .. n |-> fs[r]]
  BY <1>1
<1>9. [r \in 1 .. n |-> Resize(fs[r], Len(b.lines[r]), Plain)] = fs
  BY <1>4, <1>8
<1>10. Restored(b)
         = [b EXCEPT !.formats = fs, !.pageBreakBefore = b.pageBreakBefore,
                     !.alignment = b.alignment, !.listLevel = b.listLevel]
  BY <1>1, <1>3, <1>5, <1>6, <1>7, <1>9 DEF Restored, BufferType
<1>11. QED
  BY <1>1, <1>10 DEF BufferType

(***************************************************************************)
(* Adding up the floats of paragraphs, one by one, counts them all.        *)
(***************************************************************************)
Summed(t, p, q) ==
  LET sum[i \in p .. q] == t[i].floats + (IF i = p THEN 0 ELSE sum[i - 1])
  IN  sum[q]

SumsUp(g, t, p, q) ==
  g = [i \in p .. q |-> t[i].floats + (IF i = p THEN 0 ELSE g[i - 1])]

LEMMA SumUnique ==
  ASSUME NEW t, NEW p \in Nat, NEW q \in Nat, p <= q, NEW g, SumsUp(g, t, p, q)
  PROVE  Summed(t, p, q) = g[q]
<1> DEFINE sum[i \in p .. q] == t[i].floats + (IF i = p THEN 0 ELSE sum[i - 1])
<1>1. sum = [i \in p .. q |-> t[i].floats + (IF i = p THEN 0 ELSE sum[i - 1])]
  BY DEF SumsUp
<1> HIDE DEF sum
<1>2. \A i \in p .. q : sum[i] = t[i].floats + (IF i = p THEN 0 ELSE sum[i - 1])
  BY <1>1
<1>3. \A i \in p .. q : g[i] = t[i].floats + (IF i = p THEN 0 ELSE g[i - 1])
  BY DEF SumsUp
<1> DEFINE T == {k \in Nat : p + k <= q => sum[p + k] = g[p + k]}
<1>4. 0 \in T
  BY <1>2, <1>3
<1>5. \A k \in Nat : k \in T => k + 1 \in T
  BY <1>2, <1>3
<1>6. Nat \subseteq T
  <2> HIDE DEF T
  <2>1. QED
    BY <1>4, <1>5, InductiveSet
<1> DEFINE k == q - p
<1>7. k \in Nat /\ p + k = q
  OBVIOUS
<1> HIDE DEF k
<1>8. k \in T
  BY <1>6, <1>7
<1>9. p + k <= q
  BY <1>7
<1>10. sum[p + k] = g[p + k]
  BY <1>8, <1>9
<1>11. sum[q] = g[q]
  BY <1>7, <1>10
<1>12. QED
  BY <1>11 DEF sum, Summed

LEMMA OneMoreRow ==
  ASSUME NEW an \in Seq(Nat), NEW p \in Nat, NEW i \in Nat
  PROVE  /\ FloatsBetween(an, p, p) = FloatsAt(an, p)
         /\ i > p => FloatsBetween(an, p, i)
                       = FloatsAt(an, i) + FloatsBetween(an, p, i - 1)
<1> DEFINE At(r) == {k \in DOMAIN an : an[k] = r}
           In(r) == {k \in DOMAIN an : an[k] \in p .. r}
<1>1. \A k \in DOMAIN an : an[k] \in Nat
  BY LenProperties
<1>2. In(p) = At(p)
  BY <1>1
<1>3. ASSUME i > p
      PROVE  FloatsBetween(an, p, i) = FloatsAt(an, i) + FloatsBetween(an, p, i - 1)
  <2>1. In(i) = At(i) \cup In(i - 1) /\ At(i) \cap In(i - 1) = {}
    BY <1>1, <1>3
  <2>2. /\ IsFiniteSet(At(i)) /\ Cardinality(At(i)) \in Nat
        /\ IsFiniteSet(In(i - 1)) /\ Cardinality(In(i - 1)) \in Nat
    BY FloatsFinite
  <2>3. /\ FloatsBetween(an, p, i) = Cardinality(In(i))
        /\ FloatsAt(an, i) = Cardinality(At(i))
        /\ FloatsBetween(an, p, i - 1) = Cardinality(In(i - 1))
    BY DEF FloatsBetween, FloatsAt
  <2> HIDE DEF At, In
  <2>4. Cardinality(In(i)) = Cardinality(At(i)) + Cardinality(In(i - 1))
                               - Cardinality(At(i) \cap In(i - 1))
    BY <2>1, <2>2, FS_Union
  <2>5. Cardinality(At(i) \cap In(i - 1)) = 0
    BY <2>1, FS_EmptySet
  <2>6. QED
    BY <2>2, <2>3, <2>4, <2>5
<1>4. QED
  BY <1>2, <1>3 DEF FloatsBetween, FloatsAt

LEMMA FloatsAdded ==
  ASSUME NEW b, Sound(b), NEW p \in 1 .. Len(b.lines),
         NEW q \in p .. Len(b.lines)
  PROVE  Summed(TextOf(b), p, q) = FloatsBetween(b.anchors, p, q)
<1> DEFINE an == b.anchors
           t  == TextOf(b)
           g  == [i \in p .. q |-> FloatsBetween(an, p, i)]
<1>1. /\ an \in Seq(Nat) /\ Len(b.lines) \in Nat
      /\ p \in Nat /\ q \in Nat /\ p <= q
  BY PartFacts
<1>2. \A i \in p .. q : t[i].floats = FloatsAt(an, i)
  BY <1>1, TextFacts, ParagraphFacts
<1> HIDE DEF t, an
<1>3. ASSUME NEW i \in p .. q
      PROVE  FloatsBetween(an, p, i)
               = t[i].floats + (IF i = p THEN 0 ELSE g[i - 1])
  <2>1. FloatsAt(an, i) \in Nat
    BY <1>1, FloatsFinite DEF FloatsAt
  <2>2. CASE i = p
    BY <1>1, <1>2, <2>1, <2>2, OneMoreRow
  <2>3. CASE i # p
    <3>1. i \in Nat /\ i > p /\ i - 1 \in p .. q
      BY <1>1, <2>3
    <3>2. FloatsBetween(an, p, i) = FloatsAt(an, i) + FloatsBetween(an, p, i - 1)
      BY <1>1, <3>1, OneMoreRow
    <3>3. g[i - 1] = FloatsBetween(an, p, i - 1)
      BY <3>1
    <3>4. QED
      BY <1>2, <2>3, <3>2, <3>3
  <2>4. QED
    BY <2>2, <2>3
<1>4. SumsUp(g, t, p, q)
  BY <1>3 DEF SumsUp
<1>5. g[q] = FloatsBetween(an, p, q)
  BY <1>1
<1> HIDE DEF g
<1>6. Summed(t, p, q) = g[q]
  BY <1>1, <1>4, SumUnique
<1>7. QED
  BY <1>5, <1>6 DEF t, an

(***************************************************************************)
(* The edits of StyledText, under the mapping.                             *)
(***************************************************************************)
LEMMA MappedFacts ==
  ASSUME Sound(buffer)
  PROVE  /\ DOMAIN TextOf(buffer) = 1 .. Len(buffer.lines)
         /\ Len(TextOf(buffer)) = Len(buffer.lines)
         /\ \A r \in 1 .. Len(buffer.lines) :
              Styled!Columns(r) = 0 .. Len(buffer.lines[r])
<1>1. /\ DOMAIN TextOf(buffer) = 1 .. Len(buffer.lines)
      /\ Len(TextOf(buffer)) = Len(buffer.lines)
      /\ \A r \in 1 .. Len(buffer.lines) : TextOf(buffer)[r] = ParagraphOf(buffer, r)
  BY TextFacts
<1>2. ASSUME NEW r \in 1 .. Len(buffer.lines)
      PROVE  Styled!Columns(r) = 0 .. Len(buffer.lines[r])
  <2>1. ParagraphOf(buffer, r).cells = Zip(buffer.lines[r], buffer.formats[r])
    BY ParagraphFacts
  <2>2. Len(Zip(buffer.lines[r], buffer.formats[r])) = Len(buffer.lines[r])
    <3>1. Covers(buffer.lines, buffer.formats)
      BY SoundFacts
    <3>2. /\ buffer.lines[r] \in Seq(Chars) /\ buffer.formats[r] \in Seq(Formats)
          /\ Len(buffer.formats[r]) >= Len(buffer.lines[r])
      BY <3>1, RowFacts DEF Covers
    <3>3. QED
      BY <3>2, ZipFacts
  <2>3. QED
    BY <1>1, <2>1, <2>2 DEF Styled!Columns
<1>3. QED
  BY <1>1, <1>2

LEMMA MappedReplace ==
  ASSUME Sound(buffer), NEW p \in 1 .. Len(buffer.lines),
         NEW q \in p .. Len(buffer.lines), NEW c, NEW d, NEW cells,
         TextOf(buffer') = Replaced(TextOf(buffer), p, c, q, d, cells,
                                    FloatsBetween(buffer.anchors, p, q))
  PROVE  Styled!Replace(p, c, q, d, cells)
<1>1. Styled!FloatsIn(p, q) = Summed(TextOf(buffer), p, q)
  BY DEF Styled!FloatsIn, Summed
<1>2. Styled!FloatsIn(p, q) = FloatsBetween(buffer.anchors, p, q)
  BY <1>1, FloatsAdded
<1>3. TextOf(buffer') = Replaced(TextOf(buffer), p, c, q, d, cells,
                                 Styled!FloatsIn(p, q))
  BY <1>2
<1>4. QED
  BY <1>3 DEF Styled!Replace, Styled!Above, Styled!Below, Styled!Before,
              Styled!After, Replaced

LEMMA InsertIsStep ==
  ASSUME Sound(buffer), NEW row \in 1 .. Len(buffer.lines),
         NEW col \in 0 .. Len(buffer.lines[row]), NEW ch \in Chars,
         NEW fmt \in Formats,
         TextOf(buffer') = Replaced(TextOf(buffer), row, col, row, col,
                                    <<<<ch, fmt>>>>,
                                    FloatsBetween(buffer.anchors, row, row))
  PROVE  Step
<1>1. Len(buffer.lines) \in Nat
  BY SoundFacts
<1>2. row \in row .. Len(buffer.lines)
  BY <1>1
<1>3. Styled!Replace(row, col, row, col, <<<<ch, fmt>>>>)
  BY <1>2, MappedReplace
<1>4. Styled!Insert(row, col, <<ch, fmt>>)
  BY <1>3 DEF Styled!Insert
<1>5. <<ch, fmt>> \in Styled!Cells
  BY DEF Styled!Cells
<1>6. row \in DOMAIN TextOf(buffer) /\ col \in Styled!Columns(row)
  BY MappedFacts
<1>7. QED
  BY <1>4, <1>5, <1>6 DEF Step, Styled!Next

LEMMA CutIsStep ==
  ASSUME Sound(buffer), NEW p \in 1 .. Len(buffer.lines),
         NEW c \in 0 .. Len(buffer.lines[p]), NEW q \in p .. Len(buffer.lines),
         NEW d \in 0 .. Len(buffer.lines[q]), p < q \/ c <= d,
         CutText(buffer, buffer', p, c, q, d)
  PROVE  Step
<1>1. Len(buffer.lines) \in Nat
  BY SoundFacts
<1>2. p \in Nat /\ q \in Nat /\ p <= q /\ q \in 1 .. Len(buffer.lines)
  BY <1>1
<1>3. Styled!Replace(p, c, q, d, << >>)
  BY <1>2, MappedReplace DEF CutText
<1>4. Styled!Ordered(p, c, q, d)
  BY <1>2 DEF Styled!Ordered
<1>5. Styled!Cut(p, c, q, d)
  BY <1>3, <1>4 DEF Styled!Cut
<1>6. /\ p \in DOMAIN TextOf(buffer) /\ c \in Styled!Columns(p)
      /\ q \in p .. Len(TextOf(buffer)) /\ d \in Styled!Columns(q)
  BY <1>2, MappedFacts
<1>7. QED
  BY <1>5, <1>6 DEF Step, Styled!Next

LEMMA SplitIsStep ==
  ASSUME Sound(buffer), NEW row \in 1 .. Len(buffer.lines),
         NEW col \in 0 .. Len(buffer.lines[row]),
         TextOf(buffer') = SplitInto(TextOf(buffer), row, col)
  PROVE  Step
<1>1. Styled!Split(row, col)
  BY DEF Styled!Split, Styled!Above, Styled!Below, Styled!Before, Styled!After,
         SplitInto
<1>2. row \in DOMAIN TextOf(buffer) /\ col \in Styled!Columns(row)
  BY MappedFacts
<1>3. QED
  BY <1>1, <1>2 DEF Step, Styled!Next

LEMMA PasteIsStep ==
  ASSUME Sound(buffer), NEW row \in 1 .. Len(buffer.lines),
         NEW col \in 0 .. Len(buffer.lines[row]),
         NEW parts \in Pastes, NEW fmt \in Formats,
         TextOf(buffer') = PastedInto(TextOf(buffer), row, col,
                                      StyledParts(parts, fmt))
  PROVE  Step
<1> DEFINE S == StyledParts(parts, fmt)
<1>1. S \in StyledPastes
  BY DEF StyledPastes, StyledParts
<1> HIDE DEF S
<1>2. TextOf(buffer') = PastedInto(TextOf(buffer), row, col, S)
  BY DEF S
<1>3. Styled!Paste(row, col, S)
  BY <1>2 DEF Styled!Paste, Styled!Above, Styled!Below, Styled!Before,
              Styled!After, PastedInto, PastedParagraph, PartCells
<1>4. row \in DOMAIN TextOf(buffer) /\ col \in Styled!Columns(row)
  BY MappedFacts
<1>5. QED
  BY <1>1, <1>3, <1>4 DEF Step, Styled!Next

LEMMA FormatIsStep ==
  ASSUME Sound(buffer), NEW p \in 1 .. Len(buffer.lines),
         NEW c \in 0 .. Len(buffer.lines[p]), NEW q \in p .. Len(buffer.lines),
         NEW d \in 0 .. Len(buffer.lines[q]), NEW fmt \in Formats,
         TextOf(buffer') = FormattedText(TextOf(buffer), p, c, q, d, fmt)
  PROVE  Step
<1>1. Len(buffer.lines) \in Nat
  BY SoundFacts
<1>2. p \in Nat /\ q \in Nat /\ p <= q /\ q \in 1 .. Len(buffer.lines)
  BY <1>1
<1>3. Styled!Format(p, c, q, d, fmt)
  BY DEF Styled!Format, Styled!Ordered, FormattedText, Painted, Within
<1>4. /\ p \in DOMAIN TextOf(buffer) /\ c \in Styled!Columns(p)
      /\ q \in p .. Len(TextOf(buffer)) /\ d \in Styled!Columns(q)
  BY <1>2, MappedFacts
<1>5. QED
  BY <1>3, <1>4 DEF Step, Styled!Next

LEMMA ParagraphIsStep ==
  ASSUME Sound(buffer), NEW row \in 1 .. Len(buffer.lines),
         Styled!SetParagraph(row) \/ Styled!AnchorFloat(row)
  PROVE  Step
<1>1. Len(buffer.lines[row]) \in Nat
  BY SoundFacts, RowFacts
<1>2. row \in DOMAIN TextOf(buffer) /\ 0 \in Styled!Columns(row)
  BY <1>1, MappedFacts
<1>3. QED
  BY <1>2 DEF Step, Styled!Next

LEMMA FormatParagraphSteps ==
  ASSUME Sound(buffer), Bytes(buffer), NEW row \in 1 .. Len(buffer.lines),
         FormatParagraph(row)
  PROVE  Step \/ UNCHANGED buffer
<1>1. ASSUME NEW on \in BOOLEAN, buffer' = SetPageBreakBefore(buffer, row, on)
      PROVE  Styled!SetParagraph(row)
  <2>1. TextOf(buffer') = [TextOf(buffer) EXCEPT ![row].break = on]
    BY <1>1, PageBreakText
  <2>2. QED
    BY <2>1 DEF Styled!SetParagraph
<1>2. ASSUME NEW a \in Alignments, buffer' = SetAlignment(buffer, row, a)
      PROVE  Styled!SetParagraph(row)
  <2>1. TextOf(buffer') = [TextOf(buffer) EXCEPT ![row].align = a]
    BY <1>2, AlignmentText
  <2>2. QED
    BY <2>1 DEF Styled!SetParagraph
<1>3. ASSUME NEW level \in Levels, buffer' = SetListLevel(buffer, row, level)
      PROVE  Styled!SetParagraph(row)
  <2>1. \E x \in ListBytes : TextOf(SetListLevel(buffer, row, level))
                               = [TextOf(buffer) EXCEPT ![row].level = x]
    BY ListLevelText
  <2>2. \E x \in ListBytes : TextOf(buffer') = [TextOf(buffer) EXCEPT ![row].level = x]
    BY <1>3, <2>1
  <2>3. QED
    BY <2>2 DEF Styled!SetParagraph
<1>4. ASSUME NEW numbered \in Kinds,
             buffer' = SetListNumbered(buffer, row, numbered)
      PROVE  Styled!SetParagraph(row) \/ UNCHANGED buffer
  <2>1. numbered \in BOOLEAN
    BY KindsAssumption
  <2>2. \/ SetListNumbered(buffer, row, numbered) = buffer
        \/ \E x \in ListBytes : TextOf(SetListNumbered(buffer, row, numbered))
                                  = [TextOf(buffer) EXCEPT ![row].level = x]
    BY <2>1, ListNumberedText
  <2>3. \/ buffer' = buffer
        \/ \E x \in ListBytes :
             TextOf(buffer') = [TextOf(buffer) EXCEPT ![row].level = x]
    BY <1>4, <2>2
  <2>4. QED
    BY <2>3 DEF Styled!SetParagraph
<1>5. QED
  BY <1>1, <1>2, <1>3, <1>4, ParagraphIsStep DEF FormatParagraph

LEMMA FloatSteps ==
  ASSUME Sound(buffer),
         (\E row \in 1 .. Len(buffer.lines) : AddFloat(row)) \/ RemoveFloat
  PROVE  Step
<1>1. ASSUME NEW row \in 1 .. Len(buffer.lines), AddFloat(row)
      PROVE  Step
  <2>1. buffer' = [buffer EXCEPT !.anchors = Append(buffer.anchors, row)]
    BY <1>1 DEF AddFloat
  <2>2. TextOf(buffer')
          = [TextOf(buffer) EXCEPT ![row].floats = TextOf(buffer)[row].floats + 1]
    BY <2>1, AddFloatText
  <2>3. Styled!AnchorFloat(row)
    BY <2>2 DEF Styled!AnchorFloat
  <2>4. QED
    BY <2>3, ParagraphIsStep
<1>2. ASSUME RemoveFloat
      PROVE  Step
  <2>1. PICK i \in DOMAIN buffer.anchors :
          buffer' = [buffer EXCEPT !.anchors = EraseRows(buffer.anchors, i, i)]
    BY <1>2 DEF RemoveFloat
  <2>2. PICK row \in 1 .. Len(buffer.lines) :
          /\ TextOf(buffer)[row].floats > 0
          /\ TextOf([buffer EXCEPT !.anchors = EraseRows(buffer.anchors, i, i)])
               = [TextOf(buffer) EXCEPT
                    ![row].floats = TextOf(buffer)[row].floats - 1]
    BY RemoveFloatText
  <2>3. Styled!AnchorFloat(row)
    BY <2>1, <2>2 DEF Styled!AnchorFloat
  <2>4. QED
    BY <2>3, ParagraphIsStep
<1>3. QED
  BY <1>1, <1>2

\* Every edit at a caret, over a selection, of a paragraph or a float.
LEMMA AlignedStep ==
  ASSUME Sound(buffer), Bytes(buffer), Aligned(buffer), [Next]_buffer
  PROVE  Step \/ UNCHANGED buffer
<1>1. /\ Rows = 1 .. Len(buffer.lines) /\ Len(buffer.lines) \in Nat
      /\ \A r \in Rows : Columns(r) = 0 .. Len(buffer.lines[r])
  BY SoundFacts DEF Rows, Columns
<1>2. ASSUME NEW row \in 1 .. Len(buffer.lines),
             NEW col \in 0 .. Len(buffer.lines[row]), Type(row, col)
      PROVE  Step
  <2>1. PICK ch \in Chars, fmt \in Formats :
          buffer' = InsertChar(buffer, col, row, ch, fmt)
    BY <1>2 DEF Type
  <2>2. TextOf(buffer') = Replaced(TextOf(buffer), row, col, row, col,
                                   <<<<ch, fmt>>>>,
                                   FloatsBetween(buffer.anchors, row, row))
    BY <2>1, TypedText
  <2>3. QED
    BY <2>2, InsertIsStep
<1>3. ASSUME NEW row \in 1 .. Len(buffer.lines),
             NEW col \in 0 .. Len(buffer.lines[row]), Erase(row, col)
      PROVE  Step \/ UNCHANGED buffer
  <2>1. Len(buffer.lines[row]) \in Nat
    BY AlignedFacts
  <2>2. ASSUME buffer' = Backspace(buffer, col, row)
        PROVE  Step \/ UNCHANGED buffer
    <3>1. \/ buffer' = buffer
          \/ col > 0 /\ CutText(buffer, buffer', row, col - 1, row, col)
          \/ /\ row > 1
             /\ CutText(buffer, buffer',
                        row - 1, Len(buffer.lines[row - 1]), row, 0)
      BY <2>2, BackspaceCuts
    <3>2. ASSUME col > 0, CutText(buffer, buffer', row, col - 1, row, col)
          PROVE  Step
      <4>1. /\ col - 1 \in 0 .. Len(buffer.lines[row]) /\ col - 1 <= col
            /\ row \in row .. Len(buffer.lines)
        BY <1>1, <2>1, <3>2
      <4>2. QED
        BY <3>2, <4>1, CutIsStep
    <3>3. ASSUME row > 1, CutText(buffer, buffer', row - 1,
                                  Len(buffer.lines[row - 1]), row, 0)
          PROVE  Step
      <4> DEFINE p == row - 1
                 c == Len(buffer.lines[p])
      <4>1. p \in 1 .. Len(buffer.lines) /\ row \in p .. Len(buffer.lines) /\ p < row
        BY <1>1, <3>3
      <4>2. c \in Nat
        BY <4>1, AlignedFacts
      <4>3. c \in 0 .. Len(buffer.lines[p])
        BY <4>2
      <4>4. 0 \in 0 .. Len(buffer.lines[row])
        BY <2>1
      <4>5. CutText(buffer, buffer', p, c, row, 0)
        BY <3>3
      <4> HIDE DEF p, c
      <4>6. QED
        BY <4>1, <4>3, <4>4, <4>5, CutIsStep
    <3>4. QED
      BY <3>1, <3>2, <3>3
  <2>3. ASSUME buffer' = DeleteForward(buffer, col, row)
        PROVE  Step \/ UNCHANGED buffer
    <3>1. \/ buffer' = buffer
          \/ /\ col < Len(buffer.lines[row])
             /\ CutText(buffer, buffer', row, col, row, col + 1)
          \/ /\ row < Len(buffer.lines)
             /\ CutText(buffer, buffer',
                        row, Len(buffer.lines[row]), row + 1, 0)
      BY <2>3, DeleteForwardCuts
    <3>2. ASSUME col < Len(buffer.lines[row]),
                 CutText(buffer, buffer', row, col, row, col + 1)
          PROVE  Step
      <4>1. /\ col + 1 \in 0 .. Len(buffer.lines[row]) /\ col <= col + 1
            /\ row \in row .. Len(buffer.lines)
        BY <1>1, <2>1, <3>2
      <4>2. QED
        BY <3>2, <4>1, CutIsStep
    <3>3. ASSUME row < Len(buffer.lines),
                 CutText(buffer, buffer',
                         row, Len(buffer.lines[row]), row + 1, 0)
          PROVE  Step
      <4> DEFINE q == row + 1
                 c == Len(buffer.lines[row])
      <4>1. /\ q \in 1 .. Len(buffer.lines) /\ q \in row .. Len(buffer.lines)
            /\ row < q
        BY <1>1, <3>3
      <4>2. c \in 0 .. Len(buffer.lines[row])
        BY <2>1
      <4>3. Len(buffer.lines[q]) \in Nat
        BY <4>1, AlignedFacts
      <4>4. 0 \in 0 .. Len(buffer.lines[q])
        BY <4>3
      <4>5. CutText(buffer, buffer', row, c, q, 0)
        BY <3>3
      <4> HIDE DEF q, c
      <4>6. QED
        BY <4>1, <4>2, <4>4, <4>5, CutIsStep
    <3>4. QED
      BY <3>1, <3>2, <3>3
  <2>4. QED
    BY <1>3, <2>2, <2>3 DEF Erase
<1>4. ASSUME NEW row \in 1 .. Len(buffer.lines),
             NEW col \in 0 .. Len(buffer.lines[row]), Break(row, col)
      PROVE  Step
  <2>1. TextOf(buffer') = SplitInto(TextOf(buffer), row, col)
    BY <1>4, NewlineText DEF Break
  <2>2. QED
    BY <2>1, SplitIsStep
<1>5. ASSUME NEW row \in 1 .. Len(buffer.lines),
             NEW col \in 0 .. Len(buffer.lines[row]), PasteText(row, col)
      PROVE  Step
  <2>1. PICK parts \in Pastes, fmt \in Formats :
          buffer' = InsertText(buffer, col, row, parts, fmt)
    BY <1>5 DEF PasteText
  <2>2. TextOf(buffer') = PastedInto(TextOf(buffer), row, col,
                                     StyledParts(parts, fmt))
    BY <2>1, PastePartsText
  <2>3. QED
    BY <2>2, PasteIsStep
<1>6. ASSUME NEW row \in 1 .. Len(buffer.lines),
             NEW col \in 0 .. Len(buffer.lines[row]), OverSelection(row, col)
      PROVE  Step
  <2>1. PICK endRow \in row .. Len(buffer.lines) : \E endCol \in Columns(endRow) :
          /\ row < endRow \/ col < endCol
          /\ \/ buffer' = DeleteRange(buffer, row, col, endRow, endCol)
             \/ \E fmt \in Formats :
                  buffer' = SetFormatInRange(buffer, row, col, endRow, endCol, fmt)
    BY <1>6 DEF OverSelection
  <2>2. PICK endCol \in Columns(endRow) :
          /\ row < endRow \/ col < endCol
          /\ \/ buffer' = DeleteRange(buffer, row, col, endRow, endCol)
             \/ \E fmt \in Formats :
                  buffer' = SetFormatInRange(buffer, row, col, endRow, endCol, fmt)
    BY <2>1
  <2>3. /\ endRow \in 1 .. Len(buffer.lines)
        /\ endCol \in 0 .. Len(buffer.lines[endRow])
    BY <1>1
  <2>4. Len(buffer.lines[endRow]) \in Nat
    BY <2>3, AlignedFacts
  <2>5. row < endRow \/ col <= endCol
    <3>1. Len(buffer.lines[row]) \in Nat
      BY AlignedFacts
    <3>2. col \in Nat /\ endCol \in Nat
      BY <2>3, <2>4, <3>1
    <3>3. QED
      BY <2>2, <3>2
  <2>6. ASSUME buffer' = DeleteRange(buffer, row, col, endRow, endCol)
        PROVE  Step
    <3>1. CutText(buffer, buffer', row, col, endRow, endCol)
      BY <2>2, <2>3, <2>6, DeleteRangeCuts
    <3>2. QED
      BY <2>3, <2>5, <3>1, CutIsStep
  <2>7. ASSUME NEW fmt \in Formats,
               buffer' = SetFormatInRange(buffer, row, col, endRow, endCol, fmt)
        PROVE  Step
    <3>1. TextOf(buffer')
            = FormattedText(TextOf(buffer), row, col, endRow, endCol, fmt)
      BY <2>2, <2>3, <2>7, FormatText
    <3>2. QED
      BY <2>3, <3>1, FormatIsStep
  <2>8. QED
    BY <2>2, <2>6, <2>7
<1>7. ASSUME NEW row \in 1 .. Len(buffer.lines), FormatParagraph(row)
      PROVE  Step \/ UNCHANGED buffer
  BY <1>7, FormatParagraphSteps
<1>8. ASSUME NEW row \in 1 .. Len(buffer.lines), AddFloat(row)
      PROVE  Step
  BY <1>8, FloatSteps
<1>9. ASSUME RemoveFloat
      PROVE  Step
  BY <1>9, FloatSteps
<1>10. ASSUME InstallSnapshot
       PROVE  UNCHANGED buffer
  BY <1>10, RestoredAligned DEF InstallSnapshot
<1>11. QED
  BY <1>1, <1>2, <1>3, <1>4, <1>5, <1>6, <1>7, <1>8, <1>9, <1>10 DEF Next

LEMMA InitMapped ==
  ASSUME Init
  PROVE  Styled!Init /\ Bytes(buffer)
<1>1. /\ buffer.lines = << << >> >> /\ buffer.formats = << << >> >>
      /\ buffer.pageBreakBefore = <<FALSE>> /\ buffer.alignment = <<"left">>
      /\ buffer.listLevel = <<0>> /\ buffer.anchors = << >>
  BY DEF Init, EmptyBuffer
<1>2. Bytes(buffer)
  <2>1. 0 \in ListBytes
    BY DEF ListBytes
  <2>2. QED
    BY <1>1, <2>1 DEF Bytes
<1>3. DOMAIN buffer.lines = 1 .. 1
  BY <1>1
<1> DEFINE P == Styled!Paragraph(<< >>, FALSE, "left", 0, 0)
<1>4. ParagraphOf(buffer, 1) = P
  <2>1. buffer.lines[1] = << >> /\ buffer.pageBreakBefore[1] = FALSE
        /\ buffer.alignment[1] = "left" /\ buffer.listLevel[1] = 0
    BY <1>1
  <2>2. [c \in DOMAIN buffer.lines[1] |->
           <<buffer.lines[1][c], FormatAt(buffer, 1, c - 1)>>] = << >>
    BY <2>1
  <2>3. {i \in DOMAIN buffer.anchors : buffer.anchors[i] = 1} = {}
    BY <1>1
  <2>4. Cardinality({i \in DOMAIN buffer.anchors : buffer.anchors[i] = 1}) = 0
    BY <2>3, FS_EmptySet
  <2>5. QED
    BY <2>1, <2>2, <2>4 DEF ParagraphOf, Styled!Paragraph
<1> HIDE DEF P
<1>5. TextOf(buffer) = <<P>>
  <2>1. TextOf(buffer) = [r \in 1 .. 1 |-> ParagraphOf(buffer, r)]
    BY <1>3 DEF TextOf
  <2>2. [r \in 1 .. 1 |-> ParagraphOf(buffer, r)] = [r \in 1 .. 1 |-> P]
    BY <1>4
  <2>3. [r \in 1 .. 1 |-> P] = <<P>>
    OBVIOUS
  <2>4. QED
    BY <2>1, <2>2, <2>3
<1>6. QED
  BY <1>2, <1>5 DEF Styled!Init, P

(***************************************************************************)
(* AlignedEditsImplementStyledText: the parallel vectors implement the     *)
(* sequence of paragraphs, edit by edit, wherever no paste has left a row  *)
(* with more formats than characters.                                      *)
(***************************************************************************)
THEOREM AlignedEditsAreStyled == Spec => AlignedEditsImplementStyledText
<1>1. Init => Styled!Init /\ Sound(buffer) /\ Bytes(buffer)
  BY InitMapped, InitSound
<1>2. Sound(buffer) /\ Bytes(buffer) /\ [Next]_buffer
        => (Sound(buffer) /\ Bytes(buffer))'
  <2>1. SUFFICES ASSUME Sound(buffer), Bytes(buffer), [Next]_buffer
                 PROVE  (Sound(buffer) /\ Bytes(buffer))'
    OBVIOUS
  <2>2. Sound(buffer') /\ Bytes(buffer')
    BY <2>1, StepSound, StepBytes
  <2>3. QED
    BY <2>2
<1>3. Sound(buffer) /\ Bytes(buffer) /\ [Next]_buffer
        => [NoSurplus => Step]_buffer
  <2>1. SUFFICES ASSUME Sound(buffer), Bytes(buffer), [Next]_buffer, NoSurplus
                 PROVE  Step \/ UNCHANGED buffer
    OBVIOUS
  <2>2. Aligned(buffer)
    BY <2>1 DEF NoSurplus, Aligned
  <2>3. QED
    BY <2>1, <2>2, AlignedStep
<1>4. QED
  BY <1>1, <1>2, <1>3, PTL DEF Spec, AlignedEditsImplementStyledText
=============================================================================
