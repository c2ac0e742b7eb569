--------------------------- MODULE TextBufferProofs ---------------------------
(***************************************************************************)
(* What the operators of the two buffers return, whatever is in the text:  *)
(* the lemmas that the proofs about BufferLayers and about CaretEditing    *)
(* rest on.                                                                *)
(***************************************************************************)
EXTENDS FormattedTextBuffer, SequenceTheorems, FiniteSetTheorems,
        WellFoundedInduction, TLAPS

(***************************************************************************)
(* What cutting and splicing returns.                                      *)
(***************************************************************************)
LEMMA TakeFacts ==
  ASSUME NEW S, NEW s \in Seq(S), NEW n \in 0 .. Len(s)
  PROVE  /\ Take(s, n) \in Seq(S) /\ Len(Take(s, n)) = n
         /\ \A i \in 1 .. n : Take(s, n)[i] = s[i]
<1>1. Len(s) \in Nat /\ n \in Int
  BY LenProperties
<1>2. \A i \in 1 .. n : s[i] \in S
  BY <1>1, ElementOfSeq
<1>3. /\ SubSeq(s, 1, n) \in Seq(S)
      /\ Len(SubSeq(s, 1, n)) = IF 1 <= n THEN n - 1 + 1 ELSE 0
      /\ \A i \in 1 .. n - 1 + 1 : SubSeq(s, 1, n)[i] = s[1 + i - 1]
  BY <1>1, <1>2, SubSeqProperties
<1>4. ASSUME NEW i \in 1 .. n
      PROVE  SubSeq(s, 1, n)[i] = s[i]
  <2>1. i \in 1 .. n - 1 + 1 /\ 1 + i - 1 = i
    BY <1>1
  <2>2. QED
    BY <1>3, <2>1
<1>5. QED
  BY <1>1, <1>3, <1>4 DEF Take

\* What is left of a vector after its first n elements.
LEMMA DropFacts ==
  ASSUME NEW S, NEW s \in Seq(S), NEW n \in 0 .. Len(s)
  PROVE  /\ Drop(s, n) \in Seq(S) /\ Len(Drop(s, n)) = Len(s) - n
         /\ \A i \in 1 .. Len(s) - n : Drop(s, n)[i] = s[n + i]
<1>1. Len(s) \in Nat /\ n + 1 \in Int /\ Len(s) \in Int
  BY LenProperties
<1>2. \A i \in n + 1 .. Len(s) : s[i] \in S
  BY <1>1, ElementOfSeq
<1>3. /\ SubSeq(s, n + 1, Len(s)) \in Seq(S)
      /\ Len(SubSeq(s, n + 1, Len(s)))
           = IF n + 1 <= Len(s) THEN Len(s) - (n + 1) + 1 ELSE 0
      /\ \A i \in 1 .. Len(s) - (n + 1) + 1 :
           SubSeq(s, n + 1, Len(s))[i] = s[n + 1 + i - 1]
  BY <1>1, <1>2, SubSeqProperties
<1>4. ASSUME NEW i \in 1 .. Len(s) - n
      PROVE  SubSeq(s, n + 1, Len(s))[i] = s[n + i]
  <2>1. i \in 1 .. Len(s) - (n + 1) + 1 /\ n + 1 + i - 1 = n + i
    BY <1>1
  <2>2. QED
    BY <1>3, <2>1
<1>5. QED
  BY <1>1, <1>3, <1>4 DEF Drop

\* A piece of a vector replaced by another, element by element.
Spliced(p, s, from, to, t) ==
  /\ Len(p) = from + Len(t) + (Len(s) - to)
  /\ \A i \in 1 .. from : p[i] = s[i]
  /\ \A i \in from + 1 .. from + Len(t) : p[i] = t[i - from]
  /\ \A i \in from + Len(t) + 1 .. from + Len(t) + (Len(s) - to) :
       p[i] = s[i - from - Len(t) + to]

\* What Splice returns.
LEMMA SpliceSpliced ==
  ASSUME NEW S, NEW s \in Seq(S), NEW t \in Seq(S),
         NEW from \in 0 .. Len(s), NEW to \in from .. Len(s)
  PROVE  /\ Splice(s, from, to, t) \in Seq(S)
         /\ Spliced(Splice(s, from, to, t), s, from, to, t)
<1> DEFINE a == Take(s, from)
           b == Drop(s, to)
<1>1. /\ Len(s) \in Nat /\ Len(t) \in Nat /\ from \in Nat /\ to \in Nat
      /\ from <= Len(s) /\ to <= Len(s) /\ to \in 0 .. Len(s)
  BY LenProperties
<1>2. /\ a \in Seq(S) /\ Len(a) = from
      /\ \A i \in 1 .. from : a[i] = s[i]
  BY TakeFacts
<1>3. /\ b \in Seq(S) /\ Len(b) = Len(s) - to
      /\ \A i \in 1 .. Len(s) - to : b[i] = s[to + i]
  BY <1>1, DropFacts
<1> HIDE DEF a, b
<1> DEFINE at == a \o t
<1>4. /\ at \in Seq(S) /\ Len(at) = from + Len(t)
      /\ \A i \in 1 .. from + Len(t) :
           at[i] = IF i <= from THEN a[i] ELSE t[i - from]
  BY <1>2, ConcatProperties
<1> HIDE DEF at
<1>5. /\ at \o b \in Seq(S)
      /\ Len(at \o b) = from + Len(t) + (Len(s) - to)
      /\ \A i \in 1 .. from + Len(t) + (Len(s) - to) :
           (at \o b)[i] = IF i <= from + Len(t) THEN at[i]
                          ELSE b[i - (from + Len(t))]
  <2>1. /\ at \o b \in Seq(S) /\ Len(at \o b) = Len(at) + Len(b)
        /\ \A i \in 1 .. Len(at) + Len(b) :
             (at \o b)[i] = IF i <= Len(at) THEN at[i] ELSE b[i - Len(at)]
    BY <1>3, <1>4, ConcatProperties
  <2>2. QED
    BY <1>3, <1>4, <2>1
<1>6. Splice(s, from, to, t) = at \o b
  BY DEF Splice, a, b, at
<1>7. ASSUME NEW i \in 1 .. from
      PROVE  (at \o b)[i] = s[i]
  <2>1. i \in 1 .. from + Len(t) /\ i <= from /\ i <= from + Len(t)
        /\ i \in 1 .. from + Len(t) + (Len(s) - to)
    BY <1>1
  <2>2. QED
    BY <1>2, <1>4, <1>5, <2>1
<1>8. ASSUME NEW i \in from + 1 .. from + Len(t)
      PROVE  (at \o b)[i] = t[i - from]
  <2>1. i \in 1 .. from + Len(t) /\ ~(i <= from) /\ i <= from + Len(t)
        /\ i \in 1 .. from + Len(t) + (Len(s) - to)
    BY <1>1
  <2>2. QED
    BY <1>4, <1>5, <2>1
<1>9. ASSUME NEW i \in from + Len(t) + 1 .. from + Len(t) + (Len(s) - to)
      PROVE  (at \o b)[i] = s[i - from - Len(t) + to]
  <2>1. /\ ~(i <= from + Len(t)) /\ i - (from + Len(t)) \in 1 .. Len(s) - to
        /\ i \in 1 .. from + Len(t) + (Len(s) - to)
        /\ to + (i - (from + Len(t))) = i - from - Len(t) + to
    BY <1>1
  <2>2. QED
    BY <1>3, <1>5, <2>1
<1> DEFINE p == Splice(s, from, to, t)
<1>10. /\ p \in Seq(S)
       /\ Len(p) = from + Len(t) + (Len(s) - to)
       /\ \A i \in 1 .. from : p[i] = s[i]
       /\ \A i \in from + 1 .. from + Len(t) : p[i] = t[i - from]
       /\ \A i \in from + Len(t) + 1 .. from + Len(t) + (Len(s) - to) :
            p[i] = s[i - from - Len(t) + to]
  BY <1>5, <1>6, <1>7, <1>8, <1>9
<1> HIDE DEF p
<1>11. p \in Seq(S) /\ Spliced(p, s, from, to, t)
  BY <1>10 DEF Spliced
<1>12. QED
  BY <1>11 DEF p

\* The same, spelled out.
LEMMA SpliceFacts ==
  ASSUME NEW S, NEW s \in Seq(S), NEW t \in Seq(S),
         NEW from \in 0 .. Len(s), NEW to \in from .. Len(s)
  PROVE  /\ Splice(s, from, to, t) \in Seq(S)
         /\ Len(Splice(s, from, to, t)) = from + Len(t) + (Len(s) - to)
         /\ \A i \in 1 .. from : Splice(s, from, to, t)[i] = s[i]
         /\ \A i \in from + 1 .. from + Len(t) :
              Splice(s, from, to, t)[i] = t[i - from]
         /\ \A i \in from + Len(t) + 1 .. from + Len(t) + (Len(s) - to) :
              Splice(s, from, to, t)[i] = s[i - from - Len(t) + to]
<1> DEFINE p == Splice(s, from, to, t)
<1>1. p \in Seq(S) /\ Spliced(p, s, from, to, t)
  BY SpliceSpliced
<1> HIDE DEF p
<1>2. /\ p \in Seq(S)
      /\ Len(p) = from + Len(t) + (Len(s) - to)
      /\ \A i \in 1 .. from : p[i] = s[i]
      /\ \A i \in from + 1 .. from + Len(t) : p[i] = t[i - from]
      /\ \A i \in from + Len(t) + 1 .. from + Len(t) + (Len(s) - to) :
           p[i] = s[i - from - Len(t) + to]
  BY <1>1 DEF Spliced
<1>3. QED
  BY <1>2 DEF p

\* The part behind the splice, position by position.
LEMMA SpliceTail ==
  ASSUME NEW S, NEW s \in Seq(S), NEW t \in Seq(S),
         NEW from \in 0 .. Len(s), NEW to \in from .. Len(s),
         NEW i \in from + Len(t) + 1 .. from + Len(t) + (Len(s) - to)
  PROVE  Splice(s, from, to, t)[i] = s[i - from - Len(t) + to]
BY SpliceFacts

\* A vector of n equal elements.
LEMMA FillFacts ==
  ASSUME NEW S, NEW n \in Nat, NEW x \in S
  PROVE  Fill(n, x) \in Seq(S) /\ Len(Fill(n, x)) = n
BY DEF Fill

\* resize, to more than there is: padding only.
LEMMA ResizeFacts ==
  ASSUME NEW S, NEW s \in Seq(S), NEW n \in Nat, NEW x \in S
  PROVE  Resize(s, n, x) \in Seq(S) /\ Len(Resize(s, n, x)) = n
<1>1. Len(s) \in Nat
  BY LenProperties
<1>2. CASE Len(s) >= n
  BY <1>1, <1>2, TakeFacts DEF Resize
<1>3. CASE ~(Len(s) >= n)
  <2>1. n - Len(s) \in Nat
    BY <1>1, <1>3
  <2>2. Fill(n - Len(s), x) \in Seq(S) /\ Len(Fill(n - Len(s), x)) = n - Len(s)
    BY <2>1, FillFacts
  <2>3. QED
    BY <1>1, <1>3, <2>2, ConcatProperties DEF Resize
<1>4. QED
  BY <1>2, <1>3

\* Rows from .. to of a vector are erased.
LEMMA EraseRowsFacts ==
  ASSUME NEW S, NEW s \in Seq(S),
         NEW from \in 1 .. Len(s), NEW to \in from .. Len(s)
  PROVE  /\ EraseRows(s, from, to) \in Seq(S)
         /\ Len(EraseRows(s, from, to)) = Len(s) - (to - from + 1)
<1>1. Len(s) \in Nat
  BY LenProperties
<1>2. << >> \in Seq(S) /\ Len(<< >>) = 0
  OBVIOUS
<1>3. from - 1 \in 0 .. Len(s) /\ to \in from - 1 .. Len(s)
  BY <1>1
<1>4. /\ Splice(s, from - 1, to, << >>) \in Seq(S)
      /\ Len(Splice(s, from - 1, to, << >>)) = from - 1 + Len(<< >>) + (Len(s) - to)
  BY <1>2, <1>3, SpliceFacts
<1>5. from - 1 + Len(<< >>) + (Len(s) - to) = Len(s) - (to - from + 1)
  BY <1>1, <1>2
<1>6. QED
  BY <1>4, <1>5 DEF EraseRows

\* One row of a vector is erased.
LEMMA EraseOneFacts ==
  ASSUME NEW S, NEW s \in Seq(S), NEW r \in 1 .. Len(s)
  PROVE  /\ EraseIfPresent(s, r) \in Seq(S)
         /\ Len(EraseIfPresent(s, r)) = Len(s) - 1
<1>1. Len(s) \in Nat /\ DOMAIN s = 1 .. Len(s)
  BY LenProperties
<1>2. r \in r .. Len(s) /\ r - r + 1 = 1
  BY <1>1
<1>3. EraseRows(s, r, r) \in Seq(S) /\ Len(EraseRows(s, r, r)) = Len(s) - (r - r + 1)
  BY <1>2, EraseRowsFacts
<1>4. QED
  BY <1>1, <1>2, <1>3 DEF EraseIfPresent

\* The floats of a joined row, and of the rows below it.
LEMMA MergeFacts ==
  ASSUME NEW n \in Nat, NEW an \in Seq(Nat),
         \A i \in 1 .. Len(an) : an[i] \in 1 .. n, NEW r \in 2 .. n
  PROVE  /\ MergeFloatAnchors(an, r, r - 1) \in Seq(Nat)
         /\ \A i \in 1 .. Len(MergeFloatAnchors(an, r, r - 1)) :
              MergeFloatAnchors(an, r, r - 1)[i] \in 1 .. n - 1
<1> DEFINE m == MergeFloatAnchors(an, r, r - 1)
<1>1. DOMAIN an = 1 .. Len(an) /\ Len(an) \in Nat
  BY LenProperties
<1>2. ASSUME NEW i \in 1 .. Len(an)
      PROVE  m[i] \in 1 .. n - 1
  <2>1. an[i] \in 1 .. n
    OBVIOUS
  <2>2. m[i] = IF an[i] = r THEN r - 1 ELSE IF an[i] > r THEN an[i] - 1 ELSE an[i]
    BY <1>1 DEF MergeFloatAnchors
  <2>3. QED
    BY <2>1, <2>2
<1>3. DOMAIN m = 1 .. Len(an)
  BY <1>1 DEF MergeFloatAnchors
<1>4. m \in Seq(Nat) /\ Len(m) = Len(an)
  <2>1. m = [i \in 1 .. Len(an) |-> m[i]]
    BY <1>1 DEF MergeFloatAnchors
  <2>2. \A i \in 1 .. Len(an) : m[i] \in Nat
    BY <1>2
  <2> HIDE DEF m
  <2>3. QED
    BY <1>1, <2>1, <2>2
<1>5. QED
  BY <1>2, <1>4

(***************************************************************************)
(* Rows come in: a line break, and a paste.                                *)
(***************************************************************************)
\* Several rows are inserted below a row there is.
LEMMA InsertRowsFacts ==
  ASSUME NEW S, NEW s \in Seq(S), NEW x \in S, NEW n \in Nat, Len(s) = n,
         NEW row \in 1 .. n, NEW k \in Nat
  PROVE  /\ Splice(s, row, row, Fill(k, x)) \in Seq(S)
         /\ Len(Splice(s, row, row, Fill(k, x))) = n + k
<1> DEFINE t == Fill(k, x)
<1>1. t \in Seq(S) /\ Len(t) = k
  BY FillFacts
<1> HIDE DEF t
<1>2. row \in 0 .. Len(s) /\ row \in row .. Len(s)
  OBVIOUS
<1>3. /\ Splice(s, row, row, t) \in Seq(S)
      /\ Len(Splice(s, row, row, t)) = row + Len(t) + (Len(s) - row)
  BY <1>1, <1>2, SpliceFacts
<1>4. row + Len(t) + (Len(s) - row) = n + k
  BY <1>1
<1>5. QED
  BY <1>3, <1>4 DEF t

\* One row is inserted below a row there is.
LEMMA InsertBelowFacts ==
  ASSUME NEW S, NEW s \in Seq(S), NEW x \in S, NEW row \in 1 .. Len(s)
  PROVE  /\ InsertBelow(s, row, x) \in Seq(S)
         /\ Len(InsertBelow(s, row, x)) = Len(s) + 1
<1>1. Len(s) \in Nat /\ Len(s) >= row
  BY LenProperties
<1>2. Fill(1, x) = <<x>>
  BY DEF Fill
<1>3. /\ Splice(s, row, row, Fill(1, x)) \in Seq(S)
      /\ Len(Splice(s, row, row, Fill(1, x))) = Len(s) + 1
  BY <1>1, InsertRowsFacts
<1>4. QED
  BY <1>1, <1>2, <1>3 DEF InsertBelow

\* The value a new row takes over from the row it is cut from.
LEMMA RowValueFacts ==
  ASSUME NEW S, NEW s \in Seq(S), NEW row, NEW d \in S
  PROVE  RowValue(s, row, d) \in S
<1>1. DOMAIN s = 1 .. Len(s)
  BY LenProperties
<1>2. ASSUME row \in 1 .. Len(s)
      PROVE  s[row] \in S
  BY <1>2, ElementOfSeq
<1>3. QED
  BY <1>1, <1>2 DEF RowValue

\* The floats below the new rows move down.
LEMMA ShiftFacts ==
  ASSUME NEW n \in Nat, NEW an \in Seq(Nat),
         \A i \in 1 .. Len(an) : an[i] \in 1 .. n,
         NEW r \in Nat, NEW k \in Nat
  PROVE  /\ ShiftAnchorsAtOrAfter(an, r, k) \in Seq(Nat)
         /\ \A i \in 1 .. Len(ShiftAnchorsAtOrAfter(an, r, k)) :
              ShiftAnchorsAtOrAfter(an, r, k)[i] \in 1 .. n + k
<1> DEFINE m == ShiftAnchorsAtOrAfter(an, r, k)
<1>1. DOMAIN an = 1 .. Len(an) /\ Len(an) \in Nat
  BY LenProperties
<1>2. ASSUME NEW i \in 1 .. Len(an)
      PROVE  m[i] \in 1 .. n + k
  <2>1. an[i] \in 1 .. n
    OBVIOUS
  <2>2. m[i] = IF an[i] >= r THEN an[i] + k ELSE an[i]
    BY <1>1 DEF ShiftAnchorsAtOrAfter
  <2>3. QED
    BY <2>1, <2>2
<1>3. m \in Seq(Nat) /\ Len(m) = Len(an)
  <2>1. m = [i \in 1 .. Len(an) |-> m[i]]
    BY <1>1 DEF ShiftAnchorsAtOrAfter
  <2>2. \A i \in 1 .. Len(an) : m[i] \in Nat
    BY <1>2
  <2> HIDE DEF m
  <2>3. QED
    BY <1>1, <2>1, <2>2
<1>4. QED
  BY <1>2, <1>3

\* The vectors of the paragraphs, when rows come in that take their state
\* over from the row above them.
LEMMA GrowTaken ==
  ASSUME NEW S, NEW n \in Nat, NEW row \in 1 .. n, NEW s \in Seq(S), Len(s) = n,
         NEW k \in Nat, NEW d \in S
  PROVE  LET grown == Splice(s, row, row, Fill(k, RowValue(s, row, d)))
         IN  grown \in Seq(S) /\ Len(grown) = n + k
<1> DEFINE v == RowValue(s, row, d)
<1>1. v \in S
  BY RowValueFacts
<1> HIDE DEF v
<1>2. /\ Splice(s, row, row, Fill(k, v)) \in Seq(S)
      /\ Len(Splice(s, row, row, Fill(k, v))) = n + k
  BY <1>1, InsertRowsFacts
<1>3. QED
  BY <1>2 DEF v

(***************************************************************************)
(* A range is deleted.                                                     *)
(***************************************************************************)
\* Rows first .. last of a vector go, all of which it has.
LEMMA EraseRangeFacts ==
  ASSUME NEW S, NEW n \in Nat, NEW s \in Seq(S), Len(s) = n,
         NEW from \in 1 .. n, NEW to \in from .. n
  PROVE  /\ EraseRowsPresent(s, from, to) \in Seq(S)
         /\ Len(EraseRowsPresent(s, from, to)) = n - (to - from + 1)
<1>1. from \in 1 .. Len(s) /\ to \in from .. Len(s) /\ to <= Len(s) /\ from <= to
  OBVIOUS
<1>2. EraseRowsPresent(s, from, to) = EraseRows(s, from, to)
  BY <1>1 DEF EraseRowsPresent
<1>3. /\ EraseRows(s, from, to) \in Seq(S)
      /\ Len(EraseRows(s, from, to)) = Len(s) - (to - from + 1)
  BY <1>1, EraseRowsFacts
<1>4. QED
  BY <1>2, <1>3

\* The floats of the rows that go, and of the rows below them.
LEMMA CollapseFacts ==
  ASSUME NEW n \in Nat, NEW an \in Seq(Nat),
         \A i \in 1 .. Len(an) : an[i] \in 1 .. n,
         NEW r1 \in 1 .. n, NEW r2 \in r1 .. n
  PROVE  /\ CollapseFloatAnchors(an, r1, r2) \in Seq(Nat)
         /\ \A i \in 1 .. Len(CollapseFloatAnchors(an, r1, r2)) :
              CollapseFloatAnchors(an, r1, r2)[i] \in 1 .. n - (r2 - r1)
<1> DEFINE m == CollapseFloatAnchors(an, r1, r2)
<1>1. DOMAIN an = 1 .. Len(an) /\ Len(an) \in Nat
  BY LenProperties
<1>2. ASSUME NEW i \in 1 .. Len(an)
      PROVE  m[i] \in 1 .. n - (r2 - r1)
  <2>1. an[i] \in 1 .. n
    OBVIOUS
  <2>2. m[i] = IF an[i] > r2 THEN an[i] - (r2 - r1)
               ELSE IF an[i] > r1 THEN r1 ELSE an[i]
    BY <1>1 DEF CollapseFloatAnchors
  <2>3. QED
    BY <2>1, <2>2
<1>3. m \in Seq(Nat) /\ Len(m) = Len(an)
  <2>1. m = [i \in 1 .. Len(an) |-> m[i]]
    BY <1>1 DEF CollapseFloatAnchors
  <2>2. \A i \in 1 .. Len(an) : m[i] \in Nat
    BY <1>2
  <2> HIDE DEF m
  <2>3. QED
    BY <1>1, <2>1, <2>2
<1>4. QED
  BY <1>2, <1>3

\* The state of one paragraph is set.
LEMMA SetOneFacts ==
  ASSUME NEW S, NEW s \in Seq(S), NEW r \in 1 .. Len(s), NEW x \in S
  PROVE  /\ [s EXCEPT ![r] = x] \in Seq(S)
         /\ Len([s EXCEPT ![r] = x]) = Len(s)
BY ExceptSeq

-----------------------------------------------------------------------------
(***************************************************************************)
(* Cutting a line in two and joining the parts.                            *)
(***************************************************************************)
\* The two parts of a line make the line.
LEMMA PartsMakeLine ==
  ASSUME NEW B, NEW s \in Seq(B), NEW n \in 0 .. Len(s)
  PROVE  Take(s, n) \o Drop(s, n) = s
<1>1. Len(s) \in Nat
  BY LenProperties
<1>2. 1 \in 1 .. Len(s) + 1 /\ n \in 1 - 1 .. Len(s) /\ Len(s) \in n .. Len(s)
  BY <1>1
<1>3. SubSeq(s, 1, n) \o SubSeq(s, n + 1, Len(s)) = SubSeq(s, 1, Len(s))
  BY <1>2, ConcatAdjacentSubSeq
<1>4. SubSeq(s, 1, Len(s)) = s
  BY SubSeqFull
<1>5. QED
  BY <1>3, <1>4 DEF Take, Drop

\* A line made of two parts is cut between them.
LEMMA CutBetween ==
  ASSUME NEW B, NEW x \in Seq(B), NEW y \in Seq(B)
  PROVE  /\ Len(x) \in 0 .. Len(x \o y)
         /\ Take(x \o y, Len(x)) = x
         /\ Drop(x \o y, Len(x)) = y
<1> DEFINE s == x \o y
           n == Len(x)
           m == Len(y)
<1>1. /\ n \in Nat /\ m \in Nat /\ s \in Seq(B) /\ Len(s) = n + m
      /\ \A i \in 1 .. n + m : s[i] = IF i <= n THEN x[i] ELSE y[i - n]
  BY LenProperties, ConcatProperties
<1>2. /\ Len(s) = n + m /\ n \in Nat /\ m \in Nat
  BY <1>1
<1> HIDE DEF s, n, m
<1>3. n \in 0 .. Len(s)
  BY <1>2
<1>4. s \in Seq(B)
  BY <1>1
<1>5. /\ Take(s, n) \in Seq(B) /\ Len(Take(s, n)) = n
      /\ \A i \in 1 .. n : Take(s, n)[i] = s[i]
  BY <1>3, <1>4, TakeFacts
<1>6. /\ Drop(s, n) \in Seq(B) /\ Len(Drop(s, n)) = Len(s) - n
      /\ \A i \in 1 .. Len(s) - n : Drop(s, n)[i] = s[n + i]
  BY <1>3, <1>4, DropFacts
<1>7. Take(s, n) = x
  <2>1. \A i \in 1 .. n : s[i] = x[i]
    BY <1>1, <1>2
  <2>2. \A i \in 1 .. n : Take(s, n)[i] = x[i]
    BY <1>5, <2>1
  <2>3. Len(Take(s, n)) = Len(x)
    BY <1>5 DEF n
  <2>4. \A i \in 1 .. Len(Take(s, n)) : Take(s, n)[i] = x[i]
    BY <1>5, <2>2
  <2>5. QED
    BY <1>5, <2>3, <2>4, SeqEqual
<1>8. Drop(s, n) = y
  <2>1. ASSUME NEW i \in 1 .. m
        PROVE  Drop(s, n)[i] = y[i]
    <3>1. n + i \in 1 .. n + m /\ ~(n + i <= n) /\ n + i - n = i
      BY <1>2
    <3>2. s[n + i] = y[i]
      BY <1>1, <3>1
    <3>3. i \in 1 .. Len(s) - n
      BY <1>2
    <3>4. QED
      BY <1>6, <3>2, <3>3
  <2>2. Len(Drop(s, n)) = m
    BY <1>2, <1>6
  <2>3. Len(Drop(s, n)) = Len(y)
    BY <2>2 DEF m
  <2>4. \A i \in 1 .. Len(Drop(s, n)) : Drop(s, n)[i] = y[i]
    BY <2>1, <2>2
  <2>5. QED
    BY <1>6, <2>3, <2>4, SeqEqual
<1>9. QED
  BY <1>3, <1>7, <1>8 DEF s, n

(***************************************************************************)
(* A set of lines that joining stays in: all the lines of bytes, or those  *)
(* of them that are UTF-8.  A line is cut within the set at a column when  *)
(* both its parts are in the set.                                          *)
(***************************************************************************)
Closed(W, B) ==
  /\ W \subseteq Seq(B)
  /\ << >> \in W
  /\ \A x \in W, y \in W : x \o y \in W

CutIn(W, line, col) ==
  col \in 0 .. Len(line) /\ Take(line, col) \in W /\ Drop(line, col) \in W

\* Where two lines of the set were joined.
LEMMA CutAtJoin ==
  ASSUME NEW B, NEW W, Closed(W, B), NEW x \in W, NEW y \in W
  PROVE  x \o y \in W /\ CutIn(W, x \o y, Len(x))
<1>1. x \in Seq(B) /\ y \in Seq(B) /\ x \o y \in W
  BY DEF Closed
<1>2. QED
  BY <1>1, CutBetween DEF CutIn

\* At the start and at the end of a line of the set.
LEMMA CutAtEnds ==
  ASSUME NEW B, NEW W, Closed(W, B), NEW x \in W
  PROVE  CutIn(W, x, 0) /\ CutIn(W, x, Len(x))
<1>1. x \in Seq(B) /\ << >> \in W /\ Len(<< >>) = 0
  BY DEF Closed
<1>2. << >> \o x = x /\ x \o << >> = x
  BY <1>1, ConcatEmptySeq
<1>3. CutIn(W, << >> \o x, Len(<< >>))
  BY <1>1, CutAtJoin
<1>4. CutIn(W, x \o << >>, Len(x))
  BY <1>1, CutAtJoin
<1>5. QED
  BY <1>1, <1>2, <1>3, <1>4

\* Something of the set comes between the parts of one or of two lines.
LEMMA CutBehind ==
  ASSUME NEW B, NEW W, Closed(W, B), NEW x, NEW y, NEW t \in W,
         NEW c, NEW d, CutIn(W, x, c), CutIn(W, y, d)
  PROVE  /\ Take(x, c) \o t \o Drop(y, d) \in W
         /\ CutIn(W, Take(x, c) \o t \o Drop(y, d), c + Len(t))
<1> DEFINE a == Take(x, c)
           b == Drop(y, d)
<1>1. a \in W /\ b \in W /\ c \in 0 .. Len(x)
  BY DEF CutIn
<1>2. a \o t \in W /\ a \in Seq(B) /\ t \in Seq(B)
  BY <1>1 DEF Closed
<1>3. Len(a \o t) = Len(a) + Len(t)
  BY <1>2, ConcatProperties
<1>4. a \o t \o b \in W /\ CutIn(W, a \o t \o b, Len(a \o t))
  <2> HIDE DEF a, b
  <2> DEFINE at == a \o t
  <2>1. at \in W /\ b \in W
    BY <1>1, <1>2
  <2> HIDE DEF at
  <2>2. at \o b \in W /\ CutIn(W, at \o b, Len(at))
    BY <2>1, CutAtJoin
  <2>3. QED
    BY <2>2 DEF at
<1>5. Len(a) = c
  <2>1. c \in Int /\ c >= 0
    BY <1>1
  <2>2. Len(a) = IF 1 <= c THEN c - 1 + 1 ELSE 0
    BY <2>1 DEF Take
  <2>3. QED
    BY <2>1, <2>2
<1>6. QED
  BY <1>3, <1>4, <1>5

-----------------------------------------------------------------------------
(***************************************************************************)
(* What every edit of the text leaves behind, for a closed set of lines:   *)
(* the lines are in it, there are as many as the edit says, and the place  *)
(* the caret goes to cuts its line within the set.                         *)
(***************************************************************************)
CaretIn(W, ls, row, col) == row \in 1 .. Len(ls) /\ CutIn(W, ls[row], col)

\* A row gives way to a line of the set.
LEMMA RowSet ==
  ASSUME NEW W, NEW ls \in Seq(W), NEW row \in 1 .. Len(ls), NEW z \in W,
         NEW c, CutIn(W, z, c)
  PROVE  /\ [ls EXCEPT ![row] = z] \in Seq(W)
         /\ Len([ls EXCEPT ![row] = z]) = Len(ls)
         /\ CaretIn(W, [ls EXCEPT ![row] = z], row, c)
<1>1. /\ [ls EXCEPT ![row] = z] \in Seq(W)
      /\ Len([ls EXCEPT ![row] = z]) = Len(ls)
      /\ [ls EXCEPT ![row] = z][row] = z
  BY ExceptSeq
<1>2. QED
  BY <1>1 DEF CaretIn

\* Rows give way to lines of the set, the caret going to one of these.
LEMMA RowsSet ==
  ASSUME NEW W, NEW ls \in Seq(W), NEW t \in Seq(W),
         NEW from \in 0 .. Len(ls), NEW to \in from .. Len(ls),
         NEW i \in 1 .. Len(t), NEW c, CutIn(W, t[i], c)
  PROVE  /\ Splice(ls, from, to, t) \in Seq(W)
         /\ Len(Splice(ls, from, to, t)) = from + Len(t) + (Len(ls) - to)
         /\ CaretIn(W, Splice(ls, from, to, t), from + i, c)
<1> DEFINE r == Splice(ls, from, to, t)
<1>1. /\ r \in Seq(W) /\ Len(r) = from + Len(t) + (Len(ls) - to)
      /\ \A j \in from + 1 .. from + Len(t) : r[j] = t[j - from]
  BY SpliceFacts
<1> HIDE DEF r
<1>2. Len(ls) \in Nat /\ Len(t) \in Nat
  BY LenProperties
<1>3. /\ from + i \in from + 1 .. from + Len(t) /\ from + i - from = i
      /\ from + i \in 1 .. from + Len(t) + (Len(ls) - to)
  BY <1>2
<1>4. r[from + i] = t[i]
  BY <1>1, <1>3
<1>5. CaretIn(W, r, from + i, c)
  BY <1>1, <1>3, <1>4 DEF CaretIn
<1>6. QED
  BY <1>1, <1>5 DEF r

\* A place in the text, taken apart.
LEMMA CaretFacts ==
  ASSUME NEW B, NEW W, Closed(W, B), NEW ls \in Seq(W), NEW row, NEW col,
         CaretIn(W, ls, row, col)
  PROVE  /\ row \in 1 .. Len(ls) /\ row \in Nat /\ row \in DOMAIN ls
         /\ ls[row] \in W /\ ls[row] \in Seq(B)
         /\ CutIn(W, ls[row], col)
         /\ col \in 0 .. Len(ls[row]) /\ col \in Nat
         /\ Len(ls) \in Nat /\ Len(ls[row]) \in Nat
         /\ Clamp(col, 0, Len(ls[row])) = col
         /\ Clamp(row, 1, Len(ls)) = row
<1>1. row \in 1 .. Len(ls) /\ CutIn(W, ls[row], col) /\ col \in 0 .. Len(ls[row])
  BY DEF CaretIn, CutIn
<1>2. Len(ls) \in Nat /\ DOMAIN ls = 1 .. Len(ls)
  BY LenProperties
<1>3. ls[row] \in W
  BY <1>1, ElementOfSeq
<1>4. ls[row] \in Seq(B)
  BY <1>3 DEF Closed
<1>5. Len(ls[row]) \in Nat
  BY <1>4, LenProperties
<1>6. /\ Clamp(col, 0, Len(ls[row])) = col
      /\ Clamp(row, 1, Len(ls)) = row
  <2>1. ASSUME NEW n \in Nat, NEW low \in Nat, NEW x \in low .. n
        PROVE  Clamp(x, low, n) = x
    BY DEF Clamp
  <2>2. Clamp(col, 0, Len(ls[row])) = col
    BY <1>1, <1>5, <2>1
  <2>3. Clamp(row, 1, Len(ls)) = row
    BY <1>1, <1>2, <2>1
  <2>4. QED
    BY <2>2, <2>3
<1>7. QED
  BY <1>1, <1>2, <1>3, <1>4, <1>5, <1>6

\* InsertChar: the caret goes behind the character.
LEMMA InsertCharText_In ==
  ASSUME NEW B, NEW W, Closed(W, B), NEW ls \in Seq(W), NEW row, NEW col,
         CaretIn(W, ls, row, col), NEW ch, <<ch>> \in W
  PROVE  /\ InsertCharText(ls, col, row, ch) \in Seq(W)
         /\ Len(InsertCharText(ls, col, row, ch)) = Len(ls)
         /\ CaretIn(W, InsertCharText(ls, col, row, ch), row, col + 1)
<1> DEFINE z == Splice(ls[row], col, col, <<ch>>)
<1>1. /\ row \in 1 .. Len(ls) /\ row \in DOMAIN ls
      /\ CutIn(W, ls[row], col)
      /\ Clamp(col, 0, Len(ls[row])) = col
  BY CaretFacts
<1>2. /\ Take(ls[row], col) \o <<ch>> \o Drop(ls[row], col) \in W
      /\ CutIn(W, Take(ls[row], col) \o <<ch>> \o Drop(ls[row], col),
               col + Len(<<ch>>))
  BY <1>1, CutBehind
<1>3. z \in W /\ CutIn(W, z, col + 1)
  BY <1>2 DEF Splice
<1> HIDE DEF z
<1>4. /\ [ls EXCEPT ![row] = z] \in Seq(W)
      /\ Len([ls EXCEPT ![row] = z]) = Len(ls)
      /\ CaretIn(W, [ls EXCEPT ![row] = z], row, col + 1)
  BY <1>1, <1>3, RowSet
<1>5. InsertCharText(ls, col, row, ch) = [ls EXCEPT ![row] = z]
  BY <1>1 DEF InsertCharText, z
<1>6. QED
  BY <1>4, <1>5

\* InsertNewline: the caret goes to the start of the new row.
LEMMA InsertNewlineText_In ==
  ASSUME NEW B, NEW W, Closed(W, B), NEW ls \in Seq(W), NEW row, NEW col,
         CaretIn(W, ls, row, col)
  PROVE  /\ InsertNewlineText(ls, col, row) \in Seq(W)
         /\ Len(InsertNewlineText(ls, col, row)) = Len(ls) + 1
         /\ CaretIn(W, InsertNewlineText(ls, col, row), row + 1, 0)
<1> DEFINE x == Take(ls[row], col)
           y == Drop(ls[row], col)
<1>1. /\ row \in 1 .. Len(ls) /\ row \in DOMAIN ls /\ row \in Nat
      /\ CutIn(W, ls[row], col) /\ Len(ls) \in Nat
      /\ Clamp(col, 0, Len(ls[row])) = col
  BY CaretFacts
<1>2. x \in W /\ y \in W
  BY <1>1 DEF CutIn
<1>3. CutIn(W, y, 0)
  <2> HIDE DEF y
  <2>1. QED
    BY <1>2, CutAtEnds
<1>4. InsertNewlineText(ls, col, row) = Splice(ls, row - 1, row, <<x, y>>)
  BY <1>1 DEF InsertNewlineText, SplitRow
<1> HIDE DEF x, y
<1> DEFINE t == <<x, y>>
<1>5. t \in Seq(W) /\ Len(t) = 2 /\ t[2] = y
  BY <1>2
<1> HIDE DEF t
<1>6. row - 1 \in 0 .. Len(ls) /\ row \in row - 1 .. Len(ls) /\ 2 \in 1 .. Len(t)
  BY <1>1, <1>5
<1>7. CutIn(W, t[2], 0)
  BY <1>3, <1>5
<1>8. /\ Splice(ls, row - 1, row, t) \in Seq(W)
      /\ Len(Splice(ls, row - 1, row, t)) = row - 1 + Len(t) + (Len(ls) - row)
      /\ CaretIn(W, Splice(ls, row - 1, row, t), row - 1 + 2, 0)
  BY <1>5, <1>6, <1>7, RowsSet
<1>9. row - 1 + Len(t) + (Len(ls) - row) = Len(ls) + 1 /\ row - 1 + 2 = row + 1
  BY <1>1, <1>5
<1>10. QED
  BY <1>4, <1>8, <1>9 DEF t

\* DeleteRange, within a row or across rows: the caret goes to the start.
LEMMA DeleteRangeText_In ==
  ASSUME NEW B, NEW W, Closed(W, B), NEW ls \in Seq(W),
         NEW r1, NEW c1, CaretIn(W, ls, r1, c1),
         NEW r2, NEW c2, CaretIn(W, ls, r2, c2), r1 <= r2
  PROVE  /\ DeleteRangeText(ls, r1, c1, r2, c2) \in Seq(W)
         /\ Len(DeleteRangeText(ls, r1, c1, r2, c2)) = Len(ls) - (r2 - r1)
         /\ CaretIn(W, DeleteRangeText(ls, r1, c1, r2, c2), r1, c1)
<1> DEFINE z == Take(ls[r1], c1) \o << >> \o Drop(ls[r2], c2)
<1>1. /\ r1 \in 1 .. Len(ls) /\ r1 \in Nat /\ CutIn(W, ls[r1], c1)
      /\ Len(ls) \in Nat /\ c1 \in Nat
      /\ Clamp(c1, 0, Len(ls[r1])) = c1 /\ Clamp(r1, 1, Len(ls)) = r1
  BY CaretFacts
<1>2. /\ r2 \in 1 .. Len(ls) /\ r2 \in Nat /\ CutIn(W, ls[r2], c2)
      /\ Clamp(c2, 0, Len(ls[r2])) = c2 /\ Clamp(r2, 1, Len(ls)) = r2
  BY CaretFacts
<1>3. << >> \in W
  BY DEF Closed
<1>4. /\ Take(ls[r1], c1) \o << >> \o Drop(ls[r2], c2) \in W
      /\ CutIn(W, Take(ls[r1], c1) \o << >> \o Drop(ls[r2], c2), c1 + Len(<< >>))
  BY <1>1, <1>2, <1>3, CutBehind
<1>5. z \in W /\ CutIn(W, z, c1)
  <2>1. c1 + Len(<< >>) = c1
    BY <1>1
  <2>2. QED
    BY <1>4, <2>1
<1>6. CASE r1 = r2
  <2>1. DeleteRangeText(ls, r1, c1, r2, c2) = [ls EXCEPT ![r1] = z]
    BY <1>1, <1>2, <1>6 DEF DeleteRangeText, Splice
  <2> HIDE DEF z
  <2>2. /\ [ls EXCEPT ![r1] = z] \in Seq(W)
        /\ Len([ls EXCEPT ![r1] = z]) = Len(ls)
        /\ CaretIn(W, [ls EXCEPT ![r1] = z], r1, c1)
    BY <1>1, <1>5, RowSet
  <2>3. Len(ls) - (r2 - r1) = Len(ls)
    BY <1>1, <1>6
  <2>4. QED
    BY <2>1, <2>2, <2>3
<1>7. CASE r1 # r2
  <2>1. Take(ls[r1], c1) \o Drop(ls[r2], c2) = z
    <3>1. Take(ls[r1], c1) \in Seq(B)
      BY <1>1 DEF CutIn, Closed
    <3>2. Take(ls[r1], c1) \o << >> = Take(ls[r1], c1)
      BY <3>1, ConcatEmptySeq
    <3>3. QED
      BY <3>2
  <2>2. DeleteRangeText(ls, r1, c1, r2, c2) = Splice(ls, r1 - 1, r2, <<z>>)
    BY <1>1, <1>2, <1>7, <2>1 DEF DeleteRangeText
  <2> HIDE DEF z
  <2> DEFINE t == <<z>>
  <2>3. t \in Seq(W) /\ Len(t) = 1 /\ t[1] = z
    BY <1>5
  <2> HIDE DEF t
  <2>4. r1 - 1 \in 0 .. Len(ls) /\ r2 \in r1 - 1 .. Len(ls) /\ 1 \in 1 .. Len(t)
    BY <1>1, <1>2, <2>3
  <2>5. CutIn(W, t[1], c1)
    BY <1>5, <2>3
  <2>6. /\ Splice(ls, r1 - 1, r2, t) \in Seq(W)
        /\ Len(Splice(ls, r1 - 1, r2, t)) = r1 - 1 + Len(t) + (Len(ls) - r2)
        /\ CaretIn(W, Splice(ls, r1 - 1, r2, t), r1 - 1 + 1, c1)
    BY <2>3, <2>4, <2>5, RowsSet
  <2>7. r1 - 1 + Len(t) + (Len(ls) - r2) = Len(ls) - (r2 - r1) /\ r1 - 1 + 1 = r1
    BY <1>1, <1>2, <2>3
  <2>8. QED
    BY <2>2, <2>6, <2>7 DEF t
<1>8. QED
  BY <1>6, <1>7

\* Backspace and Delete between two rows: the caret is where they were joined.
LEMMA JoinRows_In ==
  ASSUME NEW B, NEW W, Closed(W, B), NEW ls \in Seq(W), NEW r \in 2 .. Len(ls)
  PROVE  /\ JoinRows(ls, r) \in Seq(W)
         /\ Len(JoinRows(ls, r)) = Len(ls) - 1
         /\ CaretIn(W, JoinRows(ls, r), r - 1, Len(ls[r - 1]))
<1> DEFINE z == ls[r - 1] \o ls[r]
           c == Len(ls[r - 1])
<1>1. Len(ls) \in Nat /\ r \in 1 .. Len(ls) /\ r - 1 \in 1 .. Len(ls)
  BY LenProperties
<1>2. ls[r - 1] \in W /\ ls[r] \in W
  BY <1>1, ElementOfSeq
<1>3. z \in W /\ CutIn(W, z, c)
  BY <1>2, CutAtJoin
<1> HIDE DEF z, c
<1> DEFINE t == <<z>>
<1>4. t \in Seq(W) /\ Len(t) = 1 /\ t[1] = z
  BY <1>3
<1>5. JoinRows(ls, r) = Splice(ls, r - 2, r, t)
  BY DEF JoinRows, z
<1> HIDE DEF t
<1>6. r - 2 \in 0 .. Len(ls) /\ r \in r - 2 .. Len(ls) /\ 1 \in 1 .. Len(t)
  BY <1>1, <1>4
<1>7. CutIn(W, t[1], c)
  BY <1>3, <1>4
<1>8. /\ Splice(ls, r - 2, r, t) \in Seq(W)
      /\ Len(Splice(ls, r - 2, r, t)) = r - 2 + Len(t) + (Len(ls) - r)
      /\ CaretIn(W, Splice(ls, r - 2, r, t), r - 2 + 1, c)
  BY <1>4, <1>6, <1>7, RowsSet
<1>9. r - 2 + Len(t) + (Len(ls) - r) = Len(ls) - 1 /\ r - 2 + 1 = r - 1
  BY <1>1, <1>4
<1>10. QED
  BY <1>5, <1>8, <1>9 DEF c

\* The lines of a paste of several: the rest of the row ends the last.
LEMMA PastedRows ==
  ASSUME NEW W, NEW parts \in Seq(W), NEW n \in Nat \ {0, 1}, Len(parts) = n,
         NEW x \in W, NEW z \in W
  PROVE  LET t == <<x>> \o SubSeq(parts, 2, n - 1) \o <<z>>
         IN  /\ t \in Seq(W) /\ Len(t) = n
             /\ t[1] = x /\ t[n] = z
             /\ \A i \in 2 .. n - 1 : t[i] = parts[i]
<1> DEFINE m  == SubSeq(parts, 2, n - 1)
           xm == <<x>> \o m
           t  == xm \o <<z>>
<1>1. \A i \in 2 .. n - 1 : parts[i] \in W
  <2>1. \A i \in 2 .. n - 1 : i \in 1 .. Len(parts)
    OBVIOUS
  <2>2. QED
    BY <2>1, ElementOfSeq
<1>2. 2 \in Int /\ n - 1 \in Int
  OBVIOUS
<1>3. /\ m \in Seq(W)
      /\ Len(m) = IF 2 <= n - 1 THEN n - 1 - 2 + 1 ELSE 0
      /\ \A i \in 1 .. n - 1 - 2 + 1 : m[i] = parts[2 + i - 1]
  BY <1>1, <1>2, SubSeqProperties
<1>4. Len(m) = n - 2 /\ \A i \in 1 .. n - 2 : m[i] = parts[i + 1]
  <2>1. n - 1 - 2 + 1 = n - 2 /\ \A i \in Nat : 2 + i - 1 = i + 1
    OBVIOUS
  <2>2. QED
    BY <1>3, <2>1
<1> HIDE DEF m
<1>5. <<x>> \in Seq(W) /\ Len(<<x>>) = 1 /\ <<x>>[1] = x
  OBVIOUS
<1>6. /\ xm \in Seq(W) /\ Len(xm) = Len(<<x>>) + Len(m)
      /\ \A i \in 1 .. Len(<<x>>) + Len(m) :
           xm[i] = IF i <= Len(<<x>>) THEN <<x>>[i] ELSE m[i - Len(<<x>>)]
  BY <1>3, <1>5, ConcatProperties
<1>7. /\ Len(xm) = n - 1 /\ xm[1] = x
      /\ \A i \in 2 .. n - 1 : xm[i] = parts[i]
  <2>1. Len(<<x>>) + Len(m) = n - 1 /\ Len(<<x>>) = 1
    BY <1>4
  <2> HIDE DEF xm
  <2>2. \A i \in 1 .. n - 1 : xm[i] = IF i <= 1 THEN <<x>>[i] ELSE m[i - 1]
    BY <1>6, <2>1
  <2>3. xm[1] = x
    BY <2>2, <1>5
  <2>4. ASSUME NEW i \in 2 .. n - 1
        PROVE  xm[i] = parts[i]
    <3>1. xm[i] = m[i - 1] /\ i - 1 \in 1 .. n - 2 /\ i - 1 + 1 = i
      BY <2>2
    <3>2. QED
      BY <1>4, <3>1
  <2>5. QED
    BY <1>6, <2>1, <2>3, <2>4
<1> HIDE DEF xm
<1>8. <<z>> \in Seq(W) /\ Len(<<z>>) = 1 /\ <<z>>[1] = z
  OBVIOUS
<1>9. /\ t \in Seq(W) /\ Len(t) = Len(xm) + Len(<<z>>)
      /\ \A i \in 1 .. Len(xm) + Len(<<z>>) :
           t[i] = IF i <= Len(xm) THEN xm[i] ELSE <<z>>[i - Len(xm)]
  BY <1>6, <1>8, ConcatProperties
<1>10. Len(xm) + Len(<<z>>) = n /\ Len(xm) = n - 1
  BY <1>7
<1> HIDE DEF t
<1>11. \A i \in 1 .. n : t[i] = IF i <= n - 1 THEN xm[i] ELSE <<z>>[i - (n - 1)]
  BY <1>9, <1>10
<1>12. t[1] = x /\ \A i \in 2 .. n - 1 : t[i] = parts[i]
  BY <1>7, <1>11
<1>13. t[n] = z
  <2>1. n \in 1 .. n /\ ~(n <= n - 1) /\ n - (n - 1) = 1
    OBVIOUS
  <2>2. t[n] = <<z>>[1]
    BY <1>11, <2>1
  <2>3. QED
    BY <1>8, <2>2
<1>14. QED
  BY <1>9, <1>10, <1>12, <1>13 DEF t, xm, m

\* InsertText: the caret goes behind the last character that came in.
LEMMA InsertTextText_In ==
  ASSUME NEW B, NEW W, Closed(W, B), NEW ls \in Seq(W), NEW row, NEW col,
         CaretIn(W, ls, row, col), NEW parts \in Seq(W), parts # << >>
  PROVE  /\ InsertTextText(ls, col, row, parts) \in Seq(W)
         /\ Len(InsertTextText(ls, col, row, parts)) = Len(ls) + (Len(parts) - 1)
         /\ CaretIn(W, InsertTextText(ls, col, row, parts),
                    row + Len(parts) - 1,
                    Len(parts[Len(parts)]) + IF Len(parts) = 1 THEN col ELSE 0)
<1> DEFINE n == Len(parts)
<1>1. n \in Nat \ {0}
  BY EmptySeq
<1> HIDE DEF n
<1>2. /\ row \in 1 .. Len(ls) /\ row \in DOMAIN ls /\ row \in Nat
      /\ CutIn(W, ls[row], col) /\ Len(ls) \in Nat /\ col \in Nat
      /\ Clamp(col, 0, Len(ls[row])) = col
  BY CaretFacts
<1>3. parts[1] \in W /\ parts[n] \in W /\ Len(parts[n]) \in Nat
  <2>1. 1 \in 1 .. Len(parts) /\ n \in 1 .. Len(parts)
    BY <1>1 DEF n
  <2>2. parts[1] \in W /\ parts[n] \in W
    BY <2>1, ElementOfSeq
  <2>3. parts[n] \in Seq(B)
    BY <2>2 DEF Closed
  <2>4. QED
    BY <2>2, <2>3, LenProperties
<1>4. CASE n = 1
  <2> DEFINE z == Take(ls[row], col) \o parts[1] \o Drop(ls[row], col)
  <2>1. z \in W /\ CutIn(W, z, col + Len(parts[1]))
    BY <1>2, <1>3, CutBehind
  <2>2. InsertTextText(ls, col, row, parts) = [ls EXCEPT ![row] = z]
    BY <1>2, <1>4 DEF InsertTextText, Splice, n
  <2> HIDE DEF z
  <2>3. /\ [ls EXCEPT ![row] = z] \in Seq(W)
        /\ Len([ls EXCEPT ![row] = z]) = Len(ls)
        /\ CaretIn(W, [ls EXCEPT ![row] = z], row, col + Len(parts[1]))
    BY <1>2, <2>1, RowSet
  <2>4. /\ Len(ls) = Len(ls) + (n - 1) /\ row = row + n - 1
        /\ col + Len(parts[1])
             = Len(parts[n]) + IF n = 1 THEN col ELSE 0
    BY <1>2, <1>3, <1>4
  <2>5. QED
    BY <2>2, <2>3, <2>4 DEF n
<1>5. CASE n # 1
  <2> DEFINE x == Take(ls[row], col) \o parts[1]
             y == Drop(ls[row], col)
             z == parts[n] \o y
             t == <<x>> \o SubSeq(parts, 2, n - 1) \o <<z>>
  <2>1. Take(ls[row], col) \in W /\ y \in W
    BY <1>2 DEF CutIn
  <2>2. x \in W
    BY <1>3, <2>1 DEF Closed
  <2> HIDE DEF y
  <2>3. z \in W /\ CutIn(W, z, Len(parts[n]))
    BY <1>3, <2>1, CutAtJoin
  <2>4. InsertTextText(ls, col, row, parts) = Splice(ls, row - 1, row, t)
    BY <1>2, <1>5 DEF InsertTextText, n, y
  <2> HIDE DEF x, z
  <2>5. n \in Nat \ {0, 1} /\ Len(parts) = n
    BY <1>1, <1>5 DEF n
  <2>6. t \in Seq(W) /\ Len(t) = n /\ t[n] = z
    BY <2>2, <2>3, <2>5, PastedRows
  <2> HIDE DEF t
  <2>7. row - 1 \in 0 .. Len(ls) /\ row \in row - 1 .. Len(ls) /\ n \in 1 .. Len(t)
    BY <1>1, <1>2, <2>6
  <2>8. CutIn(W, t[n], Len(parts[n]))
    BY <2>3, <2>6
  <2>9. /\ Splice(ls, row - 1, row, t) \in Seq(W)
        /\ Len(Splice(ls, row - 1, row, t)) = row - 1 + Len(t) + (Len(ls) - row)
        /\ CaretIn(W, Splice(ls, row - 1, row, t), row - 1 + n, Len(parts[n]))
    BY <2>6, <2>7, <2>8, RowsSet
  <2>10. /\ row - 1 + Len(t) + (Len(ls) - row) = Len(ls) + (n - 1)
         /\ row - 1 + n = row + n - 1
         /\ Len(parts[n]) = Len(parts[n]) + IF n = 1 THEN col ELSE 0
    BY <1>1, <1>2, <1>3, <1>5, <2>6
  <2>11. QED
    BY <2>4, <2>9, <2>10 DEF n
<1>6. QED
  BY <1>4, <1>5

-----------------------------------------------------------------------------
(***************************************************************************)
(* What is cut goes back in: GetText, DeleteRange and InsertText.          *)
(***************************************************************************)
\* A vector between two elements.
LEMMA Framed ==
  ASSUME NEW W, NEW m \in Seq(W), NEW x \in W, NEW z \in W,
         NEW k \in Nat, Len(m) = k
  PROVE  LET t == <<x>> \o m \o <<z>>
         IN  /\ t \in Seq(W) /\ Len(t) = k + 2
             /\ t[1] = x /\ t[k + 2] = z
             /\ \A i \in 1 .. k : t[i + 1] = m[i]
<1> DEFINE xm == <<x>> \o m
           t  == xm \o <<z>>
<1>1. <<x>> \in Seq(W) /\ Len(<<x>>) = 1 /\ <<x>>[1] = x
  OBVIOUS
<1>2. /\ xm \in Seq(W) /\ Len(xm) = Len(<<x>>) + Len(m)
      /\ \A i \in 1 .. Len(<<x>>) + Len(m) :
           xm[i] = IF i <= Len(<<x>>) THEN <<x>>[i] ELSE m[i - Len(<<x>>)]
  BY <1>1, ConcatProperties
<1>3. xm[1] = x /\ \A i \in 1 .. k : xm[i + 1] = m[i]
  <2> HIDE DEF xm
  <2>1. \A i \in 1 .. k + 1 : xm[i] = IF i <= 1 THEN <<x>>[i] ELSE m[i - 1]
    BY <1>1, <1>2
  <2>2. xm[1] = x
    BY <1>1, <2>1
  <2>3. ASSUME NEW i \in 1 .. k
        PROVE  xm[i + 1] = m[i]
    <3>1. i + 1 \in 1 .. k + 1 /\ ~(i + 1 <= 1) /\ i + 1 - 1 = i
      OBVIOUS
    <3>2. QED
      BY <2>1, <3>1
  <2>4. QED
    BY <2>2, <2>3
<1>4. Len(xm) = k + 1
  BY <1>1, <1>2
<1> HIDE DEF xm
<1>5. <<z>> \in Seq(W) /\ Len(<<z>>) = 1 /\ <<z>>[1] = z
  OBVIOUS
<1>6. /\ t \in Seq(W) /\ Len(t) = Len(xm) + Len(<<z>>)
      /\ \A i \in 1 .. Len(xm) + Len(<<z>>) :
           t[i] = IF i <= Len(xm) THEN xm[i] ELSE <<z>>[i - Len(xm)]
  BY <1>2, <1>5, ConcatProperties
<1> HIDE DEF t
<1>7. \A i \in 1 .. k + 2 : t[i] = IF i <= k + 1 THEN xm[i] ELSE <<z>>[i - (k + 1)]
  BY <1>4, <1>5, <1>6
<1>8. t[1] = x
  BY <1>3, <1>7
<1>9. ASSUME NEW i \in 1 .. k
      PROVE  t[i + 1] = m[i]
  <2>1. i + 1 \in 1 .. k + 2 /\ i + 1 <= k + 1
    OBVIOUS
  <2>2. QED
    BY <1>3, <1>7, <2>1
<1>10. t[k + 2] = z
  <2>1. k + 2 \in 1 .. k + 2 /\ ~(k + 2 <= k + 1) /\ k + 2 - (k + 1) = 1
    OBVIOUS
  <2>2. QED
    BY <1>5, <1>7, <2>1
<1>11. Len(t) = k + 2
  BY <1>4, <1>5, <1>6
<1>12. QED
  BY <1>6, <1>8, <1>9, <1>10, <1>11 DEF t, xm

\* Some elements of a vector.
LEMMA MiddleFacts ==
  ASSUME NEW S, NEW s \in Seq(S), NEW from \in 0 .. Len(s),
         NEW to \in from .. Len(s)
  PROVE  /\ SubSeq(s, from + 1, to) \in Seq(S)
         /\ Len(SubSeq(s, from + 1, to)) = to - from
         /\ \A i \in 1 .. to - from : SubSeq(s, from + 1, to)[i] = s[from + i]
<1>1. Len(s) \in Nat
  BY LenProperties
<1>2. /\ from + 1 \in Int /\ to \in Int
      /\ \A i \in from + 1 .. to : i \in 1 .. Len(s)
  BY <1>1
<1>3. \A i \in from + 1 .. to : s[i] \in S
  BY <1>2, ElementOfSeq
<1>4. /\ SubSeq(s, from + 1, to) \in Seq(S)
      /\ Len(SubSeq(s, from + 1, to))
           = IF from + 1 <= to THEN to - (from + 1) + 1 ELSE 0
      /\ \A i \in 1 .. to - (from + 1) + 1 :
           SubSeq(s, from + 1, to)[i] = s[from + 1 + i - 1]
  BY <1>2, <1>3, SubSeqProperties
<1>5. /\ to - (from + 1) + 1 = to - from
      /\ \A i \in Nat : from + 1 + i - 1 = from + i
      /\ (IF from + 1 <= to THEN to - (from + 1) + 1 ELSE 0) = to - from
  BY <1>1
<1>6. QED
  BY <1>4, <1>5

\* Within one line.
LEMMA PasteInRow ==
  ASSUME NEW B, NEW l \in Seq(B), NEW c \in 0 .. Len(l), NEW d \in c .. Len(l)
  PROVE  LET cut == Take(l, c) \o << >> \o Drop(l, d)
         IN  /\ c \in 0 .. Len(cut)
             /\ Take(cut, c) \o SubSeq(l, c + 1, d) \o Drop(cut, c) = l
<1> DEFINE x == Take(l, c)
           y == Drop(l, d)
           m == SubSeq(l, c + 1, d)
           cut == x \o << >> \o y
<1>1. Len(l) \in Nat /\ d \in 0 .. Len(l)
  BY LenProperties
<1>2. x \in Seq(B) /\ Len(x) = c
  BY TakeFacts
<1>3. y \in Seq(B)
  BY <1>1, DropFacts
<1>4. x \o << >> = x
  BY <1>2, ConcatEmptySeq
<1>5. c \in 0 .. Len(cut) /\ Take(cut, c) = x /\ Drop(cut, c) = y
  <2> HIDE DEF x, y
  <2>1. Len(x) \in 0 .. Len(x \o y) /\ Take(x \o y, Len(x)) = x /\ Drop(x \o y, Len(x)) = y
    BY <1>2, <1>3, CutBetween
  <2>2. QED
    BY <1>2, <1>4, <2>1
<1>6. x \o m = SubSeq(l, 1, d)
  <2>1. 1 \in 1 .. Len(l) + 1 /\ c \in 1 - 1 .. Len(l)
    BY <1>1
  <2>2. SubSeq(l, 1, c) \o SubSeq(l, c + 1, d) = SubSeq(l, 1, d)
    BY <2>1, ConcatAdjacentSubSeq
  <2>3. QED
    BY <2>2 DEF Take
<1>7. SubSeq(l, 1, d) \o y = l
  BY <1>1, PartsMakeLine DEF Take
<1>8. QED
  BY <1>5, <1>6, <1>7

\* Cut, then Paste where the cut left the caret, makes the text there was.
LEMMA PasteAfterCut ==
  ASSUME NEW B, NEW ls \in Seq(Seq(B)),
         NEW r1 \in 1 .. Len(ls), NEW c1 \in 0 .. Len(ls[r1]),
         NEW r2 \in 1 .. Len(ls), NEW c2 \in 0 .. Len(ls[r2]),
         \/ r1 < r2
         \/ r1 = r2 /\ c1 <= c2
  PROVE  InsertTextText(DeleteRangeText(ls, r1, c1, r2, c2), c1, r1,
                        GetText(ls, r1, c1, r2, c2)) = ls
<1> DEFINE cut   == DeleteRangeText(ls, r1, c1, r2, c2)
           parts == GetText(ls, r1, c1, r2, c2)
<1>1. /\ Len(ls) \in Nat /\ DOMAIN ls = 1 .. Len(ls)
      /\ ls[r1] \in Seq(B) /\ ls[r2] \in Seq(B)
      /\ Len(ls[r1]) \in Nat /\ Len(ls[r2]) \in Nat
  <2>1. Len(ls) \in Nat /\ DOMAIN ls = 1 .. Len(ls)
    BY LenProperties
  <2>2. ls[r1] \in Seq(B) /\ ls[r2] \in Seq(B)
    BY ElementOfSeq
  <2>3. QED
    BY <2>1, <2>2, LenProperties
<1>2. /\ Clamp(r1, 1, Len(ls)) = r1 /\ Clamp(r2, 1, Len(ls)) = r2
      /\ Clamp(c1, 0, Len(ls[r1])) = c1 /\ Clamp(c2, 0, Len(ls[r2])) = c2
  <2>1. ASSUME NEW n \in Nat, NEW low \in Nat, NEW x \in low .. n
        PROVE  Clamp(x, low, n) = x
    BY DEF Clamp
  <2>2. Clamp(r1, 1, Len(ls)) = r1 /\ Clamp(r2, 1, Len(ls)) = r2
    BY <1>1, <2>1
  <2>3. Clamp(c1, 0, Len(ls[r1])) = c1 /\ Clamp(c2, 0, Len(ls[r2])) = c2
    BY <1>1, <2>1
  <2>4. QED
    BY <2>2, <2>3
<1>3. CASE r1 = r2
  <2> DEFINE l  == ls[r1]
             z  == Take(l, c1) \o << >> \o Drop(l, c2)
             w  == Take(z, c1) \o SubSeq(l, c1 + 1, c2) \o Drop(z, c1)
  <2>1. c2 \in c1 .. Len(l) /\ l \in Seq(B)
    BY <1>1, <1>3
  <2>2. c1 \in 0 .. Len(z) /\ w = l
    <3> HIDE DEF l
    <3>1. c1 \in 0 .. Len(l)
      BY DEF l
    <3>2. QED
      BY <2>1, <3>1, PasteInRow
  <2>3. cut = [ls EXCEPT ![r1] = z]
    BY <1>2, <1>3 DEF DeleteRangeText, Splice
  <2>4. parts = <<SubSeq(l, c1 + 1, c2)>>
    BY <1>2, <1>3 DEF GetText
  <2>5. Len(parts) = 1 /\ parts[1] = SubSeq(l, c1 + 1, c2)
    BY <2>4
  <2>6. r1 \in DOMAIN cut /\ cut[r1] = z
    BY <1>1, <2>3
  <2>7. Clamp(c1, 0, Len(cut[r1])) = c1
    BY <2>2, <2>6 DEF Clamp
  <2> HIDE DEF cut, parts, z
  <2>8. InsertTextText(cut, c1, r1, parts) = [cut EXCEPT ![r1] = w]
    BY <2>5, <2>6, <2>7 DEF InsertTextText, Splice
  <2> HIDE DEF w
  <2>9. [cut EXCEPT ![r1] = w] = ls
    <3>1. ls \in [1 .. Len(ls) -> Seq(B)]
      BY LenProperties
    <3>2. cut \in [1 .. Len(ls) -> Seq(B) \cup {z}] /\ \A i \in 1 .. Len(ls) : i # r1 => cut[i] = ls[i]
      BY <2>3, <3>1
    <3> HIDE DEF l
    <3>3. w = ls[r1]
      BY <2>2 DEF l
    <3>4. QED
      BY <3>1, <3>2, <3>3
  <2>10. QED
    BY <2>8, <2>9 DEF cut, parts
<1>4. CASE r1 < r2
  <2> DEFINE x  == Take(ls[r1], c1)
             x2 == Drop(ls[r1], c1)
             y2 == Take(ls[r2], c2)
             y  == Drop(ls[r2], c2)
             z  == x \o y
             k  == r2 - 1 - r1
             m  == SubSeq(ls, r1 + 1, r2 - 1)
             n  == k + 2
  <2>1. /\ x \in Seq(B) /\ Len(x) = c1 /\ x2 \in Seq(B) /\ y2 \in Seq(B)
        /\ y \in Seq(B) /\ x \o x2 = ls[r1] /\ y2 \o y = ls[r2]
    BY <1>1, TakeFacts, DropFacts, PartsMakeLine
  <2>2. k \in Nat /\ n \in Nat \ {0, 1} /\ n - 1 = k + 1
    BY <1>1, <1>4
  <2>3. /\ m \in Seq(Seq(B)) /\ Len(m) = k
        /\ \A i \in 1 .. k : m[i] = ls[r1 + i]
    <3>1. r1 \in 0 .. Len(ls) /\ r2 - 1 \in r1 .. Len(ls)
      BY <1>1, <1>4
    <3>2. QED
      BY <3>1, MiddleFacts
  <2>20. r1 # r2
    BY <1>1, <1>4
  <2>4. cut = Splice(ls, r1 - 1, r2, <<z>>)
    BY <1>2, <2>20 DEF DeleteRangeText
  <2>5. parts = <<x2>> \o m \o <<y2>>
    BY <1>2, <2>20 DEF GetText
  <2>6. z \in Seq(B) /\ c1 \in 0 .. Len(z) /\ Take(z, c1) = x /\ Drop(z, c1) = y
    <3> HIDE DEF x, y
    <3>1. /\ Len(x) \in 0 .. Len(x \o y) /\ Take(x \o y, Len(x)) = x
          /\ Drop(x \o y, Len(x)) = y
      BY <2>1, CutBetween
    <3>2. x \o y \in Seq(B)
      BY <2>1, ConcatProperties
    <3>3. QED
      BY <2>1, <3>1, <3>2
  <2> HIDE DEF cut, parts, x, x2, y, y2, m, z, k
  <2>7. /\ cut \in Seq(Seq(B)) /\ Len(cut) = Len(ls) - (k + 1)
        /\ \A i \in 1 .. r1 - 1 : cut[i] = ls[i]
        /\ cut[r1] = z
        /\ \A i \in r1 + 1 .. Len(ls) - (k + 1) : cut[i] = ls[i + (k + 1)]
    <3> DEFINE t == <<z>>
    <3>1. t \in Seq(Seq(B)) /\ Len(t) = 1 /\ t[1] = z
      BY <2>6
    <3> HIDE DEF t
    <3>2. r1 - 1 \in 0 .. Len(ls) /\ r2 \in r1 - 1 .. Len(ls)
      BY <1>1, <1>4
    <3> DEFINE cc == Splice(ls, r1 - 1, r2, t)
    <3> DEFINE V == Seq(B)
    <3>10. ls \in Seq(V) /\ t \in Seq(V)
      BY <3>1
    <3> HIDE DEF V
    <3>11. cc \in Seq(V) /\ Spliced(cc, ls, r1 - 1, r2, t)
      BY <3>2, <3>10, SpliceSpliced
    <3>3. /\ cc \in Seq(V) /\ Len(cc) = r1 - 1 + Len(t) + (Len(ls) - r2)
          /\ \A i \in 1 .. r1 - 1 : cc[i] = ls[i]
          /\ \A i \in r1 - 1 + 1 .. r1 - 1 + Len(t) : cc[i] = t[i - (r1 - 1)]
          /\ \A i \in r1 - 1 + Len(t) + 1 .. r1 - 1 + Len(t) + (Len(ls) - r2) :
               cc[i] = ls[i - (r1 - 1) - Len(t) + r2]
      BY <3>11 DEF Spliced
    <3>4. cc = cut
      BY <2>4 DEF t
    <3> HIDE DEF cc
    <3>5. r2 = r1 + k + 1
      BY <1>1 DEF k
    <3>6. /\ r1 - 1 + Len(t) + (Len(ls) - r2) = Len(ls) - (k + 1)
          /\ r1 - 1 + Len(t) + 1 = r1 + 1
      BY <1>1, <2>2, <3>1, <3>5
    <3>7. cc[r1] = z
      <4>1. r1 \in r1 - 1 + 1 .. r1 - 1 + Len(t) /\ r1 - (r1 - 1) = 1
        BY <3>1
      <4>2. QED
        BY <3>1, <3>3, <4>1
    <3>8. ASSUME NEW i \in r1 + 1 .. Len(ls) - (k + 1)
          PROVE  cc[i] = ls[i + (k + 1)]
      <4>1. i - (r1 - 1) - Len(t) + r2 = i + (k + 1)
        BY <2>2, <3>1, <3>5
      <4>2. cc[i] = ls[i - (r1 - 1) - Len(t) + r2]
        BY <3>3, <3>6
      <4>3. QED
        BY <4>1, <4>2
    <3>9. QED
      BY <3>3, <3>4, <3>6, <3>7, <3>8 DEF V
  <2>8. /\ parts \in Seq(Seq(B)) /\ Len(parts) = n
        /\ parts[1] = x2 /\ parts[n] = y2
        /\ \A i \in 1 .. k : parts[i + 1] = m[i]
    <3> DEFINE V == Seq(B)
    <3>1. m \in Seq(V) /\ x2 \in V /\ y2 \in V /\ k \in Nat /\ Len(m) = k
      BY <2>1, <2>2, <2>3
    <3> HIDE DEF V
    <3> DEFINE pp == <<x2>> \o m \o <<y2>>
    <3>2. /\ pp \in Seq(V) /\ Len(pp) = k + 2
          /\ pp[1] = x2 /\ pp[k + 2] = y2
          /\ \A i \in 1 .. k : pp[i + 1] = m[i]
      BY <3>1, Framed
    <3>3. pp = parts
      BY <2>5
    <3> HIDE DEF pp
    <3>4. QED
      BY <3>2, <3>3 DEF V
  <2>9. r1 \in DOMAIN cut /\ Clamp(c1, 0, Len(cut[r1])) = c1
    <3>1. r1 \in 1 .. Len(cut)
      BY <1>1, <1>4, <2>7 DEF k
    <3>2. DOMAIN cut = 1 .. Len(cut)
      BY <2>7, LenProperties
    <3>3. QED
      BY <2>6, <2>7, <3>1, <3>2 DEF Clamp
  <2> DEFINE t == <<ls[r1]>> \o SubSeq(parts, 2, n - 1) \o <<ls[r2]>>
  <2>10. InsertTextText(cut, c1, r1, parts) = Splice(cut, r1 - 1, r1, t)
    <3>1. n # 1
      BY <2>2
    <3>2. Take(cut[r1], c1) \o parts[1] = ls[r1] /\ parts[n] \o Drop(cut[r1], c1) = ls[r2]
      BY <2>1, <2>6, <2>7, <2>8
    <3> HIDE DEF n
    <3>3. QED
      BY <2>8, <2>9, <3>1, <3>2 DEF InsertTextText
  <2>11. /\ t \in Seq(Seq(B)) /\ Len(t) = n
         /\ t[1] = ls[r1] /\ t[n] = ls[r2]
         /\ \A i \in 2 .. n - 1 : t[i] = parts[i]
    BY <1>1, <2>2, <2>8, PastedRows
  <2> HIDE DEF t
  <2>12. \A i \in 1 .. n : t[i] = ls[r1 - 1 + i]
    <3>1. r2 = r1 + k + 1
      BY <1>1 DEF k
    <3>2. ASSUME NEW i \in 1 .. n
          PROVE  t[i] = ls[r1 - 1 + i]
      <4>1. CASE i = 1
        <5>1. r1 - 1 + i = r1
          BY <4>1
        <5>2. QED
          BY <2>11, <4>1, <5>1
      <4>2. CASE i = n
        <5>1. r1 - 1 + i = r2
          BY <2>2, <3>1, <4>2
        <5>2. QED
          BY <2>11, <4>2, <5>1
      <4>3. CASE i # 1 /\ i # n
        <5>1. i \in 2 .. n - 1 /\ i - 1 \in 1 .. k /\ i - 1 + 1 = i
          BY <2>2, <4>3
        <5>2. t[i] = parts[i] /\ parts[i - 1 + 1] = m[i - 1] /\ m[i - 1] = ls[r1 + (i - 1)]
          BY <2>3, <2>8, <2>11, <5>1
        <5>3. r1 + (i - 1) = r1 - 1 + i
          OBVIOUS
        <5>4. QED
          BY <5>1, <5>2, <5>3
      <4>4. QED
        BY <4>1, <4>2, <4>3
    <3>3. QED
      BY <3>2
  <2> DEFINE p == Splice(cut, r1 - 1, r1, t)
  <2>13. /\ p \in Seq(Seq(B)) /\ Len(p) = r1 - 1 + Len(t) + (Len(cut) - r1)
         /\ \A i \in 1 .. r1 - 1 : p[i] = cut[i]
         /\ \A i \in r1 - 1 + 1 .. r1 - 1 + Len(t) : p[i] = t[i - (r1 - 1)]
         /\ \A i \in r1 - 1 + Len(t) + 1 .. r1 - 1 + Len(t) + (Len(cut) - r1) :
              p[i] = cut[i - (r1 - 1) - Len(t) + r1]
    <3>1. r1 - 1 \in 0 .. Len(cut) /\ r1 \in r1 - 1 .. Len(cut)
      BY <1>1, <1>4, <2>7 DEF k
    <3>2. QED
      <4> DEFINE V == Seq(B)
      <4>1. cut \in Seq(V) /\ t \in Seq(V)
        BY <2>7, <2>11
      <4> HIDE DEF V
      <4>2. /\ p \in Seq(V) /\ Len(p) = r1 - 1 + Len(t) + (Len(cut) - r1)
            /\ \A i \in 1 .. r1 - 1 : p[i] = cut[i]
            /\ \A i \in r1 - 1 + 1 .. r1 - 1 + Len(t) : p[i] = t[i - (r1 - 1)]
            /\ \A i \in r1 - 1 + Len(t) + 1 .. r1 - 1 + Len(t) + (Len(cut) - r1) :
                 p[i] = cut[i - (r1 - 1) - Len(t) + r1]
        <5>1. p \in Seq(V) /\ Spliced(p, cut, r1 - 1, r1, t)
          BY <3>1, <4>1, SpliceSpliced
        <5>2. QED
          BY <5>1 DEF Spliced
      <4>3. QED
        BY <4>2 DEF V
  <2> HIDE DEF p
  <2>14. Len(p) = Len(ls)
    BY <1>1, <2>2, <2>7, <2>11, <2>13
  <2>15. ASSUME NEW i \in 1 .. Len(ls)
         PROVE  p[i] = ls[i]
    <3>1. CASE i <= r1 - 1
      BY <2>7, <2>13, <3>1
    <3>2. CASE i > r1 - 1 /\ i <= r1 - 1 + n
      <4>1. /\ i \in r1 - 1 + 1 .. r1 - 1 + Len(t)
            /\ i - (r1 - 1) \in 1 .. n /\ r1 - 1 + (i - (r1 - 1)) = i
        BY <2>2, <2>11, <3>2
      <4>2. QED
        BY <2>12, <2>13, <4>1
    <3>3. CASE i > r1 - 1 + n
      <4>1. /\ i \in r1 - 1 + Len(t) + 1 .. r1 - 1 + Len(t) + (Len(cut) - r1)
            /\ i - (r1 - 1) - Len(t) + r1 = i - (k + 1)
            /\ i - (k + 1) \in r1 + 1 .. Len(ls) - (k + 1)
            /\ i - (k + 1) + (k + 1) = i
        BY <1>1, <2>2, <2>7, <2>11, <3>3
      <4>2. p[i] = cut[i - (k + 1)]
        BY <2>13, <4>1
      <4>3. QED
        BY <2>7, <4>1, <4>2
    <3>4. QED
      BY <2>2, <3>1, <3>2, <3>3
  <2>16. p = ls
    BY <2>13, <2>14, <2>15, SeqEqual
  <2>17. QED
    BY <2>10, <2>16 DEF p, cut, parts
<1>5. QED
  BY <1>3, <1>4

-----------------------------------------------------------------------------
(***************************************************************************)
(* Induction, by sets: a set of numbers has a least one, and a set that    *)
(* zero is in, and with every number the next, has them all.  The theorems *)
(* of the library that say so take an operator, which the provers cannot   *)
(* be given; these take a set.                                             *)
(***************************************************************************)
\* The least number of a set.
LEMMA Least ==
  ASSUME NEW T, T \subseteq Nat, T # {}
  PROVE  \E x \in T : \A y \in T : x <= y
<1> DEFINE R == {ss \in Nat \X Nat : ss[1] < ss[2]}
<1>1. IsWellFoundedOn(R, Nat)
  BY NatLessThanWellFounded DEF OpToRel
<1> HIDE DEF R
<1>2. PICK x \in T : \A y \in T : ~ (<<y, x>> \in R)
  BY <1>1, WFMin
<1>3. ASSUME NEW y \in T
      PROVE  x <= y
  <2>1. x \in Nat /\ y \in Nat
    OBVIOUS
  <2>2. ~ (<<y, x>> \in R)
    BY <1>2
  <2>3. ~ (y < x)
    BY <2>1, <2>2 DEF R
  <2>4. QED
    BY <2>1, <2>3
<1>4. QED
  BY <1>3

\* Every number is in the set.
LEMMA InductiveSet ==
  ASSUME NEW T, 0 \in T, \A n \in Nat : n \in T => n + 1 \in T
  PROVE  Nat \subseteq T
<1> SUFFICES ASSUME ~ (Nat \subseteq T)
             PROVE  FALSE
  OBVIOUS
<1> DEFINE U == {n \in Nat : n \notin T}
<1>1. U \subseteq Nat /\ U # {}
  OBVIOUS
<1> HIDE DEF U
<1>2. PICK m \in U : \A y \in U : m <= y
  BY <1>1, Least
<1>3. m \in Nat /\ m \notin T /\ m # 0
  BY DEF U
<1>4. m - 1 \in Nat /\ ~ (m <= m - 1)
  BY <1>3
<1>5. m - 1 \in T
  BY <1>2, <1>4 DEF U
<1>6. QED
  BY <1>3, <1>4, <1>5

\* The greatest number of a bounded set.
LEMMA Greatest ==
  ASSUME NEW T, T \subseteq Nat, T # {}, NEW n \in Nat, \A x \in T : x <= n
  PROVE  \E x \in T : \A y \in T : y <= x
<1> DEFINE U == {n - x : x \in T}
<1>1. U \subseteq Nat /\ U # {}
  <2>1. \A x \in T : n - x \in Nat
    OBVIOUS
  <2>2. QED
    BY <2>1
<1> HIDE DEF U
<1>2. PICK u \in U : \A v \in U : u <= v
  BY <1>1, Least
<1>3. PICK x \in T : u = n - x
  BY DEF U
<1>4. ASSUME NEW y \in T
      PROVE  y <= x
  <2>1. x \in Nat /\ y \in Nat
    OBVIOUS
  <2>2. n - x <= n - y
    BY <1>2, <1>3 DEF U
  <2>3. QED
    BY <2>1, <2>2
<1>5. QED
  BY <1>4

-----------------------------------------------------------------------------
(***************************************************************************)
(* Places of a text in their order.                                        *)
(***************************************************************************)
\* A place with its row and its column.
PlaceSet == [row : Nat, col : Nat]

\* The first of some places.
LEMMA FirstPlace ==
  ASSUME NEW T, T \subseteq PlaceSet, T # {}
  PROVE  \E p \in T : \A q \in T : NotAfter(p, q)
<1> DEFINE R == {p.row : p \in T}
<1>1. R \subseteq Nat /\ R # {}
  BY DEF PlaceSet
<1> HIDE DEF R
<1>2. PICK r \in R : \A s \in R : r <= s
  BY <1>1, Least
<1> DEFINE C == {p.col : p \in {p \in T : p.row = r}}
<1>3. C \subseteq Nat /\ C # {}
  BY DEF PlaceSet, R
<1> HIDE DEF C
<1>4. PICK c \in C : \A d \in C : c <= d
  BY <1>3, Least
<1>5. PICK p \in T : p.row = r /\ p.col = c
  BY DEF C
<1>6. ASSUME NEW q \in T
      PROVE  NotAfter(p, q)
  <2>1. q.row \in Nat /\ q.col \in Nat /\ p.row \in Nat /\ p.col \in Nat
    BY DEF PlaceSet
  <2>2. p.row <= q.row
    BY <1>2, <1>5 DEF R
  <2>3. q.row = r => p.col <= q.col
    BY <1>4, <1>5 DEF C
  <2>4. QED
    BY <1>5, <2>1, <2>2, <2>3 DEF NotAfter
<1>7. QED
  BY <1>6

\* The last of some places, when their rows and columns are bounded.
LEMMA LastPlace ==
  ASSUME NEW T, T \subseteq PlaceSet, T # {}, NEW n \in Nat, NEW k,
         \A p \in T : p.row <= n /\ k[p.row] \in Nat /\ p.col <= k[p.row]
  PROVE  \E p \in T : \A q \in T : NotAfter(q, p)
<1> DEFINE R == {p.row : p \in T}
<1>1. R \subseteq Nat /\ R # {} /\ \A x \in R : x <= n
  BY DEF PlaceSet
<1> HIDE DEF R
<1>2. PICK r \in R : \A s \in R : s <= r
  BY <1>1, Greatest
<1> DEFINE C == {p.col : p \in {p \in T : p.row = r}}
<1>3. C \subseteq Nat /\ C # {} /\ k[r] \in Nat /\ \A x \in C : x <= k[r]
  BY DEF PlaceSet, R
<1> HIDE DEF C
<1>4. PICK c \in C : \A d \in C : d <= c
  BY <1>3, Greatest
<1>5. PICK p \in T : p.row = r /\ p.col = c
  BY DEF C
<1>6. ASSUME NEW q \in T
      PROVE  NotAfter(q, p)
  <2>1. q.row \in Nat /\ q.col \in Nat /\ p.row \in Nat /\ p.col \in Nat
    BY DEF PlaceSet
  <2>2. q.row <= p.row
    BY <1>2, <1>5 DEF R
  <2>3. q.row = r => q.col <= p.col
    BY <1>4, <1>5 DEF C
  <2>4. QED
    BY <1>5, <2>1, <2>2, <2>3 DEF NotAfter
<1>7. QED
  BY <1>6

-----------------------------------------------------------------------------
(***************************************************************************)
(* Finding.                                                                *)
(***************************************************************************)
\* The values of a function on a finite set.
LEMMA FiniteValues ==
  ASSUME NEW S, IsFiniteSet(S), NEW f, f = [x \in S |-> f[x]]
  PROVE  IsFiniteSet({f[x] : x \in S})
<1> DEFINE T == {f[x] : x \in S}
<1>1. f \in [S -> T] /\ \A t \in T : \E x \in S : f[x] = t
  OBVIOUS
<1> HIDE DEF T
<1>2. f \in Surjection(S, T)
  BY <1>1 DEF Surjection
<1>3. IsFiniteSet(T)
  BY <1>2, FS_Surjection
<1>4. QED
  BY <1>3 DEF T

\* The places of the matches: a text has finitely many.
LEMMA MatchFacts ==
  ASSUME NEW B, NEW ls \in Seq(Seq(B)), NEW q \in Seq(B)
  PROVE  /\ IsFiniteSet(Matches(ls, q))
         /\ \A p \in Matches(ls, q) :
              /\ p \in PlaceSet /\ p = [row |-> p.row, col |-> p.col]
              /\ p.row \in 1 .. Len(ls)
              /\ p.col \in 0 .. Len(ls[p.row]) - Len(q)
              /\ SubSeq(ls[p.row], p.col + 1, p.col + Len(q)) = q
<1> DEFINE Cols(r) == {k \in 0 .. Len(ls[r]) - Len(q) :
                         SubSeq(ls[r], k + 1, k + Len(q)) = q}
           Row(r)  == {[row |-> r, col |-> c] : c \in Cols(r)}
<1>1. Len(ls) \in Nat /\ DOMAIN ls = 1 .. Len(ls) /\ Len(q) \in Nat
  BY LenProperties
<1>2. \A r \in 1 .. Len(ls) : Len(ls[r]) \in Nat
  <2>1. \A r \in 1 .. Len(ls) : ls[r] \in Seq(B)
    BY ElementOfSeq
  <2>2. QED
    BY <2>1, LenProperties
<1>3. Matches(ls, q) = UNION {Row(r) : r \in DOMAIN ls}
  BY DEF Matches
<1>4. ASSUME NEW r \in DOMAIN ls
      PROVE  IsFiniteSet(Row(r))
  <2>1. 0 \in Int /\ Len(ls[r]) - Len(q) \in Int
    BY <1>1, <1>2
  <2>2. IsFiniteSet(0 .. Len(ls[r]) - Len(q))
    BY <2>1, FS_Interval
  <2>3. Cols(r) \in SUBSET (0 .. Len(ls[r]) - Len(q))
    OBVIOUS
  <2>4. IsFiniteSet(Cols(r))
    BY <2>2, <2>3, FS_Subset
  <2> DEFINE C == Cols(r)
             f == [c \in C |-> [row |-> r, col |-> c]]
  <2>5. f = [c \in C |-> f[c]]
    OBVIOUS
  <2>6. {f[c] : c \in C} = Row(r)
    OBVIOUS
  <2>7. IsFiniteSet(C)
    BY <2>4
  <2> HIDE DEF C, f
  <2>8. IsFiniteSet({f[c] : c \in C})
    BY <2>5, <2>7, FiniteValues
  <2>9. QED
    BY <2>6, <2>8
<1>5. IsFiniteSet(Matches(ls, q))
  <2> DEFINE S == DOMAIN ls
             g == [r \in S |-> Row(r)]
             U == {g[r] : r \in S}
  <2>1. g = [r \in S |-> g[r]] /\ \A r \in S : g[r] = Row(r)
    OBVIOUS
  <2>2. IsFiniteSet(S)
    <3>1. 1 \in Int /\ Len(ls) \in Int
      BY <1>1
    <3>2. IsFiniteSet(1 .. Len(ls))
      BY <3>1, FS_Interval
    <3>3. QED
      BY <1>1, <3>2
  <2>3. Matches(ls, q) = UNION {g[r] : r \in S}
    BY <1>3
  <2>4. \A r \in S : IsFiniteSet(g[r])
    BY <1>4, <2>1
  <2> HIDE DEF S, g
  <2>5. IsFiniteSet(U)
    BY <2>1, <2>2, FiniteValues
  <2>6. \A T \in U : IsFiniteSet(T)
    BY <2>4
  <2> HIDE DEF U
  <2>7. IsFiniteSet(UNION U)
    BY <2>5, <2>6, FS_UNION
  <2>8. QED
    BY <2>3, <2>7 DEF U
<1>6. ASSUME NEW p \in Matches(ls, q)
      PROVE  /\ p \in PlaceSet /\ p = [row |-> p.row, col |-> p.col]
             /\ p.row \in 1 .. Len(ls)
             /\ p.col \in 0 .. Len(ls[p.row]) - Len(q)
             /\ SubSeq(ls[p.row], p.col + 1, p.col + Len(q)) = q
  <2>1. PICK r \in DOMAIN ls : p \in Row(r)
    BY <1>3
  <2>2. PICK c \in Cols(r) : p = [row |-> r, col |-> c]
    BY <2>1
  <2>3. p.row = r /\ p.col = c
    BY <2>2
  <2>4. r \in 1 .. Len(ls) /\ Len(ls[r]) \in Nat
    BY <1>1, <1>2
  <2>5. c \in 0 .. Len(ls[r]) - Len(q) /\ SubSeq(ls[r], c + 1, c + Len(q)) = q
    BY <2>2
  <2>6. r \in Nat /\ c \in Nat
    BY <1>1, <2>4, <2>5
  <2>7. p \in PlaceSet /\ p = [row |-> p.row, col |-> p.col]
    BY <2>2, <2>3, <2>6 DEF PlaceSet
  <2>8. QED
    BY <2>3, <2>4, <2>5, <2>7
<1>7. QED
  BY <1>5, <1>6

\* FirstOf gives the first place of those it is given.
LEMMA FirstOfFacts ==
  ASSUME NEW T, T \subseteq PlaceSet, T # {}
  PROVE  FirstOf(T) \in T /\ \A q \in T : NotAfter(FirstOf(T), q)
<1>1. \E p \in T : \A q \in T : NotAfter(p, q)
  BY FirstPlace
<1>2. QED
  BY <1>1 DEF FirstOf

\* The matches a search from p finds ahead of it: from past the query at p on.
Ahead(ls, q, p) ==
  {m \in Matches(ls, q) : NotAfter([row |-> p.row, col |-> p.col + Len(q)], m)}

SearchFrom(ls, q, p) == FindNextText(ls, q, p.row, p.col)

\* Where a search goes: to the first match ahead, or else to the first there
\* is.
LEMMA SearchMoves ==
  ASSUME NEW B, NEW ls \in Seq(Seq(B)), NEW q \in Seq(B),
         Matches(ls, q) # {}, NEW p \in PlaceSet
  PROVE  /\ SearchFrom(ls, q, p) \in Matches(ls, q)
         /\ Ahead(ls, q, p) # {} =>
              /\ SearchFrom(ls, q, p) \in Ahead(ls, q, p)
              /\ \A m \in Ahead(ls, q, p) : NotAfter(SearchFrom(ls, q, p), m)
         /\ Ahead(ls, q, p) = {} =>
              \A m \in Matches(ls, q) : NotAfter(SearchFrom(ls, q, p), m)
<1> DEFINE all == Matches(ls, q)
           ahead == Ahead(ls, q, p)
           wrapped == {m \in all : m.row <= p.row}
           n == SearchFrom(ls, q, p)
<1>1. all \subseteq PlaceSet /\ ahead \subseteq all /\ Len(q) \in Nat
  BY MatchFacts, LenProperties DEF Ahead
<1>2. n = IF ahead # {} THEN FirstOf(ahead)
          ELSE IF wrapped # {} THEN FirstOf(wrapped) ELSE NotFound
  BY DEF SearchFrom, FindNextText, Ahead
<1>3. CASE ahead # {}
  <2>1. ahead \subseteq PlaceSet
    BY <1>1
  <2> HIDE DEF ahead
  <2>2. FirstOf(ahead) \in ahead /\ \A m \in ahead : NotAfter(FirstOf(ahead), m)
    BY <1>3, <2>1, FirstOfFacts
  <2> HIDE DEF n
  <2>3. n = FirstOf(ahead)
    BY <1>2, <1>3
  <2>4. QED
    BY <1>1, <1>3, <2>2, <2>3 DEF ahead, n
<1>4. CASE ahead = {}
  <2>1. ASSUME NEW m \in all
        PROVE  m.row <= p.row
    <3>1. ~ NotAfter([row |-> p.row, col |-> p.col + Len(q)], m)
      BY <1>4 DEF Ahead
    <3>2. /\ m.row \in Nat /\ m.col \in Nat /\ p.row \in Nat /\ p.col \in Nat
          /\ p.col + Len(q) \in Nat
      BY <1>1 DEF PlaceSet
    <3>3. QED
      BY <3>1, <3>2 DEF NotAfter
  <2>2. wrapped = all
    BY <2>1
  <2> HIDE DEF wrapped, all, ahead, n
  <2>3. all # {}
    BY DEF all
  <2>4. n = FirstOf(all)
    BY <1>2, <1>4, <2>2, <2>3
  <2>5. FirstOf(all) \in all /\ \A m \in all : NotAfter(FirstOf(all), m)
    BY <1>1, <2>3, FirstOfFacts
  <2>6. QED
    BY <1>4, <2>4, <2>5 DEF all, ahead, n
<1>5. QED
  BY <1>3, <1>4

\* A search ahead ends behind the place it began at.
LEMMA AheadIsAfter ==
  ASSUME NEW B, NEW ls \in Seq(Seq(B)), NEW q \in Seq(B) \ {<< >>},
         NEW p \in PlaceSet, NEW m \in Ahead(ls, q, p)
  PROVE  ~ NotAfter(m, p)
<1>1. Len(q) \in Nat \ {0}
  BY EmptySeq
<1>2. m \in PlaceSet
  BY MatchFacts DEF Ahead
<1>3. NotAfter([row |-> p.row, col |-> p.col + Len(q)], m)
  BY DEF Ahead
<1>4. m.row \in Nat /\ m.col \in Nat /\ p.row \in Nat /\ p.col \in Nat
  BY <1>2 DEF PlaceSet
<1>5. QED
  BY <1>1, <1>3, <1>4 DEF NotAfter

\* Places are in one order.
LEMMA PlaceOrder ==
  ASSUME NEW p \in PlaceSet, NEW q \in PlaceSet, NEW r \in PlaceSet
  PROVE  /\ NotAfter(p, p)
         /\ NotAfter(p, q) \/ NotAfter(q, p)
         /\ NotAfter(p, q) /\ NotAfter(q, r) => NotAfter(p, r)
         /\ NotAfter(p, q) /\ NotAfter(q, p) => p.row = q.row /\ p.col = q.col
BY DEF PlaceSet, NotAfter

\* Searching on and on: the places found, from the first on.
SearchRun(found, n, ls, q, from) ==
  found = [k \in 0 .. n |->
             SearchFrom(ls, q, IF k = 0 THEN from ELSE found[k - 1])]

\* Every search finds a match, if there is one.
LEMMA SearchesFind ==
  ASSUME NEW B, NEW ls \in Seq(Seq(B)), NEW q \in Seq(B),
         Matches(ls, q) # {}, NEW from \in PlaceSet,
         NEW n \in Nat, NEW found, SearchRun(found, n, ls, q, from)
  PROVE  found \in [0 .. n -> Matches(ls, q)]
<1> DEFINE all == Matches(ls, q)
           T == {k \in Nat : k <= n => found[k] \in all}
<1>1. \A p \in PlaceSet : SearchFrom(ls, q, p) \in all
  BY SearchMoves
<1>2. all \subseteq PlaceSet
  BY MatchFacts
<1> HIDE DEF all
<1>3. \A k \in 0 .. n : found[k] = SearchFrom(ls, q, IF k = 0 THEN from ELSE found[k - 1])
  BY DEF SearchRun
<1>4. 0 \in T
  BY <1>1, <1>3
<1>5. ASSUME NEW k \in Nat, k \in T
      PROVE  k + 1 \in T
  <2>1. CASE k + 1 <= n
    <3>1. found[k] \in PlaceSet
      BY <1>2, <1>5, <2>1
    <3>2. found[k + 1] = SearchFrom(ls, q, found[k])
      <4>1. k + 1 \in 0 .. n /\ k + 1 # 0 /\ k + 1 - 1 = k
        BY <2>1
      <4>2. QED
        BY <1>3, <4>1
    <3>3. QED
      BY <1>1, <3>1, <3>2
  <2>2. CASE ~ (k + 1 <= n)
    BY <2>2
  <2>3. QED
    BY <2>1, <2>2
<1> HIDE DEF T
<1>6. Nat \subseteq T
  BY <1>4, <1>5, InductiveSet
<1>7. \A k \in 0 .. n : found[k] \in all
  BY <1>6 DEF T
<1>8. DOMAIN found = 0 .. n /\ found = [k \in 0 .. n |-> found[k]]
  BY DEF SearchRun
<1>9. QED
  BY <1>7, <1>8 DEF all

\* More searches than matches come round to a match again.
LEMMA SearchesRepeat ==
  ASSUME NEW M, IsFiniteSet(M), NEW found \in [0 .. Cardinality(M) -> M]
  PROVE  \E i \in 0 .. Cardinality(M), j \in 0 .. Cardinality(M) :
           i < j /\ found[i] = found[j]
<1> DEFINE n == Cardinality(M)
           S == 0 .. n
<1>1. n \in Nat
  BY FS_CardinalityType
<1>2. IsFiniteSet(S) /\ Cardinality(S) = n + 1
  <2>1. 0 \in Int /\ n \in Int
    BY <1>1
  <2>2. IsFiniteSet(0 .. n) /\ Cardinality(0 .. n) = IF 0 > n THEN 0 ELSE n - 0 + 1
    BY <2>1, FS_Interval
  <2>3. QED
    BY <1>1, <2>2
<1>3. Cardinality(M) < Cardinality(S)
  BY <1>1, <1>2
<1>4. found \in [S -> M]
  OBVIOUS
<1>5. S \subseteq Int
  OBVIOUS
<1> HIDE DEF S, n
<1>6. \E x, y \in S : x # y /\ found[x] = found[y]
  BY <1>2, <1>3, <1>4, FS_PigeonHole
<1>7. PICK x \in S, y \in S : x # y /\ found[x] = found[y]
  BY <1>6
<1>8. CASE x < y
  BY <1>7, <1>8 DEF S, n
<1>9. CASE y < x
  BY <1>7, <1>9 DEF S, n
<1>10. QED
  BY <1>5, <1>7, <1>8, <1>9

\* A round of searches comes to the first match there is.
LEMMA RoundWraps ==
  ASSUME NEW B, NEW ls \in Seq(Seq(B)), NEW q \in Seq(B) \ {<< >>},
         NEW i \in Nat, NEW j \in Nat, i < j,
         NEW found, \A k \in i .. j : found[k] \in Matches(ls, q),
         \A k \in i .. j - 1 : found[k + 1] = SearchFrom(ls, q, found[k]),
         found[i] = found[j]
  PROVE  \E k \in i .. j : \A m \in Matches(ls, q) : NotAfter(found[k], m)
<1> DEFINE all == Matches(ls, q)
           T == {found[k] : k \in i .. j}
<1>1. \E t \in i .. j - 1 : \A k \in i .. j : NotAfter(found[k], found[t])
  <2>1. T \subseteq PlaceSet /\ T # {}
    <3>1. i \in i .. j
      OBVIOUS
    <3>2. all \subseteq PlaceSet
      BY MatchFacts
    <3>3. QED
      BY <3>1, <3>2
  <2> DEFINE w == [r \in 1 .. Len(ls) |-> Len(ls[r])]
  <2>2. Len(ls) \in Nat /\ \A p \in T : p.row <= Len(ls) /\ w[p.row] \in Nat /\ p.col <= w[p.row]
    <3>1. Len(ls) \in Nat /\ Len(q) \in Nat
      BY LenProperties
    <3>2. ASSUME NEW p \in T
          PROVE  p.row <= Len(ls) /\ w[p.row] \in Nat /\ p.col <= w[p.row]
      <4>1. p \in all
        OBVIOUS
      <4>2. p.row \in 1 .. Len(ls) /\ p.col \in 0 .. Len(ls[p.row]) - Len(q)
        BY <4>1, MatchFacts
      <4>3. ls[p.row] \in Seq(B)
        BY <4>2, ElementOfSeq
      <4>4. Len(ls[p.row]) \in Nat
        BY <4>3, LenProperties
      <4>5. w[p.row] = Len(ls[p.row])
        BY <4>2
      <4>6. QED
        BY <3>1, <4>2, <4>4, <4>5
    <3>3. QED
      BY <3>1, <3>2
  <2> HIDE DEF T, w
  <2>3. PICK g \in T : \A p \in T : NotAfter(p, g)
    BY <2>1, <2>2, LastPlace
  <2>4. PICK t \in i .. j : g = found[t]
    BY DEF T
  <2>5. \A k \in i .. j : NotAfter(found[k], found[t])
    BY <2>3, <2>4 DEF T
  <2>6. CASE t = j
    <3>1. i \in i .. j - 1
      OBVIOUS
    <3>2. QED
      BY <2>5, <2>6, <3>1
  <2>7. CASE t # j
    <3>1. t \in i .. j - 1
      BY <2>7
    <3>2. QED
      BY <2>5, <3>1
  <2>8. QED
    BY <2>6, <2>7
<1>2. PICK t \in i .. j - 1 : \A k \in i .. j : NotAfter(found[k], found[t])
  BY <1>1
<1>3. t \in i .. j /\ t + 1 \in i .. j
  OBVIOUS
<1>4. found[t] \in PlaceSet /\ all # {}
  BY <1>3, MatchFacts
<1> DEFINE p == found[t]
           n == found[t + 1]
<1>5. n = SearchFrom(ls, q, p) /\ NotAfter(n, p)
  BY <1>2, <1>3
<1> HIDE DEF p, n
<1>6. p \in PlaceSet
  BY <1>4 DEF p
<1>7. Ahead(ls, q, p) = {}
  <2>1. SUFFICES ASSUME Ahead(ls, q, p) # {}
                 PROVE  FALSE
    OBVIOUS
  <2>2. n \in Ahead(ls, q, p)
    BY <1>4, <1>5, <1>6, <2>1, SearchMoves
  <2>3. ~ NotAfter(n, p)
    BY <1>6, <2>2, AheadIsAfter
  <2>4. QED
    BY <1>5, <2>3
<1>8. \A m \in Matches(ls, q) : NotAfter(n, m)
  BY <1>4, <1>5, <1>6, <1>7, SearchMoves
<1>9. QED
  BY <1>3, <1>8 DEF n

\* A round of searches comes to every match, or to one it overlaps.
LEMMA RoundReaches ==
  ASSUME NEW B, NEW ls \in Seq(Seq(B)), NEW q \in Seq(B) \ {<< >>},
         NEW i \in Nat, NEW j \in Nat, i < j,
         NEW found, \A k \in i .. j : found[k] \in Matches(ls, q),
         \A k \in i .. j - 1 : found[k + 1] = SearchFrom(ls, q, found[k]),
         found[i] = found[j],
         NEW m \in Matches(ls, q)
  PROVE  \E k \in i .. j :
           /\ m.row = found[k].row
           /\ m.col < found[k].col + Len(q)
           /\ found[k].col < m.col + Len(q)
<1> DEFINE all == Matches(ls, q)
           U == {p \in {found[k] : k \in i .. j} : NotAfter(p, m)}
<1>1. all \subseteq PlaceSet
  BY MatchFacts
<1>2. \A k \in i .. j : found[k] \in PlaceSet
  BY <1>1
<1>3. U # {}
  <2>1. \E k \in i .. j : \A x \in Matches(ls, q) : NotAfter(found[k], x)
    BY RoundWraps
  <2>2. QED
    BY <2>1
<1>4. \E t \in i .. j - 1 :
        /\ NotAfter(found[t], m)
        /\ \A k \in i .. j : NotAfter(found[k], m) => NotAfter(found[k], found[t])
  <2> DEFINE w == [r \in 1 .. Len(ls) |-> Len(ls[r])]
  <2>1. U \subseteq PlaceSet
    BY <1>2
  <2>2. Len(ls) \in Nat /\ \A p \in U : p.row <= Len(ls) /\ w[p.row] \in Nat /\ p.col <= w[p.row]
    <3>1. Len(ls) \in Nat /\ Len(q) \in Nat
      BY LenProperties
    <3>2. ASSUME NEW p \in U
          PROVE  p.row <= Len(ls) /\ w[p.row] \in Nat /\ p.col <= w[p.row]
      <4>1. p \in all
        OBVIOUS
      <4>2. p.row \in 1 .. Len(ls) /\ p.col \in 0 .. Len(ls[p.row]) - Len(q)
        BY <4>1, MatchFacts
      <4>3. ls[p.row] \in Seq(B)
        BY <4>2, ElementOfSeq
      <4>4. Len(ls[p.row]) \in Nat
        BY <4>3, LenProperties
      <4>5. w[p.row] = Len(ls[p.row])
        BY <4>2
      <4>6. QED
        BY <3>1, <4>2, <4>4, <4>5
    <3>3. QED
      BY <3>1, <3>2
  <2> HIDE DEF U, w
  <2>3. PICK g \in U : \A p \in U : NotAfter(p, g)
    BY <1>3, <2>1, <2>2, LastPlace
  <2>4. PICK t \in i .. j : g = found[t] /\ NotAfter(found[t], m)
    BY DEF U
  <2>5. \A k \in i .. j : NotAfter(found[k], m) => NotAfter(found[k], found[t])
    BY <2>3, <2>4 DEF U
  <2>6. CASE t = j
    <3>1. i \in i .. j - 1
      OBVIOUS
    <3>2. QED
      BY <2>4, <2>5, <2>6, <3>1
  <2>7. CASE t # j
    <3>1. t \in i .. j - 1
      BY <2>7
    <3>2. QED
      BY <2>4, <2>5, <3>1
  <2>8. QED
    BY <2>6, <2>7
<1>5. PICK t \in i .. j - 1 :
        /\ NotAfter(found[t], m)
        /\ \A k \in i .. j : NotAfter(found[k], m) => NotAfter(found[k], found[t])
  BY <1>4
<1>6. t \in i .. j /\ t + 1 \in i .. j
  OBVIOUS
<1> DEFINE p == found[t]
           n == found[t + 1]
<1>7. p \in PlaceSet /\ n \in PlaceSet /\ m \in PlaceSet /\ NotAfter(p, m)
  BY <1>1, <1>2, <1>5, <1>6
<1>8. n = SearchFrom(ls, q, p) /\ (NotAfter(n, m) => NotAfter(n, p))
  BY <1>5, <1>6
<1> HIDE DEF p, n, U
<1>9. m \notin Ahead(ls, q, p)
  <2>1. SUFFICES ASSUME m \in Ahead(ls, q, p)
                 PROVE  FALSE
    OBVIOUS
  <2>2. Ahead(ls, q, p) # {} /\ Matches(ls, q) # {}
    BY <2>1
  <2>3. n \in Ahead(ls, q, p) /\ NotAfter(n, m)
    BY <1>7, <1>8, <2>1, <2>2, SearchMoves
  <2>4. ~ NotAfter(n, p)
    BY <1>7, <2>3, AheadIsAfter
  <2>5. QED
    BY <1>8, <2>3, <2>4
<1>10. ~ NotAfter([row |-> p.row, col |-> p.col + Len(q)], m)
  BY <1>9 DEF Ahead
<1>11. Len(q) \in Nat \ {0}
  BY EmptySeq
<1>12. p.row \in Nat /\ p.col \in Nat /\ m.row \in Nat /\ m.col \in Nat
  BY <1>7 DEF PlaceSet
<1>13. m.row = p.row /\ m.col < p.col + Len(q) /\ p.col < m.col + Len(q)
  BY <1>7, <1>10, <1>11, <1>12 DEF NotAfter
<1>14. QED
  BY <1>6, <1>13 DEF p

\* As many searches as there are matches, and one, come to every match.
LEMMA SearchesReach ==
  ASSUME NEW B, NEW ls \in Seq(Seq(B)), NEW q \in Seq(B) \ {<< >>},
         NEW from \in PlaceSet, NEW m \in Matches(ls, q),
         NEW found, SearchRun(found, Cardinality(Matches(ls, q)), ls, q, from)
  PROVE  /\ \E k \in DOMAIN found :
              /\ m.row = found[k].row
              /\ m.col < found[k].col + Len(q)
              /\ found[k].col < m.col + Len(q)
         /\ \A k \in DOMAIN found : found[k] # NotFound
<1> DEFINE all == Matches(ls, q)
           n == Cardinality(all)
<1>1. IsFiniteSet(all) /\ all # {}
  BY MatchFacts
<1>2. n \in Nat
  BY <1>1, FS_CardinalityType
<1>3. found \in [0 .. n -> all]
  BY <1>1, <1>2, SearchesFind
<1>4. \E i \in 0 .. n, j \in 0 .. n : i < j /\ found[i] = found[j]
  <2> HIDE DEF all
  <2>1. QED
    BY <1>1, <1>3, SearchesRepeat
<1>5. PICK i \in 0 .. n, j \in 0 .. n : i < j /\ found[i] = found[j]
  BY <1>4
<1>6. i \in Nat /\ j \in Nat /\ \A k \in i .. j : k \in 0 .. n
  BY <1>2
<1>7. \A k \in i .. j - 1 : found[k + 1] = SearchFrom(ls, q, found[k])
  <2>1. ASSUME NEW k \in i .. j - 1
        PROVE  found[k + 1] = SearchFrom(ls, q, found[k])
    <3>1. k + 1 \in 0 .. n /\ k + 1 # 0 /\ k + 1 - 1 = k
      BY <1>2, <1>6
    <3>2. \A l \in 0 .. n :
            found[l] = SearchFrom(ls, q, IF l = 0 THEN from ELSE found[l - 1])
      <4> HIDE DEF n
      <4>1. SearchRun(found, n, ls, q, from)
        BY DEF n
      <4>2. QED
        BY <4>1 DEF SearchRun
    <3>3. QED
      BY <3>1, <3>2
  <2>2. QED
    BY <2>1
<1>8. \A k \in i .. j : found[k] \in Matches(ls, q)
  BY <1>3, <1>6
<1>9. \E k \in i .. j :
        /\ m.row = found[k].row
        /\ m.col < found[k].col + Len(q)
        /\ found[k].col < m.col + Len(q)
  BY <1>5, <1>6, <1>7, <1>8, RoundReaches
<1>10. DOMAIN found = 0 .. n
  BY <1>3
<1>11. ASSUME NEW k \in DOMAIN found
       PROVE  found[k] # NotFound
  <2>1. found[k] \in all
    BY <1>3, <1>10
  <2>2. found[k].row \in 1 .. Len(ls)
    BY <2>1, MatchFacts
  <2>3. QED
    BY <2>2 DEF NotFound
<1>12. QED
  BY <1>6, <1>9, <1>10, <1>11

\* There is such a run of searches.
LEMMA SearchRunExists ==
  ASSUME NEW ls, NEW q, NEW from, NEW n \in Nat
  PROVE  \E found : SearchRun(found, n, ls, q, from)
<1> DEFINE T == {k \in Nat : \E f : SearchRun(f, k, ls, q, from)}
<1>1. 0 \in T
  <2> DEFINE f == [k \in 0 .. 0 |-> SearchFrom(ls, q, from)]
  <2>1. \A k \in 0 .. 0 : k = 0
    OBVIOUS
  <2>2. SearchRun(f, 0, ls, q, from)
    BY <2>1 DEF SearchRun
  <2>3. QED
    BY <2>2
<1>2. ASSUME NEW k \in Nat, k \in T
      PROVE  k + 1 \in T
  <2>1. PICK f : SearchRun(f, k, ls, q, from)
    BY <1>2
  <2> DEFINE h == [i \in 0 .. k + 1 |->
                     IF i = k + 1 THEN SearchFrom(ls, q, f[k]) ELSE f[i]]
  <2>2. ASSUME NEW i \in 0 .. k + 1
        PROVE  h[i] = SearchFrom(ls, q, IF i = 0 THEN from ELSE h[i - 1])
    <3>1. CASE i = k + 1
      <4>1. i # 0 /\ i - 1 = k /\ i - 1 \in 0 .. k + 1 /\ i - 1 # k + 1
        BY <3>1
      <4>2. QED
        BY <3>1, <4>1
    <3>2. CASE i # k + 1
      <4>1. i \in 0 .. k
        BY <3>2
      <4>2. h[i] = f[i] /\ f[i] = SearchFrom(ls, q, IF i = 0 THEN from ELSE f[i - 1])
        BY <2>1, <3>2, <4>1 DEF SearchRun
      <4>3. i # 0 => h[i - 1] = f[i - 1]
        BY <4>1
      <4>4. QED
        BY <4>2, <4>3
    <3>3. QED
      BY <3>1, <3>2
  <2>3. h = [i \in 0 .. k + 1 |-> h[i]]
    OBVIOUS
  <2> HIDE DEF h
  <2>4. SearchRun(h, k + 1, ls, q, from)
    BY <2>2, <2>3 DEF SearchRun
  <2>5. QED
    BY <2>4
<1> HIDE DEF T
<1>3. Nat \subseteq T
  BY <1>1, <1>2, InductiveSet
<1>4. QED
  BY <1>3 DEF T
=============================================================================
