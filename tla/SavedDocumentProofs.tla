-------------------------- MODULE SavedDocumentProofs --------------------------
(***************************************************************************)
(* Every document that can be built, of any number of rows, characters,    *)
(* floats and list items: the numbers that its lists show, and what a save *)
(* to .rtf followed by an open makes of it.                                *)
(*                                                                         *)
(* For the second, the state of the reader is given in closed form (State) *)
(* for every place in the document: after the words of a row the reader is *)
(* where the writer takes it to be when it writes the next (RowRun), and   *)
(* the words of all the rows follow from those of each (RunsFlat).         *)
(***************************************************************************)
EXTENDS SavedDocument, BufferLayersProofs

(***************************************************************************)
(* Lists as deep as the counters of ComputeNumberedLabels go.              *)
(***************************************************************************)
Listed(b) == \A r \in Nat : ListLevel(b, r) \in 0 .. kMaxListLevel

\* How many siblings a row has at each level, itself included.
Tally(b, row) ==
  [k \in 1 .. kMaxListLevel |-> Cardinality(Siblings(b, row, k))]

LEMMA SiblingsFinite ==
  ASSUME NEW b, NEW row \in Nat, NEW k \in Nat
  PROVE  /\ Siblings(b, row, k) \subseteq 1 .. row
         /\ IsFiniteSet(Siblings(b, row, k))
         /\ Cardinality(Siblings(b, row, k)) \in Nat
<1>1. Siblings(b, row, k) \subseteq 1 .. row
  BY DEF Siblings
<1>2. IsFiniteSet(1 .. row)
  BY FS_Interval
<1>3. IsFiniteSet(Siblings(b, row, k))
  BY <1>1, <1>2, FS_Subset
<1>4. QED
  BY <1>1, <1>3, FS_CardinalityType

(***************************************************************************)
(* What a row does to the siblings of each level.                          *)
(***************************************************************************)
LEMMA OutsideLists ==
  ASSUME NEW b, NEW row \in Nat, NEW k \in Nat, ListLevel(b, row) = 0
  PROVE  Siblings(b, row, k) = {}
BY DEF Siblings, OneRun

LEMMA SameSiblings ==
  ASSUME NEW b, Listed(b), NEW row \in Nat \ {0}, NEW k \in Nat,
         ListLevel(b, row) > 0,
         ListNumbered(b, row) => k < ListLevel(b, row)
  PROVE  Siblings(b, row, k) = Siblings(b, row - 1, k)
<1>1. ASSUME NEW s \in 1 .. row - 1
      PROVE  s \in Siblings(b, row, k) <=> s \in Siblings(b, row - 1, k)
  <2>1. s .. row = (s .. row - 1) \cup {row}
        /\ (s + 1 .. row) = (s + 1 .. row - 1) \cup {row}
    OBVIOUS
  <2>2. OneRun(b, s, row) <=> OneRun(b, s, row - 1)
    BY <2>1 DEF OneRun
  <2>3. (\A t \in s + 1 .. row : ListNumbered(b, t) => ListLevel(b, t) >= k)
        <=> (\A t \in s + 1 .. row - 1 : ListNumbered(b, t) => ListLevel(b, t) >= k)
    <3>1. ListNumbered(b, row) => ListLevel(b, row) >= k
      BY DEF Listed
    <3>2. QED
      BY <2>1, <3>1
  <2>4. s \in 1 .. row
    OBVIOUS
  <2>5. QED
    BY <2>2, <2>3, <2>4 DEF Siblings
<1>2. row \notin Siblings(b, row, k)
  BY DEF Siblings, Listed
<1>3. Siblings(b, row, k) \subseteq 1 .. row
      /\ Siblings(b, row - 1, k) \subseteq 1 .. row - 1
  BY DEF Siblings
<1>4. QED
  BY <1>1, <1>2, <1>3

LEMMA OneMoreSibling ==
  ASSUME NEW b, Listed(b), NEW row \in Nat \ {0},
         ListLevel(b, row) > 0, ListNumbered(b, row)
  PROVE  /\ Siblings(b, row, ListLevel(b, row))
              = Siblings(b, row - 1, ListLevel(b, row)) \cup {row}
         /\ row \notin Siblings(b, row - 1, ListLevel(b, row))
<1> DEFINE k == ListLevel(b, row)
<1>1. ASSUME NEW s \in 1 .. row - 1
      PROVE  s \in Siblings(b, row, k) <=> s \in Siblings(b, row - 1, k)
  <2>1. s .. row = (s .. row - 1) \cup {row}
        /\ (s + 1 .. row) = (s + 1 .. row - 1) \cup {row}
    OBVIOUS
  <2>2. OneRun(b, s, row) <=> OneRun(b, s, row - 1)
    BY <2>1 DEF OneRun
  <2>3. (\A t \in s + 1 .. row : ListNumbered(b, t) => ListLevel(b, t) >= k)
        <=> (\A t \in s + 1 .. row - 1 : ListNumbered(b, t) => ListLevel(b, t) >= k)
    <3>1. ListNumbered(b, row) => ListLevel(b, row) >= k
      BY DEF Listed
    <3>2. QED
      BY <2>1, <3>1
  <2>4. s \in 1 .. row
    OBVIOUS
  <2>5. QED
    BY <2>2, <2>3, <2>4 DEF Siblings
<1>2. row \in Siblings(b, row, k)
  <2>1. row .. row = {row} /\ (row + 1 .. row) = {} /\ row \in 1 .. row
    OBVIOUS
  <2>2. QED
    BY <2>1 DEF Siblings, OneRun
<1>3. Siblings(b, row, k) \subseteq 1 .. row
      /\ Siblings(b, row - 1, k) \subseteq 1 .. row - 1
  BY DEF Siblings
<1>4. row \notin Siblings(b, row - 1, k)
  BY <1>3
<1>5. QED
  BY <1>1, <1>2, <1>3, <1>4

LEMMA NewParent ==
  ASSUME NEW b, Listed(b), NEW row \in Nat \ {0}, NEW k \in Nat,
         ListNumbered(b, row), ListLevel(b, row) < k
  PROVE  Siblings(b, row, k) = {}
<1>1. ASSUME NEW s \in Siblings(b, row, k)
      PROVE  FALSE
  <2>1. s \in 1 .. row /\ ListLevel(b, s) = k
        /\ \A t \in s + 1 .. row : ListNumbered(b, t) => ListLevel(b, t) >= k
    BY <1>1 DEF Siblings
  <2>2. s # row
    BY <2>1 DEF Listed
  <2>3. row \in s + 1 .. row
    BY <2>1, <2>2
  <2>4. QED
    BY <2>1, <2>3 DEF Listed
<1>2. QED
  BY <1>1

(***************************************************************************)
(* The counters are the tally: a row counts itself in and resets what a    *)
(* reader would no longer count.                                           *)
(***************************************************************************)
LEMMA CountTally ==
  ASSUME NEW b, Listed(b), NEW row \in Nat \ {0}
  PROVE  Count(b, row, Tally(b, row - 1)) = Tally(b, row)
<1> DEFINE level == ListLevel(b, row)
           K     == 1 .. kMaxListLevel
<1>1. level \in 0 .. kMaxListLevel /\ kMaxListLevel = 6
  BY DEF Listed, kMaxListLevel
<1>2. Counted(b, row) = level
  BY <1>1 DEF Counted
<1>3. Tally(b, row - 1) = [k \in K |-> Cardinality(Siblings(b, row - 1, k))]
      /\ Tally(b, row) = [k \in K |-> Cardinality(Siblings(b, row, k))]
  BY DEF Tally
<1>4. CASE level = 0
  <2>1. \A k \in K : Cardinality(Siblings(b, row, k)) = 0
    <3>1. \A k \in K : Siblings(b, row, k) = {}
      BY <1>4, OutsideLists DEF kMaxListLevel
    <3>2. QED
      BY <3>1, FS_EmptySet
  <2>2. Tally(b, row) = [k \in K |-> 0]
    BY <1>3, <2>1
  <2>3. QED
    BY <1>4, <2>2 DEF Count, Uncounted
<1>5. CASE level # 0 /\ ~ListNumbered(b, row)
  <2>1. \A k \in K : Siblings(b, row, k) = Siblings(b, row - 1, k)
    BY <1>1, <1>5, SameSiblings DEF kMaxListLevel
  <2>2. Tally(b, row) = Tally(b, row - 1)
    BY <1>3, <2>1
  <2>3. QED
    BY <1>5, <2>2 DEF Count
<1>6. CASE level # 0 /\ ListNumbered(b, row)
  <2> DEFINE T == Tally(b, row - 1)
  <2>1. ASSUME NEW k \in K
        PROVE  Cardinality(Siblings(b, row, k))
                 = IF k < level THEN T[k] ELSE IF k = level THEN T[k] + 1 ELSE 0
    <3>1. T[k] = Cardinality(Siblings(b, row - 1, k)) /\ k \in Nat
      BY <1>1, <1>3
    <3>2. CASE k < level
      <4>1. Siblings(b, row, k) = Siblings(b, row - 1, k)
        BY <1>1, <1>6, <3>1, <3>2, SameSiblings
      <4>2. QED
        BY <3>1, <3>2, <4>1
    <3>3. CASE k = level
      <4> DEFINE before == Siblings(b, row - 1, k)
      <4>1. Siblings(b, row, k) = before \cup {row} /\ row \notin before
        BY <1>1, <1>6, <3>3, OneMoreSibling
      <4>2. IsFiniteSet(before)
        <5>1. row - 1 \in Nat /\ k \in Nat
          BY <3>1
        <5>2. QED
          BY <5>1, SiblingsFinite
      <4> HIDE DEF before
      <4>3. Cardinality(before \cup {row}) = Cardinality(before) + 1
        BY <4>1, <4>2, FS_AddElement
      <4>4. QED
        BY <1>1, <3>1, <3>3, <4>1, <4>3 DEF before
    <3>4. CASE level < k
      <4>1. Siblings(b, row, k) = {}
        BY <1>6, <3>1, <3>4, NewParent
      <4>2. Cardinality(Siblings(b, row, k)) = 0
        BY <4>1, FS_EmptySet
      <4>3. QED
        BY <1>1, <3>1, <3>4, <4>2
    <3>5. QED
      BY <1>1, <3>1, <3>2, <3>3, <3>4
  <2>2. Count(b, row, T)
          = [k \in K |-> IF k < level THEN T[k]
                         ELSE IF k = level THEN T[k] + 1 ELSE 0]
    BY <1>2, <1>6 DEF Count
  <2> HIDE DEF T
  <2>3. QED
    BY <1>3, <2>1, <2>2 DEF T
<1>7. QED
  BY <1>4, <1>5, <1>6

LEMMA EmptyTally ==
  ASSUME NEW b
  PROVE  Tally(b, 0) = Uncounted
<1>1. \A k \in 1 .. kMaxListLevel : Siblings(b, 0, k) = {}
  BY DEF Siblings
<1>2. \A k \in 1 .. kMaxListLevel : Cardinality(Siblings(b, 0, k)) = 0
  BY <1>1, FS_EmptySet
<1>3. QED
  BY <1>2 DEF Tally, Uncounted

\* The counters as ComputeNumberedLabels passes them on, row by row.
Passes(b, n, g) ==
  g = [row \in 0 .. n |-> IF row = 0 THEN Uncounted ELSE Count(b, row, g[row - 1])]

\* The label of a row, given the counters after it.
LabelFrom(b, row, counters) ==
  IF ListNumbered(b, row)
  THEN [k \in 1 .. Counted(b, row) |-> IF counters[k] > 0 THEN counters[k] ELSE 1]
  ELSE << >>

\* The counters after a row do not depend on who counts them.
LEMMA PassesUnique ==
  ASSUME NEW b, NEW n \in Nat, NEW g, NEW h, Passes(b, n, g), Passes(b, n, h)
  PROVE  \A row \in 0 .. n : g[row] = h[row]
<1>1. \A row \in 0 .. n :
        /\ g[row] = IF row = 0 THEN Uncounted ELSE Count(b, row, g[row - 1])
        /\ h[row] = IF row = 0 THEN Uncounted ELSE Count(b, row, h[row - 1])
  BY DEF Passes
<1> DEFINE T == {k \in Nat : k <= n => g[k] = h[k]}
<1>2. 0 \in T
  BY <1>1
<1>3. \A k \in Nat : k \in T => k + 1 \in T
  <2> SUFFICES ASSUME NEW k \in Nat, k \in T, k + 1 <= n
               PROVE  g[k + 1] = h[k + 1]
    OBVIOUS
  <2>1. g[k] = h[k]
    OBVIOUS
  <2>2. k + 1 \in 0 .. n /\ k + 1 # 0 /\ (k + 1) - 1 = k
    OBVIOUS
  <2>3. g[k + 1] = Count(b, k + 1, g[k]) /\ h[k + 1] = Count(b, k + 1, h[k])
    BY <1>1, <2>2
  <2>4. QED
    BY <2>1, <2>3
<1>4. Nat \subseteq T
  <2> HIDE DEF T
  <2>1. QED
    BY <1>2, <1>3, InductiveSet
<1>5. QED
  BY <1>4

LEMMA TallyPasses ==
  ASSUME NEW b, Listed(b), NEW n \in Nat
  PROVE  Passes(b, n, [row \in 0 .. n |-> Tally(b, row)])
<1> DEFINE g == [row \in 0 .. n |-> Tally(b, row)]
<1>1. ASSUME NEW row \in 0 .. n
      PROVE  Tally(b, row)
               = IF row = 0 THEN Uncounted ELSE Count(b, row, g[row - 1])
  <2>1. CASE row = 0
    BY <2>1, EmptyTally
  <2>2. CASE row # 0
    <3>1. row \in Nat \ {0} /\ row - 1 \in 0 .. n
      BY <2>2
    <3>2. g[row - 1] = Tally(b, row - 1)
      BY <3>1
    <3>3. QED
      BY <2>2, <3>1, <3>2, CountTally
  <2>3. QED
    BY <2>1, <2>2
<1> DEFINE h == [row \in 0 .. n |-> IF row = 0 THEN Uncounted
                                    ELSE Count(b, row, g[row - 1])]
<1>2. g = h
  BY <1>1
<1>3. QED
  BY <1>2 DEF Passes

\* Whoever counts the rows has the tally.
LEMMA PassesTally ==
  ASSUME NEW b, Listed(b), NEW n \in Nat, NEW g, Passes(b, n, g),
         NEW row \in 0 .. n
  PROVE  g[row] = Tally(b, row)
<1> DEFINE h == [r \in 0 .. n |-> Tally(b, r)]
<1>1. Passes(b, n, h)
  BY TallyPasses
<1>2. h[row] = Tally(b, row)
  OBVIOUS
<1> HIDE DEF h
<1>3. \A r \in 0 .. n : g[r] = h[r]
  BY <1>1, PassesUnique
<1>4. QED
  BY <1>2, <1>3

\* What a row shows: the tally of its siblings and of its parents'.
LEMMA LabelsTally ==
  ASSUME NEW b, Listed(b), Len(b.lines) \in Nat, NEW row \in DOMAIN b.lines,
         row \in 0 .. Len(b.lines)
  PROVE  ComputeNumberedLabels(b)[row] = LabelFrom(b, row, Tally(b, row))
<1> DEFINE n == Len(b.lines)
           after[r \in 0 .. n] ==
             IF r = 0 THEN Uncounted ELSE Count(b, r, after[r - 1])
<1>1. \E g : Passes(b, n, g)
  BY TallyPasses
<1>2. Passes(b, n, after)
  BY <1>1 DEF Passes
<1>3. ComputeNumberedLabels(b)
        = [r \in DOMAIN b.lines |-> LabelFrom(b, r, after[r])]
  BY DEF ComputeNumberedLabels, LabelFrom
<1> HIDE DEF after, n
<1>4. n \in Nat /\ row \in 0 .. n
  BY DEF n
<1>5. after[row] = Tally(b, row)
  BY <1>2, <1>4, PassesTally
<1>6. QED
  BY <1>3, <1>5

-----------------------------------------------------------------------------
(***************************************************************************)
(* What the numbers say, of one document.                                  *)
(***************************************************************************)
LEMMA TallyFacts ==
  ASSUME NEW b, NEW row \in Nat, NEW k \in 1 .. kMaxListLevel
  PROVE  /\ Tally(b, row)[k] = Cardinality(Siblings(b, row, k))
         /\ Tally(b, row)[k] \in Nat
<1>1. k \in Nat
  BY DEF kMaxListLevel
<1>2. QED
  BY <1>1, SiblingsFinite DEF Tally

LEMMA LabelFacts ==
  ASSUME NEW b, Listed(b), NEW row \in Nat, ListNumbered(b, row)
  PROVE  LET level == ListLevel(b, row)
             label == LabelFrom(b, row, Tally(b, row))
         IN  /\ level \in 0 .. kMaxListLevel
             /\ label = [k \in 1 .. level |->
                           IF Tally(b, row)[k] > 0 THEN Tally(b, row)[k] ELSE 1]
             /\ label \in Seq(Nat) /\ Len(label) = level
             /\ DOMAIN label = 1 .. level
<1> DEFINE level == ListLevel(b, row)
           T == Tally(b, row)
           label == [k \in 1 .. level |-> IF T[k] > 0 THEN T[k] ELSE 1]
<1>1. level \in 0 .. kMaxListLevel /\ kMaxListLevel = 6
  BY DEF Listed, kMaxListLevel
<1>2. Counted(b, row) = level
  BY <1>1 DEF Counted
<1>3. LabelFrom(b, row, T) = label
  BY <1>2 DEF LabelFrom
<1>4. \A k \in 1 .. level : T[k] \in Nat
  <2>1. \A k \in 1 .. level : k \in 1 .. kMaxListLevel
    BY <1>1
  <2>2. QED
    BY <2>1, TallyFacts
<1>5. label \in Seq(Nat) /\ Len(label) = level /\ DOMAIN label = 1 .. level
  <2> HIDE DEF T
  <2>1. label \in [1 .. level -> Nat] /\ level \in Nat
    BY <1>1, <1>4
  <2> HIDE DEF label
  <2>2. QED
    BY <2>1, SeqDef, LenProperties
<1>6. QED
  BY <1>1, <1>3, <1>5

LEMMA CountsSiblings ==
  ASSUME NEW b, Listed(b), Len(b.lines) \in Nat,
         DOMAIN b.lines = 1 .. Len(b.lines), NEW r \in DOMAIN b.lines
  PROVE  LET label == ComputeNumberedLabels(b)[r]
         IN  IF ~ListNumbered(b, r) THEN label = << >>
             ELSE /\ Len(label) = ListLevel(b, r)
                  /\ \A k \in DOMAIN label :
                       LET n == Cardinality(Siblings(b, r, k))
                       IN  label[k] = IF n = 0 THEN 1 ELSE n
<1> DEFINE label == ComputeNumberedLabels(b)[r]
<1>1. r \in Nat /\ r \in 0 .. Len(b.lines)
  OBVIOUS
<1>2. label = LabelFrom(b, r, Tally(b, r))
  BY <1>1, LabelsTally
<1> HIDE DEF label
<1>3. CASE ~ListNumbered(b, r)
  BY <1>2, <1>3 DEF label, LabelFrom
<1>4. CASE ListNumbered(b, r)
  <2> DEFINE level == ListLevel(b, r)
  <2>1. /\ level \in 0 .. kMaxListLevel
        /\ label = [k \in 1 .. level |->
                      IF Tally(b, r)[k] > 0 THEN Tally(b, r)[k] ELSE 1]
        /\ Len(label) = level /\ DOMAIN label = 1 .. level
    BY <1>1, <1>2, <1>4, LabelFacts
  <2>2. ASSUME NEW k \in DOMAIN label
        PROVE  LET n == Cardinality(Siblings(b, r, k))
               IN  label[k] = IF n = 0 THEN 1 ELSE n
    <3>1. k \in 1 .. level /\ k \in 1 .. kMaxListLevel
      BY <2>1, <2>2 DEF kMaxListLevel
    <3>2. /\ Tally(b, r)[k] = Cardinality(Siblings(b, r, k))
          /\ Tally(b, r)[k] \in Nat
      BY <1>1, <3>1, TallyFacts
    <3>3. label[k] = IF Tally(b, r)[k] > 0 THEN Tally(b, r)[k] ELSE 1
      BY <2>1, <3>1
    <3>4. QED
      BY <3>2, <3>3
  <2>3. QED
    BY <1>4, <2>1, <2>2 DEF label
<1>5. QED
  BY <1>3, <1>4

(***************************************************************************)
(* The rows between two items of one list leave the items above level m    *)
(* as they are, and one of them at level m is an item more.                *)
(***************************************************************************)
NoLevelBelow(b, r, s, m) ==
  \A t \in r + 1 .. s : ListNumbered(b, t) => ListLevel(b, t) >= m

LEMMA SiblingsStay ==
  ASSUME NEW b, Listed(b), NEW s \in Nat, NEW r \in 1 .. s, OneRun(b, r, s),
         NEW m \in Nat, NoLevelBelow(b, r, s, m), NEW k \in Nat, k <= m
  PROVE  /\ Siblings(b, r, k) \subseteq Siblings(b, s, k)
         /\ k < m => Siblings(b, s, k) = Siblings(b, r, k)
<1>1. \A t \in r + 1 .. s : ListNumbered(b, t) => ListLevel(b, t) \in Nat
        /\ ListLevel(b, t) >= m
  BY DEF NoLevelBelow, Listed
<1>2. ASSUME NEW i \in 1 .. r
      PROVE  i \in Siblings(b, r, k) <=> i \in Siblings(b, s, k)
  <2>1. i .. s = (i .. r) \cup (r .. s)
        /\ (i + 1 .. s) = (i + 1 .. r) \cup (r + 1 .. s)
    OBVIOUS
  <2>2. OneRun(b, i, s) <=> OneRun(b, i, r)
    BY <2>1 DEF OneRun
  <2>3. (\A t \in i + 1 .. s : ListNumbered(b, t) => ListLevel(b, t) >= k)
        <=> (\A t \in i + 1 .. r : ListNumbered(b, t) => ListLevel(b, t) >= k)
    <3>1. \A t \in r + 1 .. s : ListNumbered(b, t) => ListLevel(b, t) >= k
      BY <1>1
    <3>2. QED
      BY <2>1, <3>1
  <2>4. i \in 1 .. s
    OBVIOUS
  <2>5. QED
    BY <2>2, <2>3, <2>4 DEF Siblings
<1>3. /\ Siblings(b, r, k) \subseteq 1 .. r
      /\ Siblings(b, s, k) \subseteq 1 .. s
  BY DEF Siblings
<1>4. ASSUME k < m, NEW i \in Siblings(b, s, k)
      PROVE  i \in 1 .. r
  <2>1. i \in 1 .. s /\ ListNumbered(b, i) /\ ListLevel(b, i) = k
    BY <1>4 DEF Siblings
  <2>2. i \notin r + 1 .. s
    BY <1>1, <1>4, <2>1
  <2>3. QED
    BY <2>1, <2>2
<1>5. QED
  BY <1>2, <1>3, <1>4

LEMMA ItemMore ==
  ASSUME NEW b, Listed(b), NEW s \in Nat, NEW r \in 1 .. s, OneRun(b, r, s),
         NEW m \in Nat, NoLevelBelow(b, r, s, m),
         NEW t \in r + 1 .. s, ListNumbered(b, t), ListLevel(b, t) = m
  PROVE  Cardinality(Siblings(b, r, m)) < Cardinality(Siblings(b, s, m))
<1> DEFINE R == Siblings(b, r, m)
           S == Siblings(b, s, m)
<1>1. R \subseteq S
  BY SiblingsStay
<1>2. t \in S /\ t \notin R
  <2>1. R \subseteq 1 .. r
    BY DEF Siblings
  <2>2. t \in 1 .. s /\ OneRun(b, t, s)
    BY DEF OneRun
  <2>3. \A u \in t + 1 .. s : ListNumbered(b, u) => ListLevel(b, u) >= m
    BY DEF NoLevelBelow
  <2>4. QED
    BY <2>1, <2>2, <2>3 DEF Siblings
<1>3. /\ IsFiniteSet(R) /\ Cardinality(R) \in Nat
      /\ IsFiniteSet(S) /\ Cardinality(S) \in Nat
  <2>1. r \in Nat
    OBVIOUS
  <2>2. IsFiniteSet(R) /\ Cardinality(R) \in Nat
    BY <2>1, SiblingsFinite
  <2>3. IsFiniteSet(S) /\ Cardinality(S) \in Nat
    BY SiblingsFinite
  <2>4. QED
    BY <2>2, <2>3
<1> HIDE DEF R, S
<1>4. Cardinality(R) <= Cardinality(S) /\ (Cardinality(S) = Cardinality(R) => S = R)
  BY <1>1, <1>3, FS_Subset
<1>5. Cardinality(R) < Cardinality(S)
  BY <1>2, <1>3, <1>4
<1>6. QED
  BY <1>5 DEF R, S

\* Two labels that agree above level k.
LEMMA SamePath ==
  ASSUME NEW p \in Seq(Nat), NEW q \in Seq(Nat), NEW k \in Nat \ {0},
         k - 1 <= Len(p), k - 1 <= Len(q),
         \A i \in 1 .. k - 1 : p[i] = q[i]
  PROVE  SubSeq(p, 1, k - 1) = SubSeq(q, 1, k - 1)
<1>1. Len(p) \in Nat /\ Len(q) \in Nat
      /\ (\A i \in 1 .. Len(p) : p[i] \in Nat) /\ \A i \in 1 .. Len(q) : q[i] \in Nat
  BY LenProperties, ElementOfSeq
<1>2. (\A i \in 1 .. k - 1 : p[i] \in Nat) /\ (\A i \in 1 .. k - 1 : q[i] \in Nat)
  BY <1>1
<1> DEFINE x == SubSeq(p, 1, k - 1)
           y == SubSeq(q, 1, k - 1)
<1>3. /\ x \in Seq(Nat) /\ Len(x) = IF 1 <= k - 1 THEN k - 1 - 1 + 1 ELSE 0
      /\ \A i \in 1 .. k - 1 - 1 + 1 : x[i] = p[1 + i - 1]
  BY <1>2, SubSeqProperties
<1>4. /\ y \in Seq(Nat) /\ Len(y) = IF 1 <= k - 1 THEN k - 1 - 1 + 1 ELSE 0
      /\ \A i \in 1 .. k - 1 - 1 + 1 : y[i] = q[1 + i - 1]
  BY <1>2, SubSeqProperties
<1> HIDE DEF x, y
<1>5. Len(x) = k - 1 /\ Len(y) = k - 1
  BY <1>3, <1>4
<1>6. \A i \in 1 .. k - 1 : x[i] = p[i] /\ y[i] = q[i]
  BY <1>3, <1>4
<1>7. x = y
  BY <1>3, <1>4, <1>5, <1>6, SeqEqual
<1>8. QED
  BY <1>7 DEF x, y

LEMMA LaterIsGreater ==
  ASSUME NEW b, Listed(b), NEW s \in Nat, NEW r \in 1 .. s - 1,
         ListNumbered(b, r), HasParents(b, r), ListNumbered(b, s),
         OneRun(b, r, s)
  PROVE  Precedes(LabelFrom(b, r, Tally(b, r)), LabelFrom(b, s, Tally(b, s)))
<1> DEFINE p == LabelFrom(b, r, Tally(b, r))
           q == LabelFrom(b, s, Tally(b, s))
           above == ListLevel(b, r)
           level == ListLevel(b, s)
           Items == {t \in r + 1 .. s : ListNumbered(b, t)}
           M == {ListLevel(b, t) : t \in Items}
<1>1. r \in Nat /\ r \in 1 .. s /\ s \in r + 1 .. s
  OBVIOUS
<1>2. PICK m \in M : \A y \in M : m <= y
  <2>1. s \in Items
    BY <1>1
  <2>2. ListLevel(b, s) \in M
    BY <2>1
  <2>3. M \subseteq Nat
    BY DEF Listed
  <2> HIDE DEF M
  <2>4. QED
    BY <2>2, <2>3, Least
<1>3. PICK t \in Items : m = ListLevel(b, t)
  BY <1>2
<1>4. m \in Nat /\ m <= level
  <2>1. level \in M
    BY <1>1
  <2>2. QED
    BY <1>2, <1>3, <2>1 DEF Listed
<1>5. NoLevelBelow(b, r, s, m)
  <2>1. \A u \in r + 1 .. s : ListNumbered(b, u) => ListLevel(b, u) \in M
    OBVIOUS
  <2>2. \A u \in r + 1 .. s : ListLevel(b, u) \in Nat
    BY DEF Listed
  <2> HIDE DEF M
  <2>3. QED
    BY <1>2, <1>4, <2>1, <2>2 DEF NoLevelBelow
<1>6. t \in r + 1 .. s /\ ListNumbered(b, t) /\ ListLevel(b, t) = m
  BY <1>3
<1> HIDE DEF Items, M
<1>7. /\ above \in 0 .. kMaxListLevel /\ level \in 0 .. kMaxListLevel
      /\ kMaxListLevel = 6
  BY <1>1 DEF Listed, kMaxListLevel
<1>8. /\ p = [k \in 1 .. above |-> IF Tally(b, r)[k] > 0 THEN Tally(b, r)[k] ELSE 1]
      /\ p \in Seq(Nat) /\ Len(p) = above /\ DOMAIN p = 1 .. above
  BY <1>1, LabelFacts
<1>9. /\ q = [k \in 1 .. level |-> IF Tally(b, s)[k] > 0 THEN Tally(b, s)[k] ELSE 1]
      /\ q \in Seq(Nat) /\ Len(q) = level /\ DOMAIN q = 1 .. level
  BY <1>1, LabelFacts
<1> HIDE DEF p, q
<1>10. \A k \in 1 .. kMaxListLevel :
         /\ Tally(b, r)[k] = Cardinality(Siblings(b, r, k)) /\ Tally(b, r)[k] \in Nat
         /\ Tally(b, s)[k] = Cardinality(Siblings(b, s, k)) /\ Tally(b, s)[k] \in Nat
  BY <1>1, TallyFacts
<1>11. ASSUME NEW k \in 1 .. above, k < m
       PROVE  k \in 1 .. level /\ p[k] = q[k]
  <2>1. k \in Nat /\ k <= m /\ k \in 1 .. level /\ k \in 1 .. kMaxListLevel
    BY <1>4, <1>7, <1>11
  <2>2. Siblings(b, s, k) = Siblings(b, r, k)
    BY <1>1, <1>4, <1>5, <1>11, <2>1, SiblingsStay
  <2>3. Tally(b, r)[k] = Tally(b, s)[k]
    BY <1>10, <2>1, <2>2
  <2>4. QED
    BY <1>8, <1>9, <1>11, <2>1, <2>3
<1>12. CASE above < m
  <2> DEFINE k == above + 1
  <2>1. k \in 1 .. level /\ k \in Nat \ {0} /\ k - 1 = above /\ k \notin 1 .. above
    BY <1>4, <1>7, <1>12
  <2>2. \A i \in 1 .. k - 1 : p[i] = q[i]
    BY <1>4, <1>7, <1>11, <1>12, <2>1
  <2> HIDE DEF k
  <2>3. k - 1 <= Len(p) /\ k - 1 <= Len(q)
    <3>1. above \in Nat /\ level \in Nat
      BY <1>7
    <3>2. Len(p) = above /\ Len(q) = level
      BY <1>8, <1>9
    <3> HIDE DEF above, level
    <3>3. k - 1 <= above /\ k - 1 <= level
      BY <2>1, <3>1
    <3>4. QED
      BY <3>2, <3>3
  <2>4. SubSeq(p, 1, k - 1) = SubSeq(q, 1, k - 1)
    <3>1. p \in Seq(Nat) /\ q \in Seq(Nat) /\ k \in Nat \ {0}
      BY <1>8, <1>9, <2>1
    <3>2. QED
      BY <2>2, <2>3, <3>1, SamePath
  <2>5. Precedes(p, q)
    BY <1>8, <1>9, <2>1, <2>4 DEF Precedes
  <2>6. QED
    BY <2>5 DEF p, q
<1>13. CASE m <= above
  <2>1. m # 0
    <3>1. ListLevel(b, t) > 0
      BY <1>6 DEF OneRun
    <3>2. QED
      BY <1>4, <1>6, <3>1
  <2>2. m \in 1 .. above /\ m \in 1 .. level /\ m \in 1 .. kMaxListLevel /\ m \in Nat \ {0}
    BY <1>4, <1>7, <1>13, <2>1
  <2>3. Siblings(b, r, m) # {}
    <3>1. CASE m = above
      <4>1. ListLevel(b, r) > 0
        BY <1>7, <2>2
      <4>2. r \in Siblings(b, r, m)
        <5>1. r .. r = {r} /\ r + 1 .. r = {} /\ r \in 1 .. r
          BY <1>1
        <5>2. QED
          BY <3>1, <4>1, <5>1 DEF Siblings, OneRun
      <4>3. QED
        BY <4>2
    <3>2. CASE m # above
      <4>1. m \in 1 .. ListLevel(b, r) - 1
        BY <1>7, <2>2, <3>2
      <4>2. QED
        BY <4>1 DEF HasParents
    <3>3. QED
      BY <3>1, <3>2
  <2>4. Cardinality(Siblings(b, r, m)) > 0
    <3>1. IsFiniteSet(Siblings(b, r, m)) /\ Cardinality(Siblings(b, r, m)) \in Nat
      BY <1>1, <2>2, SiblingsFinite
    <3>2. QED
      BY <2>3, <3>1, FS_EmptySet
  <2>5. Cardinality(Siblings(b, r, m)) < Cardinality(Siblings(b, s, m))
    BY <1>1, <1>4, <1>5, <1>6, ItemMore
  <2>6. p[m] < q[m]
    <3>1. /\ Tally(b, r)[m] > 0 /\ Tally(b, r)[m] < Tally(b, s)[m]
          /\ Tally(b, r)[m] \in Nat /\ Tally(b, s)[m] \in Nat
      BY <1>10, <2>2, <2>4, <2>5
    <3>2. p[m] = Tally(b, r)[m] /\ q[m] = Tally(b, s)[m]
      BY <1>8, <1>9, <2>2, <3>1
    <3>3. QED
      BY <3>1, <3>2
  <2>7. \A i \in 1 .. m - 1 : p[i] = q[i]
    BY <1>7, <1>11, <2>2
  <2>8. SubSeq(p, 1, m - 1) = SubSeq(q, 1, m - 1)
    <3>1. above \in Nat /\ level \in Nat
      BY <1>7
    <3>2. Len(p) = above /\ Len(q) = level
      BY <1>8, <1>9
    <3> HIDE DEF above, level
    <3>3. m - 1 <= above /\ m - 1 <= level
      BY <2>2, <3>1
    <3>4. m - 1 <= Len(p) /\ m - 1 <= Len(q)
      BY <3>2, <3>3
    <3>5. p \in Seq(Nat) /\ q \in Seq(Nat) /\ m \in Nat \ {0}
      BY <1>8, <1>9, <2>2
    <3>6. QED
      BY <2>7, <3>4, <3>5, SamePath
  <2>9. Precedes(p, q)
    BY <1>9, <2>2, <2>6, <2>8 DEF Precedes
  <2>10. QED
    BY <2>9 DEF p, q
<1>14. QED
  BY <1>4, <1>7, <1>12, <1>13

-----------------------------------------------------------------------------
(***************************************************************************)
(* A document built up is a buffer edited: sound, and its lists as deep as *)
(* the levels that can be set.                                             *)
(***************************************************************************)
BuiltInv == Sound(buffer) /\ Bytes(buffer)

LEMMA BuildIsEdit ==
  ASSUME Sound(buffer), Build
  PROVE  Next
<1>1. Rows = 1 .. Len(buffer.lines) /\ Len(buffer.lines) \in Nat \ {0}
  BY SoundFacts DEF Rows
<1>2. ASSUME NEW row \in Rows
      PROVE  Len(buffer.lines[row]) \in Columns(row)
  <2>1. Covers(buffer.lines, buffer.formats) /\ row \in 1 .. Len(buffer.lines)
    BY <1>1, SoundFacts
  <2>2. Len(buffer.lines[row]) \in Nat
    BY <2>1, RowFacts
  <2>3. QED
    BY <2>2 DEF Columns
<1>3. Len(buffer.lines) \in Rows
  BY <1>1
<1>4. CASE Break(Len(buffer.lines), Len(buffer.lines[Len(buffer.lines)]))
  BY <1>2, <1>3, <1>4 DEF Next
<1>5. CASE \E row \in Rows : Type(row, Len(buffer.lines[row]))
  BY <1>2, <1>5 DEF Next
<1>6. CASE \E row \in Rows : FormatParagraph(row) \/ AddFloat(row)
  BY <1>6 DEF Next
<1>7. QED
  BY <1>4, <1>5, <1>6 DEF Build

LEMMA BuiltSound == BuildSpec => []BuiltInv
<1>1. Init => BuiltInv
  BY InitSound, InitMapped DEF BuiltInv
<1>2. BuiltInv /\ [Build]_buffer => BuiltInv'
  <2>1. SUFFICES ASSUME BuiltInv, [Build]_buffer
                 PROVE  BuiltInv'
    OBVIOUS
  <2>2. [Next]_buffer /\ Sound(buffer) /\ Bytes(buffer)
    BY <2>1, BuildIsEdit DEF BuiltInv
  <2>3. Sound(buffer') /\ Bytes(buffer')
    BY <2>2, StepSound, StepBytes
  <2>4. QED
    BY <2>3 DEF BuiltInv
<1>3. QED
  BY <1>1, <1>2, PTL DEF BuildSpec

(***************************************************************************)
(* The levels that Tab and an opened file can give a paragraph             *)
(* (Application.cpp:670, RtfReader.cpp:428).                               *)
(***************************************************************************)
LevelsCounted == Levels \subseteq 0 .. kMaxListLevel

LEMMA BuiltListed ==
  ASSUME BuiltInv, LevelsCounted
  PROVE  Listed(buffer)
<1> SUFFICES ASSUME NEW r \in Nat
             PROVE  ListLevel(buffer, r) \in 0 .. kMaxListLevel
  BY DEF Listed
<1>1. kMaxListLevel = 6 /\ NumberedFlag = 64
  BY DEF kMaxListLevel, NumberedFlag
<1>2. CASE r \in DOMAIN buffer.listLevel
  <2>1. buffer.listLevel \in Seq(ListBytes)
    BY DEF BuiltInv, Bytes
  <2>2. buffer.listLevel[r] \in ListBytes
    BY <1>2, <2>1, LenProperties, ElementOfSeq
  <2> DEFINE v == buffer.listLevel[r]
  <2>3. ListLevel(buffer, r) = v % NumberedFlag
    BY <1>2 DEF ListLevel, RowValue
  <2> HIDE DEF v
  <2>4. v \in ListBytes
    BY <2>2 DEF v
  <2>5. CASE v = 0
    BY <1>1, <2>3, <2>5
  <2>6. CASE v # 0
    <3>1. \E level \in Levels \ {0}, flag \in {0, NumberedFlag} :
            v = level + flag /\ level \in 1 .. 63 /\ v % NumberedFlag = level
      BY <2>4, <2>6, ByteParts
    <3>2. QED
      BY <1>1, <2>3, <3>1 DEF LevelsCounted
  <2>7. QED
    BY <2>5, <2>6
<1>3. CASE r \notin DOMAIN buffer.listLevel
  BY <1>1, <1>3 DEF ListLevel, RowValue
<1>4. QED
  BY <1>2, <1>3

\* The invariant says all of a document that its numbers depend on.
LEMMA BuiltFacts ==
  ASSUME BuiltInv, LevelsCounted
  PROVE  /\ Listed(buffer) /\ Len(buffer.lines) \in Nat
         /\ DOMAIN buffer.lines = 1 .. Len(buffer.lines)
         /\ Rows = DOMAIN buffer.lines
BY BuiltListed, SoundFacts DEF BuiltInv, Rows

(***************************************************************************)
(* NumbersCountSiblings: every ordinal that a list shows is the count a    *)
(* reader comes to, for every document with lists as deep as the keys and  *)
(* the files can make them.                                                *)
(***************************************************************************)
THEOREM CountedAsRead ==
  ASSUME LevelsCounted
  PROVE  BuildSpec => []NumbersCountSiblings
<1>1. BuiltInv => NumbersCountSiblings
  BY BuiltFacts, CountsSiblings DEF NumbersCountSiblings
<1>2. QED
  BY <1>1, BuiltSound, PTL

(***************************************************************************)
(* NumbersIncrease: in one list no later item shows the number of an item  *)
(* that has its parents, nor a lower one.                                  *)
(***************************************************************************)
THEOREM NumbersGrow ==
  ASSUME LevelsCounted
  PROVE  BuildSpec => []NumbersIncrease
<1>1. ASSUME BuiltInv, NEW s \in Rows, NEW r \in 1 .. s - 1,
             ListNumbered(buffer, r), HasParents(buffer, r),
             ListNumbered(buffer, s), OneRun(buffer, r, s)
      PROVE  Precedes(ComputeNumberedLabels(buffer)[r],
                      ComputeNumberedLabels(buffer)[s])
  <2>1. /\ Listed(buffer) /\ Len(buffer.lines) \in Nat
        /\ DOMAIN buffer.lines = 1 .. Len(buffer.lines)
        /\ Rows = DOMAIN buffer.lines
    BY <1>1, BuiltFacts
  <2>2. /\ s \in Nat /\ s \in DOMAIN buffer.lines /\ s \in 0 .. Len(buffer.lines)
        /\ r \in DOMAIN buffer.lines /\ r \in 0 .. Len(buffer.lines)
    BY <1>1, <2>1
  <2>3. ComputeNumberedLabels(buffer)[r] = LabelFrom(buffer, r, Tally(buffer, r))
    BY <2>1, <2>2, LabelsTally
  <2>4. ComputeNumberedLabels(buffer)[s] = LabelFrom(buffer, s, Tally(buffer, s))
    BY <2>1, <2>2, LabelsTally
  <2>5. Precedes(LabelFrom(buffer, r, Tally(buffer, r)),
                 LabelFrom(buffer, s, Tally(buffer, s)))
    BY <1>1, <2>1, <2>2, LaterIsGreater
  <2>6. QED
    BY <2>3, <2>4, <2>5
<1>2. BuiltInv => NumbersIncrease
  BY <1>1 DEF NumbersIncrease
<1>3. QED
  BY <1>2, BuiltSound, PTL

-----------------------------------------------------------------------------
(***************************************************************************)
(* A document saved and opened.  The reader runs over words: from one      *)
(* state, by way of the words, it comes to another.                        *)
(***************************************************************************)
Steps(st, p, ws, q) ==
  /\ st[0] = p /\ st[Len(ws)] = q
  /\ \A i \in 1 .. Len(ws) : st[i] = HandleControlWord(st[i - 1], ws[i])

Listing(ws) == \E W : ws \in Seq(W)

Runs(p, ws, q) == Listing(ws) /\ \E st : Steps(st, p, ws, q)

\* Words counted from one.
LEMMA ListingFacts ==
  ASSUME NEW ws, Listing(ws)
  PROVE  Len(ws) \in Nat /\ DOMAIN ws = 1 .. Len(ws)
BY LenProperties DEF Listing

\* Words after words, each at its place.
LEMMA ListingJoin ==
  ASSUME NEW s, NEW t, Listing(s), Listing(t)
  PROVE  /\ Listing(s \o t) /\ Len(s \o t) = Len(s) + Len(t)
         /\ \A i \in 1 .. Len(s) + Len(t) :
              (s \o t)[i] = IF i <= Len(s) THEN s[i] ELSE t[i - Len(s)]
<1>1. PICK S : s \in Seq(S)
  BY DEF Listing
<1>2. PICK T : t \in Seq(T)
  BY DEF Listing
<1> DEFINE W == S \cup T
<1>3. s \in Seq(W)
  <2>1. /\ Len(s) \in Nat /\ s \in [1 .. Len(s) -> S]
    BY <1>1, LenProperties
  <2>2. s \in [1 .. Len(s) -> W]
    BY <2>1
  <2> HIDE DEF W
  <2>3. QED
    BY <2>1, <2>2, SeqDef
<1>4. t \in Seq(W)
  <2>1. /\ Len(t) \in Nat /\ t \in [1 .. Len(t) -> T]
    BY <1>2, LenProperties
  <2>2. t \in [1 .. Len(t) -> W]
    BY <2>1
  <2> HIDE DEF W
  <2>3. QED
    BY <2>1, <2>2, SeqDef
<1> HIDE DEF W
<1>5. /\ s \o t \in Seq(W) /\ Len(s \o t) = Len(s) + Len(t)
      /\ \A i \in 1 .. Len(s) + Len(t) :
           (s \o t)[i] = IF i <= Len(s) THEN s[i] ELSE t[i - Len(s)]
  BY <1>3, <1>4, ConcatProperties
<1>6. QED
  BY <1>5 DEF Listing

\* No words leave the reader where it is.
LEMMA RunsNone ==
  ASSUME NEW p
  PROVE  Runs(p, << >>, p)
<1> DEFINE st == [i \in 0 .. 0 |-> p]
<1>1. << >> \in Seq({}) /\ Len(<< >>) = 0
  OBVIOUS
<1>2. Steps(st, p, << >>, p)
  BY <1>1 DEF Steps
<1>3. QED
  BY <1>1, <1>2 DEF Runs, Listing

\* One word is one step of HandleControlWord.
LEMMA RunsOne ==
  ASSUME NEW p, NEW w
  PROVE  Runs(p, <<w>>, HandleControlWord(p, w))
<1> DEFINE q == HandleControlWord(p, w)
<1> HIDE DEF q
<1> DEFINE st == [i \in 0 .. 1 |-> IF i = 0 THEN p ELSE q]
<1>1. <<w>> \in Seq({w}) /\ Len(<<w>>) = 1 /\ <<w>>[1] = w
  OBVIOUS
<1>2. st[0] = p /\ st[1] = q
  OBVIOUS
<1>3. Steps(st, p, <<w>>, q)
  BY <1>1, <1>2 DEF Steps, q
<1>4. QED
  BY <1>1, <1>3 DEF Runs, Listing, q

\* What is read in two parts is read in one.
LEMMA RunsJoin ==
  ASSUME NEW p, NEW q, NEW r, NEW s, NEW t, Runs(p, s, q), Runs(q, t, r)
  PROVE  Runs(p, s \o t, r)
<1>1. PICK st : Steps(st, p, s, q)
  BY DEF Runs
<1>2. PICK su : Steps(su, q, t, r)
  BY DEF Runs
<1>3. Listing(s) /\ Listing(t)
  BY DEF Runs
<1> DEFINE m == Len(s)
           n == Len(t)
           ws == s \o t
           sv == [i \in 0 .. m + n |-> IF i <= m THEN st[i] ELSE su[i - m]]
<1>4. m \in Nat /\ n \in Nat
  BY <1>3, ListingFacts
<1>5. /\ Listing(ws) /\ Len(ws) = m + n
      /\ \A i \in 1 .. m + n : ws[i] = IF i <= m THEN s[i] ELSE t[i - m]
  BY <1>3, ListingJoin
<1>6. /\ st[0] = p /\ st[m] = q
      /\ \A i \in 1 .. m : st[i] = HandleControlWord(st[i - 1], s[i])
  BY <1>1 DEF Steps
<1>7. /\ su[0] = q /\ su[n] = r
      /\ \A i \in 1 .. n : su[i] = HandleControlWord(su[i - 1], t[i])
  BY <1>2 DEF Steps
<1> HIDE DEF m, n, ws
<1>8. \A i \in 0 .. m + n : sv[i] = IF i <= m THEN st[i] ELSE su[i - m]
  OBVIOUS
<1> HIDE DEF sv
<1>9. sv[0] = p
  <2>1. 0 \in 0 .. m + n /\ 0 <= m
    BY <1>4
  <2>2. QED
    BY <1>6, <1>8, <2>1
<1>13. sv[m + n] = r
  <2>1. m + n \in 0 .. m + n
    BY <1>4
  <2>2. CASE n = 0
    <3>1. m + n <= m /\ m + n = m /\ q = r
      BY <1>4, <1>7, <2>2
    <3>2. sv[m + n] = st[m + n]
      BY <1>8, <2>1, <3>1
    <3>3. st[m + n] = st[m] /\ st[m] = q
      BY <1>6, <3>1, Zenon
    <3>4. QED
      BY <3>1, <3>2, <3>3
  <2>3. CASE n # 0
    <3>1. ~(m + n <= m) /\ m + n - m = n
      BY <1>4, <2>3
    <3>2. sv[m + n] = su[(m + n) - m]
      BY <1>8, <2>1, <3>1
    <3>3. (m + n) - m = n
      BY <1>4
    <3>4. su[n] = r
      BY <1>7
    <3>5. QED
      BY <3>2, <3>3, <3>4
  <2>4. QED
    BY <2>2, <2>3
<1>10. ASSUME NEW i \in 1 .. m + n
       PROVE  sv[i] = HandleControlWord(sv[i - 1], ws[i])
  <2>1. i \in 0 .. m + n /\ i - 1 \in 0 .. m + n /\ i \in Nat
    BY <1>4
  <2>2. CASE i <= m
    <3>1. i \in 1 .. m /\ i - 1 <= m
      BY <1>4, <2>1, <2>2
    <3>2. sv[i] = st[i] /\ sv[i - 1] = st[i - 1] /\ ws[i] = s[i]
      BY <1>5, <1>8, <2>1, <2>2, <3>1
    <3>3. QED
      BY <1>6, <3>1, <3>2
  <2>3. CASE ~(i <= m)
    <3>1. i - m \in 1 .. n /\ (i - m) - 1 = (i - 1) - m
      BY <1>4, <2>1, <2>3
    <3>2. sv[i] = su[i - m] /\ ws[i] = t[i - m]
      BY <1>5, <1>8, <2>1, <2>3
    <3>3. sv[i - 1] = su[(i - m) - 1]
      <4>1. CASE i - 1 <= m
        <5>1. i - 1 = m /\ (i - m) - 1 = 0
          BY <1>4, <2>1, <2>3, <4>1
        <5>2. QED
          BY <1>6, <1>7, <1>8, <2>1, <4>1, <5>1
      <4>2. CASE ~(i - 1 <= m)
        BY <1>8, <2>1, <3>1, <4>2
      <4>3. QED
        BY <4>1, <4>2
    <3>4. su[i - m] = HandleControlWord(su[(i - m) - 1], t[i - m])
      BY <1>7, <3>1
    <3>5. QED
      BY <3>2, <3>3, <3>4
  <2>4. QED
    BY <2>2, <2>3
<1>11. Steps(sv, p, ws, r)
  BY <1>5, <1>9, <1>10, <1>13 DEF Steps
<1>12. QED
  BY <1>5, <1>11 DEF Runs, ws

\* The reader, which starts from Parser, is where it runs to.
LEMMA RunIsRun ==
  ASSUME NEW ws, NEW q, Runs(Parser, ws, q)
  PROVE  Run(ws) = q
<1> DEFINE n == Len(ws)
           after[i \in 0 .. n] ==
             IF i = 0 THEN Parser ELSE HandleControlWord(after[i - 1], ws[i])
<1>1. PICK st : Steps(st, Parser, ws, q)
  BY DEF Runs
<1>2. n \in Nat
  BY ListingFacts DEF Runs
<1>3. /\ st[0] = Parser /\ st[n] = q
      /\ \A i \in 1 .. n : st[i] = HandleControlWord(st[i - 1], ws[i])
  BY <1>1 DEF Steps
<1> HIDE DEF n
<1> DEFINE g == [i \in 0 .. n |-> st[i]]
<1>4. g = [i \in 0 .. n |->
             IF i = 0 THEN Parser ELSE HandleControlWord(g[i - 1], ws[i])]
  <2>1. ASSUME NEW i \in 0 .. n
        PROVE  st[i] = IF i = 0 THEN Parser ELSE HandleControlWord(g[i - 1], ws[i])
    <3>1. CASE i = 0
      BY <1>3, <3>1
    <3>2. CASE i # 0
      <4>1. i \in 1 .. n /\ i - 1 \in 0 .. n
        BY <1>2, <3>2
      <4>2. g[i - 1] = st[i - 1]
        BY <4>1
      <4>3. QED
        BY <1>3, <3>2, <4>1, <4>2
    <3>3. QED
      BY <3>1, <3>2
  <2>2. QED
    BY <2>1
<1>5. after = [i \in 0 .. n |->
                 IF i = 0 THEN Parser ELSE HandleControlWord(after[i - 1], ws[i])]
  <2> HIDE DEF g
  <2>1. QED
    BY <1>4
<1> HIDE DEF after
<1>6. \A i \in 0 .. n : after[i] = IF i = 0 THEN Parser
                                   ELSE HandleControlWord(after[i - 1], ws[i])
  BY <1>5
<1> DEFINE T == {k \in Nat : k <= n => after[k] = st[k]}
<1>7. 0 \in T
  BY <1>2, <1>3, <1>6
<1>8. \A k \in Nat : k \in T => k + 1 \in T
  <2> SUFFICES ASSUME NEW k \in Nat, k \in T, k + 1 <= n
               PROVE  after[k + 1] = st[k + 1]
    OBVIOUS
  <2>1. after[k] = st[k]
    BY <1>2
  <2>2. k + 1 \in 1 .. n /\ k + 1 \in 0 .. n /\ k + 1 # 0 /\ (k + 1) - 1 = k
    BY <1>2
  <2>3. /\ after[k + 1] = HandleControlWord(after[k], ws[k + 1])
        /\ st[k + 1] = HandleControlWord(st[k], ws[k + 1])
    BY <1>3, <1>6, <2>2
  <2>4. QED
    BY <2>1, <2>3
<1>9. Nat \subseteq T
  <2> HIDE DEF T
  <2>1. QED
    BY <1>7, <1>8, InductiveSet
<1>10. after[n] = q
  BY <1>2, <1>3, <1>9
<1>11. QED
  BY <1>10 DEF Run, after, n

-----------------------------------------------------------------------------
(***************************************************************************)
(* Words that come in parts: the reader goes from one state to the next    *)
(* over each part.                                                         *)
(***************************************************************************)
Joins(ss, n, g) ==
  \A i \in 1 .. n : g[i] = IF i = 1 THEN ss[i] ELSE g[i - 1] \o ss[i]

\* The parts can be joined one after the other.
LEMMA JoinsExist ==
  ASSUME NEW ss, NEW n \in Nat
  PROVE  \E g : Joins(ss, n, g)
<1> DEFINE T == {k \in Nat : \E g : Joins(ss, k, g)}
<1>1. 0 \in T
  <2>1. Joins(ss, 0, << >>)
    BY DEF Joins
  <2>2. QED
    BY <2>1
<1>2. ASSUME NEW k \in Nat, k \in T
      PROVE  k + 1 \in T
  <2>1. PICK g : Joins(ss, k, g)
    BY <1>2
  <2> DEFINE x == IF k + 1 = 1 THEN ss[k + 1] ELSE g[k] \o ss[k + 1]
  <2> HIDE DEF x
  <2> DEFINE h == [i \in 1 .. k + 1 |-> IF i = k + 1 THEN x ELSE g[i]]
  <2>2. /\ \A i \in 1 .. k : h[i] = g[i]
        /\ h[k + 1] = x
    OBVIOUS
  <2> HIDE DEF h
  <2>3. ASSUME NEW i \in 1 .. k + 1
        PROVE  h[i] = IF i = 1 THEN ss[i] ELSE h[i - 1] \o ss[i]
    <3>1. CASE i = k + 1
      <4>1. CASE k = 0
        BY <2>2, <3>1, <4>1 DEF x
      <4>2. CASE k # 0
        <5>1. i # 1 /\ i - 1 = k /\ k \in 1 .. k
          BY <3>1, <4>2
        <5>2. h[i - 1] = g[k]
          BY <2>2, <5>1
        <5>3. x = g[k] \o ss[k + 1]
          <6>1. k + 1 # 1
            BY <4>2
          <6>2. QED
            BY <6>1 DEF x
        <5>4. QED
          BY <2>2, <3>1, <5>1, <5>2, <5>3
      <4>3. QED
        BY <4>1, <4>2
    <3>2. CASE i # k + 1
      <4>1. i \in 1 .. k
        BY <3>2
      <4>2. g[i] = IF i = 1 THEN ss[i] ELSE g[i - 1] \o ss[i]
        BY <2>1, <4>1 DEF Joins
      <4>3. i # 1 => i - 1 \in 1 .. k
        BY <4>1
      <4>4. h[i] = g[i] /\ (i # 1 => h[i - 1] = g[i - 1])
        BY <2>2, <4>1, <4>3
      <4>5. QED
        BY <4>2, <4>4
    <3>3. QED
      BY <3>1, <3>2
  <2>4. Joins(ss, k + 1, h)
    BY <2>3 DEF Joins
  <2>5. QED
    BY <2>4
<1>3. Nat \subseteq T
  <2> HIDE DEF T
  <2>1. QED
    BY <1>1, <1>2, InductiveSet
<1>4. QED
  BY <1>3

\* FlattenSeq is the last of those joins.
LEMMA FlatIsJoin ==
  ASSUME NEW ss, Listing(ss), Len(ss) # 0
  PROVE  \E g : Joins(ss, Len(ss), g) /\ Seqs!FlattenSeq(ss) = g[Len(ss)]
<1> DEFINE n == Len(ss)
           flatten[i \in 1 .. n] == IF i = 1 THEN ss[i] ELSE flatten[i - 1] \o ss[i]
<1>1. n \in Nat \ {0}
  BY ListingFacts
<1>2. PICK g : Joins(ss, n, g)
  BY <1>1, JoinsExist
<1> HIDE DEF n
<1> DEFINE h == [i \in 1 .. n |-> g[i]]
<1>3. h = [i \in 1 .. n |-> IF i = 1 THEN ss[i] ELSE h[i - 1] \o ss[i]]
  <2>1. ASSUME NEW i \in 1 .. n
        PROVE  g[i] = IF i = 1 THEN ss[i] ELSE h[i - 1] \o ss[i]
    <3>1. g[i] = IF i = 1 THEN ss[i] ELSE g[i - 1] \o ss[i]
      BY <1>2 DEF Joins
    <3>2. i # 1 => h[i - 1] = g[i - 1]
      BY <1>1
    <3>3. QED
      BY <3>1, <3>2
  <2>2. QED
    BY <2>1
<1>4. flatten = [i \in 1 .. n |-> IF i = 1 THEN ss[i] ELSE flatten[i - 1] \o ss[i]]
  <2> HIDE DEF h
  <2>1. QED
    BY <1>3
<1>5. Seqs!FlattenSeq(ss) = flatten[n]
  BY DEF Seqs!FlattenSeq, n
<1> HIDE DEF flatten
<1>6. Joins(ss, n, flatten)
  BY <1>4 DEF Joins
<1>7. QED
  BY <1>5, <1>6 DEF n

\* A reader that gets from each state to the next over each part gets from
\* the first state to the last over all of them.
LEMMA RunsFlat ==
  ASSUME NEW ss, Listing(ss), NEW X,
         \A i \in 1 .. Len(ss) : Runs(X[i - 1], ss[i], X[i])
  PROVE  Runs(X[0], Seqs!FlattenSeq(ss), X[Len(ss)])
<1> DEFINE n == Len(ss)
<1>1. n \in Nat
  BY ListingFacts
<1>2. CASE n = 0
  <2>1. ss = << >>
    <3>1. PICK W : ss \in Seq(W)
      BY DEF Listing
    <3>2. QED
      BY <1>2, <3>1, EmptySeq
  <2>2. Seqs!FlattenSeq(ss) = << >>
    BY <1>2, <2>1 DEF Seqs!FlattenSeq
  <2>3. Runs(X[0], << >>, X[0])
    BY RunsNone
  <2>4. QED
    BY <1>2, <2>2, <2>3
<1>3. CASE n # 0
  <2>1. PICK g : Joins(ss, n, g) /\ Seqs!FlattenSeq(ss) = g[n]
    BY <1>3, FlatIsJoin
  <2> HIDE DEF n
  <2> DEFINE T == {k \in Nat : k + 1 <= n => Runs(X[0], g[k + 1], X[k + 1])}
  <2>2. 0 \in T
    <3>1. 1 \in 1 .. n
      BY <1>1, <1>3
    <3>2. g[1] = ss[1]
      BY <2>1, <3>1 DEF Joins
    <3>3. Runs(X[1 - 1], ss[1], X[1])
      BY <3>1 DEF n
    <3>4. QED
      BY <3>2, <3>3
  <2>3. ASSUME NEW k \in Nat, k \in T
        PROVE  k + 1 \in T
    <3>1. SUFFICES ASSUME (k + 1) + 1 <= n
                   PROVE  Runs(X[0], g[(k + 1) + 1], X[(k + 1) + 1])
      OBVIOUS
    <3> DEFINE j == k + 1
    <3>2. j \in Nat /\ j + 1 \in 1 .. n /\ j + 1 # 1 /\ (j + 1) - 1 = j
      BY <1>1, <3>1
    <3>3. Runs(X[0], g[j], X[j])
      BY <1>1, <2>3, <3>1
    <3> HIDE DEF j
    <3>4. g[j + 1] = g[j] \o ss[j + 1]
      BY <2>1, <3>2 DEF Joins
    <3>5. Runs(X[j], ss[j + 1], X[j + 1])
      BY <3>2 DEF n
    <3>6. Runs(X[0], g[j] \o ss[j + 1], X[j + 1])
      BY <3>3, <3>5, RunsJoin
    <3>7. QED
      BY <3>4, <3>6 DEF j
  <2>4. Nat \subseteq T
    <3> HIDE DEF T
    <3>1. QED
      BY <2>2, <2>3, InductiveSet
  <2>5. Runs(X[0], g[n], X[n])
    <3>1. n - 1 \in Nat /\ (n - 1) + 1 = n /\ (n - 1) + 1 <= n
      BY <1>1, <1>3
    <3>2. n - 1 \in T
      BY <2>4, <3>1
    <3> DEFINE j == n - 1
    <3>3. QED
      BY <3>1, <3>2
  <2>6. QED
    BY <2>1, <2>5 DEF n
<1>4. QED
  BY <1>2, <1>3
-----------------------------------------------------------------------------
(***************************************************************************)
(* What each word does to a reader, whose document is written out as its   *)
(* layers.                                                                 *)
(***************************************************************************)
Doc(ls, fs, pb, al, ll, an) ==
  [lines |-> ls, formats |-> fs, pageBreakBefore |-> pb, alignment |-> al,
   listLevel |-> ll, anchors |-> an]

Reader(out, f, a, l, n) ==
  [out |-> out, format |-> f, alignment |-> a, level |-> l, numbered |-> n]

Packed(l, n) == IF l = 0 THEN 0 ELSE l + (IF n THEN NumberedFlag ELSE 0)

\* The step that each word stands for.
LEMMA Handles ==
  ASSUME NEW p, NEW x
  PROVE  /\ HandleControlWord(p, Word("char", x)) = EmitByte(p, x)
         /\ HandleControlWord(p, Word("par", x)) = EmitNewline(p)
         /\ HandleControlWord(p, Word("page", x)) = EmitPage(p)
         /\ HandleControlWord(p, Word("align", x)) = SetAlign(p, x)
         /\ HandleControlWord(p, Word("ilvl", x))
              = SetList(p, Clamp(x + 1, 0, kMaxListLevel), p.numbered)
         /\ HandleControlWord(p, Word("pn", x)) = SetList(p, p.level, x)
         /\ HandleControlWord(p, Word("pard", x)) = SetList(SetAlign(p, "left"), 0, FALSE)
         /\ HandleControlWord(p, Word("shp", x)) = EmitShape(p)
<1>1. HandleControlWord(p, Word("char", x)) = EmitByte(p, x)
  BY DEF HandleControlWord, Word
<1>2. HandleControlWord(p, Word("par", x)) = EmitNewline(p)
  BY DEF HandleControlWord, Word
<1>3. HandleControlWord(p, Word("page", x)) = EmitPage(p)
  BY DEF HandleControlWord, Word
<1>4. HandleControlWord(p, Word("align", x)) = SetAlign(p, x)
  BY DEF HandleControlWord, Word
<1>5. HandleControlWord(p, Word("ilvl", x))
        = SetList(p, Clamp(x + 1, 0, kMaxListLevel), p.numbered)
  BY DEF HandleControlWord, Word
<1>6. HandleControlWord(p, Word("pn", x)) = SetList(p, p.level, x)
  BY DEF HandleControlWord, Word
<1>7. HandleControlWord(p, Word("pard", x)) = SetList(SetAlign(p, "left"), 0, FALSE)
  BY DEF HandleControlWord, Word
<1>8. HandleControlWord(p, Word("shp", x)) = EmitShape(p)
  BY DEF HandleControlWord, Word
<1>9. QED
  BY <1>1, <1>2, <1>3, <1>4, <1>5, <1>6, <1>7, <1>8

\* The layers of a document, by name.
LEMMA DocFields ==
  ASSUME NEW ls, NEW fs, NEW pb, NEW al, NEW ll, NEW an
  PROVE  LET d == Doc(ls, fs, pb, al, ll, an)
         IN  /\ d.lines = ls /\ d.formats = fs /\ d.pageBreakBefore = pb
             /\ d.alignment = al /\ d.listLevel = ll /\ d.anchors = an
BY DEF Doc

\* The parts of a reader, by name.
LEMMA ReaderFields ==
  ASSUME NEW out, NEW f, NEW a, NEW l, NEW n
  PROVE  LET p == Reader(out, f, a, l, n)
         IN  /\ p.out = out /\ p.format = f /\ p.alignment = a
             /\ p.level = l /\ p.numbered = n
BY DEF Reader

\* An alignment is set on the open row, and stays current.
LEMMA AlignReads ==
  ASSUME NEW ls, NEW fs, NEW pb, NEW al, NEW ll, NEW an,
         NEW f, NEW a, NEW l, NEW n, NEW x
  PROVE  SetAlign(Reader(Doc(ls, fs, pb, al, ll, an), f, a, l, n), x)
           = Reader(Doc(ls, fs, pb, [al EXCEPT ![Len(ls)] = x], ll, an), f, x, l, n)
<1> DEFINE d == Doc(ls, fs, pb, al, ll, an)
           k == Len(ls)
           p == Reader(d, f, a, l, n)
<1>1. d.lines = ls
  BY DocFields
<1>2. [d EXCEPT !.alignment[k] = x]
        = Doc(ls, fs, pb, [al EXCEPT ![k] = x], ll, an)
  BY DEF Doc
<1> HIDE DEF d, k
<1>3. p.out = d
  BY DEF Reader
<1>4. [p EXCEPT !.alignment = x] = Reader(d, f, x, l, n)
  BY DEF Reader
<1>5. [Reader(d, f, x, l, n) EXCEPT !.out.alignment[k] = x]
        = Reader([d EXCEPT !.alignment[k] = x], f, x, l, n)
  BY DEF Reader
<1> HIDE DEF p
<1>6. SetAlign(p, x) = [[p EXCEPT !.alignment = x] EXCEPT !.out.alignment[k] = x]
  BY <1>1, <1>3 DEF SetAlign, k
<1>7. QED
  BY <1>2, <1>4, <1>5, <1>6 DEF p, d, k

\* A list level and kind are packed into the byte of the open row.
LEMMA ListReads ==
  ASSUME NEW ls, NEW fs, NEW pb, NEW al, NEW ll, NEW an,
         NEW f, NEW a, NEW l, NEW n, NEW x, NEW y
  PROVE  SetList(Reader(Doc(ls, fs, pb, al, ll, an), f, a, l, n), x, y)
           = Reader(Doc(ls, fs, pb, al, [ll EXCEPT ![Len(ls)] = Packed(x, y)], an),
                    f, a, x, y)
<1> DEFINE d == Doc(ls, fs, pb, al, ll, an)
           k == Len(ls)
           v == Packed(x, y)
           p == Reader(d, f, a, l, n)
           q == Reader(d, f, a, x, y)
<1>1. d.lines = ls
  BY DocFields
<1>2. [d EXCEPT !.listLevel[k] = v]
        = Doc(ls, fs, pb, al, [ll EXCEPT ![k] = v], an)
  BY DEF Doc
<1> HIDE DEF d, k, v
<1>3. q.out = d
  BY DEF Reader
<1>4. [p EXCEPT !.level = x] = Reader(d, f, a, x, n)
  BY DEF Reader
<1>5. [Reader(d, f, a, x, n) EXCEPT !.numbered = y] = q
  BY DEF Reader
<1>6. [q EXCEPT !.out.listLevel[k] = v]
        = Reader([d EXCEPT !.listLevel[k] = v], f, a, x, y)
  BY DEF Reader
<1>7. PackedList(q) = v
  BY DEF PackedList, Packed, Reader, v
<1> HIDE DEF p
<1>8. [p EXCEPT !.level = x, !.numbered = y]
        = [[p EXCEPT !.level = x] EXCEPT !.numbered = y]
  OBVIOUS
<1> HIDE DEF q
<1>9. [p EXCEPT !.level = x, !.numbered = y] = q
  BY <1>4, <1>5, <1>8
<1>10. SetList(p, x, y) = [q EXCEPT !.out.listLevel[k] = v]
  BY <1>1, <1>3, <1>7, <1>9 DEF SetList, k
<1>11. QED
  BY <1>2, <1>6, <1>10 DEF p, d, k, v

AppendIn(s, k, x) == [s EXCEPT ![k] = Append(@, x)]

\* A character and its format go to the end of the open row.
LEMMA ByteReads ==
  ASSUME NEW ls, NEW fs, NEW pb, NEW al, NEW ll, NEW an,
         NEW f, NEW a, NEW l, NEW n, NEW x
  PROVE  EmitByte(Reader(Doc(ls, fs, pb, al, ll, an), f, a, l, n), x)
           = Reader(Doc(AppendIn(ls, Len(ls), x), AppendIn(fs, Len(ls), Resolve(f)),
                        pb, al, ll, an), f, a, l, n)
<1> DEFINE d == Doc(ls, fs, pb, al, ll, an)
           k == Len(ls)
           y == Resolve(f)
           c == Append(ls[k], x)
           g == Append(fs[k], y)
           p == Reader(d, f, a, l, n)
           e == Doc([ls EXCEPT ![k] = c], fs, pb, al, ll, an)
<1>1. d.lines = ls
  BY DocFields
<1> HIDE DEF c, g, y, k
<1>2. [d EXCEPT !.lines[k] = c] = e
  BY DEF Doc
<1>3. [e EXCEPT !.formats[k] = g]
        = Doc([ls EXCEPT ![k] = c], [fs EXCEPT ![k] = g], pb, al, ll, an)
  BY DEF Doc
<1>4. e.formats = fs /\ d.lines = ls
  BY DEF Doc
<1> HIDE DEF d, e
<1>5. p.out = d /\ p.format = f
  BY DEF Reader
<1>6. [p EXCEPT !.out.lines[k] = c] = Reader([d EXCEPT !.lines[k] = c], f, a, l, n)
  BY DEF Reader
<1>7. [Reader(e, f, a, l, n) EXCEPT !.out.formats[k] = g]
        = Reader([e EXCEPT !.formats[k] = g], f, a, l, n)
  BY DEF Reader
<1>8. Reader(e, f, a, l, n).out = e
  BY DEF Reader
<1> HIDE DEF p
<1>9. EmitByte(p, x) = [p EXCEPT !.out.lines[k] = Append(@, x),
                                 !.out.formats[k] = Append(@, y)]
  BY <1>1, <1>5 DEF EmitByte, k, y
<1> DEFINE p1 == [p EXCEPT !.out.lines[k] = Append(@, x)]
<1>10. [p EXCEPT !.out.lines[k] = Append(@, x), !.out.formats[k] = Append(@, y)]
         = [p1 EXCEPT !.out.formats[k] = Append(@, y)]
  OBVIOUS
<1>11. p1 = [p EXCEPT !.out.lines[k] = c]
  BY <1>1, <1>5 DEF c
<1>12. p1 = Reader(e, f, a, l, n)
  BY <1>2, <1>6, <1>11
<1> HIDE DEF p1
<1>13. [p1 EXCEPT !.out.formats[k] = Append(@, y)] = [p1 EXCEPT !.out.formats[k] = g]
  BY <1>4, <1>8, <1>12 DEF g
<1>14. QED
  BY <1>3, <1>7, <1>9, <1>10, <1>12, <1>13 DEF p, d, k, c, g, y, AppendIn

\* What a new row starts with.
NoText == << >>
NoBreak == FALSE
NewPage == TRUE

\* A new row takes the current alignment and list.
LEMMA NewlineReads ==
  ASSUME NEW ls, NEW fs, NEW pb, NEW al, NEW ll, NEW an,
         NEW f, NEW a, NEW l, NEW n
  PROVE  EmitNewline(Reader(Doc(ls, fs, pb, al, ll, an), f, a, l, n))
           = Reader(Doc(Append(ls, NoText), Append(fs, NoText), Append(pb, NoBreak),
                        Append(al, a), Append(ll, Packed(l, n)), an), f, a, l, n)
<1> DEFINE d == Doc(ls, fs, pb, al, ll, an)
           p == Reader(d, f, a, l, n)
           v == Packed(l, n)
           t == Doc(Append(ls, NoText), Append(fs, NoText), Append(pb, NoBreak),
                    Append(al, a), Append(ll, v), an)
<1>1. PackedList(p) = v
  BY DEF PackedList, Packed, Reader
<1> HIDE DEF v
<1>2. /\ d.lines = ls /\ d.formats = fs /\ d.pageBreakBefore = pb
      /\ d.alignment = al /\ d.listLevel = ll /\ d.anchors = an
  BY DocFields
<1> HIDE DEF d
<1>3. p.out = d /\ p.alignment = a
  BY ReaderFields
<1> HIDE DEF p
<1>4. t = [lines |-> Append(p.out.lines, << >>),
           formats |-> Append(p.out.formats, << >>),
           pageBreakBefore |-> Append(p.out.pageBreakBefore, FALSE),
           alignment |-> Append(p.out.alignment, p.alignment),
           listLevel |-> Append(p.out.listLevel, PackedList(p)),
           anchors |-> p.out.anchors]
  BY <1>1, <1>2, <1>3, Zenon DEF Doc, NoText, NoBreak
<1> HIDE DEF t
<1>5. EmitNewline(p) = [p EXCEPT !.out = t]
  BY <1>4, Zenon DEF EmitNewline
<1>6. [p EXCEPT !.out = t] = Reader(t, f, a, l, n)
  BY DEF Reader, p
<1>7. QED
  BY <1>5, <1>6, Zenon DEF p, d, v, t

\* A break is put on the open row when that is still empty.
LEMMA PageReads ==
  ASSUME NEW ls, NEW fs, NEW pb, NEW al, NEW ll, NEW an,
         NEW f, NEW a, NEW l, NEW n, ls[Len(ls)] = << >>
  PROVE  EmitPage(Reader(Doc(ls, fs, pb, al, ll, an), f, a, l, n))
           = Reader(Doc(ls, fs, [pb EXCEPT ![Len(ls)] = NewPage], al, ll, an), f, a, l, n)
<1> DEFINE d == Doc(ls, fs, pb, al, ll, an)
           k == Len(ls)
           y == NewPage
           pb1 == [pb EXCEPT ![k] = y]
           p == Reader(d, f, a, l, n)
<1>1. d.lines = ls /\ d.pageBreakBefore = pb
  BY DocFields
<1> HIDE DEF k, y
<1>2. [d EXCEPT !.pageBreakBefore[k] = y] = [d EXCEPT !.pageBreakBefore = pb1]
  BY <1>1
<1>3. [d EXCEPT !.pageBreakBefore = pb1] = Doc(ls, fs, pb1, al, ll, an)
  <2> HIDE DEF pb1
  <2>1. QED
    BY DEF Doc
<1> HIDE DEF d
<1>4. p.out = d
  BY ReaderFields
<1> HIDE DEF pb1
<1>5. [p EXCEPT !.out.pageBreakBefore[k] = y]
        = Reader([d EXCEPT !.pageBreakBefore[k] = y], f, a, l, n)
  BY DEF Reader
<1> HIDE DEF p
<1>6. EmitPage(p) = [p EXCEPT !.out.pageBreakBefore[k] = y]
  BY <1>1, <1>4 DEF EmitPage, k, y, NewPage
<1>7. QED
  BY <1>2, <1>3, <1>5, <1>6 DEF p, d, k, y, pb1

\* A float is anchored to the open row.
LEMMA ShapeReads ==
  ASSUME NEW ls, NEW fs, NEW pb, NEW al, NEW ll, NEW an,
         NEW f, NEW a, NEW l, NEW n
  PROVE  EmitShape(Reader(Doc(ls, fs, pb, al, ll, an), f, a, l, n))
           = Reader(Doc(ls, fs, pb, al, ll, Append(an, Len(ls))), f, a, l, n)
<1> DEFINE d == Doc(ls, fs, pb, al, ll, an)
           z == Append(an, Len(ls))
           p == Reader(d, f, a, l, n)
<1>1. d.lines = ls /\ d.anchors = an
  BY DocFields
<1> HIDE DEF z
<1>2. [d EXCEPT !.anchors = z] = Doc(ls, fs, pb, al, ll, z)
  BY DEF Doc
<1> HIDE DEF d
<1>3. p.out = d
  BY ReaderFields
<1>4. [p EXCEPT !.out.anchors = z] = Reader([d EXCEPT !.anchors = z], f, a, l, n)
  BY DEF Reader
<1> HIDE DEF p
<1>5. EmitShape(p) = [p EXCEPT !.out.anchors = z]
  BY <1>1, <1>3 DEF EmitShape, z
<1>6. QED
  BY <1>2, <1>4, <1>5 DEF p, d, z

FieldSet(f, y, x) == [f EXCEPT ![y] = x]

\* A word of a format sets that field and nothing else.
LEMMA FormatReads ==
  ASSUME NEW out, NEW f, NEW a, NEW l, NEW n, NEW y \in FormatFields, NEW x
  PROVE  HandleControlWord(Reader(out, f, a, l, n), Word(y, x))
           = Reader(out, FieldSet(f, y, x), a, l, n)
<1> DEFINE p == Reader(out, f, a, l, n)
<1>1. [p EXCEPT !.format[y] = x] = Reader(out, [f EXCEPT ![y] = x], a, l, n)
  BY DEF Reader
<1> HIDE DEF p
<1>2. HandleControlWord(p, Word(y, x)) = [p EXCEPT !.format[y] = x]
  BY DEF HandleControlWord, Word, FormatFields
<1>3. QED
  BY <1>1, <1>2 DEF p, FieldSet

-----------------------------------------------------------------------------
(***************************************************************************)
(* Sequences given element by element.                                     *)
(***************************************************************************)
Rowed(s, k) == s = [i \in 1 .. k |-> s[i]]

\* Such a sequence has its length and its domain.
LEMMA RowedFacts ==
  ASSUME NEW s, NEW k \in Nat, Rowed(s, k)
  PROVE  /\ Len(s) = k /\ DOMAIN s = 1 .. k /\ Listing(s)
         /\ s \in Seq({s[i] : i \in 1 .. k})
<1> DEFINE S == {s[i] : i \in 1 .. k}
<1>1. DOMAIN s = 1 .. k
  BY DEF Rowed
<1>2. s \in [1 .. k -> S]
  BY DEF Rowed
<1> HIDE DEF S
<1>3. s \in Seq(S)
  BY <1>2, SeqDef
<1>4. Len(s) \in Nat /\ DOMAIN s = 1 .. Len(s)
  BY <1>3, LenProperties
<1>5. Len(s) = k
  BY <1>1, <1>4
<1>6. QED
  BY <1>1, <1>3, <1>5 DEF Listing, S

\* Two of them with the same elements are the same.
LEMMA RowedEqual ==
  ASSUME NEW s, NEW t, NEW k \in Nat, Rowed(s, k), Rowed(t, k),
         \A i \in 1 .. k : s[i] = t[i]
  PROVE  s = t
<1>1. [i \in 1 .. k |-> s[i]] = [i \in 1 .. k |-> t[i]]
  OBVIOUS
<1>2. QED
  BY <1>1 DEF Rowed

\* One with an element replaced.
LEMMA RowedSet ==
  ASSUME NEW s, NEW t, NEW k \in Nat, Rowed(s, k), Rowed(t, k),
         NEW j \in 1 .. k, NEW y, t[j] = y,
         \A i \in 1 .. k : i # j => s[i] = t[i]
  PROVE  [s EXCEPT ![j] = y] = t
<1> DEFINE e == [s EXCEPT ![j] = y]
<1>1. DOMAIN s = 1 .. k
  BY DEF Rowed
<1>2. Rowed(e, k)
  BY <1>1 DEF Rowed
<1>3. \A i \in 1 .. k : e[i] = t[i]
  BY <1>1
<1> HIDE DEF e
<1>4. e = t
  BY <1>2, <1>3, RowedEqual
<1>5. QED
  BY <1>4 DEF e

\* One with an element more.
LEMMA RowedAppend ==
  ASSUME NEW s, NEW t, NEW k \in Nat, Rowed(s, k), Rowed(t, k + 1),
         NEW x, t[k + 1] = x,
         \A i \in 1 .. k : s[i] = t[i]
  PROVE  Append(s, x) = t
<1> DEFINE S == {s[i] : i \in 1 .. k}
           W == S \cup {x}
           e == Append(s, x)
<1>1. s \in Seq(S) /\ Len(s) = k
  BY RowedFacts
<1>2. s \in Seq(W) /\ x \in W
  <2>1. s \in [1 .. k -> S]
    BY <1>1, LenProperties
  <2>2. s \in [1 .. k -> W]
    BY <2>1
  <2> HIDE DEF W
  <2>3. s \in Seq(W)
    BY <2>2, SeqDef
  <2>4. QED
    BY <2>3 DEF W
<1> HIDE DEF W
<1>3. /\ e \in Seq(W) /\ Len(e) = k + 1
      /\ \A i \in 1 .. k : e[i] = s[i]
      /\ e[k + 1] = x
  BY <1>1, <1>2, AppendProperties
<1> HIDE DEF e, S
<1>4. Rowed(e, k + 1)
  <2>1. e \in [1 .. k + 1 -> W]
    BY <1>3, LenProperties
  <2>2. QED
    BY <2>1 DEF Rowed
<1>5. \A i \in 1 .. k + 1 : e[i] = t[i]
  <2>1. \A i \in 1 .. k + 1 : i \in 1 .. k \/ i = k + 1
    OBVIOUS
  <2>2. QED
    BY <1>3, <2>1
<1>6. e = t
  BY <1>4, <1>5, RowedEqual
<1>7. QED
  BY <1>6 DEF e
-----------------------------------------------------------------------------
(***************************************************************************)
(* The characters that a row shows, and the floats down to a row, counted. *)
(***************************************************************************)
Shows(b, r, c) == Cardinality(ShownTo(b, r, c))

Floats(b, r) == Cardinality(FloatsTo(b, r))

\* No more characters are shown than there are columns.
LEMMA ShownFinite ==
  ASSUME NEW b, NEW r, NEW c \in Nat
  PROVE  /\ IsFiniteSet(ShownTo(b, r, c)) /\ ShownTo(b, r, c) \subseteq 1 .. c
         /\ Shows(b, r, c) \in Nat
<1>1. ShownTo(b, r, c) \subseteq 1 .. c
  BY DEF ShownTo
<1>2. IsFiniteSet(1 .. c)
  BY FS_Interval
<1>3. IsFiniteSet(ShownTo(b, r, c))
  BY <1>1, <1>2, FS_Subset
<1>4. QED
  BY <1>1, <1>3, FS_CardinalityType DEF Shows

\* Before the first column nothing is shown.
LEMMA ShownNone ==
  ASSUME NEW b, NEW r
  PROVE  Shows(b, r, 0) = 0
<1>1. ShownTo(b, r, 0) = {}
  BY DEF ShownTo
<1>2. QED
  BY <1>1, FS_EmptySet DEF Shows

\* A column adds one, or none when its character is a control character.
LEMMA ShownNext ==
  ASSUME NEW b, NEW r, NEW c \in Nat
  PROVE  Shows(b, r, c + 1) = Shows(b, r, c)
           + (IF b.lines[r][c + 1] \in ControlChars THEN 0 ELSE 1)
<1>1. IsFiniteSet(ShownTo(b, r, c)) /\ c + 1 \notin ShownTo(b, r, c)
      /\ Shows(b, r, c) \in Nat
  BY ShownFinite
<1>2. 1 .. c + 1 = (1 .. c) \cup {c + 1}
  OBVIOUS
<1>3. CASE b.lines[r][c + 1] \in ControlChars
  <2>1. ShownTo(b, r, c + 1) = ShownTo(b, r, c)
    BY <1>2, <1>3 DEF ShownTo
  <2>2. QED
    BY <1>1, <1>3, <2>1 DEF Shows
<1>4. CASE b.lines[r][c + 1] \notin ControlChars
  <2>1. ShownTo(b, r, c + 1) = ShownTo(b, r, c) \cup {c + 1}
    BY <1>2, <1>4 DEF ShownTo
  <2>2. Cardinality(ShownTo(b, r, c) \cup {c + 1}) = Cardinality(ShownTo(b, r, c)) + 1
    BY <1>1, FS_AddElement
  <2>3. QED
    BY <1>4, <2>1, <2>2 DEF Shows
<1>5. QED
  BY <1>3, <1>4

\* Further right no fewer are shown.
LEMMA ShownGrows ==
  ASSUME NEW b, NEW r, NEW c \in Nat, NEW d \in Nat, c <= d
  PROVE  Shows(b, r, c) <= Shows(b, r, d)
<1>1. ShownTo(b, r, c) \subseteq ShownTo(b, r, d)
  BY DEF ShownTo
<1>2. IsFiniteSet(ShownTo(b, r, d))
  BY ShownFinite
<1>3. QED
  BY <1>1, <1>2, FS_Subset DEF Shows

\* The column of the next character to be shown.
LEMMA ShownHere ==
  ASSUME NEW b, NEW r, NEW n \in Nat, Len(b.lines[r]) = n,
         NEW c \in 0 .. n - 1, b.lines[r][c + 1] \notin ControlChars
  PROVE  ShownColumn(b, r, Shows(b, r, c) + 1) = c + 1
<1> DEFINE S == ShownTo(b, r, n)
           k == Shows(b, r, c) + 1
<1>1. c \in Nat /\ c + 1 \in 1 .. n
  OBVIOUS
<1>2. c + 1 \in S
  BY <1>1 DEF ShownTo
<1>3. Cardinality(ShownTo(b, r, c + 1)) = k
  BY <1>1, ShownNext, ShownFinite DEF Shows
<1>4. ASSUME NEW d \in S, Cardinality(ShownTo(b, r, d)) = k
      PROVE  d = c + 1
  <2>1. d \in 1 .. n /\ b.lines[r][d] \notin ControlChars
    BY DEF ShownTo
  <2>2. Shows(b, r, d) = k /\ Shows(b, r, c) \in Nat
    BY <1>1, <1>4, ShownFinite DEF Shows
  <2>3. CASE d <= c
    <3>1. Shows(b, r, d) <= Shows(b, r, c)
      BY <1>1, <2>1, <2>3, ShownGrows
    <3>2. QED
      BY <2>2, <3>1
  <2>4. CASE d > c + 1
    <3> DEFINE e == d - 1
    <3>1. e \in Nat /\ e + 1 = d /\ c + 1 <= e
      BY <1>1, <2>1, <2>4
    <3> HIDE DEF e
    <3>2. Shows(b, r, e + 1) = Shows(b, r, e) + 1 /\ Shows(b, r, e) \in Nat
      BY <2>1, <3>1, ShownNext, ShownFinite
    <3>3. Shows(b, r, c + 1) <= Shows(b, r, e)
      BY <1>1, <3>1, ShownGrows
    <3>4. Shows(b, r, c + 1) = k
      BY <1>3 DEF Shows
    <3>5. QED
      BY <2>2, <3>1, <3>2, <3>3, <3>4
  <2>5. QED
    BY <1>1, <2>1, <2>3, <2>4
<1> HIDE DEF S, k
<1>5. (CHOOSE d \in S : Cardinality(ShownTo(b, r, d)) = k) = c + 1
  BY <1>2, <1>3, <1>4
<1>6. QED
  BY <1>5 DEF ShownColumn, S, k

\* Floats, as many as there may be, each on a row.
OnRows(b) ==
  /\ IsFiniteSet(DOMAIN b.anchors)
  /\ \A i \in DOMAIN b.anchors : b.anchors[i] \in Nat

\* The floats down to a row can be counted.
LEMMA CountedFloats ==
  ASSUME NEW b, OnRows(b), NEW r
  PROVE  IsFiniteSet(FloatsTo(b, r)) /\ Floats(b, r) \in Nat
<1>1. FloatsTo(b, r) \subseteq DOMAIN b.anchors
  BY DEF FloatsTo
<1>2. IsFiniteSet(DOMAIN b.anchors)
  BY DEF OnRows
<1>3. IsFiniteSet(FloatsTo(b, r))
  BY <1>1, <1>2, FS_Subset
<1>4. QED
  BY <1>1, <1>3, FS_CardinalityType DEF Floats

Anchored(b, r) == {i \in DOMAIN b.anchors : b.anchors[i] = r}

\* A row adds the floats that are anchored to it.
LEMMA FloatsNext ==
  ASSUME NEW b, OnRows(b), NEW r \in Nat \ {0}
  PROVE  /\ Cardinality(Anchored(b, r)) \in Nat
         /\ Floats(b, r) = Floats(b, r - 1) + Cardinality(Anchored(b, r))
<1> DEFINE A == FloatsTo(b, r - 1)
           B == Anchored(b, r)
<1>1. B \subseteq DOMAIN b.anchors
  BY DEF Anchored
<1>2. IsFiniteSet(DOMAIN b.anchors)
  BY DEF OnRows
<1>3. IsFiniteSet(B)
  BY <1>1, <1>2, FS_Subset
<1>4. IsFiniteSet(A)
  BY CountedFloats
<1>5. FloatsTo(b, r) = A \cup B
  BY DEF FloatsTo, Anchored, OnRows
<1>6. A \cap B = {}
  BY DEF FloatsTo, Anchored
<1> HIDE DEF A, B
<1>7. Cardinality(A) \in Nat /\ Cardinality(B) \in Nat
  BY <1>3, <1>4, FS_CardinalityType
<1>8. Cardinality(A \cup B) = Cardinality(A) + Cardinality(B) - Cardinality({})
  BY <1>3, <1>4, <1>6, FS_Union
<1>9. QED
  BY <1>5, <1>7, <1>8, FS_EmptySet DEF Floats, A, B

\* Further down there are no fewer floats.
LEMMA FloatsGrow ==
  ASSUME NEW b, OnRows(b), NEW r \in Nat, NEW s \in Nat, r <= s
  PROVE  Floats(b, r) <= Floats(b, s)
<1>1. FloatsTo(b, r) \subseteq FloatsTo(b, s)
  BY DEF FloatsTo, OnRows
<1>2. IsFiniteSet(FloatsTo(b, s))
  BY CountedFloats
<1>3. QED
  BY <1>1, <1>2, FS_Subset DEF Floats

\* The row of the i-th float.
LEMMA FloatHere ==
  ASSUME NEW b, OnRows(b),
         NEW n \in Nat, DOMAIN b.lines = 1 .. n, NEW r \in 1 .. n,
         NEW i \in Nat, Floats(b, r - 1) < i, i <= Floats(b, r)
  PROVE  FloatRow(b, i) = r
<1>1. ASSUME NEW s \in 1 .. n, Floats(b, s - 1) < i, i <= Floats(b, s)
      PROVE  s = r
  <2>1. /\ r \in Nat /\ r - 1 \in Nat /\ s \in Nat /\ s - 1 \in Nat
    OBVIOUS
  <2>2. /\ Floats(b, r) \in Nat /\ Floats(b, r - 1) \in Nat
        /\ Floats(b, s) \in Nat /\ Floats(b, s - 1) \in Nat
    BY CountedFloats
  <2>3. CASE s < r
    <3>1. s <= r - 1
      BY <2>1, <2>3
    <3>2. Floats(b, s) <= Floats(b, r - 1)
      BY <2>1, <3>1, FloatsGrow
    <3>3. QED
      BY <1>1, <2>2, <3>2
  <2>4. CASE r < s
    <3>1. r <= s - 1
      BY <2>1, <2>4
    <3>2. Floats(b, r) <= Floats(b, s - 1)
      BY <2>1, <3>1, FloatsGrow
    <3>3. QED
      BY <1>1, <2>2, <3>2
  <2>5. QED
    BY <2>1, <2>3, <2>4
<1>2. (CHOOSE s \in 1 .. n : Floats(b, s - 1) < i /\ i <= Floats(b, s)) = r
  BY <1>1
<1>3. QED
  BY <1>2 DEF FloatRow, Floats
-----------------------------------------------------------------------------
(***************************************************************************)
(* What the reader has of a document when it has come to a column of a row *)
(* whose break is `on', alignment `a' and list `l' and `n', and to its     *)
(* k-th float.                                                             *)
(***************************************************************************)
TextTo(b, r, c) ==
  [i \in 1 .. Shows(b, r, c) |-> b.lines[r][ShownColumn(b, r, i)]]

StylesTo(b, r, c) ==
  [i \in 1 .. Shows(b, r, c) |->
     Resolve(Wanted(b.formats[r][ShownColumn(b, r, i)]))]

UpTo(b, r, row, c) == IF r = row THEN c ELSE Len(b.lines[r])

LinesTo(b, row, c) == [r \in 1 .. row |-> TextTo(b, r, UpTo(b, r, row, c))]

FormatsTo(b, row, c) == [r \in 1 .. row |-> StylesTo(b, r, UpTo(b, r, row, c))]

BreaksTo(b, row, on) ==
  [r \in 1 .. row |-> IF r = row THEN on ELSE r > 1 /\ b.pageBreakBefore[r]]

OpenRow(s, row, x) == [r \in 1 .. row |-> IF r = row THEN x ELSE s[r]]

AnchorsTo(b, k) == [i \in 1 .. k |-> FloatRow(b, i)]

Paper(b, row, c, on, a, l, n, k) ==
  Doc(LinesTo(b, row, c), FormatsTo(b, row, c), BreaksTo(b, row, on),
      OpenRow(b.alignment, row, a), OpenRow(b.listLevel, row, Packed(l, n)),
      AnchorsTo(b, k))

State(b, row, c, on, a, l, n, k, f) ==
  Reader(Paper(b, row, c, on, a, l, n, k), f, a, l, n)

\* The layers read so far have one element per row.
LEMMA LayersRowed ==
  ASSUME NEW b, NEW row \in Nat, NEW c, NEW on, NEW s, NEW x, NEW k \in Nat
  PROVE  /\ Rowed(LinesTo(b, row, c), row) /\ Rowed(FormatsTo(b, row, c), row)
         /\ Rowed(BreaksTo(b, row, on), row) /\ Rowed(OpenRow(s, row, x), row)
         /\ Rowed(AnchorsTo(b, k), k)
         /\ Len(LinesTo(b, row, c)) = row
<1>1. Rowed(LinesTo(b, row, c), row)
  BY DEF LinesTo, Rowed
<1>2. Rowed(FormatsTo(b, row, c), row)
  BY DEF FormatsTo, Rowed
<1>3. Rowed(BreaksTo(b, row, on), row)
  BY DEF BreaksTo, Rowed
<1>4. Rowed(OpenRow(s, row, x), row)
  BY DEF OpenRow, Rowed
<1>5. Rowed(AnchorsTo(b, k), k)
  BY DEF AnchorsTo, Rowed
<1>6. Len(LinesTo(b, row, c)) = row
  BY <1>1, RowedFacts
<1>7. QED
  BY <1>1, <1>2, <1>3, <1>4, <1>5, <1>6

\* What is set on the open row replaces what it had.
LEMMA OpenRowSet ==
  ASSUME NEW s, NEW row \in Nat \ {0}, NEW x, NEW y
  PROVE  [OpenRow(s, row, x) EXCEPT ![row] = y] = OpenRow(s, row, y)
<1> DEFINE t == OpenRow(s, row, x)
           u == OpenRow(s, row, y)
<1>1. Rowed(t, row) /\ Rowed(u, row)
  BY DEF OpenRow, Rowed
<1>2. u[row] = y /\ \A i \in 1 .. row : i # row => t[i] = u[i]
  BY DEF OpenRow
<1> HIDE DEF t, u
<1>3. row \in Nat /\ row \in 1 .. row
  OBVIOUS
<1>4. [t EXCEPT ![row] = y] = u
  BY <1>1, <1>2, <1>3, RowedSet
<1>5. QED
  BY <1>4 DEF t, u

\* A row that has what the document has can be closed.
LEMMA OpenRowAppend ==
  ASSUME NEW s, NEW row \in Nat \ {0}, NEW x, NEW y, x = s[row]
  PROVE  Append(OpenRow(s, row, x), y) = OpenRow(s, row + 1, y)
<1> DEFINE t == OpenRow(s, row, x)
           u == OpenRow(s, row + 1, y)
<1>1. Rowed(t, row) /\ Rowed(u, row + 1)
  BY DEF OpenRow, Rowed
<1>2. u[row + 1] = y /\ \A i \in 1 .. row : t[i] = u[i]
  BY DEF OpenRow
<1> HIDE DEF t, u
<1>3. row \in Nat
  OBVIOUS
<1>4. Append(t, y) = u
  BY <1>1, <1>2, <1>3, RowedAppend
<1>5. QED
  BY <1>4 DEF t, u

\* An alignment read, on the document so far.
LEMMA AlignStep ==
  ASSUME NEW b, NEW row \in Nat \ {0}, NEW c, NEW on, NEW a, NEW l, NEW n,
         NEW k \in Nat, NEW f, NEW x
  PROVE  SetAlign(State(b, row, c, on, a, l, n, k, f), x)
           = State(b, row, c, on, x, l, n, k, f)
<1> DEFINE ls == LinesTo(b, row, c)
           fs == FormatsTo(b, row, c)
           pb == BreaksTo(b, row, on)
           al == OpenRow(b.alignment, row, a)
           ll == OpenRow(b.listLevel, row, Packed(l, n))
           an == AnchorsTo(b, k)
<1>1. Len(ls) = row
  BY LayersRowed
<1>2. [al EXCEPT ![row] = x] = OpenRow(b.alignment, row, x)
  BY OpenRowSet
<1> HIDE DEF ls, fs, pb, al, ll, an
<1>3. SetAlign(Reader(Doc(ls, fs, pb, al, ll, an), f, a, l, n), x)
        = Reader(Doc(ls, fs, pb, [al EXCEPT ![Len(ls)] = x], ll, an), f, x, l, n)
  BY AlignReads
<1>4. QED
  BY <1>1, <1>2, <1>3 DEF State, Paper, ls, fs, pb, al, ll, an

\* A list read, on the document so far.
LEMMA ListStep ==
  ASSUME NEW b, NEW row \in Nat \ {0}, NEW c, NEW on, NEW a, NEW l, NEW n,
         NEW k \in Nat, NEW f, NEW x, NEW y
  PROVE  SetList(State(b, row, c, on, a, l, n, k, f), x, y)
           = State(b, row, c, on, a, x, y, k, f)
<1> DEFINE ls == LinesTo(b, row, c)
           fs == FormatsTo(b, row, c)
           pb == BreaksTo(b, row, on)
           al == OpenRow(b.alignment, row, a)
           ll == OpenRow(b.listLevel, row, Packed(l, n))
           an == AnchorsTo(b, k)
<1>1. Len(ls) = row
  BY LayersRowed
<1>2. [ll EXCEPT ![row] = Packed(x, y)] = OpenRow(b.listLevel, row, Packed(x, y))
  BY OpenRowSet
<1> HIDE DEF ls, fs, pb, al, ll, an
<1>3. SetList(Reader(Doc(ls, fs, pb, al, ll, an), f, a, l, n), x, y)
        = Reader(Doc(ls, fs, pb, al, [ll EXCEPT ![Len(ls)] = Packed(x, y)], an),
                 f, a, x, y)
  BY ListReads
<1>4. QED
  BY <1>1, <1>2, <1>3 DEF State, Paper, ls, fs, pb, al, ll, an

\* A float read is the next in the order of the rows.
LEMMA ShapeStep ==
  ASSUME NEW b, NEW row \in Nat \ {0}, NEW c, NEW on, NEW a, NEW l, NEW n,
         NEW k \in Nat, NEW f, FloatRow(b, k + 1) = row
  PROVE  EmitShape(State(b, row, c, on, a, l, n, k, f))
           = State(b, row, c, on, a, l, n, k + 1, f)
<1> DEFINE ls == LinesTo(b, row, c)
           fs == FormatsTo(b, row, c)
           pb == BreaksTo(b, row, on)
           al == OpenRow(b.alignment, row, a)
           ll == OpenRow(b.listLevel, row, Packed(l, n))
           an == AnchorsTo(b, k)
           ao == AnchorsTo(b, k + 1)
<1>1. Len(ls) = row
  BY LayersRowed
<1>2. Append(an, row) = ao
  <2>1. Rowed(an, k) /\ Rowed(ao, k + 1)
    BY DEF AnchorsTo, Rowed
  <2>2. ao[k + 1] = row /\ \A i \in 1 .. k : an[i] = ao[i]
    BY DEF AnchorsTo
  <2> HIDE DEF an, ao
  <2>3. QED
    BY <2>1, <2>2, RowedAppend
<1> HIDE DEF ls, fs, pb, al, ll, an, ao
<1>3. EmitShape(Reader(Doc(ls, fs, pb, al, ll, an), f, a, l, n))
        = Reader(Doc(ls, fs, pb, al, ll, Append(an, Len(ls))), f, a, l, n)
  BY ShapeReads
<1>4. QED
  BY <1>1, <1>2, <1>3 DEF State, Paper, ls, fs, pb, al, ll, an, ao

\* Nothing of a row is left to read but its end.
RowDone(b, row, c, on, a, l, n) ==
  /\ c = Len(b.lines[row])
  /\ on = (row > 1 /\ b.pageBreakBefore[row])
  /\ a = b.alignment[row]
  /\ Packed(l, n) = b.listLevel[row]

\* A row that is done is closed, and the next is open and empty.
LEMMA NewlineStep ==
  ASSUME NEW b, NEW row \in Nat \ {0}, NEW c, NEW on, NEW a, NEW l, NEW n,
         NEW k \in Nat, NEW f, RowDone(b, row, c, on, a, l, n)
  PROVE  EmitNewline(State(b, row, c, on, a, l, n, k, f))
           = State(b, row + 1, 0, NoBreak, a, l, n, k, f)
<1> DEFINE ls == LinesTo(b, row, c)
           fs == FormatsTo(b, row, c)
           pb == BreaksTo(b, row, on)
           al == OpenRow(b.alignment, row, a)
           ll == OpenRow(b.listLevel, row, Packed(l, n))
           an == AnchorsTo(b, k)
           ls1 == LinesTo(b, row + 1, 0)
           fs1 == FormatsTo(b, row + 1, 0)
           pb1 == BreaksTo(b, row + 1, NoBreak)
           al1 == OpenRow(b.alignment, row + 1, a)
           ll1 == OpenRow(b.listLevel, row + 1, Packed(l, n))
<1>1. row \in Nat /\ row + 1 \in Nat /\ \A i \in 1 .. row : i # row + 1 /\ i \in 1 .. row + 1
  OBVIOUS
<1>2. Append(ls, NoText) = ls1
  <2>1. Rowed(ls, row) /\ Rowed(ls1, row + 1)
    BY DEF LinesTo, Rowed
  <2>2. ls1[row + 1] = NoText
    <3>1. ls1[row + 1] = TextTo(b, row + 1, 0)
      BY <1>1 DEF LinesTo, UpTo
    <3>2. TextTo(b, row + 1, 0) = NoText
      BY ShownNone DEF TextTo, NoText
    <3>3. QED
      BY <3>1, <3>2
  <2>3. \A i \in 1 .. row : ls[i] = ls1[i]
    <3>1. \A i \in 1 .. row : UpTo(b, i, row, c) = UpTo(b, i, row + 1, 0)
      BY <1>1 DEF UpTo, RowDone
    <3>2. QED
      BY <1>1, <3>1 DEF LinesTo
  <2> HIDE DEF ls, ls1
  <2>4. QED
    BY <1>1, <2>1, <2>2, <2>3, RowedAppend
<1>3. Append(fs, NoText) = fs1
  <2>1. Rowed(fs, row) /\ Rowed(fs1, row + 1)
    BY DEF FormatsTo, Rowed
  <2>2. fs1[row + 1] = NoText
    <3>1. fs1[row + 1] = StylesTo(b, row + 1, 0)
      BY <1>1 DEF FormatsTo, UpTo
    <3>2. StylesTo(b, row + 1, 0) = NoText
      BY ShownNone DEF StylesTo, NoText
    <3>3. QED
      BY <3>1, <3>2
  <2>3. \A i \in 1 .. row : fs[i] = fs1[i]
    <3>1. \A i \in 1 .. row : UpTo(b, i, row, c) = UpTo(b, i, row + 1, 0)
      BY <1>1 DEF UpTo, RowDone
    <3>2. QED
      BY <1>1, <3>1 DEF FormatsTo
  <2> HIDE DEF fs, fs1
  <2>4. QED
    BY <1>1, <2>1, <2>2, <2>3, RowedAppend
<1>4. Append(pb, NoBreak) = pb1
  <2>1. Rowed(pb, row) /\ Rowed(pb1, row + 1)
    BY DEF BreaksTo, Rowed
  <2>2. pb1[row + 1] = NoBreak
    BY <1>1 DEF BreaksTo
  <2>3. \A i \in 1 .. row : pb[i] = pb1[i]
    BY <1>1 DEF BreaksTo, RowDone
  <2> HIDE DEF pb, pb1
  <2>4. QED
    BY <1>1, <2>1, <2>2, <2>3, RowedAppend
<1>5. Append(al, a) = al1
  <2>1. a = b.alignment[row]
    BY DEF RowDone
  <2>2. QED
    BY <2>1, OpenRowAppend
<1>6. Append(ll, Packed(l, n)) = ll1
  <2>1. Packed(l, n) = b.listLevel[row]
    BY DEF RowDone
  <2>2. QED
    BY <2>1, OpenRowAppend
<1> HIDE DEF ls, fs, pb, al, ll, an, ls1, fs1, pb1, al1, ll1
<1>7. EmitNewline(Reader(Doc(ls, fs, pb, al, ll, an), f, a, l, n))
        = Reader(Doc(Append(ls, NoText), Append(fs, NoText), Append(pb, NoBreak),
                     Append(al, a), Append(ll, Packed(l, n)), an), f, a, l, n)
  BY NewlineReads
<1>8. QED
  BY <1>2, <1>3, <1>4, <1>5, <1>6, <1>7
     DEF State, Paper, ls, fs, pb, al, ll, an, ls1, fs1, pb1, al1, ll1

\* A break read on an empty row is the break of that row.
LEMMA PageStep ==
  ASSUME NEW b, NEW row \in Nat \ {0}, NEW a, NEW l, NEW n, NEW k \in Nat, NEW f
  PROVE  EmitPage(State(b, row, 0, NoBreak, a, l, n, k, f))
           = State(b, row, 0, NewPage, a, l, n, k, f)
<1> DEFINE ls == LinesTo(b, row, 0)
           fs == FormatsTo(b, row, 0)
           pb == BreaksTo(b, row, NoBreak)
           al == OpenRow(b.alignment, row, a)
           ll == OpenRow(b.listLevel, row, Packed(l, n))
           an == AnchorsTo(b, k)
           pb1 == BreaksTo(b, row, NewPage)
<1>1. row \in Nat /\ row \in 1 .. row
  OBVIOUS
<1>2. Len(ls) = row
  BY LayersRowed
<1>3. ls[row] = << >>
  <2>1. ls[row] = TextTo(b, row, 0)
    BY <1>1 DEF LinesTo, UpTo
  <2>2. TextTo(b, row, 0) = << >>
    BY ShownNone DEF TextTo
  <2>3. QED
    BY <2>1, <2>2
<1>4. [pb EXCEPT ![row] = NewPage] = pb1
  <2>1. Rowed(pb, row) /\ Rowed(pb1, row)
    BY DEF BreaksTo, Rowed
  <2>2. pb1[row] = NewPage /\ \A i \in 1 .. row : i # row => pb[i] = pb1[i]
    BY <1>1 DEF BreaksTo
  <2> HIDE DEF pb, pb1
  <2>3. QED
    BY <1>1, <2>1, <2>2, RowedSet
<1> HIDE DEF ls, fs, pb, al, ll, an, pb1
<1>5. ls[Len(ls)] = << >>
  BY <1>2, <1>3
<1>6. EmitPage(Reader(Doc(ls, fs, pb, al, ll, an), f, a, l, n))
        = Reader(Doc(ls, fs, [pb EXCEPT ![Len(ls)] = NewPage], al, ll, an), f, a, l, n)
  BY <1>5, PageReads
<1>7. QED
  BY <1>2, <1>4, <1>6 DEF State, Paper, ls, fs, pb, al, ll, an, pb1

(***************************************************************************)
(* The words of a format: one for every field that is to change.           *)
(***************************************************************************)
Whole(f) == f = [x \in FormatFields |-> f[x]]

Mixed(g, w, S) == [x \in FormatFields |-> IF x \in S THEN w[x] ELSE g[x]]

FieldWords(y, u, v) == IF u = v THEN << >> ELSE <<Word(y, v)>>

\* The word for one field, left out when the field is current, makes it
\* the one wanted and leaves the others.
LEMMA FieldRun ==
  ASSUME NEW out, NEW a, NEW l, NEW n, NEW g, NEW w, NEW S,
         NEW y \in FormatFields, y \notin S
  PROVE  Runs(Reader(out, Mixed(g, w, S), a, l, n), FieldWords(y, g[y], w[y]),
              Reader(out, Mixed(g, w, S \cup {y}), a, l, n))
<1> DEFINE h == Mixed(g, w, S)
           k == Mixed(g, w, S \cup {y})
           p == Reader(out, h, a, l, n)
           q == Reader(out, k, a, l, n)
<1>1. CASE g[y] = w[y]
  <2>1. h = k
    BY <1>1 DEF Mixed
  <2>2. FieldWords(y, g[y], w[y]) = << >>
    BY <1>1 DEF FieldWords
  <2> HIDE DEF h, k
  <2>3. Runs(p, << >>, p)
    BY RunsNone
  <2>4. QED
    BY <2>1, <2>2, <2>3 DEF h, k
<1>2. CASE g[y] # w[y]
  <2> DEFINE v == w[y]
  <2>1. FieldSet(h, y, v) = k
    BY DEF Mixed, FieldSet
  <2>2. FieldWords(y, g[y], w[y]) = <<Word(y, v)>>
    BY <1>2 DEF FieldWords
  <2> HIDE DEF h, k, v
  <2>3. HandleControlWord(p, Word(y, v)) = Reader(out, FieldSet(h, y, v), a, l, n)
    BY FormatReads
  <2> HIDE DEF p
  <2>5. HandleControlWord(p, Word(y, v)) = q
    BY <2>1, <2>3
  <2>6. Runs(p, <<Word(y, v)>>, HandleControlWord(p, Word(y, v)))
    BY RunsOne
  <2> HIDE DEF q
  <2>7. QED
    BY <2>2, <2>5, <2>6 DEF p, q, h, k
<1>3. QED
  BY <1>1, <1>2

\* After the words of a format the reader has that format.
LEMMA FormatRun ==
  ASSUME NEW out, NEW a, NEW l, NEW n, NEW g, NEW w, Whole(g), Whole(w)
  PROVE  Runs(Reader(out, g, a, l, n), FormatWords(g, w), Reader(out, w, a, l, n))
<1> DEFINE P(S) == Reader(out, Mixed(g, w, S), a, l, n)
           F(y) == FieldWords(y, g[y], w[y])
           S1 == {} \cup {"face"}
           S2 == S1 \cup {"size"}
           S3 == S2 \cup {"color"}
           S4 == S3 \cup {"highlight"}
           S5 == S4 \cup {"style"}
<1>1. /\ "face" \in FormatFields /\ "size" \in FormatFields
      /\ "color" \in FormatFields /\ "highlight" \in FormatFields
      /\ "style" \in FormatFields
  BY DEF FormatFields
<1>2. /\ "face" \notin {} /\ "size" \notin S1 /\ "color" \notin S2
      /\ "highlight" \notin S3 /\ "style" \notin S4
  OBVIOUS
<1>3. FormatWords(g, w) = F("face") \o F("size") \o F("color")
                            \o F("highlight") \o F("style")
  BY DEF FormatWords, FieldWords
<1>4. Mixed(g, w, {}) = g
  BY DEF Mixed, Whole
<1>5. Mixed(g, w, S5) = w
  <2>1. S5 = FormatFields
    BY DEF FormatFields
  <2>2. Mixed(g, w, FormatFields) = w
    BY DEF Mixed, Whole
  <2>3. QED
    BY <2>1, <2>2
<1>6. Runs(P({}), F("face"), P(S1))
  BY <1>1, <1>2, FieldRun
<1> HIDE DEF S1
<1>7. Runs(P(S1), F("size"), P(S2))
  BY <1>1, <1>2, FieldRun
<1> HIDE DEF S2
<1>8. Runs(P(S2), F("color"), P(S3))
  BY <1>1, <1>2, FieldRun
<1> HIDE DEF S3
<1>9. Runs(P(S3), F("highlight"), P(S4))
  BY <1>1, <1>2, FieldRun
<1> HIDE DEF S4
<1>10. Runs(P(S4), F("style"), P(S5))
  BY <1>1, <1>2, FieldRun
<1> HIDE DEF S5, F, P
<1>11. Runs(P({}), F("face") \o F("size"), P(S2))
  BY <1>6, <1>7, RunsJoin
<1>12. Runs(P({}), F("face") \o F("size") \o F("color"), P(S3))
  BY <1>8, <1>11, RunsJoin
<1>13. Runs(P({}), F("face") \o F("size") \o F("color") \o F("highlight"), P(S4))
  BY <1>9, <1>12, RunsJoin
<1>14. Runs(P({}), FormatWords(g, w), P(S5))
  BY <1>3, <1>10, <1>13, RunsJoin
<1>15. P({}) = Reader(out, g, a, l, n) /\ P(S5) = Reader(out, w, a, l, n)
  BY <1>4, <1>5 DEF P
<1>16. QED
  BY <1>14, <1>15

(***************************************************************************)
(* A character is read, or was not written.                                *)
(***************************************************************************)
\* A column that has a character, and its format.
CharAt(b, r, c) ==
  /\ c \in Nat /\ Len(b.lines[r]) \in Nat /\ c + 1 <= Len(b.lines[r])

\* A control character adds nothing to the text.
LEMMA TextHidden ==
  ASSUME NEW b, NEW r, NEW c, CharAt(b, r, c), b.lines[r][c + 1] \in ControlChars
  PROVE  TextTo(b, r, c + 1) = TextTo(b, r, c) /\ StylesTo(b, r, c + 1) = StylesTo(b, r, c)
<1>1. c \in Nat
  BY DEF CharAt
<1>2. Shows(b, r, c + 1) = Shows(b, r, c)
  <2>1. Shows(b, r, c + 1) = Shows(b, r, c)
           + (IF b.lines[r][c + 1] \in ControlChars THEN 0 ELSE 1)
    BY <1>1, ShownNext
  <2>2. Shows(b, r, c) \in Nat
    BY <1>1, ShownFinite
  <2>3. QED
    BY <2>1, <2>2
<1>3. QED
  BY <1>2 DEF TextTo, StylesTo

\* A character that is shown is added at the end.
LEMMA TextShown ==
  ASSUME NEW b, NEW r, NEW c, CharAt(b, r, c), b.lines[r][c + 1] \notin ControlChars
  PROVE  /\ Append(TextTo(b, r, c), b.lines[r][c + 1]) = TextTo(b, r, c + 1)
         /\ Append(StylesTo(b, r, c), Resolve(Wanted(b.formats[r][c + 1])))
              = StylesTo(b, r, c + 1)
<1> DEFINE k == Shows(b, r, c)
           n == Len(b.lines[r])
           t == TextTo(b, r, c)
           t1 == TextTo(b, r, c + 1)
           s == StylesTo(b, r, c)
           s1 == StylesTo(b, r, c + 1)
           x == b.lines[r][c + 1]
           y == Resolve(Wanted(b.formats[r][c + 1]))
<1>1. c \in Nat /\ n \in Nat /\ c \in 0 .. n - 1
  BY DEF CharAt
<1>2. k \in Nat
  BY <1>1, ShownFinite
<1>3. Shows(b, r, c + 1) = k + 1
  <2>1. Shows(b, r, c + 1) = Shows(b, r, c)
           + (IF b.lines[r][c + 1] \in ControlChars THEN 0 ELSE 1)
    BY <1>1, ShownNext
  <2>2. QED
    BY <2>1
<1>4. ShownColumn(b, r, k + 1) = c + 1
  BY <1>1, ShownHere
<1>5. Rowed(t, k) /\ Rowed(s, k)
  BY DEF TextTo, StylesTo, Rowed
<1>6. Rowed(t1, k + 1) /\ Rowed(s1, k + 1)
  BY <1>3 DEF TextTo, StylesTo, Rowed
<1>7. k + 1 \in 1 .. k + 1 /\ \A i \in 1 .. k : i \in 1 .. k + 1
  BY <1>2
<1>8. t1[k + 1] = x
  <2>1. t1[k + 1] = b.lines[r][ShownColumn(b, r, k + 1)]
    BY <1>3, <1>7 DEF TextTo
  <2>2. QED
    BY <1>4, <2>1
<1>9. s1[k + 1] = y
  <2>1. s1[k + 1] = Resolve(Wanted(b.formats[r][ShownColumn(b, r, k + 1)]))
    BY <1>3, <1>7 DEF StylesTo
  <2>2. QED
    BY <1>4, <2>1
<1>10. \A i \in 1 .. k : t[i] = t1[i]
  BY <1>3, <1>7 DEF TextTo
<1>11. \A i \in 1 .. k : s[i] = s1[i]
  BY <1>3, <1>7 DEF StylesTo
<1> HIDE DEF k, t, t1, s, s1, x, y
<1>12. Append(t, x) = t1
  BY <1>2, <1>5, <1>6, <1>8, <1>10, RowedAppend
<1>13. Append(s, y) = s1
  BY <1>2, <1>5, <1>6, <1>9, <1>11, RowedAppend
<1>14. QED
  BY <1>12, <1>13 DEF t, t1, s, s1, x, y

\* Only the open row changes when a character is added.
LEMMA LinesNext ==
  ASSUME NEW b, NEW row \in Nat \ {0}, NEW c, NEW d
  PROVE  /\ [LinesTo(b, row, c) EXCEPT ![row] = TextTo(b, row, d)] = LinesTo(b, row, d)
         /\ [FormatsTo(b, row, c) EXCEPT ![row] = StylesTo(b, row, d)]
              = FormatsTo(b, row, d)
         /\ LinesTo(b, row, c)[row] = TextTo(b, row, c)
         /\ FormatsTo(b, row, c)[row] = StylesTo(b, row, c)
<1> DEFINE ls == LinesTo(b, row, c)
           fs == FormatsTo(b, row, c)
           ls1 == LinesTo(b, row, d)
           fs1 == FormatsTo(b, row, d)
           x == TextTo(b, row, d)
           y == StylesTo(b, row, d)
<1>1. row \in Nat /\ row \in 1 .. row
  OBVIOUS
<1>2. /\ Rowed(ls, row) /\ Rowed(ls1, row) /\ Rowed(fs, row) /\ Rowed(fs1, row)
  BY <1>1, LayersRowed DEF LinesTo, FormatsTo, Rowed
<1>3. ls[row] = TextTo(b, row, c) /\ fs[row] = StylesTo(b, row, c)
  BY <1>1 DEF LinesTo, FormatsTo, UpTo
<1>4. ls1[row] = x /\ \A i \in 1 .. row : i # row => ls[i] = ls1[i]
  BY <1>1 DEF LinesTo, UpTo
<1>5. fs1[row] = y /\ \A i \in 1 .. row : i # row => fs[i] = fs1[i]
  BY <1>1 DEF FormatsTo, UpTo
<1> HIDE DEF ls, fs, ls1, fs1, x, y
<1>6. [ls EXCEPT ![row] = x] = ls1
  BY <1>1, <1>2, <1>4, RowedSet
<1>7. [fs EXCEPT ![row] = y] = fs1
  BY <1>1, <1>2, <1>5, RowedSet
<1>8. QED
  BY <1>3, <1>6, <1>7 DEF ls, fs, ls1, fs1, x, y

\* The reader does not see a control character.
LEMMA HiddenStep ==
  ASSUME NEW b, NEW row \in Nat \ {0}, NEW c, CharAt(b, row, c),
         b.lines[row][c + 1] \in ControlChars,
         NEW on, NEW a, NEW l, NEW n, NEW k \in Nat, NEW f
  PROVE  State(b, row, c, on, a, l, n, k, f) = State(b, row, c + 1, on, a, l, n, k, f)
<1>1. TextTo(b, row, c + 1) = TextTo(b, row, c) /\ StylesTo(b, row, c + 1) = StylesTo(b, row, c)
  BY TextHidden
<1>2. LinesTo(b, row, c) = LinesTo(b, row, c + 1)
  BY <1>1 DEF LinesTo, UpTo
<1>3. FormatsTo(b, row, c) = FormatsTo(b, row, c + 1)
  BY <1>1 DEF FormatsTo, UpTo
<1>4. QED
  BY <1>2, <1>3 DEF State, Paper

StyleAt(b, r, c) == Wanted(b.formats[r][c + 1])

\* A character read, on the document so far.
LEMMA ShownStep ==
  ASSUME NEW b, NEW row \in Nat \ {0}, NEW c, CharAt(b, row, c),
         b.lines[row][c + 1] \notin ControlChars,
         NEW on, NEW a, NEW l, NEW n, NEW k \in Nat
  PROVE  EmitByte(State(b, row, c, on, a, l, n, k, StyleAt(b, row, c)),
                  b.lines[row][c + 1])
           = State(b, row, c + 1, on, a, l, n, k, StyleAt(b, row, c))
<1> DEFINE ls == LinesTo(b, row, c)
           fs == FormatsTo(b, row, c)
           pb == BreaksTo(b, row, on)
           al == OpenRow(b.alignment, row, a)
           ll == OpenRow(b.listLevel, row, Packed(l, n))
           an == AnchorsTo(b, k)
           f == Wanted(b.formats[row][c + 1])
           x == b.lines[row][c + 1]
           t == TextTo(b, row, c + 1)
           s == StylesTo(b, row, c + 1)
           ls1 == LinesTo(b, row, c + 1)
           fs1 == FormatsTo(b, row, c + 1)
<1>1. Len(ls) = row
  BY LayersRowed
<1>2. Append(TextTo(b, row, c), x) = t /\ Append(StylesTo(b, row, c), Resolve(f)) = s
  BY TextShown
<1>3. ls[row] = TextTo(b, row, c) /\ fs[row] = StylesTo(b, row, c)
  BY LinesNext
<1>4. [ls EXCEPT ![row] = t] = ls1 /\ [fs EXCEPT ![row] = s] = fs1
  BY LinesNext
<1> HIDE DEF ls, fs, pb, al, ll, an, f, x, t, s, ls1, fs1
<1>5. EmitByte(Reader(Doc(ls, fs, pb, al, ll, an), f, a, l, n), x)
        = Reader(Doc(AppendIn(ls, Len(ls), x), AppendIn(fs, Len(ls), Resolve(f)),
                     pb, al, ll, an), f, a, l, n)
  BY ByteReads
<1>6. Append(ls[row], x) = t /\ Append(fs[row], Resolve(f)) = s
  BY <1>2, <1>3
<1>7. AppendIn(ls, row, x) = ls1 /\ AppendIn(fs, row, Resolve(f)) = fs1
  BY <1>4, <1>6 DEF AppendIn
<1>9. EmitByte(Reader(Doc(ls, fs, pb, al, ll, an), f, a, l, n), x)
        = Reader(Doc(ls1, fs1, pb, al, ll, an), f, a, l, n)
  BY <1>1, <1>5, <1>7
<1>8. QED
  BY <1>9 DEF State, Paper, StyleAt, ls, fs, pb, al, ll, an, f, x, t, s, ls1, fs1

\* Every format that is wanted has all the fields.
LEMMA WantedWhole ==
  ASSUME NEW f \in Formats
  PROVE  Whole(Wanted(f))
<1>1. f = [x \in FormatFields |-> f[x]]
  BY FormatsAssumption
<1>2. DOMAIN f = FormatFields
  BY <1>1
<1>3. QED
  BY <1>2 DEF Whole, Wanted

\* So have the document's defaults.
LEMMA DocumentWhole == Whole(DocumentFormat)
BY FormatsAssumption DEF Whole

\* A row of a sound buffer, with a format for each of its characters.
LEMMA RowIs ==
  ASSUME NEW b, Sound(b), NEW r \in 1 .. Len(b.lines)
  PROVE  /\ r \in Nat \ {0} /\ Len(b.lines[r]) \in Nat
         /\ DOMAIN b.lines[r] = 1 .. Len(b.lines[r])
         /\ \A c \in 0 .. Len(b.lines[r]) - 1 :
              /\ CharAt(b, r, c)
              /\ b.formats[r][c + 1] \in Formats
              /\ FormatAt(b, r, c) = b.formats[r][c + 1]
<1>1. /\ Covers(b.lines, b.formats) /\ Len(b.lines) \in Nat
  BY DEF Sound
<1>2. r \in Nat \ {0}
  BY <1>1
<1>3. /\ b.lines[r] \in Seq(Chars) /\ b.formats[r] \in Seq(Formats)
      /\ Len(b.lines[r]) \in Nat /\ Len(b.formats[r]) \in Nat
      /\ Len(b.lines[r]) <= Len(b.formats[r])
      /\ DOMAIN b.formats = 1 .. Len(b.lines)
  BY <1>1, RowFacts
<1>4. DOMAIN b.lines[r] = 1 .. Len(b.lines[r])
  BY <1>3, LenProperties
<1>5. ASSUME NEW c \in 0 .. Len(b.lines[r]) - 1
      PROVE  /\ CharAt(b, r, c)
             /\ b.formats[r][c + 1] \in Formats
             /\ FormatAt(b, r, c) = b.formats[r][c + 1]
  <2>1. c \in Nat /\ c + 1 <= Len(b.lines[r]) /\ c + 1 \in 1 .. Len(b.formats[r])
    BY <1>3
  <2>2. b.formats[r][c + 1] \in Formats
    BY <1>3, <2>1, ElementOfSeq
  <2>3. DOMAIN b.formats[r] = 1 .. Len(b.formats[r])
    BY <1>3, LenProperties
  <2>4. FormatAt(b, r, c) = b.formats[r][c + 1]
    BY <1>3, <2>1, <2>3 DEF FormatAt
  <2>5. QED
    BY <1>3, <2>1, <2>2, <2>4 DEF CharAt
<1>6. QED
  BY <1>2, <1>3, <1>4, <1>5

\* Within a row the current format is that of the previous character.
LEMMA CurrentNext ==
  ASSUME NEW b, NEW r, NEW c \in Nat
  PROVE  CurrentFormat(b, r, c + 1) = Wanted(FormatAt(b, r, c))
<1>1. c + 1 > 0 /\ (c + 1) - 1 = c
  OBVIOUS
<1>2. QED
  BY <1>1 DEF CurrentFormat

\* The words of a character: its format, then itself.
LEMMA CharRun ==
  ASSUME NEW b, Sound(b), NEW row \in 1 .. Len(b.lines),
         NEW c \in 0 .. Len(b.lines[row]) - 1,
         NEW on, NEW a, NEW l, NEW n, NEW k \in Nat, Whole(CurrentFormat(b, row, c))
  PROVE  /\ Runs(State(b, row, c, on, a, l, n, k, CurrentFormat(b, row, c)),
                 CharWords(b, row, c),
                 State(b, row, c + 1, on, a, l, n, k, CurrentFormat(b, row, c + 1)))
         /\ Whole(CurrentFormat(b, row, c + 1))
<1> DEFINE g == CurrentFormat(b, row, c)
           w == Wanted(FormatAt(b, row, c))
           p == State(b, row, c, on, a, l, n, k, g)
           q == State(b, row, c, on, a, l, n, k, w)
           z == State(b, row, c + 1, on, a, l, n, k, w)
           x == b.lines[row][c + 1]
           shown == IF x \in ControlChars THEN << >> ELSE <<Word("char", x)>>
<1>1. /\ row \in Nat \ {0} /\ CharAt(b, row, c) /\ b.formats[row][c + 1] \in Formats
      /\ FormatAt(b, row, c) = b.formats[row][c + 1]
  BY RowIs
<1>2. c \in Nat
  BY <1>1 DEF CharAt
<1>3. Whole(w)
  <2>1. Whole(Wanted(b.formats[row][c + 1]))
    BY <1>1, WantedWhole
  <2>2. QED
    BY <1>1, <2>1
<1>4. CurrentFormat(b, row, c + 1) = w
  BY <1>2, CurrentNext
<1>5. Runs(p, FormatWords(g, w), q)
  <2> DEFINE out == Paper(b, row, c, on, a, l, n, k)
  <2>1. Whole(g)
    OBVIOUS
  <2> HIDE DEF g, w, out
  <2>2. Runs(Reader(out, g, a, l, n), FormatWords(g, w), Reader(out, w, a, l, n))
    BY <1>3, <2>1, FormatRun
  <2>3. QED
    BY <2>2 DEF State, out
<1>6. CharWords(b, row, c) = FormatWords(g, w) \o shown
  BY DEF CharWords
<1>7. Runs(q, shown, z)
  <2>1. CASE x \in ControlChars
    <3>1. shown = << >>
      BY <2>1
    <3>2. q = z
      <4> HIDE DEF w
      <4>1. QED
        BY <1>1, <2>1, HiddenStep
    <3> HIDE DEF q, z, shown, x
    <3>3. Runs(q, << >>, q)
      BY RunsNone
    <3>4. QED
      BY <3>1, <3>2, <3>3
  <2>2. CASE x \notin ControlChars
    <3>1. shown = <<Word("char", x)>>
      BY <2>2
    <3>2. w = StyleAt(b, row, c)
      BY <1>1 DEF StyleAt
    <3>3. EmitByte(State(b, row, c, on, a, l, n, k, StyleAt(b, row, c)),
                   b.lines[row][c + 1])
            = State(b, row, c + 1, on, a, l, n, k, StyleAt(b, row, c))
      <4> HIDE DEF g, w, p, q, z, shown
      <4>1. /\ row \in Nat \ {0} /\ CharAt(b, row, c)
            /\ b.lines[row][c + 1] \notin ControlChars
        BY <1>1, <2>2
      <4>2. QED
        BY <4>1, ShownStep
    <3> HIDE DEF w
    <3>4. EmitByte(q, x) = z
      BY <3>2, <3>3
    <3> HIDE DEF q, z, x, shown
    <3>5. HandleControlWord(q, Word("char", x)) = EmitByte(q, x)
      BY Handles
    <3>6. Runs(q, <<Word("char", x)>>, HandleControlWord(q, Word("char", x)))
      BY RunsOne
    <3>7. QED
      BY <3>1, <3>4, <3>5, <3>6
  <2>3. QED
    BY <2>1, <2>2
<1> HIDE DEF g, w, p, q, z, x, shown
<1>8. Runs(p, CharWords(b, row, c), z)
  BY <1>5, <1>6, <1>7, RunsJoin
<1>9. QED
  BY <1>3, <1>4, <1>8 DEF p, z, g

\* Within a row the current format is whole.
LEMMA CurrentWhole ==
  ASSUME NEW b, Sound(b), NEW row \in 1 .. Len(b.lines),
         Whole(CurrentFormat(b, row, 0)), NEW c \in 0 .. Len(b.lines[row])
  PROVE  Whole(CurrentFormat(b, row, c))
<1>1. CASE c = 0
  BY <1>1
<1>2. CASE c # 0
  <2> DEFINE d == c - 1
  <2>1. /\ row \in Nat \ {0} /\ Len(b.lines[row]) \in Nat
        /\ \A e \in 0 .. Len(b.lines[row]) - 1 :
             /\ b.formats[row][e + 1] \in Formats
             /\ FormatAt(b, row, e) = b.formats[row][e + 1]
    BY RowIs
  <2>2. d \in 0 .. Len(b.lines[row]) - 1 /\ d \in Nat /\ d + 1 = c
    BY <1>2, <2>1
  <2> HIDE DEF d
  <2>3. FormatAt(b, row, d) \in Formats
    BY <2>1, <2>2
  <2>4. Whole(Wanted(FormatAt(b, row, d)))
    BY <2>3, WantedWhole
  <2>5. CurrentFormat(b, row, d + 1) = Wanted(FormatAt(b, row, d))
    BY <2>2, CurrentNext
  <2>6. QED
    BY <2>2, <2>4, <2>5
<1>3. QED
  BY <1>1, <1>2

\* The words of the characters of a row.
LEMMA TextRun ==
  ASSUME NEW b, Sound(b), NEW row \in 1 .. Len(b.lines),
         NEW on, NEW a, NEW l, NEW n, NEW k \in Nat, Whole(CurrentFormat(b, row, 0))
  PROVE  Runs(State(b, row, 0, on, a, l, n, k, CurrentFormat(b, row, 0)),
              Seqs!FlattenSeq([i \in DOMAIN b.lines[row] |-> CharWords(b, row, i - 1)]),
              State(b, row, Len(b.lines[row]), on, a, l, n, k,
                    CurrentFormat(b, row, Len(b.lines[row]))))
<1> DEFINE m == Len(b.lines[row])
           ss == [i \in DOMAIN b.lines[row] |-> CharWords(b, row, i - 1)]
           S(i) == State(b, row, i, on, a, l, n, k, CurrentFormat(b, row, i))
           X == [i \in 0 .. m |-> S(i)]
<1>1. m \in Nat /\ DOMAIN b.lines[row] = 1 .. m
  BY RowIs
<1>2. Rowed(ss, m)
  BY <1>1 DEF Rowed
<1>3. Listing(ss) /\ Len(ss) = m
  BY <1>1, <1>2, RowedFacts
<1>4. ASSUME NEW i \in 1 .. m
      PROVE  Runs(X[i - 1], ss[i], X[i])
  <2> DEFINE c == i - 1
  <2>1. i \in 0 .. m /\ c \in 0 .. m /\ c \in 0 .. m - 1 /\ c + 1 = i
    BY <1>1
  <2>2. ss[i] = CharWords(b, row, c)
    BY <1>1
  <2>3. X[i] = S(i) /\ X[c] = S(c)
    BY <2>1
  <2> HIDE DEF c, ss, X
  <2>4. Whole(CurrentFormat(b, row, c))
    BY <2>1, CurrentWhole
  <2>5. Runs(S(c), CharWords(b, row, c), S(c + 1))
    BY <2>1, <2>4, CharRun
  <2>6. Runs(X[c], ss[i], X[i])
    <3> HIDE DEF S
    <3>1. QED
      BY <2>1, <2>2, <2>3, <2>5
  <2>7. QED
    BY <2>6 DEF c
<1>5. X[0] = S(0) /\ X[m] = S(m)
  BY <1>1
<1> HIDE DEF X, ss, m
<1>6. Runs(X[0], Seqs!FlattenSeq(ss), X[Len(ss)])
  BY <1>3, <1>4, RunsFlat
<1> HIDE DEF S
<1>7. Runs(S(0), Seqs!FlattenSeq(ss), S(m))
  BY <1>3, <1>5, <1>6
<1>8. QED
  BY <1>7 DEF S, ss, m

(***************************************************************************)
(* The words before the text of a row: its list, its alignment and its     *)
(* floats.                                                                 *)
(***************************************************************************)
\* Lists as the writer reads them, and as the packed byte holds them.
Unpacks(b, row) ==
  /\ ListLevel(b, row) \in 0 .. kMaxListLevel
  /\ ListNumbered(b, row) \in BOOLEAN
  /\ ListLevel(b, row) = 0 => ~ListNumbered(b, row)

\* Two words are two steps.
LEMMA TwoWords ==
  ASSUME NEW i, NEW w
  PROVE  <<i>> \o <<w>> = <<i, w>>
<1> DEFINE s == <<i>> \o <<w>>
           t == <<i, w>>
           W == {i, w}
<1>1. <<i>> \in Seq(W) /\ <<w>> \in Seq(W) /\ Len(<<i>>) = 1 /\ Len(<<w>>) = 1
      /\ <<i>>[1] = i /\ <<w>>[1] = w
  OBVIOUS
<1>2. t \in [1 .. 2 -> W] /\ t[1] = i /\ t[2] = w
  OBVIOUS
<1> HIDE DEF W
<1>3. /\ s \in Seq(W) /\ Len(s) = 1 + 1
      /\ \A j \in 1 .. 1 + 1 : s[j] = IF j <= 1 THEN <<i>>[j] ELSE <<w>>[j - 1]
  BY <1>1, ConcatProperties
<1> HIDE DEF s, t
<1>4. s[1] = i /\ s[2] = w /\ Len(s) = 2
  BY <1>1, <1>3
<1>5. s \in [1 .. 2 -> W]
  BY <1>3, <1>4, LenProperties
<1>6. \A j \in 1 .. 2 : s[j] = t[j]
  BY <1>2, <1>4
<1>7. Rowed(s, 2) /\ Rowed(t, 2)
  BY <1>2, <1>5 DEF Rowed
<1>8. s = t
  BY <1>6, <1>7, RowedEqual
<1>9. QED
  BY <1>8 DEF s, t

\* The words of a row's list, when it differs from that of the row above;
\* `pard' resets the alignment too.
LEMMA ListRun ==
  ASSUME NEW b, NEW row \in Nat \ {0}, NEW c, NEW on, NEW a, NEW k \in Nat, NEW f,
         Unpacks(b, row), Unpacks(b, row - 1)
  PROVE  Runs(State(b, row, c, on, a, ListLevel(b, row - 1), ListNumbered(b, row - 1), k, f),
              ListWords(b, row),
              State(b, row, c, on,
                    IF ListChanges(b, row) /\ ListLevel(b, row) = 0 THEN "left" ELSE a,
                    ListLevel(b, row), ListNumbered(b, row), k, f))
<1> DEFINE l0 == ListLevel(b, row - 1)
           n0 == ListNumbered(b, row - 1)
           l == ListLevel(b, row)
           n == ListNumbered(b, row)
           S(x, y, z) == State(b, row, c, on, x, y, z, k, f)
<1>1. /\ l \in 0 .. 6 /\ l0 \in 0 .. 6 /\ n \in BOOLEAN /\ n0 \in BOOLEAN
      /\ (l = 0 => n = FALSE) /\ (l0 = 0 => n0 = FALSE)
  BY DEF Unpacks, kMaxListLevel
<1>2. CASE ~ListChanges(b, row)
  <2>1. l = l0 /\ n = n0
    BY <1>1, <1>2 DEF ListChanges
  <2>2. ListWords(b, row) = << >>
    BY <1>2 DEF ListWords
  <2> HIDE DEF l0, n0, l, n
  <2>3. Runs(S(a, l0, n0), << >>, S(a, l0, n0))
    BY RunsNone
  <2>4. QED
    BY <1>2, <2>1, <2>2, <2>3 DEF l0, n0, l, n
<1>3. CASE ListChanges(b, row) /\ l = 0
  <2>1. ListWords(b, row) = <<Word("pard", Inherit)>>
    BY <1>3 DEF ListWords
  <2>2. n = FALSE
    BY <1>1, <1>3
  <2> HIDE DEF l0, n0, n
  <2>3. SetAlign(S(a, l0, n0), "left") = S("left", l0, n0)
    BY AlignStep
  <2>4. SetList(S("left", l0, n0), 0, n) = S("left", 0, n)
    BY ListStep
  <2> DEFINE p == S(a, l0, n0)
             q == S("left", 0, n)
  <2>5. SetList(SetAlign(p, "left"), 0, FALSE) = q
    BY <2>2, <2>3, <2>4
  <2> HIDE DEF p, q, S
  <2>6. HandleControlWord(p, Word("pard", Inherit)) = SetList(SetAlign(p, "left"), 0, FALSE)
    BY Handles
  <2>7. Runs(p, <<Word("pard", Inherit)>>, HandleControlWord(p, Word("pard", Inherit)))
    BY RunsOne
  <2>8. Runs(p, ListWords(b, row), q)
    BY <2>1, <2>5, <2>6, <2>7
  <2>9. Runs(S(a, l0, n0), ListWords(b, row),
             S(IF ListChanges(b, row) /\ l = 0 THEN "left" ELSE a, l, n))
    BY <1>3, <2>8 DEF p, q
  <2>10. QED
    BY <2>9 DEF S, l0, n0, n
<1>4. CASE ListChanges(b, row) /\ l # 0
  <2> DEFINE i == Word("ilvl", l - 1)
             w == Word("pn", n)
             p == S(a, l0, n0)
             q == S(a, l, n0)
             r == S(a, l, n)
  <2>1. ListWords(b, row) = <<i, w>>
    BY <1>1, <1>4 DEF ListWords
  <2>2. Clamp((l - 1) + 1, 0, kMaxListLevel) = l
    BY <1>1 DEF Clamp, kMaxListLevel
  <2> HIDE DEF l0, n0, l, n
  <2>3. SetList(p, l, n0) = q
    BY ListStep
  <2>4. SetList(q, l, n) = r
    BY ListStep
  <2>5. p.numbered = n0 /\ q.level = l
    BY ReaderFields DEF State
  <2> HIDE DEF p, q, r, S
  <2>6. HandleControlWord(p, i) = SetList(p, Clamp((l - 1) + 1, 0, kMaxListLevel), p.numbered)
    BY Handles
  <2>7. HandleControlWord(q, w) = SetList(q, q.level, n)
    BY Handles
  <2>8. HandleControlWord(p, i) = q /\ HandleControlWord(q, w) = r
    BY <2>2, <2>3, <2>4, <2>5, <2>6, <2>7
  <2> HIDE DEF i, w
  <2>9. Runs(p, <<i>>, HandleControlWord(p, i)) /\ Runs(q, <<w>>, HandleControlWord(q, w))
    BY RunsOne
  <2>10. Runs(p, <<i>>, q) /\ Runs(q, <<w>>, r)
    BY <2>8, <2>9
  <2>11. Runs(p, <<i>> \o <<w>>, r)
    BY <2>10, RunsJoin
  <2>12. <<i>> \o <<w>> = <<i, w>>
    BY TwoWords
  <2>13. Runs(S(a, l0, n0), ListWords(b, row),
              S(IF ListChanges(b, row) /\ l = 0 THEN "left" ELSE a, l, n))
    BY <1>4, <2>1, <2>11, <2>12 DEF p, r
  <2>14. QED
    BY <2>13 DEF S, l0, n0, l, n
<1>5. QED
  BY <1>2, <1>3, <1>4

\* The word of a row's alignment, given what `pard' has left of it.
LEMMA AlignmentRun ==
  ASSUME NEW b, NEW row \in Nat \ {0}, NEW c, NEW on, NEW l, NEW n, NEW k \in Nat, NEW f
  PROVE  Runs(State(b, row, c, on,
                    IF ListChanges(b, row) /\ ListLevel(b, row) = 0 THEN "left"
                    ELSE RowValue(b.alignment, row - 1, "left"), l, n, k, f),
              AlignmentWords(b, row),
              State(b, row, c, on, b.alignment[row], l, n, k, f))
<1> DEFINE a0 == IF ListChanges(b, row) /\ ListLevel(b, row) = 0 THEN "left"
                 ELSE RowValue(b.alignment, row - 1, "left")
           a == b.alignment[row]
           p == State(b, row, c, on, a0, l, n, k, f)
           q == State(b, row, c, on, a, l, n, k, f)
<1>1. AlignmentWords(b, row) = IF a = a0 THEN << >> ELSE <<Word("align", a)>>
  BY DEF AlignmentWords
<1> HIDE DEF a0, a
<1>2. SetAlign(p, a) = q
  BY AlignStep
<1>3. a = a0 => p = q
  OBVIOUS
<1> HIDE DEF p, q
<1>4. HandleControlWord(p, Word("align", a)) = SetAlign(p, a)
  BY Handles
<1>5. Runs(p, <<Word("align", a)>>, HandleControlWord(p, Word("align", a)))
  BY RunsOne
<1>6. Runs(p, << >>, p)
  BY RunsNone
<1>7. Runs(p, AlignmentWords(b, row), q)
  BY <1>1, <1>2, <1>3, <1>4, <1>5, <1>6
<1>8. QED
  BY <1>7 DEF p, q, a0, a

\* The words of a row's floats, as many as are anchored to it.
LEMMA ShapesRun ==
  ASSUME NEW b, OnRows(b), NEW m \in Nat, DOMAIN b.lines = 1 .. m, NEW row \in 1 .. m,
         NEW c, NEW on, NEW a, NEW l, NEW n, NEW f
  PROVE  Runs(State(b, row, c, on, a, l, n, Floats(b, row - 1), f),
              ShapeWords(b, row),
              State(b, row, c, on, a, l, n, Floats(b, row), f))
<1> DEFINE k == Floats(b, row - 1)
           d == Cardinality(Anchored(b, row))
           w == Word("shp", Inherit)
           ws == ShapeWords(b, row)
           S(j) == State(b, row, c, on, a, l, n, k + j, f)
           st == [j \in 0 .. d |-> S(j)]
<1>1. row \in Nat \ {0} /\ row - 1 \in Nat
  OBVIOUS
<1>2. d \in Nat /\ Floats(b, row) = k + d
  BY <1>1, FloatsNext
<1>3. k \in Nat
  BY CountedFloats
<1>4. ws = [i \in 1 .. d |-> w]
  BY DEF ShapeWords, Fill, Anchored
<1>5. Rowed(ws, d) /\ \A i \in 1 .. d : ws[i] = w
  BY <1>4 DEF Rowed
<1> HIDE DEF ws, w, d
<1>6. Listing(ws) /\ Len(ws) = d
  BY <1>2, <1>5, RowedFacts
<1>7. ASSUME NEW i \in 1 .. d
      PROVE  S(i) = HandleControlWord(S(i - 1), w)
  <2> DEFINE e == k + (i - 1)
  <2>1. e \in Nat /\ e + 1 = k + i /\ i \in Nat /\ k < e + 1 /\ e + 1 <= k + d
    BY <1>2, <1>3
  <2>2. /\ e + 1 \in Nat /\ Floats(b, row - 1) < e + 1 /\ e + 1 <= Floats(b, row)
    BY <1>2, <2>1
  <2> HIDE DEF e
  <2>3. FloatRow(b, e + 1) = row
    BY <2>2, FloatHere
  <2>4. EmitShape(State(b, row, c, on, a, l, n, e, f))
          = State(b, row, c, on, a, l, n, e + 1, f)
    BY <1>1, <2>1, <2>3, ShapeStep
  <2>5. S(i - 1) = State(b, row, c, on, a, l, n, e, f)
    BY DEF e
  <2>6. S(i) = State(b, row, c, on, a, l, n, e + 1, f)
    BY <2>1
  <2> HIDE DEF S
  <2>7. HandleControlWord(S(i - 1), w) = EmitShape(S(i - 1))
    BY Handles DEF w
  <2>8. QED
    BY <2>4, <2>5, <2>6, <2>7
<1>8. S(0) = State(b, row, c, on, a, l, n, Floats(b, row - 1), f)
      /\ S(d) = State(b, row, c, on, a, l, n, Floats(b, row), f)
  BY <1>2, <1>3
<1> HIDE DEF S
<1>9. \A j \in 0 .. d : st[j] = S(j)
  OBVIOUS
<1> HIDE DEF st
<1>10. \A i \in 1 .. d : i \in 0 .. d /\ i - 1 \in 0 .. d
  BY <1>2
<1>11. \A i \in 1 .. d : st[i] = HandleControlWord(st[i - 1], ws[i])
  BY <1>5, <1>7, <1>9, <1>10
<1>12. st[0] = S(0) /\ st[d] = S(d)
  BY <1>2, <1>9
<1>13. Steps(st, S(0), ws, S(d))
  BY <1>6, <1>11, <1>12 DEF Steps
<1>14. Runs(S(0), ws, S(d))
  BY <1>6, <1>13 DEF Runs
<1>15. QED
  BY <1>8, <1>14 DEF ws

\* The words that end a row and break the page before the next.
LEMMA EndRun ==
  ASSUME NEW b, NEW row \in Nat \ {0}, row # Len(b.lines), NEW c, NEW on, NEW a,
         NEW l, NEW n, NEW k \in Nat, NEW f, RowDone(b, row, c, on, a, l, n),
         b.pageBreakBefore[row + 1] \in BOOLEAN
  PROVE  Runs(State(b, row, c, on, a, l, n, k, f), RowEnd(b, row),
              State(b, row + 1, 0, b.pageBreakBefore[row + 1], a, l, n, k, f))
<1> DEFINE p == State(b, row, c, on, a, l, n, k, f)
           q == State(b, row + 1, 0, NoBreak, a, l, n, k, f)
           r == State(b, row + 1, 0, NewPage, a, l, n, k, f)
           par == Word("par", Inherit)
           page == Word("page", Inherit)
<1>1. EmitNewline(p) = q
  BY NewlineStep
<1>12. row + 1 \in Nat \ {0}
  OBVIOUS
<1>2. EmitPage(q) = r
  BY <1>12, PageStep
<1> HIDE DEF p, q, r
<1>3. HandleControlWord(p, par) = EmitNewline(p) /\ HandleControlWord(q, page) = EmitPage(q)
  BY Handles
<1>4. RowEnd(b, row) = <<par>> \o (IF b.pageBreakBefore[row + 1] THEN <<page>> ELSE << >>)
  BY DEF RowEnd
<1> HIDE DEF par, page
<1>5. /\ Runs(p, <<par>>, HandleControlWord(p, par))
      /\ Runs(q, <<page>>, HandleControlWord(q, page))
  BY RunsOne
<1>6. Runs(q, << >>, q)
  BY RunsNone
<1>7. Runs(p, <<par>>, q) /\ Runs(q, <<page>>, r)
  BY <1>1, <1>2, <1>3, <1>5
<1>8. Runs(p, <<par>> \o <<page>>, r) /\ Runs(p, <<par>> \o << >>, q)
  BY <1>6, <1>7, RunsJoin
<1>9. CASE b.pageBreakBefore[row + 1]
  <2>1. b.pageBreakBefore[row + 1] = TRUE
    BY <1>9
  <2>2. RowEnd(b, row) = <<par>> \o <<page>>
    BY <1>4, <1>9
  <2>3. QED
    BY <1>8, <2>1, <2>2 DEF p, r, NewPage
<1>10. CASE ~b.pageBreakBefore[row + 1]
  <2>1. b.pageBreakBefore[row + 1] = FALSE
    BY <1>10
  <2>2. RowEnd(b, row) = <<par>> \o << >>
    BY <1>4, <1>10
  <2>3. QED
    BY <1>8, <2>1, <2>2 DEF p, q, NoBreak
<1>11. QED
  BY <1>9, <1>10

(***************************************************************************)
(* Between two rows: the format that the reader keeps is the one the       *)
(* writer takes to be current on the next row.                             *)
(***************************************************************************)
Above(b, row) == {r \in 1 .. row - 1 : b.lines[r] # << >>}

Lowest(S) == CHOOSE last \in S : \A s \in S : s <= last

\* At the start of a row the current format is that of the last character
\* above.
LEMMA CurrentAtStart ==
  ASSUME NEW b, NEW row
  PROVE  CurrentFormat(b, row, 0) =
           IF Above(b, row) = {} THEN DocumentFormat
           ELSE Wanted(FormatAt(b, Lowest(Above(b, row)),
                                Len(b.lines[Lowest(Above(b, row))]) - 1))
BY DEF CurrentFormat, Above, Lowest

\* The format at the end of a row is current at the start of the next.
LEMMA CurrentCarries ==
  ASSUME NEW b, Sound(b), NEW row \in 1 .. Len(b.lines)
  PROVE  CurrentFormat(b, row + 1, 0) = CurrentFormat(b, row, Len(b.lines[row]))
<1> DEFINE n == Len(b.lines[row])
<1>1. row \in Nat \ {0} /\ n \in Nat
  BY RowIs
<1>2. (row + 1) - 1 = row /\ 1 .. row = (1 .. row - 1) \cup {row}
  BY <1>1
<1>3. n = 0 <=> b.lines[row] = << >>
  <2>1. Covers(b.lines, b.formats)
    BY DEF Sound
  <2>2. b.lines[row] \in Seq(Chars)
    BY <2>1, RowFacts
  <2>3. QED
    BY <2>2, EmptySeq
<1>4. CASE n = 0
  <2>1. Above(b, row + 1) = Above(b, row)
    BY <1>2, <1>3, <1>4 DEF Above
  <2>2. CurrentFormat(b, row + 1, 0) = CurrentFormat(b, row, 0)
    BY <2>1, CurrentAtStart
  <2>3. QED
    BY <1>4, <2>2
<1>5. CASE n # 0
  <2>1. Above(b, row + 1) = Above(b, row) \cup {row}
    BY <1>2, <1>3, <1>5 DEF Above
  <2>2. \A s \in Above(b, row) : s \in Int /\ s < row
    BY DEF Above
  <2>3. Lowest(Above(b, row + 1)) = row
    <3> DEFINE S == Above(b, row + 1)
    <3>1. row \in S /\ \A s \in S : s \in Int /\ s <= row
      BY <1>1, <2>1, <2>2
    <3> HIDE DEF S
    <3>2. QED
      BY <1>1, <3>1 DEF Lowest, S
  <2>4. Above(b, row + 1) # {}
    BY <2>1
  <2>5. CurrentFormat(b, row + 1, 0) = Wanted(FormatAt(b, row, n - 1))
    BY <2>3, <2>4, CurrentAtStart
  <2>6. n - 1 \in Nat /\ (n - 1) + 1 = n
    BY <1>1, <1>5
  <2> DEFINE c == n - 1
  <2> HIDE DEF c
  <2>7. CurrentFormat(b, row, c + 1) = Wanted(FormatAt(b, row, c))
    BY <2>6, CurrentNext DEF c
  <2>8. QED
    BY <2>5, <2>6, <2>7 DEF c
<1>6. QED
  BY <1>4, <1>5

\* The format at the start of a row is whole.
LEMMA StartWhole ==
  ASSUME NEW b, Sound(b), NEW row \in 1 .. Len(b.lines)
  PROVE  Whole(CurrentFormat(b, row, 0))
<1> DEFINE n == Len(b.lines)
           T == {r \in Nat : r + 1 <= n => Whole(CurrentFormat(b, r + 1, 0))}
<1>1. n \in Nat
  BY DEF Sound
<1>2. 0 \in T
  <2>1. Above(b, 1) = {}
    BY DEF Above
  <2>2. CurrentFormat(b, 1, 0) = DocumentFormat
    BY <2>1, CurrentAtStart
  <2>3. Whole(CurrentFormat(b, 1, 0))
    BY <2>2, DocumentWhole
  <2>4. QED
    BY <2>3
<1>3. ASSUME NEW r \in Nat, r \in T
      PROVE  r + 1 \in T
  <2>1. SUFFICES ASSUME (r + 1) + 1 <= n
                 PROVE  Whole(CurrentFormat(b, (r + 1) + 1, 0))
    OBVIOUS
  <2> DEFINE s == r + 1
  <2>2. s \in 1 .. n /\ s \in 1 .. Len(b.lines)
    BY <1>1, <2>1
  <2>3. Whole(CurrentFormat(b, s, 0))
    BY <1>1, <1>3, <2>1
  <2> HIDE DEF s, n, T
  <2>4. Len(b.lines[s]) \in Nat
    BY <2>2, RowIs
  <2>5. Len(b.lines[s]) \in 0 .. Len(b.lines[s])
    BY <2>4
  <2>6. Whole(CurrentFormat(b, s, Len(b.lines[s])))
    BY <2>2, <2>3, <2>5, CurrentWhole
  <2>7. CurrentFormat(b, s + 1, 0) = CurrentFormat(b, s, Len(b.lines[s]))
    BY <2>2, CurrentCarries
  <2>8. Whole(CurrentFormat(b, s + 1, 0))
    BY <2>6, <2>7
  <2>9. QED
    BY <2>8 DEF s
<1>4. Nat \subseteq T
  <2> HIDE DEF T
  <2>1. QED
    BY <1>2, <1>3, InductiveSet
<1>5. row - 1 \in Nat /\ (row - 1) + 1 = row /\ row <= n
  BY <1>1
<1>6. row - 1 \in T
  BY <1>4, <1>5
<1>7. QED
  BY <1>5, <1>6

-----------------------------------------------------------------------------
(***************************************************************************)
(* The reader before and after the words of a row.                         *)
(***************************************************************************)
BreaksAt(b, row) == row > 1 /\ b.pageBreakBefore[row]

StartOf(b, row) ==
  State(b, row, 0, BreaksAt(b, row), RowValue(b.alignment, row - 1, "left"),
        ListLevel(b, row - 1), ListNumbered(b, row - 1), Floats(b, row - 1),
        CurrentFormat(b, row, 0))

EndOf(b, row) ==
  State(b, row, Len(b.lines[row]), BreaksAt(b, row), b.alignment[row],
        ListLevel(b, row), ListNumbered(b, row), Floats(b, row),
        CurrentFormat(b, row, Len(b.lines[row])))

\* A document with lists that the packed byte and the reader can hold.
Writable(b) ==
  /\ Sound(b) /\ OnRows(b)
  /\ \A r \in 0 .. Len(b.lines) : Unpacks(b, r)
  /\ \A r \in 1 .. Len(b.lines) :
       Packed(ListLevel(b, r), ListNumbered(b, r)) = b.listLevel[r]

BodyWords(b, row) ==
  ListWords(b, row) \o AlignmentWords(b, row) \o ShapeWords(b, row)
    \o Seqs!FlattenSeq([i \in DOMAIN b.lines[row] |-> CharWords(b, row, i - 1)])

\* What the lemmas about a row need of its document.
LEMMA WritableFacts ==
  ASSUME NEW b, Writable(b), NEW row \in 1 .. Len(b.lines)
  PROVE  /\ Sound(b) /\ OnRows(b) /\ Unpacks(b, row) /\ Unpacks(b, row - 1)
         /\ Len(b.lines) \in Nat /\ DOMAIN b.lines = 1 .. Len(b.lines)
         /\ row \in Nat \ {0} /\ row - 1 \in Nat
         /\ Floats(b, row) \in Nat /\ Floats(b, row - 1) \in Nat
<1>1. Sound(b) /\ OnRows(b)
  BY DEF Writable
<1>2. Len(b.lines) \in Nat /\ DOMAIN b.lines = 1 .. Len(b.lines)
  BY <1>1, SoundFacts
<1>3. row \in 0 .. Len(b.lines) /\ row - 1 \in 0 .. Len(b.lines) /\ row \in Nat \ {0}
      /\ row - 1 \in Nat
  BY <1>2
<1>4. Unpacks(b, row) /\ Unpacks(b, row - 1)
  BY <1>3 DEF Writable
<1>5. Floats(b, row) \in Nat /\ Floats(b, row - 1) \in Nat
  BY <1>1, CountedFloats
<1>6. QED
  BY <1>1, <1>2, <1>3, <1>4, <1>5

\* The words of a row but for its end.
LEMMA BodyRun ==
  ASSUME NEW b, Writable(b), NEW row \in 1 .. Len(b.lines)
  PROVE  Runs(StartOf(b, row), BodyWords(b, row), EndOf(b, row))
<1> DEFINE on == BreaksAt(b, row)
           f == CurrentFormat(b, row, 0)
           l0 == ListLevel(b, row - 1)
           n0 == ListNumbered(b, row - 1)
           l == ListLevel(b, row)
           n == ListNumbered(b, row)
           a0 == RowValue(b.alignment, row - 1, "left")
           a1 == IF ListChanges(b, row) /\ ListLevel(b, row) = 0 THEN "left" ELSE a0
           a == b.alignment[row]
           k0 == Floats(b, row - 1)
           k == Floats(b, row)
           p1 == State(b, row, 0, on, a0, l0, n0, k0, f)
           p2 == State(b, row, 0, on, a1, l, n, k0, f)
           p3 == State(b, row, 0, on, a, l, n, k0, f)
           p4 == State(b, row, 0, on, a, l, n, k, f)
           p5 == State(b, row, Len(b.lines[row]), on, a, l, n, k,
                       CurrentFormat(b, row, Len(b.lines[row])))
           text == Seqs!FlattenSeq([i \in DOMAIN b.lines[row] |-> CharWords(b, row, i - 1)])
<1>1. /\ Sound(b) /\ OnRows(b) /\ Unpacks(b, row) /\ Unpacks(b, row - 1)
      /\ row \in Nat \ {0} /\ k \in Nat /\ k0 \in Nat
  BY WritableFacts
<1>2. Len(b.lines) \in Nat /\ DOMAIN b.lines = 1 .. Len(b.lines)
  BY WritableFacts
<1>3. Whole(f)
  BY <1>1, StartWhole
<1>4. Runs(p1, ListWords(b, row), p2)
  <2> HIDE DEF on, f, k0, a0
  <2>1. QED
    BY <1>1, ListRun DEF a1
<1>5. Runs(p2, AlignmentWords(b, row), p3)
  <2> HIDE DEF on, f, k0, l, n
  <2>1. QED
    BY <1>1, AlignmentRun
<1>6. Runs(p3, ShapeWords(b, row), p4)
  <2> HIDE DEF on, f, l, n, a
  <2>1. QED
    BY <1>1, <1>2, ShapesRun
<1>7. Runs(p4, text, p5)
  <2> HIDE DEF on, l, n, a, k
  <2>1. QED
    BY <1>1, <1>3, TextRun
<1> HIDE DEF p1, p2, p3, p4, p5, text
<1>8. Runs(p1, ListWords(b, row) \o AlignmentWords(b, row), p3)
  BY <1>4, <1>5, RunsJoin
<1>9. Runs(p1, ListWords(b, row) \o AlignmentWords(b, row) \o ShapeWords(b, row), p4)
  BY <1>6, <1>8, RunsJoin
<1>10. Runs(p1, ListWords(b, row) \o AlignmentWords(b, row) \o ShapeWords(b, row) \o text, p5)
  BY <1>7, <1>9, RunsJoin
<1>11. QED
  BY <1>10 DEF StartOf, EndOf, BodyWords, p1, p5, text

\* At the end of its text a row is as the document has it.
LEMMA RowDoneHere ==
  ASSUME NEW b, Writable(b), NEW row \in 1 .. Len(b.lines)
  PROVE  RowDone(b, row, Len(b.lines[row]), BreaksAt(b, row), b.alignment[row],
                 ListLevel(b, row), ListNumbered(b, row))
BY DEF RowDone, BreaksAt, Writable

\* From the end of a row to the start of the next.
LEMMA NextRow ==
  ASSUME NEW b, Writable(b), NEW row \in 1 .. Len(b.lines), row # Len(b.lines)
  PROVE  Runs(EndOf(b, row), RowEnd(b, row), StartOf(b, row + 1))
<1> DEFINE c == Len(b.lines[row])
           on == BreaksAt(b, row)
           a == b.alignment[row]
           l == ListLevel(b, row)
           n == ListNumbered(b, row)
           k == Floats(b, row)
           f == CurrentFormat(b, row, Len(b.lines[row]))
<1>1. Sound(b) /\ row \in Nat \ {0} /\ k \in Nat /\ Len(b.lines) \in Nat
  BY WritableFacts
<1>2. RowDone(b, row, c, on, a, l, n)
  BY RowDoneHere
<1>3. b.pageBreakBefore[row + 1] \in BOOLEAN
  <2>1. b.pageBreakBefore \in Seq(BOOLEAN) /\ Len(b.pageBreakBefore) = Len(b.lines)
    BY <1>1 DEF Sound, BufferType, ParagraphState
  <2>2. row + 1 \in 1 .. Len(b.pageBreakBefore)
    BY <1>1, <2>1
  <2>3. QED
    BY <2>1, <2>2, ElementOfSeq
<1>4. RowValue(b.alignment, row, "left") = a
  <2>1. b.alignment \in Seq(Alignments \cup {"left"}) /\ Len(b.alignment) = Len(b.lines)
    BY <1>1 DEF Sound, BufferType, ParagraphState
  <2>2. row \in DOMAIN b.alignment
    BY <2>1, LenProperties
  <2>3. QED
    BY <2>2 DEF RowValue
<1>5. (row + 1) - 1 = row /\ row + 1 > 1
  BY <1>1
<1>6. CurrentFormat(b, row + 1, 0) = f
  BY <1>1, CurrentCarries
<1>7. BreaksAt(b, row + 1) = b.pageBreakBefore[row + 1]
  BY <1>3, <1>5 DEF BreaksAt
<1>8. EndOf(b, row) = State(b, row, c, on, a, l, n, k, f)
  BY DEF EndOf
<1>9. StartOf(b, row + 1) = State(b, row + 1, 0, b.pageBreakBefore[row + 1], a, l, n, k, f)
  BY <1>4, <1>5, <1>6, <1>7 DEF StartOf
<1> HIDE DEF c, on, a, l, n, k, f
<1>10. Runs(State(b, row, c, on, a, l, n, k, f), RowEnd(b, row),
            State(b, row + 1, 0, b.pageBreakBefore[row + 1], a, l, n, k, f))
  BY <1>1, <1>2, <1>3, EndRun
<1>11. QED
  BY <1>8, <1>9, <1>10

\* All the words of a row.
LEMMA RowRun ==
  ASSUME NEW b, Writable(b), NEW row \in 1 .. Len(b.lines)
  PROVE  Runs(StartOf(b, row), RowWords(b, row),
              IF row = Len(b.lines) THEN EndOf(b, row) ELSE StartOf(b, row + 1))
<1>1. RowWords(b, row) = BodyWords(b, row) \o RowEnd(b, row)
  BY DEF RowWords, BodyWords
<1>2. Runs(StartOf(b, row), BodyWords(b, row), EndOf(b, row))
  BY BodyRun
<1>3. CASE row = Len(b.lines)
  <2>1. RowEnd(b, row) = << >>
    BY <1>3 DEF RowEnd
  <2>2. Runs(EndOf(b, row), << >>, EndOf(b, row))
    BY RunsNone
  <2>3. Runs(EndOf(b, row), RowEnd(b, row), EndOf(b, row))
    BY <2>1, <2>2
  <2>4. Runs(StartOf(b, row), BodyWords(b, row) \o RowEnd(b, row), EndOf(b, row))
    BY <1>2, <2>3, RunsJoin
  <2>5. QED
    BY <1>1, <1>3, <2>4
<1>4. CASE row # Len(b.lines)
  <2>1. Runs(EndOf(b, row), RowEnd(b, row), StartOf(b, row + 1))
    BY <1>4, NextRow
  <2>2. Runs(StartOf(b, row), BodyWords(b, row) \o RowEnd(b, row), StartOf(b, row + 1))
    BY <1>2, <2>1, RunsJoin
  <2>3. QED
    BY <1>1, <1>4, <2>2
<1>5. QED
  BY <1>3, <1>4

\* The reader starts as the writer takes it to.
LEMMA StartIsParser ==
  ASSUME NEW b, Writable(b)
  PROVE  StartOf(b, 1) = Parser
<1>1. Sound(b) /\ OnRows(b)
  BY DEF Writable
<1>2. /\ DOMAIN b.alignment = 1 .. Len(b.alignment)
      /\ DOMAIN b.listLevel = 1 .. Len(b.listLevel)
      /\ DOMAIN b.anchors = 1 .. Len(b.anchors)
  <2>1. /\ b.alignment \in Seq(Alignments \cup {"left"}) /\ b.listLevel \in Seq(Nat)
        /\ b.anchors \in Seq(Nat)
    BY <1>1 DEF Sound, BufferType
  <2>2. QED
    BY <2>1, LenProperties
<1>3. /\ RowValue(b.alignment, 1 - 1, "left") = "left"
      /\ RowValue(b.listLevel, 1 - 1, 0) = 0
  BY <1>2 DEF RowValue
<1>4. ListLevel(b, 1 - 1) = 0 /\ ListNumbered(b, 1 - 1) = FALSE
  BY <1>3 DEF ListLevel, ListNumbered, NumberedFlag
<1>5. Floats(b, 1 - 1) = 0
  <2>1. \A i \in DOMAIN b.anchors : b.anchors[i] \in 1 .. Len(b.lines)
    BY <1>1, <1>2 DEF Sound, ParagraphState
  <2>2. \A x \in 1 .. Len(b.lines) : ~(x <= 1 - 1)
    BY <1>1 DEF Sound
  <2>3. FloatsTo(b, 1 - 1) = {}
    BY <2>1, <2>2 DEF FloatsTo
  <2>4. QED
    BY <2>3, FS_EmptySet DEF Floats
<1>6. CurrentFormat(b, 1, 0) = DocumentFormat
  <2>1. Above(b, 1) = {}
    BY DEF Above
  <2>2. QED
    BY <2>1, CurrentAtStart
<1>7. BreaksAt(b, 1) = FALSE
  BY DEF BreaksAt
<1>8. Paper(b, 1, 0, FALSE, "left", 0, FALSE, 0) = EmptyBuffer
  <2>1. Shows(b, 1, 0) = 0
    BY ShownNone
  <2>2. LinesTo(b, 1, 0) = << << >> >>
    <3>1. TextTo(b, 1, 0) = << >>
      BY <2>1 DEF TextTo
    <3>2. LinesTo(b, 1, 0) = [r \in 1 .. 1 |-> TextTo(b, r, UpTo(b, r, 1, 0))]
      BY DEF LinesTo
    <3>3. \A r \in 1 .. 1 : TextTo(b, r, UpTo(b, r, 1, 0)) = << >>
      BY <3>1 DEF UpTo
    <3>4. QED
      BY <3>2, <3>3
  <2>3. FormatsTo(b, 1, 0) = << << >> >>
    <3>1. StylesTo(b, 1, 0) = << >>
      BY <2>1 DEF StylesTo
    <3>2. FormatsTo(b, 1, 0) = [r \in 1 .. 1 |-> StylesTo(b, r, UpTo(b, r, 1, 0))]
      BY DEF FormatsTo
    <3>3. \A r \in 1 .. 1 : StylesTo(b, r, UpTo(b, r, 1, 0)) = << >>
      BY <3>1 DEF UpTo
    <3>4. QED
      BY <3>2, <3>3
  <2>4. BreaksTo(b, 1, FALSE) = <<FALSE>>
    <3> DEFINE s == BreaksTo(b, 1, FALSE)
               x == FALSE
               t == <<x>>
    <3>1. Rowed(s, 1) /\ s[1] = x
      BY DEF BreaksTo, Rowed
    <3> HIDE DEF s, x
    <3>2. Rowed(t, 1) /\ t[1] = x
      BY DEF Rowed
    <3> HIDE DEF t
    <3>3. \A i \in 1 .. 1 : s[i] = t[i]
      BY <3>1, <3>2
    <3>4. s = t
      BY <3>1, <3>2, <3>3, RowedEqual
    <3>5. QED
      BY <3>4 DEF s, t, x
  <2>5. OpenRow(b.alignment, 1, "left") = <<"left">>
    BY DEF OpenRow
  <2>6. OpenRow(b.listLevel, 1, Packed(0, FALSE)) = <<0>>
    BY DEF OpenRow, Packed
  <2>7. AnchorsTo(b, 0) = << >>
    BY DEF AnchorsTo
  <2>8. QED
    BY <2>2, <2>3, <2>4, <2>5, <2>6, <2>7 DEF Paper, Doc, EmptyBuffer
<1>9. QED
  BY <1>3, <1>4, <1>5, <1>6, <1>7, <1>8 DEF StartOf, State, Reader, Parser

\* All the words of a document: the reader has come to its end.
LEMMA WriteRuns ==
  ASSUME NEW b, Writable(b)
  PROVE  Run(Write(b)) = EndOf(b, Len(b.lines))
<1> DEFINE n == Len(b.lines)
           ss == [row \in DOMAIN b.lines |-> RowWords(b, row)]
           S(i) == IF i = n THEN EndOf(b, n) ELSE StartOf(b, i + 1)
           X == [i \in 0 .. n |-> S(i)]
<1>1. Sound(b) /\ n \in Nat \ {0} /\ DOMAIN b.lines = 1 .. n
  BY SoundFacts DEF Writable
<1>2. Listing(ss) /\ Len(ss) = n
  <2>1. Rowed(ss, n)
    BY <1>1 DEF Rowed
  <2> HIDE DEF ss
  <2>2. QED
    BY <1>1, <2>1, RowedFacts
<1>3. ASSUME NEW i \in 1 .. n
      PROVE  Runs(X[i - 1], ss[i], X[i])
  <2>1. i - 1 \in 0 .. n /\ i \in 0 .. n /\ i - 1 # n /\ (i - 1) + 1 = i
    BY <1>1
  <2>2. X[i - 1] = StartOf(b, i)
    BY <2>1
  <2>3. X[i] = IF i = n THEN EndOf(b, i) ELSE StartOf(b, i + 1)
    BY <2>1
  <2>4. ss[i] = RowWords(b, i)
    BY <1>1
  <2>5. Runs(StartOf(b, i), RowWords(b, i),
             IF i = n THEN EndOf(b, i) ELSE StartOf(b, i + 1))
    BY RowRun
  <2> HIDE DEF X, ss
  <2>6. QED
    BY <2>2, <2>3, <2>4, <2>5
<1>4. X[0] = StartOf(b, 1) /\ X[n] = EndOf(b, n)
  BY <1>1
<1> HIDE DEF X, ss, n
<1>5. Runs(X[0], Seqs!FlattenSeq(ss), X[Len(ss)])
  BY <1>2, <1>3, RunsFlat
<1>6. X[0] = Parser
  BY <1>4, StartIsParser
<1>7. Runs(Parser, Write(b), EndOf(b, n))
  BY <1>2, <1>4, <1>5, <1>6 DEF Write, ss
<1>8. QED
  BY <1>7, RunIsRun DEF n

-----------------------------------------------------------------------------
(***************************************************************************)
(* The end of the file: the trailing row that shows nothing is dropped,    *)
(* and the layers, which are as long as the text already, stay.            *)
(***************************************************************************)
CutTo(s, m) == [r \in 1 .. m |-> s[r]]

\* Without its last row a layer is cut to one row less.
LEMMA DropCuts ==
  ASSUME NEW s, NEW n \in Nat \ {0}, Rowed(s, n)
  PROVE  DropLastRow(s) = CutTo(s, n - 1)
<1> DEFINE S == {s[i] : i \in 1 .. n}
           m == n - 1
           t == Take(s, m)
           u == CutTo(s, m)
<1>1. s \in Seq(S) /\ Len(s) = n
  BY RowedFacts
<1>2. m \in Nat /\ m \in 0 .. Len(s)
  BY <1>1
<1> HIDE DEF S, m
<1>3. /\ t \in Seq(S) /\ Len(t) = m
      /\ \A i \in 1 .. m : t[i] = s[i]
  BY <1>1, <1>2, TakeFacts
<1>4. Rowed(u, m) /\ \A i \in 1 .. m : u[i] = s[i]
  BY DEF CutTo, Rowed
<1> HIDE DEF t, u
<1>5. Rowed(t, m)
  <2>1. t \in [1 .. m -> S]
    BY <1>3, LenProperties
  <2>2. QED
    BY <2>1 DEF Rowed
<1>6. \A i \in 1 .. m : t[i] = u[i]
  BY <1>3, <1>4
<1>7. t = u
  BY <1>2, <1>4, <1>5, <1>6, RowedEqual
<1>8. QED
  BY <1>1, <1>7 DEF DropLastRow, t, u, m

\* A layer that is cut has as many rows as it is cut to.
LEMMA CutRowed ==
  ASSUME NEW s, NEW m \in Nat
  PROVE  Rowed(CutTo(s, m), m) /\ Len(CutTo(s, m)) = m
<1>1. Rowed(CutTo(s, m), m)
  BY DEF CutTo, Rowed
<1>2. QED
  BY <1>1, RowedFacts

\* A layer cut to its own length is the layer.
LEMMA CutWhole ==
  ASSUME NEW s, NEW n \in Nat, Rowed(s, n)
  PROVE  CutTo(s, n) = s
BY DEF CutTo, Rowed

\* A layer resized to its own length is the layer.
LEMMA ResizeRowed ==
  ASSUME NEW s, NEW n \in Nat, Rowed(s, n), NEW x
  PROVE  Resize(s, n, x) = s
<1>1. Listing(s) /\ Len(s) = n
  BY RowedFacts
<1>2. PICK W : s \in Seq(W)
  BY <1>1 DEF Listing
<1>3. Resize(s, Len(s), x) = s
  BY <1>2, ResizeSame
<1>4. QED
  BY <1>1, <1>3

\* The layers of a document that are parallel.
Parallel(ls, fs, pb, al, ll, n) ==
  /\ Rowed(ls, n) /\ Rowed(fs, n) /\ Rowed(pb, n) /\ Rowed(al, n) /\ Rowed(ll, n)

StyledRows(ls, fs, n) ==
  \A r \in 1 .. n : Len(ls[r]) \in Nat /\ Rowed(fs[r], Len(ls[r]))

\* SetLines changes nothing in parallel layers.
LEMMA RestoredParallel ==
  ASSUME NEW ls, NEW fs, NEW pb, NEW al, NEW ll, NEW an, NEW n \in Nat,
         Parallel(ls, fs, pb, al, ll, n), StyledRows(ls, fs, n)
  PROVE  Restored(Doc(ls, fs, pb, al, ll, an)) = Doc(ls, fs, pb, al, ll, an)
<1> DEFINE d == Doc(ls, fs, pb, al, ll, an)
           row(r) == Resize(fs[r], Len(ls[r]), Plain)
           gs == [r \in 1 .. n |-> row(r)]
<1>1. /\ Rowed(ls, n) /\ Rowed(fs, n) /\ Rowed(pb, n) /\ Rowed(al, n) /\ Rowed(ll, n)
  BY DEF Parallel
<1>2. Len(ls) = n
  BY <1>1, RowedFacts
<1>3. Resize(fs, n, << >>) = fs
  BY <1>1, ResizeRowed
<1>4. Resize(pb, n, FALSE) = pb
  <2> DEFINE x == FALSE
  <2> HIDE DEF x
  <2>1. Resize(pb, n, x) = pb
    BY <1>1, ResizeRowed
  <2>2. QED
    BY <2>1 DEF x
<1>5. Resize(al, n, "left") = al
  BY <1>1, ResizeRowed
<1>6. Resize(ll, n, 0) = ll
  BY <1>1, ResizeRowed
<1>7. gs = fs
  <2>1. ASSUME NEW r \in 1 .. n
        PROVE  row(r) = fs[r]
    <3>1. Len(ls[r]) \in Nat /\ Rowed(fs[r], Len(ls[r]))
      BY DEF StyledRows
    <3>2. QED
      BY <3>1, ResizeRowed
  <2>2. gs = [r \in 1 .. n |-> fs[r]]
    BY <2>1
  <2> HIDE DEF gs, row
  <2>3. QED
    BY <1>1, <2>2 DEF Rowed
<1>8. /\ d.lines = ls /\ d.formats = fs /\ d.pageBreakBefore = pb
      /\ d.alignment = al /\ d.listLevel = ll
  BY DocFields
<1>9. [d EXCEPT !.formats = fs, !.pageBreakBefore = pb, !.alignment = al,
                !.listLevel = ll] = d
  <2>1. /\ [d EXCEPT !.formats = fs] = d /\ [d EXCEPT !.pageBreakBefore = pb] = d
    BY DEF Doc
  <2>2. /\ [d EXCEPT !.alignment = al] = d /\ [d EXCEPT !.listLevel = ll] = d
    BY DEF Doc
  <2> HIDE DEF d
  <2>3. [d EXCEPT !.formats = fs, !.pageBreakBefore = pb, !.alignment = al,
                  !.listLevel = ll]
          = [[[[d EXCEPT !.formats = fs] EXCEPT !.pageBreakBefore = pb]
                EXCEPT !.alignment = al] EXCEPT !.listLevel = ll]
    OBVIOUS
  <2>4. QED
    BY <2>1, <2>2, <2>3
<1>10. Restored(d)
         = [d EXCEPT !.formats = gs, !.pageBreakBefore = Resize(pb, n, FALSE),
                     !.alignment = Resize(al, n, "left"),
                     !.listLevel = Resize(ll, n, 0)]
  <2> HIDE DEF d
  <2>1. QED
    BY <1>2, <1>3, <1>8 DEF Restored
<1> HIDE DEF gs, d
<1>11. QED
  BY <1>4, <1>5, <1>6, <1>7, <1>9, <1>10 DEF d
\* The rows that are left, and where a float goes.
Lasting(ls, n) == IF n > 1 /\ ls[n] = << >> THEN n - 1 ELSE n

IsLasting(m, ls, n) == m = Lasting(ls, n)

Numbering(an, k) == DOMAIN an = 1 .. k

Clamped(an, k, m) == [i \in 1 .. k |-> Clamp(an[i], 1, m)]

\* What the end of the file makes of parallel layers.
LEMMA FinalizeCuts ==
  ASSUME NEW ls, NEW fs, NEW pb, NEW al, NEW ll, NEW an,
         NEW n \in Nat \ {0}, NEW k,
         Parallel(ls, fs, pb, al, ll, n), StyledRows(ls, fs, n), Numbering(an, k),
         NEW m, IsLasting(m, ls, n)
  PROVE  Finalize(Doc(ls, fs, pb, al, ll, an))
           = Doc(CutTo(ls, m), CutTo(fs, m), CutTo(pb, m), CutTo(al, m), CutTo(ll, m),
                 Clamped(an, k, m))
<1> DEFINE d == Doc(ls, fs, pb, al, ll, an)
           A == CutTo(ls, m)
           B == CutTo(fs, m)
           C == CutTo(pb, m)
           D == CutTo(al, m)
           E == CutTo(ll, m)
           e == Doc(A, B, C, D, E, an)
           x == Clamped(an, k, m)
           kept == IF n > 1 /\ ls[n] = << >>
                   THEN [d EXCEPT !.lines = DropLastRow(@), !.formats = DropLastRow(@),
                                  !.pageBreakBefore = DropLastRow(@),
                                  !.alignment = DropLastRow(@),
                                  !.listLevel = DropLastRow(@)]
                   ELSE d
<1>1. /\ Rowed(ls, n) /\ Rowed(fs, n) /\ Rowed(pb, n) /\ Rowed(al, n) /\ Rowed(ll, n)
  BY DEF Parallel
<1>2. m \in Nat /\ \A r \in 1 .. m : r \in 1 .. n
  BY DEF IsLasting, Lasting
<1>3. Len(ls) = n
  BY <1>1, RowedFacts
<1>4. /\ d.lines = ls /\ d.formats = fs /\ d.pageBreakBefore = pb
      /\ d.alignment = al /\ d.listLevel = ll /\ d.anchors = an
  BY DocFields
<1>5. kept = e
  <2>1. CASE n > 1 /\ ls[n] = << >>
    <3>1. m = n - 1
      BY <2>1 DEF IsLasting, Lasting
    <3>2. /\ DropLastRow(ls) = A /\ DropLastRow(fs) = B /\ DropLastRow(pb) = C
          /\ DropLastRow(al) = D /\ DropLastRow(ll) = E
      BY <1>1, <3>1, DropCuts
    <3>3. kept = [d EXCEPT !.lines = A, !.formats = B, !.pageBreakBefore = C,
                           !.alignment = D, !.listLevel = E]
      <4> HIDE DEF d, A, B, C, D, E
      <4>1. QED
        BY <1>4, <2>1, <3>2
    <3> HIDE DEF A, B, C, D, E
    <3>4. [d EXCEPT !.lines = A, !.formats = B, !.pageBreakBefore = C,
                    !.alignment = D, !.listLevel = E]
            = [[[[[d EXCEPT !.lines = A] EXCEPT !.formats = B]
                   EXCEPT !.pageBreakBefore = C] EXCEPT !.alignment = D]
                 EXCEPT !.listLevel = E]
      <4> HIDE DEF d
      <4>1. QED
        OBVIOUS
    <3>5. [d EXCEPT !.lines = A] = Doc(A, fs, pb, al, ll, an)
      BY DEF Doc
    <3>6. [Doc(A, fs, pb, al, ll, an) EXCEPT !.formats = B] = Doc(A, B, pb, al, ll, an)
      BY DEF Doc
    <3>7. [Doc(A, B, pb, al, ll, an) EXCEPT !.pageBreakBefore = C]
            = Doc(A, B, C, al, ll, an)
      BY DEF Doc
    <3>8. [Doc(A, B, C, al, ll, an) EXCEPT !.alignment = D] = Doc(A, B, C, D, ll, an)
      BY DEF Doc
    <3>9. [Doc(A, B, C, D, ll, an) EXCEPT !.listLevel = E] = e
      BY DEF Doc
    <3> HIDE DEF d, e, kept
    <3>10. QED
      BY <3>3, <3>4, <3>5, <3>6, <3>7, <3>8, <3>9
  <2>2. CASE ~(n > 1 /\ ls[n] = << >>)
    <3>1. m = n
      BY <2>2 DEF IsLasting, Lasting
    <3>2. A = ls /\ B = fs /\ C = pb /\ D = al /\ E = ll
      BY <1>1, <3>1, CutWhole
    <3> HIDE DEF A, B, C, D, E
    <3>3. e = d
      BY <3>2
    <3> HIDE DEF d, e
    <3>4. QED
      BY <2>2, <3>3
  <2>3. QED
    BY <2>1, <2>2
<1>6. Rowed(A, m) /\ Len(A) = m
  BY <1>2, CutRowed
<1>7. Parallel(A, B, C, D, E, m)
  BY <1>2, CutRowed DEF Parallel
<1>8. StyledRows(A, B, m)
  <2>1. ASSUME NEW r \in 1 .. m
        PROVE  Len(A[r]) \in Nat /\ Rowed(B[r], Len(A[r]))
    <3>1. A[r] = ls[r] /\ B[r] = fs[r]
      BY DEF CutTo
    <3>2. Len(ls[r]) \in Nat /\ Rowed(fs[r], Len(ls[r]))
      BY <1>2 DEF StyledRows
    <3>3. QED
      BY <3>1, <3>2
  <2>2. QED
    BY <2>1 DEF StyledRows
<1> HIDE DEF A, B, C, D, E
<1>9. e.lines = A /\ e.anchors = an
  BY DocFields
<1>10. [e EXCEPT !.anchors = x] = Doc(A, B, C, D, E, x)
  <2> HIDE DEF x
  <2>1. QED
    BY DEF Doc
<1>11. Restored(Doc(A, B, C, D, E, x)) = Doc(A, B, C, D, E, x)
  <2> HIDE DEF x
  <2>1. QED
    BY <1>2, <1>7, <1>8, RestoredParallel
<1> HIDE DEF e
<1>12. [e EXCEPT !.anchors = [i \in DOMAIN @ |-> Clamp(@[i], 1, Len(e.lines))]]
         = [e EXCEPT !.anchors = x]
  BY <1>6, <1>9 DEF x, Clamped, Numbering
<1>13. Finalize(d)
         = Restored([kept EXCEPT !.anchors =
                       [i \in DOMAIN @ |-> Clamp(@[i], 1, Len(kept.lines))]])
  <2> HIDE DEF d
  <2>1. QED
    BY <1>3, <1>4 DEF Finalize
<1> HIDE DEF kept, d, x
<1>14. Finalize(d) = Doc(A, B, C, D, E, x)
  BY <1>5, <1>10, <1>11, <1>12, <1>13
<1>15. QED
  BY <1>14 DEF d, A, B, C, D, E, x

-----------------------------------------------------------------------------
(***************************************************************************)
(* Every float has come out by the last row, on a row that there is.       *)
(***************************************************************************)
LEMMA AllFloats ==
  ASSUME NEW b, Sound(b)
  PROVE  /\ OnRows(b) /\ Floats(b, Len(b.lines)) = Len(b.anchors)
         /\ Floats(b, 0) = 0
         /\ Len(b.anchors) \in Nat /\ DOMAIN b.anchors = 1 .. Len(b.anchors)
<1>1. /\ b.anchors \in Seq(Nat) /\ Len(b.lines) \in Nat
  BY SoundFacts DEF Sound, BufferType
<1>2. Len(b.anchors) \in Nat /\ DOMAIN b.anchors = 1 .. Len(b.anchors)
  BY <1>1, LenProperties
<1>3. \A i \in DOMAIN b.anchors : b.anchors[i] \in 1 .. Len(b.lines)
  BY <1>2 DEF Sound, ParagraphState
<1>4. OnRows(b)
  <2>1. IsFiniteSet(1 .. Len(b.anchors))
    BY <1>2, FS_Interval
  <2>2. QED
    BY <1>2, <1>3, <2>1 DEF OnRows
<1>5. FloatsTo(b, Len(b.lines)) = 1 .. Len(b.anchors)
  BY <1>1, <1>2, <1>3 DEF FloatsTo
<1>6. FloatsTo(b, 0) = {}
  <2>1. \A x \in 1 .. Len(b.lines) : ~(x <= 0)
    BY <1>1
  <2>2. QED
    BY <1>3, <2>1 DEF FloatsTo
<1>7. Cardinality(1 .. Len(b.anchors)) = Len(b.anchors)
  <2> DEFINE k == Len(b.anchors)
  <2>1. k \in Nat
    BY <1>2
  <2> HIDE DEF k
  <2>2. Cardinality(1 .. k) = k
    <3>1. Cardinality(1 .. k) = IF 1 > k THEN 0 ELSE k - 1 + 1
      BY <2>1, FS_Interval
    <3>2. QED
      BY <2>1, <3>1
  <2>3. QED
    BY <2>2 DEF k
<1>8. Floats(b, Len(b.lines)) = Len(b.anchors)
  BY <1>5, <1>7 DEF Floats
<1>9. Floats(b, 0) = 0
  BY <1>6, FS_EmptySet DEF Floats
<1>10. QED
  BY <1>2, <1>4, <1>8, <1>9

\* A float is on the first row that it is counted by.
LEMMA FloatSomewhere ==
  ASSUME NEW b, Sound(b), NEW i \in 1 .. Len(b.anchors)
  PROVE  FloatRow(b, i) \in 1 .. Len(b.lines)
<1> DEFINE n == Len(b.lines)
           k == Len(b.anchors)
           T == {r \in Nat : i <= Floats(b, r)}
<1>1. /\ n \in Nat \ {0} /\ DOMAIN b.lines = 1 .. n
  BY SoundFacts
<1>2. /\ OnRows(b) /\ Floats(b, n) = k /\ Floats(b, 0) = 0 /\ k \in Nat
  BY AllFloats
<1>3. i \in Nat /\ i >= 1 /\ i <= k
  BY <1>2
<1>4. T \subseteq Nat /\ n \in T
  BY <1>1, <1>2, <1>3
<1>5. \E r \in T : \A s \in T : r <= s
  <2> HIDE DEF T, n, k
  <2>1. T # {}
    BY <1>4
  <2>2. QED
    BY <1>4, <2>1, Least
<1>6. PICK r \in T : \A s \in T : r <= s
  BY <1>5
<1>7. r \in Nat /\ r <= n /\ i <= Floats(b, r)
  BY <1>4, <1>6
<1>8. r # 0
  BY <1>2, <1>3, <1>7
<1>9. r - 1 \in Nat /\ ~(r <= r - 1)
  BY <1>7, <1>8
<1>10. r - 1 \notin T
  BY <1>6, <1>9
<1>11. Floats(b, r - 1) \in Nat
  BY <1>2, CountedFloats
<1>12. Floats(b, r - 1) < i
  BY <1>3, <1>9, <1>10, <1>11
<1>13. r \in 1 .. n
  BY <1>1, <1>7, <1>8
<1>14. FloatRow(b, i) = r
  <2> HIDE DEF n, T, k
  <2>1. n \in Nat /\ i \in Nat
    BY <1>1, <1>3
  <2>2. QED
    BY <1>1, <1>2, <1>7, <1>12, <1>13, <2>1, FloatHere
<1>15. QED
  BY <1>13, <1>14

-----------------------------------------------------------------------------
(***************************************************************************)
(* The document that is kept, layer by layer.                              *)
(***************************************************************************)
RowTexts(b, m) == [r \in 1 .. m |-> TextTo(b, r, Len(b.lines[r]))]

RowStyles(b, m) == [r \in 1 .. m |-> StylesTo(b, r, Len(b.lines[r]))]

RowBreaks(b, m) == [r \in 1 .. m |-> r > 1 /\ b.pageBreakBefore[r]]

\* A float of the row that goes is on the row above.
MovedUp(b, m) ==
  [i \in DOMAIN b.anchors |->
     IF FloatRow(b, i) \in 1 .. m THEN FloatRow(b, i) ELSE Len(b.lines) - 1]

RowsKept(b) ==
  IF Len(b.lines) > 1 /\ Shows(b, Len(b.lines), Len(b.lines[Len(b.lines)])) = 0
  THEN Len(b.lines) - 1 ELSE Len(b.lines)

\* What is kept, in the words of what is read.
LEMMA KeptIs ==
  ASSUME NEW b, NEW m, m = RowsKept(b)
  PROVE  Kept(b) = Doc(RowTexts(b, m), RowStyles(b, m), RowBreaks(b, m),
                       CutTo(b.alignment, m), CutTo(b.listLevel, m), MovedUp(b, m))
BY DEF Kept, Doc, RowTexts, RowStyles, RowBreaks, CutTo, MovedUp, RowsKept,
       TextTo, StylesTo, Shows

\* What the reader has of the whole text.
LEMMA EndIs ==
  ASSUME NEW b, Writable(b), NEW n, n = Len(b.lines)
  PROVE  EndOf(b, n).out
           = Doc(RowTexts(b, n), RowStyles(b, n), RowBreaks(b, n),
                 b.alignment, b.listLevel, AnchorsTo(b, Len(b.anchors)))
<1>1. Sound(b)
  BY DEF Writable
<1>2. n \in Nat \ {0} /\ n \in 1 .. n
  BY <1>1, SoundFacts
<1>3. Floats(b, n) = Len(b.anchors)
  BY <1>1, AllFloats
<1>4. Packed(ListLevel(b, n), ListNumbered(b, n)) = b.listLevel[n]
  BY <1>2 DEF Writable
<1>5. EndOf(b, n).out
        = Paper(b, n, Len(b.lines[n]), BreaksAt(b, n), b.alignment[n],
                ListLevel(b, n), ListNumbered(b, n), Floats(b, n))
  BY ReaderFields DEF EndOf, State
<1>6. LinesTo(b, n, Len(b.lines[n])) = RowTexts(b, n)
  <2>1. \A r \in 1 .. n : UpTo(b, r, n, Len(b.lines[n])) = Len(b.lines[r])
    BY DEF UpTo
  <2>2. QED
    BY <2>1 DEF LinesTo, RowTexts
<1>7. FormatsTo(b, n, Len(b.lines[n])) = RowStyles(b, n)
  <2>1. \A r \in 1 .. n : UpTo(b, r, n, Len(b.lines[n])) = Len(b.lines[r])
    BY DEF UpTo
  <2>2. QED
    BY <2>1 DEF FormatsTo, RowStyles
<1>8. BreaksTo(b, n, BreaksAt(b, n)) = RowBreaks(b, n)
  BY DEF BreaksTo, RowBreaks, BreaksAt
<1>9. Rowed(b.alignment, n) /\ Rowed(b.listLevel, n)
  <2>1. /\ b.alignment \in Seq(Alignments \cup {"left"}) /\ Len(b.alignment) = n
        /\ b.listLevel \in Seq(Nat) /\ Len(b.listLevel) = n
    BY <1>1, PartFacts
  <2>2. /\ b.alignment \in [1 .. n -> Alignments \cup {"left"}]
        /\ b.listLevel \in [1 .. n -> Nat]
    BY <2>1, LenProperties
  <2>3. QED
    BY <2>2 DEF Rowed
<1>10. OpenRow(b.alignment, n, b.alignment[n]) = b.alignment
  <2>1. OpenRow(b.alignment, n, b.alignment[n]) = [r \in 1 .. n |-> b.alignment[r]]
    BY DEF OpenRow
  <2>2. QED
    BY <1>9, <2>1 DEF Rowed
<1>11. OpenRow(b.listLevel, n, b.listLevel[n]) = b.listLevel
  <2>1. OpenRow(b.listLevel, n, b.listLevel[n]) = [r \in 1 .. n |-> b.listLevel[r]]
    BY DEF OpenRow
  <2>2. QED
    BY <1>9, <2>1 DEF Rowed
<1>12. QED
  BY <1>3, <1>4, <1>5, <1>6, <1>7, <1>8, <1>10, <1>11 DEF Paper

\* The layers read are parallel, and the row that goes is the one that
\* shows nothing.
LEMMA RowsRead ==
  ASSUME NEW b, Sound(b), NEW n, n = Len(b.lines)
  PROVE  /\ Parallel(RowTexts(b, n), RowStyles(b, n), RowBreaks(b, n),
                     b.alignment, b.listLevel, n)
         /\ StyledRows(RowTexts(b, n), RowStyles(b, n), n)
         /\ RowsKept(b) = Lasting(RowTexts(b, n), n)
<1>1. n \in Nat \ {0} /\ n \in Nat /\ n \in 1 .. n
  BY SoundFacts
<1>2. Rowed(b.alignment, n) /\ Rowed(b.listLevel, n)
  <2>1. /\ b.alignment \in Seq(Alignments \cup {"left"}) /\ Len(b.alignment) = n
        /\ b.listLevel \in Seq(Nat) /\ Len(b.listLevel) = n
    BY PartFacts
  <2>2. /\ b.alignment \in [1 .. n -> Alignments \cup {"left"}]
        /\ b.listLevel \in [1 .. n -> Nat]
    BY <2>1, LenProperties
  <2>3. QED
    BY <2>2 DEF Rowed
<1>3. /\ Rowed(RowTexts(b, n), n) /\ Rowed(RowStyles(b, n), n)
      /\ Rowed(RowBreaks(b, n), n)
  BY DEF Rowed, RowTexts, RowStyles, RowBreaks
<1>4. ASSUME NEW r \in 1 .. n
      PROVE  /\ Shows(b, r, Len(b.lines[r])) \in Nat
             /\ Rowed(TextTo(b, r, Len(b.lines[r])), Shows(b, r, Len(b.lines[r])))
             /\ Rowed(StylesTo(b, r, Len(b.lines[r])), Shows(b, r, Len(b.lines[r])))
  <2>1. r \in 1 .. Len(b.lines)
    OBVIOUS
  <2>2. Len(b.lines[r]) \in Nat
    BY <2>1, RowIs
  <2>3. Shows(b, r, Len(b.lines[r])) \in Nat
    BY <2>2, ShownFinite
  <2>4. QED
    BY <2>3 DEF TextTo, StylesTo, Rowed
<1>5. ASSUME NEW r \in 1 .. n
      PROVE  /\ Len(RowTexts(b, n)[r]) = Shows(b, r, Len(b.lines[r]))
             /\ RowTexts(b, n)[r] = TextTo(b, r, Len(b.lines[r]))
             /\ RowStyles(b, n)[r] = StylesTo(b, r, Len(b.lines[r]))
  <2>1. /\ RowTexts(b, n)[r] = TextTo(b, r, Len(b.lines[r]))
        /\ RowStyles(b, n)[r] = StylesTo(b, r, Len(b.lines[r]))
    BY DEF RowTexts, RowStyles
  <2>2. Len(TextTo(b, r, Len(b.lines[r]))) = Shows(b, r, Len(b.lines[r]))
    BY <1>4, RowedFacts
  <2>3. QED
    BY <2>1, <2>2
<1>6. StyledRows(RowTexts(b, n), RowStyles(b, n), n)
  BY <1>4, <1>5 DEF StyledRows
<1>7. RowTexts(b, n)[n] = << >> <=> Shows(b, n, Len(b.lines[n])) = 0
  <2> DEFINE t == RowTexts(b, n)[n]
             k == Shows(b, n, Len(b.lines[n]))
  <2>1. Rowed(t, k) /\ Len(t) = k /\ k \in Nat
    BY <1>1, <1>4, <1>5
  <2> HIDE DEF t, k
  <2>2. PICK W : t \in Seq(W)
    BY <2>1, RowedFacts DEF Listing
  <2>3. t = << >> <=> Len(t) = 0
    BY <2>2, EmptySeq
  <2>4. QED
    BY <2>1, <2>3 DEF t, k
<1>8. RowsKept(b) = Lasting(RowTexts(b, n), n)
  BY <1>7 DEF RowsKept, Lasting
<1>9. QED
  BY <1>2, <1>3, <1>6, <1>8 DEF Parallel

\* What is written and read is what is kept.
LEMMA ReadKeeps ==
  ASSUME NEW b, Writable(b)
  PROVE  Read(Write(b)) = Kept(b)
<1> DEFINE n == Len(b.lines)
           k == Len(b.anchors)
           m == RowsKept(b)
           an == AnchorsTo(b, k)
           L == RowTexts(b, n)
           F == RowStyles(b, n)
           B == RowBreaks(b, n)
           x == Clamped(an, k, m)
<1>1. Sound(b)
  BY DEF Writable
<1>2. n \in Nat \ {0}
  BY <1>1, SoundFacts
<1>3. k \in Nat /\ DOMAIN b.anchors = 1 .. k
  BY <1>1, AllFloats
<1>4. Run(Write(b)).out = Doc(L, F, B, b.alignment, b.listLevel, an)
  BY WriteRuns, EndIs
<1>5. /\ Parallel(L, F, B, b.alignment, b.listLevel, n) /\ StyledRows(L, F, n)
      /\ IsLasting(m, L, n)
  BY <1>1, RowsRead DEF IsLasting
<1>6. Numbering(an, k)
  BY DEF AnchorsTo, Numbering
<1>7. m \in 1 .. n /\ m \in Nat /\ (m = n \/ m = n - 1)
  BY <1>2 DEF RowsKept
<1>8. /\ CutTo(L, m) = RowTexts(b, m) /\ CutTo(F, m) = RowStyles(b, m)
      /\ CutTo(B, m) = RowBreaks(b, m)
  <2>1. \A r \in 1 .. m : r \in 1 .. n
    BY <1>2, <1>7
  <2> HIDE DEF m, n
  <2>2. QED
    BY <2>1 DEF CutTo, RowTexts, RowStyles, RowBreaks
<1>9. x = MovedUp(b, m)
  <2>1. ASSUME NEW i \in 1 .. k
        PROVE  Clamp(an[i], 1, m)
                 = IF FloatRow(b, i) \in 1 .. m THEN FloatRow(b, i) ELSE n - 1
    <3>1. an[i] = FloatRow(b, i)
      BY DEF AnchorsTo
    <3> DEFINE r == FloatRow(b, i)
    <3>2. r \in 1 .. n
      BY <1>1, FloatSomewhere
    <3> HIDE DEF r, m, n
    <3>3. Clamp(r, 1, m) = IF r \in 1 .. m THEN r ELSE n - 1
      BY <1>2, <1>7, <3>2 DEF Clamp
    <3>4. QED
      BY <3>1, <3>3 DEF r
  <2>2. MovedUp(b, m) = [i \in 1 .. k |-> IF FloatRow(b, i) \in 1 .. m
                                          THEN FloatRow(b, i) ELSE n - 1]
    BY <1>3 DEF MovedUp
  <2> HIDE DEF m, n, k, an
  <2>3. QED
    BY <2>1, <2>2 DEF Clamped
<1> HIDE DEF L, F, B, an, m, n, k
<1>10. Finalize(Doc(L, F, B, b.alignment, b.listLevel, an))
         = Doc(CutTo(L, m), CutTo(F, m), CutTo(B, m), CutTo(b.alignment, m),
               CutTo(b.listLevel, m), x)
  <2> DEFINE A == b.alignment
             V == b.listLevel
  <2>1. Parallel(L, F, B, A, V, n) /\ StyledRows(L, F, n) /\ IsLasting(m, L, n)
    BY <1>5
  <2> HIDE DEF A, V
  <2>2. Finalize(Doc(L, F, B, A, V, an))
          = Doc(CutTo(L, m), CutTo(F, m), CutTo(B, m), CutTo(A, m), CutTo(V, m),
                Clamped(an, k, m))
    BY <1>2, <1>6, <2>1, FinalizeCuts
  <2>3. QED
    BY <2>2 DEF A, V
<1>11. Kept(b) = Doc(RowTexts(b, m), RowStyles(b, m), RowBreaks(b, m),
                     CutTo(b.alignment, m), CutTo(b.listLevel, m), MovedUp(b, m))
  BY KeptIs DEF m
<1> HIDE DEF x
<1>12. QED
  BY <1>4, <1>8, <1>9, <1>10, <1>11 DEF Read

-----------------------------------------------------------------------------
\* A list of a document that was built fits the packed byte and the reader.
LEMMA ByteUnpacks ==
  ASSUME LevelsCounted, NEW v \in ListBytes
  PROVE  /\ v % NumberedFlag \in 0 .. kMaxListLevel
         /\ v % NumberedFlag = 0 => v < NumberedFlag
         /\ Packed(v % NumberedFlag, v >= NumberedFlag) = v
<1>1. kMaxListLevel = 6 /\ NumberedFlag = 64
  BY DEF kMaxListLevel, NumberedFlag
<1>2. CASE v = 0
  BY <1>1, <1>2 DEF Packed
<1>3. CASE v # 0
  <2>1. PICK level \in Levels \ {0}, flag \in {0, NumberedFlag} :
            v = level + flag /\ level \in 1 .. 63 /\ v % NumberedFlag = level
    BY <1>3, ByteParts
  <2>2. level \in 0 .. kMaxListLevel
    BY DEF LevelsCounted
  <2>3. (v >= NumberedFlag) <=> flag = NumberedFlag
    BY <1>1, <2>1
  <2>4. Packed(level, v >= NumberedFlag) = v
    <3>1. CASE flag = NumberedFlag
      BY <1>1, <2>1, <3>1 DEF Packed
    <3>2. CASE flag = 0
      BY <1>1, <2>1, <3>2 DEF Packed
    <3>3. QED
      BY <3>1, <3>2
  <2>5. level # 0
    BY <2>1
  <2>6. QED
    BY <2>1, <2>2, <2>4, <2>5
<1>4. QED
  BY <1>2, <1>3

\* Every document that was built can be written so.
LEMMA BuiltWritable ==
  ASSUME BuiltInv, LevelsCounted
  PROVE  Writable(buffer)
<1> DEFINE b == buffer
           n == Len(b.lines)
<1>1. Sound(b) /\ OnRows(b)
  BY AllFloats DEF BuiltInv
<1>2. /\ n \in Nat /\ b.listLevel \in Seq(ListBytes)
      /\ DOMAIN b.listLevel = 1 .. n
  <2>1. b.listLevel \in Seq(ListBytes)
    BY DEF BuiltInv, Bytes
  <2>2. n \in Nat /\ Len(b.listLevel) = n
    BY <1>1, PartFacts
  <2>3. QED
    BY <2>1, <2>2, LenProperties
<1>3. ASSUME NEW r \in 1 .. n
      PROVE  /\ Unpacks(b, r)
             /\ Packed(ListLevel(b, r), ListNumbered(b, r)) = b.listLevel[r]
  <2> DEFINE v == b.listLevel[r]
  <2>1. v \in ListBytes /\ r \in DOMAIN b.listLevel
    BY <1>2, ElementOfSeq, LenProperties
  <2>2. ListLevel(b, r) = v % NumberedFlag /\ ListNumbered(b, r) = (v >= NumberedFlag)
    BY <2>1 DEF ListLevel, ListNumbered, RowValue
  <2>3. v \in Nat /\ NumberedFlag = 64
    BY <2>1, ByteParts DEF NumberedFlag
  <2> HIDE DEF v
  <2>4. /\ v % NumberedFlag \in 0 .. kMaxListLevel
        /\ v % NumberedFlag = 0 => v < NumberedFlag
        /\ Packed(v % NumberedFlag, v >= NumberedFlag) = v
    BY <2>1, ByteUnpacks
  <2>5. Unpacks(b, r)
    <3>1. ListNumbered(b, r) \in BOOLEAN
      BY DEF ListNumbered
    <3>2. ListLevel(b, r) = 0 => ~ListNumbered(b, r)
      <4>1. ~(v < NumberedFlag) <=> v >= NumberedFlag
        BY <2>3
      <4> HIDE DEF b
      <4>2. QED
        BY <2>2, <2>4, <4>1, Zenon
    <3>3. QED
      BY <2>2, <2>4, <3>1, <3>2 DEF Unpacks
  <2>6. QED
    BY <2>2, <2>4, <2>5 DEF v
<1>4. Unpacks(b, 0)
  <2>1. RowValue(b.listLevel, 0, 0) = 0
    BY <1>2 DEF RowValue
  <2>2. QED
    BY <2>1 DEF Unpacks, ListLevel, ListNumbered, NumberedFlag, kMaxListLevel
<1>5. \A r \in 0 .. n : Unpacks(b, r)
  <2>1. \A r \in 0 .. n : r = 0 \/ r \in 1 .. n
    BY <1>2
  <2>2. QED
    BY <1>3, <1>4, <2>1
<1>6. QED
  BY <1>1, <1>3, <1>5 DEF Writable

(***************************************************************************)
(* RoundTripKeeps: a document that is saved to .rtf and opened is the      *)
(* document, but for what Kept says, for every document whose lists are as *)
(* deep as the keys and the files can make them (RtfWriter::Write,         *)
(* RtfReader::Read).                                                       *)
(***************************************************************************)
THEOREM RoundTrip ==
  ASSUME LevelsCounted
  PROVE  BuildSpec => []RoundTripKeeps
<1>1. BuiltInv => RoundTripKeeps
  BY BuiltWritable, ReadKeeps DEF RoundTripKeeps
<1>2. QED
  BY <1>1, BuiltSound, PTL
=============================================================================
