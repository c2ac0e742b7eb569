------------------------------ MODULE ListNumbers ------------------------------
(***************************************************************************)
(* The numbers of a numbered list.  A label is the path of ordinals it     *)
(* shows: <<2, 1>> for "2.1".  One pass over all the rows computes them,    *)
(* for the screen and for the printer.                                     *)
(***************************************************************************)
EXTENDS FormattedTextBuffer, FiniteSets

Counted(b, row) == IF ListLevel(b, row) > kMaxListLevel THEN kMaxListLevel
                   ELSE ListLevel(b, row)

Uncounted == [k \in 1 .. kMaxListLevel |-> 0]

\* A bug to catch: a new parent leaves the numbers below it counting on.
CountGoesOn(b, row, counters) ==
  IF ListLevel(b, row) = 0 THEN Uncounted
  ELSE IF ~ListNumbered(b, row) THEN counters
  ELSE [counters EXCEPT ![Counted(b, row)] = @ + 1]

\* A bug to catch: a bulleted row ends the numbering as a plain one does.
CountBulletEnds(b, row, counters) ==
  IF ~ListNumbered(b, row) THEN Uncounted
  ELSE [k \in 1 .. kMaxListLevel |->
          IF k < Counted(b, row) THEN counters[k]
          ELSE IF k = Counted(b, row) THEN counters[k] + 1
          ELSE 0]

\* The counters once a row has been passed.
Count(b, row, counters) ==
  IF ListLevel(b, row) = 0 THEN Uncounted
  ELSE IF ~ListNumbered(b, row) THEN counters
  ELSE [k \in 1 .. kMaxListLevel |->
          IF k < Counted(b, row) THEN counters[k]
          ELSE IF k = Counted(b, row) THEN counters[k] + 1
          ELSE 0]

\* A level that was never counted shows 1; a row without a number, nothing.
ComputeNumberedLabels(b) ==
  LET after[row \in 0 .. Len(b.lines)] ==
        IF row = 0 THEN Uncounted ELSE Count(b, row, after[row - 1])
  IN  [row \in DOMAIN b.lines |->
         IF ListNumbered(b, row)
         THEN [k \in 1 .. Counted(b, row) |->
                 IF after[row][k] > 0 THEN after[row][k] ELSE 1]
         ELSE << >>]

-----------------------------------------------------------------------------
\* No row from `first' to `last' is outside a list.
OneRun(b, first, last) == \A row \in first .. last : ListLevel(b, row) > 0

(***************************************************************************)
(* What a reader counts: the items of level k, down to this row, that have *)
(* the parents this row has.                                               *)
(***************************************************************************)
Siblings(b, row, k) ==
  {s \in 1 .. row :
     /\ ListNumbered(b, s) /\ ListLevel(b, s) = k
     /\ OneRun(b, s, row)
     /\ \A t \in s + 1 .. row : ListNumbered(b, t) => ListLevel(b, t) >= k}

\* The row has a numbered item above it at every level above its own.
HasParents(b, row) ==
  \A k \in 1 .. ListLevel(b, row) - 1 : Siblings(b, row, k) # {}

Precedes(p, q) ==
  \E k \in DOMAIN q :
    /\ SubSeq(p, 1, k - 1) = SubSeq(q, 1, k - 1)
    /\ k \in DOMAIN p => p[k] < q[k]
=============================================================================
