------------------------------ MODULE TextBuffer ------------------------------
(***************************************************************************)
(* The plain text layer: a non-empty sequence of lines, each a sequence of *)
(* characters.  Every operator returns the lines the method leaves behind. *)
(*                                                                         *)
(* Rows count from 1.  A column is the number of characters before it, so  *)
(* the columns of a line are 0 .. Len(line), as in the code.               *)
(***************************************************************************)
EXTENDS Integers, Sequences

Take(s, n) == SubSeq(s, 1, n)

Drop(s, n) == SubSeq(s, n + 1, Len(s))

\* The elements after the first `from' and up to `to' give way to t.
Splice(s, from, to, t) == Take(s, from) \o t \o Drop(s, to)

Clamp(x, low, high) == IF x < low THEN low ELSE IF x > high THEN high ELSE x

\* Row r is joined to the end of the row above it, which keeps its place.
JoinRows(rows, r) == Splice(rows, r - 2, r, <<rows[r - 1] \o rows[r]>>)

\* Row r is cut after its first n elements.
SplitRow(rows, r, n) == Splice(rows, r - 1, r, <<Take(rows[r], n), Drop(rows[r], n)>>)

EraseRows(rows, from, to) == Splice(rows, from - 1, to, << >>)

-----------------------------------------------------------------------------
InsertCharText(lines, col, row, ch) ==
  IF row \notin DOMAIN lines THEN lines
  ELSE LET c == Clamp(col, 0, Len(lines[row]))
       IN  [lines EXCEPT ![row] = Splice(@, c, c, <<ch>>)]

\* For a column past the start of an empty line the code erases at position
\* -1, which throws; no caller's column is past the end of its line.
BackspaceText(lines, col, row) ==
  IF row \notin DOMAIN lines THEN lines
  ELSE IF col > 0
       THEN LET c == Clamp(col, 1, Len(lines[row]))
            IN  [lines EXCEPT ![row] = Splice(@, c - 1, c, << >>)]
       ELSE IF row > 1 THEN JoinRows(lines, row) ELSE lines

DeleteForwardText(lines, col, row) ==
  IF row \notin DOMAIN lines THEN lines
  ELSE IF col < Len(lines[row])
       THEN [lines EXCEPT ![row] = Splice(@, col, col + 1, << >>)]
       ELSE IF row < Len(lines) THEN JoinRows(lines, row + 1) ELSE lines

InsertNewlineText(lines, col, row) ==
  IF row \notin DOMAIN lines THEN lines
  ELSE SplitRow(lines, row, Clamp(col, 0, Len(lines[row])))

\* A pasted text comes as the parts between its line breaks.
InsertTextText(lines, col, row, parts) ==
  IF row \notin DOMAIN lines THEN lines
  ELSE LET c    == Clamp(col, 0, Len(lines[row]))
           line == lines[row]
           n    == Len(parts)
       IN  IF n = 1
           THEN [lines EXCEPT ![row] = Splice(@, c, c, parts[1])]
           ELSE Splice(lines, row - 1, row,
                       <<Take(line, c) \o parts[1]>>
                         \o SubSeq(parts, 2, n - 1)
                         \o <<parts[n] \o Drop(line, c)>>)

\* For start at or before end, once both are clamped.
DeleteRangeText(lines, startRow, startCol, endRow, endCol) ==
  LET r1 == Clamp(startRow, 1, Len(lines))
      r2 == Clamp(endRow, 1, Len(lines))
      c1 == Clamp(startCol, 0, Len(lines[r1]))
      c2 == Clamp(endCol, 0, Len(lines[r2]))
  IN  IF r1 = r2
      THEN [lines EXCEPT ![r1] = Splice(@, c1, c2, << >>)]
      ELSE Splice(lines, r1 - 1, r2, <<Take(lines[r1], c1) \o Drop(lines[r2], c2)>>)

-----------------------------------------------------------------------------
\* A bug to catch: the character at the end is read too.
GetTextInclusive(lines, startRow, startCol, endRow, endCol) ==
  LET r1 == Clamp(startRow, 1, Len(lines))
      r2 == Clamp(endRow, 1, Len(lines))
      c1 == Clamp(startCol, 0, Len(lines[r1]))
      c2 == Clamp(endCol + 1, 0, Len(lines[r2]))
  IN  IF r1 = r2
      THEN <<SubSeq(lines[r1], c1 + 1, c2)>>
      ELSE <<Drop(lines[r1], c1)>> \o SubSeq(lines, r1 + 1, r2 - 1)
             \o <<Take(lines[r2], c2)>>

\* What the text between two positions reads, as the parts between its line
\* breaks; for start at or before end, once both are clamped.
GetText(lines, startRow, startCol, endRow, endCol) ==
  LET r1 == Clamp(startRow, 1, Len(lines))
      r2 == Clamp(endRow, 1, Len(lines))
      c1 == Clamp(startCol, 0, Len(lines[r1]))
      c2 == Clamp(endCol, 0, Len(lines[r2]))
  IN  IF r1 = r2
      THEN <<SubSeq(lines[r1], c1 + 1, c2)>>
      ELSE <<Drop(lines[r1], c1)>> \o SubSeq(lines, r1 + 1, r2 - 1)
             \o <<Take(lines[r2], c2)>>

\* The places where the query is found, with every line searched on its own.
Matches(lines, query) ==
  UNION {{[row |-> r, col |-> c] :
            c \in {k \in 0 .. Len(lines[r]) - Len(query) :
                     SubSeq(lines[r], k + 1, k + Len(query)) = query}} :
         r \in DOMAIN lines}

NotAfter(p, q) == p.row < q.row \/ (p.row = q.row /\ p.col <= q.col)

FirstOf(places) == CHOOSE p \in places : \A q \in places : NotAfter(p, q)

NotFound == [row |-> 0, col |-> 0]

\* A bug to catch: the wrapped search stops above the row it began in.
FindNextTextShort(lines, query, fromRow, fromCol) ==
  LET all   == Matches(lines, query)
      ahead == {p \in all :
                  NotAfter([row |-> fromRow, col |-> fromCol + Len(query)], p)}
      wrapped == {p \in all : p.row < fromRow}
  IN  IF ahead # {} THEN FirstOf(ahead)
      ELSE IF wrapped # {} THEN FirstOf(wrapped) ELSE NotFound

\* FindNext: onward from the end of a match at the given place, then from the
\* top of the text to the end of the row the search began in.
FindNextText(lines, query, fromRow, fromCol) ==
  LET all   == Matches(lines, query)
      ahead == {p \in all :
                  NotAfter([row |-> fromRow, col |-> fromCol + Len(query)], p)}
      wrapped == {p \in all : p.row <= fromRow}
  IN  IF ahead # {} THEN FirstOf(ahead)
      ELSE IF wrapped # {} THEN FirstOf(wrapped) ELSE NotFound
=============================================================================
