-------------------------- MODULE FormattedTextBuffer --------------------------
(***************************************************************************)
(* The formatted buffer: the text layer and, parallel to it, a row of      *)
(* character formats per line, three per-line vectors of paragraph state,  *)
(* and the rows that the floats are anchored to.  Nothing but the code     *)
(* below keeps the vectors parallel.  Every operator returns the buffer    *)
(* that the method leaves behind.                                          *)
(***************************************************************************)
EXTENDS TextBuffer

CONSTANT Plain         \* CharFormat{}: the format of a character not given one

EmptyBuffer ==
  [lines |-> << << >> >>, formats |-> << << >> >>, pageBreakBefore |-> <<FALSE>>,
   alignment |-> <<"left">>, listLevel |-> <<0>>, anchors |-> << >>]

Fill(n, x) == [i \in 1 .. n |-> x]

\* vector::resize
Resize(s, len, x) == IF Len(s) >= len THEN Take(s, len) ELSE s \o Fill(len - Len(s), x)

\* Pads, and never shrinks.
EnsureLineFormatSize(formats, row, len) ==
  IF row \in DOMAIN formats /\ Len(formats[row]) < len
  THEN [formats EXCEPT ![row] = Resize(@, len, Plain)]
  ELSE formats

EraseIfPresent(s, row) == IF row \in DOMAIN s THEN EraseRows(s, row, row) ELSE s

\* The row inserted below `row'; at the end when the vector is short.
InsertBelow(s, row, x) ==
  IF Len(s) >= row THEN Splice(s, row, row, <<x>>) ELSE Append(s, x)

RowValue(s, row, default) == IF row \in DOMAIN s THEN s[row] ELSE default

-----------------------------------------------------------------------------
ShiftAnchorsAtOrAfter(anchors, firstRow, delta) ==
  [i \in DOMAIN anchors |->
     IF anchors[i] >= firstRow THEN anchors[i] + delta ELSE anchors[i]]

\* A bug to catch: the float of the removed row is left where it was.
MergeFloatAnchorsStale(anchors, removedRow, mergeToRow) ==
  [i \in DOMAIN anchors |->
     IF anchors[i] > removedRow THEN anchors[i] - 1 ELSE anchors[i]]

MergeFloatAnchors(anchors, removedRow, mergeToRow) ==
  [i \in DOMAIN anchors |->
     IF anchors[i] = removedRow THEN mergeToRow
     ELSE IF anchors[i] > removedRow THEN anchors[i] - 1
     ELSE anchors[i]]

CollapseFloatAnchors(anchors, startRow, endRow) ==
  [i \in DOMAIN anchors |->
     IF anchors[i] > endRow THEN anchors[i] - (endRow - startRow)
     ELSE IF anchors[i] > startRow THEN startRow
     ELSE anchors[i]]

\* Row r has been joined to the row above it: its paragraph state goes.
WithoutRow(b, r) ==
  [b EXCEPT !.pageBreakBefore = EraseIfPresent(@, r),
            !.alignment       = EraseIfPresent(@, r),
            !.listLevel       = EraseIfPresent(@, r),
            !.anchors         = MergeFloatAnchors(@, r, r - 1)]

-----------------------------------------------------------------------------
\* A bug to catch: the character goes in without its format.
InsertCharTextOnly(b, col, row, ch, fmt) ==
  IF row \notin DOMAIN b.lines THEN b
  ELSE [b EXCEPT !.lines = InsertCharText(@, col, row, ch)]

InsertChar(b, col, row, ch, fmt) ==
  IF row \notin DOMAIN b.lines THEN b
  ELSE LET len  == Len(b.lines[row])
           c    == Clamp(col, 0, len)
           fmts == EnsureLineFormatSize(b.formats, row, len)
       IN  [b EXCEPT !.lines = InsertCharText(@, c, row, ch),
                     !.formats = [fmts EXCEPT ![row] = Splice(@, c, c, <<fmt>>)]]

Backspace(b, col, row) ==
  IF row \notin DOMAIN b.lines THEN b
  ELSE IF col > 0
       THEN LET c == Clamp(col, 1, Len(b.lines[row]))
            IN  [b EXCEPT !.lines = BackspaceText(@, c, row),
                          !.formats[row] =
                            IF c <= Len(@) THEN Splice(@, c - 1, c, << >>) ELSE @]
       ELSE IF row > 1
            THEN WithoutRow([b EXCEPT !.lines   = BackspaceText(@, col, row),
                                      !.formats = JoinRows(@, row)], row)
            ELSE b

\* A bug to catch: the joined row's paragraph state stays behind.
DeleteForwardLeavesRow(b, col, row) ==
  IF row \notin DOMAIN b.lines THEN b
  ELSE IF col < Len(b.lines[row])
       THEN [b EXCEPT !.lines = DeleteForwardText(@, col, row),
                      !.formats[row] =
                        IF col < Len(@) THEN Splice(@, col, col + 1, << >>) ELSE @]
       ELSE IF row < Len(b.lines)
            THEN [b EXCEPT !.lines   = DeleteForwardText(@, col, row),
                           !.formats = JoinRows(@, row + 1)]
            ELSE b

DeleteForward(b, col, row) ==
  IF row \notin DOMAIN b.lines THEN b
  ELSE IF col < Len(b.lines[row])
       THEN [b EXCEPT !.lines = DeleteForwardText(@, col, row),
                      !.formats[row] =
                        IF col < Len(@) THEN Splice(@, col, col + 1, << >>) ELSE @]
       ELSE IF row < Len(b.lines)
            THEN WithoutRow([b EXCEPT !.lines   = DeleteForwardText(@, col, row),
                                      !.formats = JoinRows(@, row + 1)], row + 1)
            ELSE b

\* A bug to catch: the floats below the new row are not moved down.
InsertNewlineUnshifted(b, col, row) ==
  IF row \notin DOMAIN b.lines THEN b
  ELSE LET len == Len(b.lines[row])
           c   == Clamp(col, 0, len)
       IN  [lines     |-> InsertNewlineText(b.lines, c, row),
            formats   |-> SplitRow(EnsureLineFormatSize(b.formats, row, len), row, c),
            pageBreakBefore |-> InsertBelow(b.pageBreakBefore, row, FALSE),
            alignment |-> InsertBelow(b.alignment, row,
                                      RowValue(b.alignment, row, "left")),
            listLevel |-> InsertBelow(b.listLevel, row,
                                      RowValue(b.listLevel, row, 0)),
            anchors   |-> b.anchors]

\* The lower half inherits alignment and list level, never a page break; a
\* float stays with the upper half.
InsertNewline(b, col, row) ==
  IF row \notin DOMAIN b.lines THEN b
  ELSE LET len == Len(b.lines[row])
           c   == Clamp(col, 0, len)
       IN  [lines     |-> InsertNewlineText(b.lines, c, row),
            formats   |-> SplitRow(EnsureLineFormatSize(b.formats, row, len), row, c),
            pageBreakBefore |-> InsertBelow(b.pageBreakBefore, row, FALSE),
            alignment |-> InsertBelow(b.alignment, row,
                                      RowValue(b.alignment, row, "left")),
            listLevel |-> InsertBelow(b.listLevel, row,
                                      RowValue(b.listLevel, row, 0)),
            anchors   |-> ShiftAnchorsAtOrAfter(b.anchors, row + 1, 1)]

\* The text goes in first, and the formats are padded to its new length
\* before the formats of the pasted characters go in too.
InsertText(b, col, row, parts, fmt) ==
  IF row \notin DOMAIN b.lines THEN b
  ELSE LET lines == InsertTextText(b.lines, col, row, parts)
           fmts  == EnsureLineFormatSize(b.formats, row, Len(lines[row]))
           n     == Len(parts)
           head  == IF col > Len(fmts[row]) THEN Len(fmts[row]) ELSE col
           new   == n - 1
           PartFormats(i) == Fill(Len(parts[i]), fmt)
       IN  IF n = 1
           THEN [b EXCEPT !.lines = lines,
                          !.formats = [fmts EXCEPT ![row] =
                                         Splice(@, col, col, PartFormats(1))]]
           ELSE [lines   |-> lines,
                 formats |->
                   Splice(fmts, row - 1, row,
                          <<Take(fmts[row], head) \o PartFormats(1)>>
                            \o [i \in 1 .. n - 2 |-> PartFormats(i + 1)]
                            \o <<PartFormats(n) \o Drop(fmts[row], head)>>),
                 pageBreakBefore |->
                   Splice(b.pageBreakBefore, row, row, Fill(new, FALSE)),
                 alignment |->
                   Splice(b.alignment, row, row,
                          Fill(new, RowValue(b.alignment, row, "left"))),
                 listLevel |->
                   Splice(b.listLevel, row, row,
                          Fill(new, RowValue(b.listLevel, row, 0))),
                 anchors |-> ShiftAnchorsAtOrAfter(b.anchors, row + 1, new)]

EraseRowsPresent(s, from, to) ==
  LET high == IF to <= Len(s) THEN to ELSE Len(s)
  IN  IF from <= high THEN EraseRows(s, from, high) ELSE s

DeleteRange(b, startRow, startCol, endRow, endCol) ==
  LET r1 == Clamp(startRow, 1, Len(b.lines))
      r2 == Clamp(endRow, 1, Len(b.lines))
      c1 == Clamp(startCol, 0, Len(b.lines[r1]))
      c2 == Clamp(endCol, 0, Len(b.lines[r2]))
      fmts == EnsureLineFormatSize(EnsureLineFormatSize(b.formats, r1, c1), r2, c2)
      lines == DeleteRangeText(b.lines, r1, c1, r2, c2)
  IN  IF r1 = r2
      THEN [b EXCEPT !.lines = lines,
                     !.formats = [fmts EXCEPT ![r1] = Splice(@, c1, c2, << >>)]]
      ELSE [lines   |-> lines,
            formats |-> Splice(fmts, r1 - 1, r2,
                               <<Take(fmts[r1], c1) \o Drop(fmts[r2], c2)>>),
            pageBreakBefore |-> EraseRowsPresent(b.pageBreakBefore, r1 + 1, r2),
            alignment |-> EraseRowsPresent(b.alignment, r1 + 1, r2),
            listLevel |-> EraseRowsPresent(b.listLevel, r1 + 1, r2),
            anchors   |-> CollapseFloatAnchors(b.anchors, r1, r2)]

-----------------------------------------------------------------------------
FormatAt(b, row, col) ==
  IF row \in DOMAIN b.formats /\ col + 1 \in DOMAIN b.formats[row]
  THEN b.formats[row][col + 1]
  ELSE Plain

\* ApplyAcrossRange: the characters of the range that the text layer has.
SetFormatInRange(b, startRow, startCol, endRow, endCol, fmt) ==
  IF \/ startRow > endRow \/ (startRow = endRow /\ startCol >= endCol)
     \/ startRow < 1 \/ endRow > Len(b.formats)
  THEN b
  ELSE [b EXCEPT !.formats =
          [r \in DOMAIN @ |->
             IF r \in startRow .. endRow
             THEN LET len  == Len(b.lines[r])
                      from == IF r = startRow THEN startCol ELSE 0
                      to   == IF r = endRow /\ endCol < len THEN endCol ELSE len
                      row  == IF Len(@[r]) < len THEN Resize(@[r], len, Plain)
                              ELSE @[r]
                  IN  [i \in DOMAIN row |->
                         IF from < i /\ i <= to THEN fmt ELSE row[i]]
             ELSE @[r]]]

SetPageBreakBefore(b, row, on) ==
  IF row \in DOMAIN b.pageBreakBefore
  THEN [b EXCEPT !.pageBreakBefore[row] = on] ELSE b

SetAlignment(b, row, a) ==
  IF row \in DOMAIN b.alignment THEN [b EXCEPT !.alignment[row] = a] ELSE b

\* The packed byte of a paragraph: its nesting level, and a flag that is set
\* when it is numbered.
NumberedFlag == 64

kMaxListLevel == 6

ListLevel(b, row) == RowValue(b.listLevel, row, 0) % NumberedFlag

ListNumbered(b, row) == RowValue(b.listLevel, row, 0) >= NumberedFlag

\* A row keeps its kind, bulleted or numbered, until it leaves the list.
SetListLevel(b, row, level) ==
  IF row \in DOMAIN b.listLevel
  THEN [b EXCEPT !.listLevel[row] =
          IF level = 0 THEN 0 ELSE @ - (@ % NumberedFlag) + level]
  ELSE b

SetListNumbered(b, row, numbered) ==
  IF ListLevel(b, row) = 0 THEN b
  ELSE [b EXCEPT !.listLevel[row] =
          (@ % NumberedFlag) + (IF numbered THEN NumberedFlag ELSE 0)]

\* SetLines with SetFloats, given a snapshot of b: a restored buffer has the
\* layers cut or padded to the text.
Restored(b) ==
  LET n == Len(b.lines)
      f == Resize(b.formats, n, << >>)
  IN  [b EXCEPT !.formats = [r \in 1 .. n |-> Resize(f[r], Len(b.lines[r]), Plain)],
                !.pageBreakBefore = Resize(@, n, FALSE),
                !.alignment = Resize(@, n, "left"),
                !.listLevel = Resize(@, n, 0)]
=============================================================================
