----------------------------- MODULE SavedDocument -----------------------------
(***************************************************************************)
(* A document as it is built up, with what a save to .rtf followed by an   *)
(* open makes of it and the numbers its lists show.                        *)
(***************************************************************************)
EXTENDS BufferLayers, RtfFormat, ListNumbers

CONSTANT MaxMarks      \* bound on the characters, the floats and the paragraph
                       \* properties of a document taken together

ASSUME MaxMarksAssumption == MaxMarks \in Nat
ASSUME ControlCharsAssumption == ControlChars \subseteq Chars
ASSUME FormatsAssumption ==
  \A f \in Formats \cup {DocumentFormat} : f = [x \in FormatFields |-> f[x]]

Marks(b) ==
  LET Set(x, default) == Cardinality({r \in DOMAIN x : x[r] # default})
  IN  LengthOf(b.lines) + Len(b.anchors) + Set(b.pageBreakBefore, FALSE)
        + Set(b.alignment, "left") + Set(b.listLevel, 0)

\* At the ends of the lines: edits elsewhere lead to no other document.
Build ==
  /\ \/ Break(Len(buffer.lines), Len(buffer.lines[Len(buffer.lines)]))
     \/ \E row \in Rows :
          \/ Type(row, Len(buffer.lines[row]))
          \/ FormatParagraph(row)
          \/ AddFloat(row)
  /\ Marks(buffer') <= MaxMarks

BuildSpec == Init /\ [][Build]_buffer

-----------------------------------------------------------------------------
\* The columns of a row down to col that show a character, and the i-th.
ShownTo(b, r, col) == {c \in 1 .. col : b.lines[r][c] \notin ControlChars}

ShownColumn(b, r, i) ==
  CHOOSE c \in ShownTo(b, r, Len(b.lines[r])) : Cardinality(ShownTo(b, r, c)) = i

\* The floats down to a row, and the row of the i-th.
FloatsTo(b, r) == {i \in DOMAIN b.anchors : b.anchors[i] <= r}

FloatRow(b, i) ==
  CHOOSE r \in DOMAIN b.lines :
    Cardinality(FloatsTo(b, r - 1)) < i /\ i <= Cardinality(FloatsTo(b, r))

(***************************************************************************)
(* What a save keeps.  The last row goes if it shows no character, with    *)
(* its break, alignment and list; a float of that row moves up.  So does   *)
(* every control character, and the break before the first row.  Floats    *)
(* come back in the order of their rows, and a format pinned to what the   *)
(* document has anyway comes back unpinned.                                *)
(***************************************************************************)
Kept(b) ==
  LET Shown(r) == Cardinality(ShownTo(b, r, Len(b.lines[r])))
      n == Len(b.lines)
      rows == 1 .. IF n > 1 /\ Shown(n) = 0 THEN n - 1 ELSE n
      OnRow(a) == IF a \in rows THEN a ELSE n - 1
  IN  [lines   |-> [r \in rows |->
                      [i \in 1 .. Shown(r) |-> b.lines[r][ShownColumn(b, r, i)]]],
       formats |-> [r \in rows |->
                      [i \in 1 .. Shown(r) |->
                         Resolve(Wanted(b.formats[r][ShownColumn(b, r, i)]))]],
       pageBreakBefore |-> [r \in rows |-> r > 1 /\ b.pageBreakBefore[r]],
       alignment |-> [r \in rows |-> b.alignment[r]],
       listLevel |-> [r \in rows |-> b.listLevel[r]],
       anchors   |-> [i \in DOMAIN b.anchors |-> OnRow(FloatRow(b, i))]]

(***************************************************************************)
(* A document saved to .rtf and opened again is the document, but for what *)
(* Kept says: the writer, which leaves out every word it takes the reader  *)
(* to know, and the reader, which carries its state across rows, agree on  *)
(* that state after every sequence of rows (RtfWriter::Write, RtfReader).  *)
(***************************************************************************)
RoundTripKeeps == Read(Write(buffer)) = Kept(buffer)

(***************************************************************************)
(* Each ordinal of a number is the count of the items that a reader sees   *)
(* at its level under the same parents, and 1 where there is no item to    *)
(* count (ComputeNumberedLabels, whose counters are reset from three       *)
(* places).                                                                *)
(***************************************************************************)
NumbersCountSiblings ==
  \A r \in Rows :
    LET label == ComputeNumberedLabels(buffer)[r]
    IN  IF ~ListNumbered(buffer, r) THEN label = << >>
        ELSE /\ Len(label) = ListLevel(buffer, r)
             /\ \A k \in DOMAIN label :
                  LET n == Cardinality(Siblings(buffer, r, k))
                  IN  label[k] = IF n = 0 THEN 1 ELSE n

(***************************************************************************)
(* In one list the number of an item that has its parents is below that of *)
(* every later item, bullets and levels between them whatever they are: no *)
(* later item shows the same number.                                       *)
(***************************************************************************)
NumbersIncrease ==
  \A s \in Rows : \A r \in 1 .. s - 1 :
    /\ ListNumbered(buffer, r) /\ HasParents(buffer, r)
    /\ ListNumbered(buffer, s)
    /\ OneRun(buffer, r, s)
    => Precedes(ComputeNumberedLabels(buffer)[r], ComputeNumberedLabels(buffer)[s])
=============================================================================
