------------------------------ MODULE StyledText ------------------------------
(***************************************************************************)
(* What the formatted buffer promises: a document is a sequence of         *)
(* paragraphs, each with its formatted characters, its paragraph state and *)
(* the floats anchored to it, and an edit acts on paragraphs as a whole.   *)
(* There are no parallel vectors here to get out of step.                  *)
(***************************************************************************)
EXTENDS Naturals, Sequences

CONSTANTS Chars, Formats, Alignments, Levels

VARIABLE text          \* the paragraphs

Cells == Chars \X Formats

Paragraph(cells, break, align, level, floats) ==
  [cells |-> cells, break |-> break, align |-> align, level |-> level,
   floats |-> floats]

Before(p, col) == SubSeq(text[p].cells, 1, col)

After(p, col) == SubSeq(text[p].cells, col + 1, Len(text[p].cells))

Columns(p) == 0 .. Len(text[p].cells)

Above(p) == SubSeq(text, 1, p - 1)

Below(p) == SubSeq(text, p + 1, Len(text))

\* Adding up the floats of the paragraphs p to q.
FloatsIn(p, q) ==
  LET sum[i \in p .. q] == text[i].floats + (IF i = p THEN 0 ELSE sum[i - 1])
  IN  sum[q]

Init == text = <<Paragraph(<< >>, FALSE, "left", 0, 0)>>

\* Cells replace the (p, c) to (q, d) range; p keeps its paragraph state and
\* gathers the floats of the paragraphs that go.
Replace(p, c, q, d, cells) ==
  text' = Above(p)
            \o <<[text[p] EXCEPT !.cells = Before(p, c) \o cells \o After(q, d),
                                 !.floats = FloatsIn(p, q)]>>
            \o Below(q)

Ordered(p, c, q, d) == p < q \/ (p = q /\ c <= d)

Insert(p, c, cell) == Replace(p, c, p, c, <<cell>>)

Cut(p, c, q, d) == Ordered(p, c, q, d) /\ Replace(p, c, q, d, << >>)

\* The lower half has the alignment and list level of the upper, no page
\* break and no float.
Split(p, c) ==
  text' = Above(p)
            \o <<[text[p] EXCEPT !.cells = Before(p, c)],
                 [text[p] EXCEPT !.cells = After(p, c), !.break = FALSE,
                                 !.floats = 0]>>
            \o Below(p)

\* The parts of a pasted text, joined to what lies before and after.
Paste(p, c, parts) ==
  LET n == Len(parts)
      Part(i) == (IF i = 1 THEN Before(p, c) ELSE << >>)
                   \o parts[i]
                   \o (IF i = n THEN After(p, c) ELSE << >>)
  IN  text' = Above(p)
                \o [i \in 1 .. n |->
                      [text[p] EXCEPT !.cells = Part(i),
                                      !.break = (i = 1) /\ @,
                                      !.floats = IF i = 1 THEN @ ELSE 0]]
                \o Below(p)

Format(p, c, q, d, f) ==
  text' = [i \in DOMAIN text |->
             [text[i] EXCEPT !.cells =
                [k \in DOMAIN @ |->
                   IF Ordered(p, c + 1, i, k) /\ Ordered(i, k, q, d)
                   THEN <<@[k][1], f>> ELSE @[k]]]]

SetParagraph(p) ==
  \/ \E x \in BOOLEAN : text' = [text EXCEPT ![p].break = x]
  \/ \E x \in Alignments : text' = [text EXCEPT ![p].align = x]
  \/ \E x \in Levels : text' = [text EXCEPT ![p].level = x]

AnchorFloat(p) ==
  \/ text' = [text EXCEPT ![p].floats = @ + 1]
  \/ text[p].floats > 0 /\ text' = [text EXCEPT ![p].floats = @ - 1]

\* Pastes is the set of texts, as parts, that may be pasted.
Next(Pastes) ==
  \E p \in DOMAIN text : \E c \in Columns(p) :
    \/ \E cell \in Cells : Insert(p, c, cell)
    \/ Split(p, c)
    \/ SetParagraph(p) \/ AnchorFloat(p)
    \/ \E q \in p .. Len(text) : \E d \in Columns(q) :
         Cut(p, c, q, d) \/ \E f \in Formats : Format(p, c, q, d, f)
    \/ \E parts \in Pastes : Paste(p, c, parts)
=============================================================================
