---------------------------- MODULE MCBufferLayers ----------------------------
(***************************************************************************)
(* BufferLayers on a small instance, and the mapping under which its edits *)
(* are the edits of StyledText.                                            *)
(***************************************************************************)
EXTENDS BufferLayers

\* A word, and two lines with a word each.
WordPastes == {<<<<"x">>>>, <<<<"x">>, <<"x">>>>}

ParagraphOf(b, r) ==
  [cells  |-> [c \in DOMAIN b.lines[r] |->
                 <<b.lines[r][c], FormatAt(b, r, c - 1)>>],
   break  |-> b.pageBreakBefore[r],
   align  |-> b.alignment[r],
   level  |-> b.listLevel[r],
   floats |-> Cardinality({i \in DOMAIN b.anchors : b.anchors[i] = r})]

TextOf(b) == [r \in DOMAIN b.lines |-> ParagraphOf(b, r)]

\* The packed byte is a paragraph's level and whether its list is numbered.
ListBytes ==
  {0} \cup Levels \cup {level + NumberedFlag : level \in Levels \ {0}}

Styled == INSTANCE StyledText WITH
  text <- TextOf(buffer), Levels <- ListBytes

StyledPastes ==
  {[i \in DOMAIN parts |-> [k \in DOMAIN parts[i] |-> <<parts[i][k], fmt>>]] :
     parts \in Pastes, fmt \in Formats}

Step == Styled!Next(StyledPastes)

(***************************************************************************)
(* The parallel vectors implement a sequence of paragraphs: each edit acts *)
(* on one paragraph, or joins or splits paragraphs, and every character    *)
(* keeps the format it was given ("the two stay perfectly aligned",        *)
(* FormattedTextBuffer.h:13).                                              *)
(***************************************************************************)
ImplementsStyledText == Styled!Init /\ [][Step]_buffer

(***************************************************************************)
(* The same, wherever no row has more formats than characters: a surplus   *)
(* that a paste has left is all that can put the two out of step.          *)
(***************************************************************************)
NoSurplus ==
  \A r \in DOMAIN buffer.lines :
    Len(buffer.formats[r]) = Len(buffer.lines[r])

AlignedEditsImplementStyledText ==
  Styled!Init /\ [][NoSurplus => Step]_buffer
=============================================================================
