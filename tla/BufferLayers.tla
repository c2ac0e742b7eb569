----------------------------- MODULE BufferLayers -----------------------------
(***************************************************************************)
(* The formatted buffer under the edits of the application, at any caret   *)
(* and over any selection of the text.                                     *)
(***************************************************************************)
EXTENDS FormattedTextBuffer, FiniteSets

CONSTANTS
  Chars, Formats,      \* characters, and the formats they may have
  Alignments, Levels,  \* the alignments and list levels a paragraph may get
  Kinds,               \* and whether its list may be numbered
  Pastes,              \* texts that may be pasted, as sequences of parts
  MaxRows, MaxChars,   \* bounds on the lines and on all their characters,
  MaxFormats,          \* on the character formats kept, and
  MaxFloats            \* on the floats

ASSUME PlainAssumption == Plain \in Formats
ASSUME BoundsAssumption ==
  /\ MaxRows \in Nat \ {0} /\ MaxChars \in Nat
  /\ MaxFormats \in Nat /\ MaxFloats \in Nat
ASSUME KindsAssumption == Kinds \subseteq BOOLEAN
ASSUME LevelsAssumption == Levels \subseteq 0 .. NumberedFlag - 1
ASSUME PastesAssumption == Pastes \subseteq Seq(Seq(Chars)) \ {<< >>}

VARIABLE buffer

Init == buffer = EmptyBuffer

Rows == DOMAIN buffer.lines

Columns(row) == 0 .. Len(buffer.lines[row])

LengthOf(rows) ==
  LET sum[r \in 0 .. Len(rows)] == IF r = 0 THEN 0 ELSE sum[r - 1] + Len(rows[r])
  IN  sum[Len(rows)]

WithinBounds ==
  /\ Len(buffer.lines) <= MaxRows
  /\ LengthOf(buffer.lines) <= MaxChars
  /\ LengthOf(buffer.formats) <= MaxFormats

Type(row, col) ==
  /\ \E ch \in Chars, fmt \in Formats :
       buffer' = InsertChar(buffer, col, row, ch, fmt)
  /\ WithinBounds'

Erase(row, col) ==
  \/ buffer' = Backspace(buffer, col, row)
  \/ buffer' = DeleteForward(buffer, col, row)

Break(row, col) ==
  /\ buffer' = InsertNewline(buffer, col, row)
  /\ WithinBounds'

PasteText(row, col) ==
  \E parts \in Pastes, fmt \in Formats :
    /\ buffer' = InsertText(buffer, col, row, parts, fmt)
    /\ WithinBounds'

\* A selection, normalised by Selection::GetRange.
OverSelection(row, col) ==
  \E endRow \in row .. Len(buffer.lines) : \E endCol \in Columns(endRow) :
    /\ row < endRow \/ col < endCol
    /\ \/ buffer' = DeleteRange(buffer, row, col, endRow, endCol)
       \/ \E fmt \in Formats :
            buffer' = SetFormatInRange(buffer, row, col, endRow, endCol, fmt)

FormatParagraph(row) ==
  \/ \E on \in BOOLEAN : buffer' = SetPageBreakBefore(buffer, row, on)
  \/ \E a \in Alignments : buffer' = SetAlignment(buffer, row, a)
  \/ \E level \in Levels : buffer' = SetListLevel(buffer, row, level)
  \/ \E numbered \in Kinds : buffer' = SetListNumbered(buffer, row, numbered)

AddFloat(row) ==
  /\ Len(buffer.anchors) < MaxFloats
  /\ buffer' = [buffer EXCEPT !.anchors = Append(@, row)]

RemoveFloat ==
  \E i \in DOMAIN buffer.anchors :
    buffer' = [buffer EXCEPT !.anchors = EraseRows(@, i, i)]

\* An undo installs a snapshot, which has the layers cut to the text.
InstallSnapshot == buffer' = Restored(buffer)

Next ==
  \/ \E row \in Rows :
       \/ \E col \in Columns(row) :
            \/ Type(row, col) \/ Erase(row, col) \/ Break(row, col)
            \/ PasteText(row, col) \/ OverSelection(row, col)
       \/ FormatParagraph(row)
       \/ AddFloat(row)
  \/ RemoveFloat
  \/ InstallSnapshot

Spec == Init /\ [][Next]_buffer

-----------------------------------------------------------------------------
(***************************************************************************)
(* The vectors stay parallel and in range, which the iterator arithmetic   *)
(* of the next edit relies on: every layer has one row per line.           *)
(***************************************************************************)
LayersParallel ==
  LET n == Len(buffer.lines)
  IN  /\ n >= 1
      /\ Len(buffer.formats) = n
      /\ Len(buffer.pageBreakBefore) = n
      /\ Len(buffer.alignment) = n
      /\ Len(buffer.listLevel) = n

(***************************************************************************)
(* Every character has a format of its own, also after a paste, which      *)
(* leaves rows with more formats than characters.                          *)
(***************************************************************************)
FormatsCoverText ==
  \A r \in DOMAIN buffer.lines : Len(buffer.formats[r]) >= Len(buffer.lines[r])

(***************************************************************************)
(* Every float is anchored to a row there is, through splits, joins, range *)
(* deletions and pastes above, at and below its row.                       *)
(***************************************************************************)
AnchorsInRange ==
  \A i \in DOMAIN buffer.anchors : buffer.anchors[i] \in Rows
=============================================================================
