----------------------------- MODULE CaretEditing -----------------------------
(***************************************************************************)
(* The keys, the mouse and the find command over the buffer: where the     *)
(* caret and the selection's anchor go while the text changes under them.  *)
(*                                                                         *)
(* A character of a line is a byte, as in the code.  A codepoint outside   *)
(* ASCII is a lead byte and one continuation byte.  The formats of the     *)
(* characters are the subject of BufferLayers; nothing here reads them,    *)
(* and every step leaves their rows empty, which the buffer's methods pad. *)
(* Lines are taken to be short enough not to wrap.                         *)
(***************************************************************************)
EXTENDS FormattedTextBuffer, FiniteSets

CONSTANTS
  Typed,               \* the ASCII characters that are typed
  Lead, Continuation,  \* the bytes of a codepoint of two
  TabText,             \* what the Tab key inserts
  Texts,               \* clipboard texts and files, as sequences of lines
  Queries,             \* the texts searched for
  ListKinds,           \* the kinds of list put on: numbered TRUE, bullets FALSE
  MaxListLevel,        \* kMaxListLevel
  EditorRows,          \* m_layout.EDITOR_ROWS
  MaxRows, MaxBytes    \* bounds on the text

\* A line holds these.
Bytes == Typed \cup {Lead, Continuation}

ASSUME CharactersAssumption ==
  Lead \notin Typed /\ Continuation \notin Typed /\ Lead # Continuation

\* Tab inserts spaces; a text has a line, if an empty one; a search for
\* nothing is given up before the text is looked at.
ASSUME TextsAssumption ==
  /\ TabText \in Seq(Typed)
  /\ Texts \subseteq Seq(Seq(Bytes)) \ {<< >>}
  /\ Queries \subseteq Seq(Bytes) \ {<< >>}

ASSUME LevelsAssumption == MaxListLevel \in 1 .. NumberedFlag - 1
ASSUME KindsAssumption == ListKinds \subseteq BOOLEAN
ASSUME RowsAssumption == EditorRows \in Nat \ {0}

VARIABLES
  buffer,                \* m_document->Buffer()
  cursor,                \* m_cursor, a row and a column
  anchor,                \* m_selection: its anchor, or None when not active
  textSelectDragActive   \* m_textSelectDragActive

vars == <<buffer, cursor, anchor, textSelectDragActive>>

None == [row |-> 0, col |-> 0]

At(row, col) == [row |-> row, col |-> col]

Init ==
  /\ buffer = EmptyBuffer
  /\ cursor = At(1, 0)
  /\ anchor = None
  /\ textSelectDragActive = FALSE

Rows == DOMAIN buffer.lines

LastRow == Len(buffer.lines)

Line(row) == buffer.lines[row]

BytesIn(lines) ==
  LET sum[r \in 0 .. Len(lines)] == IF r = 0 THEN 0 ELSE sum[r - 1] + Len(lines[r])
  IN  sum[Len(lines)]

WithinBounds(b) == Len(b.lines) <= MaxRows /\ BytesIn(b.lines) <= MaxBytes

SetBuffer(b) ==
  /\ WithinBounds(b)
  /\ buffer' = [b EXCEPT !.formats = [r \in DOMAIN b.lines |-> << >>]]

InText(p) == p.row \in Rows /\ p.col \in 0 .. Len(Line(p.row))

ClampedToLine(row, col) ==
  LET r == Clamp(row, 1, LastRow) IN At(r, Clamp(col, 0, Len(Line(r))))

IsContinuation(line, col) ==
  col < Len(line) /\ line[col + 1] = Continuation

\* Utf8LeadByteOffset: back over continuation bytes, to the line's start at
\* the furthest.
LeadAt(line, col) ==
  CHOOSE k \in 0 .. col :
    /\ k = 0 \/ ~ IsContinuation(line, k)
    /\ \A j \in k + 1 .. col : IsContinuation(line, j)

-----------------------------------------------------------------------------
(***************************************************************************)
(* The selection.                                                          *)
(***************************************************************************)
\* Active and not empty: only then is it drawn, and only then do the commands
\* act on it.
Selected == anchor # None /\ anchor # cursor

\* Active and empty.
Pending == anchor # None /\ anchor = cursor

GetRange ==
  IF NotAfter(anchor, cursor) THEN [from |-> anchor, to |-> cursor]
  ELSE [from |-> cursor, to |-> anchor]

UpdateSelection(shift) ==
  /\ InText(cursor)
  /\ anchor' = IF ~ shift THEN None ELSE IF anchor = None THEN cursor ELSE anchor

\* A bug to catch: the caret stays where the erased text ended.
ErasedCaretStays ==
  IF ~ Selected THEN [buffer |-> buffer, cursor |-> cursor, anchor |-> anchor]
  ELSE LET range == GetRange
       IN  [buffer |-> DeleteRange(buffer, range.from.row, range.from.col,
                                   range.to.row, range.to.col),
            cursor |-> range.to, anchor |-> None]

\* A bug to catch: the selection is not cleared.
ErasedStaysSelected ==
  IF ~ Selected THEN [buffer |-> buffer, cursor |-> cursor, anchor |-> anchor]
  ELSE LET range == GetRange
       IN  [buffer |-> DeleteRange(buffer, range.from.row, range.from.col,
                                   range.to.row, range.to.col),
            cursor |-> range.from, anchor |-> anchor]

\* What an edit starts from: the buffer without the selected text, the caret
\* where that began, and no selection.
Erased ==
  IF ~ Selected THEN [buffer |-> buffer, cursor |-> cursor, anchor |-> anchor]
  ELSE LET range == GetRange
       IN  [buffer |-> DeleteRange(buffer, range.from.row, range.from.col,
                                   range.to.row, range.to.col),
            cursor |-> range.from, anchor |-> None]

\* An anchor that is no longer in the text gives DeleteRange an end before
\* the start, and a caret that is not is used to index its line: what an edit
\* or a caret key then does is undefined, and not modelled.
EraseDefined == InText(cursor) /\ (Selected => InText(anchor))

-----------------------------------------------------------------------------
(***************************************************************************)
(* Moving the caret.                                                       *)
(***************************************************************************)
LeftOf(p) ==
  IF p.col > 0
  THEN At(p.row, LeadAt(Line(p.row), p.col - 1))
  ELSE IF p.row > 1 THEN At(p.row - 1, Len(Line(p.row - 1))) ELSE p

NextLead(line, col) ==
  CHOOSE k \in col + 1 .. Len(line) :
    /\ ~ IsContinuation(line, k)
    /\ \A j \in col + 1 .. k - 1 : IsContinuation(line, j)

RightOf(p) ==
  IF p.col < Len(Line(p.row))
  THEN At(p.row, NextLead(Line(p.row), p.col))
  ELSE IF p.row < LastRow THEN At(p.row + 1, 0) ELSE p

Keyed == UNCHANGED <<buffer, textSelectDragActive>>

\* Left and Right without Shift go to an end of the selection, if there is one.
MoveHorizontally(shift, end, target) ==
  /\ IF ~ shift /\ Selected
     THEN cursor' = end /\ anchor' = None
     ELSE UpdateSelection(shift) /\ cursor' = target
  /\ Keyed

KeyLeft(shift)  == MoveHorizontally(shift, GetRange.from, LeftOf(cursor))

KeyRight(shift) == MoveHorizontally(shift, GetRange.to, RightOf(cursor))

\* NearestColumnByX: a glyph's X, and a tie goes to the lower column.  The
\* continuation byte has no width, so the end of a codepoint of two bytes is
\* where its middle is.  Which of the columns is nearest is for the glyphs.
NearestColumns(line, fromCol) ==
  IF fromCol = 0 THEN {0}
  ELSE {0} \cup {c \in DOMAIN line : line[c] # Continuation}

MoveToRow(row) ==
  IF row \in Rows
  THEN \E c \in NearestColumns(Line(row), cursor.col) : cursor' = At(row, c)
  ELSE UNCHANGED cursor

KeyUp(shift) == UpdateSelection(shift) /\ MoveToRow(cursor.row - 1) /\ Keyed

KeyDown(shift) == UpdateSelection(shift) /\ MoveToRow(cursor.row + 1) /\ Keyed

\* Page Up and Page Down keep the byte column, clamped to the line.
KeyPage(shift) ==
  /\ UpdateSelection(shift)
  /\ \E rows \in {- EditorRows, EditorRows} :
       cursor' = ClampedToLine(cursor.row + rows, cursor.col)
  /\ Keyed

KeyHomeEnd(shift) ==
  /\ UpdateSelection(shift)
  /\ \E col \in {0, Len(Line(cursor.row))} : cursor' = At(cursor.row, col)
  /\ Keyed

SelectAll ==
  /\ anchor' = At(1, 0)
  /\ cursor' = At(LastRow, Len(Line(LastRow)))
  /\ Keyed

-----------------------------------------------------------------------------
(***************************************************************************)
(* The mouse.  HitTest gives the column of a lead byte or a line's end.    *)
(***************************************************************************)
HitPlaces ==
  UNION {{At(r, LeadAt(Line(r), c)) : c \in 0 .. Len(Line(r))} : r \in Rows}

PressText ==
  /\ \E p \in HitPlaces : cursor' = p /\ anchor' = p
  /\ textSelectDragActive' = TRUE
  /\ UNCHANGED buffer

DragText ==
  /\ textSelectDragActive
  /\ \E p \in HitPlaces : cursor' = p
  /\ UNCHANGED <<buffer, anchor, textSelectDragActive>>

ReleaseText ==
  /\ textSelectDragActive
  /\ textSelectDragActive' = FALSE
  /\ anchor' = IF anchor = cursor THEN None ELSE anchor
  /\ UNCHANGED <<buffer, cursor>>

-----------------------------------------------------------------------------
(***************************************************************************)
(* Editing.  Every handler pushes its undo step first, see EditSession.    *)
(***************************************************************************)
Result(b, row, col, a) ==
  /\ SetBuffer(b)
  /\ cursor' = At(row, col)
  /\ anchor' = a
  /\ UNCHANGED textSelectDragActive

\* HandleTextInput.
TypeCharacter ==
  /\ EraseDefined
  /\ LET e == Erased
         p == e.cursor
     IN  \E ch \in Typed :
           Result(InsertChar(e.buffer, p.col, p.row, ch, Plain),
                  p.row, p.col + 1, e.anchor)

KeyReturn ==
  /\ EraseDefined
  /\ LET e == Erased
         p == e.cursor
     IN  Result(InsertNewline(e.buffer, p.col, p.row), p.row + 1, 0, e.anchor)

InsertPageBreak ==
  /\ EraseDefined
  /\ LET e == Erased
         p == e.cursor
         b == InsertNewline(e.buffer, p.col, p.row)
     IN  Result(SetPageBreakBefore(b, p.row + 1, TRUE), p.row + 1, 0, None)

\* The caret ends up behind the last character that came in.
Insert(parts, a) ==
  LET e    == Erased
      p    == e.cursor
      n    == Len(parts)
      col  == Len(parts[n]) + IF n = 1 THEN p.col ELSE 0
  IN  Result(InsertText(e.buffer, p.col, p.row, parts, Plain), p.row + n - 1, col, a)

AtListItemStart == ListLevel(buffer, cursor.row) >= 1 /\ cursor.col = 0

\* A bug to catch: the nesting level is not capped.
KeyTabUncapped(shift) ==
  IF AtListItemStart
  THEN LET level == ListLevel(buffer, cursor.row)
           new   == IF ~ shift THEN level + 1
                    ELSE IF level > 1 THEN level - 1 ELSE level
       IN  Result(SetListLevel(buffer, cursor.row, new),
                  cursor.row, cursor.col, anchor)
  ELSE EraseDefined /\ Insert(<<TabText>>, Erased.anchor)

KeyTab(shift) ==
  IF AtListItemStart
  THEN LET level == ListLevel(buffer, cursor.row)
           new   == IF ~ shift
                    THEN IF level < MaxListLevel THEN level + 1 ELSE MaxListLevel
                    ELSE IF level > 1 THEN level - 1 ELSE level
       IN  Result(SetListLevel(buffer, cursor.row, new),
                  cursor.row, cursor.col, anchor)
  ELSE EraseDefined /\ Insert(<<TabText>>, Erased.anchor)

PasteClipboard == EraseDefined /\ \E parts \in Texts : Insert(parts, None)

DeleteSelection ==
  /\ Selected /\ EraseDefined
  /\ Result(Erased.buffer, Erased.cursor.row, Erased.cursor.col, None)

\* Ctrl+X; Ctrl+C leaves everything but the clipboard as it was.
CutSelection == DeleteSelection

Unselected == ~ Selected /\ InText(cursor)

EraseBack(col) ==
  Result(DeleteRange(buffer, cursor.row, col, cursor.row, cursor.col),
         cursor.row, col, anchor)

\* At the start of a list item Backspace leaves a level of nesting.
Outdent ==
  Result(SetListLevel(buffer, cursor.row, ListLevel(buffer, cursor.row) - 1),
         cursor.row, cursor.col, anchor)

JoinWithPrevious ==
  Result(Backspace(buffer, 0, cursor.row),
         cursor.row - 1, Len(Line(cursor.row - 1)), anchor)

\* A bug to catch: one byte goes, whatever the character.
KeyBackspaceByte ==
  \/ DeleteSelection
  \/ Unselected /\ cursor.col > 0 /\ EraseBack(cursor.col - 1)
  \/ Unselected /\ AtListItemStart /\ Outdent
  \/ /\ Unselected /\ cursor.col = 0 /\ ~ AtListItemStart /\ cursor.row > 1
     /\ JoinWithPrevious

KeyBackspace ==
  \/ DeleteSelection
  \/ /\ Unselected /\ cursor.col > 0
     /\ EraseBack(LeadAt(Line(cursor.row), cursor.col - 1))
  \/ Unselected /\ AtListItemStart /\ Outdent
  \/ /\ Unselected /\ cursor.col = 0 /\ ~ AtListItemStart /\ cursor.row > 1
     /\ JoinWithPrevious

\* Utf8CodepointSize: a stray continuation byte counts as one.
CodepointSize(byte) == IF byte = Lead THEN 2 ELSE 1

EraseCodepoint(row, col) ==
  LET line == Line(row)
      end  == Clamp(col + CodepointSize(line[col + 1]), 0, Len(line))
  IN  Result(DeleteRange(buffer, row, col, row, end), row, col, anchor)

KeyDelete ==
  \/ DeleteSelection
  \/ /\ Unselected /\ cursor.col < Len(Line(cursor.row))
     /\ EraseCodepoint(cursor.row, cursor.col)
  \/ /\ Unselected /\ cursor.col = Len(Line(cursor.row)) /\ cursor.row < LastRow
     /\ Result(DeleteForward(buffer, cursor.col, cursor.row),
               cursor.row, cursor.col, anchor)

\* The paragraphs a paragraph command acts on.
Span == IF Selected THEN GetRange.from.row .. GetRange.to.row ELSE {cursor.row}

\* ApplyListToggle: the first row says whether the list is put on or off.
ToggleList(numbered) ==
  LET first == IF Selected THEN GetRange.from.row ELSE cursor.row
      on    == ~ (/\ ListLevel(buffer, first) >= 1
                  /\ ListNumbered(buffer, first) = numbered)
      Level(r) == IF ListLevel(buffer, r) >= 1 THEN ListLevel(buffer, r) ELSE 1
      Toggled(r) == IF ~ on THEN SetListLevel(buffer, r, 0)
                    ELSE SetListNumbered(SetListLevel(buffer, r, Level(r)), r, numbered)
      list == [r \in DOMAIN buffer.listLevel |->
                 IF r \in Span THEN Toggled(r).listLevel[r]
                 ELSE buffer.listLevel[r]]
  IN  Result([buffer EXCEPT !.listLevel = list], cursor.row, cursor.col, anchor)

-----------------------------------------------------------------------------
(***************************************************************************)
(* Find.  The place the search begins at, m_findFromRow and m_findFromCol, *)
(* is the caret or the match of an earlier time, of another document even: *)
(* it may be any place that a text has.                                    *)
(***************************************************************************)
StalePlaces == [row : 1 .. MaxRows, col : 0 .. MaxBytes]

DoFind ==
  /\ \E query \in Queries, from \in StalePlaces :
       LET found == FindNextText(buffer.lines, query, from.row, from.col)
       IN  /\ found # NotFound
           /\ cursor' = At(found.row, found.col + Len(query))
           /\ anchor' = found
  /\ Keyed

\* New and Open put the caret at the start; a drag that is on goes on.
LoadDocument ==
  /\ \E lines \in Texts \cup {EmptyBuffer.lines} :
       LET n == Len(lines)
       IN  SetBuffer([EmptyBuffer EXCEPT !.lines = lines,
                        !.pageBreakBefore = Fill(n, FALSE),
                        !.alignment = Fill(n, "left"),
                        !.listLevel = Fill(n, 0)])
  /\ cursor' = At(1, 0)
  /\ anchor' = None
  /\ UNCHANGED textSelectDragActive

Move ==
  \/ \E shift \in BOOLEAN :
       \/ KeyLeft(shift) \/ KeyRight(shift) \/ KeyHomeEnd(shift)
  \/ SelectAll
  \/ PressText \/ DragText \/ ReleaseText
  \/ DoFind

MoveVertically ==
  \E shift \in BOOLEAN : KeyUp(shift) \/ KeyDown(shift) \/ KeyPage(shift)

Edit ==
  \/ TypeCharacter
  \/ KeyReturn \/ InsertPageBreak
  \/ \E shift \in BOOLEAN : KeyTab(shift)
  \/ KeyBackspace \/ KeyDelete
  \/ CutSelection \/ PasteClipboard
  \/ \E numbered \in ListKinds : ToggleList(numbered)
  \/ LoadDocument

Next == Move \/ MoveVertically \/ Edit

Spec == Init /\ [][Next]_vars

-----------------------------------------------------------------------------
Places == [row : Nat, col : Nat]

(***************************************************************************)
(* The layers of the buffer are parallel, its lines hold bytes, its lists  *)
(* are no deeper than the code allows, and the caret and the anchor are    *)
(* places.                                                                 *)
(***************************************************************************)
TypeOK ==
  /\ \A r \in Rows : \A i \in DOMAIN Line(r) :
       Line(r)[i] \in Bytes
  /\ {DOMAIN buffer.formats, DOMAIN buffer.pageBreakBefore,
      DOMAIN buffer.alignment, DOMAIN buffer.listLevel} = {Rows}
  /\ \A r \in Rows : ListLevel(buffer, r) \in 0 .. MaxListLevel
  /\ cursor \in Places /\ anchor \in Places
  /\ textSelectDragActive \in BOOLEAN

(***************************************************************************)
(* The caret, and the anchor of an active selection, are places of the     *)
(* text: the mutators and the line accesses take them unclamped.           *)
(***************************************************************************)
PlacesInText == InText(cursor) /\ (anchor # None => InText(anchor))

(***************************************************************************)
(* An active, empty selection is not drawn, and the release of the mouse   *)
(* drops it "so a plain click doesn't carry an active (but invisible)      *)
(* selection" (Application.cpp:2145).  Shift with two opposite arrows      *)
(* leaves one too, and so does a press while the button is down; the edits *)
(* overlook it, and it spans text of theirs or a place that is gone.       *)
(*                                                                         *)
(* From any other state every command leaves caret and anchor in the text, *)
(* and no change of the text leaves a selection active.                    *)
(***************************************************************************)
PlacesStayInText ==
  [][PlacesInText /\ ~ Pending => PlacesInText']_vars

EditsUseSelectionUp ==
  [][buffer'.lines # buffer.lines /\ ~ Pending => anchor' = None]_vars

(***************************************************************************)
(* The text is UTF-8, and a place is not between the bytes of a codepoint. *)
(***************************************************************************)
WellFormed(line) ==
  \A i \in DOMAIN line :
    /\ line[i] = Lead <=> i < Len(line) /\ line[i + 1] = Continuation
    /\ line[i] = Continuation => i > 1

\* What is pasted, opened and searched for.
TextsAreUtf8 ==
  /\ \A parts \in Texts : \A i \in DOMAIN parts : WellFormed(parts[i])
  /\ \A query \in Queries : WellFormed(query)

OnCodepoint(p) == InText(p) => ~ IsContinuation(Line(p.row), p.col)

Whole ==
  /\ \A r \in Rows : WellFormed(Line(r))
  /\ OnCodepoint(cursor)
  /\ anchor # None => OnCodepoint(anchor)

(***************************************************************************)
(* From a caret and an anchor between codepoints, again, every edit keeps  *)
(* the text UTF-8, and every command but Up, Down, Page Up and Page Down   *)
(* keeps caret and anchor between codepoints ("moves over the whole        *)
(* codepoint and the cursor always lands on a lead byte",                  *)
(* Application.cpp:2637).                                                  *)
(***************************************************************************)
CodepointsStayWhole ==
  [][PlacesInText /\ ~ Pending /\ Whole => Whole' \/ MoveVertically]_vars

(***************************************************************************)
(* What Cut takes, Paste puts back: the text of the selection, inserted    *)
(* where the selection was, makes the text that was there before.          *)
(***************************************************************************)
CutThenPasteRestores ==
  Selected /\ PlacesInText =>
    LET from  == GetRange.from
        to    == GetRange.to
        parts == GetText(buffer.lines, from.row, from.col, to.row, to.col)
        cut   == DeleteRangeText(buffer.lines, from.row, from.col, to.row, to.col)
    IN  InsertTextText(cut, from.col, from.row, parts) = buffer.lines

(***************************************************************************)
(* Find, repeated from the caret, a match or a row that is gone, comes to  *)
(* every match there is but those that overlap one it came to; and it      *)
(* never says "Not found" of a text that has a match.                      *)
(***************************************************************************)
Overlap(p, q, n) == p.row = q.row /\ p.col < q.col + n /\ q.col < p.col + n

FindReachesEveryMatch ==
  \A query \in Queries, from \in {cursor, At(LastRow + 1, cursor.col)} :
    LET all == Matches(buffer.lines, query)
        found[n \in 0 .. Cardinality(all)] ==
          LET last == IF n = 0 THEN from ELSE found[n - 1]
          IN  FindNextText(buffer.lines, query, last.row, last.col)
    IN  \A m \in all :
          /\ \E n \in DOMAIN found : Overlap(m, found[n], Len(query))
          /\ \A n \in DOMAIN found : found[n] # NotFound
=============================================================================
