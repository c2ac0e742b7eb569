------------------------------- MODULE RtfFormat -------------------------------
(***************************************************************************)
(* A document as RTF: the words the writer emits for the body of a buffer, *)
(* and the buffer the reader builds from them.  Most of the state that the *)
(* words set is sticky, and the writer emits a word only when the state    *)
(* that the reader is in differs from what the text needs; the two must    *)
(* agree on what each word changes, `pard' above all.                      *)
(*                                                                         *)
(* The spelling of a word, the tables of fonts and colours, the properties *)
(* of a float and the columns of the document are left out.                *)
(***************************************************************************)
EXTENDS FormattedTextBuffer, FiniteSets

Seqs == INSTANCE SequencesExt

CONSTANTS
  Inherit,             \* CharFormat::Inherit, and a style with no bit set
  DocumentFormat,      \* what the document's defaults make of an Inherit
  ControlChars         \* the characters below 0x20, tabs among them

Word(word, arg) == [word |-> word, arg |-> arg]

-----------------------------------------------------------------------------
(***************************************************************************)
(* The writer.  What it last emitted is what the previous character, or    *)
(* the previous row, asked for.                                            *)
(***************************************************************************)
FormatFields == {"face", "size", "color", "highlight", "style"}

Wanted(f) == [x \in DOMAIN f |-> IF f[x] = Inherit THEN DocumentFormat[x] ELSE f[x]]

\* The format that is current when the writer comes to a character.
CurrentFormat(b, row, col) ==
  LET above == {r \in 1 .. row - 1 : b.lines[r] # << >>}
      last  == CHOOSE r \in above : \A s \in above : s <= r
  IN  IF col > 0 THEN Wanted(FormatAt(b, row, col - 1))
      ELSE IF above = {} THEN DocumentFormat
      ELSE Wanted(FormatAt(b, last, Len(b.lines[last]) - 1))

FormatWords(current, wanted) ==
  LET Changed(x) == IF current[x] = wanted[x] THEN << >>
                    ELSE <<Word(x, wanted[x])>>
  IN  Changed("face") \o Changed("size") \o Changed("color")
        \o Changed("highlight") \o Changed("style")

\* EmitChar drops a control character.
CharWords(b, row, col) ==
  FormatWords(CurrentFormat(b, row, col), Wanted(FormatAt(b, row, col)))
    \o (IF b.lines[row][col + 1] \in ControlChars THEN << >>
        ELSE <<Word("char", b.lines[row][col + 1])>>)

ListChanges(b, row) ==
  \/ ListLevel(b, row) # ListLevel(b, row - 1)
  \/ ListLevel(b, row) > 0 /\ ListNumbered(b, row) # ListNumbered(b, row - 1)

ListWords(b, row) ==
  IF ~ListChanges(b, row) THEN << >>
  ELSE IF ListLevel(b, row) > 0
       THEN <<Word("ilvl", ListLevel(b, row) - 1), Word("pn", ListNumbered(b, row))>>
       ELSE <<Word("pard", Inherit)>>

\* A bug to catch: the alignment that `pard' resets is taken to be current.
AlignmentWordsOverPard(b, row) ==
  IF b.alignment[row] = RowValue(b.alignment, row - 1, "left") THEN << >>
  ELSE <<Word("align", b.alignment[row])>>

AlignmentWords(b, row) ==
  LET current == IF ListChanges(b, row) /\ ListLevel(b, row) = 0 THEN "left"
                 ELSE RowValue(b.alignment, row - 1, "left")
  IN  IF b.alignment[row] = current THEN << >>
      ELSE <<Word("align", b.alignment[row])>>

ShapeWords(b, row) ==
  Fill(Cardinality({i \in DOMAIN b.anchors : b.anchors[i] = row}),
       Word("shp", Inherit))

RowEnd(b, row) ==
  IF row = Len(b.lines) THEN << >>
  ELSE <<Word("par", Inherit)>>
         \o (IF b.pageBreakBefore[row + 1] THEN <<Word("page", Inherit)>> ELSE << >>)

RowWords(b, row) ==
  ListWords(b, row) \o AlignmentWords(b, row) \o ShapeWords(b, row)
    \o Seqs!FlattenSeq([i \in DOMAIN b.lines[row] |-> CharWords(b, row, i - 1)])
    \o RowEnd(b, row)

Write(b) == Seqs!FlattenSeq([row \in DOMAIN b.lines |-> RowWords(b, row)])

-----------------------------------------------------------------------------
(***************************************************************************)
(* The reader: the rows so far, and the sticky state.                      *)
(***************************************************************************)
Parser ==
  [out |-> EmptyBuffer, format |-> DocumentFormat, alignment |-> "left",
   level |-> 0, numbered |-> FALSE]

PackedList(p) ==
  IF p.level = 0 THEN 0 ELSE p.level + (IF p.numbered THEN NumberedFlag ELSE 0)

\* What matches the document's default is not pinned.
Resolve(format) ==
  [x \in DOMAIN format |-> IF format[x] = DocumentFormat[x] THEN Inherit ELSE format[x]]

EmitNewline(p) ==
  [p EXCEPT !.out =
     [lines           |-> Append(@.lines, << >>),
      formats         |-> Append(@.formats, << >>),
      pageBreakBefore |-> Append(@.pageBreakBefore, FALSE),
      alignment       |-> Append(@.alignment, p.alignment),
      listLevel       |-> Append(@.listLevel, PackedList(p)),
      anchors         |-> @.anchors]]

EmitByte(p, ch) ==
  LET row == Len(p.out.lines)
  IN  [p EXCEPT !.out.lines[row] = Append(@, ch),
                !.out.formats[row] = Append(@, Resolve(p.format))]

\* The break is put on the row it comes before, at once: the line that is
\* open is empty, or is closed first.
EmitPage(p) ==
  LET q == IF p.out.lines[Len(p.out.lines)] = << >> THEN p ELSE EmitNewline(p)
  IN  [q EXCEPT !.out.pageBreakBefore[Len(q.out.lines)] = TRUE]

SetAlign(p, a) ==
  [p EXCEPT !.alignment = a, !.out.alignment[Len(p.out.lines)] = a]

SetList(p, level, numbered) ==
  LET q == [p EXCEPT !.level = level, !.numbered = numbered]
  IN  [q EXCEPT !.out.listLevel[Len(q.out.lines)] = PackedList(q)]

EmitShape(p) == [p EXCEPT !.out.anchors = Append(@, Len(p.out.lines))]

HandleControlWord(p, w) ==
  CASE w.word = "char"  -> EmitByte(p, w.arg)
    [] w.word = "par"   -> EmitNewline(p)
    [] w.word = "page"  -> EmitPage(p)
    [] w.word = "align" -> SetAlign(p, w.arg)
    [] w.word = "ilvl"  -> SetList(p, Clamp(w.arg + 1, 0, kMaxListLevel), p.numbered)
    [] w.word = "pn"    -> SetList(p, p.level, w.arg)
    [] w.word = "pard"  -> SetList(SetAlign(p, "left"), 0, FALSE)
    [] w.word = "shp"   -> EmitShape(p)
    [] OTHER            -> [p EXCEPT !.format[w.word] = w.arg]

DropLastRow(rows) == Take(rows, Len(rows) - 1)

\* A trailing row without text goes, with all that its paragraph had.
Finalize(b) ==
  LET n    == Len(b.lines)
      kept == IF n > 1 /\ b.lines[n] = << >>
              THEN [b EXCEPT !.lines = DropLastRow(@), !.formats = DropLastRow(@),
                             !.pageBreakBefore = DropLastRow(@),
                             !.alignment = DropLastRow(@),
                             !.listLevel = DropLastRow(@)]
              ELSE b
  IN  Restored([kept EXCEPT !.anchors =
                  [i \in DOMAIN @ |-> Clamp(@[i], 1, Len(kept.lines))]])

\* The state after all of the words.
Run(words) ==
  LET after[i \in 0 .. Len(words)] ==
        IF i = 0 THEN Parser ELSE HandleControlWord(after[i - 1], words[i])
  IN  after[Len(words)]

Read(words) == Finalize(Run(words).out)
=============================================================================
