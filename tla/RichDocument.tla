----------------------------- MODULE RichDocument -----------------------------
(***************************************************************************)
(* The document of an editing session: the live buffer, its file name, the *)
(* dirty flag, and the files it is loaded from and saved to.               *)
(*                                                                         *)
(* A buffer is told apart by what the undo history, the flattening and the *)
(* two file formats treat differently: the text (how much of it there is), *)
(* whether characters or lists are formatted, where its float lies (which  *)
(* stands for page breaks and alignment too: like floats they are in every *)
(* snapshot and survive flattening), and whether it is set in columns.     *)
(***************************************************************************)
EXTENDS Naturals

CONSTANTS
  MaxText,             \* bound on the text of a buffer
  RtfPaths, TxtPaths,  \* the files, by extension (IsRtfPath)
  Untitled,            \* the empty file name
  NoFile,              \* what a path holds that no file has
  Truncated,           \* a file opened with trunc whose write then failed
  Faults               \* the ways a write may fail, of WriteFaults

Buffers == [text: 0 .. MaxText, styled: BOOLEAN,
            float: {"none", "left", "right"}, columns: BOOLEAN]

ASSUME MaxTextAssumption == MaxText \in Nat
ASSUME PathsAssumption ==
  /\ RtfPaths \cap TxtPaths = {}
  /\ Untitled \notin RtfPaths \cup TxtPaths
ASSUME SentinelAssumption ==
  NoFile # Truncated /\ NoFile \notin Buffers /\ Truncated \notin Buffers

\* The file cannot be opened; a write fails; or it fails only when the file is
\* closed, which the destructor of the stream does, telling nobody.
WriteFaults == {"cannotOpen", "writeError", "closeError"}

ASSUME FaultsAssumption == Faults \subseteq WriteFaults

VARIABLES
  buf,                 \* m_buffer
  filename,            \* m_filename, Untitled when empty
  dirty,               \* m_dirty
  disk                 \* what each path holds

documentVars == <<buf, filename, dirty, disk>>

Paths == RtfPaths \cup TxtPaths

Blank == [text |-> 0, styled |-> FALSE, float |-> "none", columns |-> FALSE]

HasAnyFormatting(b) == b.styled \/ b.float # "none" \/ b.columns

\* Character formats and lists only.
FlattenAllStyles(b) == [b EXCEPT !.styled = FALSE]

\* A snapshot has every layer but the columns.
SnapshotOf(b) == [text |-> b.text, styled |-> b.styled, float |-> b.float]

\* SetLines and SetFloats: the columns are left as they are.
RestoredFrom(s, b) ==
  [b EXCEPT !.text = s.text, !.styled = s.styled, !.float = s.float]

\* What a write of b puts in the file: rich text keeps all of it, plain text
\* the lines only.
Encoded(path, b) ==
  IF path \in RtfPaths THEN b ELSE [Blank EXCEPT !.text = b.text]

Readable(path) ==
  /\ disk[path] # NoFile
  /\ ~(path \in RtfPaths /\ disk[path] = Truncated)

\* What a load of the file puts in the buffer.
Decoded(path) == IF disk[path] = Truncated THEN Blank ELSE disk[path]

DocumentInit ==
  /\ buf = Blank
  /\ filename = Untitled
  /\ dirty = FALSE
  /\ disk = [p \in Paths |-> NoFile]

-----------------------------------------------------------------------------
WriteOutcomes == {"ok"} \cup Faults

\* The rich writer reports a failed stream, the plain writer does not look.
Succeeds(path, outcome) ==
  \/ outcome \in {"ok", "closeError"}
  \/ outcome = "writeError" /\ path \in TxtPaths

FileAfter(path, b, outcome) ==
  CASE outcome = "ok"         -> Encoded(path, b)
    [] outcome \in {"writeError", "closeError"} -> Truncated
    [] outcome = "cannotOpen" -> disk[path]

\* SaveAs, and Save when path is the document's own: the name and the dirty
\* flag change only if the write reports success.
WriteDocument(path, b, outcome) ==
  /\ disk' = [disk EXCEPT ![path] = FileAfter(path, b, outcome)]
  /\ filename' = IF Succeeds(path, outcome) THEN path ELSE filename
  /\ dirty' = (dirty /\ ~Succeeds(path, outcome))
  /\ buf' = b

LoadDocument(path) ==
  /\ buf' = Decoded(path)
  /\ filename' = path
  /\ dirty' = FALSE
  /\ UNCHANGED disk

NewDocument ==
  /\ buf' = Blank
  /\ filename' = Untitled
  /\ dirty' = FALSE
  /\ UNCHANGED disk
=============================================================================
