--------------------------- MODULE EditSessionProofs ---------------------------
(***************************************************************************)
(* The editing session for every set of files, of faults and of commands,  *)
(* every depth of history and every number of versions.                    *)
(***************************************************************************)
EXTENDS MCEditSession, RichUndoHistoryProofs

(***************************************************************************)
(* The parts of TypeOK, by the component that keeps them.                  *)
(***************************************************************************)
DocumentTyped ==
  /\ buf \in Buffers /\ dirty \in BOOLEAN
  /\ filename \in Paths \cup {Untitled}
  /\ disk \in [Paths -> Buffers \cup {NoFile, Truncated}]

HistoryTyped ==
  /\ StacksOver(Snapshots, Versions)
  /\ {versionCounter, currentVersion, savedVersion} \subseteq Versions

ModesTyped ==
  /\ {lastActionWasInsert, floatDragActive, exitAfterSave, running}
       \subseteq BOOLEAN
  /\ prompt \in Prompts
  /\ pendingSavePath \in Paths \cup {Untitled}
  /\ prompt = "ConfirmOverwrite" => pendingSavePath \in Paths

\* The question which format to keep is asked of a document with a plain file:
\* its answer writes that file, whose name an untitled document has not.
PlainQuestion == prompt = "ConfirmSaveAsRtf" => filename \in TxtPaths

IInv == TypeOK /\ PlainQuestion

\* The type invariant falls into three parts.
LEMMA TypeParts == TypeOK <=> DocumentTyped /\ HistoryTyped /\ ModesTyped
BY DEF TypeOK, DocumentTyped, HistoryTyped, ModesTyped, StacksOver

\* And so it does in the next state.
LEMMA TypePartsNext == TypeOK' <=> DocumentTyped' /\ HistoryTyped' /\ ModesTyped'
BY DEF TypeOK, DocumentTyped, HistoryTyped, ModesTyped, StacksOver

\* What a snapshot is taken of and what it is installed in.
LEMMA SnapshotTyped ==
  ASSUME NEW b \in Buffers
  PROVE  /\ SnapshotOf(b) \in Snapshots
         /\ \A s \in Snapshots : RestoredFrom(s, b) \in Buffers
<1>1. SnapshotOf(b) \in Snapshots
  BY DEF Snapshots
<1>2. ASSUME NEW s \in Snapshots
      PROVE  RestoredFrom(s, b) \in Buffers
  <2>1. PICK c \in Buffers : s = SnapshotOf(c)
    BY DEF Snapshots
  <2>2. s.text = c.text /\ s.styled = c.styled /\ s.float = c.float
    BY <2>1 DEF SnapshotOf
  <2>3. QED
    BY <2>2 DEF RestoredFrom, Buffers
<1>3. QED
  BY <1>1, <1>2

\* The buffer of a new document is a buffer.
LEMMA BlankTyped == Blank \in Buffers
BY MaxTextAssumption DEF Blank, Buffers

\* What a save of a buffer leaves behind, whatever goes wrong.
LEMMA WriteTyped ==
  ASSUME DocumentTyped, NEW path \in Paths, NEW b \in Buffers,
         NEW outcome \in WriteOutcomes, WriteDocument(path, b, outcome)
  PROVE  DocumentTyped'
<1>1. Encoded(path, b) \in Buffers
  BY BlankTyped DEF Encoded, Buffers, Blank
<1>2. outcome \in {"ok", "cannotOpen", "writeError", "closeError"}
  BY FaultsAssumption DEF WriteOutcomes, WriteFaults
<1>3. FileAfter(path, b, outcome) \in Buffers \cup {NoFile, Truncated}
  BY <1>1, <1>2 DEF FileAfter, DocumentTyped
<1>4. disk' \in [Paths -> Buffers \cup {NoFile, Truncated}]
  BY <1>3 DEF WriteDocument, DocumentTyped
<1>5. dirty' \in BOOLEAN
  BY DEF WriteDocument, DocumentTyped
<1>6. filename' \in Paths \cup {Untitled} /\ buf' \in Buffers
  BY DEF WriteDocument, DocumentTyped
<1>7. QED
  BY <1>4, <1>5, <1>6 DEF DocumentTyped

\* What is loaded is what some file holds.
LEMMA LoadTyped ==
  ASSUME DocumentTyped, NEW path \in Paths, Readable(path), LoadDocument(path)
  PROVE  DocumentTyped'
BY BlankTyped DEF DocumentTyped, Readable, LoadDocument, Decoded

\* Flattening for a plain file keeps to the buffers.
LEMMA FlatTyped == \A b \in Buffers : FlattenAllStyles(b) \in Buffers
BY DEF FlattenAllStyles, Buffers

\* An undo step is pushed, or the bound on the versions is reached.
LEMMA PushTyped ==
  ASSUME DocumentTyped, HistoryTyped, versionCounter < MaxVersions,
         PushEdit(SnapshotOf(buf))
  PROVE  HistoryTyped'
<1>1. StacksOver(Snapshots, Versions)'
  BY SnapshotTyped, PushEditStacks DEF DocumentTyped, HistoryTyped
<1>2. versionCounter + 1 \in Versions
  BY MaxVersionsAssumption DEF HistoryTyped, Versions
<1>3. QED
  BY <1>1, <1>2 DEF HistoryTyped, PushEdit

\* A save moves at most the save point, to the live version.
LEMMA SavedTyped ==
  ASSUME HistoryTyped, NEW path, NEW outcome, Saved(path, outcome)
  PROVE  HistoryTyped'
BY DEF HistoryTyped, Saved, MarkSaved, historyVars, StacksOver

\* A step that leaves the history alone keeps its types.
LEMMA HistoryUnchanged ==
  ASSUME HistoryTyped, UNCHANGED historyVars
  PROVE  HistoryTyped'
BY DEF HistoryTyped, historyVars, StacksOver

\* A cleared history is typed.
LEMMA ClearTyped ==
  ASSUME ClearAll
  PROVE  HistoryTyped'
<1>1. StacksOver(Snapshots, Versions)'
  BY EmptyStacks DEF ClearAll
<1>2. QED
  BY <1>1, MaxVersionsAssumption DEF ClearAll, HistoryTyped, Versions

\* A step that leaves the document alone keeps its types.
LEMMA DocumentUnchanged ==
  ASSUME DocumentTyped, UNCHANGED documentVars
  PROVE  DocumentTyped'
BY DEF DocumentTyped, documentVars

\* An edit changes the buffer and the dirty mark only.
LEMMA ChangeTyped ==
  ASSUME DocumentTyped, NEW b \in Buffers, ChangeBuffer(b)
  PROVE  DocumentTyped'
BY DEF DocumentTyped, ChangeBuffer

-----------------------------------------------------------------------------
\* The program starts in typed states.
LEMMA InitTyped == Init => TypeOK
<1> SUFFICES ASSUME Init PROVE TypeOK
  OBVIOUS
<1>1. DocumentTyped
  BY BlankTyped DEF Init, DocumentInit, DocumentTyped
<1>2. HistoryTyped
  BY MaxVersionsAssumption
     DEF Init, HistoryInit, HistoryTyped, StacksOver, Versions
<1>3. ModesTyped
  BY DEF Init, ModesTyped, Prompts
<1>4. QED
  BY <1>1, <1>2, <1>3, TypeParts

(***************************************************************************)
(* The edits: an undo step at most, and another buffer.                    *)
(***************************************************************************)
LEMMA EditsTyped ==
  ASSUME TypeOK,
         \/ TypeCharacter \/ TypeOverSelection \/ EditText \/ ApplyStyle
         \/ EditFloat \/ CloseColumnsDialog \/ Navigate
         \/ PressFloat \/ DragFloat \/ ReleaseFloat
  PROVE  TypeOK'
<1> USE DEF Editing
<1>1. DocumentTyped /\ HistoryTyped /\ ModesTyped
  BY TypeParts
<1>2. ModesTyped'
  BY <1>1 DEF ModesTyped, promptVars, Prompts, TypeCharacter,
     TypeOverSelection, EditText, ApplyStyle, EditFloat, CloseColumnsDialog,
     Navigate, PressFloat, DragFloat, ReleaseFloat, PushUndoBeforeEdit,
     EnsureUndoBeforeInsert
<1>3. HistoryTyped'
  <2>1. CASE versionCounter < MaxVersions /\ PushEdit(SnapshotOf(buf))
    BY <1>1, <2>1, PushTyped
  <2>2. CASE UNCHANGED historyVars
    BY <1>1, <2>2, HistoryUnchanged
  <2>3. QED
    BY <2>1, <2>2 DEF TypeCharacter, TypeOverSelection, EditText, ApplyStyle,
       EditFloat, CloseColumnsDialog, Navigate, PressFloat, DragFloat,
       ReleaseFloat, PushUndoBeforeEdit, EnsureUndoBeforeInsert
<1>4. DocumentTyped'
  <2>1. CASE UNCHANGED documentVars
    BY <1>1, <2>1, DocumentUnchanged
  <2>2. CASE \E b \in Buffers : ChangeBuffer(b)
    BY <1>1, <2>2, ChangeTyped
  <2>3. buf \in Buffers
    BY <1>1 DEF DocumentTyped
  <2>4. /\ \A n \in 0 .. MaxText : [buf EXCEPT !.text = n] \in Buffers
        /\ buf.text < MaxText => [buf EXCEPT !.text = @ + 1] \in Buffers
        /\ [buf EXCEPT !.styled = ~ @] \in Buffers
        /\ [buf EXCEPT !.columns = ~ @] \in Buffers
        /\ [buf EXCEPT !.float = IF @ = "none" THEN "left" ELSE "none"]
             \in Buffers
        /\ Moved(buf) \in Buffers
    <3>1. /\ buf.text \in 0 .. MaxText /\ buf.styled \in BOOLEAN
          /\ buf.float \in {"none", "left", "right"} /\ buf.columns \in BOOLEAN
      BY <2>3 DEF Buffers
    <3>2. \A n \in 0 .. MaxText : [buf EXCEPT !.text = n] \in Buffers
      BY <2>3 DEF Buffers
    <3>3. buf.text < MaxText => buf.text + 1 \in 0 .. MaxText
      BY <3>1, MaxTextAssumption
    <3>4. \A x \in BOOLEAN : /\ [buf EXCEPT !.styled = x] \in Buffers
                             /\ [buf EXCEPT !.columns = x] \in Buffers
      BY <2>3 DEF Buffers
    <3>5. \A x \in {"none", "left", "right"} :
            [buf EXCEPT !.float = x] \in Buffers
      BY <2>3 DEF Buffers
    <3>6. (~ buf.styled) \in BOOLEAN /\ (~ buf.columns) \in BOOLEAN
      BY Zenon
    <3>7. QED
      BY <3>2, <3>3, <3>4, <3>5, <3>6 DEF Moved
  <2>5. CASE TypeCharacter
    BY <2>2, <2>4, <2>5 DEF TypeCharacter
  <2>6. CASE TypeOverSelection
    <3>1. buf.text \in 0 .. MaxText
      BY <2>3 DEF Buffers
    <3>2. \A n \in 1 .. buf.text : n \in 0 .. MaxText
      BY <3>1, MaxTextAssumption
    <3>3. QED
      BY <2>2, <2>4, <2>6, <3>2 DEF TypeOverSelection
  <2>7. CASE EditText
    BY <2>2, <2>4, <2>7 DEF EditText
  <2>8. CASE ApplyStyle \/ EditFloat \/ CloseColumnsDialog
    BY <2>2, <2>4, <2>8 DEF ApplyStyle, EditFloat, CloseColumnsDialog
  <2>9. CASE Navigate \/ PressFloat
    BY <2>1, <2>9 DEF Navigate, PressFloat
  <2>10. CASE DragFloat \/ ReleaseFloat
    BY <2>1, <2>2, <2>4, <2>10 DEF DragFloat, ReleaseFloat
  <2>11. QED
    BY <2>5, <2>6, <2>7, <2>8, <2>9, <2>10
<1>5. QED
  BY <1>2, <1>3, <1>4, TypePartsNext

(***************************************************************************)
(* Undo and redo install a snapshot that was pushed.                       *)
(***************************************************************************)
LEMMA UndoTyped ==
  ASSUME TypeOK, DoUndo \/ DoRedo
  PROVE  TypeOK'
<1>1. DocumentTyped /\ HistoryTyped /\ ModesTyped
  BY TypeParts
<1>2. /\ SnapshotOf(buf) \in Snapshots
      /\ \A s \in Snapshots : RestoredFrom(s, buf) \in Buffers
  BY <1>1, SnapshotTyped DEF DocumentTyped
<1>3. /\ StacksOver(Snapshots, Versions)'
      /\ currentVersion' \in Versions
      /\ UNCHANGED <<versionCounter, savedVersion>>
      /\ RestoredFrom(UndoTarget, buf) \in Buffers \/ ~DoUndo
      /\ RestoredFrom(RedoTarget, buf) \in Buffers \/ ~DoRedo
  <2>1. currentVersion \in Versions /\ StacksOver(Snapshots, Versions)
    BY <1>1 DEF HistoryTyped
  <2>2. CASE DoUndo /\ ~DoRedo
    <3>1. Undo(SnapshotOf(buf)) 
      BY <2>2 DEF DoUndo
    <3>2. QED
      BY <1>2, <2>1, <2>2, <3>1, UndoStacks DEF Undo
  <2>3. CASE DoRedo /\ ~DoUndo
    <3>1. Redo(SnapshotOf(buf)) 
      BY <2>3 DEF DoRedo
    <3>2. QED
      BY <1>2, <2>1, <2>3, <3>1, RedoStacks DEF Redo
  <2>4. CASE DoUndo /\ DoRedo
    <3>1. Undo(SnapshotOf(buf)) /\ Redo(SnapshotOf(buf))
      BY <2>4 DEF DoUndo, DoRedo
    <3>2. QED
      BY <1>2, <2>1, <3>1, UndoStacks, RedoStacks DEF Undo
  <2>5. QED
    BY <2>2, <2>3, <2>4
<1>4. HistoryTyped'
  BY <1>1, <1>3 DEF HistoryTyped
<1>5. DocumentTyped'
  BY <1>1, <1>3 DEF DoUndo, DoRedo, ApplyUndoState, DocumentTyped
<1>6. ModesTyped'
  BY <1>1 DEF DoUndo, DoRedo, ApplyUndoState, ModesTyped, promptVars
<1>7. QED
  BY <1>4, <1>5, <1>6, TypePartsNext

(***************************************************************************)
(* The saves, each at the end of its chain of prompts.                     *)
(***************************************************************************)
LEMMA PerformSaveAsTyped ==
  ASSUME TypeOK, NEW path \in Paths, PerformSaveAs(path)
  PROVE  TypeOK'
<1>1. DocumentTyped /\ HistoryTyped /\ ModesTyped
  BY TypeParts
<1>2. PICK outcome \in WriteOutcomes :
        /\ WriteDocument(path, IF path \in TxtPaths /\ HasAnyFormatting(buf)
                               THEN FlattenAllStyles(buf) ELSE buf, outcome)
        /\ Saved(path, outcome)
        /\ exitAfterSave' = FALSE
        /\ running' = ~(exitAfterSave /\ Succeeds(path, outcome))
        /\ prompt' = "None"
        /\ UNCHANGED <<lastActionWasInsert, floatDragActive, pendingSavePath>>
  BY DEF PerformSaveAs
<1>3. DocumentTyped'
  <2>1. (IF path \in TxtPaths /\ HasAnyFormatting(buf)
         THEN FlattenAllStyles(buf) ELSE buf) \in Buffers
    BY <1>1, FlatTyped DEF DocumentTyped
  <2>2. QED
    BY <1>1, <1>2, <2>1, WriteTyped
<1>4. HistoryTyped'
  BY <1>1, <1>2, SavedTyped
<1>5. ModesTyped'
  BY <1>1, <1>2 DEF ModesTyped, Prompts
<1>6. QED
  BY <1>3, <1>4, <1>5, TypePartsNext

\* Each of the five commands and answers that write keeps the types.
LEMMA SavesTyped ==
  ASSUME IInv,
         \/ SaveDocument \/ ConfirmOverwriteYes \/ SaveAsRtfNo
         \/ ConfirmExitYes \/ \E path \in Paths : CommitSaveAs(path)
  PROVE  TypeOK'
<1>1. DocumentTyped /\ HistoryTyped /\ ModesTyped
  BY TypeParts DEF IInv
<1> DEFINE Written ==
      \E outcome \in WriteOutcomes, b \in Buffers :
        /\ WriteDocument(filename, b, outcome)
        /\ Saved(filename, outcome)
<1>2. ASSUME filename # Untitled, Written
      PROVE  DocumentTyped' /\ HistoryTyped'
  <2>1. filename \in Paths
    BY <1>1, <1>2 DEF DocumentTyped
  <2>2. QED
    BY <1>1, <1>2, <2>1, WriteTyped, SavedTyped
<1>3. ASSUME UNCHANGED <<historyVars, documentVars>>
      PROVE  DocumentTyped' /\ HistoryTyped'
  BY <1>1, <1>3, DocumentUnchanged, HistoryUnchanged
<1>4. buf \in Buffers /\ FlattenAllStyles(buf) \in Buffers
  BY <1>1, FlatTyped DEF DocumentTyped
<1>5. CASE SaveDocument
  <2>1. (filename # Untitled /\ Written) \/ UNCHANGED <<historyVars, documentVars>>
    BY <1>4, <1>5 DEF SaveDocument
  <2>2. ModesTyped'
    BY <1>1, <1>5
       DEF SaveDocument, StartSaveAs, promptVars, ModesTyped, Prompts
  <2>3. QED
    BY <1>2, <1>3, <2>1, <2>2, TypePartsNext
<1>6. CASE ConfirmOverwriteYes
  <2>1. pendingSavePath \in Paths
    BY <1>1, <1>6 DEF ConfirmOverwriteYes, Asking, ModesTyped
  <2>2. QED
    BY <1>6, <2>1, PerformSaveAsTyped DEF ConfirmOverwriteYes, IInv
<1>7. CASE SaveAsRtfNo
  <2>1. filename # Untitled /\ Written
    BY <1>4, <1>7, PathsAssumption DEF SaveAsRtfNo, Asking, IInv, PlainQuestion
  <2>2. ModesTyped'
    BY <1>1, <1>7 DEF SaveAsRtfNo, ModesTyped, Prompts
  <2>3. QED
    BY <1>2, <2>1, <2>2, TypePartsNext
<1>8. CASE ConfirmExitYes
  <2>1. (filename # Untitled /\ Written) \/ UNCHANGED <<historyVars, documentVars>>
    BY <1>4, <1>8 DEF ConfirmExitYes
  <2>2. ModesTyped'
    BY <1>1, <1>8 DEF ConfirmExitYes, ModesTyped, Prompts
  <2>3. QED
    BY <1>2, <1>3, <2>1, <2>2, TypePartsNext
<1>9. CASE \E path \in Paths : CommitSaveAs(path)
  <2>1. PICK path \in Paths : CommitSaveAs(path)
    BY <1>9
  <2>2. CASE PerformSaveAs(path)
    BY <2>2, PerformSaveAsTyped DEF IInv
  <2>3. CASE ~PerformSaveAs(path)
    <3>1. UNCHANGED <<historyVars, documentVars>>
      BY <2>1, <2>3 DEF CommitSaveAs
    <3>2. ModesTyped'
      BY <1>1, <2>1, <2>3 DEF CommitSaveAs, ModesTyped, Prompts
    <3>3. QED
      BY <1>3, <3>1, <3>2, TypePartsNext
  <2>4. QED
    BY <2>2, <2>3
<1>10. QED
  BY <1>5, <1>6, <1>7, <1>8, <1>9

(***************************************************************************)
(* Prompts that lead to prompts, and the ways to another document or out.  *)
(***************************************************************************)
LEMMA PromptsTyped ==
  ASSUME TypeOK,
         \/ SaveAsCommand \/ SaveAsRtfYes \/ CancelPrompt \/ Browse \/ ConfirmNo
         \/ OpenCommand \/ NewCommand \/ ConfirmNewYes \/ RequestExit
         \/ ConfirmExitNo \/ ConfirmExitCleanYes
         \/ \E path \in Paths : OpenFile(path)
  PROVE  TypeOK'
<1>1. DocumentTyped /\ HistoryTyped /\ ModesTyped
  BY TypeParts
<1>2. ModesTyped'
  BY <1>1 DEF ModesTyped, Prompts, SaveAsCommand, StartSaveAs, SaveAsRtfYes,
     CancelPrompt, Browse, ConfirmNo, OpenCommand, NewCommand, ConfirmNewYes,
     NewFile, RequestExit, Leave, ConfirmExitNo, ConfirmExitCleanYes, OpenFile,
     GoTo
<1>3. CASE UNCHANGED <<historyVars, documentVars>>
  BY <1>1, <1>2, <1>3, DocumentUnchanged, HistoryUnchanged, TypePartsNext
<1>4. CASE NewFile
  <2>1. DocumentTyped'
    BY <1>1, <1>4, BlankTyped DEF NewFile, NewDocument, DocumentTyped
  <2>2. QED
    BY <1>2, <1>4, <2>1, ClearTyped, TypePartsNext DEF NewFile
<1>5. CASE \E path \in Paths : Readable(path) /\ LoadDocument(path) /\ ClearAll
  BY <1>1, <1>2, <1>5, LoadTyped, ClearTyped, TypePartsNext
<1>6. QED
  BY <1>3, <1>4, <1>5 DEF SaveAsCommand, SaveAsRtfYes, CancelPrompt, Browse,
     ConfirmNo, OpenCommand, NewCommand, ConfirmNewYes, RequestExit, Leave,
     ConfirmExitNo, ConfirmExitCleanYes, OpenFile, GoTo

\* The question about a plain file is only asked of a named document.
LEMMA PlainQuestionStep == PlainQuestion /\ [Next]_vars => PlainQuestion'
<1> SUFFICES ASSUME PlainQuestion, [Next]_vars, prompt' = "ConfirmSaveAsRtf"
             PROVE  filename' \in TxtPaths
  BY DEF PlainQuestion
<1>1. CASE prompt = "ConfirmSaveAsRtf" /\ UNCHANGED filename
  BY <1>1 DEF PlainQuestion
<1>2. CASE SaveDocument
  BY <1>2 DEF SaveDocument, StartSaveAs, promptVars, documentVars, Editing
<1>3. CASE \/ TypeCharacter \/ TypeOverSelection \/ EditText \/ ApplyStyle
           \/ EditFloat \/ CloseColumnsDialog \/ Navigate
           \/ PressFloat \/ DragFloat \/ ReleaseFloat \/ DoUndo \/ DoRedo
           \/ UNCHANGED vars
  BY <1>1, <1>3 DEF TypeCharacter, TypeOverSelection, EditText, ApplyStyle,
     EditFloat, CloseColumnsDialog, Navigate, PressFloat, DragFloat,
     ReleaseFloat, DoUndo, DoRedo, ApplyUndoState, ChangeBuffer, promptVars,
     documentVars, vars
<1>4. CASE \/ SaveAsCommand \/ ConfirmOverwriteYes \/ SaveAsRtfYes
           \/ SaveAsRtfNo \/ CancelPrompt \/ Browse \/ ConfirmNo
           \/ OpenCommand \/ NewCommand \/ ConfirmNewYes \/ RequestExit
           \/ ConfirmExitYes \/ ConfirmExitNo \/ ConfirmExitCleanYes
           \/ \E path \in Paths : CommitSaveAs(path) \/ OpenFile(path)
  BY <1>4 DEF SaveAsCommand, StartSaveAs, ConfirmOverwriteYes, PerformSaveAs,
     SaveAsRtfYes, SaveAsRtfNo, CancelPrompt, Browse, ConfirmNo, OpenCommand,
     NewCommand, NewFile, ConfirmNewYes, RequestExit, ConfirmExitYes, Leave,
     ConfirmExitNo, ConfirmExitCleanYes, CommitSaveAs, OpenFile, GoTo
<1>5. QED
  BY <1>2, <1>3, <1>4 DEF Next

\* The strengthened type invariant is inductive.
LEMMA StepIInv == IInv /\ [Next]_vars => IInv'
<1>1. ASSUME TypeOK, UNCHANGED vars
      PROVE  TypeOK'
  <2>1. DocumentTyped /\ HistoryTyped /\ ModesTyped
    BY <1>1, TypeParts
  <2>2. ModesTyped'
    BY <1>1, <2>1 DEF vars, promptVars, ModesTyped
  <2>3. QED
    BY <1>1, <2>1, <2>2, DocumentUnchanged, HistoryUnchanged, TypePartsNext
       DEF vars
<1>2. ASSUME IInv, Next
      PROVE  TypeOK'
  BY <1>2, EditsTyped, UndoTyped, SavesTyped, PromptsTyped DEF Next, IInv
<1>3. QED
  BY <1>1, <1>2, PlainQuestionStep DEF IInv

(***************************************************************************)
(* The session keeps to its types, whatever is typed, saved, undone or     *)
(* fails: in particular each snapshot has its version, and a question      *)
(* about an overwrite is about a file (Application.cpp:2961).              *)
(***************************************************************************)
THEOREM TypeCorrect == Spec => []TypeOK
<1>1. Init => IInv
  BY InitTyped DEF IInv, PlainQuestion, Init
<1>2. IInv /\ [Next]_vars => IInv'
  BY StepIInv
<1>3. IInv => TypeOK
  BY DEF IInv
<1>4. QED
  BY <1>1, <1>2, <1>3, PTL DEF Spec

-----------------------------------------------------------------------------
\* The question whether to save is asked of a dirty document, and nothing that
\* happens while it is up, a float let go of among them, cleans the document.
ExitQuestion == prompt = "ConfirmExit" => dirty

ExitInv == ExitIntentHeld /\ ExitQuestion

\* The strengthened invariant of the exit chain is inductive.
LEMMA ExitStep == ExitInv /\ [Next]_vars => ExitInv'
<1> SUFFICES ASSUME ExitInv, [Next]_vars
             PROVE  ExitInv'
  OBVIOUS
<1> USE DEF Editing, Asking, ExitInv, ExitIntentHeld, ExitQuestion
<1>1. CASE \/ TypeCharacter \/ TypeOverSelection \/ EditText \/ ApplyStyle
           \/ EditFloat \/ CloseColumnsDialog \/ Navigate \/ PressFloat
           \/ DoUndo \/ DoRedo
  BY <1>1 DEF TypeCharacter, TypeOverSelection, EditText, ApplyStyle, EditFloat,
     CloseColumnsDialog, Navigate, PressFloat, DoUndo, DoRedo, promptVars
<1>2. CASE SaveAsCommand \/ SaveDocument \/ OpenCommand \/ NewCommand
  BY <1>2 DEF SaveAsCommand, StartSaveAs, SaveDocument, OpenCommand,
     NewCommand, NewFile, GoTo, promptVars
<1>3. CASE DragFloat \/ ReleaseFloat \/ UNCHANGED vars
  BY <1>3 DEF DragFloat, ReleaseFloat, ChangeBuffer, promptVars, documentVars,
     vars
<1>4. CASE \/ SaveAsRtfYes \/ SaveAsRtfNo \/ ConfirmNewYes
           \/ ConfirmExitNo \/ ConfirmExitCleanYes
           \/ \E path \in Paths : OpenFile(path)
  BY <1>4 DEF SaveAsRtfYes, SaveAsRtfNo, ConfirmNewYes, NewFile, Leave,
     ConfirmExitNo, ConfirmExitCleanYes, OpenFile, GoTo
<1>5. CASE Browse \/ ConfirmNo \/ RequestExit \/ CancelPrompt
  BY <1>5 DEF Browse, ConfirmNo, RequestExit, CancelPrompt, GoTo, documentVars
<1>6. CASE ConfirmExitYes
  <2>1. CASE filename = Untitled
    BY <1>6, <2>1 DEF ConfirmExitYes, documentVars
  <2>2. CASE filename # Untitled
    <3>1. prompt' = "None" /\ exitAfterSave' = exitAfterSave /\ running
      BY <1>6, <2>2 DEF ConfirmExitYes
    <3>2. QED
      BY <2>2, <3>1
  <2>3. QED
    BY <2>1, <2>2
<1>7. CASE ConfirmOverwriteYes \/ \E path \in Paths : CommitSaveAs(path)
  BY <1>7 DEF ConfirmOverwriteYes, CommitSaveAs, PerformSaveAs, documentVars
<1>8. QED
  BY <1>1, <1>2, <1>3, <1>4, <1>5, <1>6, <1>7 DEF Next

(***************************************************************************)
(* The intent to exit ends with the chain of prompts it began in, whatever *)
(* way that is left, the window's close button included                    *)
(* (Application.cpp:3784).                                                 *)
(***************************************************************************)
THEOREM ExitIntent == Spec => []ExitIntentHeld
<1>1. Init => ExitInv
  BY DEF Init, ExitInv, ExitIntentHeld, ExitQuestion
<1>2. ExitInv /\ [Next]_vars => ExitInv'
  BY ExitStep
<1>3. ExitInv => ExitIntentHeld
  BY DEF ExitInv
<1>4. QED
  BY <1>1, <1>2, <1>3, PTL DEF Spec

-----------------------------------------------------------------------------
(***************************************************************************)
(* No file but the document's own is written over without the question     *)
(* about that very file, which a rename, the folder browser and the close  *)
(* button may come between (Application.cpp:2961).                         *)
(***************************************************************************)
THEOREM OverwriteAsked == Spec => OverwriteConfirmed
<1> DEFINE Asked(p) == prompt = "ConfirmOverwrite" /\ pendingSavePath = p
           Kept == \A p \in Paths :
                     disk[p] # NoFile /\ p # filename /\ disk'[p] # disk[p]
                       => Asked(p)
<1>1. IInv /\ [Next]_vars =>
        [\A path \in Paths :
           disk[path] # NoFile /\ path # filename /\ disk'[path] # disk[path]
             => prompt = "ConfirmOverwrite" /\ pendingSavePath = path]_vars
  <2> SUFFICES ASSUME IInv, [Next]_vars
               PROVE  Kept
    OBVIOUS
  <2>1. disk \in [Paths -> Buffers \cup {NoFile, Truncated}]
    BY DEF IInv, TypeOK
  <2>2. CASE UNCHANGED disk
    BY <2>2
  <2>3. ASSUME NEW path, NEW b, NEW outcome, WriteDocument(path, b, outcome)
        PROVE  \A p \in Paths : p # path => disk'[p] = disk[p]
    BY <2>1, <2>3 DEF WriteDocument
  <2>4. CASE SaveDocument \/ SaveAsRtfNo \/ ConfirmExitYes
    BY <2>2, <2>3, <2>4 DEF SaveDocument, SaveAsRtfNo, ConfirmExitYes,
       documentVars
  <2>5. CASE ConfirmOverwriteYes
    BY <2>3, <2>5 DEF ConfirmOverwriteYes, PerformSaveAs, Asking
  <2>6. CASE \E path \in Paths : CommitSaveAs(path)
    BY <2>2, <2>3, <2>6 DEF CommitSaveAs, PerformSaveAs, documentVars
  <2>7. CASE \/ TypeCharacter \/ TypeOverSelection \/ EditText \/ ApplyStyle
             \/ EditFloat \/ CloseColumnsDialog \/ Navigate \/ PressFloat
             \/ DragFloat \/ ReleaseFloat \/ DoUndo \/ DoRedo
             \/ UNCHANGED vars
    BY <2>2, <2>7 DEF TypeCharacter, TypeOverSelection, EditText, ApplyStyle,
       EditFloat, CloseColumnsDialog, Navigate, PressFloat, DragFloat,
       ReleaseFloat, DoUndo, DoRedo, ApplyUndoState, ChangeBuffer, vars,
       documentVars
  <2>8. CASE \/ SaveAsCommand \/ SaveAsRtfYes \/ CancelPrompt \/ Browse
             \/ ConfirmNo \/ OpenCommand \/ NewCommand \/ ConfirmNewYes
             \/ RequestExit \/ ConfirmExitNo \/ ConfirmExitCleanYes
             \/ \E path \in Paths : OpenFile(path)
    BY <2>2, <2>8 DEF SaveAsCommand, SaveAsRtfYes, CancelPrompt, Browse,
       ConfirmNo, OpenCommand, NewCommand, NewFile, NewDocument, ConfirmNewYes,
       RequestExit, Leave, ConfirmExitNo, ConfirmExitCleanYes, OpenFile,
       LoadDocument, GoTo, documentVars
  <2>9. QED
    BY <2>4, <2>5, <2>6, <2>7, <2>8 DEF Next
<1>2. Init => IInv
  BY InitTyped DEF IInv, PlainQuestion, Init
<1>3. IInv /\ [Next]_vars => IInv'
  BY StepIInv
<1>4. QED
  BY <1>1, <1>2, <1>3, PTL DEF Spec, OverwriteConfirmed
-----------------------------------------------------------------------------
(***************************************************************************)
(* The commands that keep the contract of the undo history, and what the   *)
(* history's proved save point gives them: for every set of rich-text      *)
(* files, every depth of history and every number of versions.             *)
(***************************************************************************)
(***************************************************************************)
(* The hypothesis leaves out what the runs typing_across_save and          *)
(* failed_save_as_plain break the contract with.  A typing run changes the *)
(* buffer under one version, a drag after its undo step, a plain file      *)
(* flattens, and a write that fails half-way has lost the file.            *)
(***************************************************************************)
Disciplined ==
  /\ Commands \cap {"type", "drag"} = {}
  /\ TxtPaths = {}
  /\ Faults \subseteq {"cannotOpen"}

\* Nothing is dragged, so no buffer changes between two commands.
CInv == IInv /\ ~floatDragActive

File == IF filename = Untitled THEN Blank ELSE disk[filename]

\* A snapshot put back is found again when the next one is taken.
LEMMA SnapshotsKept ==
  /\ \A s \in Snapshots, b \in Buffers : SnapshotOf(RestoredFrom(s, b)) = s
  /\ \A b \in Buffers : SnapshotOf(b) \in Snapshots
<1>1. ASSUME NEW s \in Snapshots, NEW b \in Buffers
      PROVE  SnapshotOf(RestoredFrom(s, b)) = s
  <2>1. PICK c \in Buffers : s = SnapshotOf(c)
    BY DEF Snapshots
  <2>2. /\ RestoredFrom(s, b).text = s.text
        /\ RestoredFrom(s, b).styled = s.styled
        /\ RestoredFrom(s, b).float = s.float
    BY DEF RestoredFrom, Buffers
  <2>3. s = [text |-> s.text, styled |-> s.styled, float |-> s.float]
    BY <2>1 DEF SnapshotOf
  <2>4. QED
    BY <2>2, <2>3 DEF SnapshotOf
<1>2. QED
  BY <1>1, SnapshotTyped

\* In a disciplined session no drag begins and no run is typed.
LEMMA DragFree ==
  ASSUME Disciplined, ~floatDragActive, [Next]_vars
  PROVE  ~floatDragActive' /\ ~PressFloat /\ ~DragFloat /\ ~ReleaseFloat
         /\ ~TypeCharacter /\ ~TypeOverSelection
<1>1. ~PressFloat /\ ~TypeCharacter /\ ~TypeOverSelection
  BY DEF Disciplined, PressFloat, TypeCharacter, TypeOverSelection
<1>2. ~DragFloat /\ ~ReleaseFloat
  BY DEF DragFloat, ReleaseFloat
<1>3. UNCHANGED floatDragActive
  BY <1>1, <1>2 DEF Next, vars, EditText, ApplyStyle, EditFloat,
     CloseColumnsDialog, Navigate, DoUndo, DoRedo, SaveAsCommand, SaveDocument,
     ConfirmOverwriteYes, PerformSaveAs, SaveAsRtfYes, SaveAsRtfNo,
     CancelPrompt, Browse, ConfirmNo, OpenCommand, NewCommand, NewFile,
     ConfirmNewYes, RequestExit, Leave, ConfirmExitYes, ConfirmExitNo,
     ConfirmExitCleanYes, CommitSaveAs, OpenFile, GoTo
<1>4. QED
  BY <1>1, <1>2, <1>3

\* So the strengthened type invariant holds with no drag under way.
LEMMA CStep ==
  ASSUME Disciplined, CInv, [Next]_vars
  PROVE  CInv'
BY StepIInv, DragFree DEF CInv

-----------------------------------------------------------------------------
(***************************************************************************)
(* The steps of the contract, and the commands that take them.             *)
(***************************************************************************)
LEMMA PushIsEdit ==
  ASSUME CInv, CInv', PushUndoBeforeEdit, UNCHANGED <<filename, disk>>
  PROVE  Contract!Next
<1>1. SnapshotOf(buf)' \in Snapshots
  BY SnapshotsKept DEF CInv, IInv, TypeOK
<1>2. Contract!Edit(SnapshotOf(buf)')
  BY DEF PushUndoBeforeEdit, PushEdit, Contract!Edit, Contract!PushEdit,
     DropOldest, Contract!DropOldest
<1>3. QED
  BY <1>1, <1>2 DEF Contract!Next

\* A write either succeeds and is the history's Save, or changes nothing.
LEMMA SaveOrNot ==
  ASSUME Disciplined, CInv, NEW path \in Paths, NEW outcome \in WriteOutcomes,
         WriteDocument(path, buf, outcome), Saved(path, outcome)
  PROVE  /\ Contract!Next \/ UNCHANGED Contract!vars
         /\ Succeeds(path, outcome) <=> outcome = "ok"
         /\ outcome = "ok" => /\ filename' = path /\ disk'[path] = buf /\ ~dirty'
                              /\ currentVersion' = savedVersion'
         /\ outcome # "ok" => UNCHANGED <<documentVars, historyVars>>
         /\ buf' = buf
<1>1. outcome \in {"ok", "cannotOpen"}
  BY DEF Disciplined, WriteOutcomes
<1>2. path \in RtfPaths /\ path # Untitled
  BY PathsAssumption DEF Disciplined, Paths
<1>3. disk \in [Paths -> Buffers \cup {NoFile, Truncated}] /\ dirty \in BOOLEAN
  BY DEF CInv, IInv, TypeOK
<1>4. CASE outcome = "ok"
  <2>1. Succeeds(path, outcome) /\ FileAfter(path, buf, outcome) = buf
    BY <1>2, <1>4 DEF Succeeds, FileAfter, Encoded
  <2>2. /\ filename' = path /\ disk'[path] = buf /\ buf' = buf /\ ~dirty'
        /\ MarkSaved
    BY <1>3, <2>1 DEF WriteDocument, Saved
  <2>3. Contract!Save
    BY <1>2, <2>2 DEF MarkSaved, Contract!Save, Contract!MarkSaved
  <2>4. QED
    BY <1>4, <2>1, <2>2, <2>3 DEF Contract!Next, MarkSaved
<1>5. CASE outcome = "cannotOpen"
  <2>1. ~Succeeds(path, outcome) /\ FileAfter(path, buf, outcome) = disk[path]
    BY <1>5 DEF Succeeds, FileAfter
  <2>2. UNCHANGED <<documentVars, historyVars>>
    BY <1>3, <2>1 DEF WriteDocument, Saved, documentVars
  <2>3. QED
    BY <1>5, <2>1, <2>2 DEF Contract!vars, documentVars, historyVars
<1>6. QED
  BY <1>1, <1>4, <1>5

\* Undo and redo put the snapshot they were handed in the buffer.
LEMMA UndoIsUndo ==
  ASSUME CInv, DoUndo \/ DoRedo
  PROVE  Contract!Next
<1>1. /\ StacksOver(Snapshots, Versions) /\ currentVersion \in Versions
      /\ buf \in Buffers /\ SnapshotOf(buf) \in Snapshots
  BY SnapshotsKept, TypeParts DEF CInv, IInv, HistoryTyped, DocumentTyped
<1>2. CASE DoUndo
  <2>1. Undo(SnapshotOf(buf)) /\ ApplyUndoState(UndoTarget)
    BY <1>2 DEF DoUndo
  <2>2. UndoTarget \in Snapshots
    BY <1>1, <2>1, UndoStacks
  <2>3. SnapshotOf(buf)' = UndoTarget
    BY <1>1, <2>1, <2>2, SnapshotsKept DEF ApplyUndoState
  <2>4. Contract!UndoEdit
    BY <2>1, <2>3 DEF Undo, CanUndo, UndoTarget, Top, Pop, ApplyUndoState,
       Contract!UndoEdit, Contract!Undo, Contract!CanUndo, Contract!UndoTarget,
       Contract!Top, Contract!Pop
  <2>5. QED
    BY <2>4 DEF Contract!Next
<1>3. CASE DoRedo
  <2>1. Redo(SnapshotOf(buf)) /\ ApplyUndoState(RedoTarget)
    BY <1>3 DEF DoRedo
  <2>2. RedoTarget \in Snapshots
    BY <1>1, <2>1, RedoStacks
  <2>3. SnapshotOf(buf)' = RedoTarget
    BY <1>1, <2>1, <2>2, SnapshotsKept DEF ApplyUndoState
  <2>4. Contract!RedoEdit
    BY <2>1, <2>3 DEF Redo, CanRedo, RedoTarget, Top, Pop, ApplyUndoState,
       Contract!RedoEdit, Contract!Redo, Contract!CanRedo, Contract!RedoTarget,
       Contract!Top, Contract!Pop
  <2>5. QED
    BY <2>4 DEF Contract!Next
<1>4. QED
  BY <1>2, <1>3

\* New, and a file that was opened: a history that starts over.
LEMMA ClearIsLoad ==
  ASSUME Disciplined, CInv, CInv',
         NewFile \/ \E path \in Paths :
                      Readable(path) /\ LoadDocument(path) /\ ClearAll
  PROVE  /\ Contract!Next
         /\ ~dirty' /\ currentVersion' = savedVersion'
<1>1. /\ SnapshotOf(buf)' \in Snapshots /\ ClearAll /\ ~dirty'
      /\ File' = buf'
  <2>1. SnapshotOf(buf)' \in Snapshots
    BY SnapshotsKept DEF CInv, IInv, TypeOK
  <2>2. CASE NewFile
    BY <2>1, <2>2 DEF NewFile, NewDocument, File
  <2>3. CASE ~NewFile
    <3>1. PICK path \in Paths : Readable(path) /\ LoadDocument(path) /\ ClearAll
      BY <2>3
    <3>2. path # Untitled /\ path \in RtfPaths
      BY PathsAssumption DEF Disciplined, Paths
    <3>3. Decoded(path) = disk[path]
      BY <3>1, <3>2 DEF Readable, Decoded
    <3>4. QED
      BY <2>1, <3>1, <3>2, <3>3 DEF LoadDocument, File
  <2>4. QED
    BY <2>2, <2>3
<1>2. SnapshotOf(File)' = SnapshotOf(buf)'
  BY <1>1
<1>3. Contract!Load(SnapshotOf(buf)')
  BY <1>1, <1>2 DEF Contract!Load, Contract!ClearAll, ClearAll, File
<1>4. QED
  BY <1>1, <1>3 DEF Contract!Next, ClearAll

\* A step that leaves history, text and disk alone is a stutter of SavePoint.
LEMMA QuietStep ==
  ASSUME UNCHANGED historyVars,
         SnapshotOf(buf)' = SnapshotOf(buf), UNCHANGED <<filename, disk>>
  PROVE  UNCHANGED Contract!vars
BY DEF Contract!vars, historyVars

(***************************************************************************)
(* Every command is a step of the contract, or none of its business.       *)
(***************************************************************************)
LEMMA StepKeepsContract ==
  ASSUME Disciplined, CInv, [Next]_vars
  PROVE  Contract!Next \/ UNCHANGED Contract!vars
<1>1. CInv'
  BY CStep
<1>2. /\ ~PressFloat /\ ~DragFloat /\ ~ReleaseFloat
      /\ ~TypeCharacter /\ ~TypeOverSelection
  BY DragFree DEF CInv
<1>3. buf \in Buffers /\ filename \in Paths \cup {Untitled}
  BY DEF CInv, IInv, TypeOK
<1>4. CASE EditText \/ ApplyStyle \/ EditFloat
  BY <1>1, <1>4, PushIsEdit DEF EditText, ApplyStyle, EditFloat, ChangeBuffer
<1>5. CASE CloseColumnsDialog
  <2>1. SnapshotOf(buf)' = SnapshotOf(buf)
    BY <1>3, <1>5 DEF CloseColumnsDialog, ChangeBuffer, SnapshotOf, Buffers
  <2>2. QED
    BY <1>5, <2>1, QuietStep DEF CloseColumnsDialog, ChangeBuffer
<1>6. CASE UNCHANGED <<historyVars, documentVars>>
  BY <1>6, QuietStep DEF documentVars
<1>7. CASE DoUndo \/ DoRedo
  BY <1>7, UndoIsUndo
<1>8. CASE \E path \in Paths : PerformSaveAs(path)
  <2>1. PICK path \in Paths : PerformSaveAs(path)
    BY <1>8
  <2>2. PICK outcome \in WriteOutcomes :
          WriteDocument(path, buf, outcome) /\ Saved(path, outcome)
    BY <2>1 DEF PerformSaveAs, Disciplined
  <2>3. QED
    BY <2>2, SaveOrNot
<1>9. CASE SaveDocument \/ ConfirmExitYes
  <2>1. CASE UNCHANGED <<historyVars, documentVars>>
    BY <1>6, <2>1
  <2>2. CASE \E path \in Paths, outcome \in WriteOutcomes :
               WriteDocument(path, buf, outcome) /\ Saved(path, outcome)
    BY <2>2, SaveOrNot
  <2>3. QED
    BY <1>3, <1>9, <2>1, <2>2 DEF SaveDocument, ConfirmExitYes
<1>10. CASE ConfirmOverwriteYes \/ \E path \in Paths : CommitSaveAs(path)
  <2>1. ConfirmOverwriteYes => pendingSavePath \in Paths
    BY DEF ConfirmOverwriteYes, Asking, CInv, IInv, TypeOK
  <2>2. QED
    BY <1>6, <1>8, <1>10, <2>1 DEF ConfirmOverwriteYes, CommitSaveAs
<1>11. CASE SaveAsRtfNo
  BY <1>11 DEF SaveAsRtfNo, Asking, CInv, IInv, PlainQuestion, Disciplined
<1>12. CASE NewCommand \/ ConfirmNewYes \/ \E path \in Paths : OpenFile(path)
  BY <1>1, <1>6, <1>12, ClearIsLoad
     DEF NewCommand, ConfirmNewYes, OpenFile, GoTo
<1>13. CASE \/ Navigate \/ SaveAsCommand \/ SaveAsRtfYes \/ CancelPrompt
            \/ Browse \/ ConfirmNo \/ OpenCommand \/ RequestExit
            \/ ConfirmExitNo \/ ConfirmExitCleanYes \/ UNCHANGED vars
  BY <1>6, <1>13 DEF Navigate, SaveAsCommand, SaveAsRtfYes, CancelPrompt, Browse,
     ConfirmNo, OpenCommand, RequestExit, Leave, ConfirmExitNo,
     ConfirmExitCleanYes, GoTo, vars
<1>14. QED
  BY <1>2, <1>4, <1>5, <1>7, <1>9, <1>10, <1>11, <1>12, <1>13 DEF Next

\* The program starts where SavePoint does.
LEMMA InitKeepsContract == Init => Contract!Init
BY SnapshotsKept, BlankTyped
   DEF Init, DocumentInit, HistoryInit, Contract!Init, Contract!HistoryInit

(***************************************************************************)
(* The session implements SavePoint: no command of a disciplined session   *)
(* changes the buffer without a version of its own, or moves the save      *)
(* point but after a write (Application.cpp:2679, 3219).                   *)
(***************************************************************************)
THEOREM SessionKeepsContract ==
  ASSUME Disciplined
  PROVE  Spec => KeepsContract
<1>1. Init => Contract!Init /\ CInv
  BY InitKeepsContract, InitTyped DEF CInv, IInv, PlainQuestion, Init
<1>2. CInv /\ [Next]_vars => CInv' /\ [Contract!Next]_(Contract!vars)
  BY CStep, StepKeepsContract
<1>3. QED
  BY <1>1, <1>2, PTL DEF Spec, KeepsContract, Contract!Spec

-----------------------------------------------------------------------------
(***************************************************************************)
(* What SavePointProofs shows of the contract, read in the session.        *)
(***************************************************************************)
Trusted == INSTANCE SavePointProofs WITH
  Content <- Snapshots,
  live    <- SnapshotOf(buf),
  disk    <- SnapshotOf(IF filename = Untitled THEN Blank ELSE disk[filename])

\* What is proved of SavePoint, read through the refinement.
LEMMA SessionTrusted ==
  ASSUME Disciplined
  PROVE  Spec => []Trusted!SavedVersionIsDisk
<1>1. Snapshots # {}
  BY SnapshotsKept, BlankTyped
<1>2. Trusted!Spec => []Trusted!SavedVersionIsDisk
  BY <1>1, MaxDepthAssumption, MaxVersionsAssumption, Trusted!SavePointTrusted
<1>3. Contract!Init => Trusted!Init
  BY DEF Contract!Init, Contract!HistoryInit, Trusted!Init, Trusted!HistoryInit
<1>4. [Contract!Next]_(Contract!vars) => [Trusted!Next]_(Trusted!vars)
  BY DEF Contract!vars, Trusted!vars, Contract!Next, Trusted!Next, Contract!Edit,
     Trusted!Edit, Contract!Load, Trusted!Load, Contract!Save, Trusted!Save,
     Contract!UndoEdit, Trusted!UndoEdit, Contract!RedoEdit, Trusted!RedoEdit,
     Contract!PushEdit, Trusted!PushEdit, Contract!Undo, Trusted!Undo,
     Contract!Redo, Trusted!Redo, Contract!MarkSaved, Trusted!MarkSaved,
     Contract!ClearAll, Trusted!ClearAll, Contract!DropOldest,
     Trusted!DropOldest, Contract!CanUndo, Trusted!CanUndo, Contract!CanRedo,
     Trusted!CanRedo, Contract!UndoTarget, Trusted!UndoTarget,
     Contract!RedoTarget, Trusted!RedoTarget, Contract!Top, Trusted!Top,
     Contract!Pop, Trusted!Pop
<1>5. Spec => Contract!Init /\ [][Contract!Next]_(Contract!vars)
  BY SessionKeepsContract, PTL DEF KeepsContract, Contract!Spec
<1>6. QED
  BY <1>2, <1>3, <1>4, <1>5, PTL DEF Trusted!Spec

-----------------------------------------------------------------------------
(***************************************************************************)
(* From the save point to the files.  The dirty bit goes by the versions,  *)
(* the document's name is the name of a file that can be read, and no      *)
(* document has columns, which snapshots overlook.                         *)
(***************************************************************************)
Uncolumned == "columns" \notin Commands

SavedInv ==
  /\ ~dirty => currentVersion = savedVersion
  /\ filename # Untitled => disk[filename] \in Buffers
  /\ ~buf.columns
  /\ \A p \in Paths : disk[p] \in Buffers => ~disk[p].columns
  /\ running /\ prompt = "ConfirmExitClean" => ~dirty

\* A new document has no columns.
LEMMA BlankUncolumned == ~Blank.columns
BY DEF Blank

\* An edit, an undo or a redo keeps the dirty mark honest.
LEMMA EditSaved ==
  ASSUME Uncolumned, CInv, SavedInv,
         \/ EditText \/ ApplyStyle \/ EditFloat \/ CloseColumnsDialog
         \/ DoUndo \/ DoRedo
  PROVE  SavedInv'
<1>1. buf \in Buffers /\ ~CloseColumnsDialog
  BY DEF CInv, IInv, TypeOK, CloseColumnsDialog, Uncolumned
<1>2. UNCHANGED <<filename, disk>> /\ prompt' = "None"
  BY <1>1 DEF EditText, ApplyStyle, EditFloat, DoUndo, DoRedo, ChangeBuffer,
     ApplyUndoState, promptVars, Editing
<1>3. ~buf'.columns
  <2>1. CASE EditText \/ ApplyStyle \/ EditFloat
    BY <1>1, <2>1 DEF SavedInv, EditText, ApplyStyle, EditFloat, ChangeBuffer,
       Buffers
  <2>2. CASE DoUndo \/ DoRedo
    BY <1>1, <2>2 DEF SavedInv, DoUndo, DoRedo, ApplyUndoState, RestoredFrom,
       Buffers
  <2>3. QED
    BY <1>1, <2>1, <2>2
<1>4. ~dirty' => currentVersion' = savedVersion'
  BY <1>1 DEF EditText, ApplyStyle, EditFloat, DoUndo, DoRedo, ChangeBuffer,
     ApplyUndoState
<1>5. QED
  BY <1>2, <1>3, <1>4 DEF SavedInv

\* A write clears the mark only with the buffer on disk.
LEMMA WriteSaved ==
  ASSUME Disciplined, CInv, SavedInv,
         NEW path \in Paths, NEW outcome \in WriteOutcomes,
         WriteDocument(path, buf, outcome), Saved(path, outcome),
         prompt' # "ConfirmExitClean"
  PROVE  SavedInv' /\ (Succeeds(path, outcome) => OnDisk')
<1>1. /\ disk \in [Paths -> Buffers \cup {NoFile, Truncated}]
      /\ buf \in Buffers
  BY DEF CInv, IInv, TypeOK
<1>2. buf' = buf
  BY SaveOrNot
<1>3. CASE outcome = "ok"
  <2>1. /\ filename' = path /\ disk'[path] = buf /\ ~dirty'
        /\ currentVersion' = savedVersion'
    BY <1>3, SaveOrNot
  <2>2. \A p \in Paths : p # path => disk'[p] = disk[p]
    BY <1>1 DEF WriteDocument
  <2>3. SavedInv'
    BY <1>1, <1>2, <2>1, <2>2 DEF SavedInv
  <2>4. path # Untitled /\ path \in RtfPaths
    BY PathsAssumption DEF Disciplined, Paths
  <2>5. OnDisk'
    BY <1>1, <1>2, <2>1, <2>4, SentinelAssumption
       DEF OnDisk, Readable, Decoded, Encoded
  <2>6. QED
    BY <2>3, <2>5
<1>4. CASE outcome # "ok"
  <2>1. UNCHANGED <<documentVars, historyVars>> /\ ~Succeeds(path, outcome)
    BY <1>4, SaveOrNot
  <2>2. QED
    BY <2>1 DEF SavedInv, documentVars, historyVars
<1>5. QED
  BY <1>3, <1>4

\* A document opened or started is what its file holds.
LEMMA LoadSaved ==
  ASSUME Disciplined, CInv, CInv', SavedInv, prompt' # "ConfirmExitClean",
         NewFile \/ \E path \in Paths :
                      Readable(path) /\ LoadDocument(path) /\ ClearAll
  PROVE  SavedInv'
<1>1. UNCHANGED disk /\ ~dirty' /\ currentVersion' = savedVersion'
  BY ClearIsLoad DEF NewFile, NewDocument, LoadDocument
<1>2. CASE NewFile
  BY <1>1, <1>2, BlankUncolumned DEF SavedInv, NewFile, NewDocument
<1>3. CASE ~NewFile
  <2>1. PICK path \in Paths : Readable(path) /\ LoadDocument(path)
    BY <1>3
  <2>2. disk[path] \in Buffers /\ Decoded(path) = disk[path]
    <3>1. disk \in [Paths -> Buffers \cup {NoFile, Truncated}]
      BY DEF CInv, IInv, TypeOK
    <3>2. path \in RtfPaths
      BY DEF Disciplined, Paths
    <3>3. QED
      BY <2>1, <3>1, <3>2 DEF Readable, Decoded
  <2>3. QED
    BY <1>1, <2>1, <2>2 DEF SavedInv, LoadDocument
<1>4. QED
  BY <1>2, <1>3

\* A step that leaves document and history alone keeps the mark honest.
LEMMA StillSaved ==
  ASSUME SavedInv, UNCHANGED <<historyVars, documentVars>>,
         running' /\ prompt' = "ConfirmExitClean" => ~dirty
  PROVE  SavedInv'
BY DEF SavedInv, historyVars, documentVars

(***************************************************************************)
(* SavedInv is kept by every command, and no command ends the program but  *)
(* with the work on disk or at the word of the user.                       *)
(***************************************************************************)
ExitStepKeepsWork ==
  running /\ ~running' =>
    \/ prompt = "ConfirmExit" /\ UNCHANGED documentVars
    \/ ~dirty /\ UNCHANGED documentVars
    \/ OnDisk'

\* Every step keeps the mark honest, and an exit keeps the work.
LEMMA StepSaved ==
  ASSUME Disciplined, Uncolumned, CInv, SavedInv, [Next]_vars
  PROVE  SavedInv' /\ ExitStepKeepsWork
<1>1. CInv'
  BY CStep
<1>2. /\ ~PressFloat /\ ~DragFloat /\ ~ReleaseFloat
      /\ ~TypeCharacter /\ ~TypeOverSelection
  BY DragFree DEF CInv
<1>3. filename \in Paths \cup {Untitled}
  BY DEF CInv, IInv, TypeOK
<1>4. CASE \/ EditText \/ ApplyStyle \/ EditFloat \/ CloseColumnsDialog
           \/ DoUndo \/ DoRedo
  <2>1. running' = running
    BY <1>4 DEF EditText, ApplyStyle, EditFloat, CloseColumnsDialog, DoUndo,
       DoRedo, promptVars
  <2>2. QED
    BY <1>4, <2>1, EditSaved DEF ExitStepKeepsWork
<1>5. CASE \E path \in Paths : PerformSaveAs(path)
  <2>1. PICK path \in Paths : PerformSaveAs(path)
    BY <1>5
  <2>2. PICK outcome \in WriteOutcomes :
          /\ WriteDocument(path, buf, outcome) /\ Saved(path, outcome)
          /\ running' = ~(exitAfterSave /\ Succeeds(path, outcome))
          /\ prompt' = "None"
    BY <2>1 DEF PerformSaveAs, Disciplined
  <2>3. QED
    BY <2>2, WriteSaved DEF ExitStepKeepsWork
<1>6. CASE SaveDocument \/ ConfirmExitYes
  <2>1. CASE UNCHANGED <<historyVars, documentVars>>
    <3>1. prompt' # "ConfirmExitClean"
      BY <1>6 DEF SaveDocument, ConfirmExitYes, StartSaveAs, promptVars, Editing
    <3>2. running /\ ~running' => prompt = "ConfirmExit"
      BY <1>6 DEF SaveDocument, ConfirmExitYes, StartSaveAs, promptVars, Asking
    <3>3. QED
      BY <2>1, <3>1, <3>2, StillSaved DEF ExitStepKeepsWork
  <2>2. CASE \E path \in Paths, outcome \in WriteOutcomes :
               /\ WriteDocument(path, buf, outcome) /\ Saved(path, outcome)
               /\ running' = running \/ running' = ~Succeeds(path, outcome)
               /\ prompt' = "None"
    <3>1. PICK path \in Paths, outcome \in WriteOutcomes :
            /\ WriteDocument(path, buf, outcome) /\ Saved(path, outcome)
            /\ running' = running \/ running' = ~Succeeds(path, outcome)
            /\ prompt' = "None"
      BY <2>2
    <3>2. SavedInv' /\ (Succeeds(path, outcome) => OnDisk')
      BY <3>1, WriteSaved
    <3>3. running /\ ~running' => Succeeds(path, outcome)
      BY <3>1
    <3>4. QED
      BY <3>2, <3>3 DEF ExitStepKeepsWork
  <2>3. QED
    BY <1>3, <1>6, <2>1, <2>2
       DEF SaveDocument, ConfirmExitYes, promptVars, Editing
<1>7. CASE ConfirmOverwriteYes \/ \E path \in Paths : CommitSaveAs(path)
  <2>1. ConfirmOverwriteYes => pendingSavePath \in Paths
    BY DEF ConfirmOverwriteYes, Asking, CInv, IInv, TypeOK
  <2>2. CASE ~ \E path \in Paths : PerformSaveAs(path)
    BY <1>7, <2>1, <2>2, StillSaved
       DEF ConfirmOverwriteYes, CommitSaveAs, ExitStepKeepsWork
  <2>3. QED
    BY <1>5, <2>2
<1>8. CASE SaveAsRtfNo
  BY <1>8 DEF SaveAsRtfNo, Asking, CInv, IInv, PlainQuestion, Disciplined
<1>9. CASE NewCommand \/ ConfirmNewYes \/ \E path \in Paths : OpenFile(path)
  <2>1. running' = running /\ prompt' # "ConfirmExitClean"
    BY <1>9 DEF NewCommand, ConfirmNewYes, OpenFile, NewFile, GoTo
  <2>2. CASE UNCHANGED <<historyVars, documentVars>>
    BY <2>1, <2>2, StillSaved DEF ExitStepKeepsWork
  <2>3. QED
    BY <1>1, <1>9, <2>1, <2>2, LoadSaved
       DEF NewCommand, ConfirmNewYes, OpenFile, GoTo, ExitStepKeepsWork
<1>10. CASE \/ Navigate \/ SaveAsCommand \/ SaveAsRtfYes \/ CancelPrompt
            \/ Browse \/ ConfirmNo \/ OpenCommand \/ UNCHANGED vars
  <2>1. UNCHANGED <<historyVars, documentVars, running>>
    BY <1>10 DEF Navigate, SaveAsCommand, StartSaveAs, SaveAsRtfYes, CancelPrompt,
       Browse, ConfirmNo, OpenCommand, GoTo, vars, promptVars
  <2>2. prompt' # "ConfirmExitClean" \/ prompt' = prompt
    BY <1>10 DEF Navigate, SaveAsCommand, StartSaveAs, SaveAsRtfYes, CancelPrompt,
       Browse, ConfirmNo, OpenCommand, GoTo, vars, promptVars
  <2>3. QED
    BY <2>1, <2>2, StillSaved DEF ExitStepKeepsWork, SavedInv
<1>11. CASE RequestExit
  <2>1. UNCHANGED <<historyVars, documentVars, running>>
    BY <1>11 DEF RequestExit, GoTo
  <2>2. prompt' = "ConfirmExitClean" => ~dirty
    BY <1>11 DEF RequestExit, GoTo
  <2>3. QED
    BY <2>1, <2>2, StillSaved DEF ExitStepKeepsWork
<1>12. CASE ConfirmExitNo \/ ConfirmExitCleanYes
  BY <1>12, StillSaved DEF ConfirmExitNo, ConfirmExitCleanYes, Leave, Asking,
     SavedInv, ExitStepKeepsWork
<1>13. QED
  BY <1>2, <1>4, <1>6, <1>7, <1>8, <1>9, <1>10, <1>11, <1>12 DEF Next

\* The mark's invariant and the save point give CleanMeansSaved.
LEMMA SavedImpliesOnDisk ==
  ASSUME Disciplined, CInv, SavedInv, Trusted!SavedVersionIsDisk
  PROVE  CleanMeansSaved
<1> SUFFICES ASSUME ~dirty PROVE OnDisk
  BY DEF CleanMeansSaved
<1>1. buf \in Buffers /\ File \in Buffers /\ ~File.columns /\ ~buf.columns
  BY BlankTyped, BlankUncolumned
     DEF CInv, IInv, TypeOK, SavedInv, File
<1>2. SnapshotOf(buf) = SnapshotOf(File)
  BY DEF SavedInv, File, Trusted!SavedVersionIsDisk, Trusted!SavePointSound,
     Trusted!IsAtSavedState
<1>3. buf = File
  <2>1. buf.text = File.text /\ buf.styled = File.styled /\ buf.float = File.float
    BY <1>2 DEF SnapshotOf
  <2>2. buf.columns = FALSE /\ File.columns = FALSE
    BY <1>1 DEF Buffers
  <2>3. QED
    BY <1>1, <2>1, <2>2 DEF Buffers
<1>4. CASE filename = Untitled
  BY <1>3, <1>4 DEF OnDisk, File
<1>5. CASE filename # Untitled
  <2>1. filename \in RtfPaths /\ disk[filename] \in Buffers /\ buf = disk[filename]
    BY <1>1, <1>3, <1>5 DEF Disciplined, CInv, IInv, TypeOK, Paths, File
  <2>2. QED
    BY <1>5, <2>1, SentinelAssumption DEF OnDisk, Readable, Decoded, Encoded
<1>6. QED
  BY <1>4, <1>5

\* The program starts clean, with nothing unsaved.
LEMMA InitSaved == Init => CInv /\ SavedInv
BY InitTyped, BlankUncolumned, SentinelAssumption
   DEF Init, DocumentInit, HistoryInit, CInv, IInv, PlainQuestion, SavedInv

(***************************************************************************)
(* Without the dirty mark the document is what its file holds, through any *)
(* sequence of edits, undos, saves that cannot open their file, renames,   *)
(* documents opened and started, so that closing it then "passes silently" *)
(* (Application.cpp:2704) and loses nothing.                               *)
(***************************************************************************)
THEOREM CleanIsSaved ==
  ASSUME Disciplined, Uncolumned
  PROVE  Spec => []CleanMeansSaved
<1>1. Init => CInv /\ SavedInv
  BY InitSaved
<1>2. CInv /\ SavedInv /\ [Next]_vars => (CInv /\ SavedInv)'
  BY CStep, StepSaved
<1>3. CInv /\ SavedInv /\ Trusted!SavedVersionIsDisk => CleanMeansSaved
  BY SavedImpliesOnDisk
<1>4. QED
  BY <1>1, <1>2, <1>3, SessionTrusted, PTL DEF Spec

(***************************************************************************)
(* The program ends only at the user's word, and with the work on disk     *)
(* unless that word was to discard it (Application.h:33).                  *)
(***************************************************************************)
THEOREM ExitSavesWork ==
  ASSUME Disciplined, Uncolumned
  PROVE  Spec => ExitKeepsWork
<1>1. Init => CInv /\ SavedInv
  BY InitSaved
<1>2. CInv /\ SavedInv /\ [Next]_vars => (CInv /\ SavedInv)'
  BY CStep, StepSaved
<1>3. CInv /\ SavedInv /\ CleanMeansSaved /\ [Next]_vars =>
        [running /\ ~running' =>
           \/ prompt = "ConfirmExit" /\ UNCHANGED documentVars
           \/ OnDisk']_vars
  <2> SUFFICES ASSUME CInv, SavedInv, CleanMeansSaved, [Next]_vars,
                      running, ~running'
               PROVE  \/ prompt = "ConfirmExit" /\ UNCHANGED documentVars
                      \/ OnDisk'
    OBVIOUS
  <2>1. ExitStepKeepsWork
    BY StepSaved
  <2>2. CASE ~dirty /\ UNCHANGED documentVars
    BY <2>2 DEF CleanMeansSaved, OnDisk, Readable, Decoded, documentVars
  <2>3. QED
    BY <2>1, <2>2 DEF ExitStepKeepsWork
<1>4. QED
  BY <1>1, <1>2, <1>3, CleanIsSaved, PTL DEF Spec, ExitKeepsWork

-----------------------------------------------------------------------------
(***************************************************************************)
(* The versions of a session in which anything may happen: typing runs,    *)
(* drags, plain files and failed writes included.  A history is told apart *)
(* here by its versions alone; with every snapshot taken for the same one  *)
(* it is a SavePoint, whatever its owner does with the buffer.             *)
(***************************************************************************)
Zeros(stack) == [i \in 1 .. Len(stack) |-> 0]

Numbers == INSTANCE SavePointProofs WITH
  Content   <- {0},
  undoStack <- Zeros(undoStack),
  redoStack <- Zeros(redoStack),
  live      <- 0,
  disk      <- 0

HistoryMoves ==
  \/ versionCounter < MaxVersions /\ PushEdit(SnapshotOf(buf))
  \/ Undo(SnapshotOf(buf)) \/ Redo(SnapshotOf(buf))
  \/ MarkSaved \/ ClearAll \/ UNCHANGED historyVars

\* What the commands ask of the history, none of them anything else.
LEMMA HistoryMove == [Next]_vars => HistoryMoves
<1> USE DEF HistoryMoves
<1>1. CASE \/ TypeCharacter \/ TypeOverSelection \/ EditText \/ ApplyStyle
           \/ EditFloat \/ CloseColumnsDialog \/ Navigate
           \/ PressFloat \/ DragFloat \/ ReleaseFloat
  BY <1>1 DEF TypeCharacter, TypeOverSelection, EditText, ApplyStyle,
     EditFloat, CloseColumnsDialog, Navigate, PressFloat, DragFloat,
     ReleaseFloat, PushUndoBeforeEdit, EnsureUndoBeforeInsert
<1>2. CASE DoUndo \/ DoRedo
  BY <1>2 DEF DoUndo, DoRedo
<1>3. \A path, outcome : Saved(path, outcome) => HistoryMoves
  BY DEF Saved
<1>4. CASE \/ SaveDocument \/ ConfirmOverwriteYes \/ SaveAsRtfNo
           \/ ConfirmExitYes \/ \E path \in Paths : CommitSaveAs(path)
  <2>1. (\E path, outcome : Saved(path, outcome)) \/ UNCHANGED historyVars
    BY <1>4 DEF SaveDocument, ConfirmOverwriteYes, PerformSaveAs,
       SaveAsRtfNo, ConfirmExitYes, CommitSaveAs
  <2>2. QED
    BY <1>3, <2>1
<1>5. CASE \/ SaveAsCommand \/ SaveAsRtfYes \/ CancelPrompt \/ Browse
           \/ ConfirmNo \/ OpenCommand \/ NewCommand \/ ConfirmNewYes
           \/ RequestExit \/ ConfirmExitNo \/ ConfirmExitCleanYes
           \/ \E path \in Paths : OpenFile(path)
  BY <1>5 DEF SaveAsCommand, SaveAsRtfYes, CancelPrompt, Browse, ConfirmNo,
     OpenCommand, NewCommand, NewFile, ConfirmNewYes, RequestExit, Leave,
     ConfirmExitNo, ConfirmExitCleanYes, OpenFile, GoTo
<1>6. CASE UNCHANGED vars
  BY <1>6 DEF vars
<1>7. QED
  BY <1>1, <1>2, <1>4, <1>5, <1>6 DEF Next

\* Forgetting what a snapshot holds commutes with the moves on a stack.
LEMMA ZerosOf ==
  ASSUME NEW S, NEW s \in Seq(S)
  PROVE  /\ Len(Zeros(s)) = Len(s)
         /\ Zeros(s) \in Seq({0})
         /\ \A x \in S : /\ Zeros(Append(s, x)) = Append(Zeros(s), 0)
                         /\ Zeros(Tail(Append(s, x))) = Tail(Append(Zeros(s), 0))
         /\ Zeros(<< >>) = << >>
         /\ s # << >> => /\ Zeros(s) # << >>
                         /\ Zeros(Pop(s)) = Numbers!Pop(Zeros(s))
                         /\ Numbers!Top(Zeros(s)) = 0
<1> DEFINE n == Len(s)
           z == Zeros(s)
<1>1. n \in Nat
  OBVIOUS
<1>2. z \in Seq({0}) /\ Len(z) = n /\ \A i \in 1 .. n : z[i] = 0
  BY <1>1 DEF Zeros
<1> HIDE DEF z
<1>3. ASSUME NEW t \in Seq({0}), NEW u \in Seq({0}), Len(t) = Len(u)
      PROVE  t = u
  <2>1. \A i \in 1 .. Len(t) : t[i] = u[i]
    <3>1. \A i \in 1 .. Len(t) : t[i] \in {0} /\ u[i] \in {0}
      BY <1>3, ElementOfSeq
    <3>2. QED
      BY <3>1
  <2>2. QED
    BY <1>3, <2>1, SeqEqual
<1>4. ASSUME NEW T, NEW t \in Seq(T)
      PROVE  Zeros(t) \in Seq({0}) /\ Len(Zeros(t)) = Len(t)
  BY DEF Zeros
<1>5. ASSUME NEW x \in S
      PROVE  Zeros(Append(s, x)) = Append(z, 0)
  <2>1. Append(s, x) \in Seq(S) /\ Len(Append(s, x)) = n + 1
    OBVIOUS
  <2>2. Append(z, 0) \in Seq({0}) /\ Len(Append(z, 0)) = n + 1
    BY <1>2
  <2>3. QED
    BY <1>3, <1>4, <2>1, <2>2
<1>6. ASSUME NEW x \in S
      PROVE  Zeros(Tail(Append(s, x))) = Tail(Append(z, 0))
  <2>1. Tail(Append(s, x)) \in Seq(S) /\ Len(Tail(Append(s, x))) = n
    OBVIOUS
  <2>2. Tail(Append(z, 0)) \in Seq({0}) /\ Len(Tail(Append(z, 0))) = n
    BY <1>2
  <2>3. QED
    BY <1>3, <1>4, <2>1, <2>2
<1>7. Zeros(<< >>) = << >>
  <2>1. << >> \in Seq({0}) /\ << >> \in Seq(S) /\ Len(<< >>) = 0
    OBVIOUS
  <2>2. QED
    BY <1>3, <1>4, <2>1
<1>8. ASSUME s # << >>
      PROVE  z # << >> /\ Zeros(Pop(s)) = Numbers!Pop(z) /\ Numbers!Top(z) = 0
  <2>1. n # 0 /\ z # << >>
    BY <1>2, <1>8
  <2>2. Pop(s) \in Seq(S) /\ Len(Pop(s)) = n - 1
    BY <1>8, PopFacts
  <2>3. /\ Pop(z) \in Seq({0}) /\ Len(Pop(z)) = n - 1 /\ Top(z) \in {0}
    BY <1>2, <2>1, PopFacts
  <2>4. Numbers!Pop(z) = Pop(z) /\ Numbers!Top(z) = Top(z)
    BY DEF Numbers!Pop, Pop, Numbers!Top, Top
  <2>5. QED
    BY <1>3, <1>4, <2>1, <2>2, <2>3, <2>4
<1>9. QED
  BY <1>2, <1>5, <1>6, <1>7, <1>8 DEF z

\* Each move of the history is a step of the SavePoint of zeros.
LEMMA NumbersStep ==
  ASSUME TypeOK, HistoryMoves
  PROVE  Numbers!Next \/ UNCHANGED Numbers!vars
<1>1. /\ undoStack \in Seq(Snapshots) /\ redoStack \in Seq(Snapshots)
      /\ SnapshotOf(buf) \in Snapshots
  BY SnapshotsKept DEF TypeOK
<1>2. CASE versionCounter < MaxVersions /\ PushEdit(SnapshotOf(buf))
  <2> DEFINE s == SnapshotOf(buf)
             full == Len(undoStack) >= MaxDepth
  <2>1. /\ redoStack' = << >> /\ redoVersionStack' = << >>
        /\ undoStack' = IF full THEN Tail(Append(undoStack, s))
                                ELSE Append(undoStack, s)
        /\ undoVersionStack' =
             IF full THEN Tail(Append(undoVersionStack, currentVersion))
                     ELSE Append(undoVersionStack, currentVersion)
        /\ versionCounter' = versionCounter + 1
        /\ currentVersion' = versionCounter + 1
        /\ savedVersion' = savedVersion
    BY <1>2 DEF PushEdit, DropOldest
  <2> HIDE DEF s
  <2>2. s \in Snapshots
    BY <1>1 DEF s
  <2>3. /\ Zeros(Append(undoStack, s)) = Append(Zeros(undoStack), 0)
        /\ Zeros(Tail(Append(undoStack, s))) = Tail(Append(Zeros(undoStack), 0))
        /\ Len(Zeros(undoStack)) = Len(undoStack)
        /\ Zeros(<< >>) = << >>
    BY <1>1, <2>2, ZerosOf
  <2>4. /\ Zeros(undoStack') = IF full THEN Tail(Append(Zeros(undoStack), 0))
                                       ELSE Append(Zeros(undoStack), 0)
        /\ Zeros(redoStack') = << >>
    BY <2>1, <2>3
  <2>5. Numbers!PushEdit(0)
    BY <2>1, <2>3, <2>4 DEF Numbers!PushEdit, Numbers!DropOldest
  <2>6. Numbers!Edit(0)
    BY <1>2, <2>5 DEF Numbers!Edit
  <2>7. QED
    BY <2>6 DEF Numbers!Next
<1>3. CASE Undo(SnapshotOf(buf))
  <2>1. undoStack # << >>
    BY <1>3 DEF Undo, CanUndo
  <2>2. /\ Zeros(undoStack) # << >>
        /\ Zeros(Pop(undoStack)) = Numbers!Pop(Zeros(undoStack))
        /\ Numbers!Top(Zeros(undoStack)) = 0
        /\ Zeros(Append(redoStack, SnapshotOf(buf))) = Append(Zeros(redoStack), 0)
    BY <1>1, <2>1, ZerosOf
  <2>3. Numbers!Undo(0) /\ Numbers!UndoTarget = 0
    BY <1>3, <2>2 DEF Undo, Numbers!Undo, Numbers!CanUndo, Numbers!UndoTarget,
       Numbers!Pop, Numbers!Top, Pop, Top
  <2>4. QED
    BY <2>3 DEF Numbers!UndoEdit, Numbers!Next
<1>4. CASE Redo(SnapshotOf(buf))
  <2>1. redoStack # << >>
    BY <1>4 DEF Redo, CanRedo
  <2>2. /\ Zeros(redoStack) # << >>
        /\ Zeros(Pop(redoStack)) = Numbers!Pop(Zeros(redoStack))
        /\ Numbers!Top(Zeros(redoStack)) = 0
        /\ Zeros(Append(undoStack, SnapshotOf(buf))) = Append(Zeros(undoStack), 0)
    BY <1>1, <2>1, ZerosOf
  <2>3. Numbers!Redo(0) /\ Numbers!RedoTarget = 0
    BY <1>4, <2>2 DEF Redo, Numbers!Redo, Numbers!CanRedo, Numbers!RedoTarget,
       Numbers!Pop, Numbers!Top, Pop, Top
  <2>4. QED
    BY <2>3 DEF Numbers!RedoEdit, Numbers!Next
<1>5. CASE MarkSaved
  <2>1. Numbers!Save
    BY <1>5 DEF MarkSaved, Numbers!Save, Numbers!MarkSaved
  <2>2. QED
    BY <2>1 DEF Numbers!Next
<1>6. CASE ClearAll
  <2>1. Zeros(<< >>) = << >>
    BY <1>1, ZerosOf
  <2>2. Numbers!Load(0)
    BY <1>6, <2>1 DEF ClearAll, Numbers!Load, Numbers!ClearAll
  <2>3. QED
    BY <2>2 DEF Numbers!Next
<1>7. CASE UNCHANGED historyVars
  BY <1>7 DEF historyVars, Numbers!vars
<1>8. QED
  BY <1>2, <1>3, <1>4, <1>5, <1>6, <1>7 DEF HistoryMoves

\* No two states in reach share a version, and no version exceeds the counter.
VersionsApart ==
  /\ savedVersion <= versionCounter /\ versionCounter \in Nat
  /\ \A i, j \in 1 .. Len(undoVersionStack) :
       undoVersionStack[i] = undoVersionStack[j] => i = j
  /\ \A i, j \in 1 .. Len(redoVersionStack) :
       redoVersionStack[i] = redoVersionStack[j] => i = j
  /\ \A i \in 1 .. Len(undoVersionStack), j \in 1 .. Len(redoVersionStack) :
       undoVersionStack[i] # redoVersionStack[j]
  /\ \A i \in 1 .. Len(undoVersionStack) : undoVersionStack[i] # currentVersion
  /\ \A i \in 1 .. Len(redoVersionStack) : redoVersionStack[i] # currentVersion

(***************************************************************************)
(* What SavePointProofs shows of versions and of memory holds of every     *)
(* session: no two states within reach of undo and redo share a version.   *)
(***************************************************************************)
LEMMA SessionVersionsApart == Spec => []VersionsApart
<1>1. {0} # {}
  OBVIOUS
<1>2. Numbers!Spec => []Numbers!VersionsUnique
  BY <1>1, MaxDepthAssumption, MaxVersionsAssumption,
     Numbers!VersionNamesOneState
<1>3. Numbers!Spec => []Numbers!TypeOK
  BY <1>1, MaxDepthAssumption, MaxVersionsAssumption, Numbers!TypeCorrect
<1>4. Init => Numbers!Init
  <2>1. Zeros(<< >>) = << >>
    BY ZerosOf, EmptySeq
  <2>2. QED
    BY <2>1 DEF Init, HistoryInit, Numbers!Init, Numbers!HistoryInit
<1>5. TypeOK /\ [Next]_vars => [Numbers!Next]_(Numbers!vars)
  BY HistoryMove, NumbersStep
<1>6. Numbers!VersionsUnique /\ Numbers!TypeOK => VersionsApart
  BY DEF VersionsApart, Numbers!VersionsUnique, Numbers!UndoVersionsDistinct,
     Numbers!RedoVersionsDistinct, Numbers!StacksShareNoVersion,
     Numbers!LiveVersionUnstacked, Numbers!TypeOK, Numbers!Versions
<1>7. QED
  BY <1>2, <1>3, <1>4, <1>5, <1>6, TypeCorrect, PTL DEF Spec, Numbers!Spec

-----------------------------------------------------------------------------
(***************************************************************************)
(* A plain-text document in view.  Flattening leaves floats, page breaks,  *)
(* alignment and columns where they are, so the hypothesis is a session    *)
(* that makes none; typing runs, drags and writes that fail in any way are *)
(* allowed.                                                                *)
(***************************************************************************)
CharactersOnly == Commands \cap {"float", "columns"} = {}

Unplaced(b) == b.float = "none" /\ ~b.columns

UnplacedSnapshots == {s \in Snapshots : s.float = "none"}

\* Nothing is placed on the page, in the buffer, the history or a file, and
\* what a plain file holds has no formats.
PlacedNowhere ==
  /\ Unplaced(buf)
  /\ StacksOver(UnplacedSnapshots, Versions)
  /\ \A p \in Paths : disk[p] \in Buffers =>
       Unplaced(disk[p]) /\ (p \in TxtPaths => ~disk[p].styled)

\* What carries the saved version of a plain document has no formats.
SavedIsFlat ==
  /\ currentVersion = savedVersion => ~buf.styled
  /\ \A s \in Snapshots : Filed(s, savedVersion) => ~s.styled

FlatInv ==
  running /\ filename \in TxtPaths => SavedIsFlat /\ (~dirty => ~buf.styled)

\* A snapshot of a buffer without floats has none, and puts none back.
LEMMA UnplacedKept ==
  ASSUME NEW b \in Buffers, Unplaced(b)
  PROVE  /\ SnapshotOf(b) \in UnplacedSnapshots
         /\ SnapshotOf(b).styled = b.styled
         /\ \A s \in UnplacedSnapshots :
              /\ Unplaced(RestoredFrom(s, b))
              /\ RestoredFrom(s, b).styled = s.styled
         /\ Unplaced(FlattenAllStyles(b)) /\ ~FlattenAllStyles(b).styled
<1>1. SnapshotOf(b) \in Snapshots
  BY SnapshotTyped
<1>2. SnapshotOf(b).float = "none" /\ SnapshotOf(b).styled = b.styled
  BY DEF SnapshotOf, Unplaced
<1>3. ASSUME NEW s \in UnplacedSnapshots
      PROVE  /\ Unplaced(RestoredFrom(s, b))
             /\ RestoredFrom(s, b).styled = s.styled
  BY <1>3 DEF RestoredFrom, Unplaced, UnplacedSnapshots, Buffers
<1>4. Unplaced(FlattenAllStyles(b)) /\ ~FlattenAllStyles(b).styled
  BY DEF FlattenAllStyles, Unplaced, Buffers
<1>5. QED
  BY <1>1, <1>2, <1>3, <1>4 DEF UnplacedSnapshots

\* A write puts in a file what it may hold.
LEMMA WritePlacesNothing ==
  ASSUME TypeOK, PlacedNowhere, NEW path \in Paths, NEW b \in Buffers,
         Unplaced(b), NEW outcome \in WriteOutcomes,
         WriteDocument(path, b, outcome), Saved(path, outcome)
  PROVE  PlacedNowhere'
<1>1. disk \in [Paths -> Buffers \cup {NoFile, Truncated}]
  BY DEF TypeOK
<1>2. disk' = [disk EXCEPT ![path] = FileAfter(path, b, outcome)] /\ buf' = b
  BY DEF WriteDocument
<1>3. outcome \in {"ok", "cannotOpen", "writeError", "closeError"}
  BY FaultsAssumption DEF WriteOutcomes, WriteFaults
<1>4. \/ FileAfter(path, b, outcome) = Encoded(path, b)
      \/ FileAfter(path, b, outcome) = Truncated
      \/ FileAfter(path, b, outcome) = disk[path]
  BY <1>3 DEF FileAfter
<1>5. Unplaced(Encoded(path, b)) /\ (path \in TxtPaths => ~Encoded(path, b).styled)
  BY PathsAssumption DEF Encoded, Unplaced, Blank
<1>6. ASSUME NEW p \in Paths, disk'[p] \in Buffers
      PROVE  Unplaced(disk'[p]) /\ (p \in TxtPaths => ~disk'[p].styled)
  <2>1. CASE p # path
    BY <1>1, <1>2, <1>6, <2>1 DEF PlacedNowhere
  <2>2. CASE p = path
    <3>1. disk'[p] = FileAfter(path, b, outcome)
      BY <1>1, <1>2, <2>2
    <3>2. QED
      BY <1>4, <1>5, <1>6, <2>2, <3>1, SentinelAssumption DEF PlacedNowhere
  <2>3. QED
    BY <2>1, <2>2
<1>7. StacksOver(UnplacedSnapshots, Versions)'
  BY DEF PlacedNowhere, Saved, MarkSaved, historyVars, StacksOver
<1>8. QED
  BY <1>2, <1>6, <1>7 DEF PlacedNowhere

\* The commands of a session without floats and columns that touch neither.
LEMMA NothingPlaced ==
  ASSUME CharactersOnly, TypeOK, PlacedNowhere, [Next]_vars
  PROVE  /\ ~EditFloat /\ ~CloseColumnsDialog /\ ~PressFloat
         /\ DragFloat \/ ReleaseFloat => UNCHANGED <<historyVars, documentVars>>
BY DEF CharactersOnly, EditFloat, CloseColumnsDialog, PressFloat, DragFloat,
   ReleaseFloat, PlacedNowhere, Unplaced

\* A buffer that differs in its text or in its formats from one without floats.
LEMMA EditedUnplaced ==
  ASSUME buf \in Buffers, Unplaced(buf),
         TypeCharacter \/ TypeOverSelection \/ EditText \/ ApplyStyle
  PROVE  /\ Unplaced(buf') /\ dirty' /\ UNCHANGED <<filename, disk, running>>
         /\ ~ApplyStyle => buf'.styled = buf.styled
         /\ \/ /\ PushEdit(SnapshotOf(buf))
            \/ UNCHANGED historyVars /\ TypeCharacter
<1>1. \A n : /\ Unplaced([buf EXCEPT !.text = n])
             /\ [buf EXCEPT !.text = n].styled = buf.styled
  BY DEF Unplaced, Buffers
<1>2. \A x : Unplaced([buf EXCEPT !.styled = x])
  BY DEF Unplaced, Buffers
<1>3. /\ ApplyStyle => buf' = [buf EXCEPT !.styled = ~ buf.styled]
      /\ TypeCharacter => buf' = [buf EXCEPT !.text = buf.text + 1]
      /\ TypeOverSelection \/ EditText => \E n : buf' = [buf EXCEPT !.text = n]
  BY DEF ApplyStyle, TypeCharacter, TypeOverSelection, EditText, ChangeBuffer
<1>4. Unplaced(buf')
  BY <1>1, <1>2, <1>3
<1>5. ~ApplyStyle => buf'.styled = buf.styled
  <2>1. ASSUME NEW n, buf' = [buf EXCEPT !.text = n]
        PROVE  buf'.styled = buf.styled
    BY <2>1, <1>1
  <2>2. ~ApplyStyle => \E n : buf' = [buf EXCEPT !.text = n]
    BY <1>3
  <2>3. QED
    BY <2>1, <2>2
<1>6. dirty' /\ UNCHANGED <<filename, disk, running>>
  BY DEF ApplyStyle, TypeCharacter, TypeOverSelection, EditText, ChangeBuffer,
     promptVars
<1>7. \/ PushEdit(SnapshotOf(buf))
      \/ UNCHANGED historyVars /\ TypeCharacter
  BY DEF ApplyStyle, TypeCharacter, TypeOverSelection, EditText,
     PushUndoBeforeEdit, EnsureUndoBeforeInsert
<1>8. QED
  BY <1>4, <1>5, <1>6, <1>7

\* A write of the document as it is or flattened; what a plain file is given
\* has no formats, or the program ends.
Writes(path, b, outcome) ==
  /\ WriteDocument(path, b, outcome)
  /\ Saved(path, outcome)
  /\ path \in TxtPaths /\ running' /\ Succeeds(path, outcome) => ~b.styled

Loads(path) == Readable(path) /\ LoadDocument(path) /\ ClearAll

SomeWrite ==
  \E path \in Paths, outcome \in WriteOutcomes :
    Writes(path, buf, outcome) \/ Writes(path, FlattenAllStyles(buf), outcome)

\* What a step of such a session may do to the document and its history.
LEMMA StepKinds ==
  ASSUME CharactersOnly, IInv, PlacedNowhere, [Next]_vars
  PROVE  /\ running' => running
         /\ \/ TypeCharacter \/ TypeOverSelection \/ EditText \/ ApplyStyle
            \/ DoUndo \/ DoRedo \/ SomeWrite \/ NewFile
            \/ \E path \in Paths : Loads(path)
            \/ UNCHANGED <<historyVars, documentVars>>
<1> USE DEF Editing, Asking
<1>1. /\ ~EditFloat /\ ~CloseColumnsDialog /\ ~PressFloat
      /\ DragFloat \/ ReleaseFloat => UNCHANGED <<historyVars, documentVars>>
  BY NothingPlaced DEF IInv
<1>2. buf \in Buffers /\ filename \in Paths \cup {Untitled} /\ Untitled \notin Paths
  BY PathsAssumption DEF IInv, TypeOK, Paths
<1>3. ~FlattenAllStyles(buf).styled
  BY <1>2, UnplacedKept DEF PlacedNowhere
<1>4. ~HasAnyFormatting(buf) => ~buf.styled
  BY DEF HasAnyFormatting
<1>5. ASSUME NEW path \in Paths, PerformSaveAs(path)
      PROVE  SomeWrite
  <2>1. PICK outcome \in WriteOutcomes :
          /\ WriteDocument(path, IF path \in TxtPaths /\ HasAnyFormatting(buf)
                                 THEN FlattenAllStyles(buf) ELSE buf, outcome)
          /\ Saved(path, outcome)
    BY <1>5 DEF PerformSaveAs
  <2>2. CASE path \in TxtPaths /\ HasAnyFormatting(buf)
    <3>1. Writes(path, FlattenAllStyles(buf), outcome)
      BY <1>3, <2>1, <2>2 DEF Writes
    <3>2. QED
      BY <3>1 DEF SomeWrite
  <2>3. CASE ~(path \in TxtPaths /\ HasAnyFormatting(buf))
    <3>1. Writes(path, buf, outcome)
      BY <1>4, <2>1, <2>3 DEF Writes
    <3>2. QED
      BY <3>1 DEF SomeWrite
  <2>4. QED
    BY <2>2, <2>3
<1>6. CASE ConfirmOverwriteYes \/ \E path \in Paths : CommitSaveAs(path)
  <2>1. ConfirmOverwriteYes => pendingSavePath \in Paths
    BY DEF ConfirmOverwriteYes, IInv, TypeOK
  <2>2. running
    BY <1>6 DEF ConfirmOverwriteYes, CommitSaveAs
  <2>3. (\E path \in Paths : PerformSaveAs(path))
          \/ UNCHANGED <<historyVars, documentVars>>
    BY <1>6, <2>1 DEF ConfirmOverwriteYes, CommitSaveAs
  <2>4. QED
    BY <1>5, <2>2, <2>3
<1>7. CASE SaveDocument
  <2>1. running
    BY <1>7 DEF SaveDocument
  <2>2. CASE UNCHANGED <<historyVars, documentVars>>
    BY <2>1, <2>2
  <2>3. CASE ~UNCHANGED <<historyVars, documentVars>>
    <3>1. /\ filename \in Paths
          /\ ~(filename \in TxtPaths /\ HasAnyFormatting(buf))
      BY <1>2, <1>7, <2>3 DEF SaveDocument
    <3>2. PICK outcome \in WriteOutcomes :
            WriteDocument(filename, buf, outcome) /\ Saved(filename, outcome)
      BY <1>7, <2>3 DEF SaveDocument
    <3>3. Writes(filename, buf, outcome)
      BY <1>4, <3>1, <3>2 DEF Writes
    <3>4. QED
      BY <2>1, <3>1, <3>3 DEF SomeWrite
  <2>4. QED
    BY <2>2, <2>3
<1>8. CASE SaveAsRtfNo
  <2>1. filename \in Paths /\ running
    BY <1>8 DEF SaveAsRtfNo, IInv, PlainQuestion, Paths
  <2>2. PICK outcome \in WriteOutcomes :
          /\ WriteDocument(filename, FlattenAllStyles(buf), outcome)
          /\ Saved(filename, outcome)
    BY <1>8 DEF SaveAsRtfNo
  <2>3. Writes(filename, FlattenAllStyles(buf), outcome)
    BY <1>3, <2>2 DEF Writes
  <2>4. QED
    BY <2>1, <2>3 DEF SomeWrite
<1>9. CASE ConfirmExitYes
  <2>1. running
    BY <1>9 DEF ConfirmExitYes
  <2>2. CASE filename = Untitled
    BY <1>9, <2>1, <2>2 DEF ConfirmExitYes
  <2>3. CASE filename # Untitled
    <3>1. PICK outcome \in WriteOutcomes :
            /\ WriteDocument(filename, buf, outcome)
            /\ Saved(filename, outcome)
            /\ running' = ~Succeeds(filename, outcome)
      BY <1>9, <2>3 DEF ConfirmExitYes
    <3>2. Writes(filename, buf, outcome)
      BY <3>1 DEF Writes
    <3>3. QED
      BY <1>2, <2>1, <2>3, <3>2 DEF SomeWrite
  <2>4. QED
    BY <2>2, <2>3
<1>10. CASE \/ NewCommand \/ ConfirmNewYes \/ \E path \in Paths : OpenFile(path)
  BY <1>10 DEF NewCommand, ConfirmNewYes, OpenFile, Loads, GoTo
<1>11. CASE \/ TypeCharacter \/ TypeOverSelection \/ EditText \/ ApplyStyle
            \/ DoUndo \/ DoRedo
  BY <1>11 DEF TypeCharacter, TypeOverSelection, EditText, ApplyStyle, DoUndo,
     DoRedo
<1>12. CASE \/ Navigate \/ DragFloat \/ ReleaseFloat \/ SaveAsCommand
            \/ SaveAsRtfYes \/ CancelPrompt \/ Browse \/ ConfirmNo
            \/ OpenCommand \/ RequestExit \/ ConfirmExitNo
            \/ ConfirmExitCleanYes
  BY <1>1, <1>12 DEF Navigate, DragFloat, ReleaseFloat, SaveAsCommand,
     SaveAsRtfYes, CancelPrompt, Browse, ConfirmNo, OpenCommand, RequestExit,
     ConfirmExitNo, ConfirmExitCleanYes, Leave, GoTo
<1>13. CASE UNCHANGED vars
  BY <1>13 DEF vars, promptVars
<1>14. QED
  BY <1>1, <1>6, <1>7, <1>8, <1>9, <1>10, <1>11, <1>12, <1>13 DEF Next

\* Nothing is placed on the page by a step of such a session.
LEMMA PlacedStep ==
  ASSUME CharactersOnly, IInv, PlacedNowhere, [Next]_vars
  PROVE  PlacedNowhere'
<1>1. /\ buf \in Buffers /\ Unplaced(buf)
      /\ StacksOver(UnplacedSnapshots, Versions) /\ currentVersion \in Versions
  BY DEF IInv, TypeOK, PlacedNowhere
<1>2. /\ SnapshotOf(buf) \in UnplacedSnapshots
      /\ \A s \in UnplacedSnapshots : Unplaced(RestoredFrom(s, buf))
      /\ Unplaced(FlattenAllStyles(buf)) /\ FlattenAllStyles(buf) \in Buffers
  BY <1>1, UnplacedKept, FlatTyped
<1>3. CASE UNCHANGED <<historyVars, documentVars>>
  BY <1>3 DEF PlacedNowhere, historyVars, documentVars, StacksOver
<1>4. CASE TypeCharacter \/ TypeOverSelection \/ EditText \/ ApplyStyle
  <2>1. Unplaced(buf') /\ UNCHANGED disk
    BY <1>1, <1>4, EditedUnplaced
  <2>2. PushEdit(SnapshotOf(buf)) \/ UNCHANGED historyVars
    BY <1>1, <1>4, EditedUnplaced
  <2>3. StacksOver(UnplacedSnapshots, Versions)'
    <3>1. CASE PushEdit(SnapshotOf(buf))
      BY <1>1, <1>2, <3>1, PushEditStacks
    <3>2. CASE UNCHANGED historyVars
      BY <1>1, <3>2 DEF historyVars, StacksOver
    <3>3. QED
      BY <2>2, <3>1, <3>2
  <2>4. QED
    BY <2>1, <2>3 DEF PlacedNowhere
<1>5. CASE DoUndo
  <2>1. Undo(SnapshotOf(buf)) /\ ApplyUndoState(UndoTarget)
    BY <1>5 DEF DoUndo
  <2>2. StacksOver(UnplacedSnapshots, Versions)' /\ UndoTarget \in UnplacedSnapshots
    BY <1>1, <1>2, <2>1, UndoStacks
  <2>3. QED
    BY <1>2, <2>1, <2>2 DEF ApplyUndoState, PlacedNowhere
<1>6. CASE DoRedo
  <2>1. Redo(SnapshotOf(buf)) /\ ApplyUndoState(RedoTarget)
    BY <1>6 DEF DoRedo
  <2>2. StacksOver(UnplacedSnapshots, Versions)' /\ RedoTarget \in UnplacedSnapshots
    BY <1>1, <1>2, <2>1, RedoStacks
  <2>3. QED
    BY <1>2, <2>1, <2>2 DEF ApplyUndoState, PlacedNowhere
<1>7. CASE SomeWrite
  <2>1. PICK path \in Paths, outcome \in WriteOutcomes :
          \/ Writes(path, buf, outcome)
          \/ Writes(path, FlattenAllStyles(buf), outcome)
    BY <1>7 DEF SomeWrite
  <2>2. QED
    BY <1>1, <1>2, <2>1, WritePlacesNothing DEF Writes, IInv
<1>8. CASE NewFile
  <2>1. StacksOver(UnplacedSnapshots, Versions)'
    BY <1>8, EmptyStacks DEF NewFile, ClearAll
  <2>2. QED
    BY <1>8, <2>1 DEF NewFile, NewDocument, PlacedNowhere, Unplaced, Blank
<1>9. CASE \E path \in Paths : Loads(path)
  <2>1. PICK path \in Paths : Loads(path)
    BY <1>9
  <2>2. StacksOver(UnplacedSnapshots, Versions)'
    BY <2>1, EmptyStacks DEF Loads, ClearAll
  <2>3. Unplaced(Blank)
    BY DEF Unplaced, Blank
  <2>4. disk[path] = Truncated \/ disk[path] \in Buffers
    BY <2>1 DEF Loads, Readable, IInv, TypeOK
  <2>5. Unplaced(Decoded(path))
    BY <2>3, <2>4 DEF Decoded, PlacedNowhere
  <2>6. QED
    BY <2>1, <2>2, <2>5 DEF Loads, LoadDocument, PlacedNowhere
<1>10. QED
  BY <1>3, <1>4, <1>5, <1>6, <1>7, <1>8, <1>9, StepKinds

\* What is filed is a snapshot, and under another version than the live one.
LEMMA FiledApart ==
  ASSUME TypeOK, VersionsApart, NEW x, NEW v, Filed(x, v)
  PROVE  x \in Snapshots /\ v # currentVersion
<1>1. /\ \A i \in 1 .. Len(undoStack) :
           undoStack[i] \in Snapshots /\ undoVersionStack[i] # currentVersion
      /\ \A i \in 1 .. Len(redoStack) :
           redoStack[i] \in Snapshots /\ redoVersionStack[i] # currentVersion
  BY ElementOfSeq DEF TypeOK, VersionsApart
<1>2. QED
  BY <1>1 DEF Filed

\* The edits leave the saved version with what carried it.
LEMMA EditsFlat ==
  ASSUME TypeOK, PlacedNowhere, VersionsApart, VersionsApart', SavedIsFlat,
         TypeCharacter \/ TypeOverSelection \/ EditText \/ ApplyStyle
  PROVE  SavedIsFlat' /\ dirty'
<1>1. /\ buf \in Buffers /\ Unplaced(buf)
      /\ StacksOver(Snapshots, Versions) /\ currentVersion \in Versions
      /\ SnapshotOf(buf) \in Snapshots /\ SnapshotOf(buf).styled = buf.styled
  BY UnplacedKept, SnapshotTyped DEF TypeOK, StacksOver, PlacedNowhere
<1>2. /\ dirty' /\ (~ApplyStyle => buf'.styled = buf.styled)
      /\ PushEdit(SnapshotOf(buf)) \/ (UNCHANGED historyVars /\ TypeCharacter)
  BY <1>1, EditedUnplaced
<1>3. CASE PushEdit(SnapshotOf(buf))
  <2>1. savedVersion' = savedVersion /\ currentVersion' = versionCounter + 1
    BY <1>3 DEF PushEdit
  <2>2. currentVersion' # savedVersion'
    <3>1. savedVersion <= versionCounter /\ versionCounter \in Nat
          /\ savedVersion \in Nat
      BY DEF VersionsApart, TypeOK, Versions
    <3>2. QED
      BY <2>1, <3>1
  <2>3. ASSUME NEW x \in Snapshots, Filed(x, savedVersion)'
        PROVE  ~x.styled
    <3>1. PICK v : v = savedVersion
      OBVIOUS
    <3>2. Filed(x, v)'
      BY <2>1, <2>3, <3>1 DEF Filed
    <3>3. Filed(x, v) \/ (x = SnapshotOf(buf) /\ v = currentVersion)
      BY <1>1, <1>3, <3>2, PushEditFiles
    <3>4. QED
      BY <1>1, <2>3, <3>1, <3>3 DEF SavedIsFlat
  <2>4. QED
    BY <1>2, <2>2, <2>3 DEF SavedIsFlat
<1>4. CASE UNCHANGED historyVars /\ TypeCharacter /\ ~ApplyStyle
  <2>1. buf'.styled = buf.styled
    BY <1>2, <1>4
  <2>2. \A x : Filed(x, savedVersion)' <=> Filed(x, savedVersion)
    BY <1>4 DEF Filed, historyVars
  <2>3. QED
    BY <1>2, <1>4, <2>1, <2>2 DEF SavedIsFlat, historyVars
<1>5. ApplyStyle => PushEdit(SnapshotOf(buf))
  BY DEF ApplyStyle, PushUndoBeforeEdit
<1>6. QED
  BY <1>2, <1>3, <1>4, <1>5

\* Undo and redo clear the mark at the saved version only, which is flat.
LEMMA UndoFlat ==
  ASSUME TypeOK, PlacedNowhere, SavedIsFlat, DoUndo \/ DoRedo
  PROVE  SavedIsFlat' /\ (~dirty' => ~buf'.styled)
<1>1. /\ buf \in Buffers /\ Unplaced(buf)
      /\ StacksOver(UnplacedSnapshots, Versions) /\ currentVersion \in Versions
      /\ SnapshotOf(buf) \in UnplacedSnapshots
      /\ SnapshotOf(buf).styled = buf.styled
      /\ \A s \in UnplacedSnapshots : RestoredFrom(s, buf).styled = s.styled
  BY UnplacedKept DEF TypeOK, PlacedNowhere
<1> DEFINE Handed(target) ==
             /\ target \in UnplacedSnapshots
             /\ \E v : v = currentVersion' /\ Filed(target, v)
             /\ \A x, v : Filed(x, v)' =>
                  Filed(x, v) \/ (x = SnapshotOf(buf) /\ v = currentVersion)
             /\ savedVersion' = savedVersion
             /\ ApplyUndoState(target)
<1>2. ASSUME DoUndo
      PROVE  \E t : Handed(t)
  <2>1. Undo(SnapshotOf(buf)) /\ ApplyUndoState(UndoTarget)
    BY <1>2 DEF DoUndo
  <2>2. PICK t : t = UndoTarget
    OBVIOUS
  <2>3. t \in UnplacedSnapshots
    BY <1>1, <2>1, <2>2, UndoStacks
  <2>4. Handed(t)
    BY <1>1, <2>1, <2>2, <2>3, UndoFiles DEF Undo
  <2>5. QED
    BY <2>4
<1>3. ASSUME DoRedo
      PROVE  \E t : Handed(t)
  <2>1. Redo(SnapshotOf(buf)) /\ ApplyUndoState(RedoTarget)
    BY <1>3 DEF DoRedo
  <2>2. PICK t : t = RedoTarget
    OBVIOUS
  <2>3. t \in UnplacedSnapshots
    BY <1>1, <2>1, <2>2, RedoStacks
  <2>4. Handed(t)
    BY <1>1, <2>1, <2>2, <2>3, RedoFiles DEF Redo
  <2>5. QED
    BY <2>4
<1>4. PICK t : Handed(t)
  BY <1>2, <1>3
<1>5. /\ buf' = RestoredFrom(t, buf) /\ dirty' = (currentVersion' # savedVersion')
      /\ buf'.styled = t.styled
  BY <1>1, <1>4 DEF ApplyUndoState
<1>6. currentVersion' = savedVersion' => ~buf'.styled
  BY <1>4, <1>5 DEF SavedIsFlat, UnplacedSnapshots
<1>7. ASSUME NEW x \in Snapshots, Filed(x, savedVersion)'
      PROVE  ~x.styled
  <2>1. PICK v : v = savedVersion
    OBVIOUS
  <2>2. Filed(x, v)'
    BY <1>4, <1>7, <2>1 DEF Filed
  <2>3. Filed(x, v) \/ (x = SnapshotOf(buf) /\ v = currentVersion)
    BY <1>4, <2>2
  <2>4. QED
    BY <1>1, <1>7, <2>1, <2>3 DEF SavedIsFlat
<1>8. QED
  BY <1>5, <1>6, <1>7 DEF SavedIsFlat

\* A plain file is written from a flat buffer, whose version nothing else has.
LEMMA WriteFlat ==
  ASSUME IInv, PlacedNowhere, VersionsApart, FlatInv, running, SomeWrite
  PROVE  FlatInv'
<1> SUFFICES ASSUME running', filename' \in TxtPaths
             PROVE  SavedIsFlat' /\ (~dirty' => ~buf'.styled)
  BY DEF FlatInv
<1>1. buf \in Buffers /\ Unplaced(buf) /\ dirty \in BOOLEAN
  BY DEF IInv, TypeOK, PlacedNowhere
<1>2. PICK path \in Paths, outcome \in WriteOutcomes :
        \/ Writes(path, buf, outcome)
        \/ Writes(path, FlattenAllStyles(buf), outcome)
  BY DEF SomeWrite
<1>3. \/ buf' = buf \/ ~buf'.styled
  BY <1>1, <1>2, UnplacedKept DEF Writes, WriteDocument
<1>4. CASE Succeeds(path, outcome)
  <2>1. /\ filename' = path /\ MarkSaved /\ ~buf'.styled
    BY <1>1, <1>2, <1>4, UnplacedKept DEF Writes, WriteDocument, Saved
  <2>2. ASSUME NEW x \in Snapshots, Filed(x, savedVersion)'
        PROVE  FALSE
    <3>1. PICK v : v = currentVersion
      OBVIOUS
    <3>2. Filed(x, v)
      BY <2>1, <2>2, <3>1 DEF Filed, MarkSaved
    <3>3. QED
      BY <3>1, <3>2, FiledApart DEF IInv
  <2>3. QED
    BY <2>1, <2>2 DEF SavedIsFlat
<1>5. CASE ~Succeeds(path, outcome)
  <2>1. filename' = filename /\ dirty' = dirty /\ UNCHANGED historyVars
    BY <1>1, <1>2, <1>5 DEF Writes, WriteDocument, Saved
  <2>2. SavedIsFlat /\ (~dirty => ~buf.styled)
    BY <2>1 DEF FlatInv
  <2>3. \A x : Filed(x, savedVersion)' <=> Filed(x, savedVersion)
    BY <2>1 DEF Filed, historyVars
  <2>4. QED
    BY <1>3, <2>1, <2>2, <2>3 DEF SavedIsFlat, historyVars
<1>6. QED
  BY <1>4, <1>5

\* Opening a plain file shows what it holds, with nothing to undo.
LEMMA LoadFlat ==
  ASSUME IInv, PlacedNowhere, NEW path \in Paths, Loads(path)
  PROVE  FlatInv'
<1> SUFFICES ASSUME filename' \in TxtPaths
             PROVE  SavedIsFlat' /\ ~buf'.styled
  BY DEF FlatInv
<1>1. filename' = path /\ buf' = Decoded(path) /\ Readable(path) /\ ClearAll
  BY DEF Loads, LoadDocument
<1>2. disk[path] = Truncated \/ disk[path] \in Buffers
  BY <1>1 DEF Readable, IInv, TypeOK
<1>3. ~buf'.styled
  BY <1>1, <1>2 DEF Decoded, PlacedNowhere, Blank
<1>4. \A x, v : ~Filed(x, v)'
  BY <1>1 DEF ClearAll, Filed
<1>5. ASSUME NEW x \in Snapshots, Filed(x, savedVersion)'
      PROVE  FALSE
  BY <1>1, <1>5 DEF ClearAll, Filed
<1>6. QED
  BY <1>3, <1>5 DEF SavedIsFlat

\* Every step leaves a clean plain document without formats.
LEMMA FlatStep ==
  ASSUME CharactersOnly, IInv, PlacedNowhere, VersionsApart, VersionsApart',
         FlatInv, [Next]_vars
  PROVE  FlatInv'
<1> SUFFICES ASSUME running', filename' \in TxtPaths
             PROVE  FlatInv'
  BY DEF FlatInv
<1>1. running
  BY StepKinds
<1>2. CASE TypeCharacter \/ TypeOverSelection \/ EditText \/ ApplyStyle
  <2>1. UNCHANGED filename
    BY <1>2 DEF TypeCharacter, TypeOverSelection, EditText, ApplyStyle,
       ChangeBuffer
  <2>2. SavedIsFlat
    BY <1>1, <2>1 DEF FlatInv
  <2>3. QED
    BY <1>2, <2>2, EditsFlat DEF IInv, FlatInv
<1>3. CASE DoUndo \/ DoRedo
  <2>1. UNCHANGED filename
    BY <1>3 DEF DoUndo, DoRedo, ApplyUndoState
  <2>2. SavedIsFlat
    BY <1>1, <2>1 DEF FlatInv
  <2>3. QED
    BY <1>3, <2>2, UndoFlat DEF IInv, FlatInv
<1>4. CASE SomeWrite
  BY <1>1, <1>4, WriteFlat
<1>5. CASE NewFile
  BY <1>5, PathsAssumption DEF NewFile, NewDocument
<1>6. CASE \E path \in Paths : Loads(path)
  BY <1>6, LoadFlat
<1>7. CASE UNCHANGED <<historyVars, documentVars>>
  <2>1. \A x : Filed(x, savedVersion)' <=> Filed(x, savedVersion)
    BY <1>7 DEF Filed, historyVars
  <2>2. QED
    BY <1>1, <1>7, <2>1 DEF FlatInv, SavedIsFlat, historyVars, documentVars
<1>8. QED
  BY <1>2, <1>3, <1>4, <1>5, <1>6, <1>7, StepKinds

(***************************************************************************)
(* A clean plain-text document shows nothing its file lacks, whatever is   *)
(* typed, styled, undone, renamed or reopened, and however its writes      *)
(* fail: saving to .txt flattens "in memory so the in-editor view matches  *)
(* what's about to hit disk" (Application.cpp:3047).                       *)
(***************************************************************************)
THEOREM PlainViewFlat ==
  ASSUME CharactersOnly
  PROVE  Spec => []PlainViewMatches
<1>1. Init => IInv /\ PlacedNowhere /\ FlatInv
  <2> SUFFICES ASSUME Init PROVE IInv /\ PlacedNowhere /\ FlatInv
    OBVIOUS
  <2>1. IInv
    BY InitTyped DEF IInv, PlainQuestion, Init
  <2>2. PlacedNowhere
    BY SentinelAssumption DEF Init, DocumentInit, HistoryInit, PlacedNowhere,
       StacksOver, Unplaced, Blank
  <2>3. FlatInv
    BY PathsAssumption DEF Init, DocumentInit, FlatInv
  <2>4. QED
    BY <2>1, <2>2, <2>3
<1>2. IInv /\ PlacedNowhere /\ FlatInv /\ VersionsApart /\ VersionsApart'
        /\ [Next]_vars => (IInv /\ PlacedNowhere /\ FlatInv)'
  BY StepIInv, PlacedStep, FlatStep
<1>3. PlacedNowhere /\ FlatInv => PlainViewMatches
  BY DEF PlacedNowhere, Unplaced, FlatInv, PlainViewMatches, HasAnyFormatting
<1>4. QED
  BY <1>1, <1>2, <1>3, SessionVersionsApart, PTL DEF Spec
=============================================================================
