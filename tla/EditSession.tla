------------------------------ MODULE EditSession ------------------------------
(***************************************************************************)
(* An editing session: the application's commands over the document and    *)
(* its undo history, with the modal prompts that stand between a command   *)
(* and the file system.  One action per handler; the window system may     *)
(* deliver any command in any state, a close request and mouse motion even *)
(* while a prompt is up.                                                   *)
(*                                                                         *)
(* Left out: the caret and the selection (CaretEditing), the per-document  *)
(* settings store, and the prompts that touch neither the document nor the *)
(* files.                                                                  *)
(***************************************************************************)
EXTENDS RichUndoHistory, RichDocument

CONSTANTS
  MaxVersions,         \* bound on the undo steps pushed between two ClearAll
  Commands             \* the groups of commands the user makes use of

CommandGroups == {"type", "style", "float", "drag", "columns", "open", "new"}

ASSUME CommandsAssumption == Commands \subseteq CommandGroups
ASSUME MaxVersionsAssumption == MaxVersions \in Nat

VARIABLES
  lastActionWasInsert, \* m_lastActionWasInsert: a typing run is going on
  floatDragActive,     \* m_floatDragActive
  prompt,              \* m_promptMode, the modes of saving, opening, leaving
  pendingSavePath,     \* m_pendingSavePath
  exitAfterSave,       \* m_exitAfterSave
  running              \* m_running

promptVars == <<prompt, pendingSavePath, exitAfterSave, running>>

vars == <<historyVars, documentVars, lastActionWasInsert, floatDragActive,
          promptVars>>

Prompts == {"None", "SaveAs", "Open", "BrowseFolder", "BrowseFile",
            "ConfirmExit", "ConfirmExitClean", "ConfirmNew",
            "ConfirmSaveAsRtf", "ConfirmOverwrite"}

Init ==
  /\ HistoryInit
  /\ DocumentInit
  /\ lastActionWasInsert = FALSE
  /\ floatDragActive = FALSE
  /\ prompt = "None"
  /\ pendingSavePath = Untitled
  /\ exitAfterSave = FALSE
  /\ running = TRUE

Editing == running /\ prompt = "None"

Asking(mode) == running /\ prompt = mode

-----------------------------------------------------------------------------
(***************************************************************************)
(* Editing.                                                                *)
(***************************************************************************)
PushUndoBeforeEdit ==
  /\ versionCounter < MaxVersions
  /\ PushEdit(SnapshotOf(buf))
  /\ lastActionWasInsert' = FALSE

EnsureUndoBeforeInsert ==
  /\ IF lastActionWasInsert
     THEN UNCHANGED historyVars
     ELSE versionCounter < MaxVersions /\ PushEdit(SnapshotOf(buf))
  /\ lastActionWasInsert' = TRUE

ChangeBuffer(b) ==
  /\ buf' = b
  /\ dirty' = TRUE
  /\ UNCHANGED <<filename, disk>>

\* A character typed at the caret.
TypeCharacter ==
  /\ Editing /\ "type" \in Commands
  /\ buf.text < MaxText
  /\ EnsureUndoBeforeInsert
  /\ ChangeBuffer([buf EXCEPT !.text = @ + 1])
  /\ UNCHANGED <<floatDragActive, promptVars>>

\* A character typed over a selection: the erasure is a step of its own, and
\* the insertion joins it.
TypeOverSelection ==
  /\ Editing /\ "type" \in Commands
  /\ versionCounter < MaxVersions
  /\ PushEdit(SnapshotOf(buf))
  /\ lastActionWasInsert' = TRUE
  /\ \E n \in 1 .. buf.text : ChangeBuffer([buf EXCEPT !.text = n])
  /\ UNCHANGED <<floatDragActive, promptVars>>

\* A bug to catch: the edit pushes no undo step.
EditTextUnpushed ==
  /\ Editing
  /\ \E n \in 0 .. MaxText \ {buf.text} : ChangeBuffer([buf EXCEPT !.text = n])
  /\ UNCHANGED <<historyVars, lastActionWasInsert, floatDragActive, promptVars>>

\* Return, Tab, Backspace, Delete, Cut, Paste: one gesture, one undo step.
EditText ==
  /\ Editing
  /\ PushUndoBeforeEdit
  /\ \E n \in 0 .. MaxText \ {buf.text} : ChangeBuffer([buf EXCEPT !.text = n])
  /\ UNCHANGED <<floatDragActive, promptVars>>

\* A style, font, color, highlight or list command over text.
ApplyStyle ==
  /\ Editing /\ "style" \in Commands
  /\ buf.text > 0
  /\ PushUndoBeforeEdit
  /\ ChangeBuffer([buf EXCEPT !.styled = ~ @])
  /\ UNCHANGED <<floatDragActive, promptVars>>

\* Insert Image, Insert Shape, a page break, an alignment; or their removal.
EditFloat ==
  /\ Editing /\ "float" \in Commands
  /\ PushUndoBeforeEdit
  /\ ChangeBuffer([buf EXCEPT !.float = IF @ = "none" THEN "left" ELSE "none"])
  /\ UNCHANGED <<floatDragActive, promptVars>>

\* The Columns dialog: no undo step, and no snapshot has the columns.
CloseColumnsDialog ==
  /\ Editing /\ "columns" \in Commands
  /\ ChangeBuffer([buf EXCEPT !.columns = ~ @])
  /\ UNCHANGED <<historyVars, lastActionWasInsert, floatDragActive, promptVars>>

\* A caret key or a click in the text ends the typing run.
Navigate ==
  /\ Editing
  /\ lastActionWasInsert' = FALSE
  /\ UNCHANGED <<historyVars, documentVars, floatDragActive, promptVars>>

-----------------------------------------------------------------------------
(***************************************************************************)
(* Dragging a float with the mouse, which the keyboard may interrupt.      *)
(***************************************************************************)
PressFloat ==
  /\ Editing /\ "drag" \in Commands
  /\ buf.float # "none"
  /\ PushUndoBeforeEdit
  /\ floatDragActive' = TRUE
  /\ UNCHANGED <<documentVars, promptVars>>

Moved(b) == [b EXCEPT !.float = IF @ = "left" THEN "right" ELSE "left"]

\* The drag is dropped when a prompt is up or the float has gone.
DragFloat ==
  /\ running /\ floatDragActive
  /\ IF prompt # "None" \/ buf.float = "none"
     THEN floatDragActive' = FALSE /\ UNCHANGED documentVars
     ELSE ChangeBuffer(Moved(buf)) /\ UNCHANGED floatDragActive
  /\ UNCHANGED <<historyVars, lastActionWasInsert, promptVars>>

\* The release may re-anchor the float, whatever prompt is up.
ReleaseFloat ==
  /\ running /\ floatDragActive
  /\ floatDragActive' = FALSE
  /\ \/ UNCHANGED documentVars
     \/ buf.float # "none" /\ ChangeBuffer(Moved(buf))
  /\ UNCHANGED <<historyVars, lastActionWasInsert, promptVars>>

-----------------------------------------------------------------------------
(***************************************************************************)
(* Undo and redo.                                                          *)
(***************************************************************************)
\* ApplyUndoState: dirty, unless the history is back at its save point.
ApplyUndoState(s) ==
  /\ buf' = RestoredFrom(s, buf)
  /\ dirty' = (currentVersion' # savedVersion')
  /\ lastActionWasInsert' = FALSE
  /\ UNCHANGED <<filename, disk>>

DoUndo ==
  /\ Editing
  /\ Undo(SnapshotOf(buf))
  /\ ApplyUndoState(UndoTarget)
  /\ UNCHANGED <<floatDragActive, promptVars>>

DoRedo ==
  /\ Editing
  /\ Redo(SnapshotOf(buf))
  /\ ApplyUndoState(RedoTarget)
  /\ UNCHANGED <<floatDragActive, promptVars>>

-----------------------------------------------------------------------------
(***************************************************************************)
(* Saving.                                                                 *)
(***************************************************************************)
Saved(path, outcome) ==
  IF Succeeds(path, outcome) THEN MarkSaved ELSE UNCHANGED historyVars

StartSaveAs ==
  /\ prompt' = "SaveAs"
  /\ UNCHANGED <<pendingSavePath, exitAfterSave, running>>

SaveAsCommand ==
  /\ Editing
  /\ StartSaveAs
  /\ UNCHANGED <<historyVars, documentVars, lastActionWasInsert, floatDragActive>>

\* SaveDocument: an untitled document asks for a name, a plain file with
\* formatted content asks which format to keep, anything else is written.
SaveDocument ==
  /\ Editing
  /\ UNCHANGED <<lastActionWasInsert, floatDragActive>>
  /\ \/ /\ filename = Untitled
        /\ StartSaveAs
        /\ UNCHANGED <<historyVars, documentVars>>
     \/ /\ filename \in TxtPaths /\ HasAnyFormatting(buf)
        /\ prompt' = "ConfirmSaveAsRtf"
        /\ UNCHANGED <<historyVars, documentVars, pendingSavePath,
                       exitAfterSave, running>>
     \/ /\ filename # Untitled
        /\ ~(filename \in TxtPaths /\ HasAnyFormatting(buf))
        /\ \E outcome \in WriteOutcomes :
             /\ WriteDocument(filename, buf, outcome)
             /\ Saved(filename, outcome)
        /\ UNCHANGED promptVars

\* A bug to catch: the plain file is written from a buffer that stays styled.
PerformSaveAsStyled(path) ==
  \E outcome \in WriteOutcomes :
    /\ WriteDocument(path, buf, outcome)
    /\ Saved(path, outcome)
    /\ exitAfterSave' = FALSE
    /\ running' = ~(exitAfterSave /\ Succeeds(path, outcome))
    /\ prompt' = "None"
    /\ UNCHANGED <<lastActionWasInsert, floatDragActive, pendingSavePath>>

\* A bug to catch: the program ends whether or not the file was written.
PerformSaveAsThenLeave(path) ==
  \E outcome \in WriteOutcomes :
    /\ WriteDocument(path, IF path \in TxtPaths /\ HasAnyFormatting(buf)
                           THEN FlattenAllStyles(buf) ELSE buf, outcome)
    /\ Saved(path, outcome)
    /\ exitAfterSave' = FALSE
    /\ running' = ~exitAfterSave
    /\ prompt' = "None"
    /\ UNCHANGED <<lastActionWasInsert, floatDragActive, pendingSavePath>>

\* PerformSaveAs: a plain target flattens the live buffer first, and it stays
\* flat when the write then fails.
PerformSaveAs(path) ==
  \E outcome \in WriteOutcomes :
    /\ WriteDocument(path, IF path \in TxtPaths /\ HasAnyFormatting(buf)
                           THEN FlattenAllStyles(buf) ELSE buf, outcome)
    /\ Saved(path, outcome)
    /\ exitAfterSave' = FALSE
    /\ running' = ~(exitAfterSave /\ Succeeds(path, outcome))
    /\ prompt' = "None"
    /\ UNCHANGED <<lastActionWasInsert, floatDragActive, pendingSavePath>>

\* A bug to catch: an existing file is written over without asking.
CommitSaveAsUnasked(path) == Asking("SaveAs") /\ PerformSaveAs(path)

\* A bug to catch: the path to overwrite is not kept.
CommitSaveAsForgetsPath(path) ==
  /\ Asking("SaveAs")
  /\ IF disk[path] = NoFile
     THEN PerformSaveAs(path)
     ELSE /\ prompt' = "ConfirmOverwrite"
          /\ UNCHANGED <<historyVars, documentVars, lastActionWasInsert,
                         floatDragActive, pendingSavePath, exitAfterSave, running>>

\* Enter in the Save As prompt: a name that is taken asks first.
CommitSaveAs(path) ==
  /\ Asking("SaveAs")
  /\ IF disk[path] = NoFile
     THEN PerformSaveAs(path)
     ELSE /\ prompt' = "ConfirmOverwrite"
          /\ pendingSavePath' = path
          /\ UNCHANGED <<historyVars, documentVars, lastActionWasInsert,
                         floatDragActive, exitAfterSave, running>>

ConfirmOverwriteYes ==
  /\ Asking("ConfirmOverwrite")
  /\ PerformSaveAs(pendingSavePath)

\* A bug to catch: the flattened document is written, the save point is not
\* moved.
SaveAsRtfNoUnmarked ==
  /\ Asking("ConfirmSaveAsRtf")
  /\ \E outcome \in WriteOutcomes :
       WriteDocument(filename, FlattenAllStyles(buf), outcome)
  /\ prompt' = "None"
  /\ UNCHANGED <<historyVars, lastActionWasInsert, floatDragActive,
                 pendingSavePath, exitAfterSave, running>>

\* "Save .txt" of ConfirmSaveAsRtf: the formatting is dropped, not undoably.
SaveAsRtfNo ==
  /\ Asking("ConfirmSaveAsRtf")
  /\ \E outcome \in WriteOutcomes :
       /\ WriteDocument(filename, FlattenAllStyles(buf), outcome)
       /\ Saved(filename, outcome)
  /\ prompt' = "None"
  /\ UNCHANGED <<lastActionWasInsert, floatDragActive, pendingSavePath,
                 exitAfterSave, running>>

-----------------------------------------------------------------------------
(***************************************************************************)
(* Prompts that only lead to another prompt, or back to editing.           *)
(***************************************************************************)
GoTo(mode) ==
  /\ prompt' = mode
  /\ UNCHANGED <<historyVars, documentVars, lastActionWasInsert,
                 floatDragActive, pendingSavePath, exitAfterSave, running>>

\* A bug to catch: a cancelled Save As leaves the program armed to exit.
CancelPromptKeepsExit == running /\ prompt # "None" /\ GoTo("None")

\* CancelPrompt, an empty name, Esc or a click outside a confirmation.
CancelPrompt ==
  /\ running
  /\ prompt \notin {"None", "BrowseFolder", "BrowseFile"}
  /\ prompt' = "None"
  /\ exitAfterSave' = FALSE
  /\ UNCHANGED <<historyVars, documentVars, lastActionWasInsert,
                 floatDragActive, pendingSavePath, running>>

\* The folder browser returns to Save As, whether a folder was chosen or not;
\* the file browser returns to Open, or opens the chosen file (OpenFile).
Browse ==
  \/ Asking("SaveAs") /\ GoTo("BrowseFolder")
  \/ Asking("BrowseFolder") /\ GoTo("SaveAs")
  \/ Asking("Open") /\ GoTo("BrowseFile")
  \/ Asking("BrowseFile") /\ GoTo("Open")

ConfirmNo ==
  \/ Asking("ConfirmExitClean") /\ GoTo("None")
  \/ Asking("ConfirmNew") /\ GoTo("None")
  \/ Asking("ConfirmOverwrite") /\ GoTo("SaveAs")

SaveAsRtfYes == Asking("ConfirmSaveAsRtf") /\ GoTo("SaveAs")

-----------------------------------------------------------------------------
(***************************************************************************)
(* Opening a file, starting a new one, leaving.                            *)
(***************************************************************************)
OpenCommand == Editing /\ "open" \in Commands /\ GoTo("Open")

\* A bug to catch: the undo history of the old document is kept.
OpenFileKeepsHistory(path) ==
  /\ Asking("Open") \/ Asking("BrowseFile")
  /\ prompt' = "None"
  /\ IF Readable(path) THEN LoadDocument(path) ELSE UNCHANGED documentVars
  /\ UNCHANGED <<historyVars, lastActionWasInsert, floatDragActive,
                 pendingSavePath, exitAfterSave, running>>

\* A dirty document is given up without a question; a typing run goes on.
OpenFile(path) ==
  /\ Asking("Open") \/ Asking("BrowseFile")
  /\ prompt' = "None"
  /\ IF Readable(path)
     THEN LoadDocument(path) /\ ClearAll
     ELSE UNCHANGED <<documentVars, historyVars>>
  /\ UNCHANGED <<lastActionWasInsert, floatDragActive, pendingSavePath,
                 exitAfterSave, running>>

NewFile ==
  /\ NewDocument
  /\ ClearAll
  /\ lastActionWasInsert' = FALSE
  /\ prompt' = "None"
  /\ UNCHANGED <<floatDragActive, pendingSavePath, exitAfterSave, running>>

\* Ctrl+N asks nothing; File > New asks when the document is dirty.
NewCommand ==
  /\ Editing /\ "new" \in Commands
  /\ NewFile \/ (dirty /\ GoTo("ConfirmNew"))

ConfirmNewYes == Asking("ConfirmNew") /\ NewFile

\* Esc, File > Exit, or the window's close button, which may be pressed
\* whatever prompt is up.
RequestExit ==
  running /\ GoTo(IF dirty THEN "ConfirmExit" ELSE "ConfirmExitClean")

Leave ==
  /\ running' = FALSE
  /\ prompt' = "None"
  /\ UNCHANGED <<historyVars, documentVars, lastActionWasInsert,
                 floatDragActive, pendingSavePath, exitAfterSave>>

ConfirmExitNo == Asking("ConfirmExit") /\ Leave

ConfirmExitCleanYes == Asking("ConfirmExitClean") /\ Leave

\* Save and exit: an untitled document is named first; a plain file is
\* written without asking about its formatting.
ConfirmExitYes ==
  /\ Asking("ConfirmExit")
  /\ UNCHANGED <<lastActionWasInsert, floatDragActive, pendingSavePath>>
  /\ \/ /\ filename = Untitled
        /\ exitAfterSave' = TRUE
        /\ prompt' = "SaveAs"
        /\ UNCHANGED <<historyVars, documentVars, running>>
     \/ /\ filename # Untitled
        /\ \E outcome \in WriteOutcomes :
             /\ WriteDocument(filename, buf, outcome)
             /\ Saved(filename, outcome)
             /\ running' = ~Succeeds(filename, outcome)
        /\ prompt' = "None"
        /\ UNCHANGED exitAfterSave

Next ==
  \/ TypeCharacter \/ TypeOverSelection \/ EditText \/ ApplyStyle
  \/ EditFloat \/ CloseColumnsDialog \/ Navigate
  \/ PressFloat \/ DragFloat \/ ReleaseFloat
  \/ DoUndo \/ DoRedo
  \/ SaveAsCommand \/ SaveDocument \/ ConfirmOverwriteYes
  \/ SaveAsRtfYes \/ SaveAsRtfNo
  \/ CancelPrompt \/ Browse \/ ConfirmNo
  \/ OpenCommand \/ NewCommand \/ ConfirmNewYes
  \/ RequestExit \/ ConfirmExitYes \/ ConfirmExitNo \/ ConfirmExitCleanYes
  \/ \E path \in Paths : CommitSaveAs(path) \/ OpenFile(path)

Spec == Init /\ [][Next]_vars

-----------------------------------------------------------------------------
(***************************************************************************)
(* The variables hold values of the program, and a question about an       *)
(* overwrite is about a file.                                              *)
(***************************************************************************)
Snapshots == {SnapshotOf(b) : b \in Buffers}

Versions == 0 .. MaxVersions

TypeOK ==
  /\ buf \in Buffers /\ dirty \in BOOLEAN
  /\ filename \in Paths \cup {Untitled}
  /\ disk \in [Paths -> Buffers \cup {NoFile, Truncated}]
  /\ undoStack \in Seq(Snapshots) /\ redoStack \in Seq(Snapshots)
  /\ undoVersionStack \in Seq(Versions) /\ redoVersionStack \in Seq(Versions)
  /\ Len(undoVersionStack) = Len(undoStack)
  /\ Len(redoVersionStack) = Len(redoStack)
  /\ {versionCounter, currentVersion, savedVersion} \subseteq Versions
  /\ {lastActionWasInsert, floatDragActive, exitAfterSave, running}
       \subseteq BOOLEAN
  /\ prompt \in Prompts
  /\ pendingSavePath \in Paths \cup {Untitled}
  /\ prompt = "ConfirmOverwrite" => pendingSavePath \in Paths

(***************************************************************************)
(* A document without the dirty mark is on disk: closing it then "passes   *)
(* silently" (Application.cpp:2704) and loses nothing.  An untitled        *)
(* document is on disk when it is blank (Application.cpp:2885).            *)
(***************************************************************************)
OnDisk ==
  IF filename = Untitled
  THEN buf = Blank
  ELSE Readable(filename) /\ Decoded(filename) = Encoded(filename, buf)

CleanMeansSaved == ~dirty => OnDisk

(***************************************************************************)
(* Undo and redo clear the dirty mark only when they "return the buffer to *)
(* the exact timeline position the document last had on disk"              *)
(* (Application.cpp:2702-2704).                                            *)
(***************************************************************************)
UndoCleansTruthfully ==
  [][dirty /\ ~dirty' /\ (DoUndo \/ DoRedo) => OnDisk']_vars

(***************************************************************************)
(* A clean plain-text document shows nothing its file lacks: saving to     *)
(* .txt flattens "in memory so the in-editor view matches what's about to  *)
(* hit disk" (Application.cpp:3047).                                       *)
(***************************************************************************)
PlainViewMatches ==
  running /\ filename \in TxtPaths /\ ~dirty => ~HasAnyFormatting(buf)

(***************************************************************************)
(* The program is armed to exit after a save only while the user is on the *)
(* way to that save: whichever way the chain of prompts is left, a later   *)
(* save does not end the program.                                          *)
(***************************************************************************)
ExitIntentHeld ==
  running /\ exitAfterSave =>
    /\ dirty /\ filename = Untitled
    /\ prompt \in {"SaveAs", "BrowseFolder", "ConfirmOverwrite", "ConfirmExit"}

(***************************************************************************)
(* Only a confirmed overwrite changes an existing file other than the      *)
(* document's own (CHANGELOG.md:78-80).                                    *)
(***************************************************************************)
OverwriteConfirmed ==
  [][\A path \in Paths :
       disk[path] # NoFile /\ path # filename /\ disk'[path] # disk[path]
         => prompt = "ConfirmOverwrite" /\ pendingSavePath = path]_vars

(***************************************************************************)
(* The program ends only at the user's word, and with the work on disk     *)
(* unless that word was to discard it (Application.h:33).                  *)
(***************************************************************************)
ExitKeepsWork ==
  [][running /\ ~running' =>
       \/ prompt = "ConfirmExit" /\ UNCHANGED documentVars
       \/ OnDisk']_vars
=============================================================================
