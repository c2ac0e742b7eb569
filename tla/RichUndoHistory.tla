--------------------------- MODULE RichUndoHistory ---------------------------
(***************************************************************************)
(* The snapshot history of the rich editor: two stacks of document         *)
(* snapshots, two parallel stacks of version tags, and the save point.     *)
(*                                                                         *)
(* The module holds the operations only.  Whoever owns the live buffer     *)
(* (SavePoint, EditSession) takes the snapshot, passes it in, and installs *)
(* the snapshot that Undo and Redo hand back (UndoTarget, RedoTarget).     *)
(* A snapshot is opaque here.                                              *)
(***************************************************************************)
EXTENDS Naturals, Sequences

CONSTANT MaxDepth      \* MAX_DEPTH: snapshots kept on the undo stack

ASSUME MaxDepthAssumption == MaxDepth \in Nat \ {0}

VARIABLES
  undoStack,           \* m_undoStack, oldest snapshot first
  redoStack,           \* m_redoStack
  undoVersionStack,    \* m_undoVersionStack, parallel to undoStack
  redoVersionStack,    \* m_redoVersionStack, parallel to redoStack
  versionCounter,      \* m_versionCounter, the last version handed out
  currentVersion,      \* m_currentVersion, the version of the live buffer
  savedVersion         \* m_savedVersion, the version that was written to disk

historyVars == <<undoStack, redoStack, undoVersionStack, redoVersionStack,
                 versionCounter, currentVersion, savedVersion>>

HistoryInit ==
  /\ undoStack = << >> /\ undoVersionStack = << >>
  /\ redoStack = << >> /\ redoVersionStack = << >>
  /\ versionCounter = 0 /\ currentVersion = 0 /\ savedVersion = 0

-----------------------------------------------------------------------------
Top(stack) == stack[Len(stack)]

Pop(stack) == SubSeq(stack, 1, Len(stack) - 1)

\* The oldest entry goes when a push leaves more than MaxDepth of them.
DropOldest(stack, full) == IF full THEN Tail(stack) ELSE stack

CanUndo == undoStack # << >>

CanRedo == redoStack # << >>

UndoTarget == Top(undoStack)

RedoTarget == Top(redoStack)

IsAtSavedState == currentVersion = savedVersion

-----------------------------------------------------------------------------
\* A bug to catch: the fresh version is counted from the live version instead
\* of from the counter, so an edit after an undo reuses a version.
PushEditFromCurrent(snapshot) ==
  /\ redoStack' = << >> /\ redoVersionStack' = << >>
  /\ LET full == Len(undoStack) >= MaxDepth
     IN  /\ undoStack' = DropOldest(Append(undoStack, snapshot), full)
         /\ undoVersionStack' =
              DropOldest(Append(undoVersionStack, currentVersion), full)
  /\ versionCounter' = currentVersion + 1
  /\ currentVersion' = currentVersion + 1
  /\ UNCHANGED savedVersion

\* A bug to catch: a full history evicts the snapshot but not its version.
PushEditEvictsSnapshotOnly(snapshot) ==
  /\ redoStack' = << >> /\ redoVersionStack' = << >>
  /\ undoStack' = DropOldest(Append(undoStack, snapshot),
                             Len(undoStack) >= MaxDepth)
  /\ undoVersionStack' = Append(undoVersionStack, currentVersion)
  /\ versionCounter' = versionCounter + 1
  /\ currentVersion' = versionCounter + 1
  /\ UNCHANGED savedVersion

\* A bug to catch: the redo branch survives a new edit.
PushEditKeepsRedo(snapshot) ==
  /\ LET full == Len(undoStack) >= MaxDepth
     IN  /\ undoStack' = DropOldest(Append(undoStack, snapshot), full)
         /\ undoVersionStack' =
              DropOldest(Append(undoVersionStack, currentVersion), full)
  /\ versionCounter' = versionCounter + 1
  /\ currentVersion' = versionCounter + 1
  /\ UNCHANGED <<redoStack, redoVersionStack, savedVersion>>

\* Before an edit: the redo branch is discarded, the state about to change is
\* pushed under its version, and the live buffer moves to a fresh version.
PushEdit(snapshot) ==
  /\ redoStack' = << >> /\ redoVersionStack' = << >>
  /\ LET full == Len(undoStack) >= MaxDepth
     IN  /\ undoStack' = DropOldest(Append(undoStack, snapshot), full)
         /\ undoVersionStack' =
              DropOldest(Append(undoVersionStack, currentVersion), full)
  /\ versionCounter' = versionCounter + 1
  /\ currentVersion' = versionCounter + 1
  /\ UNCHANGED savedVersion

\* A bug to catch: the live version is not moved to the restored snapshot's.
UndoKeepsVersion(snapshot) ==
  /\ CanUndo
  /\ redoStack' = Append(redoStack, snapshot)
  /\ redoVersionStack' = Append(redoVersionStack, currentVersion)
  /\ undoStack' = Pop(undoStack)
  /\ undoVersionStack' = Pop(undoVersionStack)
  /\ UNCHANGED <<versionCounter, currentVersion, savedVersion>>

\* The live state goes to the redo stack under its version; the caller
\* installs UndoTarget, whose version becomes the live one.
Undo(snapshot) ==
  /\ CanUndo
  /\ redoStack' = Append(redoStack, snapshot)
  /\ redoVersionStack' = Append(redoVersionStack, currentVersion)
  /\ undoStack' = Pop(undoStack)
  /\ undoVersionStack' = Pop(undoVersionStack)
  /\ currentVersion' = Top(undoVersionStack)
  /\ UNCHANGED <<versionCounter, savedVersion>>

\* A bug to catch: redo files the live state under the restored version.
RedoSwapsVersion(snapshot) ==
  /\ CanRedo
  /\ undoStack' = Append(undoStack, snapshot)
  /\ undoVersionStack' = Append(undoVersionStack, Top(redoVersionStack))
  /\ redoStack' = Pop(redoStack)
  /\ redoVersionStack' = Pop(redoVersionStack)
  /\ UNCHANGED <<versionCounter, currentVersion, savedVersion>>

Redo(snapshot) ==
  /\ CanRedo
  /\ undoStack' = Append(undoStack, snapshot)
  /\ undoVersionStack' = Append(undoVersionStack, currentVersion)
  /\ redoStack' = Pop(redoStack)
  /\ redoVersionStack' = Pop(redoVersionStack)
  /\ currentVersion' = Top(redoVersionStack)
  /\ UNCHANGED <<versionCounter, savedVersion>>

MarkSaved ==
  /\ savedVersion' = currentVersion
  /\ UNCHANGED <<undoStack, redoStack, undoVersionStack, redoVersionStack,
                 versionCounter, currentVersion>>

\* A new or freshly loaded document; MarkSaved right after it changes nothing,
\* since both versions are 0.
ClearAll ==
  /\ undoStack' = << >> /\ undoVersionStack' = << >>
  /\ redoStack' = << >> /\ redoVersionStack' = << >>
  /\ versionCounter' = 0 /\ currentVersion' = 0 /\ savedVersion' = 0
=============================================================================
