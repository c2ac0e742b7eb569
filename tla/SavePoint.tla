------------------------------- MODULE SavePoint -------------------------------
(***************************************************************************)
(* The rich history with a caller that keeps to its contract: every change *)
(* of the live buffer is preceded by PushEdit, Undo and Redo install the   *)
(* snapshot they return, and MarkSaved follows a write that succeeded.     *)
(* This is the protocol the header of RichUndoHistory states and its tests *)
(* follow.  EditSession models the application, which does not always keep *)
(* to it.                                                                  *)
(***************************************************************************)
EXTENDS RichUndoHistory

CONSTANTS
  Content,             \* the states of a buffer that a snapshot tells apart
  MaxVersions          \* bound on the versions handed out between two ClearAll

ASSUME ContentAssumption == Content # {}
ASSUME MaxVersionsAssumption == MaxVersions \in Nat

VARIABLES
  live,                \* the live buffer
  disk                 \* what the last successful save or load left on disk

vars == <<undoStack, redoStack, undoVersionStack, redoVersionStack,
          versionCounter, currentVersion, savedVersion, live, disk>>

Init ==
  /\ HistoryInit
  /\ live \in Content
  /\ disk = live

\* The pushed edit may leave the buffer as it was (a click on a float pushes
\* and changes nothing).
Edit(c) ==
  /\ versionCounter < MaxVersions
  /\ PushEdit(live)
  /\ live' = c
  /\ UNCHANGED disk

UndoEdit ==
  /\ Undo(live)
  /\ live' = UndoTarget
  /\ UNCHANGED disk

RedoEdit ==
  /\ Redo(live)
  /\ live' = RedoTarget
  /\ UNCHANGED disk

Save ==
  /\ MarkSaved
  /\ disk' = live
  /\ UNCHANGED live

Load(c) ==
  /\ ClearAll
  /\ live' = c
  /\ disk' = c

Next ==
  \/ \E c \in Content : Edit(c) \/ Load(c)
  \/ UndoEdit \/ RedoEdit \/ Save

Spec == Init /\ [][Next]_vars

-----------------------------------------------------------------------------
(***************************************************************************)
(* The stacks hold snapshots and versions, each snapshot has one version,  *)
(* and versions are numbers the counter has handed out.                    *)
(***************************************************************************)
Versions == 0 .. versionCounter

TypeOK ==
  /\ live \in Content /\ disk \in Content
  /\ undoStack \in Seq(Content) /\ redoStack \in Seq(Content)
  /\ versionCounter \in Nat
  /\ currentVersion \in Versions /\ savedVersion \in Versions
  /\ undoVersionStack \in Seq(Versions) /\ redoVersionStack \in Seq(Versions)
  /\ Len(undoVersionStack) = Len(undoStack)
  /\ Len(redoVersionStack) = Len(redoStack)

(***************************************************************************)
(* No two states within reach of undo and redo carry the same version:     *)
(* "an edit on an undone branch can't accidentally collide with a          *)
(* pre-existing version" (RichUndoHistory.h:48-50).                        *)
(***************************************************************************)
UndoVersionsDistinct ==
  \A i, j \in 1 .. Len(undoVersionStack) :
    undoVersionStack[i] = undoVersionStack[j] => i = j

RedoVersionsDistinct ==
  \A i, j \in 1 .. Len(redoVersionStack) :
    redoVersionStack[i] = redoVersionStack[j] => i = j

StacksShareNoVersion ==
  \A i \in 1 .. Len(undoVersionStack), j \in 1 .. Len(redoVersionStack) :
    undoVersionStack[i] # redoVersionStack[j]

LiveVersionUnstacked ==
  /\ \A i \in 1 .. Len(undoVersionStack) : undoVersionStack[i] # currentVersion
  /\ \A i \in 1 .. Len(redoVersionStack) : redoVersionStack[i] # currentVersion

VersionsUnique ==
  /\ UndoVersionsDistinct
  /\ RedoVersionsDistinct
  /\ StacksShareNoVersion
  /\ LiveVersionUnstacked

(***************************************************************************)
(* The memory bound: undo and redo together never hold more than MaxDepth  *)
(* snapshots, though only the push trims, and only the undo stack.         *)
(***************************************************************************)
HistoryBounded == Len(undoStack) + Len(redoStack) <= MaxDepth

(***************************************************************************)
(* The save point is sound: whenever IsAtSavedState answers yes, the live  *)
(* buffer is what is on disk, through any sequence of edits, undos, redos, *)
(* saves, loads and evictions.  The application clears the dirty bit on    *)
(* this answer (Application.cpp:2702-2706).                                *)
(***************************************************************************)
SavePointSound == IsAtSavedState => live = disk

(***************************************************************************)
(* Why it is: whatever state within reach carries the saved version is the *)
(* state on disk.                                                          *)
(***************************************************************************)
SavedVersionIsDisk ==
  /\ SavePointSound
  /\ \A i \in 1 .. Len(undoVersionStack) :
       undoVersionStack[i] = savedVersion => undoStack[i] = disk
  /\ \A i \in 1 .. Len(redoVersionStack) :
       redoVersionStack[i] = savedVersion => redoStack[i] = disk

(***************************************************************************)
(* A saved state that fell off the history stays off: with no snapshot and *)
(* no live state of the saved version, only a save or a load brings        *)
(* IsAtSavedState back ("no future Undo can bring it back",                *)
(* RichUndoHistory.h:50-52).                                               *)
(***************************************************************************)
SavedVersionLost ==
  /\ currentVersion # savedVersion
  /\ \A i \in 1 .. Len(undoVersionStack) : undoVersionStack[i] # savedVersion
  /\ \A i \in 1 .. Len(redoVersionStack) : redoVersionStack[i] # savedVersion

LostSavePointStaysLost ==
  [][SavedVersionLost =>
       \/ SavedVersionLost'
       \/ Save
       \/ \E c \in Content : Load(c)]_vars
=============================================================================
