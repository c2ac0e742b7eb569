------------------------------ MODULE MCSavePoint ------------------------------
(***************************************************************************)
(* SavePoint on a small instance, and the mapping under which it           *)
(* implements EditTimeline: the line is the undo stack, the live buffer,   *)
(* and the redo stack read from its top.                                   *)
(***************************************************************************)
EXTENDS SavePoint, SequencesExt

VersionLine ==
  undoVersionStack \o <<currentVersion>> \o Reverse(redoVersionStack)

Timeline == INSTANCE EditTimeline WITH
  Reach    <- MaxDepth,
  timeline <- undoStack \o <<live>> \o Reverse(redoStack),
  position <- Len(undoStack) + 1,
  savedAt  <- IF \E i \in DOMAIN VersionLine : VersionLine[i] = savedVersion
              THEN CHOOSE i \in DOMAIN VersionLine :
                     VersionLine[i] = savedVersion
              ELSE 0

(***************************************************************************)
(* The two stacks and their versions behave as one line of document states *)
(* with a position and a saved mark.                                       *)
(***************************************************************************)
ImplementsTimeline == Timeline!Spec
=============================================================================
