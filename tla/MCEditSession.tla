----------------------------- MODULE MCEditSession -----------------------------
(***************************************************************************)
(* EditSession on small instances, and the contract of the undo history    *)
(* that the application's commands are to keep.                            *)
(***************************************************************************)
EXTENDS EditSession

(***************************************************************************)
(* The history's caller as SavePoint has it: the live buffer is what a     *)
(* snapshot sees of the document, the disk what a snapshot sees of its     *)
(* file.                                                                   *)
(***************************************************************************)
Contract == INSTANCE SavePoint WITH
  Content <- Snapshots,
  live    <- SnapshotOf(buf),
  disk    <- SnapshotOf(IF filename = Untitled THEN Blank ELSE disk[filename])

(***************************************************************************)
(* With commands that push before they edit, the session implements        *)
(* SavePoint, whose save point is proved sound.                            *)
(***************************************************************************)
KeepsContract == Contract!Spec
=============================================================================
