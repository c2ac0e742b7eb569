----------------------------- MODULE EditTimeline -----------------------------
(***************************************************************************)
(* What undo and redo promise, with no stacks and no version tags: the     *)
(* document's states lie on one line, the live state is a position on it,  *)
(* and the state last written to disk is a mark on it, or has fallen off.  *)
(***************************************************************************)
EXTENDS Naturals, Sequences

CONSTANTS Content,     \* the states a document can be in
          Reach        \* how many undo steps the line may hold

VARIABLES
  timeline,            \* a non-empty sequence of states, oldest first
  position,            \* the live state is timeline[position]
  savedAt,             \* where the saved state lies, 0 once it is unreachable
  disk                 \* the state that was saved

vars == <<timeline, position, savedAt, disk>>

Init ==
  /\ \E c \in Content : timeline = <<c>> /\ disk = c
  /\ position = 1
  /\ savedAt = 1

\* An edit cuts the line after the live state and appends the new one; the
\* oldest state falls off when more than Reach steps would lie behind.
Edit(c) ==
  LET line  == Append(SubSeq(timeline, 1, position), c)
      full  == position > Reach
      drop  == IF full THEN 1 ELSE 0
      saved == IF savedAt > position THEN 0 ELSE savedAt
  IN  /\ timeline' = IF full THEN Tail(line) ELSE line
      /\ position' = position + 1 - drop
      /\ savedAt' = IF saved > drop THEN saved - drop ELSE 0
      /\ UNCHANGED disk

Back ==
  /\ position > 1
  /\ position' = position - 1
  /\ UNCHANGED <<timeline, savedAt, disk>>

Forth ==
  /\ position < Len(timeline)
  /\ position' = position + 1
  /\ UNCHANGED <<timeline, savedAt, disk>>

Write ==
  /\ disk' = timeline[position]
  /\ savedAt' = position
  /\ UNCHANGED <<timeline, position>>

Replace(c) ==
  /\ timeline' = <<c>> /\ disk' = c
  /\ position' = 1 /\ savedAt' = 1

Next ==
  \/ \E c \in Content : Edit(c) \/ Replace(c)
  \/ Back \/ Forth \/ Write

Spec == Init /\ [][Next]_vars
=============================================================================
