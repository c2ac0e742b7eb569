---------------------------- MODULE SavePointProofs ----------------------------
(***************************************************************************)
(* The save point of RichUndoHistory is sound, and its two stacks are one  *)
(* line of document states with a position and a saved mark, for every     *)
(* depth of history, every set of document states and every number of      *)
(* versions.                                                               *)
(***************************************************************************)
EXTENDS MCSavePoint, RichUndoHistoryProofs

-----------------------------------------------------------------------------
(***************************************************************************)
(* The inductive invariant.  SavePointSound alone is not inductive: an     *)
(* undo installs a snapshot, so the snapshots must match the disk wherever *)
(* their version is the saved one, and a version must name one state only. *)
(***************************************************************************)
IInv ==
  /\ TypeOK
  /\ HistoryBounded
  /\ VersionsUnique
  /\ SavedVersionIsDisk

USE MaxDepthAssumption

\* The strengthened invariant holds of an empty history.
LEMMA InitIInv == Init => IInv
BY DEF Init, HistoryInit, IInv, TypeOK, Versions, HistoryBounded,
       VersionsUnique, UndoVersionsDistinct, RedoVersionsDistinct,
       StacksShareNoVersion, LiveVersionUnstacked, SavedVersionIsDisk,
       SavePointSound, IsAtSavedState

(***************************************************************************)
(* An edit keeps the invariant: the version it hands out is above every    *)
(* version in reach, so it is neither stacked nor the saved one.           *)
(***************************************************************************)
LEMMA EditIInv ==
  ASSUME IInv, NEW c \in Content, Edit(c)
  PROVE  IInv'
<1> DEFINE full == Len(undoStack) >= MaxDepth
           d == IF full THEN 1 ELSE 0
           n == Len(undoStack)
<1> USE DEF IInv
<1>1. /\ redoStack' = << >> /\ redoVersionStack' = << >>
      /\ undoStack' = DropOldest(Append(undoStack, live), full)
      /\ undoVersionStack' =
           DropOldest(Append(undoVersionStack, currentVersion), full)
      /\ versionCounter' = versionCounter + 1
      /\ currentVersion' = versionCounter + 1
      /\ savedVersion' = savedVersion /\ live' = c /\ disk' = disk
  BY DEF Edit, PushEdit
<1>2. /\ versionCounter \in Nat
      /\ currentVersion \in 0 .. versionCounter
      /\ savedVersion \in 0 .. versionCounter
      /\ undoVersionStack \in Seq(0 .. versionCounter)
      /\ undoStack \in Seq(Content)
      /\ live \in Content /\ disk \in Content
      /\ Len(undoVersionStack) = n /\ n \in Nat
      /\ n <= MaxDepth /\ (n = 0 => undoVersionStack = << >>)
  <2>1. Len(redoStack) \in Nat /\ Len(undoStack) \in Nat
    BY DEF TypeOK
  <2>2. QED
    BY <2>1 DEF TypeOK, Versions, HistoryBounded
<1>3. /\ d \in {0, 1} /\ d <= n /\ n + 1 - d <= MaxDepth
      /\ n + 1 - d \in Nat
  BY <1>2
<1>4. /\ undoStack' \in Seq(Content)
      /\ Len(undoStack') = n + 1 - d
      /\ \A i \in 1 .. n + 1 - d :
           undoStack'[i] = IF i + d <= n THEN undoStack[i + d] ELSE live
  <2>1. CASE full
    <3>1. undoStack' = Tail(Append(undoStack, live)) /\ undoStack # << >>
      BY <1>1, <1>2, <2>1 DEF DropOldest
    <3>2. QED
      BY <1>2, <2>1, <3>1, PushFullFacts
  <2>2. CASE ~full
    <3>1. undoStack' = Append(undoStack, live)
      BY <1>1, <2>2 DEF DropOldest
    <3>2. QED
      BY <1>2, <2>2, <3>1, PushFacts
  <2>3. QED
    BY <2>1, <2>2
<1>5. /\ undoVersionStack' \in Seq(0 .. versionCounter)
      /\ Len(undoVersionStack') = n + 1 - d
      /\ \A i \in 1 .. n + 1 - d :
           undoVersionStack'[i] =
             IF i + d <= n THEN undoVersionStack[i + d] ELSE currentVersion
  <2>1. CASE full
    <3>1. /\ undoVersionStack' = Tail(Append(undoVersionStack, currentVersion))
          /\ undoVersionStack # << >>
      BY <1>1, <1>2, <2>1 DEF DropOldest
    <3>2. /\ undoVersionStack' \in Seq(0 .. versionCounter)
          /\ Len(undoVersionStack') = n
          /\ \A i \in 1 .. n - 1 : undoVersionStack'[i] = undoVersionStack[i + 1]
          /\ undoVersionStack'[n] = currentVersion
      <4> DEFINE V == 0 .. versionCounter
      <4>1. /\ undoVersionStack \in Seq(V) /\ currentVersion \in V
            /\ Len(undoVersionStack) = n
        BY <1>2
      <4>2. /\ undoVersionStack' \in Seq(V)
            /\ Len(undoVersionStack') = Len(undoVersionStack)
            /\ \A i \in 1 .. Len(undoVersionStack) - 1 :
                 undoVersionStack'[i] = undoVersionStack[i + 1]
            /\ undoVersionStack'[Len(undoVersionStack)] = currentVersion
        <5> HIDE DEF V
        <5> QED BY <3>1, <4>1, PushFullFacts
      <4>3. QED
        BY <4>1, <4>2
    <3>3. QED
      BY <1>2, <2>1, <3>2
  <2>2. CASE ~full
    <3>1. undoVersionStack' = Append(undoVersionStack, currentVersion)
      BY <1>1, <2>2 DEF DropOldest
    <3>2. QED
      BY <1>2, <2>2, <3>1, PushFacts
  <2>3. QED
    BY <2>1, <2>2
<1> HIDE DEF full, d, n
<1>6. \A i \in 1 .. n + 1 - d : i + d <= n => i + d \in 1 .. n
  BY <1>2, <1>3
<1>7. TypeOK'
  <2>1. undoVersionStack' \in Seq(0 .. versionCounter')
    BY <1>1, <1>2, <1>5, SeqMonotonic
  <2>2. QED
    BY <1>1, <1>2, <1>4, <1>5, <2>1 DEF TypeOK, Versions
<1>8. HistoryBounded'
  BY <1>1, <1>3, <1>4 DEF HistoryBounded
<1>9. \A i \in 1 .. n + 1 - d : undoVersionStack'[i] \in 0 .. versionCounter
  BY <1>5, <1>3, ElementOfSeq
<1>10. VersionsUnique'
  <2>1. UndoVersionsDistinct'
    <3>1. /\ \A i, j \in 1 .. n : undoVersionStack[i] = undoVersionStack[j] => i = j
          /\ \A i \in 1 .. n : undoVersionStack[i] # currentVersion
      BY <1>2 DEF VersionsUnique, UndoVersionsDistinct, LiveVersionUnstacked
    <3>2. SUFFICES ASSUME NEW i \in 1 .. n + 1 - d, NEW j \in 1 .. n + 1 - d,
                          undoVersionStack'[i] = undoVersionStack'[j]
                   PROVE  i = j
      BY <1>5 DEF UndoVersionsDistinct
    <3>3. i + d <= n <=> j + d <= n
      BY <1>5, <1>6, <3>1, <3>2
    <3>4. CASE i + d <= n
      BY <1>3, <1>5, <1>6, <3>1, <3>2, <3>3, <3>4
    <3>5. CASE ~(i + d <= n)
      BY <1>2, <1>3, <3>3, <3>5
    <3>6. QED
      BY <3>4, <3>5
  <2>2. RedoVersionsDistinct' /\ StacksShareNoVersion'
    BY <1>1 DEF RedoVersionsDistinct, StacksShareNoVersion
  <2>3. LiveVersionUnstacked'
    BY <1>1, <1>2, <1>5, <1>9 DEF LiveVersionUnstacked
  <2>4. QED
    BY <2>1, <2>2, <2>3 DEF VersionsUnique
<1>11. SavedVersionIsDisk'
  <2>1. SavePointSound'
    BY <1>1, <1>2 DEF SavePointSound, IsAtSavedState
  <2>2. \A i \in 1 .. n + 1 - d :
          undoVersionStack'[i] = savedVersion => undoStack'[i] = disk
    BY <1>2, <1>4, <1>5, <1>6
    DEF SavedVersionIsDisk, SavePointSound, IsAtSavedState
  <2>3. QED
    BY <1>1, <1>5, <2>1, <2>2 DEF SavedVersionIsDisk
<1>12. QED
  BY <1>7, <1>8, <1>10, <1>11

(***************************************************************************)
(* An undo keeps it: the version it leaves on the redo stack was stacked   *)
(* nowhere, and the one it takes off the undo stack becomes the live one.  *)
(***************************************************************************)
LEMMA UndoIInv ==
  ASSUME IInv, UndoEdit
  PROVE  IInv'
<1> DEFINE n == Len(undoStack)
           r == Len(redoStack)
<1> USE DEF IInv
<1>1. /\ undoStack # << >>
      /\ redoStack' = Append(redoStack, live)
      /\ redoVersionStack' = Append(redoVersionStack, currentVersion)
      /\ undoStack' = Pop(undoStack)
      /\ undoVersionStack' = Pop(undoVersionStack)
      /\ currentVersion' = Top(undoVersionStack)
      /\ live' = Top(undoStack)
      /\ versionCounter' = versionCounter
      /\ savedVersion' = savedVersion /\ disk' = disk
  BY DEF UndoEdit, Undo, CanUndo, UndoTarget
<1>2. /\ versionCounter \in Nat
      /\ currentVersion \in 0 .. versionCounter
      /\ savedVersion \in 0 .. versionCounter
      /\ undoVersionStack \in Seq(0 .. versionCounter)
      /\ redoVersionStack \in Seq(0 .. versionCounter)
      /\ undoStack \in Seq(Content) /\ redoStack \in Seq(Content)
      /\ live \in Content /\ disk \in Content
      /\ Len(undoVersionStack) = n /\ Len(redoVersionStack) = r
      /\ n \in Nat /\ r \in Nat
  BY DEF TypeOK, Versions
<1>3. n \in Nat \ {0} /\ undoVersionStack # << >>
  BY <1>1, <1>2, EmptySeq
<1>4. /\ undoStack' \in Seq(Content) /\ Len(undoStack') = n - 1
      /\ \A i \in 1 .. n - 1 : undoStack'[i] = undoStack[i]
      /\ live' \in Content /\ live' = undoStack[n]
  BY <1>1, <1>2, PopFacts DEF Top
<1>5. /\ undoVersionStack' \in Seq(0 .. versionCounter)
      /\ Len(undoVersionStack') = n - 1
      /\ \A i \in 1 .. n - 1 : undoVersionStack'[i] = undoVersionStack[i]
      /\ currentVersion' \in 0 .. versionCounter
      /\ currentVersion' = undoVersionStack[n]
  BY <1>1, <1>2, <1>3, PopFacts DEF Top
<1>6. /\ redoStack' \in Seq(Content) /\ Len(redoStack') = r + 1
      /\ \A i \in 1 .. r : redoStack'[i] = redoStack[i]
      /\ redoStack'[r + 1] = live
  BY <1>1, <1>2, PushFacts
<1>7. /\ redoVersionStack' \in Seq(0 .. versionCounter)
      /\ Len(redoVersionStack') = r + 1
      /\ \A i \in 1 .. r : redoVersionStack'[i] = redoVersionStack[i]
      /\ redoVersionStack'[r + 1] = currentVersion
  BY <1>1, <1>2, PushFacts
<1>8. /\ n \in 1 .. n /\ 1 .. n - 1 \subseteq 1 .. n
      /\ \A i \in 1 .. n - 1 : i # n
      /\ \A i \in 1 .. r + 1 : i \in 1 .. r \/ i = r + 1
  BY <1>2, <1>3
<1>9. /\ \A i, j \in 1 .. n : undoVersionStack[i] = undoVersionStack[j] => i = j
      /\ \A i, j \in 1 .. r : redoVersionStack[i] = redoVersionStack[j] => i = j
      /\ \A i \in 1 .. n, j \in 1 .. r : undoVersionStack[i] # redoVersionStack[j]
      /\ \A i \in 1 .. n : undoVersionStack[i] # currentVersion
      /\ \A i \in 1 .. r : redoVersionStack[i] # currentVersion
  BY <1>2 DEF VersionsUnique, UndoVersionsDistinct, RedoVersionsDistinct,
              StacksShareNoVersion, LiveVersionUnstacked
<1>10. TypeOK'
  BY <1>1, <1>2, <1>4, <1>5, <1>6, <1>7 DEF TypeOK, Versions
<1>11. HistoryBounded'
  BY <1>2, <1>3, <1>4, <1>6 DEF HistoryBounded
<1> HIDE DEF n, r
<1>12. VersionsUnique'
  <2>1. UndoVersionsDistinct'
    BY <1>5, <1>8, <1>9 DEF UndoVersionsDistinct
  <2>2. RedoVersionsDistinct'
    BY <1>2, <1>7, <1>9 DEF RedoVersionsDistinct
  <2>3. StacksShareNoVersion'
    BY <1>5, <1>7, <1>8, <1>9 DEF StacksShareNoVersion
  <2>4. LiveVersionUnstacked'
    BY <1>5, <1>7, <1>8, <1>9 DEF LiveVersionUnstacked
  <2>5. QED
    BY <2>1, <2>2, <2>3, <2>4 DEF VersionsUnique
<1>13. SavedVersionIsDisk'
  <2>1. /\ currentVersion = savedVersion => live = disk
        /\ \A i \in 1 .. n : undoVersionStack[i] = savedVersion => undoStack[i] = disk
        /\ \A i \in 1 .. r : redoVersionStack[i] = savedVersion => redoStack[i] = disk
    BY <1>2 DEF SavedVersionIsDisk, SavePointSound, IsAtSavedState
  <2>2. SavePointSound'
    BY <1>1, <1>4, <1>5, <1>8, <2>1 DEF SavePointSound, IsAtSavedState
  <2>3. \A i \in 1 .. n - 1 :
          undoVersionStack'[i] = savedVersion => undoStack'[i] = disk
    BY <1>4, <1>5, <1>8, <2>1
  <2>4. \A i \in 1 .. r + 1 :
          redoVersionStack'[i] = savedVersion => redoStack'[i] = disk
    BY <1>6, <1>7, <1>8, <2>1
  <2>5. QED
    BY <1>1, <1>5, <1>7, <2>2, <2>3, <2>4 DEF SavedVersionIsDisk
<1>14. QED
  BY <1>10, <1>11, <1>12, <1>13

(***************************************************************************)
(* A redo keeps it, the same way with the stacks exchanged.                *)
(***************************************************************************)
LEMMA RedoIInv ==
  ASSUME IInv, RedoEdit
  PROVE  IInv'
<1> DEFINE n == Len(redoStack)
           r == Len(undoStack)
<1> USE DEF IInv
<1>1. /\ redoStack # << >>
      /\ undoStack' = Append(undoStack, live)
      /\ undoVersionStack' = Append(undoVersionStack, currentVersion)
      /\ redoStack' = Pop(redoStack)
      /\ redoVersionStack' = Pop(redoVersionStack)
      /\ currentVersion' = Top(redoVersionStack)
      /\ live' = Top(redoStack)
      /\ versionCounter' = versionCounter
      /\ savedVersion' = savedVersion /\ disk' = disk
  BY DEF RedoEdit, Redo, CanRedo, RedoTarget
<1>2. /\ versionCounter \in Nat
      /\ currentVersion \in 0 .. versionCounter
      /\ savedVersion \in 0 .. versionCounter
      /\ redoVersionStack \in Seq(0 .. versionCounter)
      /\ undoVersionStack \in Seq(0 .. versionCounter)
      /\ redoStack \in Seq(Content) /\ undoStack \in Seq(Content)
      /\ live \in Content /\ disk \in Content
      /\ Len(redoVersionStack) = n /\ Len(undoVersionStack) = r
      /\ n \in Nat /\ r \in Nat
  BY DEF TypeOK, Versions
<1>3. n \in Nat \ {0} /\ redoVersionStack # << >>
  BY <1>1, <1>2, EmptySeq
<1>4. /\ redoStack' \in Seq(Content) /\ Len(redoStack') = n - 1
      /\ \A i \in 1 .. n - 1 : redoStack'[i] = redoStack[i]
      /\ live' \in Content /\ live' = redoStack[n]
  BY <1>1, <1>2, PopFacts DEF Top
<1>5. /\ redoVersionStack' \in Seq(0 .. versionCounter)
      /\ Len(redoVersionStack') = n - 1
      /\ \A i \in 1 .. n - 1 : redoVersionStack'[i] = redoVersionStack[i]
      /\ currentVersion' \in 0 .. versionCounter
      /\ currentVersion' = redoVersionStack[n]
  BY <1>1, <1>2, <1>3, PopFacts DEF Top
<1>6. /\ undoStack' \in Seq(Content) /\ Len(undoStack') = r + 1
      /\ \A i \in 1 .. r : undoStack'[i] = undoStack[i]
      /\ undoStack'[r + 1] = live
  BY <1>1, <1>2, PushFacts
<1>7. /\ undoVersionStack' \in Seq(0 .. versionCounter)
      /\ Len(undoVersionStack') = r + 1
      /\ \A i \in 1 .. r : undoVersionStack'[i] = undoVersionStack[i]
      /\ undoVersionStack'[r + 1] = currentVersion
  BY <1>1, <1>2, PushFacts
<1>8. /\ n \in 1 .. n /\ 1 .. n - 1 \subseteq 1 .. n
      /\ \A i \in 1 .. n - 1 : i # n
      /\ \A i \in 1 .. r + 1 : i \in 1 .. r \/ i = r + 1
  BY <1>2, <1>3
<1>9. /\ \A i, j \in 1 .. n : redoVersionStack[i] = redoVersionStack[j] => i = j
      /\ \A i, j \in 1 .. r : undoVersionStack[i] = undoVersionStack[j] => i = j
      /\ \A i \in 1 .. n, j \in 1 .. r : redoVersionStack[i] # undoVersionStack[j]
      /\ \A i \in 1 .. n : redoVersionStack[i] # currentVersion
      /\ \A i \in 1 .. r : undoVersionStack[i] # currentVersion
  BY <1>2 DEF VersionsUnique, RedoVersionsDistinct, UndoVersionsDistinct,
              StacksShareNoVersion, LiveVersionUnstacked
<1>10. TypeOK'
  BY <1>1, <1>2, <1>4, <1>5, <1>6, <1>7 DEF TypeOK, Versions
<1>11. HistoryBounded'
  BY <1>2, <1>3, <1>4, <1>6 DEF HistoryBounded
<1> HIDE DEF n, r
<1>12. VersionsUnique'
  <2>1. RedoVersionsDistinct'
    BY <1>5, <1>8, <1>9 DEF RedoVersionsDistinct
  <2>2. UndoVersionsDistinct'
    BY <1>2, <1>7, <1>9 DEF UndoVersionsDistinct
  <2>3. StacksShareNoVersion'
    BY <1>5, <1>7, <1>8, <1>9 DEF StacksShareNoVersion
  <2>4. LiveVersionUnstacked'
    BY <1>5, <1>7, <1>8, <1>9 DEF LiveVersionUnstacked
  <2>5. QED
    BY <2>1, <2>2, <2>3, <2>4 DEF VersionsUnique
<1>13. SavedVersionIsDisk'
  <2>1. /\ currentVersion = savedVersion => live = disk
        /\ \A i \in 1 .. n : redoVersionStack[i] = savedVersion => redoStack[i] = disk
        /\ \A i \in 1 .. r : undoVersionStack[i] = savedVersion => undoStack[i] = disk
    BY <1>2 DEF SavedVersionIsDisk, SavePointSound, IsAtSavedState
  <2>2. SavePointSound'
    BY <1>1, <1>4, <1>5, <1>8, <2>1 DEF SavePointSound, IsAtSavedState
  <2>3. \A i \in 1 .. n - 1 :
          redoVersionStack'[i] = savedVersion => redoStack'[i] = disk
    BY <1>4, <1>5, <1>8, <2>1
  <2>4. \A i \in 1 .. r + 1 :
          undoVersionStack'[i] = savedVersion => undoStack'[i] = disk
    BY <1>6, <1>7, <1>8, <2>1
  <2>5. QED
    BY <1>1, <1>5, <1>7, <2>2, <2>3, <2>4 DEF SavedVersionIsDisk
<1>14. QED
  BY <1>10, <1>11, <1>12, <1>13

\* A save marks the live version, whose contents it puts on disk.
LEMMA SaveIInv ==
  ASSUME IInv, Save
  PROVE  IInv'
<1>1. /\ savedVersion' = currentVersion /\ disk' = live
      /\ UNCHANGED <<undoStack, redoStack, undoVersionStack, redoVersionStack,
                     versionCounter, currentVersion, live>>
  BY DEF Save, MarkSaved
<1>2. TypeOK'
  BY <1>1 DEF IInv, TypeOK, Versions
<1>3. HistoryBounded' /\ VersionsUnique'
  BY <1>1 DEF IInv, HistoryBounded, VersionsUnique, UndoVersionsDistinct,
              RedoVersionsDistinct, StacksShareNoVersion, LiveVersionUnstacked
<1>4. SavedVersionIsDisk'
  BY <1>1 DEF IInv, VersionsUnique, LiveVersionUnstacked,
              SavedVersionIsDisk, SavePointSound, IsAtSavedState
<1>5. QED
  BY <1>2, <1>3, <1>4 DEF IInv

\* A load clears both stacks and starts from a saved version.
LEMMA LoadIInv ==
  ASSUME IInv, NEW c \in Content, Load(c)
  PROVE  IInv'
BY DEF Load, ClearAll, IInv, TypeOK, Versions, HistoryBounded, VersionsUnique,
       UndoVersionsDistinct, RedoVersionsDistinct, StacksShareNoVersion,
       LiveVersionUnstacked, SavedVersionIsDisk, SavePointSound, IsAtSavedState

\* A stuttering step keeps the invariant.
LEMMA StutterIInv ==
  ASSUME IInv, UNCHANGED vars
  PROVE  IInv'
BY DEF vars, IInv, TypeOK, Versions, HistoryBounded, VersionsUnique,
       UndoVersionsDistinct, RedoVersionsDistinct, StacksShareNoVersion,
       LiveVersionUnstacked, SavedVersionIsDisk, SavePointSound, IsAtSavedState

(***************************************************************************)
(* The strengthened invariant holds in every reachable state, whatever     *)
(* MAX_DEPTH is and however many versions are handed out.                  *)
(***************************************************************************)
THEOREM Invariance == Spec => []IInv
<1>1. IInv /\ [Next]_vars => IInv'
  <2> SUFFICES ASSUME IInv, [Next]_vars
               PROVE  IInv'
    OBVIOUS
  <2>1. CASE \E c \in Content : Edit(c)
    BY <2>1, EditIInv
  <2>2. CASE \E c \in Content : Load(c)
    BY <2>2, LoadIInv
  <2>3. CASE UndoEdit
    BY <2>3, UndoIInv
  <2>4. CASE RedoEdit
    BY <2>4, RedoIInv
  <2>5. CASE Save
    BY <2>5, SaveIInv
  <2>6. CASE UNCHANGED vars
    BY <2>6, StutterIInv
  <2>7. QED
    BY <2>1, <2>2, <2>3, <2>4, <2>5, <2>6 DEF Next
<1>2. QED
  BY InitIInv, <1>1, PTL DEF Spec

(***************************************************************************)
(* Type correctness: in particular the version stacks stay parallel to the *)
(* snapshot stacks through every eviction, undo and redo.                  *)
(***************************************************************************)
THEOREM TypeCorrect == Spec => []TypeOK
<1>1. IInv => TypeOK
  BY DEF IInv
<1>2. QED
  BY Invariance, <1>1, PTL

(***************************************************************************)
(* Undo and redo together never hold more than MAX_DEPTH snapshots.        *)
(***************************************************************************)
THEOREM MemoryBounded == Spec => []HistoryBounded
<1>1. IInv => HistoryBounded
  BY DEF IInv
<1>2. QED
  BY Invariance, <1>1, PTL

(***************************************************************************)
(* A version names one state within reach of undo and redo.                *)
(***************************************************************************)
THEOREM VersionNamesOneState == Spec => []VersionsUnique
<1>1. IInv => VersionsUnique
  BY DEF IInv
<1>2. QED
  BY Invariance, <1>1, PTL

(***************************************************************************)
(* The answer of IsAtSavedState can be trusted: when the caller keeps to   *)
(* the push-before-edit contract, "at the saved state" means the live      *)
(* buffer is what is on disk, and so is whatever snapshot bears the mark.  *)
(***************************************************************************)
THEOREM SavePointTrusted == Spec => []SavedVersionIsDisk
<1>1. IInv => SavedVersionIsDisk
  BY DEF IInv
<1>2. QED
  BY Invariance, <1>1, PTL
-----------------------------------------------------------------------------
(***************************************************************************)
(* A lost save point.  That no stack has the saved version is to say that  *)
(* the versions in reach are versions of another set, and then what an     *)
(* operation does to typed stacks says that it stays so.                   *)
(***************************************************************************)
Others(w) == Nat \ {w}

\* A stack without a version is a stack of the others.
LEMMA WithoutVersion ==
  ASSUME NEW w, NEW n \in Nat, NEW s \in Seq(0 .. n)
  PROVE  s \in Seq(Others(w)) <=> \A i \in 1 .. Len(s) : s[i] # w
<1>1. Len(s) \in Nat /\ s \in [1 .. Len(s) -> 0 .. n]
  BY LenProperties
<1>2. ASSUME \A i \in 1 .. Len(s) : s[i] # w
      PROVE  s \in Seq(Others(w))
  <2>1. s \in [1 .. Len(s) -> Others(w)]
    BY <1>1, <1>2 DEF Others
  <2>2. QED
    BY <1>1, <2>1, SeqDef
<1>3. ASSUME s \in Seq(Others(w)), NEW i \in 1 .. Len(s)
      PROVE  s[i] # w
  <2>1. s[i] \in Others(w)
    BY <1>3, ElementOfSeq
  <2>2. QED
    BY <2>1 DEF Others
<1>4. QED
  BY <1>2, <1>3

\* The saved version is lost when every version in reach is another.
LEMMA LostStacks ==
  ASSUME TypeOK
  PROVE  SavedVersionLost <=>
           /\ StacksOver(Content, Others(savedVersion))
           /\ currentVersion \in Others(savedVersion)
<1>1. /\ versionCounter \in Nat
      /\ undoVersionStack \in Seq(0 .. versionCounter)
      /\ redoVersionStack \in Seq(0 .. versionCounter)
      /\ currentVersion \in Nat
  BY DEF TypeOK, Versions
<1>2. undoVersionStack \in Seq(Others(savedVersion))
        <=> \A i \in 1 .. Len(undoVersionStack) : undoVersionStack[i] # savedVersion
  BY <1>1, WithoutVersion
<1>3. redoVersionStack \in Seq(Others(savedVersion))
        <=> \A i \in 1 .. Len(redoVersionStack) : redoVersionStack[i] # savedVersion
  BY <1>1, WithoutVersion
<1>4. currentVersion \in Others(savedVersion) <=> currentVersion # savedVersion
  BY <1>1 DEF Others
<1>5. QED
  BY <1>2, <1>3, <1>4 DEF SavedVersionLost, StacksOver, TypeOK

\* An edit takes a version that was never saved; undo and redo find none.
LEMMA LostStep ==
  ASSUME TypeOK, TypeOK', SavedVersionLost, [Next]_vars,
         ~Save, \A c \in Content : ~Load(c)
  PROVE  SavedVersionLost'
<1>1. PICK w : w = savedVersion
  OBVIOUS
<1>2. StacksOver(Content, Others(w)) /\ currentVersion \in Others(w)
  BY <1>1, LostStacks
<1>3. live \in Content /\ savedVersion' = savedVersion
  BY DEF TypeOK, Next, vars, Edit, PushEdit, UndoEdit, Undo, RedoEdit, Redo
<1>4. StacksOver(Content, Others(w))' /\ currentVersion' \in Others(w)
  <2>1. CASE \E c \in Content : Edit(c)
    <3>1. PushEdit(live)
      BY <2>1 DEF Edit
    <3>2. currentVersion' = versionCounter + 1
      BY <3>1 DEF PushEdit
    <3>3. versionCounter \in Nat /\ w \in 0 .. versionCounter
      BY <1>1 DEF TypeOK, Versions
    <3>4. QED
      BY <1>2, <1>3, <3>1, <3>2, <3>3, PushEditStacks DEF Others
  <2>2. CASE UndoEdit
    BY <1>2, <1>3, <2>2, UndoStacks DEF UndoEdit
  <2>3. CASE RedoEdit
    BY <1>2, <1>3, <2>3, RedoStacks DEF RedoEdit
  <2>4. CASE UNCHANGED vars
    BY <1>2, <2>4 DEF vars, StacksOver
  <2>5. QED
    BY <2>1, <2>2, <2>3, <2>4 DEF Next
<1>5. /\ versionCounter' \in Nat
      /\ undoVersionStack' \in Seq(0 .. versionCounter')
      /\ redoVersionStack' \in Seq(0 .. versionCounter')
  BY DEF TypeOK, Versions
<1>6. \A i \in 1 .. Len(undoVersionStack') : undoVersionStack'[i] # w
  BY <1>4, <1>5, WithoutVersion DEF StacksOver
<1>7. \A i \in 1 .. Len(redoVersionStack') : redoVersionStack'[i] # w
  BY <1>4, <1>5, WithoutVersion DEF StacksOver
<1>8. QED
  BY <1>1, <1>3, <1>4, <1>6, <1>7 DEF SavedVersionLost, Others

(***************************************************************************)
(* Once the saved state is off the history only a save or a load brings    *)
(* it back, however much is undone, redone and edited on other branches    *)
(* (RichUndoHistory.h:50).                                                 *)
(***************************************************************************)
THEOREM LostForGood == Spec => LostSavePointStaysLost
<1> DEFINE Kept == SavedVersionLost =>
                     \/ SavedVersionLost'
                     \/ Save
                     \/ \E c \in Content : Load(c)
<1>1. ASSUME TypeOK, TypeOK', [Next]_vars
      PROVE  [Kept]_vars
  BY <1>1, LostStep
<1>2. QED
  BY <1>1, TypeCorrect, PTL DEF Spec, LostSavePointStaysLost

HIDE MaxDepthAssumption

-----------------------------------------------------------------------------
(***************************************************************************)
(* A stack, the live entry and a stack read from its top.                  *)
(***************************************************************************)
Line(u, x, r) == u \o <<x>> \o Reverse(r)

\* The mapping, with the line named.
LEMMA Mapped ==
  /\ VersionLine = Line(undoVersionStack, currentVersion, redoVersionStack)
  /\ undoStack \o <<live>> \o Reverse(redoStack) = Line(undoStack, live, redoStack)
BY DEF VersionLine, Line

\* A stack read from its top.
LEMMA ReverseFacts ==
  ASSUME NEW S, NEW r \in Seq(S)
  PROVE  /\ Reverse(r) \in Seq(S) /\ Len(Reverse(r)) = Len(r) /\ Len(r) \in Nat
         /\ \A i \in 1 .. Len(r) : Reverse(r)[i] = r[Len(r) - i + 1]
<1>1. Len(r) \in Nat
  BY LenProperties
<1>2. ASSUME NEW i \in 1 .. Len(r)
      PROVE  r[Len(r) - i + 1] \in S
  <2>1. Len(r) - i + 1 \in 1 .. Len(r)
    BY <1>1
  <2>2. QED
    BY <2>1, ElementOfSeq
<1>3. /\ Reverse(r) \in [1 .. Len(r) -> S]
      /\ \A i \in 1 .. Len(r) : Reverse(r)[i] = r[Len(r) - i + 1]
  BY <1>2 DEF Reverse
<1>4. Reverse(r) \in Seq(S)
  BY <1>1, <1>3, SeqDef
<1>5. Len(Reverse(r)) = Len(r)
  BY <1>1, <1>3, <1>4, LenProperties
<1>6. QED
  BY <1>1, <1>3, <1>4, <1>5

\* Its entries: the stack below, the live one, the other stack above.
LEMMA LineFacts ==
  ASSUME NEW S, NEW u \in Seq(S), NEW x \in S, NEW r \in Seq(S)
  PROVE  /\ Line(u, x, r) \in Seq(S)
         /\ Len(Line(u, x, r)) = Len(u) + 1 + Len(r)
         /\ Len(u) \in Nat /\ Len(r) \in Nat
         /\ \A i \in 1 .. Len(u) : Line(u, x, r)[i] = u[i]
         /\ Line(u, x, r)[Len(u) + 1] = x
         /\ \A i \in Len(u) + 2 .. Len(u) + 1 + Len(r) :
              Line(u, x, r)[i] = r[Len(r) + Len(u) + 2 - i]
<1> DEFINE v == u \o <<x>>
           w == Reverse(r)
           n == Len(u)
           m == Len(r)
<1>1. /\ w \in Seq(S) /\ Len(w) = m /\ m \in Nat /\ n \in Nat
      /\ \A i \in 1 .. m : w[i] = r[m - i + 1]
  BY ReverseFacts, LenProperties
<1>2. <<x>> \in Seq(S) /\ Len(<<x>>) = 1 /\ <<x>>[1] = x
  OBVIOUS
<1>3. /\ v \in Seq(S) /\ Len(v) = n + 1
      /\ \A i \in 1 .. n : v[i] = u[i]
      /\ v[n + 1] = x
  <2>1. /\ v \in Seq(S) /\ Len(v) = n + Len(<<x>>)
        /\ \A i \in 1 .. n + Len(<<x>>) : v[i] = IF i <= n THEN u[i] ELSE <<x>>[i - n]
    BY <1>2, ConcatProperties
  <2>2. n + 1 \in 1 .. n + Len(<<x>>) /\ ~(n + 1 <= n) /\ n + 1 - n = 1
    BY <1>1, <1>2
  <2>3. QED
    BY <1>1, <1>2, <2>1, <2>2
<1> HIDE DEF v, w
<1>4. /\ v \o w \in Seq(S) /\ Len(v \o w) = Len(v) + Len(w)
      /\ \A i \in 1 .. Len(v) + Len(w) :
           (v \o w)[i] = IF i <= Len(v) THEN v[i] ELSE w[i - Len(v)]
  <2>1. v \in Seq(S) /\ w \in Seq(S)
    BY <1>1, <1>3
  <2>2. QED
    BY <2>1, ConcatProperties
<1>5. ASSUME NEW i \in n + 2 .. n + 1 + m
      PROVE  (v \o w)[i] = r[m + n + 2 - i]
  <2>1. /\ i \in 1 .. Len(v) + Len(w) /\ ~(i <= Len(v))
        /\ i - Len(v) \in 1 .. m /\ m - (i - Len(v)) + 1 = m + n + 2 - i
    BY <1>1, <1>3
  <2>2. QED
    BY <1>1, <1>4, <2>1
<1>6. /\ \A i \in 1 .. n : (v \o w)[i] = u[i]
      /\ (v \o w)[n + 1] = x
  BY <1>1, <1>3, <1>4
<1>7. Line(u, x, r) = v \o w
  BY DEF Line, v, w
<1>8. QED
  BY <1>1, <1>3, <1>4, <1>5, <1>6, <1>7

(***************************************************************************)
(* What the history's three moves do to the line.                          *)
(***************************************************************************)
\* An undo moves the position and leaves the line.
LEMMA LineUndo ==
  ASSUME NEW S, NEW u \in Seq(S), u # << >>, NEW x \in S, NEW r \in Seq(S)
  PROVE  Line(Pop(u), Top(u), Append(r, x)) = Line(u, x, r)
<1> DEFINE n == Len(u)
           m == Len(r)
           p == Pop(u)
           t == Top(u)
           a == Append(r, x)
<1>1. /\ p \in Seq(S) /\ t \in S /\ n \in Nat \ {0} /\ Len(p) = n - 1
      /\ \A i \in 1 .. n - 1 : p[i] = u[i]
      /\ t = u[n]
  BY PopFacts DEF Top
<1>2. /\ a \in Seq(S) /\ m \in Nat /\ Len(a) = m + 1
      /\ \A i \in 1 .. m : a[i] = r[i]
      /\ a[m + 1] = x
  BY PushFacts
<1> HIDE DEF p, t, a
<1>3. /\ Line(p, t, a) \in Seq(S)
      /\ Len(Line(p, t, a)) = Len(p) + 1 + Len(a)
      /\ \A i \in 1 .. Len(p) : Line(p, t, a)[i] = p[i]
      /\ Line(p, t, a)[Len(p) + 1] = t
      /\ \A i \in Len(p) + 2 .. Len(p) + 1 + Len(a) :
           Line(p, t, a)[i] = a[Len(a) + Len(p) + 2 - i]
  <2>1. p \in Seq(S) /\ t \in S /\ a \in Seq(S)
    BY <1>1, <1>2
  <2>2. Line(p, t, a) \in Seq(S)
    BY <2>1, LineFacts
  <2>3. Len(Line(p, t, a)) = Len(p) + 1 + Len(a)
    BY <2>1, LineFacts
  <2>4. \A i \in 1 .. Len(p) : Line(p, t, a)[i] = p[i]
    BY <2>1, LineFacts
  <2>5. Line(p, t, a)[Len(p) + 1] = t
    BY <2>1, LineFacts
  <2>6. \A i \in Len(p) + 2 .. Len(p) + 1 + Len(a) :
          Line(p, t, a)[i] = a[Len(a) + Len(p) + 2 - i]
    BY <2>1, LineFacts
  <2>7. QED
    BY <2>2, <2>3, <2>4, <2>5, <2>6
<1>4. /\ Line(u, x, r) \in Seq(S)
      /\ Len(Line(u, x, r)) = n + 1 + m
      /\ \A i \in 1 .. n : Line(u, x, r)[i] = u[i]
      /\ Line(u, x, r)[n + 1] = x
      /\ \A i \in n + 2 .. n + 1 + m : Line(u, x, r)[i] = r[m + n + 2 - i]
  <2>1. Line(u, x, r) \in Seq(S)
    BY LineFacts
  <2>2. Len(Line(u, x, r)) = Len(u) + 1 + Len(r)
    BY LineFacts
  <2>3. \A i \in 1 .. Len(u) : Line(u, x, r)[i] = u[i]
    BY LineFacts
  <2>4. Line(u, x, r)[Len(u) + 1] = x
    BY LineFacts
  <2>5. \A i \in Len(u) + 2 .. Len(u) + 1 + Len(r) :
          Line(u, x, r)[i] = r[Len(r) + Len(u) + 2 - i]
    BY LineFacts
  <2>6. QED
    BY <2>1, <2>2, <2>3, <2>4, <2>5
<1> HIDE DEF n, m
<1>5. Len(Line(p, t, a)) = Len(Line(u, x, r))
  BY <1>1, <1>2, <1>3, <1>4
<1>6. ASSUME NEW i \in 1 .. n + 1 + m
      PROVE  Line(p, t, a)[i] = Line(u, x, r)[i]
  <2>1. CASE i < n
    BY <1>1, <1>2, <1>3, <1>4, <2>1
  <2>2. CASE i = n
    BY <1>1, <1>2, <1>3, <1>4, <2>2
  <2>3. CASE i = n + 1
    <3>1. i \in Len(p) + 2 .. Len(p) + 1 + Len(a)
          /\ Len(a) + Len(p) + 2 - i = m + 1
      BY <1>1, <1>2, <2>3
    <3>2. QED
      BY <1>2, <1>3, <1>4, <2>3, <3>1
  <2>4. CASE i > n + 1
    <3>1. /\ i \in Len(p) + 2 .. Len(p) + 1 + Len(a) /\ i \in n + 2 .. n + 1 + m
          /\ Len(a) + Len(p) + 2 - i = m + n + 2 - i
          /\ m + n + 2 - i \in 1 .. m
      BY <1>1, <1>2, <2>4
    <3>2. QED
      BY <1>2, <1>3, <1>4, <3>1
  <2>5. QED
    BY <1>1, <1>2, <2>1, <2>2, <2>3, <2>4
<1>7. Line(p, t, a) = Line(u, x, r)
  BY <1>3, <1>4, <1>5, <1>6, SeqEqual
<1>8. QED
  BY <1>7 DEF p, t, a

\* A pop undoes a push, and a push a pop.
LEMMA PushPop ==
  ASSUME NEW S, NEW s \in Seq(S), NEW x \in S
  PROVE  /\ Pop(Append(s, x)) = s /\ Top(Append(s, x)) = x
         /\ Append(s, x) \in Seq(S) /\ Append(s, x) # << >>
<1>1. /\ Append(s, x) \in Seq(S) /\ Len(Append(s, x)) = Len(s) + 1 /\ Len(s) \in Nat
      /\ \A i \in 1 .. Len(s) : Append(s, x)[i] = s[i]
      /\ Append(s, x)[Len(s) + 1] = x
  BY PushFacts
<1>2. Append(s, x) # << >>
  BY <1>1, EmptySeq
<1> DEFINE a == Append(s, x)
<1> HIDE DEF a
<1>3. a \in Seq(S) /\ a # << >>
  BY <1>1, <1>2 DEF a
<1>4. /\ Pop(a) \in Seq(S) /\ Len(Pop(a)) = Len(a) - 1
      /\ \A i \in 1 .. Len(a) - 1 : Pop(a)[i] = a[i]
  BY <1>3, PopFacts
<1>5. Len(Pop(a)) = Len(s) /\ \A i \in 1 .. Len(s) : Pop(a)[i] = s[i]
  BY <1>1, <1>4 DEF a
<1>6. Pop(a) = s
  BY <1>1, <1>4, <1>5, SeqEqual
<1>7. QED
  BY <1>1, <1>2, <1>6 DEF a, Top

\* And a push of the top a pop.
LEMMA PopPush ==
  ASSUME NEW S, NEW s \in Seq(S), s # << >>
  PROVE  Append(Pop(s), Top(s)) = s
<1> DEFINE p == Pop(s)
           t == Top(s)
<1>1. /\ p \in Seq(S) /\ Len(p) = Len(s) - 1 /\ Len(s) \in Nat \ {0} /\ t \in S
      /\ \A i \in 1 .. Len(s) - 1 : p[i] = s[i]
      /\ t = s[Len(s)]
  BY PopFacts DEF Top
<1> HIDE DEF p, t
<1>2. /\ Append(p, t) \in Seq(S) /\ Len(Append(p, t)) = Len(p) + 1
      /\ \A i \in 1 .. Len(p) : Append(p, t)[i] = p[i]
      /\ Append(p, t)[Len(p) + 1] = t
  BY <1>1, PushFacts
<1>3. Len(Append(p, t)) = Len(s)
  BY <1>1, <1>2
<1>4. \A i \in 1 .. Len(s) : Append(p, t)[i] = s[i]
  BY <1>1, <1>2
<1>5. Append(p, t) = s
  BY <1>2, <1>3, <1>4, SeqEqual
<1>6. QED
  BY <1>5 DEF p, t

\* A redo moves the position back.
LEMMA LineRedo ==
  ASSUME NEW S, NEW u \in Seq(S), NEW x \in S, NEW r \in Seq(S), r # << >>
  PROVE  Line(Append(u, x), Top(r), Pop(r)) = Line(u, x, r)
<1>1. /\ Pop(Append(u, x)) = u /\ Top(Append(u, x)) = x
      /\ Append(u, x) \in Seq(S) /\ Append(u, x) # << >>
  BY PushPop
<1>2. Pop(r) \in Seq(S) /\ Top(r) \in S
  BY PopFacts
<1>3. Append(Pop(r), Top(r)) = r
  BY PopPush
<1>4. Line(Pop(Append(u, x)), Top(Append(u, x)), Append(Pop(r), Top(r)))
        = Line(Append(u, x), Top(r), Pop(r))
  BY <1>1, <1>2, LineUndo
<1>5. QED
  BY <1>1, <1>3, <1>4

\* The line up to the position.
LEMMA LineCut ==
  ASSUME NEW S, NEW u \in Seq(S), NEW x \in S, NEW r \in Seq(S)
  PROVE  SubSeq(Line(u, x, r), 1, Len(u) + 1) = Append(u, x)
<1> DEFINE l == Line(u, x, r)
           n == Len(u)
           k == n + 1
<1>1. /\ l \in Seq(S) /\ Len(l) = n + 1 + Len(r) /\ n \in Nat /\ Len(r) \in Nat
      /\ \A i \in 1 .. n : l[i] = u[i]
      /\ l[n + 1] = x
  BY LineFacts
<1> HIDE DEF l, n
<1>2. k \in Int /\ 1 \in Int /\ \A i \in 1 .. k : l[i] \in S
  <2>1. k \in Int /\ 1 .. k \subseteq 1 .. Len(l)
    BY <1>1
  <2>2. QED
    BY <1>1, <2>1, ElementOfSeq
<1> HIDE DEF k
<1>3. /\ SubSeq(l, 1, k) \in Seq(S)
      /\ Len(SubSeq(l, 1, k)) = IF 1 <= k THEN k - 1 + 1 ELSE 0
      /\ \A i \in 1 .. k - 1 + 1 : SubSeq(l, 1, k)[i] = l[1 + i - 1]
  BY <1>2, SubSeqProperties
<1>4. k = n + 1
  BY DEF k
<1>5. /\ Append(u, x) \in Seq(S) /\ Len(Append(u, x)) = n + 1
      /\ \A i \in 1 .. n : Append(u, x)[i] = u[i]
      /\ Append(u, x)[n + 1] = x
  BY PushFacts DEF n
<1>6. Len(SubSeq(l, 1, k)) = Len(Append(u, x))
  BY <1>1, <1>3, <1>4, <1>5
<1>7. ASSUME NEW i \in 1 .. k
      PROVE  SubSeq(l, 1, k)[i] = Append(u, x)[i]
  <2>1. i \in 1 .. k - 1 + 1 /\ 1 + i - 1 = i
    BY <1>1, <1>4
  <2>2. SubSeq(l, 1, k)[i] = l[i]
    BY <1>3, <2>1
  <2>3. QED
    BY <1>1, <1>4, <1>5, <2>2
<1>8. \A i \in 1 .. Len(SubSeq(l, 1, k)) : SubSeq(l, 1, k)[i] = Append(u, x)[i]
  BY <1>1, <1>4, <1>5, <1>6, <1>7
<1>9. SubSeq(l, 1, k) = Append(u, x)
  BY <1>3, <1>5, <1>6, <1>8, SeqEqual
<1>10. QED
  BY <1>9 DEF l, k, n

\* After an edit there is no line beyond the live entry.
LEMMA LineEnd ==
  ASSUME NEW S, NEW u \in Seq(S), NEW x \in S
  PROVE  Line(u, x, << >>) = Append(u, x)
<1> DEFINE e == << >>
<1>1. e \in Seq(S) /\ Len(e) = 0
  BY EmptySeq
<1> HIDE DEF e
<1>2. SubSeq(Line(u, x, e), 1, Len(u) + 1) = Append(u, x)
  BY <1>1, LineCut
<1>3. /\ Line(u, x, e) \in Seq(S) /\ Len(u) \in Nat
      /\ Len(Line(u, x, e)) = Len(u) + 1 + Len(e)
  <2>1. e \in Seq(S)
    BY <1>1
  <2>2. Line(u, x, e) \in Seq(S) /\ Len(u) \in Nat
    BY <2>1, LineFacts
  <2>3. Len(Line(u, x, e)) = Len(u) + 1 + Len(e)
    BY <2>1, LineFacts
  <2>4. QED
    BY <2>2, <2>3
<1>4. Len(Line(u, x, e)) = Len(u) + 1
  BY <1>1, <1>3
<1>5. SubSeq(Line(u, x, e), 1, Len(Line(u, x, e))) = Line(u, x, e)
  BY <1>3, SubSeqFull
<1>6. Line(u, x, e) = Append(u, x)
  BY <1>2, <1>4, <1>5
<1>7. QED
  BY <1>6 DEF e

(***************************************************************************)
(* The mark: where on a line the saved version lies, 0 where it does not.  *)
(***************************************************************************)
Mark(l, w) ==
  IF \E i \in DOMAIN l : l[i] = w THEN CHOOSE i \in DOMAIN l : l[i] = w ELSE 0

\* The one entry that has the version is the mark.
LEMMA MarkAt ==
  ASSUME NEW S, NEW l \in Seq(S), NEW w, NEW k \in 1 .. Len(l), l[k] = w,
         \A i \in 1 .. Len(l) : l[i] = w => i = k
  PROVE  Mark(l, w) = k
<1>1. DOMAIN l = 1 .. Len(l)
  BY LenProperties
<1>2. QED
  BY <1>1 DEF Mark

\* A version that no entry has leaves no mark.
LEMMA NoMark ==
  ASSUME NEW S, NEW l \in Seq(S), NEW w, \A i \in 1 .. Len(l) : l[i] # w
  PROVE  Mark(l, w) = 0
<1>1. DOMAIN l = 1 .. Len(l)
  BY LenProperties
<1>2. QED
  BY <1>1 DEF Mark

\* A mark is a place that has the version.
LEMMA MarkFacts ==
  ASSUME NEW S, NEW l \in Seq(S), NEW w
  PROVE  \/ Mark(l, w) \in 1 .. Len(l) /\ l[Mark(l, w)] = w
         \/ Mark(l, w) = 0 /\ \A i \in 1 .. Len(l) : l[i] # w
<1>1. DOMAIN l = 1 .. Len(l)
  BY LenProperties
<1>2. QED
  BY <1>1 DEF Mark

(***************************************************************************)
(* An edit cuts the line of versions after p, appends a fresh version v,   *)
(* and drops the first when the history is full; the mark goes with it.    *)
(***************************************************************************)
CutAt(q, l, p, v) ==
  /\ Len(q) = p + 1
  /\ \A i \in 1 .. p : q[i] = l[i]
  /\ q[p + 1] = v

\* The mark, when the line is cut after p.
Kept(l, w, p) == IF Mark(l, w) > p THEN 0 ELSE Mark(l, w)

MarkAfterEdit(q, l, w, p) ==
  /\ Mark(q, w) = Kept(l, w, p)
  /\ Mark(Tail(q), w) = IF Kept(l, w, p) > 1 THEN Kept(l, w, p) - 1 ELSE 0

\* A line no version of which is there twice.
Distinct(l) == \A i, j \in 1 .. Len(l) : l[i] = l[j] => i = j

\* A fresh version takes the place of what was cut, and is not the mark.
LEMMA MarkEdit ==
  ASSUME NEW S, NEW l \in Seq(S), NEW w, NEW p \in 1 .. Len(l), NEW v \in S, v # w,
         Distinct(l), NEW q \in Seq(S), CutAt(q, l, p, v)
  PROVE  MarkAfterEdit(q, l, w, p)
<1> USE DEF CutAt, Kept, Distinct, MarkAfterEdit
<1> DEFINE k == Mark(l, w)
           t == Tail(q)
<1>1. Len(l) \in Nat /\ p \in Nat
  BY LenProperties
<1>2. \/ k \in 1 .. Len(l) /\ l[k] = w
      \/ k = 0 /\ \A i \in 1 .. Len(l) : l[i] # w
  BY MarkFacts
<1>3. /\ t \in Seq(S) /\ Len(t) = p
      /\ \A i \in 1 .. p : t[i] = q[i + 1]
  <2>1. q # << >>
    BY <1>1, EmptySeq
  <2>2. /\ Tail(q) \in Seq(S) /\ Len(Tail(q)) = Len(q) - 1
        /\ \A i \in 1 .. Len(Tail(q)) : Tail(q)[i] = q[i + 1]
    BY <2>1, HeadTailProperties
  <2>3. QED
    BY <1>1, <2>2
<1> HIDE DEF k, t
<1>4. \A i \in 1 .. p + 1 : \/ i \in 1 .. p /\ q[i] = l[i]
                            \/ i = p + 1 /\ q[i] # w
  BY <1>1
<1>5. CASE k \in 1 .. p
  <2>1. l[k] = w /\ \A i \in 1 .. p : l[i] = w => i = k
    BY <1>1, <1>2, <1>5
  <2>2. q[k] = w /\ k \in 1 .. p + 1 /\ \A i \in 1 .. p + 1 : q[i] = w => i = k
    BY <1>1, <1>4, <1>5, <2>1
  <2>3. Mark(q, w) = k
    BY <2>2, MarkAt
  <2>4. CASE k = 1
    <3>1. ASSUME NEW i \in 1 .. p
          PROVE  t[i] # w
      BY <1>1, <1>3, <2>2, <2>4
    <3>2. Mark(t, w) = 0
      BY <1>3, <3>1, NoMark
    <3>3. QED
      BY <1>1, <2>3, <2>4, <3>2 DEF k, t
  <2>5. CASE k # 1
    <3> DEFINE j == k - 1
    <3>1. j \in 1 .. p /\ t[j] = w
      BY <1>1, <1>3, <1>5, <2>2, <2>5
    <3>2. \A i \in 1 .. p : t[i] = w => i = j
      BY <1>1, <1>3, <1>5, <2>2
    <3> HIDE DEF j
    <3>3. Mark(t, w) = j
      <4>1. t \in Seq(S) /\ j \in 1 .. Len(t)
        BY <1>3, <3>1
      <4>2. \A i \in 1 .. Len(t) : t[i] = w => i = j
        BY <1>3, <3>2
      <4>3. QED
        BY <3>1, <4>1, <4>2, MarkAt
    <3>4. QED
      BY <1>1, <1>5, <2>3, <2>5, <3>3 DEF j, k, t
  <2>6. QED
    BY <2>4, <2>5
<1>6. CASE ~(k \in 1 .. p)
  <2>1. ASSUME NEW i \in 1 .. p
        PROVE  l[i] # w
    BY <1>1, <1>2, <1>6
  <2>2. \A i \in 1 .. p + 1 : q[i] # w
    BY <1>4, <2>1
  <2>3. Mark(q, w) = 0
    BY <2>2, NoMark
  <2>4. \A i \in 1 .. p : t[i] # w
    BY <1>1, <1>3, <2>2
  <2>5. Mark(t, w) = 0
    BY <1>3, <2>4, NoMark
  <2>6. k > p \/ k = 0
    BY <1>1, <1>2, <1>6
  <2>7. QED
    BY <1>1, <2>3, <2>5, <2>6 DEF k, t
<1>7. QED
  BY <1>5, <1>6

-----------------------------------------------------------------------------
(***************************************************************************)
(* The history's line of states, its line of versions and its mark.        *)
(***************************************************************************)
States == Line(undoStack, live, redoStack)

Saved == Mark(VersionLine, savedVersion)

\* A line whose entries differ within each part and across.
LEMMA LineDistinct ==
  ASSUME NEW S, NEW u \in Seq(S), NEW x \in S, NEW r \in Seq(S),
         \A i, j \in 1 .. Len(u) : u[i] = u[j] => i = j,
         \A i, j \in 1 .. Len(r) : r[i] = r[j] => i = j,
         \A i \in 1 .. Len(u), j \in 1 .. Len(r) : u[i] # r[j],
         \A i \in 1 .. Len(u) : u[i] # x,
         \A i \in 1 .. Len(r) : r[i] # x
  PROVE  \A i, j \in 1 .. Len(Line(u, x, r)) :
           Line(u, x, r)[i] = Line(u, x, r)[j] => i = j
<1> DEFINE l == Line(u, x, r)
           n == Len(u)
           m == Len(r)
<1>1. n \in Nat /\ m \in Nat
  BY LenProperties
<1>2. Len(l) = n + 1 + m
  BY LineFacts
<1>3. \A i \in 1 .. n : l[i] = u[i]
  BY LineFacts
<1>4. l[n + 1] = x
  BY LineFacts
<1>5. \A i \in n + 2 .. n + 1 + m : l[i] = r[m + n + 2 - i]
  BY LineFacts
<1> HIDE DEF l
<1>6. SUFFICES ASSUME NEW i \in 1 .. n + 1 + m, NEW j \in 1 .. n + 1 + m,
                      l[i] = l[j]
               PROVE  i = j
  BY <1>2 DEF l
<1> HIDE DEF n, m
<1>7. ASSUME NEW k \in 1 .. n + 1 + m
      PROVE  \/ k \in 1 .. n
             \/ k = n + 1
             \/ k \in n + 2 .. n + 1 + m /\ m + n + 2 - k \in 1 .. m
  BY <1>1
<1>8. CASE i \in 1 .. n
  BY <1>1, <1>3, <1>4, <1>5, <1>6, <1>7, <1>8 DEF n, m
<1>9. CASE i = n + 1
  BY <1>1, <1>3, <1>4, <1>5, <1>6, <1>7, <1>9 DEF n, m
<1>10. CASE i \in n + 2 .. n + 1 + m /\ m + n + 2 - i \in 1 .. m
  <2>1. l[i] = r[m + n + 2 - i]
    BY <1>5, <1>10
  <2>2. CASE j \in 1 .. n
    BY <1>3, <1>6, <1>10, <2>1, <2>2 DEF n, m
  <2>3. CASE j = n + 1
    BY <1>4, <1>6, <1>10, <2>1, <2>3 DEF m
  <2>4. CASE j \in n + 2 .. n + 1 + m /\ m + n + 2 - j \in 1 .. m
    <3>1. l[j] = r[m + n + 2 - j]
      BY <1>5, <2>4
    <3>2. m + n + 2 - i = m + n + 2 - j
      BY <1>6, <1>10, <2>1, <2>4, <3>1 DEF m
    <3>3. QED
      BY <1>1, <3>2
  <2>5. QED
    BY <1>7, <2>2, <2>3, <2>4
<1>11. QED
  BY <1>7, <1>8, <1>9, <1>10

\* The versions in reach are all different (VersionsUnique), and the line that
\* they make is as long as the line of states.
LEMMA VersionsFacts ==
  ASSUME IInv
  PROVE  /\ VersionLine \in Seq(Nat)
         /\ Len(VersionLine) = Len(undoStack) + 1 + Len(redoStack)
         /\ Len(undoStack) \in Nat /\ Len(redoStack) \in Nat
         /\ VersionLine[Len(undoStack) + 1] = currentVersion
         /\ \A i, j \in 1 .. Len(VersionLine) :
              VersionLine[i] = VersionLine[j] => i = j
<1> DEFINE u == undoVersionStack
           x == currentVersion
           r == redoVersionStack
           S == Nat
<1>1. /\ u \in Seq(S) /\ x \in S /\ r \in Seq(S)
      /\ Len(u) = Len(undoStack) /\ Len(r) = Len(redoStack)
  <2>1. 0 .. versionCounter \subseteq Nat
    BY DEF IInv, TypeOK
  <2>2. u \in Seq(0 .. versionCounter) /\ r \in Seq(0 .. versionCounter)
        /\ x \in 0 .. versionCounter
    BY DEF IInv, TypeOK, Versions
  <2>3. u \in Seq(Nat) /\ r \in Seq(Nat)
    BY <2>1, <2>2, SeqMonotonic
  <2>4. QED
    BY <2>1, <2>2, <2>3 DEF IInv, TypeOK
<1>2. /\ \A i, j \in 1 .. Len(u) : u[i] = u[j] => i = j
      /\ \A i, j \in 1 .. Len(r) : r[i] = r[j] => i = j
      /\ \A i \in 1 .. Len(u), j \in 1 .. Len(r) : u[i] # r[j]
      /\ \A i \in 1 .. Len(u) : u[i] # x
      /\ \A i \in 1 .. Len(r) : r[i] # x
  BY DEF IInv, VersionsUnique, UndoVersionsDistinct, RedoVersionsDistinct,
         StacksShareNoVersion, LiveVersionUnstacked
<1>3. VersionLine = Line(u, x, r)
  BY Mapped
<1> HIDE DEF u, x, r, S
<1>4. u \in Seq(S) /\ x \in S /\ r \in Seq(S)
  BY <1>1
<1>5. Line(u, x, r) \in Seq(S) /\ Len(u) \in Nat /\ Len(r) \in Nat
  BY <1>4, LineFacts
<1>6. Len(Line(u, x, r)) = Len(u) + 1 + Len(r)
  BY <1>4, LineFacts
<1>7. Line(u, x, r)[Len(u) + 1] = x
  BY <1>4, LineFacts
<1>8. \A i, j \in 1 .. Len(Line(u, x, r)) :
        Line(u, x, r)[i] = Line(u, x, r)[j] => i = j
  BY <1>2, <1>4, LineDistinct
<1>9. QED
  BY <1>1, <1>3, <1>5, <1>6, <1>7, <1>8 DEF x, S

-----------------------------------------------------------------------------
(***************************************************************************)
(* The history starts as the timeline does, and each of its operations is  *)
(* the operation of the timeline.                                          *)
(***************************************************************************)
LEMMA InitTimeline == Init => Timeline!Init
<1> SUFFICES ASSUME Init
             PROVE  Timeline!Init
  OBVIOUS
<1>1. /\ undoStack = << >> /\ redoStack = << >> /\ undoVersionStack = << >>
      /\ redoVersionStack = << >> /\ currentVersion = 0 /\ savedVersion = 0
      /\ live \in Content /\ disk = live
  BY DEF Init, HistoryInit
<1>2. States = <<live>>
  <2>1. Line(<< >>, live, << >>) = Append(<< >>, live)
    BY <1>1, EmptySeq, LineEnd
  <2>2. QED
    BY <1>1, <2>1 DEF States
<1>3. VersionLine = <<0>>
  <2>1. Line(<< >>, 0, << >>) = Append(<< >>, 0)
    <3>1. << >> \in Seq({0}) /\ 0 \in {0}
      BY EmptySeq
    <3>2. QED
      BY <3>1, LineEnd
  <2>2. QED
    BY <1>1, <2>1, Mapped
<1>4. Saved = 1
  <2>1. /\ <<0>> \in Seq({0}) /\ 1 \in 1 .. Len(<<0>>) /\ <<0>>[1] = 0
        /\ \A i \in 1 .. Len(<<0>>) : <<0>>[i] = 0 => i = 1
    OBVIOUS
  <2>2. Mark(<<0>>, 0) = 1
    BY <2>1, MarkAt
  <2>3. QED
    BY <1>1, <1>3, <2>2 DEF Saved
<1>5. Len(undoStack) + 1 = 1
  BY <1>1
<1>6. QED
  BY <1>1, <1>2, <1>4, <1>5 DEF Timeline!Init, States, Line, Saved, Mark

\* An undo steps back on the line.
LEMMA UndoTimeline ==
  ASSUME IInv, UndoEdit
  PROVE  Timeline!Back
<1>1. /\ undoStack # << >> /\ undoVersionStack # << >>
      /\ undoStack \in Seq(Content) /\ redoStack \in Seq(Content)
      /\ undoVersionStack \in Seq(Versions) /\ redoVersionStack \in Seq(Versions)
      /\ live \in Content /\ currentVersion \in Versions
  BY EmptySeq DEF IInv, TypeOK, UndoEdit, Undo, CanUndo
<1>2. States' = States
  <2>1. Line(Pop(undoStack), Top(undoStack), Append(redoStack, live)) = States
    BY <1>1, LineUndo DEF States
  <2>2. QED
    BY <2>1 DEF UndoEdit, Undo, UndoTarget, States
<1>3. VersionLine' = VersionLine
  <2>1. Line(Pop(undoVersionStack), Top(undoVersionStack),
             Append(redoVersionStack, currentVersion)) = VersionLine
    BY <1>1, LineUndo, Mapped
  <2>2. VersionLine' = Line(undoVersionStack', currentVersion', redoVersionStack')
    BY DEF VersionLine, Line
  <2>3. QED
    BY <2>1, <2>2 DEF UndoEdit, Undo
<1>4. Saved' = Saved /\ disk' = disk
  BY <1>3 DEF Saved, UndoEdit, Undo
<1>5. Len(undoStack) \in Nat \ {0} /\ Len(undoStack') = Len(undoStack) - 1
  BY <1>1, PopFacts DEF UndoEdit, Undo
<1>6. Len(undoStack) + 1 > 1 /\ Len(undoStack') + 1 = Len(undoStack) + 1 - 1
  BY <1>5
<1>7. QED
  BY <1>2, <1>4, <1>6 DEF Timeline!Back, States, Line, Saved, Mark

\* A redo steps forth on the line.
LEMMA RedoTimeline ==
  ASSUME IInv, RedoEdit
  PROVE  Timeline!Forth
<1>1. /\ redoStack # << >> /\ redoVersionStack # << >>
      /\ undoStack \in Seq(Content) /\ redoStack \in Seq(Content)
      /\ undoVersionStack \in Seq(Versions) /\ redoVersionStack \in Seq(Versions)
      /\ live \in Content /\ currentVersion \in Versions
  BY EmptySeq DEF IInv, TypeOK, RedoEdit, Redo, CanRedo
<1>2. States' = States
  <2>1. Line(Append(undoStack, live), Top(redoStack), Pop(redoStack)) = States
    BY <1>1, LineRedo DEF States
  <2>2. QED
    BY <2>1 DEF RedoEdit, Redo, RedoTarget, States
<1>3. VersionLine' = VersionLine
  <2>1. Line(Append(undoVersionStack, currentVersion), Top(redoVersionStack),
             Pop(redoVersionStack)) = VersionLine
    BY <1>1, LineRedo, Mapped
  <2>2. VersionLine' = Line(undoVersionStack', currentVersion', redoVersionStack')
    BY DEF VersionLine, Line
  <2>3. QED
    BY <2>1, <2>2 DEF RedoEdit, Redo
<1>4. Saved' = Saved /\ disk' = disk
  BY <1>3 DEF Saved, RedoEdit, Redo
<1>5. Len(undoStack') = Len(undoStack) + 1 /\ Len(undoStack) \in Nat
  BY <1>1, PushFacts DEF RedoEdit, Redo
<1>6. Len(undoStack) + 1 < Len(States)
  <2>1. Len(States) = Len(undoStack) + 1 + Len(redoStack)
    BY <1>1, LineFacts DEF States
  <2>2. Len(redoStack) \in Nat \ {0}
    BY <1>1, EmptySeq
  <2>3. QED
    BY <1>5, <2>1, <2>2
<1>7. Len(undoStack') + 1 = Len(undoStack) + 1 + 1
  BY <1>5
<1>8. QED
  BY <1>2, <1>4, <1>6, <1>7 DEF Timeline!Forth, States, Line, Saved, Mark

\* A document just opened or started is a line of one state, with the mark.
LEMMA OneState ==
  ASSUME NEW c
  PROVE  Line(<< >>, c, << >>) = <<c>> /\ Mark(Line(<< >>, c, << >>), c) = 1
<1>1. << >> \in Seq({c}) /\ c \in {c}
  BY EmptySeq
<1>2. Line(<< >>, c, << >>) = Append(<< >>, c)
  BY <1>1, LineEnd
<1>3. /\ <<c>> \in Seq({c}) /\ 1 \in 1 .. Len(<<c>>) /\ <<c>>[1] = c
      /\ \A i \in 1 .. Len(<<c>>) : <<c>>[i] = c => i = 1
  OBVIOUS
<1>4. Mark(<<c>>, c) = 1
  <2> DEFINE l == <<c>>
             k == 1
             S == {c}
  <2>1. l \in Seq(S) /\ k \in 1 .. Len(l)
    BY <1>3
  <2>2. l[k] = c /\ \A i \in 1 .. Len(l) : l[i] = c => i = k
    BY <1>3
  <2> HIDE DEF l, k, S
  <2>3. Mark(l, c) = k
    BY <2>1, <2>2, MarkAt
  <2>4. QED
    BY <2>3 DEF l, k
<1>5. QED
  BY <1>2, <1>4

\* Opening a document starts a line.
LEMMA LoadTimeline ==
  ASSUME NEW c \in Content, Load(c)
  PROVE  Timeline!Replace(c)
<1>1. /\ undoStack' = << >> /\ redoStack' = << >> /\ undoVersionStack' = << >>
      /\ redoVersionStack' = << >> /\ currentVersion' = 0 /\ savedVersion' = 0
      /\ live' = c /\ disk' = c
  BY DEF Load, ClearAll
<1>2. States' = <<c>>
  BY <1>1, OneState DEF States
<1>3. VersionLine' = Line(undoVersionStack', currentVersion', redoVersionStack')
  BY DEF VersionLine, Line
<1>4. Saved' = 1
  BY <1>1, <1>3, OneState DEF Saved
<1>5. Len(undoStack') + 1 = 1
  BY <1>1
<1>6. QED
  BY <1>1, <1>2, <1>4, <1>5 DEF Timeline!Replace, States, Line, Saved, Mark

\* A save moves the mark to the position: no other place has its version.
LEMMA SaveTimeline ==
  ASSUME IInv, Save
  PROVE  Timeline!Write
<1>1. /\ UNCHANGED <<undoStack, redoStack, undoVersionStack, redoVersionStack,
                     currentVersion, live>>
      /\ savedVersion' = currentVersion /\ disk' = live
  BY DEF Save, MarkSaved
<1>2. States' = States /\ VersionLine' = VersionLine
  BY <1>1 DEF States, VersionLine
<1>3. States[Len(undoStack) + 1] = live
  BY LineFacts DEF States, IInv, TypeOK
<1>4. Saved' = Len(undoStack) + 1
  <2> DEFINE k == Len(undoStack) + 1
  <2>1. /\ VersionLine \in Seq(Nat) /\ k \in 1 .. Len(VersionLine)
        /\ VersionLine[k] = currentVersion
        /\ \A i \in 1 .. Len(VersionLine) : VersionLine[i] = currentVersion => i = k
    BY VersionsFacts
  <2> HIDE DEF k
  <2>2. Mark(VersionLine, currentVersion) = k
    BY <2>1, MarkAt
  <2>3. QED
    BY <1>1, <1>2, <2>2 DEF Saved, k
<1>5. Len(undoStack') + 1 = Len(undoStack) + 1
  BY <1>1
<1>6. QED
  BY <1>1, <1>2, <1>3, <1>4, <1>5
     DEF Timeline!Write, States, Line, Saved, Mark

(***************************************************************************)
(* What an edit makes of a line, when the history is full and when not.    *)
(***************************************************************************)
LineAfterEdit(u, x, r, c) ==
  LET cut == Append(SubSeq(Line(u, x, r), 1, Len(u) + 1), c)
  IN  /\ Line(Append(u, x), c, << >>) = cut
      /\ Line(Tail(Append(u, x)), c, << >>) = Tail(cut)

\* The line up to the live entry, and the new one after it.
LEMMA LineEdit ==
  ASSUME NEW S, NEW u \in Seq(S), NEW x \in S, NEW r \in Seq(S), NEW c \in S
  PROVE  LineAfterEdit(u, x, r, c)
<1> DEFINE a == Append(u, x)
<1>1. a \in Seq(S) /\ a # << >>
  BY PushPop
<1>2. SubSeq(Line(u, x, r), 1, Len(u) + 1) = a
  BY LineCut
<1> HIDE DEF a
<1>3. Line(a, c, << >>) = Append(a, c)
  BY <1>1, LineEnd
<1>4. Tail(a) \in Seq(S)
  BY <1>1, HeadTailProperties
<1>5. Line(Tail(a), c, << >>) = Append(Tail(a), c)
  BY <1>4, LineEnd
<1>6. Append(Tail(a), c) = Tail(Append(a, c))
  <2> DEFINE s == Append(Tail(a), c)
             t == Tail(Append(a, c))
  <2>1. /\ Len(a) \in Nat \ {0} /\ Len(Tail(a)) = Len(a) - 1
        /\ \A i \in 1 .. Len(a) - 1 : Tail(a)[i] = a[i + 1]
    BY <1>1, HeadTailProperties, EmptySeq
  <2>2. /\ s \in Seq(S) /\ Len(s) = Len(Tail(a)) + 1
        /\ \A i \in 1 .. Len(Tail(a)) : s[i] = Tail(a)[i]
        /\ s[Len(Tail(a)) + 1] = c
    BY <1>4, PushFacts
  <2>3. /\ t \in Seq(S) /\ Len(t) = Len(a)
        /\ \A i \in 1 .. Len(a) - 1 : t[i] = a[i + 1]
        /\ t[Len(a)] = c
    BY <1>1, PushFullFacts
  <2> HIDE DEF s, t
  <2>4. Len(s) = Len(t)
    BY <2>1, <2>2, <2>3
  <2>5. ASSUME NEW i \in 1 .. Len(s)
        PROVE  s[i] = t[i]
    <3>1. CASE i < Len(a)
      <4>1. i \in 1 .. Len(Tail(a)) /\ i \in 1 .. Len(a) - 1
        BY <2>1, <2>2, <3>1
      <4>2. s[i] = Tail(a)[i] /\ Tail(a)[i] = a[i + 1] /\ t[i] = a[i + 1]
        BY <2>1, <2>2, <2>3, <4>1
      <4>3. QED
        BY <4>2
    <3>2. CASE i = Len(a)
      <4>1. Len(Tail(a)) + 1 = Len(a)
        BY <2>1
      <4>2. s[Len(Tail(a)) + 1] = c /\ t[Len(a)] = c
        BY <2>2, <2>3
      <4>3. QED
        BY <3>2, <4>1, <4>2
    <3>3. i \in Nat /\ i <= Len(a) /\ Len(a) \in Nat
      <4>1. Len(s) = Len(a) /\ Len(a) \in Nat
        BY <2>1, <2>3, <2>4
      <4>2. QED
        BY <4>1
    <3>4. i < Len(a) \/ i = Len(a)
      BY <3>3
    <3>5. QED
      BY <3>1, <3>2, <3>4
  <2>6. s = t
    BY <2>2, <2>3, <2>4, <2>5, SeqEqual
  <2>7. QED
    BY <2>6 DEF s, t
<1>7. QED
  BY <1>2, <1>3, <1>5, <1>6 DEF a, LineAfterEdit

\* An edit cuts the line after the live state; the fresh version cannot be the
\* saved one, so the mark stays with its state, or goes with it.
LEMMA EditTimelineStep ==
  ASSUME IInv, NEW c \in Content, Edit(c)
  PROVE  Timeline!Edit(c)
<1> DEFINE n == Len(undoStack)
           p == n + 1
           full == n >= MaxDepth
           drop == IF p > MaxDepth THEN 1 ELSE 0
           v == versionCounter + 1
           cut == Append(SubSeq(States, 1, p), c)
           q == Append(SubSeq(VersionLine, 1, p), v)
           saved == IF Saved > p THEN 0 ELSE Saved
<1>1. /\ redoStack' = << >> /\ redoVersionStack' = << >>
      /\ undoStack' = DropOldest(Append(undoStack, live), full)
      /\ undoVersionStack' =
           DropOldest(Append(undoVersionStack, currentVersion), full)
      /\ currentVersion' = v /\ savedVersion' = savedVersion
      /\ live' = c /\ disk' = disk
  BY DEF Edit, PushEdit
<1>2. /\ undoStack \in Seq(Content) /\ redoStack \in Seq(Content)
      /\ live \in Content /\ n \in Nat /\ MaxDepth \in Nat \ {0}
      /\ Len(undoVersionStack) = n
  BY LenProperties, MaxDepthAssumption DEF IInv, TypeOK
<1>3. /\ undoVersionStack \in Seq(Nat) /\ redoVersionStack \in Seq(Nat)
      /\ currentVersion \in Nat /\ v \in Nat /\ v # savedVersion
  <2>1. /\ versionCounter \in Nat /\ 0 .. versionCounter \subseteq Nat
        /\ savedVersion \in 0 .. versionCounter
        /\ currentVersion \in 0 .. versionCounter
    BY DEF IInv, TypeOK, Versions
  <2>2. undoVersionStack \in Seq(0 .. versionCounter)
        /\ redoVersionStack \in Seq(0 .. versionCounter)
    BY DEF IInv, TypeOK, Versions
  <2>3. undoVersionStack \in Seq(Nat) /\ redoVersionStack \in Seq(Nat)
    BY <2>1, <2>2, SeqMonotonic
  <2>4. QED
    BY <2>1, <2>3
<1>4. full <=> p > MaxDepth
  BY <1>2
<1>5. States' = IF full THEN Tail(cut) ELSE cut
  <2>1. /\ Line(Append(undoStack, live), c, << >>) = cut
        /\ Line(Tail(Append(undoStack, live)), c, << >>) = Tail(cut)
    <3> DEFINE u == undoStack
               x == live
               r == redoStack
    <3>1. u \in Seq(Content) /\ x \in Content /\ r \in Seq(Content)
      BY <1>2
    <3>2. cut = Append(SubSeq(Line(u, x, r), 1, Len(u) + 1), c)
      BY DEF States
    <3> HIDE DEF u, x, r, cut, p, n
    <3>3. LineAfterEdit(u, x, r, c)
      BY <3>1, LineEdit
    <3>4. QED
      BY <3>2, <3>3 DEF u, x, LineAfterEdit
  <2>2. States' = Line(undoStack', c, << >>)
    BY <1>1 DEF States
  <2>3. QED
    BY <1>1, <2>1, <2>2 DEF DropOldest
<1>6. VersionLine' = IF full THEN Tail(q) ELSE q
  <2>1. /\ Line(Append(undoVersionStack, currentVersion), v, << >>) = q
        /\ Line(Tail(Append(undoVersionStack, currentVersion)), v, << >>) = Tail(q)
    <3> DEFINE u == undoVersionStack
               x == currentVersion
               r == redoVersionStack
    <3>1. u \in Seq(Nat) /\ x \in Nat /\ r \in Seq(Nat) /\ v \in Nat
      BY <1>3
    <3>2. VersionLine = Line(u, x, r) /\ Len(u) + 1 = p
      BY <1>2, Mapped
    <3> DEFINE V == Nat
    <3>3. u \in Seq(V) /\ x \in V /\ r \in Seq(V) /\ v \in V
      BY <3>1
    <3> HIDE DEF u, x, r, v, p, V
    <3>4. LineAfterEdit(u, x, r, v)
      BY <3>3, LineEdit
    <3>5. QED
      BY <3>2, <3>4 DEF u, x, LineAfterEdit
  <2>2. VersionLine' = Line(undoVersionStack', currentVersion', redoVersionStack')
    BY DEF VersionLine, Line
  <2>3. VersionLine' = Line(undoVersionStack', v, << >>)
    BY <1>1, <2>2
  <2>4. QED
    BY <1>1, <2>1, <2>3 DEF DropOldest
<1>7. /\ Mark(q, savedVersion) = saved
      /\ Mark(Tail(q), savedVersion) = IF saved > 1 THEN saved - 1 ELSE 0
  <2> DEFINE l == VersionLine
             w == savedVersion
  <2>1. /\ l \in Seq(Nat) /\ Len(l) = n + 1 + Len(redoStack)
        /\ Len(redoStack) \in Nat
        /\ \A i, j \in 1 .. Len(l) : l[i] = l[j] => i = j
    BY VersionsFacts
  <2>2. p \in 1 .. Len(l)
    BY <1>2, <2>1
  <2>3. SubSeq(l, 1, p) = Append(undoVersionStack, currentVersion)
    <3> DEFINE u == undoVersionStack
               x == currentVersion
               r == redoVersionStack
    <3>1. u \in Seq(Nat) /\ x \in Nat /\ r \in Seq(Nat)
      BY <1>3
    <3>2. l = Line(u, x, r) /\ p = Len(u) + 1
      BY <1>2, Mapped
    <3> HIDE DEF u, x, r, l, p
    <3>3. SubSeq(Line(u, x, r), 1, Len(u) + 1) = Append(u, x)
      BY <3>1, LineCut
    <3>4. QED
      BY <3>2, <3>3 DEF u, x
  <2>4. /\ SubSeq(l, 1, p) \in Seq(Nat) /\ Len(SubSeq(l, 1, p)) = p
        /\ \A i \in 1 .. p : SubSeq(l, 1, p)[i] = l[i]
    <3>1. /\ Append(undoVersionStack, currentVersion) \in Seq(Nat)
          /\ Len(Append(undoVersionStack, currentVersion)) = p
      BY <1>2, <1>3, PushFacts
    <3>2. \A i \in 1 .. p : l[i] \in Nat
      BY <2>1, <2>2, ElementOfSeq
    <3>3. p \in Int /\ 1 \in Int /\ 1 <= p /\ p - 1 + 1 = p
      BY <1>2
    <3> HIDE DEF l, p
    <3>4. \A i \in 1 .. p - 1 + 1 : SubSeq(l, 1, p)[i] = l[1 + i - 1]
      BY <3>2, <3>3, SubSeqProperties
    <3>5. \A i \in 1 .. p : SubSeq(l, 1, p)[i] = l[i]
      BY <3>3, <3>4
    <3>6. QED
      BY <2>3, <3>1, <3>5
  <2>5. /\ q \in Seq(Nat) /\ Len(q) = p + 1
        /\ \A i \in 1 .. p : q[i] = l[i]
        /\ q[p + 1] = v
    <3> DEFINE b == SubSeq(l, 1, p)
    <3>1. q = Append(b, v)
      OBVIOUS
    <3> HIDE DEF b, l, p, v, q
    <3>2. /\ Append(b, v) \in Seq(Nat) /\ Len(Append(b, v)) = Len(b) + 1
          /\ \A i \in 1 .. Len(b) : Append(b, v)[i] = b[i]
          /\ Append(b, v)[Len(b) + 1] = v
      BY <1>3, <2>4, PushFacts DEF b
    <3>3. QED
      BY <2>4, <3>1, <3>2 DEF b
  <2>6. v # w /\ v \in Nat
    BY <1>3
  <2>7. Saved = Mark(l, w)
    BY DEF Saved
  <2> HIDE DEF l, w, p, v, q
  <2>8. /\ Mark(q, w) = Kept(l, w, p)
        /\ Mark(Tail(q), w) = IF Kept(l, w, p) > 1 THEN Kept(l, w, p) - 1 ELSE 0
    <3>1. l \in Seq(Nat) /\ p \in 1 .. Len(l) /\ q \in Seq(Nat)
          /\ v \in Nat /\ v # w
      BY <2>1, <2>2, <2>5, <2>6
    <3>2. Distinct(l)
      BY <2>1 DEF Distinct
    <3>3. CutAt(q, l, p, v)
      BY <2>5 DEF CutAt
    <3> DEFINE V == Nat
    <3>4. l \in Seq(V) /\ q \in Seq(V) /\ v \in V
      BY <3>1
    <3> HIDE DEF V
    <3>5. MarkAfterEdit(q, l, w, p)
      BY <3>1, <3>2, <3>3, <3>4, MarkEdit
    <3>6. QED
      BY <3>5 DEF MarkAfterEdit
  <2>9. QED
    BY <2>7, <2>8 DEF w, Kept
<1>8. saved \in Nat
  <2>1. Saved \in Nat
    <3>1. VersionLine \in Seq(Nat)
      BY VersionsFacts
    <3>2. Saved \in 1 .. Len(VersionLine) \/ Saved = 0
      BY <3>1, MarkFacts DEF Saved
    <3>3. QED
      BY <3>2
  <2>2. QED
    BY <2>1
<1>9. Saved' = IF saved > drop THEN saved - drop ELSE 0
  <2>1. Saved' = Mark(VersionLine', savedVersion)
    BY <1>1 DEF Saved
  <2> HIDE DEF q, saved, p, n
  <2>2. CASE full
    BY <1>4, <1>6, <1>7, <2>1, <2>2
  <2>3. CASE ~full
    BY <1>4, <1>6, <1>7, <1>8, <2>1, <2>3
  <2>4. QED
    BY <2>2, <2>3
<1>10. Len(undoStack') + 1 = p + 1 - drop
  <2>1. Len(Append(undoStack, live)) = n + 1
    BY <1>2, PushFacts
  <2>2. CASE full
    <3>1. undoStack # << >>
      BY <1>2, <2>2, EmptySeq
    <3>2. Len(Tail(Append(undoStack, live))) = n
      BY <1>2, <3>1, PushFullFacts
    <3>3. Len(undoStack') = n
      BY <1>1, <2>2, <3>2 DEF DropOldest
    <3>4. drop = 1
      BY <1>4, <2>2
    <3>5. QED
      BY <1>2, <3>3, <3>4
  <2>3. CASE ~full
    <3>1. Len(undoStack') = n + 1
      BY <1>1, <2>1, <2>3 DEF DropOldest
    <3>2. drop = 0
      BY <1>4, <2>3
    <3>3. QED
      BY <1>2, <3>1, <3>2
  <2>4. QED
    BY <2>2, <2>3
<1>11. States' = IF p > MaxDepth THEN Tail(cut) ELSE cut
  BY <1>4, <1>5
<1>12. QED
  BY <1>1, <1>9, <1>10, <1>11
     DEF Timeline!Edit, States, Line, Saved, Mark

-----------------------------------------------------------------------------
(***************************************************************************)
(* Undo and redo keep what their abstract specification promises: the      *)
(* document's states lie on one line, the live state is a position on it,  *)
(* and the saved state is a mark on it or is out of reach.                 *)
(***************************************************************************)
THEOREM HistoryIsTimeline == Spec => ImplementsTimeline
<1>1. IInv /\ [Next]_vars => [Timeline!Next]_(Timeline!vars)
  <2> SUFFICES ASSUME IInv, [Next]_vars
               PROVE  [Timeline!Next]_(Timeline!vars)
    OBVIOUS
  <2>1. CASE \E c \in Content : Edit(c)
    BY <2>1, EditTimelineStep DEF Timeline!Next
  <2>2. CASE \E c \in Content : Load(c)
    BY <2>2, LoadTimeline DEF Timeline!Next
  <2>3. CASE UndoEdit
    BY <2>3, UndoTimeline DEF Timeline!Next
  <2>4. CASE RedoEdit
    BY <2>4, RedoTimeline DEF Timeline!Next
  <2>5. CASE Save
    BY <2>5, SaveTimeline DEF Timeline!Next
  <2>6. CASE UNCHANGED vars
    BY <2>6 DEF vars, Timeline!vars, VersionLine
  <2>7. QED
    BY <2>1, <2>2, <2>3, <2>4, <2>5, <2>6 DEF Next
<1>2. QED
  BY Invariance, InitTimeline, <1>1, PTL DEF Spec, ImplementsTimeline, Timeline!Spec
=============================================================================
