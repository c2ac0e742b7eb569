------------------------- MODULE RichUndoHistoryProofs -------------------------
(***************************************************************************)
(* What the operations of RichUndoHistory return, for every kind of        *)
(* snapshot: lemmas for whoever calls them.                                *)
(***************************************************************************)
EXTENDS RichUndoHistory, SequenceTheorems, TLAPS

(***************************************************************************)
(* What the three moves on a stack return: a pop (pop_back), a push        *)
(* (push_back), and a push on a full stack (push_back, then erase(begin)).  *)
(***************************************************************************)
LEMMA PopFacts ==
  ASSUME NEW S, NEW s \in Seq(S), s # << >>
  PROVE  /\ Pop(s) \in Seq(S)
         /\ Len(Pop(s)) = Len(s) - 1
         /\ Len(s) \in Nat \ {0}
         /\ \A i \in 1 .. Len(s) - 1 : Pop(s)[i] = s[i]
         /\ Top(s) \in S
<1>1. Len(s) \in Nat \ {0}
  OBVIOUS
<1>2. /\ SubSeq(s, 1, Len(s) - 1) \in Seq(S)
      /\ Len(SubSeq(s, 1, Len(s) - 1)) = Len(s) - 1
      /\ \A i \in 1 .. Len(s) - 1 : SubSeq(s, 1, Len(s) - 1)[i] = s[i]
  <2>1. \A i \in 1 .. Len(s) - 1 : s[i] \in S
    BY <1>1, ElementOfSeq
  <2>2. PICK n \in Nat : n = Len(s) - 1
    BY <1>1
  <2>3. 1 \in Int /\ n \in Int /\ \A i \in 1 .. n : s[i] \in S
    BY <2>1, <2>2
  <2>4. /\ SubSeq(s, 1, n) \in Seq(S)
        /\ Len(SubSeq(s, 1, n)) = IF 1 <= n THEN n - 1 + 1 ELSE 0
        /\ \A i \in 1 .. n - 1 + 1 : SubSeq(s, 1, n)[i] = s[1 + i - 1]
    BY <2>3, SubSeqProperties
  <2>5. Len(SubSeq(s, 1, n)) = n
    BY <2>2, <2>4
  <2>6. ASSUME NEW i \in 1 .. n
        PROVE  SubSeq(s, 1, n)[i] = s[i]
    <3>1. i \in 1 .. n - 1 + 1 /\ 1 + i - 1 = i
      BY <2>2
    <3>2. QED
      BY <2>4, <3>1
  <2>7. QED
    BY <2>2, <2>4, <2>5, <2>6
<1>3. s[Len(s)] \in S
  BY <1>1, ElementOfSeq
<1>4. QED
  BY <1>1, <1>2, <1>3 DEF Pop, Top

\* push_back
LEMMA PushFacts ==
  ASSUME NEW S, NEW s \in Seq(S), NEW x \in S
  PROVE  /\ Append(s, x) \in Seq(S)
         /\ Len(Append(s, x)) = Len(s) + 1
         /\ Len(s) \in Nat
         /\ \A i \in 1 .. Len(s) : Append(s, x)[i] = s[i]
         /\ Append(s, x)[Len(s) + 1] = x
OBVIOUS

\* push_back, then erase(begin)
LEMMA PushFullFacts ==
  ASSUME NEW S, NEW s \in Seq(S), NEW x \in S, s # << >>
  PROVE  /\ Tail(Append(s, x)) \in Seq(S)
         /\ Len(Tail(Append(s, x))) = Len(s)
         /\ Len(s) \in Nat \ {0}
         /\ \A i \in 1 .. Len(s) - 1 : Tail(Append(s, x))[i] = s[i + 1]
         /\ Tail(Append(s, x))[Len(s)] = x
OBVIOUS

-----------------------------------------------------------------------------
\* The stacks hold snapshots of S and versions of V, a version per snapshot.
StacksOver(S, V) ==
  /\ undoStack \in Seq(S) /\ redoStack \in Seq(S)
  /\ undoVersionStack \in Seq(V) /\ redoVersionStack \in Seq(V)
  /\ Len(undoVersionStack) = Len(undoStack)
  /\ Len(redoVersionStack) = Len(redoStack)

\* A history that was cleared.
LEMMA EmptyStacks ==
  ASSUME NEW S, NEW V, undoStack' = << >>, redoStack' = << >>,
         undoVersionStack' = << >>, redoVersionStack' = << >>
  PROVE  StacksOver(S, V)'
BY DEF StacksOver

(***************************************************************************)
(* The oldest snapshot is evicted with its version.                        *)
(***************************************************************************)
LEMMA PushEditStacks ==
  ASSUME NEW S, NEW V, NEW s \in S, StacksOver(S, V), currentVersion \in V,
         PushEdit(s)
  PROVE  StacksOver(S, V)'
<1> DEFINE full == Len(undoStack) >= MaxDepth
<1>1. /\ redoStack' = << >> /\ redoVersionStack' = << >>
      /\ undoStack' = DropOldest(Append(undoStack, s), full)
      /\ undoVersionStack' =
           DropOldest(Append(undoVersionStack, currentVersion), full)
  BY DEF PushEdit
<1>2. /\ undoStack' \in Seq(S) /\ undoVersionStack' \in Seq(V)
      /\ Len(undoVersionStack') = Len(undoStack')
  <2>1. CASE ~full
    BY <1>1, <2>1 DEF StacksOver, DropOldest
  <2>2. CASE full
    <3>1. undoStack # << >> /\ undoVersionStack # << >>
      BY <2>2, MaxDepthAssumption DEF StacksOver
    <3>2. /\ Tail(Append(undoStack, s)) \in Seq(S)
          /\ Len(Tail(Append(undoStack, s))) = Len(undoStack)
      BY <3>1, PushFullFacts DEF StacksOver
    <3>3. /\ Tail(Append(undoVersionStack, currentVersion)) \in Seq(V)
          /\ Len(Tail(Append(undoVersionStack, currentVersion)))
               = Len(undoVersionStack)
      BY <3>1, PushFullFacts DEF StacksOver
    <3>4. QED
      BY <1>1, <2>2, <3>2, <3>3 DEF StacksOver, DropOldest
  <2>3. QED
    BY <2>1, <2>2
<1>3. QED
  BY <1>1, <1>2 DEF StacksOver

\* What Undo hands back is a snapshot that was pushed, with its version.
LEMMA UndoStacks ==
  ASSUME NEW S, NEW V, NEW s \in S, StacksOver(S, V), currentVersion \in V,
         Undo(s)
  PROVE  StacksOver(S, V)' /\ UndoTarget \in S /\ currentVersion' \in V
<1>1. undoStack # << >> /\ undoVersionStack # << >>
  BY DEF Undo, CanUndo, StacksOver
<1>2. /\ Pop(undoStack) \in Seq(S) /\ Top(undoStack) \in S
      /\ Len(Pop(undoStack)) = Len(undoStack) - 1
  BY <1>1, PopFacts DEF StacksOver
<1>3. /\ Pop(undoVersionStack) \in Seq(V) /\ Top(undoVersionStack) \in V
      /\ Len(Pop(undoVersionStack)) = Len(undoVersionStack) - 1
  BY <1>1, PopFacts DEF StacksOver
<1>4. /\ Append(redoStack, s) \in Seq(S)
      /\ Append(redoVersionStack, currentVersion) \in Seq(V)
      /\ Len(Append(redoStack, s)) = Len(Append(redoVersionStack, currentVersion))
  BY DEF StacksOver
<1>5. QED
  BY <1>2, <1>3, <1>4 DEF Undo, StacksOver, UndoTarget

\* What Redo hands back is a snapshot that Undo has filed, with its version.
LEMMA RedoStacks ==
  ASSUME NEW S, NEW V, NEW s \in S, StacksOver(S, V), currentVersion \in V,
         Redo(s)
  PROVE  StacksOver(S, V)' /\ RedoTarget \in S /\ currentVersion' \in V
<1>1. redoStack # << >> /\ redoVersionStack # << >>
  BY DEF Redo, CanRedo, StacksOver
<1>2. /\ Pop(redoStack) \in Seq(S) /\ Top(redoStack) \in S
      /\ Len(Pop(redoStack)) = Len(redoStack) - 1
  BY <1>1, PopFacts DEF StacksOver
<1>3. /\ Pop(redoVersionStack) \in Seq(V) /\ Top(redoVersionStack) \in V
      /\ Len(Pop(redoVersionStack)) = Len(redoVersionStack) - 1
  BY <1>1, PopFacts DEF StacksOver
<1>4. /\ Append(undoStack, s) \in Seq(S)
      /\ Append(undoVersionStack, currentVersion) \in Seq(V)
      /\ Len(Append(undoStack, s)) = Len(Append(undoVersionStack, currentVersion))
  BY DEF StacksOver
<1>5. QED
  BY <1>2, <1>3, <1>4 DEF Redo, StacksOver, RedoTarget

-----------------------------------------------------------------------------
\* The snapshot x is within reach of undo or redo, under the version v.
Filed(x, v) ==
  \/ \E i \in 1 .. Len(undoStack) : undoStack[i] = x /\ undoVersionStack[i] = v
  \/ \E i \in 1 .. Len(redoStack) : redoStack[i] = x /\ redoVersionStack[i] = v

\* A push files the live state under the live version, and nothing else.
LEMMA PushEditFiles ==
  ASSUME NEW S, NEW V, NEW s \in S, StacksOver(S, V), currentVersion \in V,
         PushEdit(s), NEW x, NEW v, Filed(x, v)'
  PROVE  Filed(x, v) \/ (x = s /\ v = currentVersion)
<1> DEFINE full == Len(undoStack) >= MaxDepth
           n == Len(undoStack)
<1>1. /\ redoStack' = << >>
      /\ undoStack' = DropOldest(Append(undoStack, s), full)
      /\ undoVersionStack' =
           DropOldest(Append(undoVersionStack, currentVersion), full)
  BY DEF PushEdit
<1>2. /\ undoStack \in Seq(S) /\ undoVersionStack \in Seq(V) /\ n \in Nat
      /\ Len(undoVersionStack) = n
  BY DEF StacksOver
<1>3. PICK i \in 1 .. Len(undoStack') :
        undoStack'[i] = x /\ undoVersionStack'[i] = v
  BY <1>1 DEF Filed
<1>4. CASE ~full
  <2>1. /\ undoStack' = Append(undoStack, s)
        /\ undoVersionStack' = Append(undoVersionStack, currentVersion)
    BY <1>1, <1>4 DEF DropOldest
  <2>2. i \in 1 .. n \/ i = n + 1
    BY <1>2, <1>3, <2>1
  <2>3. CASE i = n + 1
    BY <1>2, <1>3, <2>1, <2>3, PushFacts
  <2>4. CASE i \in 1 .. n
    <3>1. undoStack[i] = x /\ undoVersionStack[i] = v
      BY <1>2, <1>3, <2>1, <2>4, PushFacts
    <3>2. QED
      BY <2>4, <3>1 DEF Filed
  <2>5. QED
    BY <2>2, <2>3, <2>4
<1>5. CASE full
  <2>1. /\ undoStack' = Tail(Append(undoStack, s))
        /\ undoVersionStack' = Tail(Append(undoVersionStack, currentVersion))
        /\ undoStack # << >> /\ undoVersionStack # << >>
    <3>1. n # 0
      BY <1>2, <1>5, MaxDepthAssumption
    <3>2. undoStack # << >> /\ undoVersionStack # << >>
      BY <1>2, <3>1
    <3>3. QED
      BY <1>1, <1>5, <3>2 DEF DropOldest
  <2>2. /\ Len(undoStack') = n
        /\ \A j \in 1 .. n - 1 : undoStack'[j] = undoStack[j + 1]
        /\ undoStack'[n] = s
    BY <1>2, <2>1, PushFullFacts
  <2>3. /\ \A j \in 1 .. n - 1 : undoVersionStack'[j] = undoVersionStack[j + 1]
        /\ undoVersionStack'[n] = currentVersion
    BY <1>2, <2>1, PushFullFacts
  <2>4. i \in 1 .. n - 1 \/ i = n
    BY <1>2, <1>3, <2>2
  <2>5. CASE i = n
    BY <1>3, <2>2, <2>3, <2>5
  <2>6. CASE i \in 1 .. n - 1
    <3>1. i + 1 \in 1 .. n
      BY <1>2, <2>6
    <3>2. undoStack[i + 1] = x /\ undoVersionStack[i + 1] = v
      BY <1>3, <2>2, <2>3, <2>6
    <3>3. QED
      BY <3>1, <3>2 DEF Filed
  <2>7. QED
    BY <2>4, <2>5, <2>6
<1>6. QED
  BY <1>4, <1>5

\* An undo files the live state too, and hands back what was filed with its
\* version.
LEMMA UndoFiles ==
  ASSUME NEW S, NEW V, NEW s \in S, StacksOver(S, V), currentVersion \in V,
         Undo(s)
  PROVE  /\ \A x, v : Filed(x, v)' => Filed(x, v) \/ (x = s /\ v = currentVersion)
         /\ \E v : v = currentVersion' /\ Filed(UndoTarget, v)
<1> DEFINE n == Len(undoStack)
           r == Len(redoStack)
<1>1. /\ undoStack # << >>
      /\ undoStack' = Pop(undoStack) /\ undoVersionStack' = Pop(undoVersionStack)
      /\ redoStack' = Append(redoStack, s)
      /\ redoVersionStack' = Append(redoVersionStack, currentVersion)
      /\ currentVersion' = Top(undoVersionStack)
  BY DEF Undo, CanUndo
<1>2. /\ undoStack \in Seq(S) /\ undoVersionStack \in Seq(V) /\ n \in Nat
      /\ redoStack \in Seq(S) /\ redoVersionStack \in Seq(V) /\ r \in Nat
      /\ Len(undoVersionStack) = n /\ Len(redoVersionStack) = r
      /\ undoVersionStack # << >> /\ n # 0
  BY <1>1 DEF StacksOver
<1>3. /\ Len(undoStack') = n - 1
      /\ \A i \in 1 .. n - 1 : undoStack'[i] = undoStack[i]
  BY <1>1, <1>2, PopFacts
<1>4. \A i \in 1 .. n - 1 : undoVersionStack'[i] = undoVersionStack[i]
  BY <1>1, <1>2, PopFacts
<1>5. /\ Len(redoStack') = r + 1
      /\ \A i \in 1 .. r : redoStack'[i] = redoStack[i]
      /\ redoStack'[r + 1] = s
  BY <1>1, <1>2, PushFacts
<1>6. /\ \A i \in 1 .. r : redoVersionStack'[i] = redoVersionStack[i]
      /\ redoVersionStack'[r + 1] = currentVersion
  BY <1>1, <1>2, PushFacts
<1>7. ASSUME NEW x, NEW v, Filed(x, v)'
      PROVE  Filed(x, v) \/ (x = s /\ v = currentVersion)
  <2>1. CASE \E i \in 1 .. Len(undoStack') :
               undoStack'[i] = x /\ undoVersionStack'[i] = v
    <3>1. PICK i \in 1 .. n - 1 : undoStack'[i] = x /\ undoVersionStack'[i] = v
      BY <1>3, <2>1
    <3>2. i \in 1 .. n /\ undoStack[i] = x /\ undoVersionStack[i] = v
      BY <1>2, <1>3, <1>4, <3>1
    <3>3. QED
      BY <3>2 DEF Filed
  <2>2. CASE \E i \in 1 .. Len(redoStack') :
               redoStack'[i] = x /\ redoVersionStack'[i] = v
    <3>1. PICK i \in 1 .. r + 1 : redoStack'[i] = x /\ redoVersionStack'[i] = v
      BY <1>5, <2>2
    <3>2. i \in 1 .. r \/ i = r + 1
      BY <1>2
    <3>3. CASE i = r + 1
      BY <1>5, <1>6, <3>1, <3>3
    <3>4. CASE i \in 1 .. r
      <4>1. redoStack[i] = x /\ redoVersionStack[i] = v
        BY <1>5, <1>6, <3>1, <3>4
      <4>2. QED
        BY <3>4, <4>1 DEF Filed
    <3>5. QED
      BY <3>2, <3>3, <3>4
  <2>3. QED
    BY <1>7, <2>1, <2>2 DEF Filed
<1>8. n \in 1 .. n /\ undoVersionStack[n] = currentVersion' /\ undoStack[n] = UndoTarget
  BY <1>1, <1>2 DEF Top, UndoTarget
<1>9. Filed(UndoTarget, undoVersionStack[n])
  BY <1>8 DEF Filed
<1>10. QED
  BY <1>7, <1>8, <1>9

\* A redo does the same with the stacks exchanged.
LEMMA RedoFiles ==
  ASSUME NEW S, NEW V, NEW s \in S, StacksOver(S, V), currentVersion \in V,
         Redo(s)
  PROVE  /\ \A x, v : Filed(x, v)' => Filed(x, v) \/ (x = s /\ v = currentVersion)
         /\ \E v : v = currentVersion' /\ Filed(RedoTarget, v)
<1> DEFINE n == Len(redoStack)
           r == Len(undoStack)
<1>1. /\ redoStack # << >>
      /\ redoStack' = Pop(redoStack) /\ redoVersionStack' = Pop(redoVersionStack)
      /\ undoStack' = Append(undoStack, s)
      /\ undoVersionStack' = Append(undoVersionStack, currentVersion)
      /\ currentVersion' = Top(redoVersionStack)
  BY DEF Redo, CanRedo
<1>2. /\ redoStack \in Seq(S) /\ redoVersionStack \in Seq(V) /\ n \in Nat
      /\ undoStack \in Seq(S) /\ undoVersionStack \in Seq(V) /\ r \in Nat
      /\ Len(redoVersionStack) = n /\ Len(undoVersionStack) = r
      /\ redoVersionStack # << >> /\ n # 0
  BY <1>1 DEF StacksOver
<1>3. /\ Len(redoStack') = n - 1
      /\ \A i \in 1 .. n - 1 : redoStack'[i] = redoStack[i]
  BY <1>1, <1>2, PopFacts
<1>4. \A i \in 1 .. n - 1 : redoVersionStack'[i] = redoVersionStack[i]
  BY <1>1, <1>2, PopFacts
<1>5. /\ Len(undoStack') = r + 1
      /\ \A i \in 1 .. r : undoStack'[i] = undoStack[i]
      /\ undoStack'[r + 1] = s
  BY <1>1, <1>2, PushFacts
<1>6. /\ \A i \in 1 .. r : undoVersionStack'[i] = undoVersionStack[i]
      /\ undoVersionStack'[r + 1] = currentVersion
  BY <1>1, <1>2, PushFacts
<1>7. ASSUME NEW x, NEW v, Filed(x, v)'
      PROVE  Filed(x, v) \/ (x = s /\ v = currentVersion)
  <2>1. CASE \E i \in 1 .. Len(redoStack') :
               redoStack'[i] = x /\ redoVersionStack'[i] = v
    <3>1. PICK i \in 1 .. n - 1 : redoStack'[i] = x /\ redoVersionStack'[i] = v
      BY <1>3, <2>1
    <3>2. i \in 1 .. n /\ redoStack[i] = x /\ redoVersionStack[i] = v
      BY <1>2, <1>3, <1>4, <3>1
    <3>3. QED
      BY <3>2 DEF Filed
  <2>2. CASE \E i \in 1 .. Len(undoStack') :
               undoStack'[i] = x /\ undoVersionStack'[i] = v
    <3>1. PICK i \in 1 .. r + 1 : undoStack'[i] = x /\ undoVersionStack'[i] = v
      BY <1>5, <2>2
    <3>2. i \in 1 .. r \/ i = r + 1
      BY <1>2
    <3>3. CASE i = r + 1
      BY <1>5, <1>6, <3>1, <3>3
    <3>4. CASE i \in 1 .. r
      <4>1. undoStack[i] = x /\ undoVersionStack[i] = v
        BY <1>5, <1>6, <3>1, <3>4
      <4>2. QED
        BY <3>4, <4>1 DEF Filed
    <3>5. QED
      BY <3>2, <3>3, <3>4
  <2>3. QED
    BY <1>7, <2>1, <2>2 DEF Filed
<1>8. n \in 1 .. n /\ redoVersionStack[n] = currentVersion' /\ redoStack[n] = RedoTarget
  BY <1>1, <1>2 DEF Top, RedoTarget
<1>9. Filed(RedoTarget, redoVersionStack[n])
  BY <1>8 DEF Filed
<1>10. QED
  BY <1>7, <1>8, <1>9
=============================================================================
