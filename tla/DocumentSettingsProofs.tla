------------------------ MODULE DocumentSettingsProofs ------------------------
(***************************************************************************)
(* Theorems of DocumentSettings, for any documents, settings, sidecars and *)
(* grace period.                                                           *)
(***************************************************************************)
EXTENDS DocumentSettings, TLAPS

-----------------------------------------------------------------------------
(***************************************************************************)
(* Types.                                                                  *)
(***************************************************************************)

\* Entries are records of their kind, the ones made here too.
LEMMA EntriesTyped ==
  /\ NoEntry \in Entries /\ Torn \in Entries
  /\ NoEntry.missing = Never /\ Torn.missing = Never
  /\ ~ NoEntry.kept /\ ~ NoEntry.hasSource /\ ~ Torn.hasSource
  /\ \A s \in PartialSettings :
       Entry(TRUE, s.bands, s.margins, Never) \in Entries
BY GraceAssumption DEF NoEntry, Torn, Entry, Entries, PartialSettings, Never

\* Another stamp, or another day, leaves an entry an entry with its settings.
LEMMA RestampedTyped ==
  ASSUME NEW e \in Entries, NEW days \in {Never} \cup 0 .. GraceDays
  PROVE  /\ [e EXCEPT !.missing = days] \in Entries
         /\ [e EXCEPT !.missing = days].missing = days
         /\ [e EXCEPT !.missing = days].hasSource = e.hasSource
         /\ [e EXCEPT !.missing = days].kept = e.kept
         /\ SettingsOf([e EXCEPT !.missing = days]) = SettingsOf(e)
BY DEF Entries, SettingsOf

\* A day's ageing saturates at the grace period and keeps order.
LEMMA OlderTyped ==
  /\ \A days \in {Never} \cup 0 .. GraceDays : Older(days) \in {Never} \cup 0 .. GraceDays
  /\ \A days \in 0 .. GraceDays : Older(days) \in 0 .. GraceDays
  /\ \A i \in {Never} \cup 0 .. GraceDays, j \in 0 .. GraceDays :
       i <= j => Older(i) <= Older(j)
BY GraceAssumption DEF Older, Never

\* Settings read from an entry are settings once they are applied.
LEMMA AppliedTyped ==
  ASSUME live \in Settings,
         NEW s \in PartialSettings
  PROVE  Applied(s) \in Settings
BY DefaultsAssumption DEF Applied, Settings, PartialSettings

\* A rewritten entry, and the rest of the store.
LEMMA RewriteFacts ==
  ASSUME TypeOK, NEW p \in Paths, NEW e \in Entries, Rewrite(p, e)
  PROVE  /\ store' \in [Paths -> Entries]
         /\ store'[p] = e
         /\ \A q \in Paths \ {p} : store'[q] = store[q]
BY DEF TypeOK, Rewrite

\* Sighting a file puts only its own count back to zero.
LEMMA SeenFacts ==
  ASSUME TypeOK, NEW p \in Paths, Seen(p)
  PROVE  /\ unseen' \in [Paths -> 0 .. GraceDays]
         /\ unseen'[p] = 0
         /\ \A q \in Paths \ {p} : unseen'[q] = unseen[q]
BY GraceAssumption DEF TypeOK, Seen

\* Writing settings replaces one entry, whole and without a stamp.
LEMMA WriteFacts ==
  ASSUME TypeOK, NEW p \in Paths,
         NEW s \in PartialSettings,
         WriteFor(p, s)
  PROVE  /\ store' \in [Paths -> Entries]
         /\ unseen' \in [Paths -> 0 .. GraceDays]
         /\ store'[p] = Entry(TRUE, s.bands, s.margins, Never)
         /\ \A q \in Paths \ {p} : store'[q] = store[q] /\ unseen'[q] = unseen[q]
         /\ unseen'[p] = 0
BY EntriesTyped, RewriteFacts, SeenFacts DEF WriteFor

\* A crash in the middle of a write leaves that one entry torn.
LEMMA CutShortFacts ==
  ASSUME TypeOK, NEW p \in Paths, CrashWhileWriting(p)
  PROVE  /\ store' \in [Paths -> Entries]
         /\ unseen' \in [Paths -> 0 .. GraceDays]
         /\ store'[p] = Torn
         /\ \A q \in Paths \ {p} : store'[q] = store[q] /\ unseen'[q] = unseen[q]
         /\ unseen'[p] = 0
         /\ Stop
BY EntriesTyped, RewriteFacts, SeenFacts DEF CrashWhileWriting

\* What memory holds once the program is over.
LEMMA StopTyped ==
  ASSUME Stop
  PROVE  /\ phase' = "stopped" /\ toExamine' \in SUBSET Paths
         /\ doc' = Untitled /\ live' \in Settings
         /\ dialog' = "None" /\ bandsBefore' \in Bands /\ abandoned' \in BOOLEAN
BY DefaultsAssumption DEF Stop, Settings

\* A dialog that is accepted keeps the store typed, whatever document is open.
LEMMA SidecarFacts ==
  ASSUME TypeOK, doc' \in Paths \cup {Untitled}, live' \in Settings, WriteSidecar
  PROVE  /\ store' \in [Paths -> Entries]
         /\ unseen' \in [Paths -> 0 .. GraceDays]
         /\ abandoned' \in BOOLEAN
<1>1. live' \in PartialSettings
  BY DEF Settings, PartialSettings
<1>2. CASE doc' = Untitled
  BY <1>2 DEF WriteSidecar, TypeOK
<1>3. CASE doc' # Untitled
  <2>1. doc' \in Paths /\ WriteFor(doc', live') /\ abandoned' = FALSE
    BY <1>3 DEF WriteSidecar
  <2>2. QED
    BY <1>1, <2>1, WriteFacts
<1>4. QED
  BY <1>2, <1>3

\* What an entry or a sidecar holds of the settings.
LEMMA SettingsOfTyped ==
  ASSUME TypeOK, NEW p \in Paths
  PROVE  /\ SettingsOf(store[p]) \in PartialSettings
         /\ SettingsOf(sidecars[p]) \in PartialSettings
         /\ SettingsAtOpen(p) \in Settings
<1>1. /\ SettingsOf(store[p]) \in PartialSettings
      /\ SettingsOf(sidecars[p]) \in PartialSettings
  BY SidecarsAssumption DEF TypeOK, SettingsOf, Entries, PartialSettings
<1>2. live \in Settings
  BY DEF TypeOK
<1>3. QED
  BY <1>1, <1>2, AppliedTyped DEF SettingsAtOpen

\* Every step keeps the state of its type.
LEMMA TypeStep ==
  TypeOK /\ [Next]_vars => TypeOK'
<1>1. SUFFICES ASSUME TypeOK, [Next]_vars
               PROVE  TypeOK'
  OBVIOUS
<1>2. CASE Launch
  BY <1>1, <1>2 DEF Launch, TypeOK, appVars, diskVars
<1>3. CASE StartRunning
  BY <1>1, <1>3 DEF StartRunning, TypeOK, appVars, diskVars
<1>4. CASE Crash
  BY <1>1, <1>4, StopTyped DEF Crash, TypeOK, diskVars
<1>5. CASE NewFile
  BY <1>1, <1>5, DefaultsAssumption
     DEF NewFile, TypeOK, Settings, diskVars
<1>6. ASSUME NEW p \in Paths, Leave(p)
     PROVE  TypeOK'
  BY <1>1, <1>6, SeenFacts DEF Leave, Examine, TypeOK, appVars, diskVars
<1>7. ASSUME NEW p \in Paths, Stamp(p)
     PROVE  TypeOK'
  <2>1. PICK days \in {Never} \cup 0 .. GraceDays :
          Rewrite(p, [store[p] EXCEPT !.missing = days])
    BY <1>1, <1>7, GraceAssumption DEF Stamp
  <2>2. store' \in [Paths -> Entries]
    BY <1>1, <2>1, RestampedTyped, RewriteFacts DEF TypeOK
  <2>3. QED
    BY <1>1, <1>7, <2>2, SeenFacts DEF Stamp, Examine, TypeOK, appVars, diskVars
<1>8. ASSUME NEW p \in Paths, StampCutShort(p)
     PROVE  TypeOK'
  BY <1>1, <1>8, CutShortFacts, StopTyped DEF StampCutShort, TypeOK, diskVars
<1>9. ASSUME NEW p \in Paths, Remove(p)
     PROVE  TypeOK'
  BY <1>1, <1>9, SeenFacts, RewriteFacts, EntriesTyped
     DEF Remove, Examine, TypeOK, appVars, diskVars
<1>10. ASSUME NEW p \in Paths, OpenFile(p)
     PROVE  TypeOK'
  <2>1. store' \in [Paths -> Entries] /\ unseen' \in [Paths -> 0 .. GraceDays]
    <3>1. CASE Migrates(p)
      BY <1>1, <1>10, <3>1, WriteFacts, SettingsOfTyped DEF OpenFile
    <3>2. CASE ~ Migrates(p)
      BY <1>1, <1>10, <3>2 DEF OpenFile, TypeOK
    <3>3. QED
      BY <3>1, <3>2
  <2>2. QED
    BY <1>1, <1>10, <2>1, SettingsOfTyped DEF OpenFile, TypeOK, diskVars
<1>11. ASSUME NEW p \in Paths, MigrationCutShort(p)
     PROVE  TypeOK'
  BY <1>1, <1>11, CutShortFacts, StopTyped DEF MigrationCutShort, TypeOK, diskVars
<1>12. ASSUME NEW p \in Paths, SaveAs(p)
     PROVE  TypeOK'
  <2>1. doc' \in Paths \cup {Untitled} /\ live' \in Settings /\ WriteSidecar
    BY <1>1, <1>12 DEF SaveAs, TypeOK, Settings
  <2>2. /\ store' \in [Paths -> Entries] /\ unseen' \in [Paths -> 0 .. GraceDays]
        /\ abandoned' \in BOOLEAN
    BY <1>1, <2>1, SidecarFacts
  <2>3. QED
    BY <1>1, <1>12, <2>1, <2>2, DefaultsAssumption DEF SaveAs, TypeOK, diskVars
<1>13. ASSUME NEW p \in Paths, SaveCutShort(p)
     PROVE  TypeOK'
  BY <1>1, <1>13, CutShortFacts, StopTyped DEF SaveCutShort, TypeOK, diskVars
<1>14. ASSUME NEW p \in Paths, DeleteOrRestore(p)
     PROVE  TypeOK'
  BY <1>1, <1>14 DEF DeleteOrRestore, TypeOK, appVars, diskVars
<1>15. CASE OpenHeaderFooterDialog
  BY <1>1, <1>15
     DEF OpenHeaderFooterDialog, TypeOK, Settings, diskVars
<1>16. ASSUME NEW bands \in Bands, EditBands(bands)
     PROVE  TypeOK'
  BY <1>1, <1>16 DEF EditBands, TypeOK, Settings, diskVars
<1>17. CASE CommitHeaderFooter
  <2>1. doc' \in Paths \cup {Untitled} /\ live' \in Settings /\ WriteSidecar
    BY <1>1, <1>17
       DEF CommitHeaderFooter, LeaveHeaderFooterDialog, TypeOK, Settings
  <2>2. /\ store' \in [Paths -> Entries] /\ unseen' \in [Paths -> 0 .. GraceDays]
        /\ abandoned' \in BOOLEAN
    BY <1>1, <2>1, SidecarFacts
  <2>3. QED
    BY <1>1, <1>17, <2>1, <2>2, DefaultsAssumption
       DEF CommitHeaderFooter, LeaveHeaderFooterDialog, TypeOK, diskVars
<1>18. CASE CancelHeaderFooter
  BY <1>1, <1>18, DefaultsAssumption
     DEF CancelHeaderFooter, LeaveHeaderFooterDialog, TypeOK, Settings, diskVars
<1>19. CASE OpenMarginsDialog
  BY <1>1, <1>19 DEF OpenMarginsDialog, TypeOK, diskVars
<1>20. ASSUME NEW margins \in Margins, CommitMargins(margins)
     PROVE  TypeOK'
  <2>1. doc' \in Paths \cup {Untitled} /\ live' \in Settings /\ WriteSidecar
    BY <1>1, <1>20
       DEF CommitMargins, LeaveMarginsDialog, TypeOK, Settings
  <2>2. /\ store' \in [Paths -> Entries] /\ unseen' \in [Paths -> 0 .. GraceDays]
        /\ abandoned' \in BOOLEAN
    BY <1>1, <2>1, SidecarFacts
  <2>3. QED
    BY <1>1, <1>20, <2>1, <2>2, DefaultsAssumption
       DEF CommitMargins, LeaveMarginsDialog, TypeOK, diskVars
<1>21. CASE CancelMargins
  BY <1>1, <1>21 DEF CancelMargins, LeaveMarginsDialog, TypeOK, diskVars
<1>22. CASE DialogWriteCutShort
  <2>1. doc \in Paths /\ CrashWhileWriting(doc)
    BY <1>1, <1>22 DEF DialogWriteCutShort, TypeOK
  <2>2. QED
    BY <1>1, <1>22, <2>1, CutShortFacts, StopTyped
       DEF DialogWriteCutShort, TypeOK, diskVars
<1>23. CASE RequestExit
  BY <1>1, <1>23, DefaultsAssumption DEF RequestExit, TypeOK, diskVars
<1>24. CASE CancelExit
  BY <1>1, <1>24 DEF CancelExit, TypeOK, diskVars
<1>25. CASE ExitWithoutSaving
  BY <1>1, <1>25, StopTyped DEF ExitWithoutSaving, TypeOK, diskVars
<1>26. CASE SaveAndExit
  <2>1. /\ doc \in Paths /\ WriteFor(doc, live)
        /\ live \in PartialSettings
    BY <1>1, <1>26 DEF SaveAndExit, TypeOK, Settings, PartialSettings
  <2>2. QED
    BY <1>1, <1>26, <2>1, WriteFacts, StopTyped DEF SaveAndExit, TypeOK
<1>27. CASE PlugOrUnplug
  BY <1>1, <1>27 DEF PlugOrUnplug, TypeOK, appVars, diskVars
<1>28. CASE ADayPasses
  <2>1. ASSUME NEW p \in Paths
        PROVE  [store[p] EXCEPT !.missing = Older(@)] \in Entries
    <3>1. store[p].missing \in {Never} \cup 0 .. GraceDays
      BY <1>1 DEF TypeOK, Entries
    <3>2. QED
      BY <1>1, <3>1, OlderTyped, RestampedTyped DEF TypeOK
  <2>2. QED
    BY <1>1, <1>28, <2>1, OlderTyped, GraceAssumption
       DEF ADayPasses, TypeOK, appVars, diskVars
<1>29. CASE UNCHANGED vars
  BY <1>1, <1>29 DEF TypeOK, vars, appVars, diskVars
<1>30. QED
  BY <1>1, <1>2, <1>3, <1>4, <1>5, <1>6, <1>7, <1>8, <1>9, <1>10, <1>11, <1>12, <1>13, <1>14,
     <1>15, <1>16, <1>17, <1>18, <1>19, <1>20, <1>21, <1>22, <1>23, <1>24, <1>25, <1>26, <1>27, <1>28, <1>29
     DEF Next, Collecting, Documents, Dialogs, Leaving

\* The state has its type in every behaviour.
THEOREM TypeCorrect == Spec => []TypeOK
<1>1. Init => TypeOK
  <2>1. /\ [bands |-> NoBands, margins |-> DefaultMargins] \in Settings
        /\ [p \in Paths |-> NoEntry] \in [Paths -> Entries]
        /\ [p \in Paths |-> 0] \in [Paths -> 0 .. GraceDays]
    BY EntriesTyped, GraceAssumption, DefaultsAssumption
       DEF Settings, PartialSettings
  <2>2. QED
    BY <2>1, DefaultsAssumption DEF Init, TypeOK
<1>2. QED
  BY <1>1, TypeStep, PTL DEF Spec

-----------------------------------------------------------------------------
(***************************************************************************)
(* Stamps and the grace period.                                            *)
(***************************************************************************)

\* An entry that is written anew has no stamp, which is within any bound.
LEMMA FreshStamp ==
  ASSUME StampWithinUnseen, NEW p \in Paths, store'[p].missing = Never,
         unseen'[p] = 0,
         \A q \in Paths \ {p} : store'[q] = store[q] /\ unseen'[q] = unseen[q]
  PROVE  StampWithinUnseen'
BY DEF StampWithinUnseen, Never

\* An entry just written has no stamp to be too old.
LEMMA WrittenFresh ==
  ASSUME TypeOK, StampWithinUnseen, NEW p \in Paths,
         NEW s \in PartialSettings,
         WriteFor(p, s)
  PROVE  StampWithinUnseen'
<1>1. Entry(TRUE, s.bands, s.margins, Never).missing = Never
  BY DEF Entry
<1>2. /\ store'[p] = Entry(TRUE, s.bands, s.margins, Never) /\ unseen'[p] = 0
      /\ \A q \in Paths \ {p} : store'[q] = store[q] /\ unseen'[q] = unseen[q]
  BY WriteFacts, Zenon
<1>3. store'[p].missing = Never
  BY <1>1, <1>2, Zenon
<1>4. QED
  BY <1>2, <1>3, FreshStamp, Zenon

\* Nor has an entry torn by a crash.
LEMMA TornFresh ==
  ASSUME TypeOK, StampWithinUnseen, NEW p \in Paths, CrashWhileWriting(p)
  PROVE  StampWithinUnseen'
BY CutShortFacts, EntriesTyped, FreshStamp

\* Nor has one that a sidecar was moved into.
LEMMA SidecarFresh ==
  ASSUME TypeOK, StampWithinUnseen, doc' \in Paths \cup {Untitled}, live' \in Settings,
         WriteSidecar
  PROVE  StampWithinUnseen'
<1>1. live' \in PartialSettings
  BY DEF Settings, PartialSettings
<1>2. CASE doc' = Untitled
  BY <1>2 DEF WriteSidecar, StampWithinUnseen
<1>3. CASE doc' # Untitled
  <2>1. doc' \in Paths /\ WriteFor(doc', live')
    BY <1>3 DEF WriteSidecar
  <2>2. QED
    BY <1>1, <2>1, WrittenFresh
<1>4. QED
  BY <1>2, <1>3

\* Every step keeps each stamp within the days without a sign of the file.
LEMMA StampStep ==
  TypeOK /\ StampWithinUnseen /\ [Next]_vars => StampWithinUnseen'
<1>1. SUFFICES ASSUME TypeOK, StampWithinUnseen, [Next]_vars
               PROVE  StampWithinUnseen'
  OBVIOUS
<1>2. CASE Launch
  BY <1>1, <1>2 DEF Launch, StampWithinUnseen
<1>3. CASE StartRunning
  BY <1>1, <1>3 DEF StartRunning, StampWithinUnseen
<1>4. CASE Crash
  BY <1>1, <1>4 DEF Crash, StampWithinUnseen
<1>5. CASE NewFile
  BY <1>1, <1>5 DEF NewFile, StampWithinUnseen
<1>6. ASSUME NEW p \in Paths, Leave(p)
     PROVE  StampWithinUnseen'
  <2>1. UNCHANGED store /\ \A q \in Paths \ {p} : unseen'[q] = unseen[q]
    BY <1>1, <1>6, SeenFacts DEF Leave
  <2>2. unseen'[p] = unseen[p] \/ (unseen'[p] = 0 /\ store[p].missing = Never)
    BY <1>1, <1>6, SeenFacts DEF Leave
  <2>3. QED
    BY <1>1, <2>1, <2>2 DEF StampWithinUnseen, Never
<1>7. ASSUME NEW p \in Paths, Stamp(p)
     PROVE  StampWithinUnseen'
  <2>1. PICK days \in {Never} \cup 0 .. GraceDays :
          /\ Rewrite(p, [store[p] EXCEPT !.missing = days])
          /\ IF files[p] THEN days = Never ELSE days = 0
    BY <1>1, <1>7, GraceAssumption DEF Stamp
  <2>2. /\ store'[p].missing = days
        /\ \A q \in Paths \ {p} : store'[q] = store[q]
    <3>1. store[p] \in Entries
      BY <1>1 DEF TypeOK
    <3>2. /\ [store[p] EXCEPT !.missing = days] \in Entries
          /\ [store[p] EXCEPT !.missing = days].missing = days
      BY <3>1, RestampedTyped
    <3>3. QED
      BY <1>1, <2>1, <3>2, RewriteFacts
  <2>3. /\ \A q \in Paths \ {p} : unseen'[q] = unseen[q]
        /\ unseen'[p] \in 0 .. GraceDays
    BY <1>1, <1>7, SeenFacts, GraceAssumption DEF Stamp, TypeOK
  <2>4. QED
    BY <1>1, <2>1, <2>2, <2>3, GraceAssumption DEF StampWithinUnseen, Never
<1>8. ASSUME NEW p \in Paths, StampCutShort(p)
     PROVE  StampWithinUnseen'
  BY <1>1, <1>8, TornFresh DEF StampCutShort
<1>9. ASSUME NEW p \in Paths, Remove(p)
     PROVE  StampWithinUnseen'
  <2>1. /\ store'[p] = NoEntry /\ unseen'[p] = 0
        /\ \A q \in Paths \ {p} : store'[q] = store[q] /\ unseen'[q] = unseen[q]
    BY <1>1, <1>9, EntriesTyped, RewriteFacts, SeenFacts DEF Remove
  <2>2. QED
    BY <1>1, <2>1, EntriesTyped, FreshStamp
<1>10. ASSUME NEW p \in Paths, OpenFile(p)
     PROVE  StampWithinUnseen'
  <2>1. CASE Migrates(p)
    BY <1>1, <1>10, <2>1, WrittenFresh, SettingsOfTyped DEF OpenFile
  <2>2. CASE ~ Migrates(p)
    BY <1>1, <1>10, <2>2 DEF OpenFile, StampWithinUnseen
  <2>3. QED
    BY <2>1, <2>2
<1>11. ASSUME NEW p \in Paths, MigrationCutShort(p)
     PROVE  StampWithinUnseen'
  BY <1>1, <1>11, TornFresh DEF MigrationCutShort
<1>12. ASSUME NEW p \in Paths, SaveAs(p)
     PROVE  StampWithinUnseen'
  <2>1. doc' \in Paths \cup {Untitled} /\ live' \in Settings /\ WriteSidecar
    BY <1>1, <1>12 DEF SaveAs, TypeOK, Settings
  <2>2. QED
    BY <1>1, <2>1, SidecarFresh
<1>13. ASSUME NEW p \in Paths, SaveCutShort(p)
     PROVE  StampWithinUnseen'
  BY <1>1, <1>13, TornFresh DEF SaveCutShort
<1>14. ASSUME NEW p \in Paths, DeleteOrRestore(p)
     PROVE  StampWithinUnseen'
  BY <1>1, <1>14 DEF DeleteOrRestore, StampWithinUnseen
<1>15. CASE OpenHeaderFooterDialog
  BY <1>1, <1>15 DEF OpenHeaderFooterDialog, StampWithinUnseen
<1>16. ASSUME NEW bands \in Bands, EditBands(bands)
     PROVE  StampWithinUnseen'
  BY <1>1, <1>16 DEF EditBands, StampWithinUnseen
<1>17. CASE CommitHeaderFooter
  <2>1. doc' \in Paths \cup {Untitled} /\ live' \in Settings /\ WriteSidecar
    BY <1>1, <1>17
       DEF CommitHeaderFooter, LeaveHeaderFooterDialog, TypeOK, Settings
  <2>2. QED
    BY <1>1, <2>1, SidecarFresh
<1>18. CASE CancelHeaderFooter
  BY <1>1, <1>18
     DEF CancelHeaderFooter, LeaveHeaderFooterDialog, StampWithinUnseen
<1>19. CASE OpenMarginsDialog
  BY <1>1, <1>19 DEF OpenMarginsDialog, StampWithinUnseen
<1>20. ASSUME NEW margins \in Margins, CommitMargins(margins)
     PROVE  StampWithinUnseen'
  <2>1. doc' \in Paths \cup {Untitled} /\ live' \in Settings /\ WriteSidecar
    BY <1>1, <1>20
       DEF CommitMargins, LeaveMarginsDialog, TypeOK, Settings
  <2>2. QED
    BY <1>1, <2>1, SidecarFresh
<1>21. CASE CancelMargins
  BY <1>1, <1>21 DEF CancelMargins, LeaveMarginsDialog, StampWithinUnseen
<1>22. CASE DialogWriteCutShort
  BY <1>1, <1>22, TornFresh DEF DialogWriteCutShort, TypeOK
<1>23. CASE RequestExit
  BY <1>1, <1>23 DEF RequestExit, StampWithinUnseen
<1>24. CASE CancelExit
  BY <1>1, <1>24 DEF CancelExit, StampWithinUnseen
<1>25. CASE ExitWithoutSaving
  BY <1>1, <1>25 DEF ExitWithoutSaving, StampWithinUnseen
<1>26. CASE SaveAndExit
  <2>1. /\ doc \in Paths /\ WriteFor(doc, live)
        /\ live \in PartialSettings
    BY <1>1, <1>26 DEF SaveAndExit, TypeOK, Settings, PartialSettings
  <2>2. QED
    BY <1>1, <2>1, WrittenFresh
<1>27. CASE PlugOrUnplug
  BY <1>1, <1>27 DEF PlugOrUnplug, StampWithinUnseen
<1>28. CASE ADayPasses
  <2>1. SUFFICES ASSUME NEW p \in Paths,
                      store'[p].kept
               PROVE  store'[p].missing <= unseen'[p]
    BY DEF StampWithinUnseen
  <2>2. store[p] \in Entries
    BY <1>1 DEF TypeOK
  <2>3. /\ store[p].missing \in {Never} \cup 0 .. GraceDays
        /\ unseen[p] \in 0 .. GraceDays
    BY <1>1, <2>2 DEF TypeOK, Entries
  <2>4. /\ store'[p].missing = Older(store[p].missing)
        /\ store'[p].kept = store[p].kept
    BY <1>1, <1>28, <2>2, <2>3, OlderTyped, RestampedTyped DEF ADayPasses
  <2>5. store[p].missing <= unseen[p] /\ unseen'[p] = Older(unseen[p])
    BY <1>1, <1>28, <2>1, <2>4 DEF ADayPasses, StampWithinUnseen
  <2>6. QED
    BY <2>3, <2>4, <2>5, OlderTyped
<1>29. CASE UNCHANGED vars
  BY <1>1, <1>29 DEF vars, StampWithinUnseen
<1>30. QED
  BY <1>1, <1>2, <1>3, <1>4, <1>5, <1>6, <1>7, <1>8, <1>9, <1>10, <1>11, <1>12, <1>13, <1>14,
     <1>15, <1>16, <1>17, <1>18, <1>19, <1>20, <1>21, <1>22, <1>23, <1>24, <1>25, <1>26, <1>27, <1>28, <1>29
     DEF Next, Collecting, Documents, Dialogs, Leaving

\* No file is charged with days on which a launch found it or a save wrote it.
THEOREM StampsCorrect == Spec => []StampWithinUnseen
<1>1. Init => StampWithinUnseen
  BY EntriesTyped DEF Init, StampWithinUnseen, Never
<1>2. QED
  BY <1>1, TypeCorrect, StampStep, PTL DEF Spec

\* The settings of q are changed, and none of the three occasions is there.
Lost(q) ==
  /\ store[q].kept /\ store[q].hasSource
  /\ SettingsOf(store'[q]) # SettingsOf(store[q])
  /\ ~ (phase = "running" /\ q \in {doc, doc'})
  /\ ~ (phase' = "stopped" /\ store'[q] = Torn)
  /\ ~ (phase = "collecting" /\ Expired(q))

\* Accepting a dialog and saving write for the open document only.
LEMMA SidecarWritesOpen ==
  ASSUME TypeOK, doc' \in Paths \cup {Untitled}, live' \in Settings, WriteSidecar,
         NEW q \in Paths, q # doc'
  PROVE  store'[q] = store[q]
<1>1. live' \in PartialSettings
  BY DEF Settings, PartialSettings
<1>2. CASE doc' = Untitled
  BY <1>2 DEF WriteSidecar
<1>3. CASE doc' # Untitled
  <2>1. doc' \in Paths /\ WriteFor(doc', live')
    BY <1>3 DEF WriteSidecar
  <2>2. QED
    BY <1>1, <2>1, WriteFacts
<1>4. QED
  BY <1>2, <1>3

\* No step loses the settings of a document.
LEMMA LossStep ==
  ASSUME TypeOK, StampWithinUnseen, [Next]_vars, NEW q \in Paths
  PROVE  ~ Lost(q)
<1>1. SUFFICES ASSUME Lost(q), TypeOK, StampWithinUnseen, [Next]_vars
               PROVE  FALSE
  OBVIOUS
<1>2. CASE Launch
  BY <1>1, <1>2 DEF Launch, Lost
<1>3. CASE StartRunning
  BY <1>1, <1>3 DEF StartRunning, Lost
<1>4. CASE Crash
  BY <1>1, <1>4 DEF Crash, Lost
<1>5. CASE NewFile
  BY <1>1, <1>5 DEF NewFile, Lost
<1>6. ASSUME NEW p \in Paths, Leave(p)
     PROVE  FALSE
  BY <1>1, <1>6 DEF Leave, Examine, Lost
<1>7. ASSUME NEW p \in Paths, Stamp(p)
     PROVE  FALSE
  <2>1. PICK days \in {Never} \cup 0 .. GraceDays :
          Rewrite(p, [store[p] EXCEPT !.missing = days])
    BY <1>1, <1>7, GraceAssumption DEF Stamp
  <2>2. store[p] \in Entries
    BY <1>1 DEF TypeOK
  <2>3. /\ SettingsOf(store'[p]) = SettingsOf(store[p])
        /\ \A r \in Paths \ {p} : store'[r] = store[r]
    BY <1>1, <2>1, <2>2, RestampedTyped, RewriteFacts
  <2>4. QED
    BY <1>1, <2>3 DEF Lost
<1>8. ASSUME NEW p \in Paths, StampCutShort(p)
     PROVE  FALSE
  BY <1>1, <1>8, CutShortFacts DEF StampCutShort, Stop, Lost
<1>9. ASSUME NEW p \in Paths, Remove(p)
     PROVE  FALSE
  <2>1. \A r \in Paths \ {p} : store'[r] = store[r]
    BY <1>1, <1>9, EntriesTyped, RewriteFacts DEF Remove
  <2>2. CASE Corrupt(p)
    BY <1>1, <2>1, <2>2 DEF Corrupt, Lost
  <2>3. CASE Missed(p) /\ store[p].missing = GraceDays
    <3>1. store[p].kept => unseen[p] = GraceDays
      BY <1>1, <2>3, GraceAssumption DEF TypeOK, StampWithinUnseen
    <3>2. phase = "collecting" /\ (store[p].kept => Expired(p))
      BY <1>1, <1>9, <2>3, <3>1 DEF Remove, Examine, Missed, Expired
    <3>3. QED
      BY <1>1, <2>1, <3>2 DEF Lost
  <2>4. QED
    BY <1>1, <1>9, <2>2, <2>3 DEF Remove
<1>10. ASSUME NEW p \in Paths, OpenFile(p)
     PROVE  FALSE
  <2>1. phase = "running" /\ doc' = p
    BY <1>1, <1>10 DEF OpenFile, CanOpen, InDialog
  <2>2. CASE Migrates(p)
    BY <1>1, <1>10, <2>1, <2>2, WriteFacts, SettingsOfTyped DEF OpenFile, Lost
  <2>3. CASE ~ Migrates(p)
    BY <1>1, <1>10, <2>3 DEF OpenFile, Lost
  <2>4. QED
    BY <2>2, <2>3
<1>11. ASSUME NEW p \in Paths, MigrationCutShort(p)
     PROVE  FALSE
  BY <1>1, <1>11, CutShortFacts DEF MigrationCutShort, Stop, Lost
<1>12. ASSUME NEW p \in Paths, SaveAs(p)
     PROVE  FALSE
  <2>1. /\ doc' \in Paths \cup {Untitled} /\ live' \in Settings /\ WriteSidecar
        /\ phase = "running"
    BY <1>1, <1>12 DEF SaveAs, InDialog, TypeOK, Settings
  <2>2. QED
    BY <1>1, <2>1, SidecarWritesOpen DEF Lost
<1>13. ASSUME NEW p \in Paths, SaveCutShort(p)
     PROVE  FALSE
  BY <1>1, <1>13, CutShortFacts DEF SaveCutShort, Stop, Lost
<1>14. ASSUME NEW p \in Paths, DeleteOrRestore(p)
     PROVE  FALSE
  BY <1>1, <1>14 DEF DeleteOrRestore, Lost
<1>15. CASE OpenHeaderFooterDialog
  BY <1>1, <1>15 DEF OpenHeaderFooterDialog, Lost
<1>16. ASSUME NEW bands \in Bands, EditBands(bands)
     PROVE  FALSE
  BY <1>1, <1>16 DEF EditBands, Lost
<1>17. CASE CommitHeaderFooter
  <2>1. /\ doc' \in Paths \cup {Untitled} /\ live' \in Settings /\ WriteSidecar
        /\ phase = "running"
    BY <1>1, <1>17
       DEF CommitHeaderFooter, LeaveHeaderFooterDialog, InDialog, TypeOK, Settings
  <2>2. QED
    BY <1>1, <2>1, SidecarWritesOpen DEF Lost
<1>18. CASE CancelHeaderFooter
  BY <1>1, <1>18 DEF CancelHeaderFooter, LeaveHeaderFooterDialog, Lost
<1>19. CASE OpenMarginsDialog
  BY <1>1, <1>19 DEF OpenMarginsDialog, Lost
<1>20. ASSUME NEW margins \in Margins, CommitMargins(margins)
     PROVE  FALSE
  <2>1. /\ doc' \in Paths \cup {Untitled} /\ live' \in Settings /\ WriteSidecar
        /\ phase = "running"
    BY <1>1, <1>20
       DEF CommitMargins, LeaveMarginsDialog, InDialog, TypeOK, Settings
  <2>2. QED
    BY <1>1, <2>1, SidecarWritesOpen DEF Lost
<1>21. CASE CancelMargins
  BY <1>1, <1>21 DEF CancelMargins, LeaveMarginsDialog, Lost
<1>22. CASE DialogWriteCutShort
  <2>1. doc \in Paths /\ CrashWhileWriting(doc)
    BY <1>1, <1>22 DEF DialogWriteCutShort, TypeOK
  <2>2. QED
    BY <1>1, <2>1, CutShortFacts DEF Stop, Lost
<1>23. CASE RequestExit
  BY <1>1, <1>23 DEF RequestExit, Lost
<1>24. CASE CancelExit
  BY <1>1, <1>24 DEF CancelExit, Lost
<1>25. CASE ExitWithoutSaving
  BY <1>1, <1>25 DEF ExitWithoutSaving, Lost
<1>26. CASE SaveAndExit
  <2>1. /\ doc \in Paths /\ WriteFor(doc, live) /\ phase = "running"
        /\ live \in PartialSettings
    BY <1>1, <1>26 DEF SaveAndExit, InDialog, TypeOK, Settings, PartialSettings
  <2>2. QED
    BY <1>1, <2>1, WriteFacts DEF Lost
<1>27. CASE PlugOrUnplug
  BY <1>1, <1>27 DEF PlugOrUnplug, Lost
<1>28. CASE ADayPasses
  <2>1. store[q] \in Entries
    BY <1>1 DEF TypeOK
  <2>2. Older(store[q].missing) \in {Never} \cup 0 .. GraceDays
    BY <2>1, OlderTyped DEF Entries
  <2>3. SettingsOf(store'[q]) = SettingsOf(store[q])
    BY <1>1, <1>28, <2>1, <2>2, RestampedTyped DEF ADayPasses
  <2>4. QED
    BY <1>1, <2>3 DEF Lost
<1>29. CASE UNCHANGED vars
  BY <1>1, <1>29 DEF vars, Lost
<1>30. QED
  BY <1>1, <1>2, <1>3, <1>4, <1>5, <1>6, <1>7, <1>8, <1>9, <1>10, <1>11, <1>12, <1>13, <1>14,
     <1>15, <1>16, <1>17, <1>18, <1>19, <1>20, <1>21, <1>22, <1>23, <1>24, <1>25, <1>26, <1>27, <1>28, <1>29
     DEF Next, Collecting, Documents, Dialogs, Leaving

\* What the store keeps for a document lasts as long as the code promises:
\* past every launch, until nothing was seen of the file for the grace period.
THEOREM SettingsLast == Spec => SettingsLastUntilGrace
<1>1. TypeOK /\ StampWithinUnseen /\ [Next]_vars =>
        [\A p \in Paths :
           /\ store[p].kept /\ store[p].hasSource
           /\ SettingsOf(store'[p]) # SettingsOf(store[p])
           => \/ phase = "running" /\ p \in {doc, doc'}
              \/ phase' = "stopped" /\ store'[p] = Torn
              \/ phase = "collecting" /\ Expired(p)]_vars
  BY LossStep DEF Lost
<1>2. QED
  BY <1>1, TypeCorrect, StampsCorrect, PTL DEF Spec, SettingsLastUntilGrace

-----------------------------------------------------------------------------
(***************************************************************************)
(* What is in view.  Behind the header and footer dialog it is the         *)
(* snapshot that agrees with the store: Esc brings it back.                *)
(***************************************************************************)
Settled(d) ==
  /\ live.margins = store[d].margins
  /\ (IF dialog = "HeaderFooter" THEN bandsBefore ELSE live.bands) = store[d].bands

\* The strengthening of ShownIsStored: also while a dialog is up, and the
\* program has no document but when it runs.
ShownInv ==
  /\ \A p \in Paths : store[p].hasSource => store[p].kept
  /\ phase # "running" => doc = Untitled /\ dialog = "None"
  /\ doc # Untitled /\ ~ abandoned /\ Complete(store[doc]) => Settled(doc)

\* The fields of an entry read back as they were written.
LEMMA EntryFields ==
  ASSUME NEW s
  PROVE  /\ Entry(TRUE, s.bands, s.margins, Never).kept
         /\ Entry(TRUE, s.bands, s.margins, Never).bands = s.bands
         /\ Entry(TRUE, s.bands, s.margins, Never).margins = s.margins
BY DEF Entry

\* Once the program is over, only the entries matter.
LEMMA ShownAfterStop ==
  ASSUME Stop, \A p \in Paths : store'[p].hasSource => store'[p].kept
  PROVE  ShownInv'
BY DEF Stop, ShownInv

\* A torn entry may differ from what is shown: the program is down.
LEMMA ShownAfterTear ==
  ASSUME TypeOK, ShownInv, NEW p \in Paths, CrashWhileWriting(p)
  PROVE  ShownInv'
<1>1. \A q \in Paths : store'[q].hasSource => store'[q].kept
  BY CutShortFacts, EntriesTyped DEF ShownInv
<1>2. QED
  BY <1>1, CutShortFacts, ShownAfterStop

\* A write of what is in view for the open document settles it.
LEMMA ShownAfterWrite ==
  ASSUME TypeOK, ShownInv, doc' \in Paths \cup {Untitled}, live' \in Settings,
         WriteSidecar, phase' = "running", dialog' # "HeaderFooter",
         doc' = Untitled => abandoned' = abandoned
  PROVE  ShownInv'
<1>1. live' \in PartialSettings
  BY DEF Settings, PartialSettings
<1>2. CASE doc' = Untitled
  BY <1>2 DEF WriteSidecar, ShownInv
<1>3. CASE doc' # Untitled
  <2>1. doc' \in Paths /\ WriteFor(doc', live')
    BY <1>3 DEF WriteSidecar
  <2>2. /\ store'[doc'] = Entry(TRUE, live'.bands, live'.margins, Never)
        /\ \A q \in Paths \ {doc'} : store'[q] = store[q]
    BY <1>1, <2>1, WriteFacts
  <2>3. Settled(doc)'
    BY <2>2, EntryFields DEF Settled
  <2>4. \A p \in Paths : store'[p].hasSource => store'[p].kept
    BY <2>2, EntryFields DEF ShownInv
  <2>5. QED
    BY <2>3, <2>4 DEF ShownInv
<1>4. QED
  BY <1>2, <1>3

\* Every step keeps what is in view settled with the store.
LEMMA ShownStep ==
  TypeOK /\ ShownInv /\ [Next]_vars => ShownInv'
<1>1. SUFFICES ASSUME TypeOK, ShownInv, [Next]_vars
               PROVE  ShownInv'
  OBVIOUS
<1>2. CASE Launch
  BY <1>1, <1>2
     DEF Launch, InDialog, ShownInv, Settled, Complete, appVars, diskVars
<1>3. CASE StartRunning
  BY <1>1, <1>3
     DEF StartRunning, InDialog, ShownInv, Settled, Complete, appVars, diskVars
<1>4. CASE Crash
  <2>1. Stop /\ UNCHANGED store
    BY <1>1, <1>4 DEF Crash
  <2>2. QED
    BY <1>1, <2>1, ShownAfterStop DEF ShownInv
<1>5. CASE NewFile
  BY <1>1, <1>5
     DEF NewFile, InDialog, ShownInv, Settled, Complete, appVars, diskVars
<1>6. ASSUME NEW p \in Paths, Leave(p)
     PROVE  ShownInv'
  BY <1>1, <1>6 DEF Leave, Examine, appVars, ShownInv
<1>7. ASSUME NEW p \in Paths, Stamp(p)
     PROVE  ShownInv'
  <2>1. PICK days \in {Never} \cup 0 .. GraceDays :
          Rewrite(p, [store[p] EXCEPT !.missing = days])
    BY <1>1, <1>7, GraceAssumption DEF Stamp
  <2>2. store[p] \in Entries
    BY <1>1 DEF TypeOK
  <2>3. /\ store'[p].hasSource = store[p].hasSource /\ store'[p].kept = store[p].kept
        /\ \A r \in Paths \ {p} : store'[r] = store[r]
    <3>1. PICK e : e = [store[p] EXCEPT !.missing = days]
      OBVIOUS
    <3>2. /\ e \in Entries
          /\ e.hasSource = store[p].hasSource /\ e.kept = store[p].kept
      BY <2>2, <3>1, RestampedTyped
    <3>3. /\ store'[p] = e
          /\ \A r \in Paths \ {p} : store'[r] = store[r]
      BY <1>1, <2>1, <3>1, <3>2, RewriteFacts
    <3>4. QED
      BY <3>2, <3>3
  <2>4. \A q \in Paths : store'[q].hasSource => store'[q].kept
    BY <1>1, <2>3 DEF ShownInv
  <2>5. QED
    BY <1>1, <1>7, <2>4 DEF Stamp, NeedsStamp, Examine, appVars, ShownInv
<1>8. ASSUME NEW p \in Paths, StampCutShort(p)
     PROVE  ShownInv'
  BY <1>1, <1>8, ShownAfterTear DEF StampCutShort
<1>9. ASSUME NEW p \in Paths, Remove(p)
     PROVE  ShownInv'
  <2>1. \A q \in Paths : store'[q].hasSource => store'[q].kept
    BY <1>1, <1>9, EntriesTyped, RewriteFacts DEF Remove, ShownInv
  <2>2. QED
    BY <1>1, <1>9, <2>1 DEF Remove, Examine, appVars, ShownInv
<1>10. ASSUME NEW p \in Paths, OpenFile(p)
     PROVE  ShownInv'
  <2>1. /\ phase' = "running" /\ dialog' = "None" /\ doc' = p
        /\ live' = SettingsAtOpen(p)
    BY <1>1, <1>10 DEF OpenFile, CanOpen, InDialog
  <2>2. CASE Migrates(p)
    <3>1. WriteFor(p, SettingsOf(sidecars[p]))
      BY <1>1, <1>10, <2>2 DEF OpenFile
    <3>2. /\ store'[p].kept
          /\ SettingsOf(store'[p]) = SettingsOf(sidecars[p])
          /\ \A q \in Paths \ {p} : store'[q] = store[q]
      <4>1. PICK m : /\ m = SettingsOf(sidecars[p])
                     /\ m \in PartialSettings
        BY <1>1, SettingsOfTyped
      <4>2. /\ store'[p] = Entry(TRUE, m.bands, m.margins, Never)
            /\ \A q \in Paths \ {p} : store'[q] = store[q]
        BY <1>1, <3>1, <4>1, WriteFacts
      <4>3. SettingsOf(store'[p]) = m
        BY <4>1, <4>2, EntryFields DEF SettingsOf
      <4>4. QED
        BY <4>1, <4>2, <4>3, EntryFields
    <3>3. live' = Applied(SettingsOf(store'[p]))
      BY <2>1, <2>2, <3>2 DEF SettingsAtOpen, Migrates
    <3>4. Complete(store'[p]) => /\ live'.margins = store'[p].margins
                                /\ live'.bands = store'[p].bands
      BY <3>3 DEF Complete, Applied, SettingsOf
    <3>5. QED
      BY <1>1, <2>1, <3>2, <3>4 DEF ShownInv, Settled
  <2>3. CASE ~ Migrates(p)
    <3>1. UNCHANGED store
      BY <1>1, <1>10, <2>3 DEF OpenFile
    <3>2. Complete(store[p]) => live' = Applied(SettingsOf(store[p]))
      BY <1>1, <2>1, <2>3 DEF SettingsAtOpen, Complete, ShownInv
    <3>3. Complete(store[p]) => /\ live'.margins = store[p].margins
                                /\ live'.bands = store[p].bands
      BY <3>2 DEF Complete, Applied, SettingsOf
    <3>4. QED
      BY <1>1, <2>1, <3>1, <3>3 DEF ShownInv, Settled
  <2>4. QED
    BY <2>2, <2>3
<1>11. ASSUME NEW p \in Paths, MigrationCutShort(p)
     PROVE  ShownInv'
  BY <1>1, <1>11, ShownAfterTear DEF MigrationCutShort
<1>12. ASSUME NEW p \in Paths, SaveAs(p)
     PROVE  ShownInv'
  <2>1. /\ doc' \in Paths \cup {Untitled} /\ live' \in Settings /\ WriteSidecar
        /\ phase' = "running" /\ dialog' # "HeaderFooter"
    BY <1>1, <1>12 DEF SaveAs, InDialog, TypeOK, Settings
  <2>2. doc' = Untitled => abandoned' = abandoned
    BY <2>1 DEF WriteSidecar
  <2>3. QED
    BY <1>1, <2>1, <2>2, ShownAfterWrite
<1>13. ASSUME NEW p \in Paths, SaveCutShort(p)
     PROVE  ShownInv'
  BY <1>1, <1>13, ShownAfterTear DEF SaveCutShort
<1>14. ASSUME NEW p \in Paths, DeleteOrRestore(p)
     PROVE  ShownInv'
  BY <1>1, <1>14
     DEF DeleteOrRestore, InDialog, ShownInv, Settled, Complete, appVars, diskVars
<1>15. CASE OpenHeaderFooterDialog
  BY <1>1, <1>15
     DEF OpenHeaderFooterDialog, InDialog, ShownInv, Settled, Complete, appVars, diskVars
<1>16. ASSUME NEW bands \in Bands, EditBands(bands)
     PROVE  ShownInv'
  BY <1>1, <1>16
     DEF EditBands, InDialog, ShownInv, Settled, Complete, appVars, diskVars
<1>17. CASE CommitHeaderFooter
  <2>1. /\ doc' \in Paths \cup {Untitled} /\ live' \in Settings /\ WriteSidecar
        /\ phase' = "running" /\ dialog' # "HeaderFooter"
    BY <1>1, <1>17
       DEF CommitHeaderFooter, LeaveHeaderFooterDialog, InDialog, TypeOK, Settings
  <2>2. doc' = Untitled => abandoned' = abandoned
    BY <2>1 DEF WriteSidecar
  <2>3. QED
    BY <1>1, <2>1, <2>2, ShownAfterWrite
<1>18. CASE CancelHeaderFooter
  BY <1>1, <1>18
     DEF CancelHeaderFooter, LeaveHeaderFooterDialog, InDialog, ShownInv, Settled, Complete, appVars, diskVars
<1>19. CASE OpenMarginsDialog
  BY <1>1, <1>19
     DEF OpenMarginsDialog, InDialog, ShownInv, Settled, Complete, appVars, diskVars
<1>20. ASSUME NEW margins \in Margins, CommitMargins(margins)
     PROVE  ShownInv'
  <2>1. /\ doc' \in Paths \cup {Untitled} /\ live' \in Settings /\ WriteSidecar
        /\ phase' = "running" /\ dialog' # "HeaderFooter"
    BY <1>1, <1>20
       DEF CommitMargins, LeaveMarginsDialog, InDialog, TypeOK, Settings
  <2>2. doc' = Untitled => abandoned' = abandoned
    BY <2>1 DEF WriteSidecar
  <2>3. QED
    BY <1>1, <2>1, <2>2, ShownAfterWrite
<1>21. CASE CancelMargins
  BY <1>1, <1>21
     DEF CancelMargins, LeaveMarginsDialog, InDialog, ShownInv, Settled, Complete, appVars, diskVars
<1>22. CASE DialogWriteCutShort
  <2>1. doc \in Paths /\ CrashWhileWriting(doc)
    BY <1>1, <1>22 DEF DialogWriteCutShort, TypeOK
  <2>2. QED
    BY <1>1, <2>1, ShownAfterTear
<1>23. CASE RequestExit
  BY <1>1, <1>23
     DEF RequestExit, InDialog, ShownInv, Settled, Complete, appVars, diskVars
<1>24. CASE CancelExit
  BY <1>1, <1>24
     DEF CancelExit, InDialog, ShownInv, Settled, Complete, appVars, diskVars
<1>25. CASE ExitWithoutSaving
  <2>1. Stop /\ UNCHANGED store
    BY <1>1, <1>25 DEF ExitWithoutSaving
  <2>2. QED
    BY <1>1, <2>1, ShownAfterStop DEF ShownInv
<1>26. CASE SaveAndExit
  <2>1. /\ doc \in Paths /\ WriteFor(doc, live)
        /\ live \in PartialSettings
        /\ Stop
    BY <1>1, <1>26 DEF SaveAndExit, TypeOK, Settings, PartialSettings
  <2>2. /\ store'[doc] = Entry(TRUE, live.bands, live.margins, Never)
        /\ \A q \in Paths \ {doc} : store'[q] = store[q]
    BY <1>1, <2>1, WriteFacts
  <2>3. \A p \in Paths : store'[p].hasSource => store'[p].kept
    BY <1>1, <2>2, EntryFields DEF ShownInv
  <2>4. QED
    BY <2>1, <2>3, ShownAfterStop
<1>27. CASE PlugOrUnplug
  BY <1>1, <1>27
     DEF PlugOrUnplug, InDialog, ShownInv, Settled, Complete, appVars, diskVars
<1>28. CASE ADayPasses
  <2>1. ASSUME NEW q \in Paths
        PROVE  /\ store'[q].hasSource = store[q].hasSource
               /\ store'[q].kept = store[q].kept
               /\ store'[q].bands = store[q].bands
               /\ store'[q].margins = store[q].margins
    <3>1. store[q] \in Entries
      BY <1>1 DEF TypeOK
    <3>2. QED
      BY <1>1, <1>28, <3>1 DEF ADayPasses, Entries
  <2>2. doc = Untitled \/ doc \in Paths
    BY <1>1 DEF TypeOK
  <2>3. UNCHANGED <<phase, doc, live, dialog, bandsBefore, abandoned>>
    BY <1>1, <1>28 DEF ADayPasses, appVars
  <2>4. QED
    BY <1>1, <2>1, <2>2, <2>3 DEF ShownInv, Settled, Complete
<1>29. CASE UNCHANGED vars
  BY <1>1, <1>29
     DEF vars, InDialog, ShownInv, Settled, Complete, appVars, diskVars
<1>30. QED
  BY <1>1, <1>2, <1>3, <1>4, <1>5, <1>6, <1>7, <1>8, <1>9, <1>10, <1>11, <1>12, <1>13, <1>14,
     <1>15, <1>16, <1>17, <1>18, <1>19, <1>20, <1>21, <1>22, <1>23, <1>24, <1>25, <1>26, <1>27, <1>28, <1>29
     DEF Next, Collecting, Documents, Dialogs, Leaving

\* Outside the dialogs, what is in view for a named document is what the next
\* session will find, unless the close button took a dialog away.
THEOREM ShownCorrect == Spec => []ShownIsStored
<1>1. Init => ShownInv
  BY EntriesTyped DEF Init, ShownInv
<1>2. TypeOK /\ ShownInv => ShownIsStored
  <2>1. SUFFICES ASSUME TypeOK, ShownInv, InDialog("None"), doc # Untitled,
                        ~ abandoned, Complete(store[doc])
                 PROVE  live = SettingsOf(store[doc])
    BY DEF ShownIsStored
  <2>2. /\ live.margins = store[doc].margins
        /\ live.bands = store[doc].bands
    BY <2>1 DEF ShownInv, Settled, InDialog
  <2>3. live = [bands |-> live.bands, margins |-> live.margins]
    BY <2>1 DEF TypeOK, Settings
  <2>4. QED
    BY <2>2, <2>3 DEF SettingsOf
<1>3. QED
  BY <1>1, <1>2, TypeCorrect, ShownStep, PTL DEF Spec
=============================================================================
