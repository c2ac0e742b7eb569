--------------------------- MODULE DocumentSettings ---------------------------
(***************************************************************************)
(* The settings a document has beside its text: the header and footer      *)
(* bands and the margins.  They live in the application, are edited by     *)
(* dialogs, and are kept from one session to the next in a store with one  *)
(* entry per path.  Every launch collects the entries of the documents     *)
(* that have been gone for long.                                           *)
(*                                                                         *)
(* The margins stand for every setting that is read only where the entry   *)
(* has its key (word wrap, word count).  The store is taken to be          *)
(* writable; a crash may strike at any time, also while an entry is        *)
(* written.  What is saved, and which question comes before a save or the  *)
(* end, is the subject of EditSession: here a save names its document.     *)
(***************************************************************************)
EXTENDS Integers, FiniteSets

CONSTANTS
  Paths, Untitled,          \* documents, in one directory
  Bands, NoBands,           \* header and footer contents; all slots off
  Margins, DefaultMargins,
  Absent,                   \* the value of a key an entry does not have
  Sidecars,                 \* what legacy .retroedit files there may be
  GraceDays

ASSUME DefaultsAssumption ==
  NoBands \in Bands /\ DefaultMargins \in Margins /\ Absent \notin Bands \cup Margins
ASSUME GraceAssumption == GraceDays \in Nat \ {0}

VARIABLES
  files,        \* which documents exist
  online,       \* the directory can be seen
  sidecars,     \* the .retroedit file next to each document, never touched
  store,        \* the entry of each path
  phase,        \* the program is stopped, collecting, or running
  toExamine,    \* the entries the collection has not come to
  doc,          \* m_document->Filename()
  live,         \* m_header, m_footer and m_margins
  dialog,       \* m_promptMode
  bandsBefore,  \* m_hfHeaderSnapshot, m_hfFooterSnapshot
  unseen,       \* of an entry: days since it was written or its file was found
  abandoned     \* the close button has taken the place of an open dialog

appVars  == <<doc, live, dialog, bandsBefore, abandoned>>
diskVars == <<files, online, sidecars>>
vars     == <<diskVars, store, phase, toExamine, appVars, unseen>>

-----------------------------------------------------------------------------
(***************************************************************************)
(* The store.  An entry has its document's path, without which it is taken *)
(* for corrupt, and first_missing_at: here the days since then, and Never  *)
(* for 0.  A count of days stops at GraceDays.                             *)
(***************************************************************************)
Never == -1

Entry(hasSource, bands, margins, missing) ==
  [kept |-> TRUE, hasSource |-> hasSource, bands |-> bands,
   margins |-> margins, missing |-> missing]

NoEntry == [Entry(FALSE, Absent, Absent, Never) EXCEPT !.kept = FALSE]

\* What FileSettings::Save leaves when it is cut short: the keys are written
\* in alphabetical order from one buffer, so that source_path is not there.
Torn == Entry(FALSE, Absent, Absent, Never)

ASSUME SidecarsAssumption ==
  Sidecars \subseteq [Paths -> [kept : BOOLEAN, hasSource : {FALSE}, missing : {Never},
                                bands : Bands \cup {Absent},
                                margins : Margins \cup {Absent}]]

SettingsOf(e) == [bands |-> e.bands, margins |-> e.margins]

Older(days) == IF days \in 0 .. GraceDays - 1 THEN days + 1 ELSE days

Seen(p) == unseen' = [unseen EXCEPT ![p] = 0]

\* The program ends, and takes what it had in memory with it.
Stop ==
  /\ phase' = "stopped"
  /\ toExamine' = {}
  /\ doc' = Untitled
  /\ live' = [bands |-> NoBands, margins |-> DefaultMargins]
  /\ dialog' = "None"
  /\ bandsBefore' = NoBands
  /\ abandoned' = FALSE

\* A power cut, or the process killed.
Crash ==
  /\ phase # "stopped" /\ Stop
  /\ UNCHANGED <<diskVars, store, unseen>>

\* FileSettings::Save, which truncates the file before it writes it.
Rewrite(p, e) == store' = [store EXCEPT ![p] = e]

CrashWhileWriting(p) == Rewrite(p, Torn) /\ Seen(p) /\ Stop

\* A bug to catch: the entry keeps the time its file was missed.
WriteForKeepsStamp(p, settings) ==
  Rewrite(p, Entry(TRUE, settings.bands, settings.margins, store[p].missing))
    /\ Seen(p)

WriteFor(p, settings) ==
  Rewrite(p, Entry(TRUE, settings.bands, settings.margins, Never)) /\ Seen(p)

-----------------------------------------------------------------------------
(***************************************************************************)
(* The collection at launch.                                               *)
(***************************************************************************)
Launch ==
  /\ phase = "stopped"
  /\ phase' = "collecting"
  /\ toExamine' = {p \in Paths : store[p].kept}
  /\ UNCHANGED <<diskVars, store, appVars, unseen>>

Corrupt(p) == ~ store[p].hasSource

\* A bug to catch: a file on a drive that is unplugged is taken for missed.
MissedWhileUnplugged(p) == ~ Corrupt(p) /\ ~ (online /\ files[p])

\* An entry is left alone while its directory cannot be seen.
Missed(p) == ~ Corrupt(p) /\ online /\ ~ files[p]

Examine(p) ==
  /\ phase = "collecting" /\ p \in toExamine
  /\ toExamine' = toExamine \ {p}
  /\ UNCHANGED <<diskVars, phase, appVars>>

\* The file is there, or nothing can be said, or the grace period runs.
Leave(p) ==
  /\ Examine(p)
  /\ ~ Corrupt(p)
  /\ \/ ~ online /\ UNCHANGED unseen
     \/ online /\ files[p] /\ store[p].missing = Never /\ Seen(p)
     \/ Missed(p) /\ store[p].missing \in 0 .. GraceDays - 1 /\ UNCHANGED unseen
  /\ UNCHANGED store

\* The stamp of an entry whose file is missed, or is there again.
NeedsStamp(p) ==
  /\ phase = "collecting" /\ p \in toExamine
  /\ ~ Corrupt(p) /\ online
  /\ files[p] <=> store[p].missing # Never

\* A bug to catch: the stamp is set and the entry not saved.
StampUnsaved(p) ==
  /\ NeedsStamp(p) /\ Examine(p)
  /\ IF files[p] THEN Seen(p) ELSE UNCHANGED unseen
  /\ UNCHANGED store

Stamp(p) ==
  /\ NeedsStamp(p) /\ Examine(p)
  /\ Rewrite(p, [store[p] EXCEPT !.missing = IF files[p] THEN Never ELSE 0])
  /\ IF files[p] THEN Seen(p) ELSE UNCHANGED unseen

StampCutShort(p) ==
  /\ NeedsStamp(p) /\ CrashWhileWriting(p)
  /\ UNCHANGED diskVars

Remove(p) ==
  /\ Examine(p)
  /\ Corrupt(p) \/ (Missed(p) /\ store[p].missing = GraceDays)
  /\ Rewrite(p, NoEntry)
  /\ Seen(p)

StartRunning ==
  /\ phase = "collecting" /\ toExamine = {}
  /\ phase' = "running"
  /\ UNCHANGED <<diskVars, store, toExamine, appVars, unseen>>

-----------------------------------------------------------------------------
(***************************************************************************)
(* The application.  A dialog is modal, but the window can be closed over  *)
(* it: the question that comes up takes its place.                         *)
(***************************************************************************)
InDialog(d) == phase = "running" /\ dialog = d

\* A bug to catch: a key that is not there is applied.
AppliedAsRead(settings) ==
  [bands   |-> settings.bands,
   margins |-> IF settings.margins = Absent THEN live.margins ELSE settings.margins]

\* ApplyFileSettings: the bands start from none, what else lacks its key stays.
Applied(settings) ==
  [bands   |-> IF settings.bands = Absent THEN NoBands ELSE settings.bands,
   margins |-> IF settings.margins = Absent THEN live.margins ELSE settings.margins]

\* A document that has no entry and no sidecar keeps the settings in view.
SettingsAtOpen(p) ==
  IF store[p].kept THEN Applied(SettingsOf(store[p]))
  ELSE IF sidecars[p].kept THEN Applied(SettingsOf(sidecars[p]))
  ELSE live

Migrates(p) == ~ store[p].kept /\ sidecars[p].kept

CanOpen(p) == InDialog("None") /\ online /\ files[p]

OpenFile(p) ==
  /\ CanOpen(p)
  /\ doc' = p
  /\ live' = SettingsAtOpen(p)
  /\ abandoned' = FALSE
  /\ IF Migrates(p) THEN WriteFor(p, SettingsOf(sidecars[p]))
                    ELSE UNCHANGED <<store, unseen>>
  /\ UNCHANGED <<diskVars, phase, toExamine, dialog, bandsBefore>>

MigrationCutShort(p) ==
  /\ CanOpen(p) /\ Migrates(p) /\ CrashWhileWriting(p)
  /\ UNCHANGED diskVars

NewFile ==
  /\ InDialog("None")
  /\ doc' = Untitled
  /\ live' = [live EXCEPT !.bands = NoBands]
  /\ abandoned' = FALSE
  /\ UNCHANGED <<diskVars, store, phase, toExamine, dialog, bandsBefore, unseen>>

\* WriteSidecarForCurrentDocument, by what doc' and live' are.
WriteSidecar ==
  IF doc' = Untitled THEN UNCHANGED <<store, unseen, abandoned>>
  ELSE WriteFor(doc', live') /\ abandoned' = FALSE

\* Save and Save As.
SaveAs(p) ==
  /\ InDialog("None") /\ online
  /\ doc' = p
  /\ files' = [files EXCEPT ![p] = TRUE]
  /\ UNCHANGED <<online, sidecars, phase, toExamine, live, dialog, bandsBefore>>
  /\ WriteSidecar

SaveCutShort(p) ==
  /\ InDialog("None") /\ online
  /\ files' = [files EXCEPT ![p] = TRUE]
  /\ CrashWhileWriting(p)
  /\ UNCHANGED <<online, sidecars>>

\* Header and footer: the bands change as they are edited, behind the dialog.
OpenHeaderFooterDialog ==
  /\ InDialog("None")
  /\ dialog' = "HeaderFooter"
  /\ bandsBefore' = live.bands
  /\ UNCHANGED <<diskVars, store, phase, toExamine, doc, live, abandoned, unseen>>

EditBands(bands) ==
  /\ InDialog("HeaderFooter")
  /\ live' = [live EXCEPT !.bands = bands]
  /\ UNCHANGED <<diskVars, store, phase, toExamine, doc, dialog, bandsBefore,
                 abandoned, unseen>>

\* The snapshot has no use any more, and is forgotten.
LeaveHeaderFooterDialog ==
  /\ InDialog("HeaderFooter")
  /\ dialog' = "None"
  /\ bandsBefore' = NoBands
  /\ UNCHANGED <<diskVars, phase, toExamine, doc>>

CommitHeaderFooter ==
  /\ LeaveHeaderFooterDialog
  /\ UNCHANGED live
  /\ WriteSidecar

\* A bug to catch: Esc only closes the dialog.
CancelWithoutRestoring ==
  /\ LeaveHeaderFooterDialog
  /\ UNCHANGED <<live, store, abandoned, unseen>>

CancelHeaderFooter ==
  /\ LeaveHeaderFooterDialog
  /\ live' = [live EXCEPT !.bands = bandsBefore]
  /\ UNCHANGED <<store, abandoned, unseen>>

\* Margins: the dialog edits a copy.
OpenMarginsDialog ==
  /\ InDialog("None")
  /\ dialog' = "Margins"
  /\ UNCHANGED <<diskVars, store, phase, toExamine, doc, live, bandsBefore,
                 abandoned, unseen>>

LeaveMarginsDialog ==
  /\ InDialog("Margins")
  /\ dialog' = "None"
  /\ UNCHANGED <<diskVars, phase, toExamine, doc, bandsBefore>>

CommitMargins(margins) ==
  /\ LeaveMarginsDialog
  /\ live' = [live EXCEPT !.margins = margins]
  /\ WriteSidecar

CancelMargins ==
  /\ LeaveMarginsDialog
  /\ UNCHANGED <<live, store, abandoned, unseen>>

DialogWriteCutShort ==
  /\ phase = "running" /\ dialog \in {"HeaderFooter", "Margins"} /\ doc # Untitled
  /\ CrashWhileWriting(doc)
  /\ UNCHANGED diskVars

RequestExit ==
  /\ phase = "running"
  /\ dialog' = "ConfirmExit"
  /\ bandsBefore' = NoBands
  /\ abandoned' = (abandoned \/ (dialog = "HeaderFooter" /\ live.bands # bandsBefore))
  /\ UNCHANGED <<diskVars, store, phase, toExamine, doc, live, unseen>>

CancelExit ==
  /\ InDialog("ConfirmExit")
  /\ dialog' = "None"
  /\ UNCHANGED <<diskVars, store, phase, toExamine, doc, live, bandsBefore,
                 abandoned, unseen>>

ExitWithoutSaving ==
  /\ InDialog("ConfirmExit") /\ Stop
  /\ UNCHANGED <<diskVars, store, unseen>>

\* Without a name the question goes on to Save As, and a save before the end.
SaveAndExit ==
  /\ InDialog("ConfirmExit") /\ online /\ doc # Untitled
  /\ files' = [files EXCEPT ![doc] = TRUE]
  /\ WriteFor(doc, live)
  /\ Stop
  /\ UNCHANGED <<online, sidecars>>

-----------------------------------------------------------------------------
(***************************************************************************)
(* The world outside: files come and go, a drive is unplugged, days pass.  *)
(***************************************************************************)
DeleteOrRestore(p) ==
  /\ online
  /\ files' = [files EXCEPT ![p] = ~ files[p]]
  /\ UNCHANGED <<online, sidecars, store, phase, toExamine, appVars, unseen>>

PlugOrUnplug ==
  /\ online' = ~ online
  /\ UNCHANGED <<files, sidecars, store, phase, toExamine, appVars, unseen>>

ADayPasses ==
  /\ store' = [p \in Paths |-> [store[p] EXCEPT !.missing = Older(@)]]
  /\ unseen' = [p \in Paths |-> IF store[p].kept THEN Older(unseen[p]) ELSE 0]
  /\ UNCHANGED <<diskVars, phase, toExamine, appVars>>

-----------------------------------------------------------------------------
Init ==
  /\ files \in [Paths -> BOOLEAN]
  /\ online = TRUE
  /\ sidecars \in Sidecars
  /\ store = [p \in Paths |-> NoEntry]
  /\ phase = "stopped"
  /\ toExamine = {}
  /\ doc = Untitled
  /\ live = [bands |-> NoBands, margins |-> DefaultMargins]
  /\ dialog = "None"
  /\ bandsBefore = NoBands
  /\ unseen = [p \in Paths |-> 0]
  /\ abandoned = FALSE

Collecting(p) == Leave(p) \/ Stamp(p) \/ StampCutShort(p) \/ Remove(p)

Documents(p) ==
  \/ OpenFile(p) \/ MigrationCutShort(p)
  \/ SaveAs(p) \/ SaveCutShort(p)

Dialogs ==
  \/ OpenHeaderFooterDialog \/ CommitHeaderFooter \/ CancelHeaderFooter
  \/ \E bands \in Bands : EditBands(bands)
  \/ OpenMarginsDialog \/ CancelMargins
  \/ \E margins \in Margins : CommitMargins(margins)
  \/ DialogWriteCutShort

Leaving == RequestExit \/ CancelExit \/ ExitWithoutSaving \/ SaveAndExit

Next ==
  \/ Launch \/ StartRunning \/ Crash
  \/ NewFile
  \/ \E p \in Paths : Collecting(p) \/ Documents(p) \/ DeleteOrRestore(p)
  \/ Dialogs
  \/ Leaving
  \/ PlugOrUnplug
  \/ ADayPasses

Spec == Init /\ [][Next]_vars

\* Time goes on; nothing else has to happen.
FairSpec == Spec /\ WF_vars(ADayPasses)

-----------------------------------------------------------------------------
Settings == [bands : Bands, margins : Margins]

\* What an entry or a sidecar may have of them.
PartialSettings == [bands : Bands \cup {Absent}, margins : Margins \cup {Absent}]

Entries ==
  [kept : BOOLEAN, hasSource : BOOLEAN, bands : Bands \cup {Absent},
   margins : Margins \cup {Absent}, missing : {Never} \cup 0 .. GraceDays]

\* The state of the disk and of the program is of its kind: no count of days
\* leaves its range, and only one dialog is up (DocumentSettingsStore.cpp:114).
TypeOK ==
  /\ files \in [Paths -> BOOLEAN] /\ online \in BOOLEAN
  /\ sidecars \in Sidecars
  /\ store \in [Paths -> Entries]
  /\ phase \in {"stopped", "collecting", "running"}
  /\ toExamine \in SUBSET Paths
  /\ doc \in Paths \cup {Untitled}
  /\ live \in Settings
  /\ dialog \in {"None", "HeaderFooter", "Margins", "ConfirmExit"}
  /\ bandsBefore \in Bands
  /\ unseen \in [Paths -> 0 .. GraceDays]
  /\ abandoned \in BOOLEAN

\* The stamp of an entry is never older than the last sign of its file: no
\* file is charged with days on which it was seen (:148-167, and WriteFor :97).
StampWithinUnseen ==
  \A p \in Paths : store[p].kept => store[p].missing <= unseen[p]

Expired(p) == unseen[p] = GraceDays /\ online /\ ~ files[p]

\* What the store keeps for a document is changed only while the document is
\* open, by a crash in the middle of writing it, or when its file is missed
\* and nothing was seen of it for the whole grace period.
SettingsLastUntilGrace ==
  [][\A p \in Paths :
       /\ store[p].kept /\ store[p].hasSource
       /\ SettingsOf(store'[p]) # SettingsOf(store[p])
       => \/ phase = "running" /\ p \in {doc, doc'}
          \/ phase' = "stopped" /\ store'[p] = Torn
          \/ phase = "collecting" /\ Expired(p)]_vars

Complete(e) == e.hasSource /\ Absent \notin {e.bands, e.margins}

\* Outside the dialogs, what is in view for a named document is what the store
\* has for it, so that the next session finds it again: through every edit,
\* cancelled edit, save, migration and change of document.  Not so once the
\* close button has taken the header and footer dialog away.
ShownIsStored ==
  InDialog("None") /\ doc # Untitled /\ ~ abandoned
    => (Complete(store[doc]) => live = SettingsOf(store[doc]))

\* Once a file is gone for good, and its directory in view, its entry is
\* collected, if the program is started and left again and again.
EventuallyCollected ==
  \A p \in Paths :
    /\ <>[](online /\ ~ files[p] /\ doc # p)
    /\ []<>(phase = "running")
    /\ []<>(phase = "stopped")
    => <>[](~ store[p].kept)

\* The document opened next does not show the bands of the one before: a
\* document the program has no settings for has none.
BandsNeverLeak ==
  [][\A p \in Paths :
       phase = "running" /\ dialog = "None" /\ dialog' = "None" /\ doc # p /\ doc' = p
       /\ UNCHANGED files /\ ~ store[p].kept /\ ~ store'[p].kept
       => live'.bands = NoBands]_vars
=============================================================================
