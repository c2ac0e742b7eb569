# A verification of RetroDocWriter

RetroDocWriter is a WYSIWYG document writer: an SDL window, one document, an
event loop that hands every key, mouse event and prompt to `Application`. This
directory holds TLA+ modules translated from its source, the TLC configurations
that check them on small instances, and TLAPS proofs for every instance.

Paths below are relative to the repository (`src/src/app/Application.cpp` is
written `Application.cpp`, and so on).

## 1. The system

There is one thread. What makes the program hard is not parallelism but
*protocol*: about thirty prompt modes stand between a command and its effect,
the operating system delivers mouse motion, releases and close requests
whatever prompt is up, files fail to be written half-way through a command, and
several pieces of state are kept in step by hand (five parallel vectors per
document, two parallel stacks of snapshots and versions, a dirty bit and a save
point, a flag that says a typing run is going on).

| component | state | operations | what makes it correct |
|---|---|---|---|
| `RichUndoHistory` | undo and redo stacks of snapshots, a parallel version stack for each, counter, live and saved version | PushEdit, Undo, Redo, ClearAll, MarkSaved, IsAtSavedState | a version names one reachable state; the saved version is the state on disk; never more than MAX_DEPTH snapshots |
| `FormattedTextBuffer` over `TextBuffer` | lines; per line a row of formats, page break, alignment, list level; floats anchored to rows; columns | character and range edits, newline, joins, paste, styles, paragraph state, SetLines | the vectors stay parallel; every character keeps its format; every float stays on a row |
| `RichFileDocument` | the buffer, file name, dirty bit | Load, Save, SaveAs | a clean document is what its file holds |
| `RtfWriter`, `RtfReader` | what was last emitted, what was last read | write, read | a document saved and opened again is itself |
| `Application`: commands | caret, selection, typing-run flag, float drag | typing, editing, style, insert, drag, undo, redo | each edit gesture is one undo step; undo clears the dirty bit only over what is on disk |
| `Application`: prompts | prompt mode, pending path, exit-after-save, running | Save As, Open, New, Exit and their questions, the file browser | no file written over unasked; the work not lost unasked; the intent to exit ends with its chain of prompts |
| caret, selection, clipboard, find (`Selection.h`, key handlers) | anchor, caret | keys, mouse, cut, paste, find | caret and anchor stay in the text and between codepoints; cut and paste are inverse; find comes to every match |
| `DocumentSettingsStore`, `FileSettings` | one ini file per document, first-missing stamps | read, write, collect, migrate | no settings lost within the grace period, none kept for ever; what is shown is what is stored |
| `ListNumber.h` | none | labels of a document | agrees with the outline |
| header/footer and margins dialogs | a snapshot while the dialog is open | live edit, commit, cancel | cancel restores, however the dialog is left |
| menus, theme, font, color, find, dictionary | prompt text, tables | choose, search, add and remove words | - |
| word wrap, pagination, word count | none | pure | - |
| renderer, glyph and image caches, `RetroUi`, printing, platform | textures, cells | drawing, GDI, directory listing | outside the scope: drawing and operating-system calls |
| `UndoHistory` (plain) | two stacks | - | unused by the application |

How they interact: a key handler calls `PushUndoBeforeEdit` (or
`EnsureUndoBeforeInsert` inside a typing run), then a mutator of the buffer, then
`MarkDirty`. Undo hands the live buffer to the history, installs what it
returns with `SetLines` and `SetFloats`, and asks `IsAtSavedState` whether to
clear the dirty bit. A save writes the buffer through `RichFileDocument`, and
calls `MarkSaved` when that reports success. New and Open replace the document
and call `ClearAll`. Every one of these calls is made by hand at each site,
about thirty of them, which is where the hazards lie.

## 2. The modules

| module | stands for | composed of |
|---|---|---|
| `RichUndoHistory` | `RichUndoHistory.cpp`: the stacks, versions and save point, as operations | - |
| `SavePoint` | the history with a caller that keeps to its contract | `RichUndoHistory` |
| `EditTimeline` | abstract: one line of states, a position, a saved mark | - |
| `RichDocument` | the document, its file name, its dirty bit, the disk | - |
| `EditSession` | the commands and prompts of `Application.cpp` | `RichUndoHistory`, `RichDocument` |
| `TextBuffer`, `FormattedTextBuffer` | the two layers' mutators, as operators on lines and on a buffer record | - |
| `BufferLayers` | a buffer under the application's edits | `FormattedTextBuffer` |
| `StyledText` | abstract: a sequence of paragraphs with their cells | - |
| `CaretEditing` | caret, selection, clipboard, find and every editing key | `FormattedTextBuffer` |
| `DocumentSettings` | the settings store, its collection at launch, and the two dialogs that edit what it holds | - |
| `RtfFormat` | the RTF writer and reader | `FormattedTextBuffer` |
| `ListNumbers` | `ListNumber.h`, and what a reader counts | `FormattedTextBuffer` |
| `SavedDocument` | a document built up, saved, opened and numbered | `BufferLayers`, `RtfFormat`, `ListNumbers` |
| `MCSavePoint`, `MCEditSession`, `MCBufferLayers`, `MCCaretEditing`, `MCDocumentSettings`, `MCSavedDocument` | instances for TLC, and the refinement mappings | |
| `RichUndoHistoryProofs`, `SavePointProofs`, `EditSessionProofs`, `TextBufferProofs`, `BufferLayersProofs`, `CaretEditingProofs`, `DocumentSettingsProofs`, `SavedDocumentProofs` | the theorems, section 4 | |

### RichUndoHistory and SavePoint

The seven variables are the seven members. `PushEdit` is one action with the
eviction inside it, as in the code: push snapshot and version, drop the oldest
of both when there were MAX_DEPTH already, clear both redo stacks, move the live
version to a fresh one. `Undo` and `Redo` move one snapshot across and file the
live state under the live version; the caller installs `UndoTarget`.
`ClearAll` resets the counter too, so versions start over with each document.
The code's counter is 32 bits wide; 2^32 edits of one document are not modelled.

`SavePoint` adds a live buffer and what is on disk. Its `Edit` pushes before it
changes, `Save` follows a successful write, `Load` clears: the contract that the
header's comment describes. An edit may leave the buffer as it was (a click on a
float pushes and changes nothing).

The mapping to `EditTimeline` reads the undo stack, the live buffer and the redo
stack from its top as one line; the saved mark is where the saved version lies.

### RichDocument and EditSession

A document is told apart by four things, because the code treats them
differently: *text* (how much), *styled* (character formats and lists, which
flattening clears), *float* (floats, page breaks and alignment, which snapshots
and .rtf files keep and flattening does not clear), *columns* (which .rtf files
keep and snapshots do not). An .rtf file holds all four, a .txt file the text.

`WriteDocument` covers `Save` and `SaveAs`. A write may end in four ways: *ok*;
*cannotOpen*; *writeError*, after the file was opened with `trunc`, which the
RTF writer reports and the plain writer does not look at; *closeError*, seen
only when the stream's destructor closes it, which nobody reports. A file whose
write failed holds nothing; a part of it would be no better.

`EditSession` has one action per handler. `prompt` is `m_promptMode`, for the
modes that lead to a file, to another document or out of the program; the two
modes of the file browser are one mode in the code, told apart by what it was
opened for. `Editing` is the main key handler's condition, no prompt up;
`RequestExit` (the window's close button) and the two float actions are possible
whatever prompt is up, as the event loop has it. `Commands` selects groups of
commands a run makes use of, so that a run can leave out what its property is
known to fail with; every group is exercised by `session_faults`.

### TextBuffer, FormattedTextBuffer and BufferLayers

Each mutator is an operator from a buffer to a buffer, so that it can be used
wherever the code calls it; the clamps and early returns are the code's. Rows
count from 1, columns from 0. The order of the code matters in `InsertText`: it
pads the formats to the length the line has *after* the insertion, and inserts
the formats of the pasted characters as well.

`BufferLayers` applies them at every caret and over every ordered selection.
`StyledText` has no vectors: paragraphs with cells, an edit acts on paragraphs.

### CaretEditing

A character of a line is a byte here, as it is in the code; a codepoint outside
ASCII is a lead byte and one continuation byte. `Move` is every key, click and
drag that changes no text and keeps to codepoints, `MoveVertically` the four
keys that do not, `Edit` every key that changes the text, with what it does to
the selection first. `anchor` is `None` where `m_selection` is not active; an
active selection may be empty, which the code's `HasSelection` tests overlook.
The formats are emptied after every step (nothing here reads them), lines do
not wrap, undo and floats are the subject of `EditSession`. A click may give any
column the renderer may give: the boundaries of codepoints and the line's end.

### DocumentSettings

One entry per document, with its bands, its margins (which stand for every key
that is read only where it is there), whether it has its `source_path`, and
`first_missing_at` as the number of days since, capped at the grace period.
A launch collects entry by entry, in any order (the directory's), and may crash
between two; a write truncates the entry first, and a crash in the middle leaves
one without its path. Around the program the files are deleted and restored, the
drive is unplugged, and days pass. `unseen` and `abandoned` observe: the days
since an entry's file gave a sign, and that the close button has replaced an open
dialog. Opening a document migrates its sidecar, and applies what there is.

### RtfFormat, ListNumbers and SavedDocument

The writer turns a buffer into a sequence of words and characters. It emits a
word only where what it last emitted differs from what is wanted; the reader
goes through the words with its own sticky state (`Run`). They must agree on what
each word resets, `pard` above all. `SavedDocument` builds documents with the
mutators of `BufferLayers` and asks, in every state, what a save and an open
make of it, and what numbers its lists show. `Siblings` counts what a reader of
the list would count, without counters or resets.

## 3. The runs

### Passing

| run | instance | shows |
|---|---|---|
| `save_point` | MaxDepth 3, 5 versions, 3 contents | the version scheme, the memory bound, the save point, and the refinement of `EditTimeline` |
| `session_rich` | two .rtf files, floats, open, new; writes may fail to open | clean means saved; the program ends with the work on disk or discarded at the user's word; the session implements `SavePoint` |
| `session_plain` | one .rtf, one .txt, styles; no faults | clean means saved for plain files too, and a clean plain document shows no formatting |
| `session_faults` | every command, every fault, one version | the intent to exit and the path to overwrite never go stale, and no file is written over unasked |
| `buffer_edits` | 3 rows, 2 characters, 3 formats kept, 2 list levels, 1 float; pastes of 1 and 2 lines | vectors parallel, every character has a format, every float has a row; from a buffer without surplus formats every edit is an edit of `StyledText` |
| `caret_editing` | 2 rows, 3 bytes, a two-byte codepoint, lists of 2 levels, queries of 1 and 2 bytes | caret and anchor stay in the text, edits use the selection up, no codepoint is split; Paste puts back what Cut took; Find comes to every match |
| `document_settings` | 2 documents, one with a partial sidecar; 2 bands, 2 margins; 1 day of grace | settings last until the grace period is over, no stamp is older than the file's absence, what is shown is what is stored; the entry of a file gone for good is collected |
| `rtf_round_trip` | 4 rows, 4 marks (characters, floats, breaks, alignments, list levels), 2 formats, a tab | saved and opened, a document is itself but for the losses that `Kept` names; list numbers count siblings and increase |

Bounds and why they are enough:

- *save_point*: five versions overflow a history of three, undone at any point
  and branched again; three contents tell the live, the saved and another state
  apart. `MaxVersions` bounds the undo steps pushed between two clears.
- *sessions*: MaxDepth of 1 or 2 makes eviction happen. Two files give an open
  file and one to write over. `session_faults` is about prompts, for which one
  version will do.
- *buffer_edits*: three rows are the least in which an edit has a row above, at
  and below it; a range over all three has a row strictly inside. One float is
  enough for anchors, since the code renumbers each alone. Alignment and list
  level are edited by code of one shape; the run varies the level. A third
  format is what two pastes of a character leave in excess.
- *caret_editing*: three bytes hold a codepoint and a neighbour on either side
  or on the other row; two rows have a first, a last and a join; the list
  depth of 2 has a level between. Properties of one step start from every state
  within the bounds.
- *document_settings*: one document open and one not; one day of grace has an
  entry unstamped, stamped and expired. The proofs cover every grace period.
- *rtf_round_trip*: four rows let a row with a property be between two without
  and be followed by one more; the sticky state of both sides depends on the row
  before and on the last character, which may be one row further up.

Fairness. The editor owes nothing by itself, it waits for its user. The one
obligation that lasts is the collection of settings: `FairSpec` has weak fairness
of `ADayPasses` only, since time does go on. That the program is launched and
left again and again, and that the file stays gone with its directory in view,
are premises of `EventuallyCollected`, and not fairness of the specification.

`CHECK_DEADLOCK FALSE` is set where the system really may stop: a session ends
on exit, and a buffer at its bounds has no further insertion. `save_point`,
`document_settings` and `settings_leak` check for deadlock.

### Violations

Each is a short behaviour of the program in which it does not do what its own
comments say.

| run | what happens |
|---|---|
| `typing_across_save` | type, save, type on: the second character joins the run of the first and changes the buffer under the saved version. Undo and redo come back to a "saved" state that is not on disk, and closing asks nothing |
| `failed_save_as_plain` | a failed Save As to .txt has flattened a clean document, which stays clean |
| `paste_misaligns` | a paste leaves surplus formats at the end of a row, and a later join gives them to the next row's characters |
| `settings_leak` | a document with no settings is opened after one with a header and shows that header, which its next save stores |

Other values of the constants in these configurations show relatives of them:

- `TypingAcrossSave.cfg` with `Commands = {"columns"}`: columns are in no
  snapshot and push no version, so undo to the saved version clears the dirty
  mark over unsaved columns; with `{"float", "drag"}`: Ctrl+Z while a float is
  dragged, and the drag goes on at the restored version; with `{}` and `Faults =
  {"writeError"}`: a failed save has truncated the file, and an undo to the state
  saved before clears the dirty mark.
- `FailedSaveAsPlain.cfg` with `Faults = {"writeError"}` and `Commands = {}`: a
  plain save does not look at its stream, and a truncated file is marked saved.
- `SessionPlain.cfg` with `Commands = {"float"}`: flattening keeps floats, page
  breaks, alignment and columns, so a clean .txt shows what its file lacks.

This is also why `session_rich` and `session_plain` leave out the typing run, the
drag, the columns dialog and some faults: with them the properties do fail, in
the ways listed above.

### What else the models show

These are in the models, and stated as the exception in a property or in a
comment, without a run of their own:

- Open keeps `m_lastActionWasInsert`: what is typed into the new file first
  cannot be undone, where `README.md:31` has undo of every edit.
- Up and Down take one of two columns at the same distance, Page Up and Page Down
  clamp to a length in bytes: the caret may stop inside a codepoint, where
  `Application.cpp:2637` says it "always lands on a lead byte". Edits from there
  split it.
- Shift with two opposite arrows leaves a selection active and empty, which
  `Application.cpp:2145` says a click avoids; no edit clears it, and its anchor
  may then be outside the text.
- A last row without text loses its break, alignment and list on each save and
  open, so that a write after a read is not always the same text
  (`src/tests/test_rtf_roundtrip.cpp:69`, `README.md:25`); tabs and other control
  characters are dropped, floats come back in the order of their rows, and a
  format pinned to what the document has anyway comes back unpinned.
- A number under a bullet, or below a level that was skipped, takes 1 for the
  parent that is not there; two such items may show the same number.
- Closing the window over the header and footer dialog, and answering No, leaves
  its uncommitted edits in view (`abandoned`).
- A crash while an entry is rewritten loses it: the next launch takes the entry
  without a path for corrupt.
- New keeps the margins of the document before it.
- A file that is restored and deleted again between two launches is charged with
  the days from its first absence.

## 4. What is proved

Every theorem is for all values of the constants under the named assumptions of
its module, which TLC evaluates in the runs. `TextsAssumption` says that Tab
inserts typed characters, a text has a line, and nothing searches for nothing.

**`RichUndoHistoryProofs`**: lemmas on what a push, a push on a full stack, an
undo and a redo do to the two pairs of stacks, and on which snapshots they leave
filed under which version; used by the proofs of `SavePoint` and of `EditSession`.

**`SavePointProofs`** (`SavePoint`; every MaxDepth of at least 1, every non-empty
set of contents): `TypeCorrect`, `VersionNamesOneState`, `MemoryBounded`,
`SavePointTrusted`. The statement that matters, "at the saved version the buffer
is what is on disk", is not inductive: an undo installs a snapshot, so the
snapshots must match the disk as well wherever they carry the saved version; a
save gives the live version to the disk, so no snapshot may carry it with another
content; and a push takes a version from the counter, so all versions must lie
at or below it. `IInv` is the conjunction of the four, one lemma per action.
`LostForGood` is the action property that a saved state once out of reach stays
out: then the versions in reach are versions of another set, the lemmas on typed
stacks keep them in it, and a fresh version is above the lost one.

`HistoryIsTimeline`, in the same module: the history implements `EditTimeline`. Undo and redo leave the line of states and the line of versions
as they are and move the position; an edit cuts both lines and appends to them.
That the mark follows its state rests on `VersionsUnique` from `IInv`: the saved
version is at most once on the line, so the mark is the place of it, and an edit's
fresh version is not the saved one.

**`EditSessionProofs`** (`EditSession`; every set of paths, commands and faults):

- `TypeCorrect`, with `PlainQuestion` as the strengthening: the question about
  a plain file is asked of a plain document, and so a save that goes on from it
  has a path;
- `ExitIntent`: the exit flag is set only in the chain of prompts it began in.
  The strengthening `ExitQuestion` says the exit question stands over a dirty
  document only, whatever happens while it is up;
- `OverwriteAsked`: an action property, from `TypeOK`.

For a session that is `Disciplined` (no typing runs, no drags, no plain files, no
write that fails after truncating; the choice of `session_rich`), which the
violations of section 3 show to be needed:

- `SessionKeepsContract`: the session implements `SavePoint` step by step, with
  `SnapshotOf(buf)` as the live content;
- `CleanIsSaved` and `ExitSavesWork`: with `SavePointTrusted` read through that
  refinement, an unmarked document is what its file holds, and the program ends
  with the work on disk unless told to discard it. `SavedInv` adds that the dirty
  mark goes by the versions, and that the document's name is a file that can be
  read. `Uncolumned` leaves out the columns dialog, which snapshots overlook.

For a session of `CharactersOnly` (nothing that flattening leaves in place: no
floats, page breaks, alignment or columns), with typing runs and with writes that
fail in every way, which is more than `session_plain` lets TLC explore:

- `PlainViewFlat`: a clean plain document has no formats in view. `FlatInv` says
  that whatever carries the saved version of a plain document is flat. A save
  gives the live version to a flat buffer; that no snapshot has that version too
  comes from `VersionNamesOneState`: a session in which anything may happen, told
  apart by its versions alone (`Numbers`: every snapshot taken for the same one), is
  a `SavePoint`. A write that fails flattens the buffer under its version, which
  the invariant allows, as it asks for no formats, not for a content.

**`TextBufferProofs`** (`TextBuffer`, `FormattedTextBuffer`): what cutting,
splicing, padding, splitting, joining and pasting return, for every set of
characters. The lemmas on lines take a set W that is closed under what the
editor does to lines; it stands for all sequences of bytes, and again for the
UTF-8 ones. Also here are the facts on `FindNext` and on places: a set of numbers
has a least element (from the well-foundedness of Nat in the library), which
is the form induction has to take here, so each inductive argument speaks of the set of its
counterexamples.

**`BufferLayersProofs`** (`BufferLayers`; every set of characters, formats and
pastes, any number of rows and floats): `LayersStayParallel`,
`EveryCharacterFormatted`, `FloatsStayOnRows`. The inductive invariant `Sound` is
a typed buffer with at least one row, whose formats cover its text (`Covers`: as
many rows, and none shorter than its text; longer is what a paste leaves) and
whose paragraph vectors and anchors fit the rows (`ParagraphState`). There is a
lemma for each mutator that it keeps `Sound`.

`AlignedEditsAreStyled`, in the same module under the mapping of `MCBufferLayers`:
the buffer implements `StyledText` wherever no row has more formats than characters. That premise is about the state an edit starts
from, and it is needed: `paste_misaligns` shows an edit without it.

- The invariant is `Sound` with `Bytes`: a list byte is a level with or without
  the numbered flag, so that no edit makes one `StyledText` does not have.
- A row and its formats are read together (`Zip`), and one lemma each says what
  taking, dropping, joining and splicing them does to the cells. From these come
  the rows an edit makes; `LayersKept` says that all five vectors leave the rows
  around them as they were, `TextSpliced` puts the two together, and there is
  one lemma per mutator with the text it leaves (`TypedText`, `JoinedText`,
  `DeleteRangeCuts`, `NewlineText`, `PastePartsText`, `FormatText` and so on).
- A join renumbers anchors one by one, `StyledText` adds the floats of the
  paragraphs that go. The two agree by `FloatsAdded`, an induction on the last of
  these paragraphs in the form just described: no least one for which they differ.
- An edit with no effect, and the installing of a snapshot, which has its layers cut
  to the text, leave an aligned buffer as it is: stutters of `StyledText`.
  `AlignedStep` has a case for each action of `Next`.

**`CaretEditingProofs`** (`CaretEditing`; every alphabet, clipboard, file and
query, any number of rows and bytes): each property of `caret_editing`.

- `TypeCorrect`, from `IInv`: the buffer is `Sound` for lines of bytes, caret and
  anchor are places of some text. It does not ask them to be in this text: the
  edits overlook a selection that is active and empty, and its anchor stays.
- `PlacesStay` and `SelectionUsedUp`: action properties, one lemma per key.
- `CodepointsWhole`: the same lemmas once more with the lines that are UTF-8 for W.
  The hypothesis `TextsAreUtf8` says so of what is pasted, opened and searched
  for; with other bytes on the clipboard a caret can be left in a codepoint.
- `CutPastes`: what `Copied` takes out of a text is what `Spliced` puts back.
- `FindReaches`: a search goes to the first match ahead, or to the first of all
  (`SearchMoves`). Were a match m never reached or overlapped, no search could
  pass it, so searches from a place before it would come to ever later matches
  before m, more of them than there are matches.

**`DocumentSettingsProofs`** (`DocumentSettings`; every set of documents,
settings and sidecars, every grace period, with crashes): `TypeCorrect`,
`StampsCorrect`, `SettingsLast` (from the stamps: an entry is collected only with
a stamp as old as the grace period, which is no older than the file's absence)
and `ShownCorrect`, strengthened by `ShownInv`: in the dialogs, what Cancel
restores is what is stored, and an entry with a path is an entry.

**`SavedDocumentProofs`** (`SavedDocument`; documents of any size; the hypothesis
`LevelsCounted` is that lists are as deep as Tab and an opened file can make
them, which is as deep as the counters and the reader go):

- `RoundTrip`: `RoundTripKeeps` for every document. The state of the reader is
  written out for every place of a document (`State`): rows above closed, one
  open, the sticky format, alignment and list. `StartOf` and `EndOf` are the
  states that the writer counts on before and after a row. There is a lemma for
  each group of words (`ListRun`, `AlignmentRun`, `ShapesRun`, `TextRun`,
  `EndRun`), with a case for the words left out; `RowRun` goes from a row to the
  next, where the hard parts are that `pard` resets what the alignment is compared
  with and that the current format comes from a row further up (`CurrentCarries`).
  What is read in parts is read as a whole (`RunsFlat`, by induction over the
  parts that `FlattenSeq` joins). That the i-th character shown has one column, and
  the i-th float one row, is counting (`ShownHere`, `FloatHere`). The end of the
  file drops the row without text, and moves its floats (`FinalizeCuts`).
  `FormatsAssumption` is that a format is a record of the five fields of
  `CharFormat`. The invariant is `BuiltInv`, which is `Sound` with `Bytes`.

- `CountedAsRead`: the counters that `ComputeNumberedLabels` passes from row to
  row are, level by level, how many siblings a reader sees (`Tally`). A row
  outside lists has none, a bullet changes none, a number is one more of its
  own level and the end of those below (`CountTally`); that the recursive function
  of the model is the tally follows by induction on the rows (`PassesTally`).
- `NumbersGrow`: of the numbered rows between two items, let m be the
  highest level. Above m both count the same siblings, and at m the later one counts
  one more, which shows, as the earlier item had its parents.

Only model-checked: liveness (`EventuallyCollected`), which is beyond the prover, as
ENABLED is. Every other property of the passing runs is a theorem. The library's
induction theorems have an operator for a parameter, which the prover cannot
instantiate: an induction here is about a set of numbers, those for which a
statement holds (`InductiveSet`) or the least for which it fails (`Least`). No module
uses RECURSIVE operators; recursive functions get their equations from `CHOOSE`.

## 5. What is not modelled

- *Word wrap, pagination, word count*: pure functions of a line under unit tests;
  pagination rests on font metrics. `CaretEditing` takes lines as unwrapped.
- *Menus, theme, font and colour prompts, the print dialog*: they lead to commands
  that are modelled; their own state is focus and layout.
- *Dictionary*: a sorted table and two sets, written on every change.
- *Plain `UndoHistory`*: nothing uses it.
- *Rendering, caches, printing, directory listing, image decoding*: floating-point
  layout and operating-system calls. The columns a click may give are modelled.
- *SDL, its font library, doctest*: vendored; by far most of the lines here.
- Within modelled parts: of the RTF, spelling, the font and colour tables, the
  properties of a float (its caption's trailing blanks are trimmed), columns and
  words of other programs; of the caret, wrapped lines and case-insensitive
  search; of the session, several floats and which is selected, whose index is
  kept over undo and open; of the settings, a store that cannot be written
  (`WriteFor`'s result is ignored everywhere) and paths that are not canonical.

What would come next: several floats with the selection among them in
`EditSession`; caret and undo in one module; wrapped lines in `CaretEditing`.
