# Verification of the collection core: sync, undo, scheduling and the study queue

The repository is a fork of Anki, a flashcard program. Its logic is the Rust
library `rslib`; `pylib` and `qt` (desktop) and `ts` (web views) are its user
interface, and `feprep` builds decks and scores for an exam. What is hard to test
is where several devices, or long sequences of operations, share a collection.
This directory models those parts in TLA+, checks them with TLC, and proves the
invariants of the sync of collections and media, of undo, of scheduling and of the
exam order with TLAPS.

## 1. Inventory

Paths are below `src/rslib/src` unless they begin with another directory.

| Component | State | Operations | Hard behaviour | What makes it correct |
|---|---|---|---|---|
| Sync client: `sync/collection`, `backend/sync.rs` | `ClientSyncState`, an open transaction on the collection | `NormalSyncer::sync` (meta, start, applyGraves, applyChanges, chunk, applyChunk, sanityCheck2, finish, abort), full upload and download | requests lost, late or repeated by a later sync; the user's abort; the process ending; a failed sanity check | a session acts as one atomic exchange; nothing is marked as sent that the server does not have; every sync ends |
| Sync server: `sync/http_server` | `User`: the open collection with its transaction, `ServerSyncState` with the session key | the `SyncProtocol` handlers, `with_col`, `with_sync_state`, abort | a second device in the middle of a session; restarts; a crash inside `server_finish` | a foreign request changes nothing but what it may; an open transaction is never half stored |
| Sync data: `storage/{sync,graves,sync_check}`, merge functions | usn and mtime of each row, graves, the collection's usn, mod and scm | pending rows, merge by usn and mtime, deletions, sanity counts, `before_upload` | usn boundaries, equal mtimes, clocks that disagree, deletion against edit | every change is found and sent; both sides end with the same data; the later edit survives |
| Operations and undo: `collection/transact.rs`, `undo`, `*/undo.rs` | undo and redo stacks, current step, counter, collection mod | `transact`, `transact_no_undo`, undo, redo, custom steps, merge, coalescing | long mixed sequences; a day rolling over inside an undo; operations that fail; operations that skip the stack | undo and redo restore exactly what was there; a change is not hidden from the sync status |
| Study queue: `scheduler/queue` | main and intraday learning queues, counts, learning cutoff | get, answer, undo of an answer, redo | queues and collection may diverge after undo, redo and a new day | order and counts equal those of a rebuilt queue |
| Queue builder, limits, deck list: `scheduler/queue/builder`, `decks/{limits,tree}.rs` | a tree of limits, the notes seen, the cards gathered | gather intraday, interday, review and new cards; bury; mix; deck list counts | limits that cap one another; decks without parents; buried siblings under limits | no deck gives more than its limits, nothing is left out; the deck list tells what will be shown |
| Answering, scheduling: `scheduler/{answering,states,new.rs,reviews.rs}` | the columns of a card | next states, answer, forget, set due date, reposition | the meaning of a column depends on the others | steps stay within the lists; positions and due are not lost |
| Filtered decks, burying: `scheduler/filtered`, `bury_and_suspend.rs`, `decks/remove.rs` | `odid`, `odue`, queue | build, rebuild, empty, remove, bury, suspend, restore, new day | cards are answered, moved and deleted while they are away | every card has a home and returns to it as it should |
| Points at stake: `scheduler/points_at_stake.rs`, `pylib/anki/scheduler/v3.py` | none (read only) | scores, interleaving of topics, reordering of the queue | zero weights, ties, the window | each topic gets its share; what matters most is shown |
| FSRS: `scheduler/fsrs` | memory state of cards | parameters, intervals | floating point | bounds of intervals |
| Media sync: `sync/media`, `http_server/media_manager`, `media` | media database (sha1, pending, last usn) and folder, on each side | register changes, fetch, download, upload, sanity check, forced resync | a second device uploads in between; folder and database diverge on failure | files converge; nothing pending is dropped; no file is removed by mistake |
| Storage, tables, search, import and export, database check, backups, templates, statistics | SQLite | single operations, conversions | mostly sequential | per function; covered by unit tests |
| Backend, pylib, qt, ts, feprep, build | user interface, scripts | | threads are serialised by the backend's mutex | |

Clients and the server exchange one request and one answer at a time over HTTP.
A client's sync runs with the collection's mutex held and discards the undo
state; undo changes the modification time by which the sync status is decided;
answering a card changes the study queue and leaves a change of it on the undo
stack. The queue that is answered is built under the limits that the deck list
shows; the exam order is laid over it. A media sync runs beside all that, on a
thread and a database of its own. These are the interactions the modules cover.

`PROJECT.json` lists every component with its status, and every hazard with the
line where it bites and the properties that would notice it.

## 2. Modules

| Module | What it models |
|---|---|
| `SyncData` | rows, graves and the two kinds of merge as pure operators on a collection; no variables |
| `AtomicSync` | the abstract specification: a whole session is one step (`CommitSession`), its answer is adopted or lost |
| `CollectionSync` | the protocol: clients, network, server; implements `AtomicSync` |
| `AtomicSyncProofs` | the inductive invariant `IInv` of `AtomicSync` and the theorems |
| `CollectionSyncProofs` | the inductive invariants `SyncInv` and `SerialInv` of `CollectionSync`, the refinement of `AtomicSync` and the theorems that it brings |
| `CollectionUndo` | `transact`, undo, redo, custom steps, merge and coalescing, with the sync status and the study queue's build time |
| `FoldFacts` | what a left fold returns, without induction over its operator |
| `CollectionUndoProofs` | the inductive invariant `UndoInv` of `CollectionUndo` and the theorems |
| `StudyQueue` | the study queue beside the cards: building, answers, requeueing, burying, undo and redo |
| `StudyQueueProofs` | the inductive invariants `Inv` and `MatchInv` of `StudyQueue` and the theorems |
| `MediaSync` | folders and databases of media, of devices and of the server, with their sync |
| `MediaSyncProofs` | the inductive invariants `MediaInv` and `SerialInv` of `MediaSync` and the theorems |
| `CardLife` | what each operation of the scheduler makes of a card's columns, and the filtered decks that borrow cards |
| `CardLifeProofs` | the inductive invariants `Inv` and `CameAs` of `CardLife` and the theorems |
| `QueueBuilder` | how the queue of a deck is built under limits and burying, and the counts of the deck list |
| `PointsAtStake` | the interleaving of topics, one turn per step |
| `ExamQueue` | `QueueBuilder` and `PointsAtStake` composed: the exam order laid over the queue that was built |
| `ExamQueueProofs` | the inductive invariants `StakeInv` of the exam order, `BuilderInv`, `RightInv` and `CountInv` of the builder, `ServedInv` of both, and the theorems |
| `MC...` | instances for TLC: ids, clocks, decks, symmetry, constraints |

### SyncData

A collection is a record: `row` and `grave` for every id, the configuration
`conf`, and the collection's `mod`, `scm` (schema) and `usn`. A row is the number
of the edit that wrote it and its usn; its content and its mtime are functions of
the edit (`Stamp`). This keeps all that the protocol looks at. `Chunked` ids
(cards, notes, review log) are sent in chunks and merged by "not pending here, or
newer"; `Decks` stand for every kind that is sent whole and merged by "not older"
(notetypes, decks, presets; tags have no mtime). `Stamp` is a constant, so that a
run chooses clocks that agree, clocks that do not, or edits within one second.

Left out: `merge_decks` and `merge_notetypes` making names unique, the check of a
notetype's schema, unburying on a new day (which by design marks no card as
modified), and undo of a deletion between two syncs (it removes the grave again).

### CollectionSync

`srv` and `cli[c]` are the committed collections. The server's `user` is
`User`: its session and the collection inside its open transaction (`NoCol` when
closed). `sess[c]` is a client's sync: the request it awaits, its transaction
`work`, and the locals of `normal_sync_inner`. A request is a record in `net`;
handling it is one step, because the server locks its state for each request;
between two awaits a client runs without interruption. `resp[c]` is an answer on
its way. `epoch` (how often `srv` changed), `torn`, `born` and the field `base` of
a finish request are history: no handler reads them.

| Actions | Code |
|---|---|
| `Add`, `Edit`, `Remove`, `SetConfig`, `ModifySchema` | operations between syncs, through `transact` |
| `Sync`, `NothingToSync`, `StartSession`, `PostponeFullSync` | `NormalSyncer::sync` up to the decision |
| `SessionStarted`, `GravesApplied` | `start_and_process_deletions` |
| `SendChanges`, `ReceiveChanges` | `process_unchunked_changes` |
| `ReceiveChunk`, `ChunkApplied` | `process_chunks_from_server`, `send_chunks_to_server` |
| `CheckSanity`, `SanityPassed`, `SanityFailed` | `sanity_check` |
| `SessionFinished` | `finalize` and the commit |
| `SessionError`, `EndAbort`, `Aborted` | the error path of `NormalSyncer::sync` |
| `UploadCollection` ... `DownloadDone` | `full_sync_inner` |
| `Timeout`, `UserAbort`, `ClientRestart` | io timeout, abort handle, end of the process |
| `HandleX`, `RejectConflict`, `FailOperation` | the handler X of `SimpleServer`; `with_sync_state` |
| `FinishAndStop`, `ServerRestart` | the server stopping, inside `server_finish` or elsewhere |

Left out of `HandleMeta` are the forced schema change of a collection that is too large
(`meta.rs:162`), and of the client's side the two errors that end a sync before it begins:
a server that says not to continue and a clock that is off by 5 minutes
(`status.rs:44-55`).

A client that stops waiting leaves its request in `net`, where it may be handled
at any later time or never. Failures are counted by `faults`.

`SerialSpec` adds one assumption that the code does not enforce: nothing is
committed between a client's meta request and the handling of its start request.
Without it a device can miss a row (section 4), and the
refinement of `AtomicSync`, which has no such window, fails. `Spec` is without
the assumption; SyncFaults uses it.

### AtomicSync and the refinement

`AtomicSync` merges two collections by functions, `ClientMerged` and
`ServerMerged`, composed of the stages of a session. `CollectionSync` is shown to
implement it with this mapping: what a client is about to adopt (`ack`) is the
answer on its way; the session that may commit (`offers`) is the one whose finish
request the server would accept; `uploads` are the upload requests in `net`.
Everything else a session does (stages, chunks, aborts, rollbacks) is a stutter.
`ModifySchema` may leave `mod` alone in `AtomicSync`, which is what a client does
after a failed sanity check.

### CollectionUndo

`undo_steps`, `redo_steps` and `counter` are those of `UndoManager`; `current_step`
exists only inside an operation, as the field `changes` of the collection in a
transaction (`Opened`). The field `before` of a step is history. The backend's
mutex makes an operation one step. A change is an old row, the old modification
time, or a study queue update, and undoing it saves the opposite change. The
four kinds of operations are named in the module's header.

Rows are not added or removed here, and the queue is only the time and day it was
built; what is in it is the matter of `StudyQueue`.

### StudyQueue

`cards` are the rows, `queues` is `CardQueues` (counts, main and learning queue,
cutoff, build time), `shown` the card the reviewer shows. The two kinds of entries
of the code are one kind of record. `undo_steps` and `redo_steps` hold, per step,
the old rows and the `QueueUpdate`; the field `was` is history.

| Actions | Code |
|---|---|
| `GetQueuedCards` | `get_queues`, `build_queues` when there is no queue, `counts`, `get_queued_cards` |
| `AnswerCard` | `answer_card_inner`: the new state, `maybe_bury_siblings`, `pop_entry`, `maybe_requeue_learning_card`, `update_learning_cutoff_and_count` |
| `BuryCard` | `bury_or_suspend_cards`; stands for every operation that clears the queue |
| `Undo`, `Redo` | `undo_inner` with `undo_queue_change` and `undo_card_change`, in the order of their changes |
| `Tick` | the clock |

The main queue may be in any order, which covers every sort order and mix. A
bisection in a queue that is not sorted may end at any place that fits its
neighbours (`Places`). Whether an answer shows a later step, graduates, lapses or
suspends is a choice (`Answers`); what decides it is in `CardLife`. The day does
not roll over here, as it does in `CollectionUndo` and `CardLife`.

`UndoGivesBack` asks of an undone answer the same card on top, the same main queue in its
order, the same learning cards, counts and cutoff. It does not ask for the same order of
the learning cards behind the first (section 4).

`NeverShownAgain` is about the next card of the learning queue and not about the ones behind
it: while a card that is not due soon leads them, as one may after an undo, the
answered card may well come again at once. TLC shows this with three learning cards.

`QueueMatchesCards` needs `BuriedAlike`, which is about the deck options: siblings have the
same, and options that bury siblings of one kind also bury those of the kinds gathered
after it. Otherwise a card that has moved to the learning queue buries a sibling
that was gathered before it (section 4).

### MediaSync

`client[d]` is a device's folder and database: `db[f]` is the row of a file (`sha`
is `Absent` for a deletion, `dirty` is `sync_required`), `seen` says that the
database has the folder's mtime, `last_usn` is the usn up to which it has fetched.
`server` has a folder, an entry with a usn per file, and the counter of nonempty
files. `session[d]` is the sync's place and its locals; `wire[d]` is an upload on
its way, which the server may process after its sender gave up. A content stands
for its checksum. `acknowledged` and `torn` are history.

| Actions | Code |
|---|---|
| `ExternalWrite`, `ExternalRemove` | other programs in the folder |
| `AddFile`, `RemoveFiles` | `MediaManager::add_file`, `remove_files` |
| `MediaCheck` | `register_changes` outside of a sync |
| `StartSync`, `Begin` | `sync_inner`: change tracker, `begin` |
| `Fetch`, `Download`, `RecordBatch` | `fetch_changes`: a page of changes, a zip, the transaction |
| `Upload`, `UploadAnswered` | `send_changes` before and after the request |
| `Finish`, `ForceResync` | `finalize_sync` |
| `ProcessUpload`, `UploadFails` | `process_uploaded_changes`, with its rollback |
| `Abort` | the user, the network or the process ends a sync |

`SerialSpec` lets one device sync at a time, while its user waits and no upload
that was given up is still on its way. The code does not enforce this, and without
it `CleanMeansSynced` and `MediaConverges` are false: the answer to an upload
clears the flag of a row whose file was changed meanwhile; the test that nobody
else has uploaded adds up usns, which may agree by chance; and after a lost answer
the device's own upload comes back and overwrites a newer file. MediaRace is
without the assumption. A device has at most one upload on its way (`wire[d]`): it does not
send another while one that was given up may still arrive, as in the code it might.

### CardLife

`card[c]` has the columns that decide what a card is: type, queue, due, deck,
`odue`, `odid`, the saved position and the remaining steps. `filtered[f]` is the
kind of a filtered deck, `decks` the normal decks that exist; `came` and `place` are
history. A position or a day is a small number, a timestamp one above `Epoch`, as
`is_unix_epoch_timestamp` tells them apart. Intervals are any of a set.

| Actions | Code |
|---|---|
| `Answer` | `answer_card_inner`: current state, next states, the new columns, burying of siblings |
| `BuryOrSuspend`, `UnburyOrUnsuspend`, `NewDay`, `UnburyOnRollover` | `bury_and_suspend.rs`, the day cutoff |
| `Forget`, `SetDueDate`, `Reposition`, `ShiftAndReposition` | `new.rs`, `reviews.rs` |
| `SetDeck` | `Collection::set_deck` with the adjustment of steps |
| `BuildFilteredDeck`, `EmptyFilteredDeck`, `RemoveFilteredDeck`, `RemoveNormalDeck` | `filtered/mod.rs`, `decks/remove.rs` |

`HomeShiftsSpec` leaves out one thing that the code allows: positions are not
shifted while a card that would be shifted is in a filtered deck (section 4). Positions
begin at 1 and so does `FirstDay`: a due of 0 is not restored from a filtered deck,
since 0 in `odue` means that nothing was saved. Days only go forward, so that the branch of
`unbury_if_day_rolled_over` for a clock that was set back has no part.

### QueueBuilder

The state is a collection (decks, rows, settings, options), chosen at the start,
and a `QueueBuilder`: the tree of limits (`tree`, `limits`), `seen` notes, `gathered`
cards. Each card is considered in a step of its own, in any order that the sort
options allow: intraday, interday learning, review, then new cards. `Failed` is
the error "deck not found in limits map". Decks come without their parents too.
`ListCounts` is the deck list's computation on the same collection. Its cap of 9999 for the
whole list under "limits start from top" (`tree.rs:274`) is left out. Gathering by decks
may here come to a card of a deck that is not in the tree in any order, where the code meets
its deck in the order of names; both end in `Failed`.

The code builds the tree in one pass over the decks in the order of their names, each put
under the last deck of the level above. Here it is given in closed form, without
recursion: `Line` is what that pass has open when it comes to a deck, `Tree` has the decks
whose line has all levels, and `BuiltLimits` caps the limits of a deck by those of its line.
`DeckNames` assumes what this rests on: names are unique, and what is under a deck follows
it at once in the order of names, since the parts of a name are separated by a character
below all others. The mixing (`Intersperser`) is in the same way a recursive function,
`Taken`, from the number of steps to how many cards each side has given.

`RightlyGathered` leaves out collections where a deck is under a filtered one
(`FilteredAreLeaves`). Adding and renaming keep decks from being put there
(`MustBeLeafNode`), but a sync does not check. There the reviews that the filtered deck has
left, 9999 at first, cap those of the deck under it, and with them its new cards, though
a filtered deck itself does not count new cards as reviews.

`CountsMatchDeckList` leaves them out for the same reason, and one case more
(`ListAllowsForParents`): a filtered deck that is studied with "limits start from top". The
builder takes its reviews from the limits of the decks above too, and these count new cards as
reviews, so a review can cap the new cards that are left (`decrement`,
`cap_node_and_descendants`). The deck list only applies the limits that there are before
anything is taken, and a filtered deck's do not count new cards as reviews.

### PointsAtStake and ExamQueue

A turn of the loop of `interleave_by_score` is the action `Pick`. Virtual times are
exact: a topic's is counted in parts of `1 / (Scale * score)`, where the code has
floating point numbers, whose rounding may decide a tie differently. `HugeStride`
says that the stride of a topic with nothing at stake (1e9 in the code) is longer than
all strides of another together; with weaknesses of less than about one in a
million the code's constant is not.

In `ExamQueue` a queue is built, then `OrderCards` computes the order of what the
search gives (any other cards besides the due ones), and `GetQueuedCards` reorders a
window of the queue by it. This is off by default, as the engine takes answers
only for its own first card (`v3.py:63-71`).

### Variants

A definition named `...Bug` is a faulty variant of the definition that follows it:
a dropped guard, an off-by-one, a missing reset. For every property of a passing
run `PROJECT.json` names one such variant under which the property fails, which
shows that the run would notice that fault.

## 3. Runs

| Run | Instance | Shows |
|---|---|---|
| SyncSession | two devices, card, review log entry and deck; 2 local changes, 2 syncs, 1 failure; clocks that run backwards; serial | every session, broken off anywhere, refines `AtomicSync`; `ChunkedAgree`, the sanity check never fails |
| SyncFaults | one card, not yet there or back from a package after a synced deletion (`InitReturned`); 2 local changes, 2 syncs, 1 failure; any interleaving, fairness | `ClosedNeverReopened`, `PendingUntilStored` without the serial assumption; every sync ends |
| AtomicSync | two devices, card and deck; 4 timestamps, 3 edits | the invariants that are also proved, and `IInv` itself |
| UndoSteps | a limit of 2 steps, 6 operations, one pause: a minute, a day or a sync | undo, redo, counters, sync status |
| StudyQueue | two siblings and two more cards, one of them previewed, in every queue; 4 operations, 2 seconds; new siblings buried | counts, the queue against a rebuild, undo gives it back, redo finds its card, no card comes again at once |
| MediaSync | two devices, two files, one of them everywhere at first; pages of one change, zips of up to two files; 3 changes, 1 failure; serial, fair | the server's books, clean rows, the sanity check, convergence |
| MediaRace | the same with 2 changes, any interleaving, files written over unnoticed, an empty content; fairness | no file removed without a deletion, every sync ends |
| CardLife | two siblings, two normal decks with different steps, one filtered deck that is rebuilt as either kind, two days | homes, columns, positions, steps, previews |
| DailyQueues | five decks, one of them filtered, with reviews and new cards, some without a parent; four cards of three notes; limits below and above what is due; all options | limits, burying, deck list, mixing, and the exam order |
| UndoRollover, QueueStale, MediaTrash | instances like those above, or smaller | each a disagreement of section 4 |

Bounds. SyncSession allows two local changes, made before the first commit: card and
deck are on both devices already, so this is an edit against an edit, or against a
deletion; the review log entry can only be added. SyncFaults begins without a
card, so that a device adds one, syncs it, deletes it and sends the deletion, or with one
that came back: there the next deletion is not sent (section 4), so that sanity checks
fail and what follows them is run too. A deletion that meets another device's edit
in sessions that overlap is left out there (the run with liveness gets too
long); without the liveness property TLC has checked `PendingUntilStored` with a card
that both have at first. Longer histories are the matter of AtomicSync, where a session is
one step.
2 syncs are needed for one device to send and the other to receive, and they may
overlap; one failure may strike at each request of either. `ChunkSize = 1` makes
every row fill a chunk, so that the empty last chunk occurs each time, and two
kinds of rows need more than one chunk. `MaxClock` bounds the timestamps
of local changes (in `CollectionSync` a commit always gets one; in `AtomicSync` it
bounds commits and full syncs too). An undo limit of 2 is reached and passed by
three operations; 6 operations suffice for two edits, two undos and two redos.
`AtomicSync.cfg` keeps at most one upload in flight (`OneUpload`), and
`UndoSteps.cfg` allows one pause (`OnePause`); the proofs about `AtomicSync` have
no such limit.

`SyncSession` checks `ChunkedAgree` and `SanityAgrees` with clocks that run backwards.

In `StudyQueue` learning steps of 1 and 5 seconds with 4 seconds of learning ahead give
every case: due now, due soon, not counted yet, due at the rollover. Four
operations empty the main queue or undo and redo two answers.
Only new siblings are buried (`BuryNew`), which is `BuriedAlike`; where review or
interday learning siblings are buried and later ones are not, `QueueMatchesCards` fails
together with `NoStaleEntry`.

In the media runs a page has one change (`ChunkLimit`), so that fetching two takes two
pages and an empty one; a zip has up to two files (`ZipLimit`) and may end after any
of them, as the limit of its size allows. `MaxEdits` and `MaxFaults` bound the users
and the failures, and two devices are enough for one to upload between the
steps of the other. In CardLife nothing counts operations: positions
(`MaxPosition`), days (`LastDay`) and the number of cards overnight (`MaxOvernight`)
bound the columns, and histories are as long as they like. In DailyQueues the decks,
rows, limits and options are chosen at the start; the exam order is followed for one
of the combinations (`SomeOrdered`), as it does not depend on how the queue was built.

Deadlock checking is off where the bounds make a model stop; in the media runs it is on,
since a sync can always be started. Clients that are alike are symmetric in the
sync runs without liveness, and the two siblings in CardLife; no run with a
liveness property uses symmetry.

## 4. Where code and documentation disagree

With a run that ends in a counterexample, and an entry in `PROJECT.json`:

- **UndoRollover.** Undoing an answer after the day changed discards the undo that
  is running; `op_changes` panics.
- **QueueStale.** With review siblings buried and new ones not, a new card in its
  learning steps buries the review sibling that is in the queue with it; the next
  `get_queued_cards` fails with "bug: card modified without updating queue".
- **MediaTrash.** `media/files.rs::remove_files` returns at the first file that is not
  there ("if the file doesn't exist, nothing to do"); the files after it stay, and
  the database has them as deleted.

Seen while modelling, without a run:

- **Deletions of a card that came back.** `INSERT OR IGNORE INTO graves`
  (`storage/graves/add.sql`) keeps the usn of an old grave: when an id came back from a
  package after its deletion was synced, a second deletion is never sent, and the counts of
  the sanity check differ until a full sync. The test says "deletions should sync too"
  (`sync/collection/tests.rs:733`). With the instance of SyncFaults TLC finds a deletion
  on the client that is not pending while the server has the row.
- **Answers within one second** are not ordered (`sync/collection/chunks.rs:184`); the
  devices then stay different, while the manual (`syncing.mdx:82`) and
  `src/feprep/docs/sync-conflict-rule.md:15` promise the most recent state on both. With
  two edits of one mtime TLC finds `ChunkedAgree` violated.
- **The mtime of an undone card.** Undo gives a card its old modification time back
  (`card/undo.rs:24`). The comment of a test says "the card should have its old state, but a
  new mtime (which we can't easily test without waiting)" (`scheduler/queue/undo.rs:168`).
  `QueueMatchesCards` states what the code does and contradicts that comment; the queue
  rests on it: an entry that undo pushed back is only shown if its mtime is the card's, so
  that a new mtime would end in "card modified without updating queue" (the mutant
  `RestoredAsNewBug`).
- **The exam order.** `feprep/docs/rust-change-note.md:19`, `proto/anki/scheduler.proto:525`
  and `:533` and `points_at_stake.rs:129` say that cards come by weight x weakness, highest
  first. The code does not sort by score, but interleaves the topics in proportion to their
  scores, as the header of `points_at_stake.rs` says: with weights of 12 and 4 and five cards
  each, cards of the second topic come between those of the first. `InProportion` states
  what the code does, and contradicts the notes.
- **Shifts in a deck of previews.** `shift_existing_cards` (`scheduler/new.rs:295`) takes the
  due of a new card for its position. In a deck of previews, after "Again", it is a
  timestamp, which becomes the card's position when it returns; the manual
  (`filtered-decks.mdx:224`) says that previewed cards "are returned exactly as they
  started". Under `Spec`, which has these shifts, TLC finds `ReturnedAsStarted` violated;
  CardLife checks it under `HomeShiftsSpec`.
- The usn told by meta is used by the client, the usn read again by
  `server_start` (`sync/collection/start.rs:93`) by the server. A commit in between
  makes a device miss a row; `SerialSpec` excludes it.
- Review log entries of the same millisecond have the same id, and one is lost.
- Undo restores the modification time although a `SkipUndo` operation left a
  pending row (`collection/undo.rs:24`); the status says there is nothing to sync.
  The row goes out with the next real change, so it is late, not lost.
- A previewed card that is buried or suspended and restored while it is away gets
  the queue of its type with the timestamp of its next look.
- A deck whose parent is missing is to be skipped "until a DB check is run"
  (`decks/limits.rs:308`). Its cards are gathered nevertheless, and the queue of any
  deck above it cannot be built (`FailOnUnknownDeck`). A deck deleted on one device while
  a child is added on another leaves such a deck.
- With "limits start from top", the deck list shows more new cards for a filtered deck than
  its queue has, where the reviews of the queue use up what a deck above may still give
  (`decks/tree.rs:121` beside `decks/limits.rs`; section 2).
- `v3.py:80-84` says of the reordered queue that "answering remains correct",
  `v3.py:63-71` that it "makes every answer fail". Its search "is:due OR is:new"
  includes new cards that are suspended or buried; they only take up ranks.
- Redoing two old note edits in quick succession coalesces them, because
  `maybe_coalesce_note_undo_entry` compares the times of the redone steps
  (`UndoRestores` holds all the same).
- `push_undo_entry` puts an undone learning card at the front of a queue that is
  kept sorted otherwise (`queue/learning.rs:22`). The card was on top, but it need not
  have been first in that order: cards that were never attempted rank behind the others and
  come on top when these are not due yet. After the undo the learning cards are in another
  order than before the answer, and the bisection that requeues the next card runs on
  a queue that is not sorted. What is shown next is the same.
- `abort` ignores the session key, so a late abort ends another device's session,
  while `src/rslib/src/sync/collection/tests.rs:203` says that an abort with the wrong
  key is ignored. The protocol survives it (SyncSession and SyncFaults have such
  aborts).
- An empty file in the place of a deletion that is still to be sent makes the
  counts differ, and forces a full media resync.

## 5. Fairness

`FairSpec` assumes weak fairness of three things, for each client: the server
handles the request the client is waiting for once it is in the network; a client
goes on with an answer it has; and a wait for an answer that cannot come any more
ends, which is the stall timeout of `sync/http_client/io_monitor.rs`. No fairness
is assumed of requests nobody waits for, of the user, or of failures.

In `MediaSync`, `FairSpec` assumes that a sync in progress goes on and that the
server processes an upload that reached it (`MediaSyncEnds`); a lost one ends with
the same io timeout, which is an `Abort`. `FairSerialSpec` adds strong fairness of
starting a sync, since other devices' syncs come in between, for `MediaConverges`:
each device syncs again now and then, as the desktop program does when it opens and
closes a collection.

## 6. Proofs

`AtomicSyncProofs` proves, for any clients, ids, bounds, clocks and known rows, the last
three under `ClocksAgree` (a later edit has a later mtime on every device):

| Theorem | States |
|---|---|
| `Inductive` | `Spec => []IInv` |
| `TypeCorrect` | `Spec => []TypeOK` |
| `UpdatesAreNotMissed` | `ClocksAgree` implies `Spec => []NoMissedUpdate` |
| `EqualTimesMeanInSync` | `ClocksAgree` implies `Spec => []NoChangesMeansInSync` |
| `SessionsKeepLaterEdits` | `ClocksAgree` implies `Spec => []LaterEditSurvives` |

None of the properties is inductive. A client that has rolled back, a session that
may still commit, an answer not yet adopted and an upload still on its way are all
collections that may become current, so `IInv` speaks of every *replica* (`cli`,
`offers`, `ack`) and every *server* (`srv`, `uploads`):

- `Good`, `Clean`: usns, graves and edits of one collection are in range, and
  nothing on a server is pending.
- `Pairs`: for each replica and server with the same schema, and each object: they
  are alike, or one will send it; a grave that the replica has passed means the row
  is gone there; where clocks agree, a row not pending is not newer than the
  server's, and a pending row is newer than what the server had at the last sync.
- `SchemasApart`: an upload that has not arrived has a schema time of its own.
- `ModsAgree`: equal modification times mean that nothing is to be exchanged, unless
  `torn`.

`Alike` asks for the same edit only where a session can be expected to leave
it (`Exact`: clocks that agree, or a chunked row and no two edits with the same mtime,
`StampsDiffer`) and otherwise for a row on both sides or on none. So the invariant needs
no assumption on clocks, and it is strong enough for the counts of a sanity check. TLC
has checked it as an invariant with clocks that agree (the run), run backwards, or
show the same time for several edits.

The proof computes a session object by object (`MergedByObject`, `MergeObject`),
shows that the result stands in `Pairs` with every other replica (`PairAdvances`,
`PairMerged`), and then takes one step per action. The ASSUMEs used are
`IdsApart` and `Bounds`.

`CollectionSyncProofs` proves of the protocol, for any devices, ids, chunk size, clocks
and number of faults (ASSUMEs `SyncBounds`, `IdsApart`):

| Theorem | States |
|---|---|
| `SyncInvariant` | `(Init \/ InitReturned) /\ [][Next]_vars => []SyncInv` |
| `SyncTypeCorrect` | `Spec => []TypeOK`, `SerialSpec => []TypeOK` |
| `ClosedStaysClosed` | `(Init \/ InitReturned) /\ [][Next]_vars => []ClosedNeverReopened`, and so `FairSpec` |

`SyncInv` has three parts. `Data`: the collections and counters have their types.
`Talk`: each request in the network, each answer on its way and each open session
is what its handler expects, an answer belongs to the request that is awaited
(`Fits`), and a client that waits inside a session has its transaction open. Without it
`TypeOK` is not inductive, since it says nothing of what a message carries.
`Protocol`: a session key has one request at a time, in the network or answered
(`OneRequest`, `NotAnswered`), it is the one its client waits for unless the client
is aborting (`RequestAwaited`), and no two clients have the same key (`KeysApart`).
From these follows `Closed`: when the server has closed the collection after a failed
sanity check, its client has the refusal before it or has already given up, and
nothing of the session is left in the network. A client that stops waiting, at any
moment, leaves a request behind; `EndKeeps`, `SayKeeps` and `HandleKeeps` say once
what such a step, a new request and a handler do to `Protocol`, and each action is
then one of these. TLC has checked `SyncInv` from both beginnings at the bounds of
`SyncFaults`.

The same module proves the refinement and what follows from it, for any devices, ids,
chunk size and number of faults, under `SerialSpec` and where no id comes back from a
package (`Reimportable = {}`: `AtomicSync` uses an id once):

| Theorem | States |
|---|---|
| `SyncImplementsAtomic` | `SerialSpec => AtomicSpec` |
| `SanityNeverFails` | `SerialSpec => []SanityAgrees` |
| `ChunkedRowsAgree` | `AS!StampsDiffer` implies `SerialSpec => ChunkedAgree` |
| `SyncKeepsPromises` | `AS!ClocksAgree` implies the three properties of `AtomicSync`, of `SerialSpec` |
| `NothingIsForgotten` | `AS!ClocksAgree` implies `SerialSpec => PendingUntilStored` |

The invariant `SerialInv` says how far a session has come on both sides at once.
`Staged`: while the server's session is the client's, the client's transaction and the
server's are the results of the same stage of the exchange of `cli[c]` and `srv`
(`Stage`), and inside a stage, of the graves or rows sent so far: `Deleting` and
`Sending` by what is left in `todo`, `Receiving` by the rows that the server has
left. `Current`: what meta told a client is true until `epoch` changes, which is where
`SerialSpec` enters, since then a start request that is served finds the collection
that meta told of. `Committable`: a finish request that the server would accept, also one
whose client has given up, carries a complete exchange of its `base`. `UploadsApart`
and `ClockBound` account for what `AtomicSync` asks: uploads that differ, and a clock
below its bound, `MaxClock + 3 * MaxSyncs`, where each sync takes at most one timestamp.

That taking graves, stamps and rows part by part is the same as taking all at once is
proved per id (`DeletedTwice`, `StampedTwice`, `TakenTwice`), so that any division into
chunks will do. Each action is then a stutter of `AtomicSync` (`Quiet...`) or one
of its steps (`ChangeMoves`, `PassedBegins`, `FinishCommits`, `EndAdopts`, `UploadPrepares`,
`UploadStores`, `DownloadSends`). TLC has checked `SerialInv` at the bounds of `SyncSession`
and with two cards. With the refinement, `IInv` holds of the protocol's own
collections (`SerialAtomic`), through an instance of `AtomicSyncProofs` with the same
mapping, and gives the last four theorems; `NothingIsForgotten` adds that an answer to
a finish request is on its way only when the server has what the client had to
send (`Promised`), and that a deletion that it sent is a row that the server has no more (`Stored`).

`PendingUntilStored` asks of an addition or an edit that the server has it, a later one or a
deletion, and of a deletion that the server has the deletion. It leaves out a deletion that is
not pending because its id has an earlier grave; such deletions
are lost (section 4).

`ExamQueueProofs` proves, for any cards, decks, names, limits, options, topics, weights and
weaknesses:

| Theorem | States |
|---|---|
| `StakeSafety` | `StakeSpec => [](StakeTypeOK /\ InProportion /\ NothingAtStakeLast /\ DueFirst)` |
| `ExamSafety` | `ExamSpec => []ServedInProportion`, the same of the order that is laid over a queue |
| `LimitsSafety` | `ExamSpec => []WithinLimits` |
| `GatheringSafety` | `ExamSpec => []RightlyGathered` |
| `MixingSafety` | `ExamSpec => []MixedEvenly` |
| `DeckListSafety` | `ExamSpec => []CountsMatchDeckList` |
| `UrgencySafety` | `ExamSpec => []MostUrgentShown` |

`InProportion` is not inductive: a step keeps it only because a topic's virtual time is
the number of strides it has taken (`WholeStrides`), and the topic that is picked has
the smallest. `DueFirst` needs that what is left of a topic is later than what
was given (`LeftLater`), `NothingAtStakeLast` that a topic never takes more strides than
there are cards (`InBuckets`) and that these are shorter than one `Huge` stride. These
parts together are `StakeInv`. The products of two unknowns in `InProportion` are beyond
the SMT solver, so a few lemmas about multiplication come first. `ExamSafety` then
shows that building a queue never touches the order.

`WithinLimits` speaks of the cards given, the builder of the limits left. `BuilderInv` ties
them: what a deck has left, it has not given (`LimitsOK`), of new cards also where they
count as reviews. The code decrements a deck and those above it and, when one comes
to 0, stops what is under it, so that a deck that still gives has something left
all the way up (`ZeroBelow`). `RightlyGathered` is the converse, that nothing
is left out without a reason. For this `RightInv` says that a deck has no less
left than some deck above it has not given (`ReviewsUsed`, `NewUsed`), that a note's
buried kinds come from siblings that were considered (`SeenOK`), and that a card
not gathered is still to be considered or `RightlyLeftOut` (`LeftOutOK`). The lemmas on
trees come from `DeckNames` alone: where no deck is without its parent
(`ParentsAreThere`), a deck's line is the decks whose names begin its own.

`CountsMatchDeckList` compares two computations. The deck list adds up from the leaves and
caps each sum; the builder caps from the top as cards come. `ListCountsAre` gives the list's
function its meaning: it exists (`CountsExist`, from the last deck in the order of names to
the first), and each deck's numbers are its own and those directly under it, capped. Sums over
decks are cardinalities of sets of pairs (`SumOver`), since the library has no lemmas about
folds. `FlowAgrees` is the comparison: let `g` be a number of cards gathered by deck, at
most `m`, and `y` that of the list, capped by `m`. If a deck gives less than is due in it only
where it or a deck above has given all of `m`, then `g` is `y` in each deck, but below such
decks; by induction from the leaves (`LeavesFirst`). Above the studied deck there is none,
so there the two are equal (`FlowAtRoot`). It is used four times: for learning cards, for
those learned on an earlier day, for these with the reviews, and for new cards, where `m` is
what the list's reviews leave (`RoomForNew`: the list may have more reviews for a
deck than the queue, but then a deck above has no room for new cards either). The premise
comes from `RightInv`, and `CountInv` adds that cards are gathered once and that
those learned on an earlier day were left out for a limit that was used up before any review
(`DayLearnOut`). `WithinStudied` is where `ListAllowsForParents` is needed: a deck above the
studied one stops it only by a limit that the deck list knows of, too.

`MixedEvenly` is about the result of a loop: `TakenSteps` and `Reached` say, by bounded
induction with the least element of a set, that each step takes one card from one
side and that neither side runs ahead by more than a share, and `MixedBy` what a sequence
made so has of each. For `MostUrgentShown`, `ServedInv` says of a finished order that
topics with something at stake come before those without and that no due card is
forgotten, and `ShownInv` that what is shown is the cards fetched in the order
of their ranks, which is why cutting it takes off the least urgent only (`SortedPlaces`
computes the stable sort).

The ASSUMEs used are `StakeParameters`, `HugeStride`, `DeckNames`, `BuilderParameters` and
`ExamParameters`.

`CardLifeProofs` proves, for any cards, decks, filtered decks, steps, intervals and days:

| Theorem | States |
|---|---|
| `Invariant` | `HomeShiftsSpec => []Inv` |
| `HomeKept` | `HomeShiftsSpec => []HasAHome` |
| `ColumnsKept` | `HomeShiftsSpec => []ColumnsAgree`, the type invariant and the agreement of the columns |
| `PositionsKept` | `HomeShiftsSpec => []PositionKept` |
| `StepsKept` | `HomeShiftsSpec => []StepsInRange` |
| `PreviewsGivenBack` | `HomeShiftsSpec => ReturnedAsStarted` |

`Inv` says of each card by itself what the four properties say, `CardInv`, and a little
more: a card in a filtered deck has an original due above 0, of the kind that its
type calls for. Without this `ColumnsAgree` is not inductive, since it says nothing of
the due of a card that is away, which is what it returns with. There is a
lemma for each operation on one card (`Restored`, `ReturnsHome`, `MovesIn`, `BecomesNew`,
`MovesDeck`, `Answered` ...), and one per action lifts them to all cards. For
`ReturnedAsStarted`, `CameAs` ties what a card came as to the columns it would return
with; `Fate` lists what a step can make of a card with regard to decks of
previews, and each action is shown to be one of these. The ASSUMEs used are
`CardLifeParameters` and `DuesApart`: positions and days begin at 1 and stay below the
timestamps. What `HomeShiftsSpec` leaves out, the shift of positions of cards that
are away, breaks `ReturnedAsStarted` (section 4); of the other operations
`PreviewsGivenBack` covers any sequence.

`CollectionUndoProofs` proves, for any rows, undo limit, clock and number of operations
(ASSUME `UndoBounds`):

| Theorem | States |
|---|---|
| `UndoConsistent` | `Spec => []UndoInv` |
| `UndoTypeCorrect` | `Spec => []TypeOK` |
| `CountersAreUnique` | `Spec => []CountersIdentifySteps` |
| `EditsAreReported` | `Spec => []NoEditUnreported` |
| `UndoGivesRowsBack`, `RedoGivesRowsBack` | `Spec => []UndoRestores`, `[]RedoRestores` |

A list of changes says where it leads back to: `UndoneTo(changes, x, a, b)` holds of a
cell `x` (a row, or the modification time) that is `a` now if undoing the list leaves
`b` there, which only the oldest change of that cell decides. `UndoInv` has each step
lead from the rows after it to its `before`, and the rows after a step are the
`before` of the step above it, or the rows now (`UndoStack`, `RedoStack`). Restoring
speaks of one step; the chain is needed because undoing a step moves it to the other
stack, and merging puts several into one (`Joined`). For `NoEditUnreported` the
states that undo and redo can come back to matter, not just the present one: in each of
them pending rows have a time after the last sync (`Clean`), and the first change of a
step is that of the time (`ModifiedFirst`), so that no edit is undone without it. Deck
rows are not among those that `NoEditUnreported` is about (section 4). `CountersAreUnique`
is about the undo stack, where merging looks for its target, and not about the redo stack.

`StudyQueueProofs` proves, for any cards, notes, delays, burying and number of operations
(ASSUME `QueueParameters`):

| Theorem | States |
|---|---|
| `QueueInvariant` | `Spec => []Inv` |
| `StudyTypeCorrect` | `Spec => []TypeOK` |
| `CountsAreExact` | `Spec => []CountsAgree` |
| `CardsAreAtTop` | `Spec => []CardIsAtTop` |
| `UndoGivesQueueBack` | `Spec => []UndoGivesBack` |
| `AnsweredComesLater` | `Spec => NeverShownAgain` |
| `QueueFollowsCards` | `BuriedAlike` implies `Spec => []QueueMatchesCards` |

None of the invariants is inductive, since undo and redo put back a queue of which only the
difference is kept. `Inv` has each step of an answer remember a queue with exact counts whose
top was the step's entry (`AnswerStep`); what the step left of it follows from its
`QueueUpdate` alone (`MainAfter`, `LearningAfter`). The steps of one build are
linked: each was given to what the step before it left (`Chain`), and the queue lies
between the newest step to undo and the next to redo (`PlaceOK`). The learning queue is
compared as a set, as an insertion may end at any place and an undone card goes to the
front; the counts are those of sets, since each card is queued at most once
(`Shape`), and `CountsOfSets` brings them back to what the code counts along the queue.
Per operation of `CardQueues` a lemma says what it does to these sets and counts
(`PopOf`, `InsertOf`, `RemoveOf`, `PushMain`, `PushLearning`, `UpdateCutoffOf`, `RestoreOf`),
and `UndoneOf` and `RedoneOf` compose them. That the saturating subtraction of `pop_entry`
never saturates comes out of it: the top card is always counted. TLC has checked `Inv` on
two instances of `StudyQueue` with three cards.

`NeverShownAgain` follows from where an answered card is put. It is due later than now
(`RowIsLater`) and behind a next card that is due soon (`RequeueIsLater`), so if it were on
top, nothing else would be due or in the main queue (`TopIsSoon`), and the next card would
have been before it (`AnsweredIsBehind`).

`QueueMatchesCards` asks for an order of gathering that gives the queue, after any history of
answers, undos and redos. `MatchInv` says without an order what makes one possible
(`Matches`): each entry has the row it was queued with (`Current`), each due card that is
not in the queue is buried by one that comes before it (`NoneMissing`), and no card there is
buried so (`NoneBuried`). It says so of the queue, and of each queue that a step of this
build, on either stack, would give back, with the rows that undoing or redoing the
steps up to it restores (`History`, `Fit`). An answer keeps this because it buries what a
rebuild would (`AnswerMatches`, where `BuriedAlike` is used), and so do the pushes and pops
of both stacks (`FitsPush` ...). From `Matches` the order is made: by kind of queue, and
within a kind the cards in the queue first (`RankedVisit`).

`FoldFacts` is what these proofs and the next have instead of induction: the value of a
`FoldLeft` is the last of a trace in which each value is the step of the one before
(`FoldTrace`), and a bounded induction over that trace, by the least element of a
set of numbers, needs no theorem with an operator for a parameter.

`MediaSyncProofs` proves, for any devices, files, contents and limits (ASSUME
`MediaParameters`):

| Theorem | States |
|---|---|
| `MediaInvariant` | `Spec => []MediaInv` |
| `BooksAreTidy` | `Spec => []ServerTidy` |
| `MediaTypeCorrect` | `Spec => []TypeOK` |
| `RemovalsAreAcknowledged` | `Spec => RemovedWhenAcknowledged` |
| `SerialInvariant` | `Plain` implies `SerialSpec => [](MediaInv /\ SerialInv)` |
| `CleanIsSynced` | `Plain` implies `SerialSpec => []CleanMeansSynced` |
| `SanityCheckPasses` | `Plain` implies `SerialSpec => []SanityPasses` |

`ServerTidy` needs that a known row of the server has a usn above 0, or a file the
server has forgotten and is sent again could share a usn with one it never had; and an
upload is many rows in one transaction, whose counter and usns are followed change
by change (`Processed`). `RemovedWhenAcknowledged` needs that whatever row has no file
was confirmed as deleted before it could be fetched. Both hold in every interleaving.

`SerialInv` says for each point of a sync what the device has learnt: before the
upload, that rows that are clean agree with the server (`SendGood`); while an
upload is out, which of its files the server has and which are as they were
(`SentGood`, `AnsweredGood`); in the middle of a page, that the usn it will record is that
of its last file, and that all files before it are recorded or in its lists
(`DownloadGood`). For a device that does nothing, whatever has changed on the server
has a usn that it has not fetched (`RowsGood`, `OthersHold`). TLC has checked
`SerialInv` as an invariant of the instance of MediaSync. `Plain` says that no file is
written over with its mtime kept and that all contents can be synced, as in
`MediaSync.cfg`. Without it the properties are false: a device drops the row of a
file whose content it cannot send, and the server may have an older one.

In `MediaSync` the lists of a batch are `Only` and `InOrder`, and not `SelectSeq` and
`SortSeq`, since the prover cannot expand the recursive definitions of these two.

Only model-checked: `SyncEnds`, `MediaSyncEnds` and `MediaConverges` (liveness is beyond
the prover), and `PendingUntilStored` where another device's commit falls into a session or
ids come back from packages.

## 7. Not modelled

The models cover the parts where state is shared or kept over many operations. They
are a small share of the lines of the repository, because most of these are of
another kind:

- Search (`search`), templates, cloze and LaTeX (`template.rs`, `text.rs`), import and
  export: parsers and conversions of text, without state that outlives a call. A
  model of them would repeat their grammar; what the other parts need of a
  search (which cards it finds) is a choice from a set.
- Storage and schema upgrades (`storage`): SQL statements, one per function. The
  models use what these statements read and write; SQLite itself, its transactions
  and its ordering by columns are trusted.
- FSRS and the weakness of topics: floating point computations, mostly in an external
  crate; only the order of their results matters elsewhere, and is a choice.
- Operations on notes, notetypes, decks, presets and tags: sequential changes of
  single tables within `transact`. Their marks for the sync and their undo are those of
  the four kinds of operations in `CollectionUndo`; the cards they move or delete
  are in `CardLife`.
- Database check and backups, media check reports: repairs of a collection that is
  already wrong, or copies of files.
- `backend`, generated protobuf dispatch, pylib but for `v3.py`, qt, ts, feprep, build:
  a thin layer over the operations, user interface, and scripts.

## 8. Plan

Done: 1. `SyncData`, `AtomicSync`, `CollectionSync`; 2. `AtomicSyncProofs`;
3. `CollectionUndo`; 4. `StudyQueue`; 5. `MediaSync`; 6. `PointsAtStake`, `QueueBuilder`,
`ExamQueue` and `ExamQueueProofs`; 7. answering and filtered decks, `CardLife` and `CardLifeProofs`.

8. `FoldFacts`, `CollectionUndoProofs`, `MediaSyncProofs`, `CollectionSyncProofs`, with
the refinement of `AtomicSync`, and `StudyQueueProofs`. 9. The proofs about
`QueueBuilder`, the deck list and the exam order that is shown, and that the study queue
follows the cards.

Next, in this order:

1. A composition of `StudyQueue` with `CollectionUndo`, where the queue is two numbers.
2. `CollectionUndo`: additions and removals of rows, graves on undo.
3. `MediaSync`: an abstract specification (a set of files per device, united by usn)
   and the refinement, without the serial assumption where it holds.
