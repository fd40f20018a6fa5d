--------------------------- MODULE CollectionUndo ---------------------------
(***************************************************************************)
(* Collection::transact and the undo manager (rslib/src/undo/mod.rs,       *)
(* rslib/src/collection/{transact,undo}.rs): what each operation of a      *)
(* collection leaves on the undo and redo stacks, and what undoing and     *)
(* redoing it does to the rows, to the collection's modification time, by  *)
(* which the sync status is decided, and to the study queue.               *)
(*                                                                         *)
(* The backend holds a collection behind one mutex, so an operation is one *)
(* step; what can go wrong is a long sequence of them.  Four operations    *)
(* stand for the many: one that coalesces (UpdateNote), one that keeps the *)
(* study queue and has a change of it (AnswerCard), one that never enters  *)
(* the undo stack (SkipUndo, collapsing a deck), one that cannot be undone *)
(* (transact_no_undo).  A definition named ...Bug is a faulty variant of   *)
(* the definition after it, and belongs to no specification.               *)
(***************************************************************************)
EXTENDS Integers, SequencesExt

CONSTANTS
    Notes,        \* the notes that are edited
    Card, Deck,   \* the card that is answered, and the deck it is in
    UNDO_LIMIT,   \* the number of steps that can be undone
    MaxClock,     \* bound on the number of operations
    MaxMinutes,   \* bound on the time that passes, in units of 60 seconds
    MaxDay,       \* bound on the day
    MaxSyncs      \* bound on the syncs that exchange changes

ASSUME UndoBounds ==
    /\ UNDO_LIMIT \in Nat \ {0}
    /\ Card \notin Notes /\ Deck \notin Notes /\ Card # Deck
    /\ {MaxClock, MaxMinutes, MaxDay, MaxSyncs} \subseteq Nat

VARIABLES
    rows,         \* rows[r]: the edit that wrote r, and whether it is unsynced
    mod,          \* the collection's modification time
    last_sync,    \* the modification time that the last sync left
    undo_steps,   \* the newest step comes first
    redo_steps,   \* the step to redo next comes last
    counter,
    card_queues,  \* when and on which day the queues were built, or NoQueues
    panicked,     \* an operation panicked, with the collection's mutex held
    clk,          \* milliseconds: moves on with every operation
    minutes, day, syncs

vars == <<rows, mod, last_sync, undo_steps, redo_steps, counter, card_queues,
          panicked, clk, minutes, day, syncs>>

Rows     == Notes \cup {Card, Deck}
Undoable == Notes \cup {Card}      \* the rows that SkipUndo never touches
NoQueues == [built |-> 0, day |-> 0]

(* Kinds of changes: the old value of a row or of mod, or a queue update.  *)
RowChange(r, old)  == [type |-> "row", row |-> r, old |-> old]
Modified(old)      == [type |-> "modified", old |-> old]
QueueChange(built) == [type |-> "queue", built |-> built]

Init ==
    /\ rows = [r \in Rows |-> [ed |-> 0, pending |-> FALSE]]
    /\ mod = 0 /\ last_sync = 0
    /\ undo_steps = <<>> /\ redo_steps = <<>> /\ counter = 0
    /\ card_queues = NoQueues
    /\ panicked = FALSE
    /\ clk = 0 /\ minutes = 0 /\ day = 1 /\ syncs = 0

Tick == clk < MaxClock /\ clk' = clk + 1

-----------------------------------------------------------------------------
(* The collection inside a transaction.  changes is current_step, and      *)
(* active tells whether there is one: nothing is saved without it.         *)

Opened == [rows |-> rows, mod |-> mod, queues |-> card_queues,
           changes |-> <<>>, active |-> TRUE]

Save(s, change) ==
    IF s.active THEN [s EXCEPT !.changes = Append(@, change)] ELSE s

SavesNewRowBug(s, r, row) == [Save(s, RowChange(r, row)) EXCEPT !.rows[r] = row]

WriteRow(s, r, row) == [Save(s, RowChange(r, s.rows[r])) EXCEPT !.rows[r] = row]

SetModified(s, time) == [Save(s, Modified(s.mod)) EXCEPT !.mod = time]

EditRow(s, r) == WriteRow(s, r, [ed |-> clk + 1, pending |-> TRUE])

(* clear_queues_if_day_changed discards the undo state, current_step too.  *)
(* Unburying the cards marks none of them as modified.                     *)
ClearIfDayChanged(s) ==
    IF s.queues # NoQueues /\ s.queues.day # day
    THEN [s EXCEPT !.queues = NoQueues, !.changes = <<>>, !.active = FALSE] ELSE s

(* get_or_invalidate_queues: queues that were rebuilt since are dropped.   *)
GetOrInvalidate(s, built) ==
    LET checked == ClearIfDayChanged(s)
    IN  IF checked.queues.built = built THEN checked
        ELSE [checked EXCEPT !.queues = NoQueues]

(* UndoableChange::undo saves the change that takes back what it does.     *)
UndoChange(s, change) ==
    CASE change.type = "row"      -> WriteRow(s, change.row, change.old)
      [] change.type = "modified" -> SetModified(s, change.old)
      [] change.type = "queue"    -> Save(GetOrInvalidate(s, change.built), change)

OldestFirstBug(s, changes) == FoldLeft(UndoChange, s, changes)

OneMissingBug(s, changes) == FoldLeft(UndoChange, s, Reverse(SubSeq(changes, 2, Len(changes))))

UndoAll(s, changes) == FoldLeft(UndoChange, s, Reverse(changes))

-----------------------------------------------------------------------------
(* The end of a transaction.                                               *)

Changed(s, r) == \E i \in DOMAIN s.changes :
                    s.changes[i].type = "row" /\ s.changes[i].row = r

(* A card answer updates the queues itself; a note has no effect on them.  *)
QueuesAfter(kind, s) ==
    IF kind # "AnswerCard" /\ (Changed(s, Card) \/ Changed(s, Deck))
    THEN NoQueues ELSE s.queues

IsNoteUpdate(changes) ==
    /\ Len(changes) = 2
    /\ changes[1].type = "row" /\ changes[1].row \in Notes
    /\ changes[2].type = "modified"

(* maybe_coalesce_note_undo_entry: the step before was an update of the    *)
(* same note, less than 60 seconds ago.                                    *)
Coalesces(kind, changes, steps) ==
    /\ kind = "UpdateNote" /\ IsNoteUpdate(changes)
    /\ steps # <<>>
    /\ steps[1].kind = "UpdateNote" /\ IsNoteUpdate(steps[1].changes)
    /\ steps[1].changes[1].row = changes[1].row
    /\ steps[1].timestamp = minutes

(* before is history: the rows, as they were when the step began.          *)
Step(kind, changes) ==
    [kind |-> kind, timestamp |-> minutes, changes |-> changes,
     counter |-> counter + 1, before |-> [r \in Undoable |-> rows[r]]]

HasChanges(step) == step.changes # <<>> \/ step.kind = "Custom"

PushBug(steps, step) == <<step>> \o steps

Push(steps, step) ==
    <<step>> \o SubSeq(steps, 1, IF Len(steps) < UNDO_LIMIT THEN Len(steps)
                                                            ELSE UNDO_LIMIT - 1)

Store(s, queues) ==
    /\ rows' = s.rows /\ mod' = s.mod /\ card_queues' = queues

(* transact for an ordinary operation, which made the changes of s.        *)
Transact(kind, s) ==
    LET done == IF s.changes = <<>> THEN s ELSE SetModified(s, clk + 1)
        step == Step(kind, IF Coalesces(kind, done.changes, undo_steps)
                           THEN <<>> ELSE done.changes)
    IN  /\ ~panicked /\ Tick
        /\ Store(done, QueuesAfter(kind, done))
        /\ redo_steps' = <<>>
        /\ undo_steps' = IF HasChanges(step) /\ kind # "SkipUndo"
                         THEN Push(undo_steps, step) ELSE undo_steps
        /\ counter' = counter + 1
        /\ UNCHANGED <<last_sync, panicked, minutes, day, syncs>>

-----------------------------------------------------------------------------
(* The operations of a collection.                                         *)

UpdateNote(n) == Transact("UpdateNote", EditRow(Opened, n))

(* Saving a note as it is starts a step and ends it without a change.      *)
UpdateNoteUnchanged == Transact("UpdateNote", Opened)

(* The answer changes the deck's counts and the card, and moves the card   *)
(* on in the queues if it came from there.                                 *)
AnswerCard ==
    LET s == EditRow(EditRow(Opened, Deck), Card)
    IN  Transact("AnswerCard",
                 IF card_queues = NoQueues THEN s
                 ELSE Save(s, QueueChange(card_queues.built)))

SetDeckCollapsed == Transact("SkipUndo", EditRow(Opened, Deck))

DiscardUndoAndStudyQueues ==
    undo_steps' = <<>> /\ redo_steps' = <<>> /\ card_queues' = NoQueues

(* transact_no_undo.                                                       *)
UpdateNoteNoUndo(n) ==
    /\ ~panicked /\ Tick
    /\ rows' = [rows EXCEPT ![n] = [ed |-> clk + 1, pending |-> TRUE]]
    /\ mod' = clk + 1
    /\ DiscardUndoAndStudyQueues
    /\ UNCHANGED <<last_sync, counter, panicked, minutes, day, syncs>>

(* An operation that fails is rolled back, and nothing can be undone.      *)
FailOperation ==
    /\ ~panicked /\ Tick
    /\ DiscardUndoAndStudyQueues
    /\ counter' = counter + 1
    /\ UNCHANGED <<rows, mod, last_sync, panicked, minutes, day, syncs>>

(* get_queues, when the reviewer asks for the next card.                   *)
GetQueues ==
    LET checked == ClearIfDayChanged(Opened)
    IN  /\ ~panicked /\ Tick
        /\ undo_steps' = IF checked.active THEN undo_steps ELSE <<>>
        /\ redo_steps' = IF checked.active THEN redo_steps ELSE <<>>
        /\ card_queues' = IF checked.queues = NoQueues
                          THEN [built |-> clk + 1, day |-> day] ELSE checked.queues
        /\ UNCHANGED <<rows, mod, last_sync, counter, panicked, minutes, day, syncs>>

AddCustomUndoStep ==
    /\ ~panicked /\ Tick
    /\ undo_steps' = Push(undo_steps, Step("Custom", <<>>))
    /\ redo_steps' = <<>>
    /\ counter' = counter + 1
    /\ UNCHANGED <<rows, mod, last_sync, card_queues, panicked, minutes, day, syncs>>

(* The steps above the target join it, in the order they were made.        *)
Merged(steps, i) ==
    [steps[i] EXCEPT !.changes = FoldLeft(LAMBDA all, s : all \o s.changes, @,
                                          Reverse(SubSeq(steps, 1, i - 1)))]

CounterAfterMergeBug(target) == target.counter - 1

CounterAfterMerge(target) == target.counter

MergeUndoableOps(i) ==
    /\ ~panicked
    /\ undo_steps' = <<Merged(undo_steps, i)>>
                       \o SubSeq(undo_steps, i + 1, Len(undo_steps))
    /\ counter' = CounterAfterMerge(undo_steps[i])
    /\ UNCHANGED <<rows, mod, last_sync, redo_steps, card_queues, panicked,
                   clk, minutes, day, syncs>>

-----------------------------------------------------------------------------
(* undo_inner: a step is taken off its stack, its changes are undone in a  *)
(* transaction of the same kind, and the transaction's step goes on the    *)
(* other stack.  op_changes expects current_step after the commit.         *)

Perform(step, undone, redone, undoing) ==
    LET s     == UndoAll(Opened, step.changes)
        inner == Step(step.kind, IF Coalesces(step.kind, s.changes, undone)
                                 THEN <<>> ELSE s.changes)
    IN  /\ ~panicked /\ Tick
        /\ Store(s, QueuesAfter(step.kind, s))
        /\ panicked' = ~s.active
        /\ undo_steps' = IF ~s.active THEN <<>>
                         ELSE IF undoing \/ ~HasChanges(inner) THEN undone
                         ELSE Push(undone, inner)
        /\ redo_steps' = IF ~s.active THEN <<>>
                         ELSE IF undoing /\ HasChanges(inner)
                         THEN Append(redone, inner) ELSE redone
        /\ counter' = counter + 1
        /\ UNCHANGED <<last_sync, minutes, day, syncs>>

Undo == undo_steps # <<>> /\ Perform(Head(undo_steps), Tail(undo_steps), redo_steps, TRUE)

Redo == redo_steps # <<>> /\ Perform(Last(redo_steps), undo_steps, Front(redo_steps), FALSE)

-----------------------------------------------------------------------------
(* A normal sync, which discards what can be undone: it leaves nothing     *)
(* pending, and the modification time of the server.                       *)
Sync ==
    /\ ~panicked /\ Tick
    /\ syncs < MaxSyncs /\ syncs' = syncs + 1
    /\ rows' = [r \in Rows |-> [rows[r] EXCEPT !.pending = FALSE]]
    /\ mod' = clk + 1 /\ last_sync' = clk + 1
    /\ DiscardUndoAndStudyQueues
    /\ UNCHANGED <<counter, panicked, minutes, day>>

(* The program ends; the stacks are only in memory.                        *)
Restart ==
    /\ Tick
    /\ DiscardUndoAndStudyQueues
    /\ counter' = 0 /\ panicked' = FALSE
    /\ UNCHANGED <<rows, mod, last_sync, minutes, day, syncs>>

NextMinute ==
    /\ minutes < MaxMinutes /\ minutes' = minutes + 1
    /\ UNCHANGED <<rows, mod, last_sync, undo_steps, redo_steps, counter,
                   card_queues, panicked, clk, day, syncs>>

NextDay ==
    /\ day < MaxDay /\ day' = day + 1
    /\ UNCHANGED <<rows, mod, last_sync, undo_steps, redo_steps, counter,
                   card_queues, panicked, clk, minutes, syncs>>

Next ==
    \/ \E n \in Notes : UpdateNote(n) \/ UpdateNoteNoUndo(n)
    \/ UpdateNoteUnchanged \/ AnswerCard \/ SetDeckCollapsed \/ FailOperation
    \/ GetQueues
    \/ AddCustomUndoStep \/ \E i \in DOMAIN undo_steps : MergeUndoableOps(i)
    \/ Undo \/ Redo
    \/ Sync \/ Restart \/ NextMinute \/ NextDay

Spec == Init /\ [][Next]_vars

-----------------------------------------------------------------------------
(* Properties.                                                             *)

Row    == [ed : 0..MaxClock, pending : BOOLEAN]
IsStep(step) ==
    /\ step.kind \in {"UpdateNote", "AnswerCard", "Custom"}
    /\ step.counter \in 1..MaxClock
    /\ step.before \in [Undoable -> Row]

(* The stacks stay within the limit.                                       *)
TypeOK ==
    /\ rows \in [Rows -> Row] /\ mod \in 0..clk /\ last_sync \in 0..clk
    /\ Len(undo_steps) <= UNDO_LIMIT /\ Len(redo_steps) <= UNDO_LIMIT
    /\ \A i \in DOMAIN undo_steps : IsStep(undo_steps[i])
    /\ \A i \in DOMAIN redo_steps : IsStep(redo_steps[i])
    /\ card_queues \in [built : 0..clk, day : 0..day]

Restores(step, s) == \A r \in Undoable : s.rows[r] = step.before[r]

(* Whatever was done, undone, redone, coalesced and merged, undoing i      *)
(* steps gives the notes and the card as they were when the i-th step from *)
(* the top began, with their usns.                                         *)
UndoRestores ==
    \A i \in DOMAIN undo_steps :
        Restores(undo_steps[i],
                 FoldLeft(LAMBDA s, step : UndoAll(s, step.changes), Opened,
                          SubSeq(undo_steps, 1, i)))

(* ... and redoing i steps gives them as they were before the undo of the  *)
(* i-th.                                                                   *)
RedoRestores ==
    \A i \in DOMAIN redo_steps :
        Restores(redo_steps[i],
                 FoldLeft(LAMBDA s, step : UndoAll(s, step.changes), Opened,
                          Reverse(SubSeq(redo_steps, i, Len(redo_steps)))))

(* merge_undoable_ops finds its target by its counter: no two steps have   *)
(* the same, although a merge turns the counter back.                      *)
CountersIdentifySteps ==
    \A i \in DOMAIN undo_steps :
        /\ undo_steps[i].counter <= counter
        /\ i > 1 => undo_steps[i].counter < undo_steps[i - 1].counter

StatusIsNoChanges == mod <= last_sync

(* Undo gives the collection its old modification time back, and with it   *)
(* the status "no changes": it does so only when no note and no card is    *)
(* left to be synced.                                                      *)
NoEditUnreported == StatusIsNoChanges => \A r \in Undoable : ~rows[r].pending

(* op_changes is only called while there is a current step.                *)
NoPanic == ~panicked

=============================================================================
