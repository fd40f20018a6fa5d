----------------------------- MODULE StudyQueue -----------------------------
(***************************************************************************)
(* The study queue of a collection (rslib/src/scheduler/queue): it is      *)
(* built from the cards once, and then moved on by each answer, undo and   *)
(* redo instead of being built again.  The module keeps the cards and the  *)
(* queue side by side, as the database and the memory of the program do.   *)
(*                                                                         *)
(* Time is in seconds within one day; CollectionUndo has the rollover.     *)
(* BuryCard stands for every operation that clears the queue.  Daily       *)
(* limits, the load balancer and the limit of the undo stack are left out, *)
(* and any order of the main queue stands for the sort orders and mixes of *)
(* the deck options.  A definition named ...Bug is a faulty variant of the *)
(* definition after it, and belongs to no specification.                   *)
(***************************************************************************)
EXTENDS Integers, SequencesExt, FiniteSets

CONSTANTS
    Cards,
    NoCard,
    NoteOf,       \* NoteOf[c]: the note of c
    FirstQueue,   \* FirstQueue[c]: New, or Review or DayLearn and due today
    Previewed,    \* the cards that are in a filtered deck that only previews
    Bury,         \* Bury[c]: the queues whose cards a sibling c buries
    Ahead,        \* learn_ahead_secs
    Steps,        \* the delays of learning steps, fuzz included
    Tomorrow,     \* next_day_at
    MaxTime,      \* bound on the time
    MaxOps        \* bound on the answers, undos, redos and buryings

ASSUME QueueParameters ==
    /\ NoCard \notin Cards
    /\ FirstQueue \in [Cards -> {"New", "Review", "DayLearn"}]
    /\ Bury \in [Cards -> SUBSET {"New", "Review", "DayLearn"}]
    /\ Previewed \subseteq Cards
    /\ Ahead \in Nat /\ Steps \subseteq Nat \ {0}
    /\ MaxTime \in Nat \ {0} /\ Tomorrow \in Nat /\ MaxTime < Tomorrow
    /\ IsFiniteSet(Cards)

VARIABLES
    cards,        \* the rows of the cards
    queues,       \* the queue, or NoQueues
    shown,        \* the card the reviewer shows, or NoCard
    undo_steps,   \* the newest step comes first
    redo_steps,   \* the step to redo next comes first
    now,
    builds,       \* how often the queue was built; tells build times apart
    ops

vars == <<cards, queues, shown, undo_steps, redo_steps, now, builds, ops>>

NoQueues == [built |-> 0, counts |-> [new |-> 0, learning |-> 0, review |-> 0],
             main |-> <<>>, learning |-> <<>>, cutoff |-> 0]

(* A filtered deck that previews has all its cards in the review queue.    *)
(* The due date of a card due today or before is 0, a later day Tomorrow.  *)
Init ==
    /\ cards = [c \in Cards |->
                  [queue |-> IF c \in Previewed THEN "Review" ELSE FirstQueue[c],
                   due |-> 0, mtime |-> 0, here |-> TRUE,
                   reps |-> IF FirstQueue[c] = "New" THEN 0 ELSE 1]]
    /\ queues = NoQueues /\ shown = NoCard
    /\ undo_steps = <<>> /\ redo_steps = <<>>
    /\ now = 1 /\ builds = 0 /\ ops = 0

IsIntraday(row) == row.queue \in {"Learn", "PreviewRepeat"}

Entry(c, row) ==
    [id |-> c, mtime |-> row.mtime,
     kind |-> IF IsIntraday(row) THEN "Learn" ELSE row.queue,
     due |-> row.due, reps |-> row.reps]

(* cmp_by_reps_then_due.                                                   *)
Before(e, f) ==
    IF (e.reps = 0) = (f.reps = 0) THEN e.due < f.due ELSE f.reps = 0

CountOf(e) == CASE e.kind = "New" -> "new" [] e.kind = "Review" -> "review"
                [] OTHER -> "learning"

AheadCutoff(q) == q.cutoff + Ahead

DueBy(learning, time) == SelectInSeq(learning, LAMBDA e : e.due <= time)   \* or 0

NoEntry == [id |-> NoCard]

(* What CardQueues::iter gives first: it goes through what is due now, the *)
(* main queue and what is due soon.                                        *)
Top(q) ==
    LET first == DueBy(q.learning, q.cutoff)
        soon  == DueBy(q.learning, AheadCutoff(q))
    IN  IF first # 0 THEN q.learning[first]
        ELSE IF q.main # <<>> THEN Head(q.main)
        ELSE IF soon # 0 THEN q.learning[soon] ELSE NoEntry

-----------------------------------------------------------------------------
(* Building the queue.                                                     *)

GatherOrd(queue) == CASE queue \in {"Learn", "PreviewRepeat"} -> 0
                      [] queue = "DayLearn" -> 1
                      [] queue = "Review"   -> 2
                      [] queue = "New"      -> 3

DueRow(row) ==
    /\ row.here
    /\ IF IsIntraday(row) THEN row.due <= Tomorrow
       ELSE row.queue \in {"DayLearn", "Review", "New"} /\ row.due < Tomorrow

Due == {c \in Cards : DueRow(cards[c])}

(* The orders in which gather_cards may visit the cards.                   *)
Visits == {v \in SetToSeqs(Due) :
             \A i, j \in DOMAIN v :
                i < j => GatherOrd(cards[v[i]].queue) <= GatherOrd(cards[v[j]].queue)}

(* A card is skipped when a sibling visited before buries its queue.       *)
Gathered(v) ==
    {c \in Due : ~\E i, j \in DOMAIN v :
        /\ i < j /\ v[j] = c /\ NoteOf[v[i]] = NoteOf[c]
        /\ cards[c].queue \in Bury[v[i]]}

Entries(cs) == {Entry(c, cards[c]) : c \in cs}

DueSoon(learning, cutoff) == Cardinality({i \in DOMAIN learning : learning[i].due <= cutoff})

OfKind(main, kind) == Cardinality({i \in DOMAIN main : main[i].kind = kind})

(* The cards of each kind that wait in a queue.                            *)
CountsOver(main, learning, ahead) ==
    [new |-> OfKind(main, "New"), review |-> OfKind(main, "Review"),
     learning |-> OfKind(main, "DayLearn") + DueSoon(learning, ahead)]

BuiltFrom(main, learning) ==
    [built |-> builds + 1, main |-> main, learning |-> learning, cutoff |-> now,
     counts |-> CountsOver(main, learning, now + Ahead)]

Intraday(cs) == {c \in cs : IsIntraday(cards[c])}

SortedSeqs(entries) ==
    {s \in SetToSeqs(entries) : \A i, j \in DOMAIN s : i < j => ~Before(s[j], s[i])}

BuildsOf(cs) ==
    {BuiltFrom(main, learning) : main \in SetToSeqs(Entries(cs \ Intraday(cs))),
                                 learning \in SortedSeqs(Entries(Intraday(cs)))}

Builds == UNION {BuildsOf(Gathered(v)) : v \in Visits}

-----------------------------------------------------------------------------
(* Operations on the queue.                                                *)

Learning(q, c) == SelectInSeq(q.learning, LAMBDA e : e.id = c)   \* or 0
AtFront(q, c)  == q.main # <<>> /\ Head(q.main).id = c
CanPop(q, c)   == Learning(q, c) # 0 \/ AtFront(q, c)

OneLess(n) == IF n = 0 THEN 0 ELSE n - 1     \* saturating_sub(1)

EntryOf(q, c) == IF Learning(q, c) # 0 THEN q.learning[Learning(q, c)] ELSE Head(q.main)

PopEntry(q, c) ==
    IF Learning(q, c) # 0
    THEN [q EXCEPT !.learning = RemoveAt(@, Learning(q, c)), !.counts.learning = OneLess(@)]
    ELSE LET kind == CountOf(Head(q.main))
         IN  [q EXCEPT !.main = Tail(@),
                       !.counts[kind] = IF kind = "learning" THEN OneLess(@) ELSE @ - 1]

PushAtBackBug(q, e) ==
    IF e.kind = "Learn"
    THEN [q EXCEPT !.learning = <<e>> \o @, !.counts.learning = @ + 1]
    ELSE [q EXCEPT !.main = Append(@, e), !.counts[CountOf(e)] = @ + 1]

PushUncountedBug(q, e) ==
    IF e.kind = "Learn" THEN [q EXCEPT !.learning = <<e>> \o @]
                        ELSE [q EXCEPT !.main = <<e>> \o @]

(* push_undo_entry: the entry goes to the front, out of the sort order.    *)
PushUndoEntry(q, e) ==
    IF e.kind = "Learn"
    THEN [q EXCEPT !.learning = <<e>> \o @, !.counts.learning = @ + 1]
    ELSE [q EXCEPT !.main = <<e>> \o @, !.counts[CountOf(e)] = @ + 1]

(* The places where a binary search may end; the queue need not be sorted. *)
Places(learning, e) ==
    {i \in 1..(Len(learning) + 1) :
        \/ /\ i > 1 => Before(learning[i - 1], e)
           /\ i <= Len(learning) => Before(e, learning[i])
        \/ /\ i <= Len(learning)
           /\ ~Before(learning[i], e) /\ ~Before(e, learning[i])}

InsertLearning(q, e, i) ==
    [q EXCEPT !.learning = InsertAt(@, i, e),
              !.counts.learning = IF e.due <= AheadCutoff(q) THEN @ + 1 ELSE @]

RemoveLearning(q, c) ==
    IF Learning(q, c) = 0 THEN q
    ELSE [q EXCEPT !.learning = RemoveAt(@, Learning(q, c)),
                   !.counts.learning = IF EntryOf(q, c).due <= AheadCutoff(q)
                                       THEN OneLess(@) ELSE @]

RecountsAllBug(q) ==
    [q EXCEPT !.cutoff = now, !.counts.learning = @ + DueSoon(q.learning, now + Ahead)]

(* The cutoff moves to the current time, and what it passes is counted.    *)
UpdateCutoff(q) ==
    [q EXCEPT !.cutoff = now,
              !.counts.learning = @ + DueSoon(q.learning, now + Ahead)
                                    - DueSoon(q.learning, AheadCutoff(q))]

RestoreCutoff(q, update) ==
    [q EXCEPT !.counts.learning = update.learning, !.cutoff = update.cutoff]

NoDelayBug(q, e) == e

(* requeue_learning_entry: a card that would come again at once is placed  *)
(* after the next one, if that is not too late.                            *)
RequeueEntry(q, e) ==
    LET next == Head(q.learning)
    IN  IF /\ e.due <= AheadCutoff(q) /\ q.main = <<>> /\ q.learning # <<>>
           /\ next.due >= e.due /\ next.due + 1 < AheadCutoff(q)
        THEN [e EXCEPT !.due = next.due + 1] ELSE e

-----------------------------------------------------------------------------
(* Steps for undo: old has the rows that were changed, update what became  *)
(* of the queue, and was the queue before an answer, as history.           *)

NoUpdate == [built |-> 0]

Step(kind, changed, update, was) ==
    [kind |-> kind, old |-> [c \in changed |-> cards[c]], update |-> update, was |-> was]

RestoredAsNewBug(step) ==
    [c \in Cards |-> IF c \in DOMAIN step.old THEN [step.old[c] EXCEPT !.mtime = now]
                                             ELSE cards[c]]

Restored(step) == [c \in Cards |-> IF c \in DOMAIN step.old THEN step.old[c] ELSE cards[c]]

Opposite(step) == Step(step.kind, DOMAIN step.old, step.update, step.was)

Operation == ops < MaxOps /\ ops' = ops + 1 /\ shown' = NoCard /\ UNCHANGED <<now, builds>>

(* A transaction that fails.                                               *)
Failed == /\ queues' = NoQueues /\ undo_steps' = <<>> /\ redo_steps' = <<>>
          /\ UNCHANGED cards

-----------------------------------------------------------------------------
(* The actions.                                                            *)

Tick == /\ now < MaxTime /\ now' = now + 1
        /\ UNCHANGED <<cards, queues, shown, undo_steps, redo_steps, builds, ops>>

(* counts() moves the cutoff when nothing is left, without a note of it.   *)
Counted(q) == IF \A k \in DOMAIN q.counts : q.counts[k] = 0 THEN UpdateCutoff(q) ELSE q

Fresh(e) == cards[e.id].mtime = e.mtime

(* get_queued_cards fails if the card was modified behind the queue.       *)
Show(q) ==
    LET top == Top(Counted(q))
    IN  /\ queues' = Counted(q)
        /\ shown' = IF top # NoEntry /\ Fresh(top) THEN top.id ELSE NoCard

(* The reviewer asks for the next card after each operation.               *)
GetQueuedCards ==
    /\ shown = NoCard
    /\ IF queues = NoQueues THEN (\E q \in Builds : Show(q)) /\ builds' = builds + 1
                            ELSE Show(queues) /\ UNCHANGED builds
    /\ UNCHANGED <<cards, undo_steps, redo_steps, now, ops>>

(* The rows that an answer may leave: a card in a preview comes again or   *)
(* goes home, another one learns, is done for today, or lapses as a leech. *)
Answers(c) ==
    LET row     == [cards[c] EXCEPT !.mtime = now]
        studied == [row EXCEPT !.reps = 1]
    IN  IF c \in Previewed
        THEN {[row EXCEPT !.queue = "PreviewRepeat", !.due = now + d] : d \in Steps}
             \cup {[row EXCEPT !.queue = FirstQueue[c], !.due = 0, !.here = FALSE]}
        ELSE {[studied EXCEPT !.queue = "Learn", !.due = now + d] : d \in Steps}
             \cup {[studied EXCEPT !.queue = k, !.due = Tomorrow] : k \in {"Review", "DayLearn"}}
             \cup {[studied EXCEPT !.queue = "Suspended"] : k \in {"Review"} \cap {row.queue}}

(* bury_siblings: queues gathered before the card's own are excluded.      *)
SiblingsForBury(c) ==
    {d \in Cards \ {c} :
        /\ NoteOf[d] = NoteOf[c] /\ cards[d].queue \in Bury[c]
        /\ GatherOrd(cards[c].queue) <= GatherOrd(cards[d].queue)}

Buried(c, queue) == [cards[c] EXCEPT !.queue = queue, !.mtime = now]

(* update_queues_after_answering_card, up to the cutoff.                   *)
Requeues(row) == IsIntraday(row) /\ row.due < Tomorrow

QueuesAfter(popped, c, row) ==
    LET entry == RequeueEntry(popped, Entry(c, row))
    IN  IF Requeues(row)
        THEN {InsertLearning(popped, entry, i) : i \in Places(popped.learning, entry)}
        ELSE {popped}

AnsweredAs(c, row, q) ==
    /\ queues' = UpdateCutoff(q)
    /\ cards'  = [d \in Cards |-> IF d = c THEN row
                                  ELSE IF d \in SiblingsForBury(c)
                                  THEN Buried(d, "SchedBuried") ELSE cards[d]]
    /\ undo_steps' =
         <<Step("AnswerCard", {c} \cup SiblingsForBury(c),
                [built |-> queues.built, entry |-> EntryOf(queues, c),
                 requeue |-> IF Requeues(row) THEN {EntryOf(q, c)} ELSE {},
                 learning |-> q.counts.learning, cutoff |-> q.cutoff],
                queues)>> \o undo_steps
    /\ redo_steps' = <<>>

AnswerCard ==
    /\ shown # NoCard /\ Operation
    /\ IF CanPop(queues, shown)
       THEN \E row \in Answers(shown) :
              \E q \in QueuesAfter(PopEntry(queues, shown), shown, row) :
                  AnsweredAs(shown, row, q)
       ELSE Failed

(* bury_or_suspend_cards by the user.                                      *)
BuryCard(c) ==
    /\ Operation
    /\ cards[c].queue \notin {"Suspended", "UserBuried"}
    /\ cards' = [cards EXCEPT ![c] = Buried(c, "UserBuried")]
    /\ queues' = NoQueues
    /\ undo_steps' = <<Step("Bury", {c}, NoUpdate, NoQueues)>> \o undo_steps
    /\ redo_steps' = <<>>

RemoveAll(q, entries) ==
    IF entries = {} THEN q ELSE RemoveLearning(q, (CHOOSE e \in entries : TRUE).id)

CutoffLastBug(q, update) ==
    RestoreCutoff(PushUndoEntry(RemoveAll(q, update.requeue), update.entry), update)

(* undo_queue_change of CardAnswered.                                      *)
UndoneQueue(q, update) ==
    PushUndoEntry(RemoveAll(RestoreCutoff(q, update), update.requeue), update.entry)

(* get_or_invalidate_queues: other builds know nothing of this answer.     *)
SameBuild(step) == queues # NoQueues /\ step.update.built = queues.built

Undo ==
    LET step == Head(undo_steps)
    IN  /\ undo_steps # <<>> /\ Operation
        /\ queues' = IF SameBuild(step) THEN UndoneQueue(queues, step.update) ELSE NoQueues
        /\ cards' = Restored(step)
        /\ undo_steps' = Tail(undo_steps)
        /\ redo_steps' = <<Opposite(step)>> \o redo_steps

(* undo_queue_change of CardAnswerUndone.                                  *)
RedoneQueues(q, update) ==
    LET popped == PopEntry(q, update.entry.id)
    IN  {RestoreCutoff(inserted, update) : inserted \in
            IF update.requeue = {} THEN {popped}
            ELSE UNION {{InsertLearning(popped, e, i) : i \in Places(popped.learning, e)}
                        : e \in update.requeue}}

RedoFinds(step) == SameBuild(step) => CanPop(queues, step.update.entry.id)

Redo ==
    LET step == Head(redo_steps)
    IN  /\ redo_steps # <<>> /\ Operation
        /\ IF RedoFinds(step)
           THEN /\ queues' \in IF SameBuild(step) THEN RedoneQueues(queues, step.update)
                                                 ELSE {NoQueues}
                /\ cards' = Restored(step)
                /\ undo_steps' = <<Opposite(step)>> \o undo_steps
                /\ redo_steps' = Tail(redo_steps)
           ELSE Failed

Next ==
    \/ Tick \/ GetQueuedCards \/ AnswerCard \/ Undo \/ Redo
    \/ \E c \in Cards : BuryCard(c)

Spec == Init /\ [][Next]_vars

-----------------------------------------------------------------------------
(* Properties.                                                             *)

AtRollover == {c \in Cards : IsIntraday(cards[c]) /\ cards[c].due = Tomorrow}

Queued == ToSet(queues.main) \cup ToSet(queues.learning)

(* The counts are unsigned in the code, and an entry is in the queue of    *)
(* its kind; the cutoff is not ahead of the time.                          *)
TypeOK ==
    /\ queues.counts \in [new : Nat, learning : Nat, review : Nat]
    /\ \A e \in ToSet(queues.main) : e.id \in Cards /\ e.kind \in {"New", "Review", "DayLearn"}
    /\ \A e \in ToSet(queues.learning) : e.id \in Cards /\ e.kind = "Learn" /\ e.due <= Tomorrow + Ahead
    /\ queues.cutoff <= now /\ queues.built <= builds
    /\ shown \in Cards \cup {NoCard}
    /\ \A c \in Cards : cards[c].mtime <= now

(* The counts, which each operation of the queue adjusts and the reviewer  *)
(* shows, are those of a count over the queue.                             *)
CountsAgree ==
    queues.counts = CountsOver(queues.main, queues.learning, AheadCutoff(queues))

(* Siblings are buried alike, and by those of any queue gathered before.   *)
(* Otherwise a card that moved to the learning queue buries siblings that  *)
(* were gathered before it.                                                *)
BuriedAlike ==
    /\ \A c, d \in Cards : NoteOf[c] = NoteOf[d] => Bury[c] = Bury[d]
    /\ \A c \in Cards : \A k \in Bury[c], m \in {"New", "Review", "DayLearn"} :
          GatherOrd(k) <= GatherOrd(m) => m \in Bury[c]

(* Where siblings are BuriedAlike, answers, undo and redo                  *)
(* leave a queue that a rebuild could have given: each card once, in the   *)
(* state it was queued in, and none missing that a rebuild would show.     *)
(* Only a card due in the very second of the rollover may be: it is not    *)
(* requeued (due >= next_day_at), but gathered (due <= next_day_at).       *)
QueueMatchesCards ==
    queues # NoQueues =>
        /\ Len(queues.main) + Len(queues.learning) = Cardinality({e.id : e \in Queued})
        /\ \A e \in Queued : Fresh(e) /\ e.kind = Entry(e.id, cards[e.id]).kind
        /\ \E v \in Visits : Gathered(v) \ AtRollover = {e.id : e \in Queued} \ AtRollover

(* undo_queue_change of the last answer gives back the queue it was given  *)
(* to, however long ago that was and whatever was undone since: the same   *)
(* card on top, the main queue in the same order, the same learning cards, *)
(* and the counts and the cutoff. The learning cards behind the first may  *)
(* come in another order, as an undone card is pushed in front of cards    *)
(* that rank before it.                                                    *)
UndoGivesBack ==
    LET step   == Head(undo_steps)
        undone == UndoneQueue(queues, step.update)
    IN  undo_steps # <<>> /\ SameBuild(step) =>
            /\ Top(undone) = Top(step.was)
            /\ undone.main = step.was.main
            /\ ToSet(undone.learning) = ToSet(step.was.learning)
            /\ undone.counts = step.was.counts /\ undone.cutoff = step.was.cutoff

(* An answer and a redo find their card at the top of the queue (pop_entry *)
(* gives an error if not, and everything that could be undone is lost).    *)
CardIsAtTop ==
    /\ shown # NoCard => CanPop(queues, shown)
    /\ redo_steps # <<>> => RedoFinds(Head(redo_steps))

(* A card that was answered is not the next to be shown if the card after  *)
(* it in the learning queue is due soon enough to take its place           *)
(* (maybe_requeue_learning_card), except that a card never attempted ranks *)
(* behind one that was. Cards further back do not count: while a card that *)
(* is not due soon leads them, the answered one may come again at once.    *)
NotShownAgain ==
    LET top  == Top(queues')
        rest == PopEntry(queues, shown).learning
        next == Head(rest)
    IN  AnswerCard /\ top.id = shown /\ rest # <<>> =>
            \/ next.due + 1 >= AheadCutoff(queues)
            \/ next.reps = 0 /\ top.reps # 0

NeverShownAgain == [][NotShownAgain]_vars

(* require! in get_queued_cards: the card was not modified without the     *)
(* queue being updated.                                                    *)
NoStaleEntry ==
    Top(queues) # NoEntry => Fresh(Top(queues))
=============================================================================
