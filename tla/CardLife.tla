------------------------------ MODULE CardLife ------------------------------
(***************************************************************************)
(* What the operations of the scheduler make of a card: answers,           *)
(* suspending and burying, forgetting, due dates, positions, moves between *)
(* decks, and the filtered decks that borrow cards from their home decks   *)
(* (rslib/src/scheduler, rslib/src/card, rslib/src/decks/remove.rs).       *)
(*                                                                         *)
(* A card's due is a position, a day or a timestamp, and which of them is  *)
(* only told by the other columns.  A position or a day is a small number, *)
(* a timestamp one above Epoch; cards in a filtered deck wait at Front.    *)
(* Intervals are any of Intervals: how they are computed is left out.      *)
(* A definition named ...Bug is a faulty variant of the definition after   *)
(* it, and belongs to no specification.                                    *)
(***************************************************************************)
EXTENDS Integers, Sequences, FiniteSets

CONSTANTS
    Cards,          \* the cards, all of one note
    Decks,          \* the normal decks
    Home,           \* the one that all cards are in at first, never removed
    FilteredDecks,
    LearnSteps,     \* LearnSteps[d]: the delays of the learning steps of d
    RelearnSteps,
    BuryQueues,     \* the queues whose cards are buried with a sibling
    Positions,      \* positions of new cards
    FirstDay, LastDay,
    Intervals,      \* days between reviews
    DueDays,        \* days from today that the user may set as the due date
    ByUser,         \* what the user does to cards: Suspended or UserBuried
    ShortTerm,      \* whether FSRS may give intervals of less than half a day
    Finishing,      \* the buttons without a delay in a deck of previews
    MaxPosition,    \* bound on the positions of cards that are shifted
    MaxOvernight    \* bound on the cards there may be when a new day comes

None == "none"
NoPosition == -1
Front == -100000
Epoch == 1000000000
Now == Epoch + 1

ASSUME CardLifeParameters ==
    /\ Home \in Decks /\ None \notin Decks \cup FilteredDecks
    /\ Decks \cap FilteredDecks = {}
    /\ LearnSteps \in [Decks -> Seq(Nat)] /\ RelearnSteps \in [Decks -> Seq(Nat)]
    /\ BuryQueues \subseteq {"New", "Review", "DayLearn"}
    /\ ByUser \subseteq {"Suspended", "UserBuried"} /\ ShortTerm \in BOOLEAN
    /\ Finishing \subseteq {"Again", "Hard", "Good", "Easy"} /\ "Easy" \in Finishing
    /\ MaxOvernight \in Nat

(* Neither a position nor a day is 0, which in odue says that no due was    *)
(* saved, and none is taken for a timestamp.                                *)
ASSUME DuesApart ==
    /\ MaxPosition \in 1..Epoch /\ Positions \subseteq 1..MaxPosition
    /\ LastDay \in Nat /\ FirstDay \in 1..LastDay
    /\ Intervals \subseteq Nat \ {0} /\ DueDays \subseteq Nat
    /\ \A i \in Intervals \cup DueDays : LastDay + i <= Epoch

VARIABLES
    card,           \* the row of each card, NoCard once it is deleted
    filtered,       \* what each filtered deck is: None, "reschedule" or "preview"
    decks,          \* the normal decks that exist
    today,          \* days since the collection was created
    last_unburied,  \* the day on which cards were last unburied
    came,           \* history: each card in a deck of previews as it came there
    place           \* history: the position each card was last given

vars == <<card, filtered, decks, today, last_unburied, came, place>>

Ratings == {"Again", "Hard", "Good", "Easy"}
Buried == {"SchedBuried", "UserBuried"}
NotDue == {"Suspended"} \cup Buried

NoCard == [ctype |-> None]

NewCard(position) ==
    [ctype |-> "New", queue |-> "New", due |-> position, did |-> Home,
     odue |-> 0, odid |-> None, pos |-> NoPosition, left |-> 0]

Existing == {c \in Cards : card[c] # NoCard}

(* What a card came as is forgotten when it leaves.                         *)
KeepCame == came' = [c \in Cards |-> IF card'[c] # NoCard /\ card'[c].odid # None
                                     THEN came[c] ELSE NoCard]

Init ==
    /\ card \in [Cards -> {NewCard(p) : p \in Positions} \cup {NoCard}]
    /\ filtered = [f \in FilteredDecks |-> None]
    /\ decks = Decks
    /\ today = FirstDay /\ last_unburied = FirstDay
    /\ came = [c \in Cards |-> NoCard]
    /\ place = [c \in Cards |-> IF card[c] = NoCard THEN 0 ELSE card[c].due]

-----------------------------------------------------------------------------
(* The columns of a card (Card, scheduler/filtered/card.rs, new.rs).        *)

IsTimestamp(due) == due > Epoch

IsFiltered(k) == k.odid # None
HomeDeck(k) == IF IsFiltered(k) THEN k.odid ELSE k.did
OriginalOrCurrentDue(k) == IF IsFiltered(k) THEN k.odue ELSE k.due
LastPosition(k) == IF k.ctype = "New" THEN OriginalOrCurrentDue(k) ELSE k.pos

RestoreQueueFromType(k) ==
    [k EXCEPT !.queue = IF k.ctype \in {"New", "Review"} THEN k.ctype
                        ELSE IF IsTimestamp(k.due) THEN "Learn" ELSE "DayLearn"]

SavedTooLateBug(k, f, kind) ==
    IF k.odue # 0 THEN k
    ELSE [k EXCEPT !.odid = k.did, !.did = f, !.queue = IF kind = "preview" THEN "Review" ELSE @,
                   !.due = IF @ > 0 THEN Front ELSE @, !.odue = IF k.due > 0 THEN Front ELSE @]

(* A card whose original due is set stays where it is: "bug: odue was set". *)
MoveIntoFilteredDeck(k, f, kind) ==
    IF k.odue # 0 THEN k
    ELSE [k EXCEPT !.odid = k.did, !.did = f, !.odue = k.due,
                   !.queue = IF kind = "preview" THEN "Review" ELSE @,
                   !.due = IF @ > 0 THEN Front ELSE @]

RemoveBeforeReschedule(k) ==
    IF IsFiltered(k) THEN [k EXCEPT !.did = k.odid, !.odid = None, !.odue = 0] ELSE k

QueueBeforeDueBug(k) ==
    LET home == RemoveBeforeReschedule(IF k.queue \in NotDue THEN k ELSE RestoreQueueFromType(k))
    IN IF IsFiltered(k) THEN [home EXCEPT !.due = IF k.odue # 0 THEN k.odue ELSE @] ELSE k

RemoveRestoringQueue(k) ==
    LET home == [RemoveBeforeReschedule(k) EXCEPT
                   !.due = IF k.odue # 0 THEN k.odue ELSE @]
    IN IF ~IsFiltered(k) THEN k
       ELSE IF k.queue \in NotDue THEN home ELSE RestoreQueueFromType(home)

ScheduleAsNew(k, position, restore) ==
    LET last == IF restore THEN LastPosition(k) ELSE NoPosition IN
    [RemoveBeforeReschedule(k) EXCEPT
       !.due = IF last = NoPosition THEN position ELSE last,
       !.ctype = "New", !.queue = "New", !.pos = NoPosition]

PositionTooLateBug(k, due) ==
    LET home == RemoveBeforeReschedule(k) IN
    [home EXCEPT !.pos = LastPosition(home), !.due = due, !.ctype = "Review", !.queue = "Review"]

ScheduleAsReview(k, due) ==
    LET last == LastPosition(k) IN
    [RemoveBeforeReschedule([k EXCEPT !.pos = last]) EXCEPT
       !.due = due, !.ctype = "Review", !.queue = "Review"]

SetNewPosition(k, position) ==
    IF k.ctype = "New" /\ IsFiltered(k) THEN [k EXCEPT !.odue = position]
    ELSE IF "New" \in {k.ctype, k.queue} THEN [k EXCEPT !.due = position]
    ELSE k

-----------------------------------------------------------------------------
(* Learning steps (scheduler/states, Card::new_remaining_steps).            *)

Larger(x, y) == IF x > y THEN x ELSE y
Smaller(x, y) == IF x < y THEN x ELSE y

(* The index of the current step, from 0 (LearningSteps::get_index).        *)
StepIndex(n, left) == Smaller(Larger(n - left, 0), Larger(n - 1, 0))

(* Where one of n steps leads: to a step, or, for want of one, to a review  *)
(* or to a delay of less than half a day, which FSRS may prefer.            *)
Stepped(ctype, rating, left, n) ==
    LET step(l) == {[ctype |-> ctype, left |-> l]}
        done(l) == {[ctype |-> "Review", left |-> 0]} \cup IF ShortTerm THEN step(l) ELSE {}
        next == Larger(n - (StepIndex(n, left) + 1), 0)
    IN CASE rating = "Again" -> IF n > 0 THEN step(n) ELSE done(n)
         [] rating = "Hard"  -> IF n > 0 THEN step(left) ELSE done(left)
         [] rating = "Good"  -> IF next > 0 THEN step(next)
                                ELSE done(IF ctype = "Learn" THEN left ELSE next)
         [] rating = "Easy"  -> {[ctype |-> "Review", left |-> 0]}

NextStates(k, rating) ==
    LET learn == Len(LearnSteps[HomeDeck(k)])
        relearn == Len(RelearnSteps[HomeDeck(k)])
    IN CASE k.ctype = "New"     -> Stepped("Learn", rating, learn, learn)
         [] k.ctype = "Learn"   -> Stepped("Learn", rating, k.left, learn)
         [] k.ctype = "Relearn" -> Stepped("Relearn", rating, k.left, relearn)
         [] k.ctype = "Review"  -> IF rating = "Again"
                                   THEN Stepped("Relearn", rating, 0, relearn)
                                   ELSE {[ctype |-> "Review", left |-> 0]}

(* As many steps as come after the last new one that is not longer than     *)
(* the old step that was passed last.                                       *)
NewRemainingSteps(left, new_steps, old_steps) ==
    LET passed == Len(old_steps) - left
        after == {j \in 1..Len(new_steps) : \A i \in j..Len(new_steps) :
                    passed >= 1 => new_steps[i] > old_steps[passed]}
    IN IF old_steps = <<>> THEN left ELSE Larger(Cardinality(after), 1)

AdjustRemainingSteps(k, d) ==
    LET adjusted(steps) == NewRemainingSteps(k.left, steps[d], steps[HomeDeck(k)])
    IN CASE k.ctype = "Learn"   -> [k EXCEPT !.left = adjusted(LearnSteps)]
         [] k.ctype = "Relearn" -> [k EXCEPT !.left = adjusted(RelearnSteps)]
         [] OTHER -> k

-----------------------------------------------------------------------------
(* Answers (scheduler/answering).                                           *)

(* NewState::position, as current_card_state finds it.                      *)
CurrentPosition(k) ==
    Larger(0, IF k.did \in FilteredDecks /\ k.odue # 0 THEN k.odue ELSE k.due)

(* apply_learning_state, apply_relearning_state and apply_review_state: the *)
(* delay of a step stays within the day or passes the rollover.             *)
Scheduled(k, state, position) ==
    LET base == [k EXCEPT !.ctype = state.ctype, !.left = state.left,
                          !.pos = IF position = NoPosition THEN @ ELSE position]
        later(queue) == {[base EXCEPT !.queue = queue, !.due = today + i] : i \in Intervals}
    IN IF state.ctype = "Review" THEN later("Review")
       ELSE {[base EXCEPT !.queue = "Learn", !.due = Now]} \cup later("DayLearn")

(* apply_normal_study_state: a lapse may make the card a leech.             *)
NormalAnswer(k, from, state, rating) ==
    LET position == IF from.ctype = "New" THEN CurrentPosition(from) ELSE NoPosition
        answered == Scheduled(k, state, position)
        leech == from.ctype = "Review" /\ rating = "Again"
    IN answered \cup IF leech THEN {[a EXCEPT !.queue = "Suspended"] : a \in answered} ELSE {}

PreviewAnswer(k, rating) ==
    IF rating \in Finishing THEN RemoveRestoringQueue(k)
    ELSE [k EXCEPT !.queue = "PreviewRepeat", !.due = Now]

(* apply_study_state: in a filtered deck that reschedules, a card stays     *)
(* until it becomes a review card.                                          *)
AnswerOutcomes(k, rating) ==
    IF k.did \in Decks THEN UNION {NormalAnswer(k, k, s, rating) : s \in NextStates(k, rating)}
    ELSE IF filtered[k.did] = "preview" THEN {PreviewAnswer(k, rating)}
    ELSE UNION {IF s.ctype = "Review"
                THEN NormalAnswer(RemoveBeforeReschedule(k), k, s, rating)
                ELSE {[a EXCEPT !.odue = a.due] : a \in NormalAnswer(k, k, s, rating)}
                : s \in NextStates(k, rating)}

GatherOrd(queue) == CASE queue \in {"Learn", "PreviewRepeat"} -> 0
                      [] queue = "DayLearn" -> 1
                      [] queue = "Review"   -> 2
                      [] queue = "New"      -> 3
                      [] queue \in NotDue   -> 255

(* bury_siblings of c: queues gathered before its own are excluded.         *)
SiblingBuried(c, s) ==
    /\ s # c /\ s \in Existing /\ card[s].queue \in BuryQueues
    /\ card[s].queue # "New" => GatherOrd(card[c].queue) <= GatherOrd(card[s].queue)

Answer(c, rating) ==
    /\ \E k \in AnswerOutcomes(card[c], rating) :
         card' = [s \in Cards |-> IF s = c THEN k
                                  ELSE IF SiblingBuried(c, s)
                                  THEN [card[s] EXCEPT !.queue = "SchedBuried"]
                                  ELSE card[s]]
    /\ KeepCame /\ UNCHANGED <<filtered, decks, today, last_unburied, place>>

-----------------------------------------------------------------------------
(* The other operations.                                                    *)

Schedule == <<filtered, decks, today, last_unburied>>

(* bury_or_suspend_cards: what is suspended is not buried.                  *)
BuryOrSuspend(c, queue) ==
    /\ card[c].queue \notin {queue, "Suspended"}
    /\ card' = [card EXCEPT ![c].queue = queue]
    /\ UNCHANGED <<Schedule, came, place>>

(* unbury_or_unsuspend_cards, unbury_deck.                                  *)
UnburyOrUnsuspend(c) ==
    /\ card[c].queue \in NotDue
    /\ card' = [card EXCEPT ![c] = RestoreQueueFromType(@)]
    /\ UNCHANGED <<Schedule, came, place>>

NewDay ==
    /\ today < LastDay /\ Cardinality(Existing) <= MaxOvernight
    /\ today' = today + 1
    /\ UNCHANGED <<card, filtered, decks, last_unburied, came, place>>

(* unbury_if_day_rolled_over, when queues or deck counts are next wanted;   *)
(* the clock is not set back, so that the last day is never ahead of today. *)
UnburyOnRollover ==
    /\ last_unburied < today
    /\ card' = [c \in Cards |-> IF c \in Existing /\ card[c].queue \in Buried
                                THEN RestoreQueueFromType(card[c]) ELSE card[c]]
    /\ last_unburied' = today
    /\ UNCHANGED <<filtered, decks, today, came, place>>

(* reschedule_cards_as_new.                                                 *)
Forget(c, position, restore) ==
    /\ card' = [card EXCEPT ![c] = ScheduleAsNew(@, position, restore)]
    /\ place' = [place EXCEPT ![c] = IF restore /\ LastPosition(card[c]) # NoPosition
                                     THEN @ ELSE position]
    /\ KeepCame
    /\ UNCHANGED Schedule

SetDueDate(c, days) ==
    /\ card' = [card EXCEPT ![c] = ScheduleAsReview(@, today + days)]
    /\ KeepCame
    /\ UNCHANGED <<Schedule, place>>

(* sort_cards for one new card.                                             *)
Reposition(c, start) ==
    /\ card[c].ctype = "New"
    /\ card' = [card EXCEPT ![c] = SetNewPosition(@, start)]
    /\ place' = [place EXCEPT ![c] = start]
    /\ came' = [came EXCEPT ![c] = IF @ = NoCard THEN @ ELSE [@ EXCEPT !.due = start]]
    /\ UNCHANGED Schedule

(* sort_cards with shift: shift_existing_cards makes room first.            *)
AtOrAbove(c, start) == c \in Existing /\ card[c].ctype = "New" /\ card[c].due >= start

ShiftAndReposition(c, start) ==
    /\ card[c].ctype = "New"
    /\ \A s \in Cards : AtOrAbove(s, start) => card[s].due # MaxPosition
    /\ LET shifted == [s \in Cards |-> IF AtOrAbove(s, start)
                                       THEN SetNewPosition(card[s], card[s].due + 1)
                                       ELSE card[s]]
       IN card' = [shifted EXCEPT ![c] = SetNewPosition(@, start)]
    /\ place' = [s \in Cards |-> IF s = c THEN start
                                 ELSE IF AtOrAbove(s, start) THEN LastPosition(card'[s])
                                 ELSE place[s]]
    /\ came' = [came EXCEPT ![c] = IF @ = NoCard THEN @ ELSE [@ EXCEPT !.due = start]]
    /\ UNCHANGED Schedule

OnlyFromHomeBug(c, d) ==
    /\ d \in decks /\ card[c].did # d
    /\ LET k == IF IsFiltered(card[c]) THEN card[c] ELSE AdjustRemainingSteps(card[c], d)
       IN card' = [card EXCEPT ![c] = [RemoveRestoringQueue(k) EXCEPT !.did = d]]
    /\ KeepCame /\ UNCHANGED <<Schedule, place>>

(* Collection::set_deck: steps are adjusted while the home deck is known.   *)
SetDeck(c, d) ==
    /\ d \in decks /\ card[c].did # d
    /\ card' = [card EXCEPT ![c] =
                  [RemoveRestoringQueue(AdjustRemainingSteps(@, d)) EXCEPT !.did = d]]
    /\ KeepCame /\ UNCHANGED <<Schedule, place>>

CurrentDeckOnlyBug(d) == {c \in Existing : card[c].did = d}

(* storage/deck/cards_for_deck.sql.                                         *)
CardsForDeck(d) == {c \in Existing : d \in {card[c].did, card[c].odid}}

Returned(f) ==
    [c \in Cards |-> IF c \in CardsForDeck(f) THEN RemoveRestoringQueue(card[c]) ELSE card[c]]

(* The searches of a filtered deck leave these cards out.                   *)
Matchable(k) == k # NoCard /\ k.queue \notin NotDue /\ ~IsFiltered(k)

(* add_or_update_filtered_deck and rebuild_filtered_deck: matched is what   *)
(* the searches find; with allow_empty, and in a rebuild, it may be none.   *)
BuildFilteredDeck(f, kind, matched) ==
    /\ \A c \in matched : Matchable(Returned(f)[c])
    /\ card' = [c \in Cards |-> IF c \in matched
                                THEN MoveIntoFilteredDeck(Returned(f)[c], f, kind)
                                ELSE Returned(f)[c]]
    /\ filtered' = [filtered EXCEPT ![f] = kind]
    /\ came' = [c \in Cards |-> IF c \in matched /\ kind = "preview" THEN Returned(f)[c]
                                ELSE IF c \in CardsForDeck(f) THEN NoCard ELSE came[c]]
    /\ UNCHANGED <<decks, today, last_unburied, place>>

EmptyFilteredDeck(f) ==
    /\ filtered[f] # None
    /\ card' = Returned(f)
    /\ KeepCame /\ UNCHANGED <<Schedule, place>>

RemoveFilteredDeck(f) ==
    /\ filtered[f] # None
    /\ card' = Returned(f)
    /\ filtered' = [filtered EXCEPT ![f] = None]
    /\ KeepCame /\ UNCHANGED <<decks, today, last_unburied, place>>

(* remove_single_deck: the default deck stays, without its cards.           *)
RemoveNormalDeck(d) ==
    /\ d \in decks
    /\ card' = [c \in Cards |-> IF c \in CardsForDeck(d) THEN NoCard ELSE card[c]]
    /\ decks' = decks \ ({d} \ {Home})
    /\ KeepCame /\ UNCHANGED <<filtered, today, last_unburied, place>>

Operation ==
    \/ \E c \in Existing :
         \/ \E rating \in Ratings : Answer(c, rating)
         \/ \E queue \in ByUser : BuryOrSuspend(c, queue)
         \/ UnburyOrUnsuspend(c)
         \/ \E p \in Positions, restore \in BOOLEAN : Forget(c, p, restore)
         \/ \E days \in DueDays : SetDueDate(c, days)
         \/ \E p \in Positions : Reposition(c, p)
         \/ \E d \in Decks : SetDeck(c, d)
    \/ \E f \in FilteredDecks :
         \/ \E kind \in {"reschedule", "preview"}, matched \in SUBSET Cards :
              BuildFilteredDeck(f, kind, matched)
         \/ EmptyFilteredDeck(f) \/ RemoveFilteredDeck(f)
    \/ \E d \in Decks : RemoveNormalDeck(d)
    \/ NewDay \/ UnburyOnRollover

Next == Operation \/ \E c \in Existing, p \in Positions : ShiftAndReposition(c, p)

Spec == Init /\ [][Next]_vars

(* shift_existing_cards takes the due of a new card for its position; in a  *)
(* deck of previews it may be the time of the next look.  The code does not *)
(* prevent that.                                                            *)
NoneAway(start) == \A c \in Cards : AtOrAbove(c, start) => ~IsFiltered(card[c])

HomeShiftsNext ==
    Operation \/ \E c \in Existing, p \in Positions : NoneAway(p) /\ ShiftAndReposition(c, p)

HomeShiftsSpec == Init /\ [][HomeShiftsNext]_vars

-----------------------------------------------------------------------------
(* Properties.                                                              *)

CardType ==
    [ctype : {"New", "Learn", "Review", "Relearn"},
     queue : {"New", "Learn", "DayLearn", "Review", "PreviewRepeat"} \cup NotDue,
     due : Int, odue : Int, did : Decks \cup FilteredDecks, odid : Decks \cup {None},
     pos : Nat \cup {NoPosition}, left : Nat]

(* A card is in a filtered deck exactly when it has a home deck to return   *)
(* to; both decks exist, and only then has it an original due.              *)
HasAHome ==
    \A c \in Existing : LET k == card[c] IN
      /\ HomeDeck(k) \in decks
      /\ IF IsFiltered(k) THEN k.did \in FilteredDecks /\ filtered[k.did] # None
                          ELSE k.odue = 0

InPreview(k) == IsFiltered(k) /\ filtered[k.did] = "preview"

(* Type, queue and due of a card agree after any sequence of operations:    *)
(* a queue only holds cards of its types, and outside of a filtered deck    *)
(* the due is of the kind that the type calls for, so that unburying and    *)
(* unsuspending find the right queue.                                       *)
ColumnsAgree ==
    \A c \in Existing : LET k == card[c] IN
      /\ k \in CardType
      /\ k.queue = "New" => k.ctype = "New"
      /\ k.queue \in {"Learn", "DayLearn"} => k.ctype \in {"Learn", "Relearn"}
      /\ k.queue = "Review" => k.ctype = "Review" \/ InPreview(k)
      /\ k.queue = "PreviewRepeat" => InPreview(k)
      /\ ~IsFiltered(k) => /\ k.queue = "Learn" => IsTimestamp(k.due)
                           /\ k.queue = "DayLearn" => ~IsTimestamp(k.due)
                           /\ k.ctype \in {"New", "Review"} => k.due \in 1..Epoch

(* A new card keeps the position it was given, through learning, filtered   *)
(* decks, lapses and due dates, until it is forgotten or repositioned.      *)
PositionKept == \A c \in Existing : LastPosition(card[c]) = place[c]

(* A card that is learned has no more steps left than its home deck has,    *)
(* whichever decks it was moved through; one step where there is none.      *)
StepsInRange ==
    \A c \in Existing : LET k == card[c] IN
      /\ k.ctype = "Learn" => k.left <= Larger(1, Len(LearnSteps[HomeDeck(k)]))
      /\ k.ctype = "Relearn" => k.left <= Larger(1, Len(RelearnSteps[HomeDeck(k)]))

Rescheduled(c) ==
    \/ \E p \in Positions, restore \in BOOLEAN : Forget(c, p, restore)
    \/ \E days \in DueDays : SetDueDate(c, days)

ReturnsAsItCame(c) ==
    InPreview(card[c]) /\ card'[c] # NoCard /\ ~IsFiltered(card'[c]) /\ ~Rescheduled(c)
    => /\ card'[c].ctype = came[c].ctype /\ card'[c].due = came[c].due
       /\ card'[c].queue = IF card[c].queue \in NotDue THEN card[c].queue ELSE came[c].queue

(* "When they are returned to their original deck, they are returned        *)
(* exactly as they started": a card that leaves a deck of previews without  *)
(* being rescheduled has its type, due and queue back; if it was buried or  *)
(* suspended there, it stays so.                                            *)
ReturnedAsStarted == [][\A c \in Existing : ReturnsAsItCame(c)]_vars
=============================================================================
