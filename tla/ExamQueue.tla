------------------------------ MODULE ExamQueue ------------------------------
(***************************************************************************)
(* What is shown with feReorderQueue set (_points_at_stake_queued_cards in *)
(* pylib/anki/scheduler/v3.py): the queue that was built for a deck, with  *)
(* the order of the points at stake laid over it.  That order is for all   *)
(* due and new cards of the collection, of any deck, within the daily      *)
(* limits or not.                                                          *)
(***************************************************************************)
EXTENDS QueueBuilder, PointsAtStake

CONSTANTS
    Window,         \* POINTS_AT_STAKE_WINDOW: 200
    FetchLimits     \* how many cards may be asked for

ASSUME ExamParameters ==
    /\ Window \in Nat \ {0} /\ FetchLimits \subseteq Nat /\ Cards \subseteq Pool
    /\ Idle # "Ordered"

VARIABLES
    fetch_limit,    \* the number of cards asked for, 0 for all
    shown           \* the cards returned

exam_vars == <<stake_vars, fetch_limit, shown>>

NoOrder ==
    /\ score = Idle /\ left = Idle /\ given = Idle /\ vtime = Idle /\ order = Idle
    /\ fetch_limit = Idle /\ shown = Idle

ExamInit == BuilderInit /\ NoOrder

(* The queue as CardQueues::iter gives it, and what of it is asked for.     *)
Engine == gathered["Learn"] \o gathered["main"]
Fetched(limit) == SubSeq(Engine, 1, Smaller(Max({limit, Window}), Len(Engine)))

DueCards == {c \in Cards : card[c].queue # "Suspended"}

(* The points_at_stake_queue of "is:due OR is:new": besides the due cards   *)
(* of the decks, suspended ones that are new, and any card of other decks.  *)
OrderCards ==
    /\ phase = "Built" /\ phase' = "Ordered"
    /\ \E others \in SUBSET (Pool \ DueCards), weights \in Weightings, weakness \in Weaknesses :
         /\ score' = Scores(weights, weakness)
         /\ left' = Buckets(DueCards \cup others)
         /\ vtime' = StartTimes(score')
    /\ given' = [t \in Topics |-> 0] /\ order' = <<>>
    /\ UNCHANGED <<collection, root, tree, limits, seen, unvisited, gathered, fetch_limit, shown>>

TakeTurn ==
    /\ phase = "Ordered"
    /\ StakeNext
    /\ UNCHANGED <<queue_vars, fetch_limit, shown>>

Rank(c) ==
    IF \E i \in DOMAIN order : order[i] = c
    THEN CHOOSE i \in DOMAIN order : order[i] = c ELSE Len(order) + 1

(* The stable sort by rank; cards without one come last.                    *)
Ranked(cards) ==
    LET place(i) == Cardinality({j \in DOMAIN cards :
                        \/ Rank(cards[j]) < Rank(cards[i])
                        \/ Rank(cards[j]) = Rank(cards[i]) /\ j <= i})
    IN  [k \in DOMAIN cards |-> cards[CHOOSE i \in DOMAIN cards : place(i) = k]]

Cut(cards, limit) == IF limit = 0 THEN cards ELSE SubSeq(cards, 1, Smaller(limit, Len(cards)))

CutFirstBug(limit) == shown' = Ranked(Cut(Fetched(limit), limit))

(* More cards are fetched than asked for, so that there are some to choose. *)
Reorder(limit) == shown' = Cut(Ranked(Fetched(limit)), limit)

GetQueuedCards ==
    /\ phase = "Ordered" /\ WithCards = {} /\ shown = Idle
    /\ fetch_limit' \in FetchLimits
    /\ Reorder(fetch_limit')
    /\ UNCHANGED <<queue_vars, stake_vars>>

ExamNext ==
    \/ BuilderNext /\ UNCHANGED exam_vars
    \/ OrderCards \/ TakeTurn \/ GetQueuedCards

ExamSpec == ExamInit /\ [][ExamNext]_<<queue_vars, exam_vars>>

-----------------------------------------------------------------------------
(* Properties.                                                              *)

(* c should be reviewed before e, whatever else there is.                   *)
MoreUrgent(c, e) ==
    \/ score[TopicOf[c]] > 0 /\ score[TopicOf[e]] <= 0
    \/ TopicOf[c] = TopicOf[e] /\ DueBefore(c, e)

(* The order serves the topics in proportion to what is at stake, and those *)
(* with nothing at stake after all others, within a topic by due and id.    *)
ServedInProportion == phase = "Ordered" => InProportion /\ NothingAtStakeLast /\ DueFirst

(* Only cards that the engine would give are shown, and of these no card    *)
(* comes before one that is more urgent, nor is such a one cut off.         *)
MostUrgentShown ==
    shown # Idle =>
        /\ ToSet(shown) \subseteq ToSet(Engine)
        /\ Len(shown) = IF fetch_limit = 0 THEN Smaller(Window, Len(Engine))
                      ELSE Smaller(fetch_limit, Len(Engine))
        /\ \A i \in DOMAIN shown : \A c \in ToSet(Fetched(fetch_limit)) \ {shown[j] : j \in 1..(i - 1)} :
              ~MoreUrgent(c, shown[i])
=============================================================================
