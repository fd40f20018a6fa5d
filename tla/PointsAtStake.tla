---------------------------- MODULE PointsAtStake ----------------------------
(***************************************************************************)
(* The order of the exam preparation: due and new cards are interleaved by *)
(* topic, each topic as often as its weight in the exam and the weakness   *)
(* of the student call for (interleave_by_score in                         *)
(* rslib/src/scheduler/points_at_stake.rs).                                *)
(*                                                                         *)
(* Virtual times are exact fractions here and floating point numbers in    *)
(* the code, where equal times may differ by rounding.  A weakness is a    *)
(* number of parts out of Scale; the recall it is the mean of is left out. *)
(* A definition named ...Bug is a faulty variant of the definition after   *)
(* it, and belongs to no specification.                                    *)
(***************************************************************************)
EXTENDS Integers, Sequences, FiniteSets

CONSTANTS
    Pool,           \* the cards that a search may give
    Topics,         \* the keys of topics, Untagged included
    Untagged,       \* the empty key of cards without a topic
    Before(_, _),   \* the order of the keys
    TopicOf,        \* TopicOf[c]: the topic of c
    ByDue,          \* all cards by due and id
    Weightings,     \* the topic weights that may be configured
    DefaultWeight,  \* of topics that are not: 4
    Weaknesses,     \* by topic; topics without a graded card are missing
    Scale,
    Huge            \* the stride of topics with nothing at stake: 1e9

ASSUME StakeParameters ==
    /\ Untagged \in Topics /\ TopicOf \in [Pool -> Topics]
    /\ ByDue \in Seq(Pool) /\ \A c \in Pool : \E i \in 1..Len(ByDue) : ByDue[i] = c
    /\ \A i, j \in 1..Len(ByDue) : ByDue[i] = ByDue[j] => i = j
    /\ \A w \in Weightings : DOMAIN w \subseteq Topics /\ \A t \in DOMAIN w : w[t] \in Int
    /\ \A w \in Weaknesses : DOMAIN w \subseteq Topics /\ \A t \in DOMAIN w : w[t] \in 0..Scale
    /\ DefaultWeight \in Int /\ Scale \in Nat \ {0} /\ Huge \in Nat \ {0}

(* No topic with something at stake gets that far.                         *)
ASSUME HugeStride == Huge > Cardinality(Pool) * Scale

VARIABLES
    score,          \* of each topic, in parts of Scale
    left,           \* the cards of each topic that are left
    given,          \* the number of cards of each topic given out
    vtime,          \* the virtual time of each topic, in parts of its Share
    order           \* the cards given out

stake_vars == <<score, left, given, vtime, order>>

-----------------------------------------------------------------------------
TopicWeight(weights, t) ==
    IF t # Untagged /\ t \in DOMAIN weights THEN weights[t] ELSE DefaultWeight

(* A topic that was never reviewed counts as not known at all.              *)
Weakness(weakness, t) ==
    IF t # Untagged /\ t \in DOMAIN weakness THEN weakness[t] ELSE Scale

Scores(weights, weakness) ==
    [t \in Topics |-> TopicWeight(weights, t) * Weakness(weakness, t)]

(* The stride of a topic is Stride parts of Share: Scale / score, or Huge.  *)
Share(s) == IF s > 0 THEN s ELSE 1
Stride(s) == IF s > 0 THEN Scale ELSE Huge

Buckets(candidates) == [t \in Topics |-> {c \in candidates : TopicOf[c] = t}]

TogetherBug(scores) == [t \in Topics |-> 0]

(* Each topic starts one stride in.                                         *)
StartTimes(scores) == [t \in Topics |-> Stride(scores[t])]

(* build_points_at_stake_queue up to the loop of interleave_by_score.       *)
StakeInit ==
    \E candidates \in SUBSET Pool, weights \in Weightings, weakness \in Weaknesses :
        /\ score = Scores(weights, weakness)
        /\ left = Buckets(candidates)
        /\ given = [t \in Topics |-> 0]
        /\ vtime = StartTimes(score)
        /\ order = <<>>

WithCards == {t \in Topics : left[t] # {}}

DueBefore(c, e) == \E i, j \in 1..Len(ByDue) : i < j /\ ByDue[i] = c /\ ByDue[j] = e

(* The cards of a topic are sorted by due and id.                           *)
IsFirst(c, cards) == c \in cards /\ \A e \in cards \ {c} : DueBefore(c, e)

(* t is picked rather than u: less virtual time, more at stake, or the key. *)
Sooner(t, u)   == vtime[t] * Share(score[u]) < vtime[u] * Share(score[t])
SameTime(t, u) == vtime[t] * Share(score[u]) = vtime[u] * Share(score[t])

PickedOver(t, u) ==
    \/ Sooner(t, u)
    \/ SameTime(t, u) /\ (score[t] > score[u] \/ (score[t] = score[u] /\ Before(t, u)))

(* One turn of the loop.                                                    *)
Pick(t) ==
    /\ t \in WithCards
    /\ \A u \in WithCards \ {t} : PickedOver(t, u)
    /\ \E c \in left[t] :
         /\ IsFirst(c, left[t])
         /\ order' = Append(order, c)
         /\ left' = [left EXCEPT ![t] = @ \ {c}]
    /\ given' = [given EXCEPT ![t] = @ + 1]
    /\ vtime' = [vtime EXCEPT ![t] = @ + Stride(score[t])]
    /\ UNCHANGED score

StakeNext == \E t \in Topics : Pick(t)

StakeSpec == StakeInit /\ [][StakeNext]_stake_vars

-----------------------------------------------------------------------------
(* Properties.                                                              *)

(* The values of the variables; virtual times only move by whole strides.   *)
StakeTypeOK ==
    /\ score \in [Topics -> Int]
    /\ left \in [Topics -> SUBSET Pool]
    /\ given \in [Topics -> Nat]
    /\ vtime \in [Topics -> Nat]
    /\ order \in Seq(Pool)

(* No topic is starved, and none is served ahead of its share: as long as u *)
(* has cards left, t was not given out more often than its share of the     *)
(* time at which u is next.                                                 *)
InProportion ==
    \A t, u \in Topics :
        left[u] # {} /\ given[t] > 0 =>
            given[t] * Stride(score[t]) * Share(score[u])
                <= (given[u] + 1) * Stride(score[u]) * Share(score[t])

(* Within a topic the cards come by due and id.                             *)
DueFirst ==
    \A i, j \in 1..Len(order) :
        i < j /\ TopicOf[order[i]] = TopicOf[order[j]] => DueBefore(order[i], order[j])

(* Topics with nothing at stake "trail the rest": they come after all       *)
(* others.                                                                  *)
NothingAtStakeLast ==
    \A t, u \in Topics : score[t] <= 0 /\ given[t] > 0 /\ score[u] > 0 => left[u] = {}

(* The inductive invariant: a topic's virtual time is the number of strides *)
(* it has taken, and its cards are served before those it has left.         *)
WholeStrides == \A t \in Topics : vtime[t] = (given[t] + 1) * Stride(score[t])

InBuckets ==
    \A t \in Topics :
        /\ \A c \in left[t] : TopicOf[c] = t
        /\ given[t] + Cardinality(left[t]) <= Cardinality(Pool)

LeftLater ==
    \A i \in 1..Len(order) : \A c \in left[TopicOf[order[i]]] : DueBefore(order[i], c)

StakeInv == StakeTypeOK /\ WholeStrides /\ InBuckets /\ LeftLater /\ InProportion /\ DueFirst
=============================================================================
