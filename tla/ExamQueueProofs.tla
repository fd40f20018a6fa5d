--------------------------- MODULE ExamQueueProofs ---------------------------
(***************************************************************************)
(* Proofs about the exam preparation, for any cards, decks, names, limits, *)
(* options, topics, weights and weaknesses: the order of PointsAtStake     *)
(* serves each topic by its share; the queue of a deck that QueueBuilder   *)
(* gathers keeps the daily limits, leaves no card out without a reason,    *)
(* and mixes its kinds evenly; and what ExamQueue shows of it is what is   *)
(* most urgent.                                                            *)
(***************************************************************************)
EXTENDS ExamQueue, FiniteSetTheorems, SequenceTheorems, WellFoundedInduction, TLAPS

LEMMA PoolIsFinite == IsFiniteSet(Pool)
<1> DEFINE byDue == [i \in 1..Len(ByDue) |-> ByDue[i]]
<1>1. Len(ByDue) \in Nat /\ \A i \in 1..Len(ByDue) : ByDue[i] \in Pool
  BY StakeParameters
<1>2. byDue \in Surjection(1..Len(ByDue), Pool)
  BY <1>1, StakeParameters DEF Surjection
<1>3. IsFiniteSet(1..Len(ByDue))
  BY <1>1, FS_Interval
<1> QED
  BY <1>2, <1>3, FS_Surjection

LEMMA StridesArePositive ==
  ASSUME NEW s \in Int
  PROVE  Stride(s) \in Nat \ {0} /\ Share(s) \in Nat \ {0}
BY StakeParameters DEF Stride, Share

LEMMA ProductType ==
  ASSUME NEW n \in Nat, NEW a \in Nat, NEW b \in Nat
  PROVE  n * a * b \in Int /\ (n + 1) * a * b \in Int /\ (n + 1 + 1) * a * b \in Int
OBVIOUS

(* Monotonicity of products, for which the provers have no theory.         *)
LEMMA LaterIsMore ==
  ASSUME NEW n \in Nat, NEW a \in Nat, NEW b \in Nat
  PROVE  (n + 1) * a * b <= (n + 1 + 1) * a * b
<1> DEFINE p == a * b
<1>1. p \in Nat
  OBVIOUS
<1>2. (n + 1) * a * b = (n + 1) * p /\ (n + 1 + 1) * a * b = (n + 1 + 1) * p
  OBVIOUS
<1>3. (n + 1 + 1) * p = (n + 1) * p + p
  OBVIOUS
<1> QED
  BY <1>1, <1>2, <1>3

LEMMA AtLeastOnce ==
  ASSUME NEW m \in Nat, NEW n \in Nat, NEW h \in Nat, m > 0, n > 0
  PROVE  h <= m * h * n
<1>1. m * h = h + (m - 1) * h /\ (m - 1) * h \in Nat /\ m * h \in Nat
  OBVIOUS
<1>2. \A x \in Nat : x <= x * n
  <2> SUFFICES ASSUME NEW x \in Nat
               PROVE  x <= x * n
    OBVIOUS
  <2>1. x * n = x + x * (n - 1) /\ x * (n - 1) \in Nat
    OBVIOUS
  <2> QED
    BY <2>1
<1>3. h <= m * h /\ m * h <= m * h * n /\ m * h * n \in Nat
  BY <1>1, <1>2
<1> QED
  BY <1>1, <1>3

LEMMA MoreOfScale ==
  ASSUME NEW n \in Nat, NEW m \in Nat, NEW s \in Nat, n + 1 <= m
  PROVE  (n + 1) * s * 1 <= m * s
<1>1. m * s = (n + 1) * s + (m - (n + 1)) * s
  OBVIOUS
<1>2. (m - (n + 1)) * s \in Nat /\ (n + 1) * s \in Nat
  <2>1. m - (n + 1) \in Nat /\ n + 1 \in Nat
    OBVIOUS
  <2>2. \A x \in Nat : x * s \in Nat
    OBVIOUS
  <2> QED
    BY <2>1, <2>2
<1> QED
  BY <1>1, <1>2

-----------------------------------------------------------------------------
(* The order of the points at stake.                                        *)

LEMMA ScoresType ==
  ASSUME NEW weights \in Weightings, NEW weakness \in Weaknesses
  PROVE  Scores(weights, weakness) \in [Topics -> Int]
<1> SUFFICES ASSUME NEW t \in Topics
             PROVE  TopicWeight(weights, t) * Weakness(weakness, t) \in Int
  BY DEF Scores
<1>1. TopicWeight(weights, t) \in Int
  BY StakeParameters DEF TopicWeight
<1>2. Weakness(weakness, t) \in Int
  BY StakeParameters DEF Weakness
<1> QED
  BY <1>1, <1>2

(* The order may begin with any candidates, weights and weaknesses.         *)
Begun(candidates) ==
    /\ score \in [Topics -> Int]
    /\ left = Buckets(candidates)
    /\ given = [t \in Topics |-> 0]
    /\ vtime = StartTimes(score)
    /\ order = <<>>

LEMMA BegunInv ==
  ASSUME NEW candidates \in SUBSET Pool, Begun(candidates)
  PROVE  StakeInv
<1> USE DEF Begun
<1>1. StakeTypeOK
  <2>1. vtime \in [Topics -> Nat]
    BY StridesArePositive DEF StartTimes
  <2>2. left \in [Topics -> SUBSET Pool]
    BY DEF Buckets
  <2> QED
    BY <2>1, <2>2 DEF StakeTypeOK
<1>2. WholeStrides
  <2> SUFFICES ASSUME NEW t \in Topics
               PROVE  vtime[t] = (given[t] + 1) * Stride(score[t])
    BY DEF WholeStrides
  <2>1. vtime[t] = Stride(score[t]) /\ given[t] = 0
    BY DEF StartTimes
  <2>2. Stride(score[t]) \in Nat
    BY StridesArePositive
  <2> QED
    BY <2>1, <2>2
<1>3. InBuckets
  <2> SUFFICES ASSUME NEW t \in Topics
               PROVE  /\ \A c \in left[t] : TopicOf[c] = t
                      /\ given[t] + Cardinality(left[t]) <= Cardinality(Pool)
    BY DEF InBuckets
  <2>1. left[t] \in SUBSET Pool /\ given[t] = 0 /\ \A c \in left[t] : TopicOf[c] = t
    BY DEF Buckets
  <2>2. IsFiniteSet(left[t]) /\ Cardinality(left[t]) <= Cardinality(Pool)
    BY <2>1, PoolIsFinite, FS_Subset
  <2>3. Cardinality(left[t]) \in Nat
    BY <2>2, FS_CardinalityType
  <2> QED
    BY <2>1, <2>2, <2>3
<1>4. LeftLater /\ InProportion /\ DueFirst
  BY DEF LeftLater, InProportion, DueFirst
<1> QED
  BY <1>1, <1>2, <1>3, <1>4 DEF StakeInv

(* A turn of the loop.                                                      *)
LEMMA PickTypeOK ==
  ASSUME StakeInv, NEW t \in Topics, Pick(t)
  PROVE  StakeTypeOK'
<1> USE DEF StakeInv, StakeTypeOK
<1>1. Stride(score[t]) \in Nat
  BY StridesArePositive
<1>2. vtime' \in [Topics -> Nat] /\ given' \in [Topics -> Nat]
  BY <1>1 DEF Pick
<1>3. PICK c \in left[t] : order' = Append(order, c) /\ left' = [left EXCEPT ![t] = @ \ {c}]
  BY DEF Pick
<1>4. order' \in Seq(Pool) /\ left' \in [Topics -> SUBSET Pool]
  BY <1>3
<1> QED
  BY <1>2, <1>4 DEF Pick

LEMMA PickWholeStrides ==
  ASSUME StakeInv, NEW t \in Topics, Pick(t)
  PROVE  WholeStrides'
<1> USE DEF StakeInv, StakeTypeOK
<1> SUFFICES ASSUME NEW u \in Topics
             PROVE  vtime'[u] = (given'[u] + 1) * Stride(score'[u])
  BY DEF WholeStrides
<1>1. score' = score /\ Stride(score[t]) \in Nat /\ given[t] \in Nat
  BY StridesArePositive DEF Pick
<1>2. CASE u # t
  BY <1>1, <1>2 DEF Pick, WholeStrides
<1>3. CASE u = t
  <2>1. vtime'[t] = vtime[t] + Stride(score[t]) /\ given'[t] = given[t] + 1
    BY DEF Pick
  <2>2. vtime[t] = (given[t] + 1) * Stride(score[t])
    BY DEF WholeStrides
  <2>3. \A n, s \in Nat : (n + 1) * s + s = (n + 1 + 1) * s
    OBVIOUS
  <2> QED
    BY <1>1, <1>3, <2>1, <2>2, <2>3
<1> QED
  BY <1>2, <1>3

LEMMA PickInBuckets ==
  ASSUME StakeInv, NEW t \in Topics, Pick(t)
  PROVE  InBuckets'
<1> USE DEF StakeInv, StakeTypeOK
<1> SUFFICES ASSUME NEW u \in Topics
             PROVE  /\ \A c \in left'[u] : TopicOf[c] = u
                    /\ given'[u] + Cardinality(left'[u]) <= Cardinality(Pool)
  BY DEF InBuckets
<1>1. PICK c \in left[t] : left' = [left EXCEPT ![t] = @ \ {c}]
  BY DEF Pick
<1>2. /\ \A e \in left[u] : TopicOf[e] = u
      /\ given[u] + Cardinality(left[u]) <= Cardinality(Pool)
  BY DEF InBuckets
<1>3. CASE u # t
  BY <1>1, <1>2, <1>3 DEF Pick
<1>4. CASE u = t
  <2>1. left'[t] = left[t] \ {c} /\ given'[t] = given[t] + 1 /\ given[t] \in Nat
    BY <1>1 DEF Pick
  <2>2. IsFiniteSet(left[t]) /\ left[t] \in SUBSET Pool
    BY PoolIsFinite, FS_Subset
  <2>3. Cardinality(left[t]) \in Nat /\ Cardinality(Pool) \in Nat
    BY <2>2, PoolIsFinite, FS_CardinalityType
  <2>4. Cardinality(left[t] \ {c}) = Cardinality(left[t]) - 1
    BY <1>1, <2>2, FS_RemoveElement
  <2> QED
    BY <1>2, <1>4, <2>1, <2>3, <2>4
<1> QED
  BY <1>3, <1>4

(* The card that is given out comes after those of its topic given before,  *)
(* and before those that are left.                                          *)
LEMMA PickDueFirst ==
  ASSUME StakeInv, NEW t \in Topics, Pick(t)
  PROVE  LeftLater' /\ DueFirst'
<1>0. StakeTypeOK /\ InBuckets /\ LeftLater /\ DueFirst
  BY DEF StakeInv
<1>1. PICK c \in left[t] : /\ IsFirst(c, left[t])
                          /\ order' = Append(order, c)
                          /\ left' = [left EXCEPT ![t] = @ \ {c}]
  BY DEF Pick
<1>2. TopicOf[c] = t /\ c \in Pool
  BY <1>0 DEF StakeTypeOK, InBuckets
<1>3. /\ Len(order) \in Nat /\ Len(order') = Len(order) + 1
      /\ order'[Len(order) + 1] = c
      /\ \A i \in 1..Len(order) : order'[i] = order[i] /\ order[i] \in Pool
  BY <1>0, <1>1, <1>2 DEF StakeTypeOK
<1>4. \A u \in Topics : left'[u] \subseteq left[u]
  BY <1>0, <1>1 DEF StakeTypeOK
<1>5. \A e \in left'[t] : DueBefore(c, e)
  BY <1>0, <1>1 DEF StakeTypeOK, IsFirst
<1>6. \A i \in 1..Len(order) : TopicOf[order[i]] \in Topics
  BY <1>3, StakeParameters
<1>7. LeftLater'
  <2> SUFFICES ASSUME NEW i \in 1..Len(order'), NEW e \in left'[TopicOf[order'[i]]]
               PROVE  DueBefore(order'[i], e)
    BY DEF LeftLater, DueBefore
  <2>1. CASE i \in 1..Len(order)
    BY <1>0, <1>3, <1>4, <1>6, <2>1 DEF LeftLater
  <2>2. CASE i = Len(order) + 1
    BY <1>2, <1>3, <1>5, <2>2
  <2> QED
    BY <1>3, <2>1, <2>2
<1>8. DueFirst'
  <2> SUFFICES ASSUME NEW i \in 1..Len(order'), NEW j \in 1..Len(order'), i < j,
                      TopicOf[order'[i]] = TopicOf[order'[j]]
               PROVE  DueBefore(order'[i], order'[j])
    BY DEF DueFirst, DueBefore
  <2>1. i \in 1..Len(order)
    BY <1>3
  <2>2. CASE j \in 1..Len(order)
    BY <1>0, <1>3, <2>1, <2>2 DEF DueFirst
  <2>3. CASE j = Len(order) + 1
    <3>1. TopicOf[order[i]] = t
      BY <1>2, <1>3, <2>1, <2>3
    <3> QED
      BY <1>0, <1>3, <2>1, <2>3, <3>1 DEF LeftLater
  <2>4. j \in 1..Len(order) \/ j = Len(order) + 1
    BY <1>3
  <2> QED
    BY <2>2, <2>3, <2>4
<1> QED
  BY <1>7, <1>8

(* If t is picked, its virtual time is not after that of any other topic;   *)
(* the virtual times of the others only grow.                               *)
LEMMA PickInProportion ==
  ASSUME StakeInv, NEW t \in Topics, Pick(t)
  PROVE  InProportion'
<1> USE DEF StakeInv, StakeTypeOK
<1> DEFINE S(v) == Stride(score[v])
           H(v) == Share(score[v])
<1>1. score' = score /\ \A v \in Topics : S(v) \in Nat /\ H(v) \in Nat /\ given[v] \in Nat
  BY StridesArePositive DEF Pick
<1>2. given'[t] = given[t] + 1 /\ \A v \in Topics \ {t} : given'[v] = given[v]
  BY DEF Pick
<1>3. \A v \in Topics : left'[v] # {} => left[v] # {}
  BY DEF Pick
<1>4. left[t] # {}
  BY DEF Pick, WithCards
<1> SUFFICES ASSUME NEW v \in Topics, NEW u \in Topics, left'[u] # {}, given'[v] > 0
             PROVE  given'[v] * S(v) * H(u) <= (given'[u] + 1) * S(u) * H(v)
  BY <1>1 DEF InProportion
<1> HIDE DEF S, H
<1>5. CASE v = t /\ u = t
  BY <1>1, <1>2, <1>5, LaterIsMore
<1>6. CASE v = t /\ u # t
  <2>1. vtime[t] * H(u) <= vtime[u] * H(t)
    <3>1. PickedOver(t, u)
      BY <1>3, <1>6 DEF Pick, WithCards
    <3>2. vtime[t] * H(u) \in Int /\ vtime[u] * H(t) \in Int
      BY <1>1, SMTT(40)
    <3>3. vtime[t] * H(u) < vtime[u] * H(t) \/ vtime[t] * H(u) = vtime[u] * H(t)
      BY <3>1 DEF PickedOver, Sooner, SameTime, H
    <3>4. PICK a \in Int, b \in Int : a = vtime[t] * H(u) /\ b = vtime[u] * H(t)
      BY <3>2
    <3>5. a < b \/ a = b
      BY <3>3, <3>4
    <3>6. a <= b
      BY <3>5
    <3> QED
      BY <3>4, <3>6
  <2>2. vtime[t] = (given[t] + 1) * S(t) /\ vtime[u] = (given[u] + 1) * S(u)
    BY DEF WholeStrides, S
  <2> QED
    BY <1>2, <1>6, <2>1, <2>2
<1>7. CASE v # t
  <2>1. given[v] * S(v) * H(u) <= (given[u] + 1) * S(u) * H(v)
    BY <1>2, <1>3, <1>7 DEF InProportion, S, H
  <2>2. CASE u # t
    BY <1>2, <1>7, <2>1, <2>2
  <2>3. CASE u = t
    <3>1. (given[t] + 1) * S(t) * H(v) <= (given[t] + 1 + 1) * S(t) * H(v)
      BY <1>1, LaterIsMore
    <3>2. \A x, y, z \in Int : x <= y /\ y <= z => x <= z
      OBVIOUS
    <3>3. /\ given[v] * S(v) * H(t) \in Int
          /\ (given[t] + 1) * S(t) * H(v) \in Int
          /\ (given[t] + 1 + 1) * S(t) * H(v) \in Int
      BY <1>1, ProductType
    <3>4. given[v] * S(v) * H(t) <= (given[t] + 1 + 1) * S(t) * H(v)
      BY <2>1, <2>3, <3>1, <3>2, <3>3
    <3> QED
      BY <1>2, <1>7, <2>3, <3>4
  <2> QED
    BY <2>2, <2>3
<1> QED
  BY <1>5, <1>6, <1>7

LEMMA PickInv ==
  ASSUME StakeInv, NEW t \in Topics, Pick(t)
  PROVE  StakeInv'
BY PickTypeOK, PickWholeStrides, PickInBuckets, PickDueFirst, PickInProportion DEF StakeInv

LEMMA UnchangedInv ==
  ASSUME StakeInv, UNCHANGED stake_vars
  PROVE  StakeInv'
<1>1. StakeTypeOK' /\ WholeStrides' /\ InBuckets'
  BY DEF StakeInv, stake_vars, StakeTypeOK, WholeStrides, InBuckets
<1>2. LeftLater' /\ InProportion' /\ DueFirst'
  BY DEF StakeInv, stake_vars, LeftLater, InProportion, DueFirst, DueBefore
<1> QED
  BY <1>1, <1>2 DEF StakeInv

(* The stride of topics with nothing at stake is more than the virtual time *)
(* that any other topic reaches before its last card.                       *)
LEMMA NothingAtStakeIsLast ==
  ASSUME StakeInv
  PROVE  NothingAtStakeLast
<1> USE DEF StakeInv, StakeTypeOK
<1> SUFFICES ASSUME NEW t \in Topics, NEW u \in Topics,
                    score[t] <= 0, given[t] > 0, score[u] > 0, left[u] # {}
             PROVE  FALSE
  BY DEF NothingAtStakeLast
<1>1. given[t] \in Nat /\ given[u] \in Nat /\ score[u] \in Nat /\ score[t] \in Int
  OBVIOUS
<1>2. Scale \in Nat \ {0} /\ Huge \in Nat \ {0} /\ Huge > Cardinality(Pool) * Scale
  BY StakeParameters, HugeStride
<1>3. given[t] * Huge * score[u] <= (given[u] + 1) * Scale * 1
  <2>1. Stride(score[t]) = Huge /\ Share(score[t]) = 1
    BY <1>1 DEF Stride, Share
  <2>2. Stride(score[u]) = Scale /\ Share(score[u]) = score[u]
    BY <1>1 DEF Stride, Share
  <2> QED
    BY <2>1, <2>2 DEF InProportion
<1>4. given[u] + 1 <= Cardinality(Pool) /\ Cardinality(Pool) \in Nat
  <2>1. IsFiniteSet(left[u])
    BY PoolIsFinite, FS_Subset
  <2>2. Cardinality(left[u]) \in Nat /\ Cardinality(left[u]) # 0 /\ Cardinality(Pool) \in Nat
    BY <2>1, PoolIsFinite, FS_CardinalityType, FS_EmptySet
  <2>3. given[u] + Cardinality(left[u]) <= Cardinality(Pool)
    BY DEF InBuckets
  <2> QED
    BY <1>1, <2>2, <2>3
<1>5. Huge <= given[t] * Huge * score[u]
  BY <1>1, <1>2, AtLeastOnce
<1>6. (given[u] + 1) * Scale * 1 <= Cardinality(Pool) * Scale
  BY <1>1, <1>2, <1>4, MoreOfScale
<1>7. /\ given[t] * Huge * score[u] \in Int /\ (given[u] + 1) * Scale * 1 \in Int
      /\ Cardinality(Pool) * Scale \in Int
  BY <1>1, <1>2, <1>4, ProductType
<1> QED
  BY <1>2, <1>3, <1>5, <1>6, <1>7

(* Every order that the exam preparation gives serves the topics in         *)
(* proportion to what is at stake, those with nothing at stake last, and    *)
(* each topic by due: for any cards, topics, weights and weaknesses.        *)
THEOREM StakeSafety == StakeSpec => [](StakeTypeOK /\ InProportion /\ NothingAtStakeLast /\ DueFirst)
<1>1. StakeInit => StakeInv
  <2> SUFFICES ASSUME StakeInit
               PROVE  StakeInv
    OBVIOUS
  <2>1. PICK candidates \in SUBSET Pool : Begun(candidates)
    BY ScoresType DEF StakeInit, Begun
  <2> QED
    BY <2>1, BegunInv
<1>2. StakeInv /\ [StakeNext]_stake_vars => StakeInv'
  BY PickInv, UnchangedInv DEF StakeNext
<1>3. StakeInv => StakeTypeOK /\ InProportion /\ NothingAtStakeLast /\ DueFirst
  BY NothingAtStakeIsLast DEF StakeInv
<1> QED
  BY <1>1, <1>2, <1>3, PTL DEF StakeSpec

-----------------------------------------------------------------------------
(* The composition with the queue.                                          *)

OrderInv == phase = "Ordered" => StakeInv

(* Building the queue never reaches the ordering phase.                     *)
LEMMA BuilderKeepsOrder ==
  ASSUME OrderInv, BuilderNext, UNCHANGED exam_vars
  PROVE  OrderInv'
<1>1. phase' # "Ordered" \/ phase' = phase
  <2>1. ASSUME NEW d \in Decks, Start(d) PROVE phase' = "Learn"
    BY <2>1 DEF Start
  <2>2. CASE GatherIntraday
    BY <2>2 DEF GatherIntraday
  <2>3. CASE GatherLimited
    BY <2>3 DEF GatherLimited
  <2>4. CASE FailOnUnknownDeck
    BY <2>4 DEF FailOnUnknownDeck
  <2>5. CASE NextPhase
    <3>1. phase \in {"Learn", "DayLearn", "Review", "New"} /\ phase' = PhaseAfter[phase]
      BY <2>5 DEF NextPhase, PhaseAfter, Kinds
    <3> QED
      BY <3>1 DEF PhaseAfter, Kinds
  <2>6. CASE Build
    BY <2>6 DEF Build
  <2> QED
    BY <2>1, <2>2, <2>3, <2>4, <2>5, <2>6 DEF BuilderNext
<1> QED
  BY <1>1, UnchangedInv DEF OrderInv, exam_vars

AnyBegun == \E candidates \in SUBSET Pool : Begun(candidates)

LEMMA AnyBegunInv == AnyBegun => StakeInv
BY BegunInv DEF AnyBegun

LEMMA OrderCardsInv ==
  ASSUME OrderCards
  PROVE  OrderInv'
<1>1. PICK others \in SUBSET (Pool \ DueCards), weights \in Weightings, weakness \in Weaknesses :
        /\ score' = Scores(weights, weakness)
        /\ left' = Buckets(DueCards \cup others)
        /\ vtime' = StartTimes(score')
  BY DEF OrderCards
<1> DEFINE candidates == DueCards \cup others
<1>2. candidates \in SUBSET Pool
  BY ExamParameters DEF DueCards
<1>3. given' = [t \in Topics |-> 0] /\ order' = <<>>
  BY DEF OrderCards
<1>4. score' \in [Topics -> Int]
  BY <1>1, ScoresType
<1>5. (AnyBegun => StakeInv)'
  BY AnyBegunInv, PTL
<1>6. StakeInv'
  <2> HIDE DEF candidates
  <2>1. ASSUME NEW cs \in SUBSET Pool, left' = Buckets(cs) PROVE Begun(cs)'
    BY <1>1, <1>3, <1>4, <2>1 DEF Begun, Buckets, StartTimes, Stride
  <2>2. AnyBegun'
    BY <1>1, <1>2, <2>1 DEF AnyBegun, candidates
  <2> QED
    BY <1>5, <2>2
<1> QED
  BY <1>6 DEF OrderInv

(* In the same way for what the reviewer shows with feReorderQueue set.     *)
THEOREM ExamSafety == ExamSpec => []ServedInProportion
<1>1. ExamInit => OrderInv
  BY ExamParameters DEF ExamInit, BuilderInit, OrderInv
<1>2. OrderInv /\ [ExamNext]_<<queue_vars, exam_vars>> => OrderInv'
  <2> SUFFICES ASSUME OrderInv, [ExamNext]_<<queue_vars, exam_vars>>
               PROVE  OrderInv'
    OBVIOUS
  <2>1. CASE BuilderNext /\ UNCHANGED exam_vars
    BY <2>1, BuilderKeepsOrder
  <2>2. CASE OrderCards
    BY <2>2, OrderCardsInv
  <2>3. CASE TakeTurn
    BY <2>3, PickInv DEF TakeTurn, StakeNext, OrderInv
  <2>4. CASE GetQueuedCards
    BY <2>4, UnchangedInv DEF GetQueuedCards, queue_vars, OrderInv
  <2>5. CASE UNCHANGED <<queue_vars, exam_vars>>
    BY <2>5, UnchangedInv DEF queue_vars, exam_vars, OrderInv
  <2> QED
    BY <2>1, <2>2, <2>3, <2>4, <2>5 DEF ExamNext
<1>3. OrderInv => ServedInProportion
  BY NothingAtStakeIsLast DEF OrderInv, ServedInProportion, StakeInv
<1> QED
  BY <1>1, <1>2, <1>3, PTL DEF ExamSpec
-----------------------------------------------------------------------------
(***************************************************************************)
(* Gathering: the daily limits, and the cards that are left out.           *)
(***************************************************************************)

LEMMA LeastNumber ==
  ASSUME NEW S \in SUBSET Nat, S # {}
  PROVE  \E x \in S : \A y \in S : x <= y
<1>1. IsWellFoundedOn(OpToRel(<, Nat), Nat)
  BY NatLessThanWellFounded
<1>2. \E x \in S : \A y \in S : ~(<<y, x>> \in OpToRel(<, Nat))
  BY <1>1, WFMin
<1>3. \E x \in S : \A y \in S : ~(y < x)
  BY <1>2 DEF OpToRel
<1> QED
  BY <1>3

LEMMA MinIsLeast ==
  ASSUME NEW S \in SUBSET Nat, S # {}
  PROVE  Min(S) \in S /\ \A y \in S : Min(S) <= y
BY LeastNumber DEF Min

(* What holds of n and of each number below one of which it holds.          *)
LEMMA Downwards ==
  ASSUME NEW n \in Nat \ {0}, NEW H \in SUBSET (1..n), n \in H,
         \A k \in 2..n : k \in H => k - 1 \in H
  PROVE  H = 1..n
<1> DEFINE M == {k \in 0..(n - 1) : n - k \notin H}
<1>1. CASE M = {}
  <2>1. \A j \in 1..n : n - j \in 0..(n - 1) /\ n - (n - j) = j
    OBVIOUS
  <2> QED
    BY <1>1, <2>1
<1>2. CASE M # {}
  <2>1. M \in SUBSET Nat
    OBVIOUS
  <2>2. PICK k \in M : \A j \in M : k <= j
    <3> HIDE DEF M
    <3> QED
      BY <1>2, <2>1, LeastNumber
  <2>3. k # 0 /\ k \in 0..(n - 1) /\ n - k \notin H
    OBVIOUS
  <2>4. k - 1 \notin M
    BY <2>2, <2>3
  <2>5. n - (k - 1) \in H /\ n - (k - 1) \in 2..n /\ n - (k - 1) - 1 = n - k
    BY <2>3, <2>4
  <2> QED
    BY <2>3, <2>5
<1> QED
  BY <1>1, <1>2

-----------------------------------------------------------------------------
(* Names.                                                                   *)

LEMMA NameType ==
  ASSUME NEW d \in Decks
  PROVE  /\ Name[d] \in Seq(STRING) /\ Level(d) \in Nat /\ Level(d) > 0
         /\ Place[d] \in Nat
<1>1. Name[d] \in Seq(STRING) /\ Name[d] # <<>>
  BY DeckNames
<1>2. \E i \in DOMAIN NameOrder : NameOrder[i] = d
  BY DEF Decks, ToSet
<1>3. DOMAIN NameOrder \subseteq Nat
  BY DeckNames
<1> QED
  BY <1>1, <1>2, <1>3 DEF Level, Place

LEMMA PlaceIsItsOwn ==
  ASSUME NEW d \in Decks, NEW e \in Decks, Place[d] = Place[e]
  PROVE  d = e
<1>1. \A x \in Decks : \E i \in DOMAIN NameOrder : NameOrder[i] = x
  BY DEF Decks, ToSet
<1> QED
  BY <1>1 DEF Place

LEMMA PrefixByElements ==
  ASSUME NEW s \in Seq(STRING), NEW t \in Seq(STRING)
  PROVE  IsPrefix(s, t) <=> Len(s) <= Len(t) /\ \A i \in 1..Len(s) : s[i] = t[i]
<1>1. CASE Len(s) <= Len(t)
  <2>1. /\ Len(SubSeq(s, 1, Len(s))) = Len(s) /\ Len(SubSeq(t, 1, Len(s))) = Len(s)
        /\ SubSeq(s, 1, Len(s)) \in Seq(STRING) /\ SubSeq(t, 1, Len(s)) \in Seq(STRING)
        /\ \A i \in 1..Len(s) : SubSeq(s, 1, Len(s))[i] = s[i] /\ SubSeq(t, 1, Len(s))[i] = t[i]
    BY <1>1
  <2> QED
    BY <1>1, <2>1 DEF IsPrefix
<1>2. CASE ~(Len(s) <= Len(t))
  BY <1>2 DEF IsPrefix
<1> QED
  BY <1>1, <1>2

LEMMA UnderByElements ==
  ASSUME NEW d \in Decks, NEW e \in Decks
  PROVE  WithUnder(d, e) <=> Level(d) <= Level(e) /\ \A i \in 1..Level(d) : Name[d][i] = Name[e][i]
BY NameType, PrefixByElements DEF WithUnder, Level

LEMMA UnderIsOrder ==
  /\ \A d \in Decks : WithUnder(d, d)
  /\ \A d, e, f \in Decks : WithUnder(d, e) /\ WithUnder(e, f) => WithUnder(d, f)
  /\ \A d, e, f \in Decks : WithUnder(d, f) /\ WithUnder(e, f) /\ Level(d) <= Level(e) => WithUnder(d, e)
  /\ \A d, e \in Decks : WithUnder(d, e) => Level(d) <= Level(e)
<1>1. \A d \in Decks : WithUnder(d, d)
  BY UnderByElements, NameType
<1>2. ASSUME NEW d \in Decks, NEW e \in Decks, NEW f \in Decks, WithUnder(d, e), WithUnder(e, f)
      PROVE  WithUnder(d, f)
  <2>1. Level(d) \in Nat /\ Level(e) \in Nat /\ Level(f) \in Nat
    BY NameType
  <2>2. 1..Level(d) \subseteq 1..Level(e)
    BY <1>2, <2>1, UnderByElements
  <2> QED
    BY <1>2, <2>1, <2>2, UnderByElements
<1>3. ASSUME NEW d \in Decks, NEW e \in Decks, NEW f \in Decks, WithUnder(d, f), WithUnder(e, f),
             Level(d) <= Level(e)
      PROVE  WithUnder(d, e)
  <2>1. Level(d) \in Nat /\ Level(e) \in Nat
    BY NameType
  <2>2. 1..Level(d) \subseteq 1..Level(e)
    BY <1>3, <2>1
  <2> QED
    BY <1>3, <2>1, <2>2, UnderByElements
<1>4. \A d, e \in Decks : WithUnder(d, e) => Level(d) <= Level(e)
  BY UnderByElements
<1> QED
  BY <1>1, <1>2, <1>3, <1>4

LEMMA SameLevelUnder ==
  ASSUME NEW d \in Decks, NEW e \in Decks, WithUnder(d, e), Level(d) = Level(e)
  PROVE  d = e
<1>1. /\ Name[d] \in Seq(STRING) /\ Name[e] \in Seq(STRING) /\ Len(Name[d]) = Len(Name[e])
      /\ \A i \in 1..Len(Name[d]) : Name[d][i] = Name[e][i]
  BY NameType, UnderByElements DEF Level
<1>2. Name[d] = Name[e]
  BY <1>1
<1> QED
  BY <1>2, DeckNames

-----------------------------------------------------------------------------
(* The tree.                                                                *)

LEMMA LineOfAncestor ==
  ASSUME NEW ds \in SUBSET Decks, NEW e \in ds, NEW a \in Line(ds, e)
  PROVE  Line(ds, a) = {f \in Line(ds, e) : Level(f) <= Level(a)}
<1>0. \A d \in ds : Level(d) \in Nat /\ Place[d] \in Nat
  BY NameType
<1>1. a \in ds /\ Place[a] <= Place[e]
  BY DEF Line
<1>2. ASSUME NEW f \in Line(ds, a)
      PROVE  f \in Line(ds, e) /\ Level(f) <= Level(a)
  <2>1. f \in ds /\ Place[f] <= Place[a]
    BY <1>2 DEF Line
  <2>2. Level(f) <= Level(a)
    <3>1. CASE Place[f] = Place[a]
      BY <1>0, <1>1, <2>1, <3>1, PlaceIsItsOwn
    <3>2. CASE Place[f] < Place[a]
      BY <1>0, <1>1, <2>1, <3>2 DEF Line
    <3> QED
      BY <1>0, <1>1, <2>1, <3>1, <3>2
  <2>3. ASSUME NEW g \in ds, Place[f] < Place[g], Place[g] <= Place[e]
        PROVE  Level(f) < Level(g)
    <3>1. CASE Place[g] <= Place[a]
      BY <2>3, <3>1 DEF Line
    <3>2. CASE Place[a] < Place[g]
      <4>1. Level(a) < Level(g)
        BY <2>3, <3>2 DEF Line
      <4> QED
        BY <1>0, <1>1, <2>1, <2>2, <4>1
    <3> QED
      BY <1>0, <1>1, <3>1, <3>2
  <2> QED
    BY <1>0, <1>1, <2>1, <2>2, <2>3 DEF Line
<1>3. ASSUME NEW f \in Line(ds, e), Level(f) <= Level(a)
      PROVE  f \in Line(ds, a)
  <2>1. f \in ds
    BY DEF Line
  <2>2. Place[f] <= Place[a]
    <3>1. ~(Place[a] < Place[f])
      BY <1>0, <1>1, <1>3, <2>1 DEF Line
    <3> QED
      BY <1>0, <1>1, <2>1, <3>1
  <2> QED
    BY <1>0, <1>1, <2>1, <2>2 DEF Line
<1> QED
  BY <1>2, <1>3

LEMMA TreePaths ==
  ASSUME NEW ds \in SUBSET Decks, NEW top \in Nat, NEW e \in DOMAIN Tree(ds, top)
  PROVE  /\ e \in ds /\ Tree(ds, top)[e] = Line(ds, e) /\ e \in Line(ds, e)
         /\ \A a \in Line(ds, e) : a \in DOMAIN Tree(ds, top) /\ Line(ds, a) \subseteq Line(ds, e)
<1>1. e \in ds /\ Tree(ds, top)[e] = Line(ds, e) /\ {Level(f) : f \in Line(ds, e)} = top..Level(e)
  BY DEF Tree
<1>2. \A d \in ds : Level(d) \in Nat /\ Place[d] \in Nat
  BY NameType
<1>3. e \in Line(ds, e)
  BY <1>1, <1>2 DEF Line
<1>4. ASSUME NEW a \in Line(ds, e)
      PROVE  a \in DOMAIN Tree(ds, top) /\ Line(ds, a) \subseteq Line(ds, e)
  <2>1. a \in ds /\ Level(a) \in top..Level(e)
    BY <1>1, <1>4 DEF Line
  <2>2. Line(ds, a) = {f \in Line(ds, e) : Level(f) <= Level(a)}
    BY <1>1, <1>4, LineOfAncestor
  <2>3. {Level(f) : f \in Line(ds, a)} = top..Level(a)
    <3>1. \A n \in top..Level(a) : n \in top..Level(e)
      BY <1>1, <1>2, <2>1
    <3>2. \A n \in top..Level(a) : \E f \in Line(ds, a) : Level(f) = n
      BY <1>1, <2>2, <3>1
    <3>3. \A f \in Line(ds, a) : Level(f) \in top..Level(a)
      BY <1>1, <2>2
    <3> QED
      BY <3>2, <3>3
  <2> QED
    BY <2>1, <2>2, <2>3 DEF Tree
<1> QED
  BY <1>1, <1>3, <1>4

(* What is above a deck by name is above it in the tree.                    *)
LEMMA AboveIsOnLine ==
  ASSUME NEW ds \in SUBSET Decks, NEW e \in ds, NEW d \in ds, WithUnder(d, e)
  PROVE  d \in Line(ds, e)
<1>1. Place[d] <= Place[e] /\ \A f \in Decks : Place[f] \in Place[d]..Place[e] => WithUnder(d, f)
  BY DeckNames
<1>2. \A f \in ds : Level(f) \in Nat /\ Place[f] \in Nat
  BY NameType
<1>3. ASSUME NEW f \in ds, Place[d] < Place[f], Place[f] <= Place[e]
      PROVE  Level(d) < Level(f)
  <2>1. WithUnder(d, f)
    BY <1>1, <1>2, <1>3
  <2>2. Level(d) # Level(f)
    BY <1>2, <1>3, <2>1, SameLevelUnder
  <2> QED
    BY <1>2, <2>1, <2>2, UnderIsOrder
<1> QED
  BY <1>1, <1>3 DEF Line


-----------------------------------------------------------------------------
(* Limits.                                                                  *)

CollectionOK ==
    /\ decks \subseteq Decks
    /\ \A c \in Cards : card[c] \in
         [deck : Decks, home : Decks \ FilteredDecks, queue : Kinds \cup {"Learn", "Suspended"}]
    /\ \A d \in Decks : config[d] \in
         [review : Nat, new : Nat, reviewed : Nat, introduced : Nat, bury : SUBSET Kinds]
    /\ option \in [ignore_review_limit : BOOLEAN, all_parents : BOOLEAN, by_deck : BOOLEAN,
                   day_learn_mix : Mixes, new_review_mix : Mixes]

Limits == [review : Nat, new : Nat, cap : BOOLEAN]

LEMMA MaxWithZero ==
  ASSUME NEW x \in Int
  PROVE  Max({0, x}) = IF x > 0 THEN x ELSE 0
<1>1. \E y \in {0, x} : \A z \in {0, x} : y >= z
  OBVIOUS
<1>2. Max({0, x}) \in {0, x} /\ \A z \in {0, x} : Max({0, x}) >= z
  BY <1>1 DEF Max
<1> QED
  BY <1>2

LEMMA RemainingType ==
  ASSUME CollectionOK, NEW d \in Decks
  PROVE  /\ RemainingLimits(d) \in Limits
         /\ RemainingLimits(d).cap => RemainingLimits(d).new <= RemainingLimits(d).review
         /\ RemainingLimits(d).cap <=> d \notin FilteredDecks /\ ~option.ignore_review_limit
<1> DEFINE k == config[d]
           shared == IF option.ignore_review_limit THEN 0 ELSE k.introduced
           review == k.review - k.reviewed - shared
           new == k.new - k.introduced
           capped == IF option.ignore_review_limit THEN new ELSE Smaller(new, review)
<1>1. /\ k.review \in Nat /\ k.new \in Nat /\ k.reviewed \in Nat /\ k.introduced \in Nat
      /\ option.ignore_review_limit \in BOOLEAN
  BY DEF CollectionOK
<1>2. review \in Int /\ capped \in Int /\ (~option.ignore_review_limit => capped <= review)
  BY <1>1 DEF Smaller
<1>3. CASE d \in FilteredDecks
  BY <1>3, BuilderParameters DEF RemainingLimits, Limits
<1>4. CASE d \notin FilteredDecks
  <2>1. RemainingLimits(d) = [review |-> Max({0, review}), new |-> Max({0, capped}),
                              cap |-> ~option.ignore_review_limit]
    BY <1>4 DEF RemainingLimits
  <2> HIDE DEF review, capped
  <2> DEFINE r == Max({0, review})
             n == Max({0, capped})
  <2>2. r = IF review > 0 THEN review ELSE 0
    BY <1>2, MaxWithZero
  <2>3. n = IF capped > 0 THEN capped ELSE 0
    BY <1>2, MaxWithZero
  <2>4. RemainingLimits(d) = [review |-> r, new |-> n, cap |-> ~option.ignore_review_limit]
    BY <2>1
  <2> HIDE DEF r, n
  <2>5. r \in Nat /\ n \in Nat /\ (~option.ignore_review_limit => n <= r)
    BY <1>2, <2>2, <2>3
  <2>6. RemainingLimits(d) \in Limits
    BY <1>1, <2>4, <2>5 DEF Limits
  <2>7. RemainingLimits(d).review = r /\ RemainingLimits(d).new = n
    BY <2>4
  <2>8. RemainingLimits(d).cap = ~option.ignore_review_limit
    BY <2>4
  <2>9. RemainingLimits(d).cap <=> ~option.ignore_review_limit
    BY <2>8, Zenon
  <2> QED
    BY <1>4, <2>5, <2>6, <2>7, <2>9
<1> QED
  BY <1>3, <1>4

(* The least of a number and others.                                        *)
LEMMA LeastOf ==
  ASSUME NEW n \in Nat, NEW S \in SUBSET Nat
  PROVE  LET m == Min({n} \cup S)
         IN  m \in Nat /\ m <= n /\ (\A s \in S : m <= s) /\ (m = n \/ m \in S)
<1> DEFINE T == {n} \cup S
<1>1. T \in SUBSET Nat /\ T # {}
  OBVIOUS
<1>2. Min(T) \in T /\ \A y \in T : Min(T) <= y
  <2> HIDE DEF T
  <2> QED
    BY <1>1, MinIsLeast
<1> QED
  BY <1>1, <1>2

LEMMA CapToMin ==
  ASSUME NEW l \in Limits, NEW ms \in SUBSET Limits
  PROVE  /\ CapTo(l, ms) \in Limits /\ CapTo(l, ms).cap = l.cap
         /\ CapTo(l, ms).review <= l.review /\ CapTo(l, ms).new <= l.new
         /\ \A m \in ms : CapTo(l, ms).review <= m.review /\ CapTo(l, ms).new <= m.new
         /\ CapTo(l, ms).review = l.review \/ \E m \in ms : CapTo(l, ms).review = m.review
         /\ CapTo(l, ms).new = l.new \/ \E m \in ms : CapTo(l, ms).new = m.new
<1> DEFINE reviews == {m.review : m \in ms}
           news == {m.new : m \in ms}
<1>1. reviews \in SUBSET Nat /\ news \in SUBSET Nat /\ l.review \in Nat /\ l.new \in Nat
  BY DEF Limits
<1>2. CapTo(l, ms) = [l EXCEPT !.review = Min({l.review} \cup reviews), !.new = Min({l.new} \cup news)]
  BY DEF CapTo
<1>3. /\ \A m \in ms : m.review \in reviews /\ m.new \in news
      /\ \A r \in reviews : \E m \in ms : r = m.review
      /\ \A n \in news : \E m \in ms : n = m.new
  OBVIOUS
<1> HIDE DEF reviews, news
<1> DEFINE r == Min({l.review} \cup reviews)
           n == Min({l.new} \cup news)
<1>4. r \in Nat /\ r <= l.review /\ (\A s \in reviews : r <= s) /\ (r = l.review \/ r \in reviews)
  BY <1>1, LeastOf
<1>5. n \in Nat /\ n <= l.new /\ (\A s \in news : n <= s) /\ (n = l.new \/ n \in news)
  BY <1>1, LeastOf
<1>6. CapTo(l, ms) = [l EXCEPT !.review = r, !.new = n]
  BY <1>2
<1> HIDE DEF r, n
<1>7. /\ CapTo(l, ms) \in Limits /\ CapTo(l, ms).cap = l.cap
      /\ CapTo(l, ms).review = r /\ CapTo(l, ms).new = n
  BY <1>4, <1>5, <1>6 DEF Limits
<1> QED
  BY <1>3, <1>4, <1>5, <1>7

LEMMA DecrementedLess ==
  ASSUME NEW l \in Limits, NEW kind
  PROVE  /\ Decremented(l, kind) \in Limits /\ Decremented(l, kind).cap = l.cap
         /\ Decremented(l, kind).review <= l.review /\ Decremented(l, kind).new <= l.new
         /\ kind = "New" => /\ Decremented(l, kind).review = l.review
                            /\ Decremented(l, kind).new = OneLess(l.new)
         /\ kind # "New" => /\ Decremented(l, kind).review = OneLess(l.review)
                            /\ Decremented(l, kind).new = IF l.cap THEN Smaller(l.new, OneLess(l.review))
                                                          ELSE l.new
         /\ OneLess(l.review) \in Nat /\ OneLess(l.new) \in Nat
<1>1. /\ OneLess(l.review) \in Nat /\ OneLess(l.review) <= l.review
      /\ OneLess(l.new) \in Nat /\ OneLess(l.new) <= l.new
  BY DEF Limits, OneLess
<1>2. CASE kind = "New"
  BY <1>1, <1>2 DEF Decremented, Limits
<1>3. CASE kind # "New"
  <2> DEFINE new == IF l.cap THEN Smaller(l.new, OneLess(l.review)) ELSE l.new
  <2>1. new \in Nat /\ new <= l.new
    BY <1>1 DEF Limits, Smaller
  <2>2. Decremented(l, kind) = [l EXCEPT !.review = OneLess(l.review), !.new = new]
    BY <1>3 DEF Decremented
  <2> HIDE DEF new
  <2>3. /\ Decremented(l, kind) \in Limits /\ Decremented(l, kind).cap = l.cap
        /\ Decremented(l, kind).review = OneLess(l.review) /\ Decremented(l, kind).new = new
    BY <1>1, <2>1, <2>2 DEF Limits
  <2> QED
    BY <1>1, <1>3, <2>1, <2>3 DEF new
<1> QED
  BY <1>1, <1>2, <1>3


-----------------------------------------------------------------------------
(* The invariant.                                                           *)

PhaseOK == phase \in Kinds \cup {"Learn", "Mix", "Built", "Failed", "Ordered", Idle}

NotYet ==
    CASE phase = Idle -> Kinds \cup {"Learn"} [] phase = "Learn" -> Kinds
      [] phase = "DayLearn" -> {"Review", "New"} [] phase = "Review" -> {"New"} [] OTHER -> {}

GatheredOK ==
    /\ DOMAIN gathered = Kinds \cup {"Learn", "main"}
    /\ unvisited \subseteq Cards
    /\ \A kind \in Kinds \cup {"Learn"} :
         /\ gathered[kind] \in Seq(Cards)
         /\ \A c \in ToSet(gathered[kind]) :
              /\ c \notin unvisited /\ card[c].queue = kind /\ card[c].deck \in Active
              /\ kind # "Learn" => card[c].deck \in DOMAIN tree
    /\ \A kind \in NotYet : gathered[kind] = <<>>

TreeOK ==
    /\ root \in decks
    /\ tree = Tree(Listed(root), Level(Top)) /\ DOMAIN limits = DOMAIN tree

(* What a deck has left, it has not given: also of new cards, where they    *)
(* count as reviews.                                                        *)
LimitsOK ==
    \A d \in DOMAIN tree :
        /\ limits[d] \in Limits /\ limits[d].cap = RemainingLimits(d).cap
        /\ ReviewsOf(d) + limits[d].review <= RemainingLimits(d).review
        /\ NewOf(d) + limits[d].new <= RemainingLimits(d).new
        /\ RemainingLimits(d).cap => ReviewsOf(d) + NewOf(d) + limits[d].new <= RemainingLimits(d).review

(* A deck with nothing left has stopped those under it.                     *)
ZeroBelow ==
    \A d \in DOMAIN tree : \A a \in tree[d] :
        /\ limits[a].review = 0 => limits[d].review = 0
        /\ limits[a].new = 0 => limits[d].new = 0

BuilderInv ==
    /\ CollectionOK /\ PhaseOK /\ GatheredOK
    /\ phase # Idle => TreeOK /\ LimitsOK /\ ZeroBelow

-----------------------------------------------------------------------------
LEMMA ListedType ==
  ASSUME CollectionOK, NEW r
  PROVE  Listed(r) \subseteq decks /\ Listed(r) \subseteq Decks
BY DEF CollectionOK, Listed, Under, ParentDecks

LEMMA TopIsAbove ==
  ASSUME CollectionOK, NEW r \in decks
  PROVE  TopOf(r) \in Listed(r) /\ \A e \in Listed(r) : WithUnder(TopOf(r), e)
<1>0. r \in Decks /\ Listed(r) \subseteq Decks
  BY ListedType DEF CollectionOK
<1>1. r \in Listed(r)
  BY <1>0, UnderIsOrder DEF Listed, Under
<1> DEFINE levels == {Level(e) : e \in Listed(r)}
<1>2. levels \in SUBSET Nat /\ levels # {}
  BY <1>0, <1>1, NameType
<1>3. PICK n \in levels : \A x \in levels : n <= x
  <2> HIDE DEF levels
  <2> QED
    BY <1>2, LeastNumber
<1>4. PICK m \in Listed(r) : \A e \in Listed(r) : Level(m) <= Level(e)
  BY <1>3
<1>5. \A e \in Listed(r) : WithUnder(r, e) \/ WithUnder(e, r)
  BY DEF Listed, Under, ParentDecks, Above, IsStrictPrefix, WithUnder
<1>6. WithUnder(m, r)
  <2>1. CASE WithUnder(m, r)
    BY <2>1
  <2>2. CASE WithUnder(r, m)
    <3>1. Level(m) <= Level(r) /\ Level(r) <= Level(m) /\ Level(m) \in Nat /\ Level(r) \in Nat
      BY <1>0, <1>1, <1>4, <2>2, UnderIsOrder, NameType
    <3>2. r = m
      BY <1>0, <2>2, <3>1, SameLevelUnder
    <3> QED
      BY <1>0, <3>2, UnderIsOrder
  <2> QED
    BY <1>5, <2>1, <2>2
<1>7. ASSUME NEW e \in Listed(r)
      PROVE  WithUnder(m, e)
  <2>1. CASE WithUnder(r, e)
    BY <1>0, <1>6, <2>1, UnderIsOrder
  <2>2. CASE WithUnder(e, r)
    BY <1>0, <1>4, <1>6, <2>2, UnderIsOrder
  <2> QED
    BY <1>5, <2>1, <2>2
<1> QED
  BY <1>7 DEF TopOf

LEMMA TreeFacts ==
  ASSUME CollectionOK, TreeOK
  PROVE  /\ DOMAIN tree \subseteq Listed(root) /\ DOMAIN tree \subseteq Decks
         /\ \A e \in DOMAIN tree : e \in tree[e] /\ tree[e] \subseteq DOMAIN tree
         /\ \A e \in DOMAIN tree : \A a \in tree[e] : tree[a] \subseteq tree[e]
         /\ \A e \in DOMAIN tree : \A d \in Listed(root) : WithUnder(d, e) => d \in tree[e]
<1> DEFINE ds == Listed(root)
           top == Level(Top)
<1>1. ds \in SUBSET Decks /\ tree = Tree(ds, top)
  BY ListedType DEF TreeOK
<1>2. top \in Nat
  BY <1>1, TopIsAbove, NameType DEF TreeOK, Top
<1> HIDE DEF ds, top
<1>3. ASSUME NEW e \in DOMAIN tree
      PROVE  /\ e \in ds /\ tree[e] = Line(ds, e) /\ e \in Line(ds, e)
             /\ \A a \in Line(ds, e) : a \in DOMAIN tree /\ Line(ds, a) \subseteq Line(ds, e)
  BY <1>1, <1>2, TreePaths
<1>4. ASSUME NEW e \in DOMAIN tree, NEW d \in ds, WithUnder(d, e)
      PROVE  d \in tree[e]
  BY <1>1, <1>3, <1>4, AboveIsOnLine
<1> QED
  BY <1>1, <1>3, <1>4 DEF ds

-----------------------------------------------------------------------------
(* What was gathered.                                                       *)

LEMMA FiniteRange ==
  ASSUME NEW S, NEW s \in Seq(S)
  PROVE  IsFiniteSet(ToSet(s))
<1>1. Len(s) \in Nat /\ DOMAIN s = 1..Len(s)
  OBVIOUS
<1>2. IsFiniteSet(1..Len(s))
  BY <1>1, FS_Interval
<1>3. [i \in 1..Len(s) |-> s[i]] \in Surjection(1..Len(s), ToSet(s))
  BY <1>1 DEF Surjection, ToSet
<1> QED
  BY <1>2, <1>3, FS_Surjection

LEMMA GatheredMembers ==
  ASSUME NEW d, NEW K, NEW c
  PROVE  c \in GatheredIn(d, K) <=> card[c].deck \in Under(d) /\ \E k \in K : c \in ToSet(gathered[k])
BY DEF GatheredIn

LEMMA GatheredFinite ==
  ASSUME GatheredOK, NEW d
  PROVE  /\ IsFiniteSet(GatheredIn(d, {"DayLearn", "Review"})) /\ IsFiniteSet(GatheredIn(d, {"New"}))
         /\ ReviewsOf(d) \in Nat /\ NewOf(d) \in Nat
<1>1. \A k \in Kinds : IsFiniteSet(ToSet(gathered[k]))
  BY FiniteRange DEF GatheredOK
<1>2. IsFiniteSet(ToSet(gathered["DayLearn"]) \cup ToSet(gathered["Review"]))
  BY <1>1, FS_Union DEF Kinds
<1>3. GatheredIn(d, {"DayLearn", "Review"}) \in SUBSET (ToSet(gathered["DayLearn"]) \cup ToSet(gathered["Review"]))
  BY GatheredMembers
<1>4. GatheredIn(d, {"New"}) \in SUBSET ToSet(gathered["New"])
  BY GatheredMembers
<1>5. IsFiniteSet(GatheredIn(d, {"DayLearn", "Review"})) /\ IsFiniteSet(GatheredIn(d, {"New"}))
  BY <1>1, <1>2, <1>3, <1>4, FS_Subset DEF Kinds
<1> QED
  BY <1>5, FS_CardinalityType DEF ReviewsOf, NewOf

LEMMA RangeOfAppend ==
  ASSUME NEW S, NEW s \in Seq(S), NEW c \in S
  PROVE  Append(s, c) \in Seq(S) /\ ToSet(Append(s, c)) = ToSet(s) \cup {c}
<1>1. /\ Append(s, c) \in Seq(S) /\ Len(Append(s, c)) = Len(s) + 1 /\ Len(s) \in Nat
      /\ Append(s, c)[Len(s) + 1] = c /\ \A i \in 1..Len(s) : Append(s, c)[i] = s[i]
      /\ DOMAIN s = 1..Len(s) /\ DOMAIN Append(s, c) = 1..(Len(s) + 1)
  OBVIOUS
<1>2. 1..(Len(s) + 1) = 1..Len(s) \cup {Len(s) + 1}
  BY <1>1
<1> QED
  BY <1>1, <1>2 DEF ToSet

LEMMA GatherCounts ==
  ASSUME GatheredOK, NEW c \in unvisited, card[c].queue \in Kinds \cup {"Learn"},
         Gather(c), UNCHANGED <<decks, card>>, NEW d
  PROVE  /\ ReviewsOf(d)' = IF card[c].queue \in {"DayLearn", "Review"} /\ card[c].deck \in Under(d)
                            THEN ReviewsOf(d) + 1 ELSE ReviewsOf(d)
         /\ NewOf(d)' = IF card[c].queue = "New" /\ card[c].deck \in Under(d)
                        THEN NewOf(d) + 1 ELSE NewOf(d)
<1> DEFINE q == card[c].queue
           added(K) == IF q \in K /\ card[c].deck \in Under(d) THEN {c} ELSE {}
<1>1. c \in Cards
  BY DEF GatheredOK
<1>2. /\ \A k \in Kinds \cup {"Learn"} : k # q => gathered'[k] = gathered[k]
      /\ gathered'[q] = Append(gathered[q], c)
  BY DEF Gather, GatheredOK
<1>3. ToSet(gathered'[q]) = ToSet(gathered[q]) \cup {c}
  <2>1. gathered[q] \in Seq(Cards)
    BY DEF GatheredOK
  <2>2. ToSet(Append(gathered[q], c)) = ToSet(gathered[q]) \cup {c}
    BY <1>1, <2>1, RangeOfAppend
  <2> QED
    BY <1>2, <2>2
<1>4. ASSUME NEW K \in SUBSET Kinds
      PROVE  GatheredIn(d, K)' = GatheredIn(d, K) \cup added(K)
  <2>1. GatheredIn(d, K)' = {x \in UNION {ToSet(gathered'[k]) : k \in K} : card[x].deck \in Under(d)}
    BY DEF GatheredIn, ToSet, Under
  <2>2. \A k \in K : k # q => ToSet(gathered'[k]) = ToSet(gathered[k])
    BY <1>2
  <2>3. \A x : x \in GatheredIn(d, K)' <=>
                  card[x].deck \in Under(d) /\ \E k \in K : x \in ToSet(gathered'[k])
    BY <2>1
  <2>4. \A x : x \in GatheredIn(d, K) <=>
                  card[x].deck \in Under(d) /\ \E k \in K : x \in ToSet(gathered[k])
    BY GatheredMembers
  <2>5. \A x : (\E k \in K : x \in ToSet(gathered'[k])) <=>
                  (\E k \in K : x \in ToSet(gathered[k])) \/ (x = c /\ q \in K)
    BY <1>3, <2>2
  <2> HIDE DEF q
  <2>6. \A x : x \in GatheredIn(d, K)' <=> x \in GatheredIn(d, K) \/ x \in added(K)
    BY <2>3, <2>4, <2>5
  <2> QED
    BY <2>6
<1>5. \A K \in SUBSET Kinds : c \notin GatheredIn(d, K)
  BY GatheredMembers DEF GatheredOK
<1>6. {"DayLearn", "Review"} \in SUBSET Kinds /\ {"New"} \in SUBSET Kinds
  BY DEF Kinds
<1>7. ASSUME NEW K \in SUBSET Kinds, IsFiniteSet(GatheredIn(d, K))
      PROVE  Cardinality(GatheredIn(d, K))' = IF q \in K /\ card[c].deck \in Under(d)
                                              THEN Cardinality(GatheredIn(d, K)) + 1
                                              ELSE Cardinality(GatheredIn(d, K))
  <2>1. CASE q \in K /\ card[c].deck \in Under(d)
    <3>1. GatheredIn(d, K)' = GatheredIn(d, K) \cup {c}
      BY <1>4, <2>1
    <3>2. Cardinality(GatheredIn(d, K) \cup {c}) = Cardinality(GatheredIn(d, K)) + 1
      BY <1>5, <1>7, FS_AddElement
    <3> QED
      BY <2>1, <3>1, <3>2
  <2>2. CASE ~(q \in K /\ card[c].deck \in Under(d))
    BY <1>4, <2>2
  <2> QED
    BY <2>1, <2>2
<1> QED
  BY <1>6, <1>7, GatheredFinite DEF ReviewsOf, NewOf


-----------------------------------------------------------------------------
(* A card is counted.                                                       *)

LimitsTyped == \A d \in DOMAIN tree : limits[d] \in Limits /\ limits[d].cap = RemainingLimits(d).cap

Less(e, kind, a) == IF a \in tree[e] THEN Decremented(limits[a], kind) ELSE limits[a]
Ended(e, kind) == {a \in tree[e] : ReachedZero(limits[a], Less(e, kind, a))}

LEMMA LessType ==
  ASSUME LimitsTyped, NEW e, NEW kind, NEW b \in DOMAIN tree
  PROVE  /\ Less(e, kind, b) \in Limits /\ Less(e, kind, b).cap = limits[b].cap
         /\ Less(e, kind, b).review <= limits[b].review /\ Less(e, kind, b).new <= limits[b].new
<1>1. limits[b] \in Limits /\ limits[b].review \in Nat /\ limits[b].new \in Nat
  BY DEF LimitsTyped, Limits
<1> QED
  BY <1>1, DecrementedLess DEF Less

LEMMA DecrementedLimits ==
  ASSUME CollectionOK, TreeOK, LimitsTyped, NEW e \in DOMAIN tree, NEW kind, NEW b \in DOMAIN tree,
         NEW l, l = DecrementDeckAndParents(e, kind)[b]
  PROVE  /\ DOMAIN DecrementDeckAndParents(e, kind) = DOMAIN tree
         /\ l \in Limits /\ l.cap = limits[b].cap
         /\ l.review <= Less(e, kind, b).review /\ l.new <= Less(e, kind, b).new
         /\ \A a \in Ended(e, kind) \cap tree[b] :
              l.review <= Less(e, kind, a).review /\ l.new <= Less(e, kind, a).new
         /\ l.review = Less(e, kind, b).review
              \/ \E a \in Ended(e, kind) \cap tree[b] : l.review = Less(e, kind, a).review
         /\ l.new = Less(e, kind, b).new
              \/ \E a \in Ended(e, kind) \cap tree[b] : l.new = Less(e, kind, a).new
<1> DEFINE ms == {Less(e, kind, a) : a \in Ended(e, kind) \cap tree[b]}
<1>1. /\ DOMAIN DecrementDeckAndParents(e, kind) = DOMAIN tree
      /\ l = CapTo(Less(e, kind, b), ms)
  BY DEF DecrementDeckAndParents, Less, Ended, TreeOK
<1>2. tree[b] \subseteq DOMAIN tree
  BY TreeFacts
<1>3. ms \in SUBSET Limits /\ Less(e, kind, b) \in Limits /\ Less(e, kind, b).cap = limits[b].cap
  BY <1>2, LessType
<1>4. /\ \A a \in Ended(e, kind) \cap tree[b] : Less(e, kind, a) \in ms
      /\ \A m \in ms : \E a \in Ended(e, kind) \cap tree[b] : m = Less(e, kind, a)
  OBVIOUS
<1> HIDE DEF ms
<1>5. /\ l \in Limits /\ l.cap = Less(e, kind, b).cap
      /\ l.review <= Less(e, kind, b).review /\ l.new <= Less(e, kind, b).new
      /\ \A m \in ms : l.review <= m.review /\ l.new <= m.new
      /\ l.review = Less(e, kind, b).review \/ \E m \in ms : l.review = m.review
      /\ l.new = Less(e, kind, b).new \/ \E m \in ms : l.new = m.new
  BY <1>1, <1>3, CapToMin
<1> QED
  BY <1>1, <1>3, <1>4, <1>5

(* A deck that has just nothing left is among those that cap what is below. *)
LEMMA CountedZeroBelow ==
  ASSUME CollectionOK, TreeOK, LimitsTyped, ZeroBelow, NEW e \in DOMAIN tree, NEW kind,
         limits' = DecrementDeckAndParents(e, kind), UNCHANGED tree
  PROVE  ZeroBelow'
<1> SUFFICES ASSUME NEW d \in DOMAIN tree, NEW a \in tree[d]
             PROVE  /\ limits'[a].review = 0 => limits'[d].review = 0
                    /\ limits'[a].new = 0 => limits'[d].new = 0
  BY DEF ZeroBelow
<1> DEFINE L(b) == Less(e, kind, b)
           M == Ended(e, kind)
<1>1. a \in DOMAIN tree /\ tree[a] \subseteq tree[d] /\ a \in tree[a]
  BY TreeFacts
<1>2. M \subseteq DOMAIN tree
  BY TreeFacts DEF Ended
<1>3. \A b \in DOMAIN tree : /\ L(b) \in Limits /\ limits[b] \in Limits
                             /\ L(b).review <= limits[b].review /\ L(b).new <= limits[b].new
  BY LessType DEF LimitsTyped
<1>4. /\ limits'[d] \in Limits /\ limits'[d].review <= L(d).review /\ limits'[d].new <= L(d).new
      /\ \A b \in M \cap tree[d] : limits'[d].review <= L(b).review /\ limits'[d].new <= L(b).new
  BY DecrementedLimits
<1>5. /\ limits'[a].review = L(a).review \/ \E b \in M \cap tree[a] : limits'[a].review = L(b).review
      /\ limits'[a].new = L(a).new \/ \E b \in M \cap tree[a] : limits'[a].new = L(b).new
  BY <1>1, DecrementedLimits
<1>6. /\ L(a).review = 0 => limits[a].review = 0 \/ a \in M
      /\ L(a).new = 0 => limits[a].new = 0 \/ a \in M
  <2>1. CASE a \in tree[e]
    BY <1>1, <1>3, <2>1 DEF Ended, ReachedZero, Limits
  <2>2. CASE a \notin tree[e]
    BY <2>2 DEF Less
  <2> QED
    BY <2>1, <2>2
<1>7. /\ limits[a].review = 0 => limits[d].review = 0
      /\ limits[a].new = 0 => limits[d].new = 0
  BY DEF ZeroBelow
<1> HIDE DEF L, M
<1>8. ASSUME limits'[a].review = 0
      PROVE  limits'[d].review = 0
  <2>1. CASE \E b \in M \cap tree[a] : limits'[a].review = L(b).review
    <3>1. \E b \in M \cap tree[d] : L(b).review = 0
      BY <1>1, <1>8, <2>1
    <3> QED
      BY <1>4, <3>1 DEF Limits
  <2>2. CASE limits'[a].review = L(a).review
    <3>1. CASE a \in M
      BY <1>4, <1>8, <2>2, <3>1 DEF Limits
    <3>2. CASE limits[a].review = 0
      BY <1>3, <1>4, <1>7, <3>2 DEF Limits
    <3> QED
      BY <1>6, <1>8, <2>2, <3>1, <3>2
  <2> QED
    BY <1>5, <2>1, <2>2
<1>9. ASSUME limits'[a].new = 0
      PROVE  limits'[d].new = 0
  <2>1. CASE \E b \in M \cap tree[a] : limits'[a].new = L(b).new
    <3>1. \E b \in M \cap tree[d] : L(b).new = 0
      BY <1>1, <1>9, <2>1
    <3> QED
      BY <1>4, <3>1 DEF Limits
  <2>2. CASE limits'[a].new = L(a).new
    <3>1. CASE a \in M
      BY <1>4, <1>9, <2>2, <3>1 DEF Limits
    <3>2. CASE limits[a].new = 0
      BY <1>3, <1>4, <1>7, <3>2 DEF Limits
    <3> QED
      BY <1>6, <1>9, <2>2, <3>1, <3>2
  <2> QED
    BY <1>5, <2>1, <2>2
<1> QED
  BY <1>8, <1>9

LEMMA FrameOfCollection ==
  ASSUME UNCHANGED collection
  PROVE  /\ CollectionOK => CollectionOK'
         /\ \A d : RemainingLimits(d)' = RemainingLimits(d) /\ Under(d)' = Under(d)
         /\ \A r : Listed(r)' = Listed(r) /\ TopOf(r)' = TopOf(r)
<1>1. CollectionOK => CollectionOK'
  BY DEF collection, CollectionOK
<1>2. ASSUME NEW d PROVE RemainingLimits(d)' = RemainingLimits(d) /\ Under(d)' = Under(d)
  BY DEF collection, RemainingLimits, Under
<1>3. ASSUME NEW r PROVE Listed(r)' = Listed(r) /\ TopOf(r)' = TopOf(r)
  BY DEF collection, Listed, TopOf, Under, ParentDecks, Above
<1> QED
  BY <1>1, <1>2, <1>3

(* A card that is gathered is counted for each deck above its own.          *)
LEMMA CountedLimits ==
  ASSUME CollectionOK, TreeOK, LimitsOK, ZeroBelow, GatheredOK, UNCHANGED <<collection, tree>>,
         NEW c \in unvisited, card[c].queue = phase, phase \in Kinds,
         card[c].deck \in DOMAIN tree, LimitOf(card[c].deck, phase) # 0,
         Gather(c), limits' = DecrementDeckAndParents(card[c].deck, phase)
  PROVE  LimitsOK'
<1> DEFINE e == card[c].deck
           L(b) == Less(e, phase, b)
<1>0. LimitsTyped
  BY DEF LimitsOK, LimitsTyped
<1> SUFFICES ASSUME NEW d \in DOMAIN tree
             PROVE  /\ limits'[d] \in Limits /\ limits'[d].cap = RemainingLimits(d).cap
                    /\ ReviewsOf(d)' + limits'[d].review <= RemainingLimits(d).review
                    /\ NewOf(d)' + limits'[d].new <= RemainingLimits(d).new
                    /\ RemainingLimits(d).cap =>
                         ReviewsOf(d)' + NewOf(d)' + limits'[d].new <= RemainingLimits(d).review
  BY FrameOfCollection DEF LimitsOK
<1>1. /\ limits'[d] \in Limits /\ limits'[d].cap = limits[d].cap
      /\ limits'[d].review <= L(d).review /\ limits'[d].new <= L(d).new
  BY <1>0, DecrementedLimits
<1>2. /\ L(d) \in Limits /\ L(d).review <= limits[d].review /\ L(d).new <= limits[d].new
  BY <1>0, LessType
<1>3. /\ limits[d] \in Limits /\ limits[d].cap = RemainingLimits(d).cap
      /\ ReviewsOf(d) + limits[d].review <= RemainingLimits(d).review
      /\ NewOf(d) + limits[d].new <= RemainingLimits(d).new
      /\ RemainingLimits(d).cap => ReviewsOf(d) + NewOf(d) + limits[d].new <= RemainingLimits(d).review
  BY DEF LimitsOK
<1>4. /\ ReviewsOf(d) \in Nat /\ NewOf(d) \in Nat /\ RemainingLimits(d) \in Limits
  BY GatheredFinite, TreeFacts, RemainingType
<1>5. /\ ReviewsOf(d)' = IF phase \in {"DayLearn", "Review"} /\ e \in Under(d)
                         THEN ReviewsOf(d) + 1 ELSE ReviewsOf(d)
      /\ NewOf(d)' = IF phase = "New" /\ e \in Under(d) THEN NewOf(d) + 1 ELSE NewOf(d)
  BY GatherCounts DEF Kinds, collection
<1>6. e \in Under(d) => d \in tree[e]
  BY TreeFacts DEF Under
<1>7. d \in tree[e] => L(d) = Decremented(limits[d], phase)
  BY DEF Less
<1>8. d \in tree[e] => LimitOf(d, phase) # 0
  BY DEF ZeroBelow, LimitOf
<1>9. phase # "New" => NewOf(d) = 0
  <2>1. phase # "New" => gathered["New"] = <<>>
    BY DEF GatheredOK, NotYet, Kinds
  <2>2. phase # "New" => GatheredIn(d, {"New"}) = {}
    BY <2>1, GatheredMembers DEF ToSet
  <2> QED
    BY <2>2, FS_EmptySet DEF NewOf
<1> HIDE DEF e, L
<1>10. CASE e \notin Under(d)
  BY <1>1, <1>2, <1>3, <1>4, <1>5, <1>10 DEF Limits
<1>11. CASE e \in Under(d) /\ phase = "New"
  <2>1. L(d).review = limits[d].review /\ L(d).new = limits[d].new - 1
    BY <1>3, <1>6, <1>7, <1>8, <1>11, DecrementedLess DEF OneLess, LimitOf
  <2> QED
    BY <1>1, <1>2, <1>3, <1>4, <1>5, <1>11, <2>1 DEF Limits
<1>12. CASE e \in Under(d) /\ phase # "New"
  <2>1. /\ L(d).review = limits[d].review - 1
        /\ limits[d].cap => L(d).new <= limits[d].review - 1
    BY <1>3, <1>6, <1>7, <1>8, <1>12, DecrementedLess DEF OneLess, LimitOf, Smaller, Limits
  <2>2. phase \in {"DayLearn", "Review"}
    BY <1>12 DEF Kinds
  <2> QED
    BY <1>1, <1>2, <1>3, <1>4, <1>5, <1>9, <1>12, <2>1, <2>2 DEF Limits
<1> QED
  BY <1>10, <1>11, <1>12


-----------------------------------------------------------------------------
(* The steps.                                                               *)

LEMMA NotYetOfIdle ==
  ASSUME phase = Idle
  PROVE  NotYet = Kinds \cup {"Learn"}
BY BuilderParameters DEF NotYet, Kinds

LEMMA InitBuilderInv ==
  ASSUME BuilderInit
  PROVE  BuilderInv
<1>1. CollectionOK
  BY BuilderParameters DEF BuilderInit, CollectionOK
<1>2. phase = Idle /\ gathered = NothingGathered /\ unvisited = Cards
  BY DEF BuilderInit
<1>3. GatheredOK
  <2>1. NotYet = Kinds \cup {"Learn"}
    BY <1>2, NotYetOfIdle
  <2>2. DOMAIN gathered = Kinds \cup {"Learn", "main"} /\ \A kind \in Kinds \cup {"Learn"} : gathered[kind] = <<>>
    BY <1>2 DEF NothingGathered
  <2>3. <<>> \in Seq(Cards) /\ ToSet(<<>>) = {}
    BY DEF ToSet
  <2> QED
    BY <1>2, <2>1, <2>2, <2>3 DEF GatheredOK
<1> QED
  BY <1>1, <1>2, <1>3 DEF BuilderInv, PhaseOK

LEMMA NothingGatheredYet ==
  ASSUME GatheredOK, phase = Idle, NEW d
  PROVE  ReviewsOf(d) = 0 /\ NewOf(d) = 0
<1>1. \A k \in Kinds : gathered[k] = <<>>
  BY NotYetOfIdle DEF GatheredOK
<1>2. \A K \in SUBSET Kinds : GatheredIn(d, K) = {}
  BY <1>1, GatheredMembers DEF ToSet
<1>3. GatheredIn(d, {"DayLearn", "Review"}) = {} /\ GatheredIn(d, {"New"}) = {}
  BY <1>2 DEF Kinds
<1> QED
  BY <1>3, FS_EmptySet DEF ReviewsOf, NewOf

(* What a deck begins with is the limit of a deck above it.                 *)
LEMMA StartLimits ==
  ASSUME CollectionOK, NEW r \in Decks, Start(r)
  PROVE  /\ TreeOK'
         /\ \A b \in DOMAIN tree' :
              /\ b \in Decks /\ b \in tree'[b] /\ tree'[b] \subseteq DOMAIN tree'
              /\ \A a \in tree'[b] : tree'[a] \subseteq tree'[b]
              /\ limits'[b] \in Limits /\ limits'[b].cap = RemainingLimits(b).cap
              /\ \A a \in tree'[b] : /\ limits'[b].review <= RemainingLimits(a).review
                                     /\ limits'[b].new <= RemainingLimits(a).new
              /\ \E a \in tree'[b] : limits'[b].review = RemainingLimits(a).review
              /\ \E a \in tree'[b] : limits'[b].new = RemainingLimits(a).new
<1> DEFINE ds == Listed(r)
           top == Level(TopOf(r))
<1>1. /\ r \in decks /\ root' = r /\ tree' = Tree(ds, top) /\ limits' = BuiltLimits(tree')
      /\ UNCHANGED collection
  BY DEF Start
<1>2. ds \in SUBSET Decks /\ top \in Nat
  BY <1>1, ListedType, TopIsAbove, NameType
<1>3. TreeOK'
  <2>1. decks' = decks
    BY <1>1 DEF collection
  <2>2. tree' = Tree(Listed(root'), Level(TopOf(root')))
    BY <1>1
  <2>3. Listed(root)' = Listed(root') /\ TopOf(root)' = TopOf(root')
    BY <1>1 DEF collection, Listed, TopOf, Under, ParentDecks, Above
  <2> QED
    BY <1>1, <2>1, <2>2, <2>3 DEF TreeOK, Top, BuiltLimits
<1> HIDE DEF ds, top
<1>4. ASSUME NEW b \in DOMAIN tree'
      PROVE  /\ b \in Decks /\ b \in tree'[b] /\ tree'[b] \subseteq DOMAIN tree'
             /\ \A a \in tree'[b] : tree'[a] \subseteq tree'[b]
  <2>1. /\ b \in ds /\ tree'[b] = Line(ds, b) /\ b \in Line(ds, b)
        /\ \A a \in Line(ds, b) : a \in DOMAIN tree' /\ Line(ds, a) \subseteq Line(ds, b)
    BY <1>1, <1>2, TreePaths
  <2>2. \A a \in DOMAIN tree' : tree'[a] = Line(ds, a)
    BY <1>1, <1>2, TreePaths
  <2> QED
    BY <1>2, <2>1, <2>2
<1>5. ASSUME NEW b \in DOMAIN tree'
      PROVE  /\ limits'[b] \in Limits /\ limits'[b].cap = RemainingLimits(b).cap
             /\ \A a \in tree'[b] : /\ limits'[b].review <= RemainingLimits(a).review
                                    /\ limits'[b].new <= RemainingLimits(a).new
             /\ \E a \in tree'[b] : limits'[b].review = RemainingLimits(a).review
             /\ \E a \in tree'[b] : limits'[b].new = RemainingLimits(a).new
  <2> DEFINE ms == {RemainingLimits(a) : a \in tree'[b]}
  <2>1. limits'[b] = CapTo(RemainingLimits(b), ms)
    BY <1>1, <1>5 DEF BuiltLimits
  <2>2. ms \in SUBSET Limits /\ RemainingLimits(b) \in Limits /\ b \in tree'[b]
    BY <1>4, <1>5, RemainingType
  <2>3. /\ \A a \in tree'[b] : RemainingLimits(a) \in ms
        /\ \A m \in ms : \E a \in tree'[b] : m = RemainingLimits(a)
    OBVIOUS
  <2> HIDE DEF ms
  <2>4. /\ limits'[b] \in Limits /\ limits'[b].cap = RemainingLimits(b).cap
        /\ \A m \in ms : limits'[b].review <= m.review /\ limits'[b].new <= m.new
        /\ limits'[b].review = RemainingLimits(b).review \/ \E m \in ms : limits'[b].review = m.review
        /\ limits'[b].new = RemainingLimits(b).new \/ \E m \in ms : limits'[b].new = m.new
    BY <2>1, <2>2, CapToMin
  <2> QED
    BY <2>2, <2>3, <2>4
<1> QED
  BY <1>3, <1>4, <1>5

LEMMA StartInv ==
  ASSUME BuilderInv, NEW r \in Decks, Start(r)
  PROVE  BuilderInv'
<1>1. CollectionOK /\ GatheredOK /\ phase = Idle
  BY DEF BuilderInv, Start
<1>2. UNCHANGED <<collection, unvisited, gathered>> /\ phase' = "Learn"
  BY DEF Start
<1>3. CollectionOK'
  BY <1>1, <1>2, FrameOfCollection
<1>4. GatheredOK'
  <2>1. \A kind \in Kinds \cup {"Learn"} : gathered[kind] = <<>>
    BY <1>1, NotYetOfIdle DEF GatheredOK
  <2>2. NotYet' = Kinds
    BY <1>2, BuilderParameters DEF NotYet
  <2>3. ToSet(<<>>) = {}
    BY DEF ToSet
  <2> QED
    BY <1>1, <1>2, <2>1, <2>2, <2>3 DEF GatheredOK, ToSet
<1>5. LimitsOK'
  <2> SUFFICES ASSUME NEW d \in DOMAIN tree'
               PROVE  /\ limits'[d] \in Limits /\ limits'[d].cap = RemainingLimits(d)'.cap
                      /\ ReviewsOf(d)' + limits'[d].review <= RemainingLimits(d)'.review
                      /\ NewOf(d)' + limits'[d].new <= RemainingLimits(d)'.new
                      /\ RemainingLimits(d)'.cap =>
                           ReviewsOf(d)' + NewOf(d)' + limits'[d].new <= RemainingLimits(d)'.review
    BY DEF LimitsOK
  <2>1. /\ d \in Decks /\ limits'[d] \in Limits /\ limits'[d].cap = RemainingLimits(d).cap
        /\ limits'[d].review <= RemainingLimits(d).review /\ limits'[d].new <= RemainingLimits(d).new
    BY <1>1, StartLimits
  <2>2. RemainingLimits(d)' = RemainingLimits(d)
    BY <1>2, FrameOfCollection
  <2>3. ReviewsOf(d)' = ReviewsOf(d) /\ NewOf(d)' = NewOf(d)
    BY <1>2 DEF collection, ReviewsOf, NewOf, GatheredIn, Under
  <2>4. ReviewsOf(d) = 0 /\ NewOf(d) = 0
    BY <1>1, NothingGatheredYet
  <2>5. RemainingLimits(d).cap => RemainingLimits(d).new <= RemainingLimits(d).review
    BY <1>1, <2>1, RemainingType
  <2>6. RemainingLimits(d) \in Limits
    BY <1>1, <2>1, RemainingType
  <2> QED
    BY <2>1, <2>2, <2>3, <2>4, <2>5, <2>6 DEF Limits
<1>6. ZeroBelow'
  <2> SUFFICES ASSUME NEW d \in DOMAIN tree', NEW a \in tree'[d]
               PROVE  /\ limits'[a].review = 0 => limits'[d].review = 0
                      /\ limits'[a].new = 0 => limits'[d].new = 0
    BY DEF ZeroBelow
  <2>1. a \in DOMAIN tree' /\ tree'[a] \subseteq tree'[d]
    BY <1>1, StartLimits
  <2>2. /\ \E x \in tree'[a] : limits'[a].review = RemainingLimits(x).review
        /\ \E x \in tree'[a] : limits'[a].new = RemainingLimits(x).new
    BY <1>1, <2>1, StartLimits
  <2>3. /\ limits'[d] \in Limits
        /\ \A x \in tree'[d] : /\ limits'[d].review <= RemainingLimits(x).review
                               /\ limits'[d].new <= RemainingLimits(x).new
    BY <1>1, StartLimits
  <2> QED
    BY <2>1, <2>2, <2>3 DEF Limits
<1>7. TreeOK'
  BY <1>1, StartLimits
<1> QED
  BY <1>2, <1>3, <1>4, <1>5, <1>6, <1>7 DEF BuilderInv, PhaseOK

(* A card is gathered: those of its kind that came before stay first.       *)
LEMMA GatherGatheredOK ==
  ASSUME GatheredOK, CollectionOK, NEW c \in Waiting(phase), phase \in Kinds \cup {"Learn"},
         phase # "Learn" => card[c].deck \in DOMAIN tree,
         Gather(c), unvisited' = unvisited \ {c},
         UNCHANGED <<collection, root, tree, phase>>
  PROVE  GatheredOK'
<1>1. c \in unvisited /\ c \in Cards /\ card[c].queue = phase /\ card[c].deck \in Active
  BY DEF Waiting, GatheredOK
<1>2. /\ \A k \in Kinds \cup {"Learn"} : k # phase => gathered'[k] = gathered[k]
      /\ gathered'[phase] = Append(gathered[phase], c)
      /\ DOMAIN gathered' = DOMAIN gathered
  BY <1>1 DEF Gather, GatheredOK
<1>3. gathered'[phase] \in Seq(Cards) /\ ToSet(gathered'[phase]) = ToSet(gathered[phase]) \cup {c}
  <2>1. gathered[phase] \in Seq(Cards)
    BY DEF GatheredOK
  <2> QED
    BY <1>1, <1>2, <2>1, RangeOfAppend
<1>4. Active' = Active /\ card' = card /\ tree' = tree /\ NotYet' = NotYet /\ phase \notin NotYet
  <2>1. Active' = Active
    BY DEF Active, Under, collection
  <2>2. phase \notin NotYet
    BY BuilderParameters DEF NotYet, Kinds
  <2> QED
    BY <2>1, <2>2 DEF NotYet, collection
<1>5. ASSUME NEW kind \in Kinds \cup {"Learn"}
      PROVE  /\ gathered'[kind] \in Seq(Cards)
             /\ \A x \in ToSet(gathered'[kind]) :
                  /\ x \notin unvisited' /\ card[x].queue = kind /\ card[x].deck \in Active
                  /\ kind # "Learn" => card[x].deck \in DOMAIN tree
  <2>1. /\ gathered[kind] \in Seq(Cards)
        /\ \A x \in ToSet(gathered[kind]) :
             /\ x \notin unvisited /\ card[x].queue = kind /\ card[x].deck \in Active
             /\ kind # "Learn" => card[x].deck \in DOMAIN tree
    BY DEF GatheredOK
  <2>2. CASE kind # phase
    BY <1>2, <2>1, <2>2
  <2>3. CASE kind = phase
    BY <1>1, <1>3, <2>1, <2>3
  <2> QED
    BY <2>2, <2>3
<1>6. \A kind \in NotYet : gathered'[kind] = <<>>
  <2>1. NotYet \subseteq Kinds \cup {"Learn"}
    BY DEF NotYet, Kinds
  <2> QED
    BY <1>2, <1>4, <2>1 DEF GatheredOK
<1>7. ASSUME NEW kind \in Kinds \cup {"Learn"}, NEW x \in ToSet(gathered[kind])'
      PROVE  x \in ToSet(gathered'[kind])
  BY <1>7 DEF ToSet
<1> QED
  BY <1>2, <1>4, <1>5, <1>6, <1>7 DEF GatheredOK

(* Where the limits are not touched, and nothing but the kinds is changed   *)
(* of what was gathered.                                                    *)
LEMMA FrameOfLimits ==
  ASSUME UNCHANGED <<collection, root, tree, limits>>
  PROVE  /\ TreeOK => TreeOK'
         /\ ZeroBelow => ZeroBelow'
         /\ LimitsOK /\ (\A d : ReviewsOf(d)' = ReviewsOf(d) /\ NewOf(d)' = NewOf(d)) => LimitsOK'
<1>1. \A d : RemainingLimits(d)' = RemainingLimits(d)
  BY FrameOfCollection
<1>2. TreeOK => TreeOK'
  BY DEF TreeOK, Top, collection, Listed, TopOf, Under, ParentDecks, Above
<1>3. ZeroBelow => ZeroBelow'
  BY DEF ZeroBelow
<1>4. LimitsOK /\ (\A d : ReviewsOf(d)' = ReviewsOf(d) /\ NewOf(d)' = NewOf(d)) => LimitsOK'
  BY <1>1 DEF LimitsOK
<1> QED
  BY <1>2, <1>3, <1>4


LEMMA GatherIntradayInv ==
  ASSUME BuilderInv, GatherIntraday
  PROVE  BuilderInv'
<1>1. PICK c \in Waiting("Learn") : Gather(c) /\ unvisited' = unvisited \ {c}
  BY DEF GatherIntraday
<1>2. phase = "Learn" /\ UNCHANGED <<collection, root, tree, limits, phase>>
  BY DEF GatherIntraday
<1>3. /\ CollectionOK /\ GatheredOK /\ TreeOK /\ LimitsOK /\ ZeroBelow
  BY <1>2, BuilderParameters DEF BuilderInv
<1>4. c \in unvisited /\ card[c].queue = "Learn"
  BY DEF Waiting
<1>5. CollectionOK' /\ GatheredOK'
  BY <1>1, <1>2, <1>3, FrameOfCollection, GatherGatheredOK
<1>6. \A d : ReviewsOf(d)' = ReviewsOf(d) /\ NewOf(d)' = NewOf(d)
  <2>1. ASSUME NEW d PROVE ReviewsOf(d)' = ReviewsOf(d) /\ NewOf(d)' = NewOf(d)
    BY <1>1, <1>2, <1>3, <1>4, GatherCounts DEF collection
  <2> QED
    BY <2>1
<1>7. TreeOK' /\ LimitsOK' /\ ZeroBelow'
  BY <1>2, <1>3, <1>6, FrameOfLimits
<1> QED
  BY <1>2, <1>5, <1>7 DEF BuilderInv, PhaseOK

(* Nothing is gathered; cards may be passed over, and the phase may change. *)
LEMMA PassInv ==
  ASSUME BuilderInv, UNCHANGED <<collection, root, tree, limits>>, phase # Idle,
         \A kind \in Kinds \cup {"Learn"} : gathered'[kind] = gathered[kind],
         DOMAIN gathered' = DOMAIN gathered,
         unvisited' \subseteq unvisited, PhaseOK', phase' # Idle, NotYet' \subseteq NotYet
  PROVE  BuilderInv'
<1>1. /\ CollectionOK /\ GatheredOK /\ TreeOK /\ LimitsOK /\ ZeroBelow
  BY DEF BuilderInv
<1>2. Active' = Active /\ card' = card
  BY DEF Active, Under, collection
<1>3. GatheredOK'
  <2>1. NotYet \subseteq Kinds \cup {"Learn"}
    BY DEF NotYet, Kinds
  <2>2. ASSUME NEW kind \in Kinds \cup {"Learn"}, NEW c \in ToSet(gathered[kind])'
        PROVE  c \in ToSet(gathered[kind])
    BY <2>2 DEF ToSet
  <2> QED
    BY <1>1, <1>2, <2>1, <2>2 DEF GatheredOK
<1>4. \A d : ReviewsOf(d)' = ReviewsOf(d) /\ NewOf(d)' = NewOf(d)
  <2>1. ASSUME NEW d, NEW K \in SUBSET Kinds PROVE GatheredIn(d, K)' = GatheredIn(d, K)
    <3>1. \A k \in K : gathered'[k] = gathered[k]
      OBVIOUS
    <3>2. {ToSet(gathered'[k]) : k \in K} = {ToSet(gathered[k]) : k \in K}
      BY <3>1
    <3>3. Under(d)' = Under(d)
      BY FrameOfCollection
    <3>4. GatheredIn(d, K)' = {c \in UNION {ToSet(gathered'[k]) : k \in K} : card[c].deck \in Under(d)}
      BY <1>2, <3>3 DEF GatheredIn, ToSet
    <3> QED
      BY <3>2, <3>4 DEF GatheredIn
  <2>2. {"DayLearn", "Review"} \in SUBSET Kinds /\ {"New"} \in SUBSET Kinds
    BY DEF Kinds
  <2> QED
    BY <2>1, <2>2 DEF ReviewsOf, NewOf
<1>5. TreeOK' /\ LimitsOK' /\ ZeroBelow'
  BY <1>1, <1>4, FrameOfLimits
<1> QED
  BY <1>1, <1>3, <1>5, FrameOfCollection DEF BuilderInv

LEMMA GatherLimitedInv ==
  ASSUME BuilderInv, GatherLimited
  PROVE  BuilderInv'
<1>1. PICK c \in Waiting(phase) :
         /\ unvisited' = unvisited \ {c}
         /\ IF InTree(card[c].deck) THEN Consider(c, phase) /\ UNCHANGED phase
                                    ELSE phase' = "Failed" /\ Skip
  BY DEF GatherLimited
<1>2. phase \in Kinds /\ phase # Idle /\ UNCHANGED <<collection, root, tree>>
  BY BuilderParameters DEF GatherLimited
<1>3. /\ CollectionOK /\ GatheredOK /\ TreeOK /\ LimitsOK /\ ZeroBelow
  BY <1>2 DEF BuilderInv
<1>4. CASE ~InTree(card[c].deck)
  <2>1. NotYet' = {} /\ phase' = "Failed"
    BY <1>1, <1>4, BuilderParameters DEF NotYet, Kinds
  <2> QED
    BY <1>1, <1>2, <1>4, <2>1, PassInv, BuilderParameters DEF Skip, PhaseOK, Kinds
<1>5. CASE InTree(card[c].deck) /\ UNCHANGED <<limits, gathered>>
  <2>1. NotYet' = NotYet /\ PhaseOK'
    BY <1>1, <1>5 DEF NotYet, PhaseOK, BuilderInv
  <2> QED
    BY <1>1, <1>2, <1>5, <2>1, PassInv
<1>6. CASE /\ InTree(card[c].deck) /\ LimitOf(card[c].deck, phase) # 0
           /\ Gather(c) /\ limits' = DecrementDeckAndParents(card[c].deck, phase)
  <2>1. /\ card[c].deck \in DOMAIN tree /\ c \in unvisited /\ card[c].queue = phase
    BY <1>3, <1>6 DEF InTree, TreeOK, Waiting
  <2>2. phase' = phase
    BY <1>1, <1>6
  <2>3. GatheredOK' /\ CollectionOK'
    BY <1>1, <1>2, <1>3, <1>6, <2>1, <2>2, GatherGatheredOK, FrameOfCollection
  <2>4. LimitsOK'
    BY <1>2, <1>3, <1>6, <2>1, CountedLimits
  <2>5. ZeroBelow'
    <3>1. LimitsTyped
      BY <1>3 DEF LimitsOK, LimitsTyped
    <3> QED
      BY <1>2, <1>3, <1>6, <2>1, <3>1, CountedZeroBelow
  <2>6. TreeOK'
    <3>1. LimitsTyped
      BY <1>3 DEF LimitsOK, LimitsTyped
    <3>2. DOMAIN limits' = DOMAIN tree'
      BY <1>2, <1>3, <1>6, <2>1, <3>1, DecrementedLimits
    <3>3. Tree(Listed(root), Level(Top))' = Tree(Listed(root), Level(Top))
      BY <1>2 DEF Top, collection, Listed, TopOf, Under, ParentDecks, Above
    <3>4. tree' = tree /\ root' = root /\ decks' = decks
      BY <1>2 DEF collection
    <3> QED
      BY <1>3, <3>2, <3>3, <3>4 DEF TreeOK
  <2> QED
    BY <2>2, <2>3, <2>4, <2>5, <2>6 DEF BuilderInv, PhaseOK
<1>7. InTree(card[c].deck) =>
        \/ UNCHANGED <<limits, gathered>>
        \/ /\ LimitOf(card[c].deck, phase) # 0
           /\ Gather(c) /\ limits' = DecrementDeckAndParents(card[c].deck, phase)
  BY <1>1 DEF Consider, Skip
<1> QED
  BY <1>4, <1>5, <1>6, <1>7

LEMMA NextPhaseInv ==
  ASSUME BuilderInv, NextPhase
  PROVE  BuilderInv'
<1>1. /\ phase \in {"Learn", "DayLearn", "Review", "New"} /\ phase' = PhaseAfter[phase]
      /\ UNCHANGED <<collection, root, tree, limits, gathered, unvisited>>
  BY DEF NextPhase, PhaseAfter, Kinds, Skip
<1>2. /\ phase = "Learn" => phase' = "DayLearn"
      /\ phase = "DayLearn" => phase' = "Review"
      /\ phase = "Review" => phase' = "New"
      /\ phase = "New" => phase' = "Mix"
  BY <1>1 DEF PhaseAfter, Kinds
<1>3. phase # Idle /\ phase' # Idle /\ PhaseOK'
  BY <1>1, <1>2, BuilderParameters DEF PhaseOK, Kinds
<1>4. NotYet' \subseteq NotYet
  BY <1>1, <1>2, BuilderParameters DEF NotYet, Kinds
<1> QED
  BY <1>1, <1>3, <1>4, PassInv

LEMMA BuilderStepInv ==
  ASSUME BuilderInv, BuilderNext
  PROVE  BuilderInv'
<1>1. CASE FailOnUnknownDeck
  <2>1. /\ phase = "New" /\ phase' = "Failed"
        /\ UNCHANGED <<collection, root, tree, limits, gathered, unvisited>>
    BY <1>1 DEF FailOnUnknownDeck, UnknownDeck, Skip
  <2>2. NotYet' = {} /\ phase # Idle /\ phase' # Idle /\ PhaseOK'
    BY <2>1, BuilderParameters DEF NotYet, Kinds, PhaseOK
  <2> QED
    BY <2>1, <2>2, PassInv
<1>2. CASE Build
  <2>1. /\ phase = "Mix" /\ phase' = "Built"
        /\ UNCHANGED <<collection, root, tree, limits, unvisited>>
    BY <1>2 DEF Build
  <2>2. NotYet' = {} /\ phase # Idle /\ phase' # Idle /\ PhaseOK'
    BY <2>1, BuilderParameters DEF NotYet, Kinds, PhaseOK
  <2>3. DOMAIN gathered' = DOMAIN gathered /\ \A kind \in Kinds \cup {"Learn"} : gathered'[kind] = gathered[kind]
    BY <1>2 DEF Build, Kinds
  <2> QED
    BY <2>1, <2>2, <2>3, PassInv
<1> QED
  BY <1>1, <1>2, StartInv, GatherIntradayInv, GatherLimitedInv, NextPhaseInv DEF BuilderNext

LEMMA UnchangedBuilderInv ==
  ASSUME BuilderInv, UNCHANGED queue_vars
  PROVE  BuilderInv'
<1>1. CASE phase = Idle
  BY <1>1 DEF queue_vars, BuilderInv, CollectionOK, PhaseOK, GatheredOK, NotYet, Active, Under, ToSet
<1>2. CASE phase # Idle
  <2>1. PhaseOK' /\ NotYet' = NotYet
    BY DEF queue_vars, BuilderInv, PhaseOK, NotYet
  <2> QED
    BY <1>2, <2>1, PassInv DEF queue_vars, collection
<1> QED
  BY <1>1, <1>2

(* What is not in the tree has no cards above it in the tree or in it.      *)
LEMMA LimitsHold ==
  ASSUME BuilderInv
  PROVE  WithinLimits
<1> SUFFICES ASSUME phase # Idle, NEW d \in Listed(root)
             PROVE  /\ ReviewsOf(d) <= RemainingLimits(d).review /\ NewOf(d) <= RemainingLimits(d).new
                    /\ RemainingLimits(d).cap => ReviewsOf(d) + NewOf(d) <= RemainingLimits(d).review
  BY DEF WithinLimits
<1>1. CollectionOK /\ GatheredOK /\ TreeOK /\ LimitsOK
  BY DEF BuilderInv
<1>2. d \in Decks /\ RemainingLimits(d) \in Limits /\ ReviewsOf(d) \in Nat /\ NewOf(d) \in Nat
  BY <1>1, ListedType, RemainingType, GatheredFinite
<1>3. CASE d \in DOMAIN tree
  BY <1>1, <1>2, <1>3 DEF LimitsOK, Limits
<1>4. CASE d \notin DOMAIN tree
  <2>1. \A K \in SUBSET Kinds : GatheredIn(d, K) = {}
    <3> SUFFICES ASSUME NEW K \in SUBSET Kinds, NEW c \in GatheredIn(d, K)
                 PROVE  FALSE
      OBVIOUS
    <3>0. card[c].deck \in Under(d) /\ \E k \in K : c \in ToSet(gathered[k])
      BY GatheredMembers
    <3>1. card[c].deck \in Under(d) /\ card[c].deck \in DOMAIN tree
      BY <1>1, <3>0 DEF GatheredOK, Kinds
    <3> QED
      BY <1>1, <1>4, <3>1, TreeFacts DEF Under
  <2>2. GatheredIn(d, {"DayLearn", "Review"}) = {} /\ GatheredIn(d, {"New"}) = {}
    BY <2>1 DEF Kinds
  <2>3. ReviewsOf(d) = 0 /\ NewOf(d) = 0
    BY <2>2, FS_EmptySet DEF ReviewsOf, NewOf
  <2> QED
    BY <1>2, <2>3 DEF Limits
<1> QED
  BY <1>3, <1>4

LEMMA ExamStepInv ==
  ASSUME BuilderInv, [ExamNext]_<<queue_vars, exam_vars>>
  PROVE  BuilderInv'
<1>1. CASE OrderCards
  <2>1. /\ phase = "Built" /\ phase' = "Ordered"
        /\ UNCHANGED <<collection, root, tree, limits, gathered, unvisited>>
    BY <1>1 DEF OrderCards
  <2>2. NotYet' = {} /\ phase # Idle /\ phase' # Idle /\ PhaseOK'
    BY <2>1, BuilderParameters, ExamParameters DEF NotYet, Kinds, PhaseOK
  <2> QED
    BY <2>1, <2>2, PassInv
<1> QED
  BY <1>1, BuilderStepInv, UnchangedBuilderInv DEF ExamNext, TakeTurn, GetQueuedCards

(* No deck gives more cards than its own limits have left, whatever the     *)
(* decks, their names, limits and options, and the cards in them.           *)
THEOREM LimitsSafety == ExamSpec => []WithinLimits
<1>1. ExamInit => BuilderInv
  BY InitBuilderInv DEF ExamInit
<1>2. BuilderInv /\ [ExamNext]_<<queue_vars, exam_vars>> => BuilderInv'
  BY ExamStepInv
<1>3. BuilderInv => WithinLimits
  BY LimitsHold
<1> QED
  BY <1>1, <1>2, <1>3, PTL DEF ExamSpec


-----------------------------------------------------------------------------
(* The cards that are left out.                                             *)

QueueInOrder == \A i, j \in DOMAIN Queued : i < j => ~Buries(Queued[i], Queued[j])

(* What is buried of a note, a card of it buries that was considered.       *)
SeenOK ==
    /\ DOMAIN seen = {NoteOf[c] : c \in Cards}
    /\ \A kind \in Kinds \cup {"Learn"} : \A s \in ToSet(gathered[kind]) :
         BuriedBy(card[s].home) \subseteq seen[NoteOf[s]]
    /\ \A c \in Cards : \A kind \in seen[NoteOf[c]] :
         \E s \in Cards \ unvisited :
            NoteOf[s] = NoteOf[c] /\ card[s].deck \in Active /\ kind \in BuriedBy(card[s].home)

(* A deck has no less left than some deck above it has not given.           *)
ReviewsUsed ==
    \A d \in DOMAIN tree : \E a \in tree[d] :
        ReviewsOf(a) + limits[d].review >= RemainingLimits(a).review

NewUsed ==
    \A d \in DOMAIN tree : \E a \in tree[d] :
        \/ NewOf(a) + limits[d].new >= RemainingLimits(a).new
        \/ /\ RemainingLimits(a).cap
           /\ ReviewsOf(a) + NewOf(a) + limits[d].new >= RemainingLimits(a).review

RightlyLeftOut(c) ==
    \/ \E a \in {Top} \cup tree[card[c].deck], kind \in {card[c].queue} : UsedUp(a, kind)
    \/ \E s \in Cards : s \notin unvisited /\ Buries(s, c)

(* A card that is not gathered has yet to be considered, or is left out for *)
(* a reason.                                                                *)
LeftOutOK ==
    \A c \in Cards \ ToSet(Queued) :
        card[c].deck \in Active /\ card[c].queue # "Suspended" =>
            \/ c \in unvisited /\ card[c].queue \in NotYet \cup {phase}
            \/ RightlyLeftOut(c)

RightInv ==
    /\ QueueInOrder /\ SeenOK
    /\ phase = Idle => unvisited = Cards
    /\ phase # Idle /\ HaveParents => ReviewsUsed
    /\ phase # Idle /\ HaveParents /\ FilteredAreLeaves => NewUsed
    /\ phase \notin {Idle, "Failed"} /\ HaveParents /\ FilteredAreLeaves => LeftOutOK
    /\ phase = "Failed" => ~HaveParents


-----------------------------------------------------------------------------
(* Where no deck is without its parent.                                     *)

LEMMA ParentsAreThere ==
  ASSUME CollectionOK, HaveParents, NEW d \in decks, NEW n \in 1..Level(d)
  PROVE  \E e \in decks : Name[e] = SubSeq(Name[d], 1, n)
<1> DEFINE H == {k \in 1..Level(d) : \E e \in decks : Name[e] = SubSeq(Name[d], 1, k)}
<1>1. Name[d] \in Seq(STRING) /\ Level(d) \in Nat \ {0}
  BY NameType DEF CollectionOK
<1>2. Level(d) \in H
  <2>1. SubSeq(Name[d], 1, Len(Name[d])) = Name[d]
    BY <1>1 DEF Level
  <2> QED
    BY <1>1, <2>1 DEF Level
<1>3. ASSUME NEW k \in 2..Level(d), k \in H
      PROVE  k - 1 \in H
  <2>1. PICK e \in decks : Name[e] = SubSeq(Name[d], 1, k)
    BY <1>3
  <2>2. Len(Name[e]) = k
    BY <1>1, <2>1 DEF Level
  <2>3. PICK f \in decks : Name[f] = Front(Name[e])
    BY <1>1, <2>2 DEF HaveParents
  <2>4. Front(SubSeq(Name[d], 1, k)) = SubSeq(Name[d], 1, k - 1)
    BY <1>1 DEF Level, Front
  <2> QED
    BY <1>1, <2>1, <2>3, <2>4
<1>4. H = 1..Level(d)
  <2>1. H \in SUBSET (1..Level(d))
    OBVIOUS
  <2>2. \A k \in 2..Level(d) : k \in H => k - 1 \in H
    BY <1>3
  <2> HIDE DEF H
  <2> QED
    BY <1>1, <1>2, <2>1, <2>2, Downwards
<1> QED
  BY <1>4

LEMMA AncestorAt ==
  ASSUME CollectionOK, HaveParents, NEW d \in decks, NEW n \in 1..Level(d)
  PROVE  \E e \in decks : WithUnder(e, d) /\ Level(e) = n
<1>1. PICK e \in decks : Name[e] = SubSeq(Name[d], 1, n)
  BY ParentsAreThere
<1>2. Name[d] \in Seq(STRING) /\ Level(d) \in Nat /\ d \in Decks /\ e \in Decks
  BY NameType DEF CollectionOK
<1>3. Level(e) = n /\ \A i \in 1..n : Name[e][i] = Name[d][i]
  BY <1>1, <1>2 DEF Level
<1>4. WithUnder(e, d)
  BY <1>2, <1>3, UnderByElements
<1> QED
  BY <1>3, <1>4

LEMMA ListedAncestor ==
  ASSUME CollectionOK, TreeOK, HaveParents, NEW e \in Listed(root), NEW n \in Level(Top)..Level(e)
  PROVE  \E a \in Listed(root) : WithUnder(a, e) /\ Level(a) = n
<1>0. /\ root \in decks /\ root \in Decks /\ e \in decks /\ e \in Decks /\ Top \in Listed(root)
      /\ Top \in Decks /\ decks \subseteq Decks
      /\ \A x \in Listed(root) : WithUnder(Top, x)
  BY ListedType, TopIsAbove DEF TreeOK, CollectionOK, Top
<1>1. n \in 1..Level(e) /\ Level(Top) \in Nat /\ Level(root) \in Nat /\ Level(e) \in Nat
  BY <1>0, NameType
<1>2. PICK a \in decks : WithUnder(a, e) /\ Level(a) = n
  BY <1>0, <1>1, AncestorAt
<1>3. WithUnder(root, e) \/ (WithUnder(e, root) /\ e \in ParentDecks(root))
  BY DEF Listed, Under, ParentDecks, Above, IsStrictPrefix, WithUnder
<1>4. CASE n >= Level(root)
  <2>1. WithUnder(root, e)
    <3>1. CASE WithUnder(e, root)
      <4>1. Level(e) <= Level(root)
        BY <1>0, <3>1, UnderIsOrder
      <4>2. e = root
        BY <1>0, <1>1, <1>4, <3>1, <4>1, SameLevelUnder
      <4> QED
        BY <1>0, <4>2, UnderIsOrder
    <3> QED
      BY <1>3, <3>1
  <2>2. WithUnder(root, a)
    BY <1>0, <1>2, <1>4, <2>1, UnderIsOrder
  <2> QED
    BY <1>2, <2>2 DEF Listed, Under
<1>5. CASE n < Level(root)
  <2>1. ~WithUnder(root, Top)
    BY <1>0, <1>1, <1>5, UnderIsOrder
  <2>2. option.all_parents
    BY <1>0, <2>1 DEF Listed, Under
  <2>3. WithUnder(a, root)
    <3>1. CASE WithUnder(root, e)
      BY <1>0, <1>1, <1>2, <1>5, <3>1, UnderIsOrder
    <3>2. CASE WithUnder(e, root)
      BY <1>0, <1>2, <3>2, UnderIsOrder
    <3> QED
      BY <1>3, <3>1, <3>2
  <2>4. Name[a] # Name[root]
    BY <1>1, <1>2, <1>5 DEF Level
  <2>5. \A m \in Level(a)..Level(root) : \E x \in decks : Name[x] = SubSeq(Name[root], 1, m)
    BY <1>0, <1>1, <1>2, ParentsAreThere
  <2>6. a \in ParentDecks(root)
    BY <2>3, <2>4, <2>5 DEF ParentDecks, Above, IsStrictPrefix, WithUnder
  <2> QED
    BY <1>2, <2>2, <2>6 DEF Listed
<1> QED
  BY <1>1, <1>4, <1>5

(* All decks are in the tree, and under those whose names they extend.      *)
LEMMA WholeTree ==
  ASSUME CollectionOK, TreeOK, HaveParents
  PROVE  /\ DOMAIN tree = Listed(root)
         /\ \A e \in DOMAIN tree : \A a \in tree[e] : WithUnder(a, e)
<1> DEFINE ds == Listed(root)
           top == Level(Top)
<1>0. /\ ds \in SUBSET Decks /\ tree = Tree(ds, top)
      /\ \A x \in ds : WithUnder(Top, x)
      /\ Top \in ds
  BY ListedType, TopIsAbove DEF TreeOK, Top
<1>1. \A x \in ds : Level(x) \in Nat /\ Place[x] \in Nat /\ top <= Level(x)
  BY <1>0, NameType, UnderIsOrder
<1>2. \A e \in ds : \A n \in top..Level(e) : \E a \in ds : WithUnder(a, e) /\ Level(a) = n
  BY ListedAncestor
<1> HIDE DEF ds, top
<1>3. ASSUME NEW e \in ds, NEW f \in Line(ds, e)
      PROVE  f \in ds /\ Level(f) \in top..Level(e)
  <2>1. f \in ds /\ Place[f] <= Place[e]
    BY <1>3 DEF Line
  <2>2. CASE Place[f] = Place[e]
    BY <1>0, <1>1, <2>1, <2>2, PlaceIsItsOwn
  <2>3. CASE Place[f] < Place[e]
    BY <1>1, <1>3, <2>1, <2>3 DEF Line
  <2> QED
    BY <1>1, <2>1, <2>2, <2>3
<1>4. \A e \in ds : \A n \in top..Level(e) : \E a \in Line(ds, e) : WithUnder(a, e) /\ Level(a) = n
  BY <1>0, <1>2, AboveIsOnLine
<1>5. ASSUME NEW e \in ds
      PROVE  e \in DOMAIN tree
  <2>1. {Level(a) : a \in Line(ds, e)} = top..Level(e)
    BY <1>3, <1>4
  <2> QED
    BY <1>0, <2>1 DEF Tree
<1>6. DOMAIN tree = ds /\ \A e \in ds : tree[e] = Line(ds, e)
  BY <1>0, <1>5 DEF Tree
<1>7. ASSUME NEW e \in ds, NEW a \in Line(ds, e)
      PROVE  WithUnder(a, e)
  <2>1. PICK b \in Line(ds, e) : WithUnder(b, e) /\ Level(b) = Level(a)
    BY <1>3, <1>4
  <2>2. a \in ds /\ b \in ds /\ Place[a] <= Place[e] /\ Place[b] <= Place[e]
    BY <1>7 DEF Line
  <2>3. ~(Place[a] < Place[b]) /\ ~(Place[b] < Place[a])
    BY <1>1, <1>7, <2>1, <2>2 DEF Line
  <2>4. a = b
    BY <1>0, <1>1, <2>2, <2>3, PlaceIsItsOwn
  <2> QED
    BY <2>1, <2>4
<1> QED
  BY <1>6, <1>7 DEF ds

LEMMA PathOfTop ==
  ASSUME CollectionOK, TreeOK, HaveParents
  PROVE  Top \in DOMAIN tree /\ tree[Top] = {Top}
<1>1. Top \in Listed(root) /\ \A x \in Listed(root) : WithUnder(Top, x)
  BY TopIsAbove DEF TreeOK, Top
<1>2. Top \in DOMAIN tree
  BY <1>1, WholeTree
<1>3. Top \in tree[Top] /\ DOMAIN tree \subseteq Listed(root) /\ DOMAIN tree \subseteq Decks /\ tree[Top] \subseteq DOMAIN tree
  BY <1>2, TreeFacts
<1>4. ASSUME NEW a \in tree[Top]
      PROVE  a = Top
  <2>1. WithUnder(a, Top) /\ WithUnder(Top, a)
    BY <1>1, <1>2, <1>3, WholeTree
  <2>2. Level(a) \in Nat /\ Level(Top) \in Nat /\ Level(a) <= Level(Top) /\ Level(Top) <= Level(a)
    BY <1>2, <1>3, <2>1, UnderIsOrder, NameType
  <2> QED
    BY <1>2, <1>3, <2>1, <2>2, SameLevelUnder
<1> QED
  BY <1>2, <1>3, <1>4


-----------------------------------------------------------------------------
(* What is left is what was not given.                                      *)

LEMMA CountsGrow ==
  ASSUME GatheredOK, NEW c \in unvisited, card[c].queue \in Kinds \cup {"Learn"},
         Gather(c), UNCHANGED <<decks, card>>, NEW d
  PROVE  /\ ReviewsOf(d) \in Nat /\ NewOf(d) \in Nat /\ ReviewsOf(d)' \in Nat /\ NewOf(d)' \in Nat
         /\ ReviewsOf(d)' >= ReviewsOf(d) /\ NewOf(d)' >= NewOf(d)
<1>1. ReviewsOf(d) \in Nat /\ NewOf(d) \in Nat
  BY GatheredFinite
<1> QED
  BY <1>1, GatherCounts

LEMMA LessReviewsUsed ==
  ASSUME CollectionOK, TreeOK, LimitsOK, GatheredOK, ReviewsUsed, HaveParents,
         UNCHANGED collection,
         NEW c \in unvisited, card[c].queue = phase, phase \in Kinds,
         card[c].deck \in DOMAIN tree, Gather(c), NEW y \in DOMAIN tree
  PROVE  \E a \in tree[y] :
            ReviewsOf(a)' + Less(card[c].deck, phase, y).review >= RemainingLimits(a).review
<1> DEFINE e == card[c].deck
           l == Less(e, phase, y)
<1>0. LimitsTyped /\ e \in decks /\ tree[y] \subseteq DOMAIN tree /\ DOMAIN tree \subseteq Decks
  BY TreeFacts, ListedType DEF LimitsOK, LimitsTyped
<1>1. PICK a \in tree[y] : ReviewsOf(a) + limits[y].review >= RemainingLimits(a).review
  BY DEF ReviewsUsed
<1>2. /\ limits[y] \in Limits /\ l \in Limits /\ RemainingLimits(a) \in Limits
  BY <1>0, <1>1, LessType, RemainingType DEF LimitsTyped
<1>3. /\ ReviewsOf(a) \in Nat /\ ReviewsOf(a)' \in Nat /\ ReviewsOf(a)' >= ReviewsOf(a)
  BY CountsGrow DEF collection
<1>4. CASE l.review >= limits[y].review
  BY <1>1, <1>2, <1>3, <1>4 DEF Limits
<1>5. CASE ~(l.review >= limits[y].review)
  <2>1. y \in tree[e]
    BY <1>2, <1>5 DEF Less, Limits
  <2>2. l = Decremented(limits[y], phase)
    BY <2>1 DEF Less
  <2>3. phase # "New" /\ l.review = OneLess(limits[y].review)
    BY <1>2, <1>5, <2>2, DecrementedLess DEF Limits
  <2>4. a \in tree[e]
    BY <2>1, <1>1, TreeFacts
  <2>5. e \in Under(a)
    BY <1>0, <2>4, WholeTree DEF Under
  <2>6. ReviewsOf(a)' = ReviewsOf(a) + 1
    BY <2>3, <2>5, GatherCounts DEF collection, Kinds
  <2>7. OneLess(limits[y].review) + 1 >= limits[y].review
    BY <1>2 DEF OneLess, Limits
  <2> HIDE DEF l, e
  <2> QED
    BY <1>1, <1>2, <1>3, <2>3, <2>6, <2>7 DEF Limits, l, e
<1> QED
  BY <1>4, <1>5

LEMMA CapFromAbove ==
  ASSUME CollectionOK, TreeOK, HaveParents, FilteredAreLeaves,
         NEW y \in DOMAIN tree, RemainingLimits(y).cap, NEW a \in tree[y]
  PROVE  RemainingLimits(a).cap
<1>1. /\ y \in Decks /\ y \in decks /\ a \in Decks /\ a \in decks
  BY TreeFacts, ListedType
<1>2. y \notin FilteredDecks /\ ~option.ignore_review_limit
  BY <1>1, RemainingType
<1>3. y \in Under(a)
  BY <1>1, WholeTree DEF Under
<1>4. a \notin FilteredDecks
  BY <1>1, <1>2, <1>3 DEF FilteredAreLeaves
<1> QED
  BY <1>1, <1>2, <1>4, RemainingType

LEMMA LessNewUsed ==
  ASSUME CollectionOK, TreeOK, LimitsOK, GatheredOK, ReviewsUsed, NewUsed, HaveParents, FilteredAreLeaves,
         UNCHANGED collection,
         NEW c \in unvisited, card[c].queue = phase, phase \in Kinds,
         card[c].deck \in DOMAIN tree, Gather(c), NEW y \in DOMAIN tree
  PROVE  \E a \in tree[y] :
            \/ NewOf(a)' + Less(card[c].deck, phase, y).new >= RemainingLimits(a).new
            \/ /\ RemainingLimits(a).cap
               /\ ReviewsOf(a)' + NewOf(a)' + Less(card[c].deck, phase, y).new >= RemainingLimits(a).review
<1> DEFINE e == card[c].deck
           l == Less(e, phase, y)
<1>0. LimitsTyped /\ e \in decks /\ tree[y] \subseteq DOMAIN tree /\ DOMAIN tree \subseteq Decks
  BY TreeFacts, ListedType DEF LimitsOK, LimitsTyped
<1>1. PICK a \in tree[y] :
        \/ NewOf(a) + limits[y].new >= RemainingLimits(a).new
        \/ /\ RemainingLimits(a).cap
           /\ ReviewsOf(a) + NewOf(a) + limits[y].new >= RemainingLimits(a).review
  BY DEF NewUsed
<1>2. /\ limits[y] \in Limits /\ l \in Limits /\ RemainingLimits(a) \in Limits
  BY <1>0, <1>1, LessType, RemainingType DEF LimitsTyped
<1>3. /\ ReviewsOf(a) \in Nat /\ ReviewsOf(a)' \in Nat /\ ReviewsOf(a)' >= ReviewsOf(a)
      /\ NewOf(a) \in Nat /\ NewOf(a)' \in Nat /\ NewOf(a)' >= NewOf(a)
  BY CountsGrow DEF collection
<1>4. CASE l.new >= limits[y].new
  BY <1>1, <1>2, <1>3, <1>4 DEF Limits
<1>5. ASSUME ~(l.new >= limits[y].new)
      PROVE  y \in tree[e] /\ l = Decremented(limits[y], phase)
  BY <1>2, <1>5 DEF Less, Limits
<1>6. CASE ~(l.new >= limits[y].new) /\ phase = "New"
  <2>1. y \in tree[e] /\ l = Decremented(limits[y], phase)
    BY <1>5, <1>6
  <2>2. l.new = OneLess(limits[y].new)
    BY <1>2, <1>6, <2>1, DecrementedLess
  <2>3. e \in Under(a)
    BY <1>0, <1>1, <2>1, TreeFacts, WholeTree DEF Under
  <2>4. NewOf(a)' = NewOf(a) + 1
    BY <1>6, <2>3, GatherCounts DEF collection, Kinds
  <2>5. OneLess(limits[y].new) + 1 >= limits[y].new
    BY <1>2 DEF OneLess, Limits
  <2> HIDE DEF l, e
  <2> QED
    BY <1>1, <1>2, <1>3, <2>2, <2>4, <2>5 DEF Limits, l, e
<1>7. CASE ~(l.new >= limits[y].new) /\ phase # "New"
  <2>1. y \in tree[e] /\ l = Decremented(limits[y], phase)
    BY <1>5, <1>7
  <2>2. limits[y].cap /\ l.new = OneLess(limits[y].review)
    BY <1>2, <1>7, <2>1, DecrementedLess DEF Smaller, Limits
  <2>3. PICK b \in tree[y] : ReviewsOf(b) + limits[y].review >= RemainingLimits(b).review
    BY DEF ReviewsUsed
  <2>4. e \in Under(b)
    BY <1>0, <2>1, TreeFacts, WholeTree DEF Under
  <2>5. ReviewsOf(b)' = ReviewsOf(b) + 1
    BY <1>7, <2>4, GatherCounts DEF collection, Kinds
  <2>6. ReviewsOf(b) \in Nat /\ NewOf(b)' \in Nat /\ RemainingLimits(b) \in Limits
    BY <1>0, <2>3, CountsGrow, RemainingType DEF collection
  <2>7. OneLess(limits[y].review) + 1 >= limits[y].review /\ OneLess(limits[y].review) \in Nat
    BY <1>2 DEF OneLess, Limits
  <2>8. RemainingLimits(b).cap
    BY <2>2, CapFromAbove DEF LimitsOK
  <2>9. ReviewsOf(b)' + NewOf(b)' + l.new >= RemainingLimits(b).review
    BY <1>2, <2>2, <2>3, <2>5, <2>6, <2>7 DEF Limits
  <2> QED
    BY <2>8, <2>9
<1> QED
  BY <1>4, <1>6, <1>7

LEMMA CountedUsed ==
  ASSUME CollectionOK, TreeOK, LimitsOK, GatheredOK, ReviewsUsed, HaveParents,
         UNCHANGED <<collection, tree>>,
         NEW c \in unvisited, card[c].queue = phase, phase \in Kinds,
         card[c].deck \in DOMAIN tree, Gather(c),
         limits' = DecrementDeckAndParents(card[c].deck, phase)
  PROVE  /\ ReviewsUsed'
         /\ FilteredAreLeaves /\ NewUsed => NewUsed'
<1> DEFINE e == card[c].deck
           L(y) == Less(e, phase, y)
<1>0. LimitsTyped
  BY DEF LimitsOK, LimitsTyped
<1>1. ASSUME NEW d \in DOMAIN tree
      PROVE  /\ \E y \in tree[d] : limits'[d].review = L(y).review
             /\ \E y \in tree[d] : limits'[d].new = L(y).new
  BY <1>0, DecrementedLimits, TreeFacts
<1>2. \A d : RemainingLimits(d)' = RemainingLimits(d)
  BY FrameOfCollection
<1>3. ReviewsUsed'
  <2> SUFFICES ASSUME NEW d \in DOMAIN tree
               PROVE  \E a \in tree[d] : ReviewsOf(a)' + limits'[d].review >= RemainingLimits(a).review
    BY <1>2 DEF ReviewsUsed
  <2>1. PICK y \in tree[d] : limits'[d].review = L(y).review
    BY <1>1
  <2>2. y \in DOMAIN tree /\ tree[y] \subseteq tree[d]
    BY <2>1, TreeFacts
  <2>3. PICK a \in tree[y] : ReviewsOf(a)' + L(y).review >= RemainingLimits(a).review
    BY <2>2, LessReviewsUsed
  <2> QED
    BY <2>1, <2>2, <2>3
<1>4. ASSUME FilteredAreLeaves, NewUsed
      PROVE  NewUsed'
  <2> SUFFICES ASSUME NEW d \in DOMAIN tree
               PROVE  \E a \in tree[d] :
                        \/ NewOf(a)' + limits'[d].new >= RemainingLimits(a).new
                        \/ /\ RemainingLimits(a).cap
                           /\ ReviewsOf(a)' + NewOf(a)' + limits'[d].new >= RemainingLimits(a).review
    BY <1>2 DEF NewUsed
  <2>1. PICK y \in tree[d] : limits'[d].new = L(y).new
    BY <1>1
  <2>2. y \in DOMAIN tree /\ tree[y] \subseteq tree[d]
    BY <2>1, TreeFacts
  <2>3. PICK a \in tree[y] :
          \/ NewOf(a)' + L(y).new >= RemainingLimits(a).new
          \/ /\ RemainingLimits(a).cap
             /\ ReviewsOf(a)' + NewOf(a)' + L(y).new >= RemainingLimits(a).review
    BY <1>4, <2>2, LessNewUsed
  <2> QED
    BY <2>1, <2>2, <2>3
<1> QED
  BY <1>3, <1>4

LEMMA StartUsed ==
  ASSUME CollectionOK, GatheredOK, NEW r \in Decks, Start(r)
  PROVE  ReviewsUsed' /\ NewUsed'
<1>1. phase = Idle /\ UNCHANGED collection /\ gathered' = gathered
  BY DEF Start
<1>2. ASSUME NEW d PROVE ReviewsOf(d)' = 0 /\ NewOf(d)' = 0
  <2>1. ReviewsOf(d)' = ReviewsOf(d) /\ NewOf(d)' = NewOf(d)
    BY <1>1 DEF collection, ReviewsOf, NewOf, GatheredIn, Under
  <2> QED
    BY <1>1, <2>1, NothingGatheredYet
<1>3. \A d : RemainingLimits(d)' = RemainingLimits(d)
  BY <1>1, FrameOfCollection
<1>4. ASSUME NEW d \in DOMAIN tree'
      PROVE  /\ \E a \in tree'[d] : 0 + limits'[d].review >= RemainingLimits(a).review
             /\ \E a \in tree'[d] : 0 + limits'[d].new >= RemainingLimits(a).new
  <2>1. /\ limits'[d].review \in Nat /\ limits'[d].new \in Nat
        /\ \E a \in tree'[d] : limits'[d].review = RemainingLimits(a).review
        /\ \E a \in tree'[d] : limits'[d].new = RemainingLimits(a).new
    BY StartLimits DEF Limits
  <2> QED
    BY <2>1
<1>5. ReviewsUsed'
  BY <1>2, <1>3, <1>4 DEF ReviewsUsed
<1>6. NewUsed'
  BY <1>2, <1>3, <1>4 DEF NewUsed
<1> QED
  BY <1>5, <1>6

(* A limit that is reached is used up.                                      *)
LEMMA ReachedIsUsedUp ==
  ASSUME CollectionOK, TreeOK, LimitsOK, GatheredOK, HaveParents, ReviewsUsed, NewUsed,
         NEW kind, NEW d \in DOMAIN tree, LimitOf(d, kind) = 0
  PROVE  \E a \in tree[d] : UsedUp(a, kind)
<1>1. \A a \in tree[d] : a \in Decks /\ ReviewsOf(a) \in Nat /\ NewOf(a) \in Nat
  BY TreeFacts, GatheredFinite
<1>2. CASE kind = "New"
  <2>1. limits[d].new = 0
    BY <1>2 DEF LimitOf
  <2>2. PICK a \in tree[d] :
          \/ NewOf(a) + limits[d].new >= RemainingLimits(a).new
          \/ /\ RemainingLimits(a).cap
             /\ ReviewsOf(a) + NewOf(a) + limits[d].new >= RemainingLimits(a).review
    BY DEF NewUsed
  <2>3. NewOf(a) + 0 = NewOf(a) /\ ReviewsOf(a) + NewOf(a) + 0 = ReviewsOf(a) + NewOf(a)
    BY <1>1, <2>2
  <2>4. UsedUp(a, kind)
    BY <1>2, <2>1, <2>2, <2>3 DEF UsedUp
  <2> QED
    BY <2>2, <2>4
<1>3. CASE kind # "New"
  <2>1. limits[d].review = 0
    BY <1>3 DEF LimitOf
  <2>2. PICK a \in tree[d] : ReviewsOf(a) + limits[d].review >= RemainingLimits(a).review
    BY DEF ReviewsUsed
  <2>3. ReviewsOf(a) + 0 = ReviewsOf(a)
    BY <1>1, <2>2
  <2>4. UsedUp(a, kind)
    BY <1>3, <2>1, <2>2, <2>3 DEF UsedUp
  <2> QED
    BY <2>2, <2>4
<1> QED
  BY <1>2, <1>3


-----------------------------------------------------------------------------
(* The queue, in the order in which it was gathered.                        *)

LEMMA RangeOfConcat ==
  ASSUME NEW S, NEW s \in Seq(S), NEW t \in Seq(S)
  PROVE  s \o t \in Seq(S) /\ ToSet(s \o t) = ToSet(s) \cup ToSet(t)
<1>1. /\ Len(s) \in Nat /\ Len(t) \in Nat /\ Len(s \o t) = Len(s) + Len(t) /\ s \o t \in Seq(S)
      /\ DOMAIN s = 1..Len(s) /\ DOMAIN t = 1..Len(t) /\ DOMAIN (s \o t) = 1..(Len(s) + Len(t))
      /\ \A i \in 1..Len(s) : (s \o t)[i] = s[i]
      /\ \A i \in 1..Len(t) : (s \o t)[Len(s) + i] = t[i]
  OBVIOUS
<1>2. ASSUME NEW x \in ToSet(s \o t)
      PROVE  x \in ToSet(s) \cup ToSet(t)
  <2>1. PICK i \in 1..(Len(s) + Len(t)) : x = (s \o t)[i]
    BY <1>1, <1>2 DEF ToSet
  <2>2. CASE i \in 1..Len(s)
    BY <1>1, <2>1, <2>2 DEF ToSet
  <2>3. CASE i \notin 1..Len(s)
    <3>1. i - Len(s) \in 1..Len(t) /\ Len(s) + (i - Len(s)) = i
      BY <1>1, <2>3
    <3>2. x = t[i - Len(s)]
      BY <1>1, <2>1, <3>1
    <3> QED
      BY <1>1, <3>1, <3>2 DEF ToSet
  <2> QED
    BY <2>2, <2>3
<1>3. ASSUME NEW x \in ToSet(s) \cup ToSet(t)
      PROVE  x \in ToSet(s \o t)
  <2>1. CASE x \in ToSet(s)
    <3>1. PICK i \in 1..Len(s) : x = s[i]
      BY <1>1, <2>1 DEF ToSet
    <3>2. i \in 1..(Len(s) + Len(t)) /\ (s \o t)[i] = x
      BY <1>1, <3>1
    <3> QED
      BY <1>1, <3>2 DEF ToSet
  <2>2. CASE x \in ToSet(t)
    <3>1. PICK i \in 1..Len(t) : x = t[i]
      BY <1>1, <2>2 DEF ToSet
    <3>2. Len(s) + i \in 1..(Len(s) + Len(t)) /\ (s \o t)[Len(s) + i] = x
      BY <1>1, <3>1
    <3> QED
      BY <1>1, <3>2 DEF ToSet
  <2> QED
    BY <1>3, <2>1, <2>2
<1> QED
  BY <1>1, <1>2, <1>3

LEMMA EmptyConcat ==
  ASSUME NEW S, NEW s \in Seq(S)
  PROVE  s \o <<>> = s
OBVIOUS

LEMMA AppendConcat ==
  ASSUME NEW S, NEW s \in Seq(S), NEW t \in Seq(S), NEW c \in S
  PROVE  s \o Append(t, c) = Append(s \o t, c)
OBVIOUS

LEMMA QueuedCards ==
  ASSUME GatheredOK
  PROVE  /\ Queued \in Seq(Cards)
         /\ \A c : c \in ToSet(Queued) <=> \E kind \in Kinds \cup {"Learn"} : c \in ToSet(gathered[kind])
<1> DEFINE a == gathered["Learn"] \o gathered["DayLearn"]
           b == a \o gathered["Review"]
<1>1. \A kind \in Kinds \cup {"Learn"} : gathered[kind] \in Seq(Cards)
  BY DEF GatheredOK
<1>2. a \in Seq(Cards) /\ ToSet(a) = ToSet(gathered["Learn"]) \cup ToSet(gathered["DayLearn"])
  BY <1>1, RangeOfConcat DEF Kinds
<1> HIDE DEF a
<1>3. b \in Seq(Cards) /\ ToSet(b) = ToSet(a) \cup ToSet(gathered["Review"])
  BY <1>1, <1>2, RangeOfConcat DEF Kinds
<1> HIDE DEF b
<1>4. Queued = b \o gathered["New"]
  BY DEF Queued, a, b
<1>5. Queued \in Seq(Cards) /\ ToSet(Queued) = ToSet(b) \cup ToSet(gathered["New"])
  BY <1>1, <1>3, <1>4, RangeOfConcat DEF Kinds
<1> QED
  BY <1>2, <1>3, <1>5 DEF Kinds

LEMMA QueuedAppend ==
  ASSUME GatheredOK, NEW c \in Cards, card[c].queue = phase, phase \in Kinds \cup {"Learn"}, Gather(c)
  PROVE  Queued' = Append(Queued, c)
<1> DEFINE l == gathered["Learn"]
           d == gathered["DayLearn"]
           r == gathered["Review"]
           n == gathered["New"]
<1>1. l \in Seq(Cards) /\ d \in Seq(Cards) /\ r \in Seq(Cards) /\ n \in Seq(Cards) /\ <<>> \in Seq(Cards)
  BY DEF GatheredOK, Kinds
<1>2. gathered' = [gathered EXCEPT ![phase] = Append(gathered[phase], c)]
  BY DEF Gather
<1>3. DOMAIN gathered = {"DayLearn", "Review", "New", "Learn", "main"}
  BY DEF GatheredOK, Kinds
<1>4. l \o d \in Seq(Cards) /\ l \o d \o r \in Seq(Cards)
  BY <1>1
<1>5. CASE phase = "Learn"
  <2>1. d = <<>> /\ r = <<>> /\ n = <<>>
    BY <1>5, BuilderParameters DEF GatheredOK, NotYet, Kinds
  <2>2. Queued' = Append(l, c) \o d \o r \o n
    BY <1>2, <1>3, <1>5 DEF Queued
  <2>3. Append(l, c) \in Seq(Cards)
    BY <1>1
  <2>4. Queued' = Append(l, c) /\ Queued = l
    BY <1>1, <2>1, <2>2, <2>3, EmptyConcat DEF Queued
  <2> QED
    BY <2>4
<1>6. CASE phase = "DayLearn"
  <2>1. r = <<>> /\ n = <<>>
    BY <1>6, BuilderParameters DEF GatheredOK, NotYet, Kinds
  <2>2. Queued' = l \o Append(d, c) \o r \o n
    BY <1>2, <1>3, <1>6 DEF Queued
  <2>3. l \o Append(d, c) \in Seq(Cards) /\ l \o Append(d, c) = Append(l \o d, c)
    <3> HIDE DEF l, d
    <3> QED
      BY <1>1, AppendConcat
  <2>4. Queued' = l \o Append(d, c) /\ Queued = l \o d
    BY <1>4, <2>1, <2>2, <2>3, EmptyConcat DEF Queued
  <2> QED
    BY <2>3, <2>4
<1>7. CASE phase = "Review"
  <2>1. n = <<>>
    BY <1>7, BuilderParameters DEF GatheredOK, NotYet, Kinds
  <2>2. Queued' = l \o d \o Append(r, c) \o n
    BY <1>2, <1>3, <1>7 DEF Queued
  <2>3. l \o d \o Append(r, c) \in Seq(Cards) /\ l \o d \o Append(r, c) = Append(l \o d \o r, c)
    <3> DEFINE ld == l \o d
    <3> HIDE DEF l, d, r, ld
    <3>1. ld \in Seq(Cards)
      BY <1>4 DEF ld
    <3>2. ld \o Append(r, c) \in Seq(Cards) /\ ld \o Append(r, c) = Append(ld \o r, c)
      BY <1>1, <3>1, AppendConcat
    <3> QED
      BY <3>2 DEF ld
  <2>4. Queued' = l \o d \o Append(r, c) /\ Queued = l \o d \o r
    BY <1>4, <2>1, <2>2, <2>3, EmptyConcat DEF Queued
  <2> QED
    BY <2>3, <2>4
<1>8. CASE phase = "New"
  <2>1. Queued' = l \o d \o r \o Append(n, c)
    BY <1>2, <1>3, <1>8 DEF Queued
  <2>2. l \o d \o r \o Append(n, c) = Append(l \o d \o r \o n, c)
    <3> DEFINE ldr == l \o d \o r
    <3> HIDE DEF l, d, r, n, ldr
    <3>1. ldr \in Seq(Cards)
      BY <1>4 DEF ldr
    <3>2. ldr \o Append(n, c) = Append(ldr \o n, c)
      BY <1>1, <3>1, AppendConcat
    <3> QED
      BY <3>2 DEF ldr
  <2> QED
    BY <2>1, <2>2 DEF Queued
<1> QED
  BY <1>5, <1>6, <1>7, <1>8 DEF Kinds

LEMMA FrameOfBuries ==
  ASSUME UNCHANGED <<collection, root>>
  PROVE  \A s, c : Buries(s, c)' <=> Buries(s, c)
<1> SUFFICES ASSUME NEW s, NEW c
             PROVE  Buries(s, c)' <=> Buries(s, c)
  OBVIOUS
<1>1. Active' = Active /\ card' = card /\ config' = config
  BY DEF Active, Under, collection
<1> QED
  BY <1>1 DEF Buries, BuriedBy

(* Of a card that is gathered, no sibling in the queue buries its kind.     *)
LEMMA GatherInOrder ==
  ASSUME GatheredOK, CollectionOK, QueueInOrder, SeenOK, UNCHANGED <<collection, root>>,
         NEW c \in unvisited, card[c].queue = phase, phase \in Kinds \cup {"Learn"}, Gather(c),
         phase = "Learn" \/ phase \notin seen[NoteOf[c]]
  PROVE  QueueInOrder'
<1>0. c \in Cards
  BY DEF GatheredOK
<1>1. Queued' = Append(Queued, c) /\ Queued \in Seq(Cards)
  BY <1>0, QueuedAppend, QueuedCards
<1>2. /\ Len(Queued) \in Nat /\ DOMAIN Queued = 1..Len(Queued) /\ DOMAIN Queued' = 1..(Len(Queued) + 1)
      /\ Queued'[Len(Queued) + 1] = c
      /\ \A i \in 1..Len(Queued) : Queued'[i] = Queued[i]
  BY <1>0, <1>1
<1>3. ASSUME NEW s \in ToSet(Queued)
      PROVE  ~Buries(s, c)
  <2>1. PICK kind \in Kinds \cup {"Learn"} : s \in ToSet(gathered[kind])
    BY <1>3, QueuedCards
  <2>2. BuriedBy(card[s].home) \subseteq seen[NoteOf[s]]
    BY <2>1 DEF SeenOK
  <2>3. s \in Cards /\ card[s].home \in Decks
    BY <2>1 DEF GatheredOK, CollectionOK, ToSet
  <2>4. "Learn" \notin BuriedBy(card[s].home)
    BY <2>3 DEF BuriedBy, CollectionOK, Kinds
  <2> QED
    BY <2>2, <2>4 DEF Buries
<1>4. ASSUME NEW i \in DOMAIN Queued', NEW j \in DOMAIN Queued', i < j
      PROVE  ~Buries(Queued'[i], Queued'[j])
  <2>1. i \in 1..Len(Queued)
    BY <1>2, <1>4
  <2>2. CASE j \in 1..Len(Queued)
    BY <1>2, <1>4, <2>1, <2>2 DEF QueueInOrder
  <2>3. CASE j = Len(Queued) + 1
    <3>1. Queued'[i] \in ToSet(Queued)
      BY <1>2, <2>1 DEF ToSet
    <3> QED
      BY <1>2, <1>3, <2>3, <3>1
  <2> QED
    BY <1>2, <2>2, <2>3
<1>5. card' = card /\ config' = config /\ Active' = Active
  BY DEF Active, Under, collection
<1> QED
  BY <1>4, <1>5 DEF QueueInOrder, Buries, BuriedBy

LEMMA GatherSeen ==
  ASSUME GatheredOK, CollectionOK, SeenOK, UNCHANGED <<collection, root>>,
         NEW c \in unvisited, card[c].deck \in Active,
         seen' = SeenWith(c), unvisited' = unvisited \ {c},
         \/ \A kind \in Kinds \cup {"Learn"} : gathered'[kind] = gathered[kind]
         \/ Gather(c) /\ card[c].queue \in Kinds \cup {"Learn"}
  PROVE  SeenOK'
<1>0. c \in Cards /\ card' = card /\ config' = config /\ Active' = Active
  BY DEF GatheredOK, Active, Under, collection
<1>d. DOMAIN seen = {NoteOf[x] : x \in Cards}
  BY DEF SeenOK
<1>1. /\ \A n \in DOMAIN seen : seen[n] \subseteq seen'[n]
      /\ seen'[NoteOf[c]] = seen[NoteOf[c]] \cup BuriedBy(card[c].home)
      /\ \A n \in DOMAIN seen : n # NoteOf[c] => seen'[n] = seen[n]
      /\ DOMAIN seen' = DOMAIN seen
  BY <1>0 DEF SeenWith, SeenOK
<1>2. ASSUME NEW kind \in Kinds \cup {"Learn"}, NEW s \in ToSet(gathered'[kind])
      PROVE  BuriedBy(card[s].home) \subseteq seen'[NoteOf[s]]
  <2>1. s \in ToSet(gathered[kind]) \/ s = c
    <3>1. CASE gathered'[kind] = gathered[kind]
      BY <1>2, <3>1
    <3>2. CASE Gather(c) /\ card[c].queue = kind
      <4>1. gathered'[kind] = Append(gathered[kind], c) /\ gathered[kind] \in Seq(Cards)
        BY <3>2 DEF Gather, GatheredOK
      <4> QED
        BY <1>0, <1>2, <4>1, RangeOfAppend
    <3>3. CASE Gather(c) /\ card[c].queue # kind
      <4>1. gathered'[kind] = gathered[kind]
        BY <3>3 DEF Gather, GatheredOK
      <4> QED
        BY <1>2, <4>1
    <3> QED
      BY <3>1, <3>2, <3>3
  <2>2. CASE s = c
    BY <1>1, <2>2
  <2>3. CASE s \in ToSet(gathered[kind])
    <3>1. s \in Cards
      BY <2>3 DEF GatheredOK, ToSet
    <3>2. BuriedBy(card[s].home) \subseteq seen[NoteOf[s]]
      BY <2>3 DEF SeenOK
    <3> QED
      BY <1>d, <1>1, <3>1, <3>2
  <2> QED
    BY <2>1, <2>2, <2>3
<1>3. ASSUME NEW x \in Cards, NEW kind \in seen'[NoteOf[x]]
      PROVE  \E s \in Cards \ unvisited' :
                NoteOf[s] = NoteOf[x] /\ card[s].deck \in Active /\ kind \in BuriedBy(card[s].home)
  <2>1. CASE kind \in seen[NoteOf[x]]
    BY <2>1 DEF SeenOK
  <2>2. CASE kind \notin seen[NoteOf[x]]
    <3>1. NoteOf[x] = NoteOf[c] /\ kind \in BuriedBy(card[c].home)
      BY <1>d, <1>1, <1>3, <2>2
    <3> QED
      BY <1>0, <3>1
  <2> QED
    BY <2>1, <2>2
<1>4. \A kind : ToSet(gathered[kind])' = ToSet(gathered'[kind])
  BY DEF ToSet
<1>5. DOMAIN seen' = {NoteOf[x] : x \in Cards}
  BY <1>1 DEF SeenOK
<1> QED
  BY <1>0, <1>2, <1>3, <1>4, <1>5 DEF SeenOK, BuriedBy


-----------------------------------------------------------------------------
(* Reasons to leave a card out stay.                                        *)

LEMMA FrameOfNames ==
  ASSUME UNCHANGED collection
  PROVE  (HaveParents' <=> HaveParents) /\ (FilteredAreLeaves' <=> FilteredAreLeaves)
BY DEF collection, HaveParents, FilteredAreLeaves, Under

LEMMA ActiveInTree ==
  ASSUME CollectionOK, TreeOK, HaveParents
  PROVE  Active \subseteq DOMAIN tree
BY WholeTree DEF Active, Listed

Growing ==
    \A d : /\ ReviewsOf(d) \in Nat /\ NewOf(d) \in Nat /\ ReviewsOf(d)' \in Nat /\ NewOf(d)' \in Nat
           /\ ReviewsOf(d)' >= ReviewsOf(d) /\ NewOf(d)' >= NewOf(d)

LEMMA UsedUpStays ==
  ASSUME CollectionOK, UNCHANGED collection, Growing, NEW d \in Decks, NEW kind, UsedUp(d, kind)
  PROVE  UsedUp(d, kind)'
<1>1. RemainingLimits(d)' = RemainingLimits(d) /\ RemainingLimits(d) \in Limits
  BY FrameOfCollection, RemainingType
<1>2. /\ ReviewsOf(d) \in Nat /\ NewOf(d) \in Nat /\ ReviewsOf(d)' \in Nat /\ NewOf(d)' \in Nat
      /\ ReviewsOf(d)' >= ReviewsOf(d) /\ NewOf(d)' >= NewOf(d)
  BY DEF Growing
<1>3. RemainingLimits(d).review \in Nat /\ RemainingLimits(d).new \in Nat
  BY <1>1 DEF Limits
<1>4. CASE kind # "New"
  <2>1. ReviewsOf(d)' >= RemainingLimits(d).review
    BY <1>2, <1>3, <1>4 DEF UsedUp
  <2> QED
    BY <1>1, <1>4, <2>1 DEF UsedUp
<1>5. CASE kind = "New"
  <2>1. \/ NewOf(d)' >= RemainingLimits(d).new
        \/ RemainingLimits(d).cap /\ ReviewsOf(d)' + NewOf(d)' >= RemainingLimits(d).review
    BY <1>2, <1>3, <1>5 DEF UsedUp
  <2> QED
    BY <1>1, <1>5, <2>1 DEF UsedUp
<1> QED
  BY <1>4, <1>5

LEMMA ReasonStays ==
  ASSUME CollectionOK, TreeOK, HaveParents, UNCHANGED <<collection, root, tree>>, Growing,
         unvisited' \subseteq unvisited,
         NEW c \in Cards, card[c].deck \in Active, RightlyLeftOut(c)
  PROVE  RightlyLeftOut(c)'
<1>1. Top' = Top /\ card' = card /\ tree' = tree
  BY FrameOfCollection DEF Top, TopOf, Listed, Under, ParentDecks, Above, collection
<1>2. Top \in Decks /\ \A a \in tree[card[c].deck] : a \in Decks
  BY TreeFacts, ActiveInTree, PathOfTop
<1>3. CASE \E a \in {Top} \cup tree[card[c].deck], kind \in {card[c].queue} : UsedUp(a, kind)
  <2>1. PICK a \in {Top} \cup tree[card[c].deck], kind \in {card[c].queue} : UsedUp(a, kind)
    BY <1>3
  <2>2. UsedUp(a, kind)'
    BY <1>2, <2>1, UsedUpStays
  <2> QED
    BY <1>1, <2>1, <2>2 DEF RightlyLeftOut
<1>5. CASE \E s \in Cards : s \notin unvisited /\ Buries(s, c)
  BY <1>5, FrameOfBuries DEF RightlyLeftOut
<1> QED
  BY <1>3, <1>5 DEF RightlyLeftOut

LEMMA LeftOutStep ==
  ASSUME CollectionOK, TreeOK, HaveParents, LeftOutOK, UNCHANGED <<collection, root, tree>>, Growing,
         unvisited' \subseteq unvisited, ToSet(Queued) \subseteq ToSet(Queued'),
         \A x \in Cards \ ToSet(Queued') :
            card[x].deck \in Active /\ card[x].queue # "Suspended"
              /\ x \in unvisited /\ card[x].queue \in NotYet \cup {phase}
            => \/ x \in unvisited' /\ card[x].queue \in NotYet' \cup {phase'}
               \/ RightlyLeftOut(x)
  PROVE  LeftOutOK'
<1>1. card' = card /\ Active' = Active /\ ToSet(Queued)' = ToSet(Queued')
  BY DEF collection, Active, Under, ToSet
<1>2. ASSUME NEW x \in Cards \ ToSet(Queued'), card[x].deck \in Active, card[x].queue # "Suspended"
      PROVE  \/ x \in unvisited' /\ card[x].queue \in NotYet' \cup {phase'}
             \/ RightlyLeftOut(x)'
  <2>1. x \in Cards \ ToSet(Queued)
    OBVIOUS
  <2>2. RightlyLeftOut(x) => RightlyLeftOut(x)'
    BY <1>2, ReasonStays
  <2> QED
    BY <1>2, <2>1, <2>2 DEF LeftOutOK
<1> QED
  BY <1>1, <1>2 DEF LeftOutOK

-----------------------------------------------------------------------------
(* Each step keeps the queue in order and the reasons.                      *)

LEMMA PassCounts ==
  ASSUME UNCHANGED collection, \A kind \in Kinds : gathered'[kind] = gathered[kind], NEW d
  PROVE  ReviewsOf(d)' = ReviewsOf(d) /\ NewOf(d)' = NewOf(d)
<1>1. card' = card /\ Under(d)' = Under(d)
  BY FrameOfCollection DEF collection
<1>2. ASSUME NEW K \in SUBSET Kinds PROVE GatheredIn(d, K)' = GatheredIn(d, K)
  <2>1. \A k \in K : gathered'[k] = gathered[k]
    OBVIOUS
  <2>2. {ToSet(gathered'[k]) : k \in K} = {ToSet(gathered[k]) : k \in K}
    BY <2>1
  <2>3. GatheredIn(d, K)' = {c \in UNION {ToSet(gathered'[k]) : k \in K} : card[c].deck \in Under(d)}
    BY <1>1 DEF GatheredIn, ToSet
  <2> QED
    BY <2>2, <2>3 DEF GatheredIn
<1>3. {"DayLearn", "Review"} \in SUBSET Kinds /\ {"New"} \in SUBSET Kinds
  BY DEF Kinds
<1> QED
  BY <1>2, <1>3 DEF ReviewsOf, NewOf

(* Nothing is gathered: a card is passed over, or the phase changes.        *)
LEMMA PassRightInv ==
  ASSUME BuilderInv, RightInv, UNCHANGED <<collection, root, tree, limits>>, phase # Idle,
         \A kind \in Kinds \cup {"Learn"} : gathered'[kind] = gathered[kind],
         unvisited' \subseteq unvisited, phase' # Idle, SeenOK',
         phase = "Failed" => phase' = "Failed",
         phase' = "Failed" => ~HaveParents,
         phase' # "Failed" /\ HaveParents /\ FilteredAreLeaves =>
            \A x \in unvisited :
               card[x].deck \in Active /\ card[x].queue \in NotYet \cup {phase} =>
                  \/ x \in unvisited' /\ card[x].queue \in NotYet' \cup {phase'}
                  \/ RightlyLeftOut(x)
  PROVE  RightInv'
<1>1. CollectionOK /\ TreeOK /\ GatheredOK
  BY DEF BuilderInv
<1>2. Queued' = Queued
  <2>1. /\ gathered'["Learn"] = gathered["Learn"] /\ gathered'["DayLearn"] = gathered["DayLearn"]
        /\ gathered'["Review"] = gathered["Review"] /\ gathered'["New"] = gathered["New"]
    BY DEF Kinds
  <2> QED
    BY <2>1 DEF Queued
<1>3. QueueInOrder'
  <2>1. \A s, c : Buries(s, c)' <=> Buries(s, c)
    BY FrameOfBuries
  <2>2. Active' = Active /\ card' = card /\ config' = config
    BY DEF Active, Under, collection
  <2> QED
    BY <1>2, <2>2 DEF RightInv, QueueInOrder, Buries, BuriedBy
<1>4. \A d : ReviewsOf(d)' = ReviewsOf(d) /\ NewOf(d)' = NewOf(d)
  BY PassCounts
<1>5. \A d : RemainingLimits(d)' = RemainingLimits(d)
  BY FrameOfCollection
<1>6. (HaveParents' <=> HaveParents) /\ (FilteredAreLeaves' <=> FilteredAreLeaves)
  BY FrameOfNames
<1>7. HaveParents => ReviewsUsed'
  BY <1>4, <1>5 DEF RightInv, ReviewsUsed
<1>8. HaveParents /\ FilteredAreLeaves => NewUsed'
  BY <1>4, <1>5 DEF RightInv, NewUsed
<1>9. ASSUME phase' # "Failed", HaveParents, FilteredAreLeaves
      PROVE  LeftOutOK'
  <2>1. LeftOutOK
    BY <1>9 DEF RightInv
  <2>2. Growing
    <3>1. \A d : ReviewsOf(d) \in Nat /\ NewOf(d) \in Nat
      BY <1>1, GatheredFinite
    <3> QED
      BY <1>4, <3>1 DEF Growing
  <2> QED
    BY <1>1, <1>2, <1>9, <2>1, <2>2, LeftOutStep
<1> QED
  BY <1>3, <1>6, <1>7, <1>8, <1>9 DEF RightInv

LEMMA InitRightInv ==
  ASSUME BuilderInit
  PROVE  RightInv
<1>1. /\ seen = [n \in {NoteOf[c] : c \in Cards} |-> {}] /\ unvisited = Cards /\ phase = Idle
      /\ \A kind \in Kinds \cup {"Learn"} : gathered[kind] = <<>>
  BY DEF BuilderInit, NothingGathered
<1>2. Queued = <<>>
  BY <1>1 DEF Queued, Kinds
<1>3. QueueInOrder
  BY <1>2 DEF QueueInOrder
<1>4. SeenOK
  BY <1>1 DEF SeenOK, ToSet
<1> QED
  BY <1>1, <1>3, <1>4, BuilderParameters DEF RightInv

LEMMA StartRightInv ==
  ASSUME BuilderInv, RightInv, NEW d \in Decks, Start(d)
  PROVE  RightInv'
<1>1. /\ phase = Idle /\ phase' = "Learn" /\ UNCHANGED <<collection, seen, unvisited, gathered>>
      /\ unvisited = Cards
  BY DEF Start, RightInv
<1>2. CollectionOK /\ GatheredOK /\ SeenOK
  BY DEF BuilderInv, RightInv
<1>3. \A kind \in Kinds \cup {"Learn"} : gathered[kind] = <<>>
  BY <1>1, <1>2, NotYetOfIdle DEF GatheredOK
<1>4. Queued' = <<>>
  BY <1>1, <1>3 DEF Queued, Kinds
<1>5. QueueInOrder'
  BY <1>4 DEF QueueInOrder
<1>6. SeenOK'
  <2>1. \A c \in Cards : seen[NoteOf[c]] = {}
    BY <1>1, <1>2 DEF SeenOK
  <2>2. \A kind \in Kinds \cup {"Learn"} : ToSet(gathered[kind])' = {}
    BY <1>1, <1>3 DEF ToSet
  <2> QED
    BY <1>1, <1>2, <2>1, <2>2 DEF SeenOK
<1>7. LeftOutOK'
  <2>1. NotYet' = Kinds
    BY <1>1, BuilderParameters DEF NotYet, Kinds
  <2>2. \A c \in Cards : card'[c].queue \in Kinds \cup {"Learn", "Suspended"}
    BY <1>1, <1>2 DEF CollectionOK, collection
  <2> QED
    BY <1>1, <2>1, <2>2 DEF LeftOutOK
<1> QED
  BY <1>1, <1>2, <1>5, <1>6, <1>7, StartUsed, BuilderParameters DEF RightInv

LEMMA GatherIntradayRightInv ==
  ASSUME BuilderInv, RightInv, GatherIntraday
  PROVE  RightInv'
<1>1. PICK c \in Waiting("Learn") : Gather(c) /\ seen' = SeenWith(c) /\ unvisited' = unvisited \ {c}
  BY DEF GatherIntraday
<1>2. phase = "Learn" /\ UNCHANGED <<collection, root, tree, limits, phase>> /\ phase # Idle
  BY BuilderParameters DEF GatherIntraday
<1>3. /\ CollectionOK /\ GatheredOK /\ TreeOK /\ QueueInOrder /\ SeenOK
  BY <1>2 DEF BuilderInv, RightInv
<1>4. c \in unvisited /\ card[c].queue = "Learn" /\ card[c].deck \in Active /\ c \in Cards
  BY <1>3 DEF Waiting, GatheredOK
<1>5. QueueInOrder'
  BY <1>1, <1>2, <1>3, <1>4, GatherInOrder
<1>6. SeenOK'
  BY <1>1, <1>2, <1>3, <1>4, GatherSeen
<1>7. \A d : ReviewsOf(d)' = ReviewsOf(d) /\ NewOf(d)' = NewOf(d)
  <2>1. \A kind \in Kinds : gathered'[kind] = gathered[kind]
    BY <1>1, <1>3, <1>4 DEF Gather, Kinds, GatheredOK
  <2> QED
    BY <1>2, <2>1, PassCounts
<1>8. (HaveParents' <=> HaveParents) /\ (FilteredAreLeaves' <=> FilteredAreLeaves)
  BY <1>2, FrameOfNames
<1>9. \A d : RemainingLimits(d)' = RemainingLimits(d)
  BY <1>2, FrameOfCollection
<1>10. HaveParents => ReviewsUsed'
  BY <1>2, <1>7, <1>9 DEF RightInv, ReviewsUsed
<1>11. HaveParents /\ FilteredAreLeaves => NewUsed'
  BY <1>2, <1>7, <1>9 DEF RightInv, NewUsed
<1>12. ASSUME HaveParents, FilteredAreLeaves
       PROVE  LeftOutOK'
  <2>1. LeftOutOK
    BY <1>2, <1>12 DEF RightInv
  <2>2. Growing
    <3>1. \A d : ReviewsOf(d) \in Nat /\ NewOf(d) \in Nat
      BY <1>3, GatheredFinite
    <3> QED
      BY <1>7, <3>1 DEF Growing
  <2>3. ToSet(Queued') = ToSet(Queued) \cup {c}
    <3>1. Queued' = Append(Queued, c) /\ Queued \in Seq(Cards)
      BY <1>1, <1>2, <1>3, <1>4, QueuedAppend, QueuedCards
    <3> QED
      BY <1>4, <3>1, RangeOfAppend
  <2>4. NotYet' = NotYet
    BY <1>2 DEF NotYet
  <2> QED
    BY <1>1, <1>2, <1>3, <1>12, <2>1, <2>2, <2>3, <2>4, LeftOutStep
<1> QED
  BY <1>2, <1>5, <1>6, <1>8, <1>10, <1>11, <1>12 DEF RightInv

(* A card that is passed over is so for a reason.                           *)
LEMMA PassedOver ==
  ASSUME BuilderInv, RightInv, HaveParents, FilteredAreLeaves, phase \in Kinds,
         NEW c \in Waiting(phase),
         LimitOf(card[c].deck, phase) = 0 \/ phase \in seen[NoteOf[c]]
  PROVE  RightlyLeftOut(c)
<1>1. phase \notin {Idle, "Failed"}
  BY BuilderParameters DEF Kinds
<1>2. /\ CollectionOK /\ TreeOK /\ LimitsOK /\ GatheredOK /\ SeenOK /\ ReviewsUsed /\ NewUsed
  BY <1>1 DEF BuilderInv, RightInv
<1>3. /\ c \in unvisited /\ c \in Cards /\ card[c].queue = phase
      /\ card[c].deck \in Active /\ card[c].deck \in DOMAIN tree
  BY <1>2, ActiveInTree DEF Waiting, GatheredOK
<1>4. CASE LimitOf(card[c].deck, phase) = 0
  <2>1. \E a \in tree[card[c].deck] : UsedUp(a, phase)
    BY <1>2, <1>3, <1>4, ReachedIsUsedUp
  <2> QED
    BY <1>3, <2>1 DEF RightlyLeftOut
<1>5. CASE phase \in seen[NoteOf[c]]
  <2>1. PICK s \in Cards \ unvisited :
          NoteOf[s] = NoteOf[c] /\ card[s].deck \in Active /\ phase \in BuriedBy(card[s].home)
    BY <1>2, <1>3, <1>5 DEF SeenOK
  <2>2. Buries(s, c)
    BY <1>3, <2>1 DEF Buries
  <2> QED
    BY <2>1, <2>2 DEF RightlyLeftOut
<1> QED
  BY <1>4, <1>5

(* A card that is gathered with limits.                                     *)
LEMMA CountedRightInv ==
  ASSUME BuilderInv, RightInv, UNCHANGED <<collection, root, tree, phase>>, phase \in Kinds,
         NEW c \in Waiting(phase), InTree(card[c].deck), phase \notin seen[NoteOf[c]],
         Gather(c), seen' = SeenWith(c), unvisited' = unvisited \ {c},
         limits' = DecrementDeckAndParents(card[c].deck, phase)
  PROVE  RightInv'
<1>1. phase \notin {Idle, "Failed"}
  BY BuilderParameters DEF Kinds
<1>2. /\ CollectionOK /\ TreeOK /\ LimitsOK /\ GatheredOK /\ QueueInOrder /\ SeenOK
  BY <1>1 DEF BuilderInv, RightInv
<1>3. /\ c \in unvisited /\ c \in Cards /\ card[c].queue = phase
      /\ card[c].deck \in Active /\ card[c].deck \in DOMAIN tree
  BY <1>2 DEF Waiting, GatheredOK, InTree, TreeOK
<1>4. QueueInOrder'
  BY <1>2, <1>3, GatherInOrder
<1>5. SeenOK'
  BY <1>2, <1>3, GatherSeen
<1>6. (HaveParents' <=> HaveParents) /\ (FilteredAreLeaves' <=> FilteredAreLeaves)
  BY FrameOfNames
<1>7. HaveParents => ReviewsUsed' /\ (FilteredAreLeaves => NewUsed')
  BY <1>1, <1>2, <1>3, CountedUsed DEF RightInv
<1>8. ASSUME HaveParents, FilteredAreLeaves
      PROVE  LeftOutOK'
  <2>1. LeftOutOK
    BY <1>1, <1>8 DEF RightInv
  <2>2. Growing
    BY <1>2, <1>3, CountsGrow DEF Growing, collection
  <2>3. ToSet(Queued') = ToSet(Queued) \cup {c}
    <3>1. Queued' = Append(Queued, c) /\ Queued \in Seq(Cards)
      BY <1>2, <1>3, QueuedAppend, QueuedCards
    <3> QED
      BY <1>3, <3>1, RangeOfAppend
  <2>4. NotYet' = NotYet
    BY DEF NotYet
  <2> QED
    BY <1>2, <1>8, <2>1, <2>2, <2>3, <2>4, LeftOutStep
<1> QED
  BY <1>1, <1>4, <1>5, <1>6, <1>7, <1>8 DEF RightInv

LEMMA GatherLimitedRightInv ==
  ASSUME BuilderInv, RightInv, GatherLimited
  PROVE  RightInv'
<1>1. PICK c \in Waiting(phase) :
         /\ unvisited' = unvisited \ {c}
         /\ IF InTree(card[c].deck) THEN Consider(c, phase) /\ UNCHANGED phase
                                    ELSE phase' = "Failed" /\ Skip
  BY DEF GatherLimited
<1>2. phase \in Kinds /\ phase \notin {Idle, "Failed"} /\ UNCHANGED <<collection, root, tree>>
  BY BuilderParameters DEF GatherLimited, Kinds
<1>3. /\ CollectionOK /\ GatheredOK /\ TreeOK /\ SeenOK
  BY <1>2 DEF BuilderInv, RightInv
<1>4. c \in unvisited /\ c \in Cards /\ card[c].queue = phase /\ card[c].deck \in Active
  BY <1>3 DEF Waiting, GatheredOK
<1>5. UNCHANGED seen => SeenOK'
  <2>1. ASSUME UNCHANGED seen, UNCHANGED gathered PROVE SeenOK'
    <3>1. card' = card /\ config' = config /\ Active' = Active
      BY <1>2 DEF Active, Under, collection
    <3>2. \A kind : ToSet(gathered[kind])' = ToSet(gathered[kind])
      BY <2>1 DEF ToSet
    <3> QED
      BY <1>1, <1>3, <2>1, <3>1, <3>2 DEF SeenOK, BuriedBy
  <2>2. UNCHANGED seen => UNCHANGED gathered \/ (InTree(card[c].deck) /\ Gather(c) /\ seen' = SeenWith(c))
    BY <1>1 DEF Consider, Skip
  <2>3. ASSUME Gather(c), seen' = SeenWith(c) PROVE SeenOK'
    BY <1>1, <1>2, <1>3, <1>4, <2>3, GatherSeen
  <2> QED
    BY <2>1, <2>2, <2>3
<1>6. CASE ~InTree(card[c].deck)
  <2>1. ~HaveParents
    BY <1>3, <1>4, <1>6, ActiveInTree DEF InTree, TreeOK
  <2>2. UNCHANGED <<seen, limits, gathered>> /\ phase' = "Failed"
    BY <1>1, <1>6 DEF Skip
  <2> QED
    BY <1>1, <1>2, <1>5, <2>1, <2>2, PassRightInv, BuilderParameters
<1>7. CASE InTree(card[c].deck) /\ LimitOf(card[c].deck, phase) # 0 /\ phase \notin seen[NoteOf[c]]
  BY <1>1, <1>2, <1>7, CountedRightInv DEF Consider
<1>8. CASE InTree(card[c].deck) /\ (LimitOf(card[c].deck, phase) = 0 \/ phase \in seen[NoteOf[c]])
  <2>1. UNCHANGED <<limits, gathered, phase>> /\ (UNCHANGED seen \/ seen' = SeenWith(c))
    BY <1>1, <1>8 DEF Consider, Skip
  <2>2. SeenOK'
    <3>1. ASSUME seen' = SeenWith(c) PROVE SeenOK'
      BY <1>1, <1>2, <1>3, <1>4, <2>1, <3>1, GatherSeen
    <3> QED
      BY <1>5, <2>1, <3>1
  <2>3. NotYet' = NotYet
    BY <2>1 DEF NotYet
  <2>4. HaveParents /\ FilteredAreLeaves => RightlyLeftOut(c)
    BY <1>2, <1>8, PassedOver
  <2> QED
    BY <1>1, <1>2, <2>1, <2>2, <2>3, <2>4, PassRightInv
<1> QED
  BY <1>6, <1>7, <1>8

LEMMA NextPhaseRightInv ==
  ASSUME BuilderInv, RightInv, NextPhase
  PROVE  RightInv'
<1>1. /\ phase \in {"Learn", "DayLearn", "Review", "New"} /\ phase' = PhaseAfter[phase]
      /\ UNCHANGED <<collection, root, tree, limits, gathered, unvisited, seen>>
      /\ Waiting(phase) = {} \/ (phase # "Learn" /\ RootLimitReached(phase))
  BY DEF NextPhase, PhaseAfter, Kinds, Skip
<1>2. /\ phase = "Learn" => phase' = "DayLearn"
      /\ phase = "DayLearn" => phase' = "Review"
      /\ phase = "Review" => phase' = "New"
      /\ phase = "New" => phase' = "Mix"
  BY <1>1 DEF PhaseAfter, Kinds
<1>3. phase \notin {Idle, "Failed"} /\ phase' \notin {Idle, "Failed"}
  BY <1>1, <1>2, BuilderParameters DEF Kinds
<1>4. NotYet \subseteq NotYet' \cup {phase'}
  BY <1>1, <1>2, BuilderParameters DEF NotYet, Kinds
<1>5. /\ CollectionOK /\ GatheredOK /\ TreeOK /\ LimitsOK /\ SeenOK
  BY <1>3 DEF BuilderInv, RightInv
<1>6. SeenOK'
  <2>1. card' = card /\ config' = config /\ Active' = Active
    BY <1>1 DEF Active, Under, collection
  <2>2. \A kind : ToSet(gathered[kind])' = ToSet(gathered[kind])
    BY <1>1 DEF ToSet
  <2> QED
    BY <1>1, <1>5, <2>1, <2>2 DEF SeenOK, BuriedBy
<1>7. ASSUME HaveParents, FilteredAreLeaves,
             NEW x \in unvisited, card[x].deck \in Active, card[x].queue \in NotYet \cup {phase}
      PROVE  card[x].queue \in NotYet' \cup {phase'} \/ RightlyLeftOut(x)
  <2>1. CASE card[x].queue # phase
    BY <1>4, <1>7, <2>1
  <2>2. CASE card[x].queue = phase
    <3>1. RootLimitReached(phase)
      BY <1>1, <1>7, <2>2 DEF Waiting
    <3>2. ReviewsUsed /\ NewUsed
      BY <1>3, <1>7 DEF RightInv
    <3>3. Top \in DOMAIN tree /\ tree[Top] = {Top}
      BY <1>5, <1>7, PathOfTop
    <3>4. \E a \in tree[Top] : UsedUp(a, phase)
      BY <1>5, <1>7, <3>1, <3>2, <3>3, ReachedIsUsedUp DEF RootLimitReached
    <3>5. \E a \in {Top} : UsedUp(a, phase)
      BY <3>3, <3>4
    <3> QED
      BY <2>2, <3>5 DEF RightlyLeftOut
  <2> QED
    BY <2>1, <2>2
<1> QED
  BY <1>1, <1>3, <1>6, <1>7, PassRightInv

(* Steps that only end a phase in which no more is gathered.                *)
LEMMA EndRightInv ==
  ASSUME BuilderInv, RightInv, UNCHANGED <<collection, root, tree, limits, unvisited, seen>>,
         \A kind \in Kinds \cup {"Learn"} : gathered'[kind] = gathered[kind],
         phase \in {"Mix", "Built"}, phase' \in {"Built", "Ordered"}
  PROVE  RightInv'
<1>1. /\ phase \notin {Idle, "Failed"} /\ phase' # "Failed" /\ NotYet = {} /\ phase \notin Kinds \cup {"Learn"}
  BY BuilderParameters DEF NotYet, Kinds
<1>2. phase' # Idle
  BY BuilderParameters, ExamParameters DEF Kinds
<1>3. /\ CollectionOK /\ GatheredOK /\ SeenOK
  BY DEF BuilderInv, RightInv
<1>4. SeenOK'
  <2>1. card' = card /\ config' = config /\ Active' = Active
    BY DEF Active, Under, collection
  <2>2. \A kind \in Kinds \cup {"Learn"} : ToSet(gathered[kind])' = ToSet(gathered[kind])
    BY DEF ToSet
  <2> QED
    BY <1>3, <2>1, <2>2 DEF SeenOK, BuriedBy
<1>5. \A x \in unvisited : card[x].queue \in NotYet \cup {phase} => FALSE
  BY <1>1, <1>3 DEF GatheredOK, CollectionOK
<1> QED
  BY <1>1, <1>2, <1>4, <1>5, PassRightInv

LEMMA FailRightInv ==
  ASSUME BuilderInv, RightInv, FailOnUnknownDeck
  PROVE  RightInv'
<1>1. /\ phase = "New" /\ phase' = "Failed"
      /\ UNCHANGED <<collection, root, tree, limits, gathered, unvisited, seen>>
  BY DEF FailOnUnknownDeck, UnknownDeck, Skip
<1>2. phase # Idle /\ phase' # Idle
  BY <1>1, BuilderParameters DEF Kinds
<1>3. CollectionOK /\ TreeOK /\ SeenOK
  BY <1>2 DEF BuilderInv, RightInv
<1>4. ~HaveParents
  BY <1>3, ActiveInTree DEF FailOnUnknownDeck, UnknownDeck, InTree, TreeOK
<1>5. SeenOK'
  <2>1. card' = card /\ config' = config /\ Active' = Active
    BY <1>1 DEF Active, Under, collection
  <2>2. \A kind : ToSet(gathered[kind])' = ToSet(gathered[kind])
    BY <1>1 DEF ToSet
  <2> QED
    BY <1>1, <1>3, <2>1, <2>2 DEF SeenOK, BuriedBy
<1> QED
  BY <1>1, <1>2, <1>4, <1>5, PassRightInv

LEMMA BuilderStepRightInv ==
  ASSUME BuilderInv, RightInv, BuilderNext
  PROVE  RightInv'
<1>1. CASE Build
  <2>1. \A kind \in Kinds \cup {"Learn"} : gathered'[kind] = gathered[kind]
    BY <1>1 DEF Build, Kinds
  <2> QED
    BY <1>1, <2>1, EndRightInv DEF Build
<1> QED
  BY <1>1, StartRightInv, GatherIntradayRightInv, GatherLimitedRightInv, FailRightInv,
     NextPhaseRightInv DEF BuilderNext

LEMMA UnchangedRightInv ==
  ASSUME BuilderInv, RightInv, UNCHANGED queue_vars
  PROVE  RightInv'
<1>1. UNCHANGED <<collection, root, tree, limits, seen, unvisited, phase, gathered>>
  BY DEF queue_vars, collection
<1>2. card' = card /\ config' = config /\ Active' = Active
  BY <1>1 DEF Active, Under, collection
<1>3. SeenOK'
  <2>1. \A kind : ToSet(gathered[kind])' = ToSet(gathered[kind])
    BY <1>1 DEF ToSet
  <2> QED
    BY <1>1, <1>2, <2>1 DEF RightInv, SeenOK, BuriedBy
<1>4. CASE phase = Idle
  <2>1. Queued' = Queued
    BY <1>1 DEF Queued
  <2>2. QueueInOrder'
    BY <1>2, <2>1 DEF RightInv, QueueInOrder, Buries, BuriedBy
  <2> QED
    BY <1>1, <1>3, <1>4, <2>2, BuilderParameters DEF RightInv
<1>5. CASE phase # Idle
  <2>1. NotYet' = NotYet
    BY <1>1 DEF NotYet
  <2> QED
    BY <1>1, <1>3, <1>5, <2>1, PassRightInv DEF RightInv
<1> QED
  BY <1>4, <1>5

LEMMA ExamStepRightInv ==
  ASSUME BuilderInv, RightInv, [ExamNext]_<<queue_vars, exam_vars>>
  PROVE  RightInv'
<1>1. CASE OrderCards
  BY <1>1, EndRightInv DEF OrderCards
<1> QED
  BY <1>1, BuilderStepRightInv, UnchangedRightInv DEF ExamNext, TakeTurn, GetQueuedCards

LEMMA RightlyGatheredHolds ==
  ASSUME BuilderInv, RightInv
  PROVE  RightlyGathered
<1>1. QueueInOrder /\ (phase = "Failed" => ~HaveParents)
  BY DEF RightInv
<1>2. ASSUME phase = "Built", HaveParents, FilteredAreLeaves, NEW c \in Cards \ ToSet(Queued),
             card[c].deck \in Active, card[c].queue # "Suspended"
      PROVE  \/ UsedUp(Top, card[c].queue)
             \/ \E a \in tree[card[c].deck] : UsedUp(a, card[c].queue)
             \/ \E s \in Cards : s \notin unvisited /\ Buries(s, c)
  <2>1. LeftOutOK /\ CollectionOK
    BY <1>2, BuilderParameters DEF RightInv, BuilderInv
  <2>2. NotYet = {} /\ card[c].queue # phase
    BY <1>2, <2>1, BuilderParameters DEF NotYet, Kinds, CollectionOK
  <2>3. RightlyLeftOut(c)
    BY <1>2, <2>1, <2>2 DEF LeftOutOK
  <2>4. CASE \E a \in {Top} \cup tree[card[c].deck], kind \in {card[c].queue} : UsedUp(a, kind)
    <3>1. PICK a \in {Top} \cup tree[card[c].deck] : UsedUp(a, card[c].queue)
      BY <2>4
    <3> QED
      BY <3>1
  <2> QED
    BY <2>3, <2>4 DEF RightlyLeftOut
<1> QED
  BY <1>1, <1>2 DEF RightlyGathered, QueueInOrder

(* Of two siblings in the queue the first does not bury the second; where   *)
(* no deck is without its parent, building succeeds, and (no deck being     *)
(* under a filtered one) a card is left out only for a limit that is used   *)
(* up or a sibling that buries it.                                          *)
THEOREM GatheringSafety == ExamSpec => []RightlyGathered
<1>1. ExamInit => BuilderInv /\ RightInv
  BY InitBuilderInv, InitRightInv DEF ExamInit
<1>2. BuilderInv /\ RightInv /\ [ExamNext]_<<queue_vars, exam_vars>> => BuilderInv' /\ RightInv'
  BY ExamStepInv, ExamStepRightInv
<1>3. BuilderInv /\ RightInv => RightlyGathered
  BY RightlyGatheredHolds
<1> QED
  BY <1>1, <1>2, <1>3, PTL DEF ExamSpec
-----------------------------------------------------------------------------
(***************************************************************************)
(* Mixing the kinds of cards.                                              *)
(***************************************************************************)

(* What holds of 0, and of each number up to n if of the one before.        *)
LEMMA Upwards ==
  ASSUME NEW n \in Nat, NEW H \in SUBSET (0..n), 0 \in H,
         \A k \in 1..n : k - 1 \in H => k \in H
  PROVE  H = 0..n
<1> DEFINE M == (0..n) \ H
<1>1. CASE M = {}
  BY <1>1
<1>2. CASE M # {}
  <2>1. M \in SUBSET Nat
    OBVIOUS
  <2>2. PICK k \in M : \A j \in M : k <= j
    <3> HIDE DEF M
    <3> QED
      BY <1>2, <2>1, LeastNumber
  <2>3. k \in 1..n /\ k \notin H
    OBVIOUS
  <2>4. k - 1 \in 0..n /\ ~(k <= k - 1)
    BY <2>3
  <2> QED
    BY <2>2, <2>3, <2>4
<1> QED
  BY <1>1, <1>2

(* The values of a function, applied over and over.                         *)
Iterate(g, S, f, a, n) == g \in [0..n -> S] /\ g[0] = a /\ \A k \in 1..n : g[k] = f[g[k - 1]]

LEMMA Iterates ==
  ASSUME NEW S, NEW f \in [S -> S], NEW a \in S, NEW n \in Nat
  PROVE  \E g : Iterate(g, S, f, a, n)
<1> DEFINE G(m) == {g \in [0..m -> S] : g[0] = a /\ \A k \in 1..m : g[k] = f[g[k - 1]]}
           H == {m \in 0..n : G(m) # {}}
<1>1. 0 \in H
  <2>1. [k \in 0..0 |-> a] \in G(0)
    OBVIOUS
  <2> QED
    BY <2>1
<1>2. ASSUME NEW m \in 1..n, m - 1 \in H
      PROVE  m \in H
  <2>1. PICK g \in [0..(m - 1) -> S] : g[0] = a /\ \A k \in 1..(m - 1) : g[k] = f[g[k - 1]]
    BY <1>2
  <2> DEFINE h == [k \in 0..m |-> IF k = m THEN f[g[m - 1]] ELSE g[k]]
  <2>2. g[m - 1] \in S /\ f[g[m - 1]] \in S
    BY <2>1
  <2>3. /\ h \in [0..m -> S] /\ h[m] = f[g[m - 1]]
        /\ \A k \in 0..(m - 1) : h[k] = g[k]
    BY <2>1, <2>2
  <2> HIDE DEF h
  <2>4. h[0] = a /\ \A k \in 1..m : h[k] = f[h[k - 1]]
    <3>1. h[0] = a
      BY <2>1, <2>3
    <3>2. ASSUME NEW k \in 1..m PROVE h[k] = f[h[k - 1]]
      <4>1. h[k - 1] = g[k - 1]
        BY <2>3
      <4>2. CASE k = m
        BY <2>3, <4>1, <4>2
      <4>3. CASE k # m
        <5>1. k \in 1..(m - 1)
          BY <4>3
        <5> QED
          BY <2>1, <2>3, <4>1, <5>1
      <4> QED
        BY <4>2, <4>3
    <3> QED
      BY <3>1, <3>2
  <2> QED
    BY <2>3, <2>4
<1>3. H = 0..n
  <2> HIDE DEF H
  <2>1. H \in SUBSET (0..n)
    BY DEF H
  <2> QED
    BY <1>1, <1>2, <2>1, Upwards
<1> QED
  BY <1>3 DEF Iterate

-----------------------------------------------------------------------------
(* Interspersing.                                                           *)

TwoIsNext(m, n, i, j) == i = m \/ (j < n /\ (j + 1) * (m + 1) < (i + 1) * (n + 1))

LEMMA TakenSteps ==
  ASSUME NEW m \in Nat, NEW n \in Nat
  PROVE  /\ Taken(m, n) \in [0..(m + n) -> Nat \X Nat] /\ Taken(m, n)[0] = <<0, 0>>
         /\ \A k \in 1..(m + n) :
              Taken(m, n)[k] = LET i == Taken(m, n)[k - 1][1]
                                   j == Taken(m, n)[k - 1][2]
                               IN  IF TwoIsNext(m, n, i, j) THEN <<i, j + 1>> ELSE <<i + 1, j>>
<1> DEFINE S == Nat \X Nat
           Next(p) == IF TwoIsNext(m, n, p[1], p[2]) THEN <<p[1], p[2] + 1>> ELSE <<p[1] + 1, p[2]>>
           step == [p \in S |-> Next(p)]
           zero == <<0, 0>>
<1>1. step \in [S -> S] /\ zero \in S /\ \A p \in S : step[p] = Next(p)
  OBVIOUS
<1> HIDE DEF S, step, zero, Next
<1>2. PICK g : Iterate(g, S, step, zero, m + n)
  BY <1>1, Iterates
<1> DEFINE Is(t) == t = [k \in 0..(m + n) |-> IF k = 0 THEN zero ELSE Next(t[k - 1])]
<1>3. Taken(m, n) = CHOOSE t : Is(t)
  BY DEF Taken, TwoIsNext, Next, zero
<1>4. Is(g)
  <2>1. ASSUME NEW k \in 0..(m + n), k # 0
        PROVE  g[k] = Next(g[k - 1])
    <3>1. k \in 1..(m + n) /\ k - 1 \in 0..(m + n)
      BY <2>1
    <3> QED
      BY <1>1, <1>2, <3>1 DEF Iterate
  <2>2. \A k \in 0..(m + n) : g[k] = IF k = 0 THEN zero ELSE Next(g[k - 1])
    BY <1>2, <2>1 DEF Iterate
  <2> QED
    BY <1>2, <2>2 DEF Iterate
<1>5. Is(Taken(m, n))
  <2> HIDE DEF Is
  <2> QED
    BY <1>3, <1>4
<1> DEFINE t == Taken(m, n)
<1>6. DOMAIN t = 0..(m + n) /\ t = [k \in 0..(m + n) |-> t[k]] /\ t[0] = zero /\ \A k \in 1..(m + n) : t[k] = Next(t[k - 1])
  <2>1. Is(t)
    BY <1>5
  <2> HIDE DEF t
  <2>2. t = [k \in 0..(m + n) |-> IF k = 0 THEN zero ELSE Next(t[k - 1])]
    BY <2>1
  <2>3. DOMAIN t = 0..(m + n) /\ t = [k \in 0..(m + n) |-> t[k]]
    BY <2>2
  <2>4. \A k \in 0..(m + n) : t[k] = IF k = 0 THEN zero ELSE Next(t[k - 1])
    BY <2>2
  <2>5. 0 \in 0..(m + n) /\ \A k \in 1..(m + n) : k \in 0..(m + n) /\ k # 0
    OBVIOUS
  <2> QED
    BY <2>3, <2>4, <2>5
<1> HIDE DEF t
<1>7. ASSUME NEW k \in 1..(m + n), t[k - 1] \in S
      PROVE  t[k] \in S
  <2>1. Next(t[k - 1]) \in S
    BY <1>1, <1>7
  <2> QED
    BY <1>6, <2>1
<1>8. \A k \in 0..(m + n) : t[k] \in S
  <2> DEFINE H == {k \in 0..(m + n) : t[k] \in S}
  <2>1. 0 \in H /\ \A k \in 1..(m + n) : k - 1 \in H => k \in H
    <3>1. 0 \in 0..(m + n) /\ \A k \in 1..(m + n) : k \in 0..(m + n)
      OBVIOUS
    <3> QED
      BY <3>1, <1>1, <1>6, <1>7
  <2>2. H \in SUBSET (0..(m + n)) /\ m + n \in Nat
    OBVIOUS
  <2>3. H = 0..(m + n)
    <3> HIDE DEF H
    <3> QED
      BY <2>1, <2>2, Upwards
  <2> QED
    BY <2>3
<1> QED
  BY <1>6, <1>8 DEF S, Next, zero, t

LEMMA TimesMore ==
  ASSUME NEW a \in Nat, NEW b \in Nat, NEW c \in Nat, a <= b
  PROVE  a * c \in Nat /\ b * c \in Nat /\ a * c <= b * c
<1>1. b - a \in Nat /\ b = a + (b - a)
  OBVIOUS
<1>2. \A d \in Nat : (a + d) * c = a * c + d * c /\ d * c \in Nat
  OBVIOUS
<1>3. b * c = a * c + (b - a) * c /\ (b - a) * c \in Nat
  BY <1>1, <1>2
<1>4. a * c \in Nat
  OBVIOUS
<1> QED
  BY <1>3, <1>4

LEMMA EvenStep ==
  ASSUME NEW m \in Nat, NEW n \in Nat, NEW i \in 0..m, NEW j \in 0..n, i + j < m + n,
         j * (m + 1) <= (i + 1) * (n + 1), i * (n + 1) <= (j + 1) * (m + 1)
  PROVE  /\ TwoIsNext(m, n, i, j) =>
              /\ j + 1 \in 0..n
              /\ (j + 1) * (m + 1) <= (i + 1) * (n + 1) /\ i * (n + 1) <= (j + 1 + 1) * (m + 1)
         /\ ~TwoIsNext(m, n, i, j) =>
              /\ i + 1 \in 0..m
              /\ j * (m + 1) <= (i + 1 + 1) * (n + 1) /\ (i + 1) * (n + 1) <= (j + 1) * (m + 1)
<1> DEFINE M == m + 1
           N == n + 1
<1>1. M \in Nat /\ N \in Nat /\ i \in Nat /\ j \in Nat
  OBVIOUS
<1>2. /\ j * M \in Int /\ (j + 1) * M \in Int /\ (j + 1 + 1) * M \in Int /\ (j + 1) * M <= (j + 1 + 1) * M
      /\ i * N \in Int /\ (i + 1) * N \in Int /\ (i + 1 + 1) * N \in Int /\ (i + 1) * N <= (i + 1 + 1) * N
  BY <1>1, TimesMore
<1>3. i * N <= (j + 1) * M /\ j * M <= (i + 1) * N
  OBVIOUS
<1>4. CASE TwoIsNext(m, n, i, j) /\ i = m
  <2>1. j + 1 \in 0..n
    BY <1>4
  <2>2. (j + 1) * M <= N * M
    BY <1>1, <2>1, TimesMore
  <2>3. N * M = (i + 1) * N
    BY <1>4
  <2>4. (j + 1) * M <= (i + 1) * N
    BY <2>2, <2>3
  <2>5. i * N <= (j + 1 + 1) * M
    <3> HIDE DEF M, N
    <3> QED
      BY <1>2, <1>3
  <2> QED
    BY <1>4, <2>1, <2>4, <2>5
<1>5. CASE TwoIsNext(m, n, i, j) /\ i # m
  <2>1. j + 1 \in 0..n /\ (j + 1) * M < (i + 1) * N
    BY <1>5 DEF TwoIsNext
  <2>2. (j + 1) * M <= (i + 1) * N /\ i * N <= (j + 1 + 1) * M
    <3> HIDE DEF M, N
    <3> QED
      BY <1>2, <1>3, <2>1
  <2> QED
    BY <1>5, <2>1, <2>2
<1>6. CASE ~TwoIsNext(m, n, i, j) /\ j = n
  <2>1. i + 1 \in 0..m
    BY <1>6
  <2>2. (i + 1) * N <= M * N
    BY <1>1, <2>1, TimesMore
  <2>3. M * N = (j + 1) * M
    BY <1>6
  <2>4. (i + 1) * N <= (j + 1) * M
    BY <2>2, <2>3
  <2>5. j * M <= (i + 1 + 1) * N
    <3> HIDE DEF M, N
    <3> QED
      BY <1>2, <1>3
  <2> QED
    BY <1>6, <2>1, <2>4, <2>5
<1>7. CASE ~TwoIsNext(m, n, i, j) /\ j # n
  <2>1. i + 1 \in 0..m /\ ~((j + 1) * M < (i + 1) * N)
    BY <1>7 DEF TwoIsNext
  <2>2. (i + 1) * N <= (j + 1) * M /\ j * M <= (i + 1 + 1) * N
    <3> HIDE DEF M, N
    <3> QED
      BY <1>2, <1>3, <2>1
  <2> QED
    BY <1>7, <2>1, <2>2
<1> QED
  BY <1>4, <1>5, <1>6, <1>7

(* What is taken, and that neither side is ahead.                           *)
LEMMA TakenEvenly ==
  ASSUME NEW m \in Nat, NEW n \in Nat, NEW k \in 0..(m + n)
  PROVE  LET i == Taken(m, n)[k][1]
             j == Taken(m, n)[k][2]
         IN  /\ i \in 0..m /\ j \in 0..n /\ i + j = k
             /\ j * (m + 1) <= (i + 1) * (n + 1) /\ i * (n + 1) <= (j + 1) * (m + 1)
<1> DEFINE t == Taken(m, n)
           Holds(l) == /\ t[l][1] \in 0..m /\ t[l][2] \in 0..n /\ t[l][1] + t[l][2] = l
                       /\ t[l][2] * (m + 1) <= (t[l][1] + 1) * (n + 1)
                       /\ t[l][1] * (n + 1) <= (t[l][2] + 1) * (m + 1)
           H == {l \in 0..(m + n) : Holds(l)}
<1> HIDE DEF t
<1>1. 0 \in H
  <2>1. t[0] = <<0, 0>>
    BY TakenSteps DEF t
  <2>2. t[0][1] = 0 /\ t[0][2] = 0
    BY <2>1
  <2>3. 0 * (m + 1) = 0 /\ 0 * (n + 1) = 0 /\ (0 + 1) * (n + 1) = n + 1 /\ (0 + 1) * (m + 1) = m + 1
    OBVIOUS
  <2>4. 0 * (m + 1) <= (0 + 1) * (n + 1) /\ 0 * (n + 1) <= (0 + 1) * (m + 1)
    BY <2>3
  <2>5. 0 \in 0..m /\ 0 \in 0..n /\ 0 + 0 = 0 /\ 0 \in 0..(m + n)
    OBVIOUS
  <2> QED
    BY <2>2, <2>4, <2>5
<1>2. ASSUME NEW l \in 1..(m + n), Holds(l - 1)
      PROVE  Holds(l)
  <2> DEFINE i == t[l - 1][1]
             j == t[l - 1][2]
  <2>1. t[l] = IF TwoIsNext(m, n, i, j) THEN <<i, j + 1>> ELSE <<i + 1, j>>
    BY TakenSteps DEF t
  <2>2. /\ i \in 0..m /\ j \in 0..n /\ i + j = l - 1
        /\ j * (m + 1) <= (i + 1) * (n + 1) /\ i * (n + 1) <= (j + 1) * (m + 1)
    BY <1>2
  <2> HIDE DEF i, j
  <2>3. i + j < m + n
    BY <2>2
  <2>4. CASE TwoIsNext(m, n, i, j)
    <3>1. t[l][1] = i /\ t[l][2] = j + 1
      BY <2>1, <2>4
    <3>2. /\ j + 1 \in 0..n
          /\ (j + 1) * (m + 1) <= (i + 1) * (n + 1) /\ i * (n + 1) <= (j + 1 + 1) * (m + 1)
      BY <2>2, <2>3, <2>4, EvenStep
    <3>3. i + (j + 1) = l
      BY <2>2
    <3> QED
      BY <2>2, <3>1, <3>2, <3>3
  <2>5. CASE ~TwoIsNext(m, n, i, j)
    <3>1. t[l][1] = i + 1 /\ t[l][2] = j
      BY <2>1, <2>5
    <3>2. /\ i + 1 \in 0..m
          /\ j * (m + 1) <= (i + 1 + 1) * (n + 1) /\ (i + 1) * (n + 1) <= (j + 1) * (m + 1)
      BY <2>2, <2>3, <2>5, EvenStep
    <3>3. i + 1 + j = l
      BY <2>2
    <3> QED
      BY <2>2, <3>1, <3>2, <3>3
  <2> QED
    BY <2>4, <2>5
<1> HIDE DEF Holds
<1>3. H = 0..(m + n)
  <2>1. m + n \in Nat /\ H \in SUBSET (0..(m + n)) /\ \A l \in 1..(m + n) : l \in 0..(m + n)
    OBVIOUS
  <2>2. \A l \in 1..(m + n) : l - 1 \in H => l \in H
    BY <1>2, <2>1
  <2> HIDE DEF H
  <2> QED
    BY <1>1, <2>1, <2>2, Upwards
<1>4. Holds(k)
  BY <1>3
<1> QED
  BY <1>4 DEF Holds, t

(* Where a count that starts from 0 reaches each number.                    *)
Reaching(at, u, m, l) ==
    /\ at \in [1..m -> 1..l]
    /\ \A i \in 1..m : u[at[i]] = i /\ u[at[i] - 1] = i - 1
    /\ \A i, j \in 1..m : i < j => at[i] < at[j]

LEMMA Reached ==
  ASSUME NEW m \in Nat, NEW l \in Nat, NEW u \in [0..l -> Nat], u[0] = 0, u[l] = m,
         \A k \in 1..l : u[k] = u[k - 1] \/ u[k] = u[k - 1] + 1
  PROVE  \E at : Reaching(at, u, m, l)
<1> DEFINE R(i) == {k \in 0..l : u[k] >= i}
           at == [i \in 1..m |-> Min(R(i))]
<1>1. ASSUME NEW i \in 1..m
      PROVE  /\ at[i] \in 1..l /\ u[at[i]] = i /\ u[at[i] - 1] = i - 1
             /\ \A k \in 0..l : u[k] >= i => at[i] <= k
  <2>1. R(i) \in SUBSET Nat /\ l \in R(i)
    OBVIOUS
  <2>2. Min(R(i)) \in R(i) /\ \A k \in R(i) : Min(R(i)) <= k
    <3> HIDE DEF R
    <3> QED
      BY <2>1, MinIsLeast
  <2>3. PICK k \in 0..l : k = at[i] /\ u[k] >= i /\ \A o \in 0..l : u[o] >= i => k <= o
    BY <2>2
  <2> HIDE DEF R, at
  <2>4. k # 0 /\ k \in 1..l /\ k - 1 \in 0..l /\ ~(k <= k - 1)
    BY <2>3
  <2>5. ~(u[k - 1] >= i)
    BY <2>3, <2>4
  <2>6. u[k] \in Nat /\ u[k - 1] \in Nat /\ (u[k] = u[k - 1] \/ u[k] = u[k - 1] + 1)
    BY <2>3, <2>4
  <2>7. u[k] = i /\ u[k - 1] = i - 1
    <3>1. \A x, y \in Nat : x >= i /\ ~(y >= i) /\ (x = y \/ x = y + 1) => x = i /\ y = i - 1
      OBVIOUS
    <3> QED
      BY <2>3, <2>5, <2>6, <3>1
  <2> QED
    BY <2>3, <2>4, <2>7
<1>2. at \in [1..m -> 1..l]
  BY <1>1
<1> HIDE DEF at
<1>3. ASSUME NEW i \in 1..m, NEW j \in 1..m, i < j
      PROVE  at[i] < at[j]
  <2>1. u[at[j]] = j /\ at[j] \in 0..l /\ at[i] \in 0..l /\ u[at[i]] = i
    BY <1>1
  <2>2. u[at[j]] >= i /\ at[i] # at[j]
    BY <1>3, <2>1
  <2>3. at[i] <= at[j]
    BY <1>1, <2>1, <2>2
  <2> QED
    BY <2>1, <2>2, <2>3
<1> QED
  BY <1>1, <1>2, <1>3 DEF Reaching

OneTaken(t, k) == t[k][1] = t[k - 1][1] + 1 /\ t[k][2] = t[k - 1][2]
TwoTaken(t, k) == t[k][1] = t[k - 1][1] /\ t[k][2] = t[k - 1][2] + 1

(* The sequence s takes its elements from one and two as t says.            *)
MixedBy(s, S, one, two, t) ==
    /\ s \in Seq(S) /\ Len(s) = Len(one) + Len(two)
    /\ \A k \in 1..(Len(one) + Len(two)) :
         \/ OneTaken(t, k) /\ t[k][1] \in 1..Len(one) /\ s[k] = one[t[k][1]]
         \/ TwoTaken(t, k) /\ t[k][2] \in 1..Len(two) /\ s[k] = two[t[k][2]]

LEMMA MixedSteps ==
  ASSUME NEW S, NEW one \in Seq(S), NEW two \in Seq(S)
  PROVE  MixedBy(Intersperse(one, two), S, one, two, Taken(Len(one), Len(two)))
<1> DEFINE m == Len(one)
           n == Len(two)
           t == Taken(m, n)
           s == [k \in 1..(m + n) |-> IF t[k][1] > t[k - 1][1] THEN one[t[k][1]] ELSE two[t[k][2]]]
<1>1. Intersperse(one, two) = s
  BY DEF Intersperse
<1>2. m \in Nat /\ n \in Nat /\ m + n \in Nat
  OBVIOUS
<1>3. /\ \A i \in 1..m : one[i] \in S
      /\ \A i \in 1..n : two[i] \in S
  OBVIOUS
<1>4. \A k \in 0..(m + n) : t[k][1] \in 0..m /\ t[k][2] \in 0..n
  BY <1>2, TakenEvenly
<1>5. \A k \in 1..(m + n) :
        t[k] = LET i == t[k - 1][1]
                   j == t[k - 1][2]
               IN  IF TwoIsNext(m, n, i, j) THEN <<i, j + 1>> ELSE <<i + 1, j>>
  BY <1>2, TakenSteps
<1> HIDE DEF t, m, n
<1>6. ASSUME NEW k \in 1..(m + n)
      PROVE  /\ s[k] \in S
             /\ \/ OneTaken(t, k) /\ t[k][1] \in 1..m /\ s[k] = one[t[k][1]]
                \/ TwoTaken(t, k) /\ t[k][2] \in 1..n /\ s[k] = two[t[k][2]]
  <2>1. k \in 0..(m + n) /\ k - 1 \in 0..(m + n)
    BY <1>2
  <2>2. /\ t[k][1] \in 0..m /\ t[k][2] \in 0..n /\ t[k - 1][1] \in 0..m /\ t[k - 1][2] \in 0..n
    BY <1>4, <2>1
  <2>3. OneTaken(t, k) \/ TwoTaken(t, k)
    <3>1. t[k] = <<t[k - 1][1], t[k - 1][2] + 1>> \/ t[k] = <<t[k - 1][1] + 1, t[k - 1][2]>>
      BY <1>5
    <3> QED
      BY <3>1 DEF OneTaken, TwoTaken
  <2>4. CASE OneTaken(t, k)
    <3>1. t[k][1] \in 1..m /\ t[k][1] > t[k - 1][1]
      <4>1. PICK a \in 0..m, b \in 0..m : a = t[k][1] /\ b = t[k - 1][1]
        BY <2>2
      <4>2. a = b + 1
        BY <2>4, <4>1 DEF OneTaken
      <4>3. a \in 1..m /\ a > b
        BY <1>2, <4>2
      <4> QED
        BY <4>1, <4>3
    <3>2. s[k] = one[t[k][1]]
      BY <3>1
    <3> QED
      BY <1>3, <2>4, <3>1, <3>2
  <2>5. CASE TwoTaken(t, k)
    <3>1. t[k][2] \in 1..n /\ ~(t[k][1] > t[k - 1][1])
      <4>1. PICK a \in 0..m, b \in 0..n, e \in 0..n :
              a = t[k][1] /\ a = t[k - 1][1] /\ b = t[k][2] /\ e = t[k - 1][2]
        BY <2>2, <2>5 DEF TwoTaken
      <4>2. b = e + 1
        BY <2>5, <4>1 DEF TwoTaken
      <4>3. b \in 1..n /\ ~(a > a)
        BY <1>2, <4>2
      <4> QED
        BY <4>1, <4>3
    <3>2. s[k] = two[t[k][2]]
      BY <3>1
    <3> QED
      BY <1>3, <2>5, <3>1, <3>2
  <2> QED
    BY <2>3, <2>4, <2>5
<1>7. s \in Seq(S) /\ Len(s) = m + n
  <2>1. s \in [1..(m + n) -> S]
    BY <1>6
  <2> HIDE DEF s
  <2> QED
    BY <1>2, <2>1
<1> HIDE DEF s
<1>8. MixedBy(s, S, one, two, t)
  BY <1>6, <1>7 DEF m, n, MixedBy
<1> QED
  BY <1>1, <1>8 DEF t, m, n

LEMMA MixedEnds ==
  ASSUME NEW m \in Nat, NEW n \in Nat
  PROVE  /\ Taken(m, n)[0] = <<0, 0>>
         /\ Taken(m, n)[m + n][1] = m /\ Taken(m, n)[m + n][2] = n
<1>1. m + n \in 0..(m + n)
  OBVIOUS
<1> DEFINE i == Taken(m, n)[m + n][1]
           j == Taken(m, n)[m + n][2]
<1>2. i \in 0..m /\ j \in 0..n /\ i + j = m + n
  BY <1>1, TakenEvenly
<1> HIDE DEF i, j
<1>3. i = m /\ j = n
  BY <1>2
<1> QED
  BY <1>3, TakenSteps DEF i, j

-----------------------------------------------------------------------------
(* What is merged keeps its order.                                          *)

LEMMA KeptWithin ==
  ASSUME NEW s, NEW t, NEW u, KeptIn(s, t), KeptIn(t, u)
  PROVE  KeptIn(s, u)
<1>1. PICK f \in [DOMAIN s -> DOMAIN t] :
        /\ \A i \in DOMAIN s : t[f[i]] = s[i]
        /\ \A i, j \in DOMAIN s : i < j => f[i] < f[j]
  BY DEF KeptIn
<1>2. PICK g \in [DOMAIN t -> DOMAIN u] :
        /\ \A i \in DOMAIN t : u[g[i]] = t[i]
        /\ \A i, j \in DOMAIN t : i < j => g[i] < g[j]
  BY DEF KeptIn
<1> DEFINE h == [i \in DOMAIN s |-> g[f[i]]]
<1>3. h \in [DOMAIN s -> DOMAIN u] /\ \A i \in DOMAIN s : h[i] = g[f[i]] /\ f[i] \in DOMAIN t
  BY <1>1, <1>2
<1> HIDE DEF h
<1>4. /\ \A i \in DOMAIN s : u[h[i]] = s[i]
      /\ \A i, j \in DOMAIN s : i < j => h[i] < h[j]
  BY <1>1, <1>2, <1>3
<1> QED
  BY <1>3, <1>4 DEF KeptIn

LEMMA KeptConcat ==
  ASSUME NEW S, NEW one \in Seq(S), NEW two \in Seq(S)
  PROVE  KeptIn(one, one \o two) /\ KeptIn(two, one \o two)
<1> DEFINE m == Len(one)
           n == Len(two)
           s == one \o two
<1>1. /\ m \in Nat /\ n \in Nat /\ DOMAIN one = 1..m /\ DOMAIN two = 1..n /\ DOMAIN s = 1..(m + n)
      /\ \A i \in 1..m : s[i] = one[i]
      /\ \A i \in 1..n : s[m + i] = two[i]
  OBVIOUS
<1> HIDE DEF m, n, s
<1>2. KeptIn(one, s)
  <2> DEFINE at == [i \in 1..m |-> i]
  <2>1. at \in [1..m -> 1..(m + n)] /\ \A i \in 1..m : at[i] = i
    BY <1>1
  <2> HIDE DEF at
  <2>2. (\A i \in 1..m : s[at[i]] = one[i]) /\ \A i, j \in 1..m : i < j => at[i] < at[j]
    BY <1>1, <2>1
  <2> QED
    BY <1>1, <2>1, <2>2 DEF KeptIn
<1>3. KeptIn(two, s)
  <2> DEFINE at == [i \in 1..n |-> m + i]
  <2>1. at \in [1..n -> 1..(m + n)] /\ \A i \in 1..n : at[i] = m + i
    BY <1>1
  <2> HIDE DEF at
  <2>2. (\A i \in 1..n : s[at[i]] = two[i]) /\ \A i, j \in 1..n : i < j => at[i] < at[j]
    BY <1>1, <2>1
  <2> QED
    BY <1>1, <2>1, <2>2 DEF KeptIn
<1> QED
  BY <1>2, <1>3 DEF s

LEMMA KeptMixed ==
  ASSUME NEW S, NEW one \in Seq(S), NEW two \in Seq(S)
  PROVE  KeptIn(one, Intersperse(one, two)) /\ KeptIn(two, Intersperse(one, two))
<1> DEFINE m == Len(one)
           n == Len(two)
           s == Intersperse(one, two)
           t == Taken(m, n)
<1>1. /\ m \in Nat /\ n \in Nat /\ DOMAIN one = 1..m /\ DOMAIN two = 1..n /\ m + n \in Nat
  OBVIOUS
<1>2. /\ s \in Seq(S) /\ Len(s) = m + n
      /\ \A k \in 1..(m + n) :
           \/ OneTaken(t, k) /\ t[k][1] \in 1..m /\ s[k] = one[t[k][1]]
           \/ TwoTaken(t, k) /\ t[k][2] \in 1..n /\ s[k] = two[t[k][2]]
  <2>1. MixedBy(s, S, one, two, t)
    BY MixedSteps
  <2> HIDE DEF s, t
  <2> QED
    BY <2>1 DEF MixedBy
<1>3. t[0] = <<0, 0>> /\ t[m + n][1] = m /\ t[m + n][2] = n
  BY <1>1, MixedEnds
<1>4. \A k \in 0..(m + n) : t[k][1] \in 0..m /\ t[k][2] \in 0..n
  BY <1>1, TakenEvenly
<1> HIDE DEF m, n, s, t
<1>5. DOMAIN s = 1..(m + n)
  BY <1>1, <1>2
<1>6. KeptIn(one, s)
  <2> DEFINE u == [k \in 0..(m + n) |-> t[k][1]]
  <2>1. /\ u \in [0..(m + n) -> Nat] /\ u[0] = 0 /\ u[m + n] = m
        /\ \A k \in 0..(m + n) : u[k] = t[k][1]
    BY <1>1, <1>3, <1>4
  <2>2. \A k \in 1..(m + n) : k \in 0..(m + n) /\ k - 1 \in 0..(m + n)
    BY <1>1
  <2> HIDE DEF u
  <2>3. \A k \in 1..(m + n) : u[k] = u[k - 1] \/ u[k] = u[k - 1] + 1
    BY <1>2, <2>1, <2>2 DEF OneTaken, TwoTaken
  <2>4. PICK at : Reaching(at, u, m, m + n)
    BY <1>1, <2>1, <2>3, Reached
  <2>5. ASSUME NEW i \in 1..m PROVE s[at[i]] = one[i]
    <3>1. PICK k \in 1..(m + n) : k = at[i]
      BY <2>4 DEF Reaching
    <3>2. t[k][1] = i /\ t[k - 1][1] = i - 1
      BY <2>1, <2>2, <2>4, <3>1 DEF Reaching
    <3>3. ~TwoTaken(t, k)
      BY <3>2 DEF TwoTaken
    <3> QED
      BY <1>2, <3>1, <3>2, <3>3
  <2> QED
    BY <1>1, <1>5, <2>4, <2>5 DEF KeptIn, Reaching
<1>7. KeptIn(two, s)
  <2> DEFINE u == [k \in 0..(m + n) |-> t[k][2]]
  <2>1. /\ u \in [0..(m + n) -> Nat] /\ u[0] = 0 /\ u[m + n] = n
        /\ \A k \in 0..(m + n) : u[k] = t[k][2]
    BY <1>1, <1>3, <1>4
  <2>2. \A k \in 1..(m + n) : k \in 0..(m + n) /\ k - 1 \in 0..(m + n)
    BY <1>1
  <2> HIDE DEF u
  <2>3. \A k \in 1..(m + n) : u[k] = u[k - 1] \/ u[k] = u[k - 1] + 1
    BY <1>2, <2>1, <2>2 DEF OneTaken, TwoTaken
  <2>4. PICK at : Reaching(at, u, n, m + n)
    BY <1>1, <2>1, <2>3, Reached
  <2>5. ASSUME NEW i \in 1..n PROVE s[at[i]] = two[i]
    <3>1. PICK k \in 1..(m + n) : k = at[i]
      BY <2>4 DEF Reaching
    <3>2. t[k][2] = i /\ t[k - 1][2] = i - 1
      BY <2>1, <2>2, <2>4, <3>1 DEF Reaching
    <3>3. ~OneTaken(t, k)
      BY <3>2 DEF OneTaken
    <3> QED
      BY <1>2, <3>1, <3>2, <3>3
  <2> QED
    BY <1>1, <1>5, <2>4, <2>5 DEF KeptIn, Reaching
<1> QED
  BY <1>6, <1>7 DEF s

MergedFrom(s, S, one, two) ==
    s \in Seq(S) /\ Len(s) = Len(one) + Len(two) /\ KeptIn(one, s) /\ KeptIn(two, s)

LEMMA Merged ==
  ASSUME NEW S, NEW one \in Seq(S), NEW two \in Seq(S), NEW mix \in Mixes
  PROVE  MergedFrom(Merge(one, two, mix), S, one, two)
<1>1. CASE mix = "After"
  <2>1. one \o two \in Seq(S) /\ Len(one \o two) = Len(one) + Len(two)
    OBVIOUS
  <2>2. Merge(one, two, mix) = one \o two
    BY <1>1 DEF Merge
  <2> QED
    BY <2>1, <2>2, KeptConcat DEF MergedFrom
<1>2. CASE mix = "Before"
  <2>1. two \o one \in Seq(S) /\ Len(two \o one) = Len(one) + Len(two)
    OBVIOUS
  <2>2. Merge(one, two, mix) = two \o one
    BY <1>2 DEF Merge
  <2> QED
    BY <2>1, <2>2, KeptConcat DEF MergedFrom
<1>3. CASE mix = "Mix"
  <2>1. Merge(one, two, mix) = Intersperse(one, two)
    BY <1>3 DEF Merge
  <2> QED
    <3>1. MixedBy(Intersperse(one, two), S, one, two, Taken(Len(one), Len(two)))
      BY MixedSteps
    <3>2. /\ Intersperse(one, two) \in Seq(S)
          /\ Len(Intersperse(one, two)) = Len(one) + Len(two)
      BY <3>1 DEF MixedBy
    <3>3. KeptIn(one, Intersperse(one, two)) /\ KeptIn(two, Intersperse(one, two))
      BY KeptMixed
    <3> QED
      BY <2>1, <3>2, <3>3 DEF MergedFrom
<1> QED
  BY <1>1, <1>2, <1>3 DEF Mixes

CountIn(s, k, new) == Cardinality({i \in 1..k : s[i] \in new})

(* Of two sides that a set tells apart, how many are in it.                 *)
LEMMA MixedCount ==
  ASSUME NEW S, NEW one \in Seq(S), NEW two \in Seq(S), NEW new,
         \A i \in 1..Len(one) : one[i] \notin new,
         \A i \in 1..Len(two) : two[i] \in new,
         NEW k \in 0..(Len(one) + Len(two))
  PROVE  CountIn(Intersperse(one, two), k, new) = Taken(Len(one), Len(two))[k][2]
<1> DEFINE m == Len(one)
           n == Len(two)
           s == Intersperse(one, two)
           t == Taken(m, n)
           In(l) == {i \in 1..l : s[i] \in new}
           H == {l \in 0..(m + n) : Cardinality(In(l)) = t[l][2]}
<1>1. m \in Nat /\ n \in Nat /\ m + n \in Nat
  OBVIOUS
<1>2. /\ s \in Seq(S) /\ Len(s) = m + n
      /\ \A l \in 1..(m + n) :
           \/ OneTaken(t, l) /\ t[l][1] \in 1..m /\ s[l] = one[t[l][1]]
           \/ TwoTaken(t, l) /\ t[l][2] \in 1..n /\ s[l] = two[t[l][2]]
  <2>1. MixedBy(s, S, one, two, t)
    BY MixedSteps
  <2> HIDE DEF s, t
  <2> QED
    BY <2>1 DEF MixedBy
<1>3. t[0] = <<0, 0>>
  BY <1>1, MixedEnds
<1> HIDE DEF s, t
<1>4. 0 \in H
  <2>1. In(0) = {}
    OBVIOUS
  <2> QED
    BY <1>1, <1>3, <2>1, FS_EmptySet
<1>5. ASSUME NEW l \in 1..(m + n), Cardinality(In(l - 1)) = t[l - 1][2]
      PROVE  Cardinality(In(l)) = t[l][2]
  <2>0. l \in Nat /\ l - 1 \in Nat /\ l >= 1
    OBVIOUS
  <2>1. IsFiniteSet(In(l - 1)) /\ l \notin In(l - 1)
    <3>1. IsFiniteSet(1..(l - 1))
      <4>1. \A x \in Int : IsFiniteSet(1..x)
        BY FS_Interval
      <4> QED
        BY <2>0, <4>1
    <3>2. In(l - 1) \subseteq 1..(l - 1)
      OBVIOUS
    <3> QED
      BY <2>0, <3>1, <3>2, FS_Subset
  <2>2. 1..l = (1..(l - 1)) \cup {l}
    BY <2>0
  <2>3. CASE OneTaken(t, l) /\ t[l][1] \in 1..m /\ s[l] = one[t[l][1]]
    <3>1. s[l] \notin new
      BY <2>3
    <3>2. In(l) = In(l - 1)
      BY <2>2, <3>1
    <3> QED
      BY <1>5, <2>3, <3>2 DEF OneTaken
  <2>4. CASE TwoTaken(t, l) /\ t[l][2] \in 1..n /\ s[l] = two[t[l][2]]
    <3>1. s[l] \in new
      BY <2>4
    <3>2. In(l) = In(l - 1) \cup {l}
      BY <2>2, <3>1
    <3>3. Cardinality(In(l)) = Cardinality(In(l - 1)) + 1
      <4> HIDE DEF In
      <4> QED
        BY <2>1, <3>2, FS_AddElement
    <3> QED
      BY <1>5, <2>4, <3>3 DEF TwoTaken
  <2> QED
    BY <1>2, <2>3, <2>4
<1>6. H = 0..(m + n)
  <2>1. H \in SUBSET (0..(m + n)) /\ \A l \in 1..(m + n) : l \in 0..(m + n)
    OBVIOUS
  <2> HIDE DEF In
  <2>2. \A l \in 1..(m + n) : l - 1 \in H => l \in H
    BY <1>5, <2>1
  <2> HIDE DEF H
  <2> QED
    BY <1>1, <1>4, <2>1, <2>2, Upwards
<1>7. k \in H
  BY <1>6
<1> QED
  BY <1>7 DEF s, t, CountIn

-----------------------------------------------------------------------------
(* The main queue.                                                          *)

Others == Merge(gathered["Review"], gathered["DayLearn"], option.day_learn_mix)

MainOK ==
    phase \in {"Built", "Ordered"} =>
        gathered["main"] = Merge(Others, gathered["New"], option.new_review_mix)

LEMMA PhaseAfterBuilder ==
  ASSUME BuilderNext
  PROVE  phase # "Built" /\ phase # "Ordered" /\ (phase' = "Built" => Build) /\ phase' # "Ordered"
<1> USE BuilderParameters, ExamParameters DEF Kinds
<1>1. ASSUME NEW d \in Decks, Start(d) PROVE phase = Idle /\ phase' = "Learn"
  BY <1>1 DEF Start
<1>2. CASE GatherIntraday
  BY <1>2 DEF GatherIntraday
<1>3. CASE GatherLimited
  BY <1>3 DEF GatherLimited
<1>4. CASE FailOnUnknownDeck
  BY <1>4 DEF FailOnUnknownDeck, UnknownDeck
<1>5. CASE NextPhase
  <2>1. phase \in {"Learn", "DayLearn", "Review", "New"} /\ phase' = PhaseAfter[phase]
    BY <1>5 DEF NextPhase, PhaseAfter
  <2> QED
    BY <2>1 DEF PhaseAfter
<1>6. CASE Build
  BY <1>6 DEF Build
<1> QED
  BY <1>1, <1>2, <1>3, <1>4, <1>5, <1>6 DEF BuilderNext

LEMMA BuildMain ==
  ASSUME GatheredOK, Build
  PROVE  MainOK'
<1>1. /\ gathered' = [gathered EXCEPT !["main"] = Merge(Others, gathered["New"], option.new_review_mix)]
      /\ UNCHANGED option
  BY DEF Build, collection, Others
<1>2. /\ gathered'["Review"] = gathered["Review"] /\ gathered'["DayLearn"] = gathered["DayLearn"]
      /\ gathered'["New"] = gathered["New"]
      /\ gathered'["main"] = Merge(Others, gathered["New"], option.new_review_mix)
  BY <1>1 DEF GatheredOK
<1>3. Others' = Others
  BY <1>1, <1>2 DEF Others
<1> QED
  BY <1>1, <1>2, <1>3 DEF MainOK

LEMMA ExamStepMain ==
  ASSUME BuilderInv, MainOK, [ExamNext]_<<queue_vars, exam_vars>>
  PROVE  MainOK'
<1>1. CASE BuilderNext
  BY <1>1, PhaseAfterBuilder, BuildMain DEF BuilderInv, MainOK
<1>2. CASE OrderCards
  BY <1>2 DEF OrderCards, collection, MainOK, Others
<1>3. CASE UNCHANGED queue_vars
  BY <1>3 DEF queue_vars, MainOK, Others
<1> QED
  BY <1>1, <1>2, <1>3 DEF ExamNext, TakeTurn, GetQueuedCards

LEMMA SeqWithin ==
  ASSUME NEW S, NEW T, NEW s \in Seq(S), \A x \in ToSet(s) : x \in T
  PROVE  s \in Seq(T)
<1>1. Len(s) \in Nat /\ DOMAIN s = 1..Len(s) /\ s = [i \in 1..Len(s) |-> s[i]]
  OBVIOUS
<1>2. \A i \in 1..Len(s) : s[i] \in T
  BY <1>1 DEF ToSet
<1> QED
  BY <1>1, <1>2

LEMMA MembersInRange ==
  ASSUME NEW S, NEW s \in Seq(S), NEW i \in 1..Len(s)
  PROVE  s[i] \in S /\ s[i] \in ToSet(s)
BY DEF ToSet

LEMMA EvenlyMixed ==
  ASSUME NEW S, NEW one \in Seq(S), NEW two \in Seq(S), NEW new,
         \A i \in 1..Len(one) : one[i] \notin new,
         \A i \in 1..Len(two) : two[i] \in new,
         NEW k \in 1..(Len(one) + Len(two)), NEW c,
         c = CountIn(Intersperse(one, two), k, new)
  PROVE  /\ c * (Len(one) + 1) <= (k - c + 1) * (Len(two) + 1)
         /\ (k - c) * (Len(two) + 1) <= (c + 1) * (Len(one) + 1)
<1> DEFINE m == Len(one)
           n == Len(two)
           i == Taken(m, n)[k][1]
           j == Taken(m, n)[k][2]
<1>1. m \in Nat /\ n \in Nat
  OBVIOUS
<1>2. k \in 0..(m + n)
  OBVIOUS
<1>3. c = j
  BY <1>2, MixedCount
<1> HIDE DEF m, n
<1>4. /\ i \in 0..m /\ j \in 0..n /\ i + j = k
      /\ j * (m + 1) <= (i + 1) * (n + 1) /\ i * (n + 1) <= (j + 1) * (m + 1)
  BY <1>1, <1>2, TakenEvenly
<1> HIDE DEF i, j
<1>5. k - c = i
  BY <1>1, <1>3, <1>4
<1> QED
  BY <1>3, <1>4, <1>5 DEF m, n

(* What build does with the cards of three kinds.                           *)
BuiltOf(s, S, new, r, d, w, mix) ==
    /\ s \in Seq(S) /\ Len(s) = Len(r) + Len(d) + Len(w)
    /\ KeptIn(r, s) /\ KeptIn(d, s) /\ KeptIn(w, s)
    /\ mix = "Mix" => \A k \in DOMAIN s : \A c :
         c = CountIn(s, k, new) =>
           /\ c * (Len(r) + Len(d) + 1) <= (k - c + 1) * (Len(w) + 1)
           /\ (k - c) * (Len(w) + 1) <= (c + 1) * (Len(r) + Len(d) + 1)

LEMMA BuiltMain ==
  ASSUME NEW S, NEW new, NEW r \in Seq(S \ new), NEW d \in Seq(S \ new), NEW w \in Seq(S \cap new),
         NEW first \in Mixes, NEW mix \in Mixes
  PROVE  BuiltOf(Merge(Merge(r, d, first), w, mix), S, new, r, d, w, mix)
<1> DEFINE o == Merge(r, d, first)
           s == Merge(o, w, mix)
<1>1. o \in Seq(S \ new) /\ Len(o) = Len(r) + Len(d) /\ KeptIn(r, o) /\ KeptIn(d, o)
  <2>1. MergedFrom(o, S \ new, r, d)
    BY Merged
  <2> HIDE DEF o
  <2> QED
    BY <2>1 DEF MergedFrom
<1> HIDE DEF o
<1>2. o \in Seq(S) /\ w \in Seq(S)
  BY <1>1, SeqWithin, MembersInRange DEF ToSet
<1>4. s \in Seq(S) /\ Len(s) = Len(o) + Len(w) /\ KeptIn(o, s) /\ KeptIn(w, s)
  <2>1. MergedFrom(s, S, o, w)
    BY <1>2, Merged
  <2> HIDE DEF s
  <2> QED
    BY <2>1 DEF MergedFrom
<1> HIDE DEF s
<1>5. KeptIn(r, s) /\ KeptIn(d, s)
  BY <1>1, <1>4, KeptWithin
<1>6. ASSUME mix = "Mix", NEW k \in DOMAIN s, NEW c, c = CountIn(s, k, new)
      PROVE  /\ c * (Len(r) + Len(d) + 1) <= (k - c + 1) * (Len(w) + 1)
             /\ (k - c) * (Len(w) + 1) <= (c + 1) * (Len(r) + Len(d) + 1)
  <2>1. s = Intersperse(o, w)
    BY <1>6 DEF Merge, s
  <2>2. /\ \A i \in 1..Len(o) : o[i] \notin new
        /\ \A i \in 1..Len(w) : w[i] \in new
    BY <1>1
  <2>3. k \in 1..(Len(o) + Len(w))
    BY <1>4
  <2>4. /\ c * (Len(o) + 1) <= (k - c + 1) * (Len(w) + 1)
        /\ (k - c) * (Len(w) + 1) <= (c + 1) * (Len(o) + 1)
    BY <1>2, <1>6, <2>1, <2>2, <2>3, EvenlyMixed
  <2> QED
    BY <1>1, <2>4
<1> QED
  BY <1>1, <1>4, <1>5, <1>6 DEF BuiltOf, s, o

LEMMA MixHolds ==
  ASSUME BuilderInv, MainOK
  PROVE  MixedEvenly
<1> SUFFICES ASSUME phase = "Built"
             PROVE  MixedEvenly
  BY DEF MixedEvenly
<1>1. PICK r, d, w, s, first, mix, new :
        /\ r = gathered["Review"] /\ d = gathered["DayLearn"] /\ w = gathered["New"]
        /\ first = option.day_learn_mix /\ mix = option.new_review_mix
        /\ s = gathered["main"] /\ new = {c \in Cards : card[c].queue = "New"}
  OBVIOUS
<1>2. r \in Seq(Cards \ new) /\ d \in Seq(Cards \ new) /\ w \in Seq(Cards \cap new)
  <2>1. /\ r \in Seq(Cards) /\ \A c \in ToSet(r) : c \in Cards /\ card[c].queue = "Review"
        /\ d \in Seq(Cards) /\ \A c \in ToSet(d) : c \in Cards /\ card[c].queue = "DayLearn"
        /\ w \in Seq(Cards) /\ \A c \in ToSet(w) : c \in Cards /\ card[c].queue = "New"
    BY <1>1 DEF BuilderInv, GatheredOK, Kinds, ToSet
  <2>2. /\ \A c \in ToSet(r) : c \in Cards \ new
        /\ \A c \in ToSet(d) : c \in Cards \ new
        /\ \A c \in ToSet(w) : c \in Cards \cap new
    BY <1>1, <2>1
  <2> QED
    BY <2>1, <2>2, SeqWithin
<1>3. first \in Mixes /\ mix \in Mixes
  BY <1>1 DEF BuilderInv, CollectionOK
<1>4. s = Merge(Merge(r, d, first), w, mix)
  BY <1>1 DEF MainOK, Others
<1>5. BuiltOf(s, Cards, new, r, d, w, mix)
  BY <1>2, <1>3, <1>4, BuiltMain
<1>6. ASSUME NEW k \in DOMAIN s
      PROVE  {i \in 1..k : s[i] \in new} = {i \in 1..k : card[s[i]].queue = "New"}
  <2>1. \A i \in 1..k : s[i] \in Cards
    BY <1>5 DEF BuiltOf
  <2> QED
    BY <1>1, <2>1
<1>7. \A kind \in Kinds : KeptIn(gathered[kind], s)
  BY <1>1, <1>5 DEF Kinds, BuiltOf
<1> QED
  BY <1>1, <1>5, <1>6, <1>7 DEF MixedEvenly, BuiltOf, CountIn

(* The main queue has each card that was gathered for it once and in the    *)
(* order of its kind, and mixed, the new cards are spread evenly over the   *)
(* others, however many of each there are.                                  *)
THEOREM MixingSafety == ExamSpec => []MixedEvenly
<1>1. ExamInit => BuilderInv /\ MainOK
  <2>1. ExamInit => phase = Idle
    BY DEF ExamInit, BuilderInit
  <2> QED
    BY <2>1, InitBuilderInv, BuilderParameters, ExamParameters DEF ExamInit, MainOK
<1>2. BuilderInv /\ MainOK /\ [ExamNext]_<<queue_vars, exam_vars>> => BuilderInv' /\ MainOK'
  BY ExamStepInv, ExamStepMain
<1>3. BuilderInv /\ MainOK => MixedEvenly
  BY MixHolds
<1> QED
  BY <1>1, <1>2, <1>3, PTL DEF ExamSpec
-----------------------------------------------------------------------------
(***************************************************************************)
(* The cards that are shown.                                               *)
(***************************************************************************)

(* How a stable sort by rank places the numbers up to n.                    *)
UpTo(rank, n, i) == {j \in 1..n : rank[j] < rank[i] \/ (rank[j] = rank[i] /\ j <= i)}
InPlace(rank, n, i) == Cardinality(UpTo(rank, n, i))

LEMMA SortedPlaces ==
  ASSUME NEW n \in Nat, NEW rank \in [1..n -> Nat]
  PROVE  /\ \A i \in 1..n : InPlace(rank, n, i) \in 1..n
         /\ \A i, j \in 1..n : InPlace(rank, n, i) <= InPlace(rank, n, j) => rank[i] <= rank[j]
         /\ \A i, j \in 1..n : InPlace(rank, n, i) = InPlace(rank, n, j) => i = j
         /\ \A k \in 1..n : \E i \in 1..n : InPlace(rank, n, i) = k
<1> DEFINE B(i) == UpTo(rank, n, i)
<1>0. IsFiniteSet(1..n) /\ Cardinality(1..n) = n
  <2>1. \A x \in Int : IsFiniteSet(1..x) /\ Cardinality(1..x) = IF 1 > x THEN 0 ELSE x - 1 + 1
    BY FS_Interval
  <2> QED
    BY <2>1
<1>1. ASSUME NEW i \in 1..n
      PROVE  IsFiniteSet(B(i)) /\ Cardinality(B(i)) \in 1..n
  <2>1. B(i) \in SUBSET (1..n) /\ i \in B(i)
    BY DEF UpTo
  <2>2. IsFiniteSet(B(i)) /\ Cardinality(B(i)) <= n
    BY <1>0, <2>1, FS_Subset
  <2>3. Cardinality(B(i)) \in Nat /\ Cardinality(B(i)) # 0
    BY <2>1, <2>2, FS_CardinalityType, FS_EmptySet
  <2> QED
    BY <2>2, <2>3
<1>2. ASSUME NEW i \in 1..n, NEW j \in 1..n, rank[i] < rank[j] \/ (rank[i] = rank[j] /\ i < j)
      PROVE  Cardinality(B(i)) < Cardinality(B(j))
  <2>1. \A k \in 1..n : rank[k] \in Nat
    OBVIOUS
  <2>2. B(i) \in SUBSET B(j) /\ j \in B(j) /\ j \notin B(i)
    BY <1>2, <2>1 DEF UpTo
  <2>3. IsFiniteSet(B(j)) /\ Cardinality(B(i)) \in Nat /\ Cardinality(B(j)) \in Nat
    BY <1>1
  <2>4. Cardinality(B(i)) <= Cardinality(B(j)) /\ Cardinality(B(i)) # Cardinality(B(j))
    BY <2>2, <2>3, FS_Subset
  <2> QED
    BY <2>3, <2>4
<1>3. ASSUME NEW i \in 1..n, NEW j \in 1..n, Cardinality(B(i)) <= Cardinality(B(j))
      PROVE  rank[i] <= rank[j]
  <2>1. ~(rank[j] < rank[i])
    BY <1>1, <1>2, <1>3
  <2> QED
    BY <2>1
<1>4. ASSUME NEW i \in 1..n, NEW j \in 1..n, Cardinality(B(i)) = Cardinality(B(j))
      PROVE  i = j
  <2>1. Cardinality(B(i)) <= Cardinality(B(j)) /\ Cardinality(B(j)) <= Cardinality(B(i))
    BY <1>1, <1>4
  <2>2. rank[i] = rank[j]
    BY <1>3, <2>1
  <2>3. Cardinality(B(i)) \in Nat /\ Cardinality(B(j)) \in Nat
    BY <1>1
  <2>4. ~(Cardinality(B(i)) < Cardinality(B(j))) /\ ~(Cardinality(B(j)) < Cardinality(B(i)))
    BY <1>4, <2>3
  <2>5. ~(i < j) /\ ~(j < i)
    BY <1>2, <2>2, <2>4
  <2> QED
    BY <2>5
<1>5. \A k \in 1..n : \E i \in 1..n : Cardinality(B(i)) = k
  <2> DEFINE f == [i \in 1..n |-> Cardinality(B(i))]
  <2>1. f \in [1..n -> 1..n] /\ \A i, j \in 1..n : f[i] = f[j] => i = j
    BY <1>1, <1>4
  <2>2. \A i \in 1..n : f[i] = Cardinality(B(i))
    OBVIOUS
  <2> HIDE DEF f
  <2>3. f \in Injection(1..n, 1..n)
    BY <2>1 DEF Injection, IsInjective
  <2>4. f \in Surjection(1..n, 1..n)
    BY <1>0, <2>3, FS_Injection
  <2> QED
    BY <2>2, <2>4 DEF Surjection
<1> QED
  BY <1>1, <1>3, <1>4, <1>5 DEF InPlace

-----------------------------------------------------------------------------
(* The exam order, once no card is left.                                    *)

LEMMA DueOnce ==
  ASSUME NEW c, NEW e, DueBefore(c, e)
  PROVE  c # e /\ ~DueBefore(e, c)
<1>1. PICK i \in 1..Len(ByDue), j \in 1..Len(ByDue) : i < j /\ ByDue[i] = c /\ ByDue[j] = e
  BY DEF DueBefore
<1>2. Len(ByDue) \in Nat /\ \A k, l \in 1..Len(ByDue) : ByDue[k] = ByDue[l] => k = l
  <2>1. ByDue \in Seq(Pool)
    BY StakeParameters
  <2>2. Len(ByDue) \in Nat
    BY <2>1
  <2> QED
    BY <2>2, StakeParameters
<1>3. c # e
  BY <1>1, <1>2
<1>4. ASSUME DueBefore(e, c) PROVE FALSE
  <2>1. PICK k \in 1..Len(ByDue), l \in 1..Len(ByDue) : k < l /\ ByDue[k] = e /\ ByDue[l] = c
    BY <1>4 DEF DueBefore
  <2>2. k = j /\ l = i
    BY <1>1, <1>2, <2>1
  <2> QED
    BY <1>1, <1>2, <2>1, <2>2
<1> QED
  BY <1>3, <1>4

(* Cards of topics with something at stake are given out before all others, *)
(* and no due card is forgotten.                                            *)
Given == \A i \in 1..Len(order) : given[TopicOf[order[i]]] > 0

UrgentFirst ==
    \A i, j \in 1..Len(order) :
        i < j /\ score[TopicOf[order[j]]] > 0 => score[TopicOf[order[i]]] > 0

AllThere == \A c \in DueCards : c \in left[TopicOf[c]] \/ \E i \in 1..Len(order) : order[i] = c

ServedInv == phase = "Ordered" => StakeInv /\ Given /\ UrgentFirst /\ AllThere

LEMMA PickServed ==
  ASSUME StakeInv, Given, UrgentFirst, AllThere, UNCHANGED card, NEW t \in Topics, Pick(t)
  PROVE  Given' /\ UrgentFirst' /\ AllThere'
<1>0. StakeTypeOK /\ InBuckets /\ NothingAtStakeLast
  BY NothingAtStakeIsLast DEF StakeInv
<1>1. PICK c \in left[t] : order' = Append(order, c) /\ left' = [left EXCEPT ![t] = @ \ {c}]
  BY DEF Pick
<1>2. TopicOf[c] = t /\ c \in Pool
  BY <1>0 DEF StakeTypeOK, InBuckets
<1>3. /\ Len(order) \in Nat /\ Len(order') = Len(order) + 1
      /\ order'[Len(order) + 1] = c
      /\ \A i \in 1..Len(order) : order'[i] = order[i] /\ order[i] \in Pool
  BY <1>0, <1>1, <1>2 DEF StakeTypeOK
<1>4. /\ score' = score /\ \A u \in Topics : given[u] \in Nat /\ given'[u] >= given[u]
      /\ given'[t] > 0
  BY <1>0 DEF Pick, StakeTypeOK
<1>5. \A i \in 1..Len(order) : TopicOf[order[i]] \in Topics
  BY <1>3, StakeParameters
<1>6. Given'
  <2> SUFFICES ASSUME NEW i \in 1..Len(order')
               PROVE  given'[TopicOf[order'[i]]] > 0
    BY DEF Given
  <2>1. CASE i \in 1..Len(order)
    <3>1. PICK u \in Topics : u = TopicOf[order[i]]
      BY <1>5, <2>1
    <3>2. given[u] > 0 /\ given[u] \in Nat /\ given'[u] >= given[u]
      BY <1>4, <2>1, <3>1 DEF Given
    <3>3. given'[u] > 0
      BY <1>0, <1>4, <3>2 DEF Pick, StakeTypeOK
    <3> QED
      BY <1>3, <2>1, <3>1, <3>3
  <2>2. CASE i = Len(order) + 1
    BY <1>2, <1>3, <1>4, <2>2
  <2> QED
    BY <1>3, <2>1, <2>2
<1>7. UrgentFirst'
  <2> SUFFICES ASSUME NEW i \in 1..Len(order'), NEW j \in 1..Len(order'), i < j,
                      score[TopicOf[order'[j]]] > 0
               PROVE  score[TopicOf[order'[i]]] > 0
    BY <1>4 DEF UrgentFirst
  <2>1. i \in 1..Len(order)
    BY <1>3
  <2>2. CASE j \in 1..Len(order)
    BY <1>3, <2>1, <2>2 DEF UrgentFirst
  <2>3. CASE j = Len(order) + 1
    <3>1. score[t] > 0 /\ left[t] # {}
      BY <1>2, <1>3, <2>3
    <3>2. given[TopicOf[order[i]]] > 0 /\ TopicOf[order[i]] \in Topics
      BY <1>5, <2>1 DEF Given
    <3>3. ~(score[TopicOf[order[i]]] <= 0) /\ score[TopicOf[order[i]]] \in Int
      BY <1>0, <3>1, <3>2 DEF NothingAtStakeLast, StakeTypeOK
    <3> QED
      BY <1>3, <2>1, <3>3
  <2> QED
    BY <1>3, <2>2, <2>3
<1>8. AllThere'
  <2> SUFFICES ASSUME NEW e \in DueCards
               PROVE  e \in left'[TopicOf[e]] \/ \E i \in 1..Len(order') : order'[i] = e
    BY DEF AllThere, DueCards
  <2>1. CASE e \in left[TopicOf[e]]
    <3>1. CASE e = c
      BY <1>3, <3>1
    <3>2. CASE e # c
      BY <1>0, <1>1, <2>1, <3>2 DEF StakeTypeOK
    <3> QED
      BY <3>1, <3>2
  <2>2. CASE \E i \in 1..Len(order) : order[i] = e
    BY <1>3, <2>2
  <2> QED
    BY <2>1, <2>2 DEF AllThere
<1> QED
  BY <1>6, <1>7, <1>8

LEMMA OrderCardsServed ==
  ASSUME OrderCards
  PROVE  ServedInv'
<1>1. PICK others \in SUBSET (Pool \ DueCards) : left' = Buckets(DueCards \cup others)
  BY DEF OrderCards
<1>2. order' = <<>> /\ card' = card /\ phase' = "Ordered"
  BY DEF OrderCards, collection
<1>3. Given' /\ UrgentFirst'
  BY <1>2 DEF Given, UrgentFirst
<1>4. AllThere'
  <2> SUFFICES ASSUME NEW e \in DueCards PROVE e \in left'[TopicOf[e]]
    BY <1>2 DEF AllThere, DueCards
  <2>1. TopicOf[e] \in Topics
    BY StakeParameters, ExamParameters DEF DueCards
  <2> QED
    BY <1>1, <2>1 DEF Buckets
<1>5. OrderInv'
  BY OrderCardsInv
<1> QED
  BY <1>2, <1>3, <1>4, <1>5 DEF ServedInv, OrderInv

LEMMA UnchangedServed ==
  ASSUME ServedInv, UNCHANGED <<stake_vars, card, phase>>
  PROVE  ServedInv'
<1>1. StakeInv => StakeInv'
  BY UnchangedInv
<1> QED
  BY <1>1 DEF ServedInv, stake_vars, Given, UrgentFirst, AllThere, DueCards

LEMMA ExamStepServed ==
  ASSUME ServedInv, [ExamNext]_<<queue_vars, exam_vars>>
  PROVE  ServedInv'
<1>1. CASE BuilderNext
  BY <1>1, PhaseAfterBuilder DEF ServedInv
<1>2. CASE OrderCards
  BY <1>2, OrderCardsServed
<1>3. CASE TakeTurn
  BY <1>3, PickServed, PickInv DEF TakeTurn, StakeNext, ServedInv, queue_vars
<1>4. CASE UNCHANGED <<queue_vars, stake_vars>>
  BY <1>4, UnchangedServed DEF queue_vars
<1> QED
  BY <1>1, <1>2, <1>3, <1>4 DEF ExamNext, GetQueuedCards, exam_vars

(* Of two due cards, the more urgent one has the lower rank.                *)
LEMMA RankedByUrgency ==
  ASSUME StakeInv, UrgentFirst, AllThere, WithCards = {},
         NEW c \in DueCards, NEW e \in DueCards, MoreUrgent(c, e)
  PROVE  Rank(c) \in Nat /\ Rank(e) \in Nat /\ Rank(c) < Rank(e)
<1>1. \A x \in DueCards : x \in Pool /\ TopicOf[x] \in Topics
  BY StakeParameters, ExamParameters DEF DueCards
<1>2. order \in Seq(Pool) /\ score \in [Topics -> Int] /\ DOMAIN order = 1..Len(order) /\ Len(order) \in Nat
  BY DEF StakeInv, StakeTypeOK
<1>3. ASSUME NEW x \in DueCards
      PROVE  Rank(x) \in 1..Len(order) /\ order[Rank(x)] = x
  <2>1. left[TopicOf[x]] = {}
    BY <1>1 DEF WithCards
  <2>2. \E i \in DOMAIN order : order[i] = x
    BY <1>2, <2>1 DEF AllThere
  <2> QED
    BY <1>2, <2>2 DEF Rank
<1>4. PICK i \in 1..Len(order), j \in 1..Len(order) :
        i = Rank(c) /\ j = Rank(e) /\ order[i] = c /\ order[j] = e
  BY <1>3
<1>5. CASE score[TopicOf[c]] > 0 /\ score[TopicOf[e]] <= 0
  <2>1. ~(score[TopicOf[e]] > 0)
    BY <1>1, <1>2, <1>5
  <2>2. i # j /\ ~(j < i)
    BY <1>4, <1>5, <2>1 DEF UrgentFirst
  <2> QED
    BY <1>4, <2>2
<1>6. CASE TopicOf[c] = TopicOf[e] /\ DueBefore(c, e)
  <2>1. c # e /\ ~DueBefore(e, c)
    BY <1>6, DueOnce
  <2>2. i # j /\ ~(j < i)
    BY <1>4, <1>6, <2>1 DEF StakeInv, DueFirst
  <2> QED
    BY <1>4, <2>2
<1> QED
  BY <1>5, <1>6 DEF MoreUrgent

(* The cards that the stable sort puts no later than the i-th.              *)
Earlier(cards, i) ==
    {j \in DOMAIN cards : \/ Rank(cards[j]) < Rank(cards[i])
                          \/ Rank(cards[j]) = Rank(cards[i]) /\ j <= i}
Position(cards, i) == Cardinality(Earlier(cards, i))
Placed(cards, k) == CHOOSE i \in DOMAIN cards : Position(cards, i) = k

LEMMA RankedByPosition ==
  ASSUME NEW s
  PROVE  Ranked(s) = [k \in DOMAIN s |-> s[Placed(s, k)]]
BY DEF Ranked, Placed, Position, Earlier

LEMMA EarlierUpTo ==
  ASSUME NEW s, NEW n, DOMAIN s = 1..n, NEW rank, \A i \in 1..n : rank[i] = Rank(s[i])
  PROVE  \A i \in 1..n : Position(s, i) = InPlace(rank, n, i)
<1> SUFFICES ASSUME NEW i \in 1..n PROVE Earlier(s, i) = UpTo(rank, n, i)
  BY DEF Position, InPlace
<1>1. ASSUME NEW j PROVE j \in Earlier(s, i) <=> j \in UpTo(rank, n, i)
  <2>1. CASE j \in 1..n
    <3>1. rank[i] = Rank(s[i]) /\ rank[j] = Rank(s[j])
      BY <2>1
    <3> QED
      BY <2>1, <3>1 DEF Earlier, UpTo
  <2>2. CASE j \notin 1..n
    BY <2>2 DEF Earlier, UpTo
  <2> QED
    BY <2>1, <2>2
<1> QED
  BY <1>1

LEMMA RankedSorted ==
  ASSUME NEW S, NEW s \in Seq(S), \A x \in S : Rank(x) \in Nat
  PROVE  LET r == Ranked(s)
         IN  /\ r \in Seq(S) /\ Len(r) = Len(s)
             /\ \A k \in 1..Len(s) : r[k] \in ToSet(s)
             /\ \A c \in ToSet(s) : \E k \in 1..Len(s) : r[k] = c
             /\ \A j, k \in 1..Len(s) : j < k => Rank(r[j]) <= Rank(r[k])
<1> DEFINE n == Len(s)
           rank == [i \in 1..n |-> Rank(s[i])]
           pos(k) == Placed(s, k)
<1>1. n \in Nat /\ DOMAIN s = 1..n /\ \A i \in 1..n : s[i] \in S /\ s[i] \in ToSet(s)
  BY DEF ToSet
<1>2. rank \in [1..n -> Nat] /\ \A i \in 1..n : rank[i] = Rank(s[i])
  BY <1>1
<1>3. Ranked(s) = [k \in 1..n |-> s[pos(k)]]
  BY <1>1, RankedByPosition
<1> HIDE DEF rank, n
<1>4. /\ \A i, j \in 1..n : Position(s, i) <= Position(s, j) => rank[i] <= rank[j]
      /\ \A i, j \in 1..n : Position(s, i) = Position(s, j) => i = j
      /\ \A k \in 1..n : \E i \in 1..n : Position(s, i) = k
      /\ \A i \in 1..n : Position(s, i) \in 1..n
  <2>1. \A i \in 1..n : Position(s, i) = InPlace(rank, n, i)
    BY <1>1, <1>2, EarlierUpTo
  <2>2. /\ \A i, j \in 1..n : InPlace(rank, n, i) <= InPlace(rank, n, j) => rank[i] <= rank[j]
        /\ \A i, j \in 1..n : InPlace(rank, n, i) = InPlace(rank, n, j) => i = j
        /\ \A k \in 1..n : \E i \in 1..n : InPlace(rank, n, i) = k
        /\ \A i \in 1..n : InPlace(rank, n, i) \in 1..n
    BY <1>1, <1>2, SortedPlaces
  <2> QED
    BY <2>1, <2>2
<1>5. \A k \in 1..n : pos(k) \in 1..n /\ Position(s, pos(k)) = k
  BY <1>1, <1>4 DEF Placed
<1>6. \A i \in 1..n : \E k \in 1..n : pos(k) = i
  BY <1>4, <1>5
<1> HIDE DEF pos
<1>7. /\ Ranked(s) \in [1..n -> S] /\ \A k \in 1..n : Ranked(s)[k] = s[pos(k)]
  BY <1>1, <1>3, <1>5
<1>8. Ranked(s) \in Seq(S) /\ Len(Ranked(s)) = n
  BY <1>1, <1>7
<1>9. \A c \in ToSet(s) : \E k \in 1..n : Ranked(s)[k] = c
  BY <1>1, <1>6, <1>7 DEF ToSet
<1>10. ASSUME NEW j \in 1..n, NEW k \in 1..n, j < k
       PROVE  Rank(Ranked(s)[j]) <= Rank(Ranked(s)[k])
  <2>1. rank[pos(j)] <= rank[pos(k)]
    <3>1. Position(s, pos(j)) <= Position(s, pos(k))
      BY <1>5, <1>10
    <3> QED
      BY <1>4, <1>5, <3>1
  <2> QED
    BY <1>2, <1>5, <1>7, <2>1
<1> QED
  BY <1>1, <1>5, <1>7, <1>8, <1>9, <1>10 DEF n

-----------------------------------------------------------------------------
(* What is shown.                                                           *)

(* What is shown is cut from what was fetched, by a rank that stays.        *)
ShownFor(limit) == shown = Cut(Ranked(Fetched(limit)), limit)

ShownInv ==
    shown # Idle =>
        /\ phase = "Ordered" /\ WithCards = {}
        /\ \E limit \in FetchLimits : fetch_limit = limit /\ ShownFor(limit)

LEMMA FetchedStays ==
  ASSUME UNCHANGED <<gathered, order>>, NEW limit
  PROVE  Ranked(Fetched(limit))' = Ranked(Fetched(limit))
<1>1. Fetched(limit)' = Fetched(limit)
  BY DEF Fetched, Engine
<1>2. \A s : Ranked(s)' = Ranked(s)
  BY DEF Ranked, Rank
<1>3. PICK s : s = Fetched(limit)
  OBVIOUS
<1> QED
  BY <1>1, <1>2, <1>3

LEMMA ExamStepShown ==
  ASSUME ShownInv, [ExamNext]_<<queue_vars, exam_vars>>
  PROVE  ShownInv'
<1>1. CASE BuilderNext /\ UNCHANGED exam_vars
  BY <1>1, PhaseAfterBuilder DEF ShownInv, exam_vars
<1>2. CASE OrderCards
  BY <1>2 DEF OrderCards, ShownInv
<1>3. CASE TakeTurn
  <2>1. WithCards # {} /\ UNCHANGED shown
    BY <1>3 DEF TakeTurn, StakeNext, Pick
  <2> QED
    BY <2>1 DEF ShownInv
<1>4. CASE GetQueuedCards
  <2>1. PICK limit \in FetchLimits : fetch_limit' = limit /\ Reorder(limit)
    BY <1>4 DEF GetQueuedCards
  <2>2. phase' = "Ordered" /\ WithCards' = {} /\ order' = order /\ gathered' = gathered
    BY <1>4 DEF GetQueuedCards, queue_vars, stake_vars, WithCards
  <2>3. Ranked(Fetched(limit))' = Ranked(Fetched(limit))
    BY <2>2, FetchedStays
  <2>4. ShownFor(limit)'
    BY <2>1, <2>3 DEF ShownFor, Reorder, Cut
  <2> QED
    BY <2>1, <2>2, <2>4 DEF ShownInv
<1>5. CASE UNCHANGED <<queue_vars, exam_vars>>
  <2>1. UNCHANGED <<phase, gathered, left, order, shown, fetch_limit>>
    BY <1>5 DEF queue_vars, exam_vars, stake_vars
  <2>2. WithCards' = WithCards
    BY <2>1 DEF WithCards
  <2>3. ASSUME NEW limit, ShownFor(limit) PROVE ShownFor(limit)'
    <3>1. Ranked(Fetched(limit))' = Ranked(Fetched(limit))
      BY <2>1, FetchedStays
    <3> QED
      BY <2>1, <2>3, <3>1 DEF ShownFor, Cut
  <2> QED
    BY <2>1, <2>2, <2>3 DEF ShownInv
<1> QED
  BY <1>1, <1>2, <1>3, <1>4, <1>5 DEF ExamNext

LEMMA EngineIsDue ==
  ASSUME BuilderInv, MainOK, phase = "Ordered"
  PROVE  Engine \in Seq(DueCards)
<1>1. PICK l, r, d, w, first, mix :
        /\ l = gathered["Learn"] /\ r = gathered["Review"] /\ d = gathered["DayLearn"] /\ w = gathered["New"]
        /\ first = option.day_learn_mix /\ mix = option.new_review_mix
  OBVIOUS
<1>2. /\ l \in Seq(DueCards) /\ r \in Seq(DueCards) /\ d \in Seq(DueCards) /\ w \in Seq(DueCards)
  <2>1. /\ l \in Seq(Cards) /\ \A c \in ToSet(l) : c \in Cards /\ card[c].queue = "Learn"
        /\ r \in Seq(Cards) /\ \A c \in ToSet(r) : c \in Cards /\ card[c].queue = "Review"
        /\ d \in Seq(Cards) /\ \A c \in ToSet(d) : c \in Cards /\ card[c].queue = "DayLearn"
        /\ w \in Seq(Cards) /\ \A c \in ToSet(w) : c \in Cards /\ card[c].queue = "New"
    BY <1>1 DEF BuilderInv, GatheredOK, Kinds, ToSet
  <2>2. /\ \A c \in ToSet(l) : c \in DueCards
        /\ \A c \in ToSet(r) : c \in DueCards
        /\ \A c \in ToSet(d) : c \in DueCards
        /\ \A c \in ToSet(w) : c \in DueCards
    BY <2>1 DEF DueCards
  <2> QED
    BY <2>1, <2>2, SeqWithin
<1>3. first \in Mixes /\ mix \in Mixes
  BY <1>1 DEF BuilderInv, CollectionOK
<1>4. Merge(r, d, first) \in Seq(DueCards)
  <2>1. MergedFrom(Merge(r, d, first), DueCards, r, d)
    BY <1>2, <1>3, Merged
  <2> QED
    BY <2>1 DEF MergedFrom
<1>5. Merge(Merge(r, d, first), w, mix) \in Seq(DueCards)
  <2>1. MergedFrom(Merge(Merge(r, d, first), w, mix), DueCards, Merge(r, d, first), w)
    BY <1>2, <1>3, <1>4, Merged
  <2> QED
    BY <2>1 DEF MergedFrom
<1>6. gathered["main"] \in Seq(DueCards)
  BY <1>1, <1>5 DEF MainOK, Others
<1> QED
  BY <1>1, <1>2, <1>6, RangeOfConcat DEF Engine

LEMMA LargerOfTwo ==
  ASSUME NEW a \in Nat, NEW b \in Nat
  PROVE  Max({a, b}) = IF a >= b THEN a ELSE b
<1> DEFINE m == CHOOSE x \in {a, b} : \A y \in {a, b} : x >= y
<1>1. \E x \in {a, b} : \A y \in {a, b} : x >= y
  OBVIOUS
<1>2. m \in {a, b} /\ m >= a /\ m >= b
  BY <1>1
<1>3. Max({a, b}) = m
  BY DEF Max
<1> HIDE DEF m
<1> QED
  BY <1>2, <1>3

(* What is fetched is a first part of the engine's queue.                   *)
LEMMA FetchedIsFirst ==
  ASSUME NEW S, Engine \in Seq(S), NEW limit \in Nat
  PROVE  /\ Fetched(limit) \in Seq(S)
         /\ Len(Fetched(limit)) =
              Smaller(IF limit >= Window THEN limit ELSE Window, Len(Engine))
         /\ ToSet(Fetched(limit)) \subseteq ToSet(Engine)
<1>1. Window \in Nat
  BY ExamParameters
<1>2. PICK e \in Seq(S), m \in Nat : e = Engine /\ m = IF limit >= Window THEN limit ELSE Window
  BY <1>1
<1>3. Fetched(limit) = SubSeq(e, 1, Smaller(m, Len(e)))
  BY <1>1, <1>2, LargerOfTwo DEF Fetched
<1>4. Len(e) \in Nat /\ DOMAIN e = 1..Len(e)
  OBVIOUS
<1>5. PICK x \in Nat : x = Smaller(m, Len(e)) /\ x <= Len(e)
  <2>1. Smaller(m, Len(e)) \in Nat /\ Smaller(m, Len(e)) <= Len(e)
    BY <1>2, <1>4 DEF Smaller
  <2> QED
    BY <2>1
<1>6. PICK f : f = SubSeq(e, 1, x)
  OBVIOUS
<1>7. f \in Seq(S) /\ Len(f) = x /\ \A i \in 1..x : f[i] = e[i]
  BY <1>4, <1>5, <1>6
<1>8. \A c \in ToSet(f) : c \in ToSet(e)
  BY <1>4, <1>5, <1>7 DEF ToSet
<1> QED
  BY <1>2, <1>3, <1>5, <1>6, <1>7, <1>8

(* Of what is fetched and sorted, all that is asked for is shown.           *)
LEMMA CutIsFirst ==
  ASSUME NEW S, NEW s \in Seq(S), NEW limit \in Nat
  PROVE  /\ Cut(s, limit) \in Seq(S)
         /\ Len(Cut(s, limit)) = IF limit = 0 THEN Len(s) ELSE Smaller(limit, Len(s))
         /\ Len(Cut(s, limit)) <= Len(s)
         /\ \A i \in 1..Len(Cut(s, limit)) : Cut(s, limit)[i] = s[i]
<1>1. Len(s) \in Nat
  OBVIOUS
<1>2. CASE limit = 0
  BY <1>1, <1>2 DEF Cut
<1>3. CASE limit # 0
  <2>1. PICK x \in Nat : x = Smaller(limit, Len(s)) /\ x <= Len(s)
    BY <1>1 DEF Smaller
  <2>2. PICK f : f = SubSeq(s, 1, x)
    OBVIOUS
  <2>3. f \in Seq(S) /\ Len(f) = x /\ \A i \in 1..x : f[i] = s[i]
    BY <1>1, <2>1, <2>2
  <2>4. Cut(s, limit) = f
    BY <1>3, <2>1, <2>2 DEF Cut
  <2> QED
    BY <1>3, <2>1, <2>3, <2>4
<1> QED
  BY <1>2, <1>3

(* Cut from what is sorted by rank, nothing comes before a lower rank.      *)
LEMMA ShownByRank ==
  ASSUME NEW S, NEW s \in Seq(S), \A x \in S : Rank(x) \in Nat, NEW limit \in Nat,
         shown = Cut(Ranked(s), limit)
  PROVE  /\ shown \in Seq(S) /\ Len(shown) = IF limit = 0 THEN Len(s) ELSE Smaller(limit, Len(s))
         /\ \A i \in 1..Len(shown) : shown[i] \in ToSet(s)
         /\ \A i \in 1..Len(shown) : \A c \in ToSet(s) \ {shown[j] : j \in 1..(i - 1)} :
                Rank(shown[i]) <= Rank(c)
<1>1. PICK r : r = Ranked(s)
  OBVIOUS
<1>2. /\ r \in Seq(S) /\ Len(r) = Len(s)
      /\ \A k \in 1..Len(s) : r[k] \in ToSet(s)
      /\ \A c \in ToSet(s) : \E k \in 1..Len(s) : r[k] = c
      /\ \A j, k \in 1..Len(s) : j < k => Rank(r[j]) <= Rank(r[k])
  BY <1>1, RankedSorted
<1>3. PICK f : f = Cut(r, limit)
  OBVIOUS
<1>4. /\ f \in Seq(S) /\ Len(f) <= Len(r) /\ \A i \in 1..Len(f) : f[i] = r[i]
      /\ Len(f) = IF limit = 0 THEN Len(r) ELSE Smaller(limit, Len(r))
  BY <1>2, <1>3, CutIsFirst
<1>5. shown = f /\ Len(f) \in Nat /\ Len(s) \in Nat
  BY <1>1, <1>3, <1>4
<1>6. ASSUME NEW i \in 1..Len(f), NEW c \in ToSet(s), c \notin {f[j] : j \in 1..(i - 1)}
      PROVE  Rank(f[i]) <= Rank(c)
  <2>1. PICK k \in 1..Len(s) : r[k] = c
    BY <1>2
  <2>2. ~(k < i)
    <3>1. ASSUME k < i PROVE FALSE
      <4>1. k \in 1..(i - 1) /\ k \in 1..Len(f)
        BY <1>5, <2>1, <3>1
      <4>2. f[k] = c
        BY <1>4, <2>1, <4>1
      <4> QED
        BY <1>6, <4>1, <4>2
    <3> QED
      BY <3>1
  <2>3. i \in 1..Len(s) /\ f[i] = r[i]
    BY <1>2, <1>4, <1>5
  <2>4. Rank(r[i]) \in Nat
    BY <1>2, <2>3
  <2>5. CASE i = k
    BY <2>1, <2>3, <2>4, <2>5
  <2>6. CASE i < k
    <3>1. Rank(r[i]) <= Rank(r[k])
      BY <1>2, <2>1, <2>3, <2>6
    <3> QED
      BY <2>1, <2>3, <3>1
  <2>7. k \in Int /\ i \in Int
    BY <1>5
  <2>8. i = k \/ i < k
    BY <2>2, <2>7
  <2> QED
    BY <2>5, <2>6, <2>8
<1>7. \A i \in 1..Len(f) : f[i] \in ToSet(s)
  BY <1>2, <1>4, <1>5, SMTT(40)
<1>8. \A i \in 1..Len(f) : \A c \in ToSet(s) \ {f[j] : j \in 1..(i - 1)} : Rank(f[i]) <= Rank(c)
  BY <1>6
<1>9. f \in Seq(S) /\ Len(f) = IF limit = 0 THEN Len(s) ELSE Smaller(limit, Len(s))
  BY <1>2, <1>4
<1> QED
  BY <1>5, <1>7, <1>8, <1>9

LEMMA ShownHolds ==
  ASSUME BuilderInv, MainOK, ServedInv, ShownInv
  PROVE  MostUrgentShown
<1> SUFFICES ASSUME shown # Idle PROVE MostUrgentShown
  BY DEF MostUrgentShown
<1>1. phase = "Ordered" /\ WithCards = {}
  BY DEF ShownInv
<1>2. PICK limit \in FetchLimits : fetch_limit = limit /\ ShownFor(limit)
  BY DEF ShownInv
<1>3. limit \in Nat /\ Window \in Nat
  BY ExamParameters
<1>4. StakeInv /\ UrgentFirst /\ AllThere
  BY <1>1 DEF ServedInv
<1>5. Engine \in Seq(DueCards)
  BY <1>1, EngineIsDue
<1>6. PICK s : s = Fetched(limit)
  OBVIOUS
<1>7. /\ s \in Seq(DueCards) /\ ToSet(s) \subseteq ToSet(Engine)
      /\ Len(s) = Smaller(IF limit >= Window THEN limit ELSE Window, Len(Engine))
  BY <1>3, <1>5, <1>6, FetchedIsFirst
<1>8. \A c \in DueCards : Rank(c) \in Nat
  <2>1. order \in Seq(Pool)
    BY <1>4 DEF StakeInv, StakeTypeOK
  <2>2. Len(order) \in Nat /\ DOMAIN order = 1..Len(order)
    BY <2>1
  <2> QED
    BY <2>2 DEF Rank
<1>9. shown = Cut(Ranked(s), limit)
  BY <1>2, <1>6 DEF ShownFor
<1>10. /\ shown \in Seq(DueCards) /\ Len(shown) = IF limit = 0 THEN Len(s) ELSE Smaller(limit, Len(s))
       /\ \A i \in 1..Len(shown) : shown[i] \in ToSet(s)
       /\ \A i \in 1..Len(shown) : \A c \in ToSet(s) \ {shown[j] : j \in 1..(i - 1)} :
              Rank(shown[i]) <= Rank(c)
  BY <1>3, <1>7, <1>8, <1>9, ShownByRank
<1>11. ToSet(shown) \subseteq ToSet(Engine)
  <2>1. \A c \in ToSet(shown) : c \in ToSet(s)
    <3>1. DOMAIN shown = 1..Len(shown)
      BY <1>10
    <3> QED
      BY <1>10, <3>1 DEF ToSet
  <2> QED
    BY <1>7, <2>1
<1>12. Len(shown) = IF fetch_limit = 0 THEN Smaller(Window, Len(Engine))
                    ELSE Smaller(fetch_limit, Len(Engine))
  BY <1>2, <1>3, <1>5, <1>7, <1>10 DEF Smaller
<1>13. ASSUME NEW i \in DOMAIN shown, NEW c \in ToSet(s) \ {shown[j] : j \in 1..(i - 1)}
       PROVE  ~MoreUrgent(c, shown[i])
  <2>1. i \in 1..Len(shown) /\ Rank(shown[i]) <= Rank(c)
    BY <1>10
  <2>2. PICK e \in DueCards : e = shown[i]
    BY <1>10, <2>1
  <2>3. c \in DueCards
    BY <1>7 DEF ToSet
  <2>4. MoreUrgent(c, e) => Rank(c) < Rank(e) /\ Rank(c) \in Nat /\ Rank(e) \in Nat
    BY <1>1, <1>4, <2>3, RankedByUrgency
  <2> QED
    BY <2>1, <2>2, <2>4
<1> QED
  BY <1>2, <1>6, <1>11, <1>12, <1>13 DEF MostUrgentShown

(* Of the cards fetched none that is shown comes before a more urgent one,  *)
(* and none more urgent is cut off.                                         *)
THEOREM UrgencySafety == ExamSpec => []MostUrgentShown
<1> DEFINE Inv == BuilderInv /\ MainOK /\ ServedInv /\ ShownInv
<1>1. ExamInit => Inv
  <2>1. ExamInit => phase = Idle /\ shown = Idle
    BY DEF ExamInit, BuilderInit, NoOrder
  <2> QED
    BY <2>1, InitBuilderInv, BuilderParameters, ExamParameters
    DEF ExamInit, MainOK, ServedInv, ShownInv
<1>2. Inv /\ [ExamNext]_<<queue_vars, exam_vars>> => Inv'
  BY ExamStepInv, ExamStepMain, ExamStepServed, ExamStepShown
<1>3. Inv => MostUrgentShown
  BY ShownHolds
<1> QED
  BY <1>1, <1>2, <1>3, PTL DEF ExamSpec


-----------------------------------------------------------------------------
(***************************************************************************)
(* The counts of the deck list: each deck adds up those directly under it  *)
(* and caps the sum, while the queue caps going down the tree.             *)
(***************************************************************************)

(* Sums over finite sets.                                                   *)

(* What holds of {} and is kept by each further element holds of a finite   *)
(* set.                                                                     *)
LEMMA SetInduct ==
  ASSUME NEW K, IsFiniteSet(K), NEW H \in SUBSET (SUBSET K), {} \in H,
         \A s \in H : \A x \in K \ s : s \cup {x} \in H
  PROVE  K \in H
<1>1. PICK n \in Nat : ExistsSurjection(1..n, K)
  BY FS_NatSurjection
<1>2. PICK f \in [1..n -> K] : \A x \in K : \E i \in 1..n : f[i] = x
  BY <1>1 DEF ExistsSurjection, Surjection
<1> DEFINE First(k) == {x \in K : \E i \in 1..k : f[i] = x}
           G == {k \in 0..n : First(k) \in H}
<1>3. 0 \in G
  <2>1. First(0) = {}
    OBVIOUS
  <2> QED
    BY <2>1
<1>4. ASSUME NEW k \in 1..n, k - 1 \in G
      PROVE  k \in G
  <2>1. f[k] \in K /\ 1..k = (1..(k - 1)) \cup {k}
    BY <1>2
  <2>2. First(k) = First(k - 1) \cup {f[k]}
    BY <2>1
  <2>3. First(k - 1) \in H
    BY <1>4
  <2>4. CASE f[k] \in First(k - 1)
    <3> HIDE DEF First
    <3>1. First(k - 1) \cup {f[k]} = First(k - 1)
      BY <2>4
    <3>2. First(k) = First(k - 1)
      BY <2>2, <3>1
    <3>3. k \in 0..n
      OBVIOUS
    <3> QED
      BY <2>3, <3>2, <3>3
  <2>5. CASE f[k] \notin First(k - 1)
    <3> HIDE DEF First
    <3>1. First(k - 1) \cup {f[k]} \in H
      BY <2>1, <2>3, <2>5
    <3>2. First(k) \in H /\ k \in 0..n
      BY <2>2, <3>1
    <3> QED
      BY <3>2
  <2> QED
    BY <2>4, <2>5
<1>5. G = 0..n
  <2> HIDE DEF First
  <2>1. G \in SUBSET (0..n)
    OBVIOUS
  <2> HIDE DEF G
  <2> QED
    BY <1>3, <1>4, <2>1, Upwards
<1>6. First(n) = K
  BY <1>2
<1>7. n \in 0..n
  OBVIOUS
<1> HIDE DEF First
<1> QED
  BY <1>5, <1>6, <1>7

(* The sum of the numbers f[e] for e in K: the cells of a diagram.          *)
Cells(K, f) == {q \in K \X Nat : q[2] < f[q[1]]}
SumOver(K, f) == Cardinality(Cells(K, f))

LEMMA CellsOfOne ==
  ASSUME NEW x, NEW n \in Nat
  PROVE  IsFiniteSet({x} \X (0..(n - 1))) /\ Cardinality({x} \X (0..(n - 1))) = n
<1>1. IsFiniteSet(0..(n - 1)) /\ Cardinality(0..(n - 1)) = n
  BY FS_Interval
<1>2. IsFiniteSet({x}) /\ Cardinality({x}) = 1
  BY FS_Singleton
<1> QED
  BY <1>1, <1>2, FS_Product

LEMMA CellsAdd ==
  ASSUME NEW K, NEW f, NEW x, x \notin K, f[x] \in Nat, IsFiniteSet(Cells(K, f))
  PROVE  /\ IsFiniteSet(Cells(K \cup {x}, f))
         /\ SumOver(K \cup {x}, f) = SumOver(K, f) + f[x]
<1> DEFINE more == {x} \X (0..(f[x] - 1))
           all == Cells(K, f) \cup more
<1>1. Cells(K \cup {x}, f) = all
  BY DEF Cells
<1>2. Cells(K, f) \cap more = {}
  BY DEF Cells
<1>3. IsFiniteSet(more) /\ Cardinality(more) = f[x]
  BY CellsOfOne
<1> HIDE DEF more
<1>4. /\ IsFiniteSet(all)
      /\ Cardinality(all)
            = Cardinality(Cells(K, f)) + Cardinality(more) - Cardinality(Cells(K, f) \cap more)
  BY <1>3, FS_Union
<1>5. Cardinality(Cells(K, f)) \in Nat /\ Cardinality(Cells(K, f) \cap more) = 0
  BY <1>2, FS_CardinalityType, FS_EmptySet
<1> HIDE DEF all
<1> QED
  BY <1>1, <1>3, <1>4, <1>5 DEF SumOver

LEMMA SumType ==
  ASSUME NEW K, IsFiniteSet(K), NEW f, \A e \in K : f[e] \in Nat
  PROVE  IsFiniteSet(Cells(K, f)) /\ SumOver(K, f) \in Nat
<1> DEFINE H == {s \in SUBSET K : IsFiniteSet(Cells(s, f))}
<1>1. {} \in H
  BY FS_EmptySet DEF Cells
<1>2. ASSUME NEW s \in H, NEW x \in K \ s
      PROVE  s \cup {x} \in H
  BY <1>2, CellsAdd
<1>3. K \in H
  <2>1. H \in SUBSET (SUBSET K)
    OBVIOUS
  <2> HIDE DEF H
  <2> QED
    BY <1>1, <1>2, <2>1, SetInduct
<1> QED
  BY <1>3, FS_CardinalityType DEF SumOver

LEMMA SumEmpty == ASSUME NEW f PROVE SumOver({}, f) = 0
BY FS_EmptySet DEF SumOver, Cells

LEMMA SumAdd ==
  ASSUME NEW K, IsFiniteSet(K), NEW f, NEW x, x \notin K, \A e \in K \cup {x} : f[e] \in Nat
  PROVE  SumOver(K \cup {x}, f) = SumOver(K, f) + f[x]
BY SumType, CellsAdd

Numbers(K, f) == \A e \in K : f[e] \in Nat

LEMMA AddWithin ==
  ASSUME NEW K, NEW s, s \in SUBSET K, IsFiniteSet(s), NEW f, NEW x \in K \ s, Numbers(K, f)
  PROVE  SumOver(s \cup {x}, f) = SumOver(s, f) + f[x] /\ SumOver(s, f) \in Nat /\ f[x] \in Nat
BY SumAdd, SumType DEF Numbers

LEMMA SumSame ==
  ASSUME NEW K, NEW f, NEW g, \A e \in K : f[e] = g[e]
  PROVE  SumOver(K, f) = SumOver(K, g)
<1>1. Cells(K, f) = Cells(K, g)
  BY DEF Cells
<1> QED
  BY <1>1 DEF SumOver

LEMMA SumLess ==
  ASSUME NEW K, IsFiniteSet(K), NEW f, NEW g, \A e \in K : f[e] \in Nat /\ g[e] \in Nat /\ f[e] <= g[e]
  PROVE  SumOver(K, f) <= SumOver(K, g)
<1>1. Cells(K, f) \in SUBSET Cells(K, g)
  BY DEF Cells
<1>2. IsFiniteSet(Cells(K, g))
  BY SumType
<1> QED
  BY <1>1, <1>2, FS_Subset DEF SumOver

(* The sum of two functions.                                                *)
Both(K, f, g, h) == \A e \in K : f[e] \in Nat /\ g[e] \in Nat /\ h[e] = f[e] + g[e]

LEMMA SumOfBoth ==
  ASSUME NEW K, IsFiniteSet(K), NEW f, NEW g, NEW h, Both(K, f, g, h)
  PROVE  SumOver(K, h) = SumOver(K, f) + SumOver(K, g)
<1> DEFINE H == {s \in SUBSET K : SumOver(s, h) = SumOver(s, f) + SumOver(s, g)}
<1>1. {} \in H
  BY SumEmpty
<1>2. ASSUME NEW s \in H, NEW x \in K \ s
      PROVE  s \cup {x} \in H
  <2>1. IsFiniteSet(s) /\ s \in SUBSET K /\ x \in K \ s
    BY FS_Subset
  <2>2. SumOver(s, h) = SumOver(s, f) + SumOver(s, g) /\ h[x] = f[x] + g[x]
    BY DEF Both
  <2> HIDE DEF H
  <2>3. Numbers(K, f) /\ Numbers(K, g) /\ Numbers(K, h)
    BY DEF Both, Numbers
  <2>6. /\ SumOver(s \cup {x}, f) = SumOver(s, f) + f[x] /\ SumOver(s, f) \in Nat /\ f[x] \in Nat
        /\ SumOver(s \cup {x}, g) = SumOver(s, g) + g[x] /\ SumOver(s, g) \in Nat /\ g[x] \in Nat
        /\ SumOver(s \cup {x}, h) = SumOver(s, h) + h[x]
    <3>1. SumOver(s \cup {x}, f) = SumOver(s, f) + f[x] /\ SumOver(s, f) \in Nat /\ f[x] \in Nat
      BY <2>1, <2>3, AddWithin, Zenon
    <3>2. SumOver(s \cup {x}, g) = SumOver(s, g) + g[x] /\ SumOver(s, g) \in Nat /\ g[x] \in Nat
      BY <2>1, <2>3, AddWithin, Zenon
    <3>3. SumOver(s \cup {x}, h) = SumOver(s, h) + h[x] /\ SumOver(s, h) \in Nat /\ h[x] \in Nat
      BY <2>1, <2>3, AddWithin, Zenon
    <3> QED
      BY <3>1, <3>2, <3>3
  <2> DEFINE t == s \cup {x}
  <2>4. t \in SUBSET K /\ SumOver(t, h) = SumOver(t, f) + SumOver(t, g)
    BY <2>1, <2>2, <2>6
  <2> HIDE DEF t
  <2>5. t \in H
    BY <2>4 DEF H
  <2> QED
    BY <2>5 DEF t
<1>3. K \in H
  <2>1. H \in SUBSET (SUBSET K)
    OBVIOUS
  <2> HIDE DEF H
  <2> QED
    BY <1>1, <1>2, <2>1, SetInduct
<1> QED
  BY <1>3

(* The elements of disjoint sets.                                           *)
LEMMA SumOfSets ==
  ASSUME NEW K, IsFiniteSet(K), NEW B, NEW f,
         \A e \in K : IsFiniteSet(B[e]) /\ f[e] = Cardinality(B[e]),
         \A d, e \in K : d # e => B[d] \cap B[e] = {}
  PROVE  /\ IsFiniteSet(UNION {B[e] : e \in K})
         /\ Cardinality(UNION {B[e] : e \in K}) = SumOver(K, f)
<1> DEFINE U(s) == UNION {B[e] : e \in s}
           H == {s \in SUBSET K : IsFiniteSet(U(s)) /\ Cardinality(U(s)) = SumOver(s, f)}
<1>1. {} \in H
  <2>1. U({}) = {}
    OBVIOUS
  <2> QED
    BY <2>1, SumEmpty, FS_EmptySet
<1>2. ASSUME NEW s \in H, NEW x \in K \ s
      PROVE  s \cup {x} \in H
  <2>1. IsFiniteSet(s) /\ s \in SUBSET K /\ \A e \in s \cup {x} : f[e] \in Nat
    BY FS_Subset, FS_CardinalityType
  <2>2. SumOver(s \cup {x}, f) = SumOver(s, f) + f[x]
    BY <2>1, SumAdd
  <2> DEFINE all == U(s) \cup B[x]
  <2>3. U(s \cup {x}) = all /\ U(s) \cap B[x] = {}
    OBVIOUS
  <2>4. IsFiniteSet(U(s)) /\ Cardinality(U(s)) = SumOver(s, f) /\ IsFiniteSet(B[x]) /\ f[x] = Cardinality(B[x])
    OBVIOUS
  <2> HIDE DEF U
  <2>5. /\ IsFiniteSet(all)
        /\ Cardinality(all) = Cardinality(U(s)) + Cardinality(B[x]) - Cardinality(U(s) \cap B[x])
    BY <2>4, FS_Union
  <2>6. /\ Cardinality(U(s)) \in Nat /\ Cardinality(B[x]) \in Nat
        /\ Cardinality(U(s) \cap B[x]) = 0
    BY <2>3, <2>4, FS_CardinalityType, FS_EmptySet
  <2> HIDE DEF all
  <2>7. IsFiniteSet(U(s \cup {x})) /\ Cardinality(U(s \cup {x})) = SumOver(s \cup {x}, f)
    BY <2>2, <2>3, <2>4, <2>5, <2>6
  <2> QED
    BY <2>1, <2>7
<1>3. K \in H
  <2>1. H \in SUBSET (SUBSET K)
    OBVIOUS
  <2> HIDE DEF H
  <2> QED
    BY <1>1, <1>2, <2>1, SetInduct
<1> QED
  BY <1>3


-----------------------------------------------------------------------------
(* The deck list, which sums with FoldSet and a recursive function.         *)

Counts == [learn : Nat, daylearn : Nat, review : Nat, new : Nat]

(* The counts of the decks K, added to others.                              *)
Sums(f, base, K) == FoldSet(LAMBDA e, sum : Plus(sum, f[e]), base, K)

(* g is the function that the definition of FoldSet chooses.                *)
SumsBySet(g, f, base, K) ==
    g = [s \in SUBSET K |-> IF s = {} THEN base
                            ELSE Plus(g[s \ {CHOOSE x \in s : TRUE}], f[CHOOSE x \in s : TRUE])]

LEMMA SumsChosen ==
  ASSUME NEW f, NEW base, NEW K
  PROVE  Sums(f, base, K) = (CHOOSE g : SumsBySet(g, f, base, K))[K]
BY Zenon DEF Sums, FoldSet, MapThenFoldSet, SumsBySet

Own(d) == [learn |-> DueIn(d, "Learn"), daylearn |-> DueIn(d, "DayLearn"),
           review |-> DueIn(d, "Review"), new |-> DueIn(d, "New")]
Kids(d) == {e \in DOMAIN ListTree : d \in ListTree[e] /\ Level(e) = Level(d) + 1}

Counted(f) == f = [d \in DOMAIN ListTree |-> Capped(Sums(f, Own(d), Kids(d)), ListLimits(d))]

LEMMA CountsChosen == ListCounts = CHOOSE f : Counted(f)
BY Zenon DEF ListCounts, Counted, Sums, Own, Kids

LEMMA SumsAre ==
  ASSUME NEW K, IsFiniteSet(K), NEW N, NEW base \in [N -> Nat], NEW f, \A e \in K : f[e] \in [N -> Nat]
  PROVE  Sums(f, base, K) = [k \in N |-> base[k] + SumOver(K, [e \in K |-> f[e][k]])]
<1> DEFINE F(k) == [e \in K |-> f[e][k]]
           Sum(s) == [k \in N |-> base[k] + SumOver(s, F(k))]
           g == [s \in SUBSET K |-> Sum(s)]
           pick(s) == CHOOSE x \in s : TRUE
<1>1. \A k \in N : Numbers(K, F(k)) /\ \A e \in K : F(k)[e] = f[e][k]
  BY DEF Numbers
<1>2. Sum({}) = base
  <2>1. \A k \in N : SumOver({}, F(k)) = 0
    BY SumEmpty
  <2> QED
    BY <2>1
<1>3. ASSUME NEW s \in SUBSET K, s # {}
      PROVE  Sum(s) = Plus(Sum(s \ {pick(s)}), f[pick(s)])
  <2> DEFINE x == pick(s)
             t == s \ {x}
  <2>1. x \in s
    BY <1>3
  <2> HIDE DEF x, pick
  <2>2. t \in SUBSET K /\ x \in K \ t /\ IsFiniteSet(t) /\ s = t \cup {x}
    BY <2>1, FS_Subset
  <2> HIDE DEF t, F, Sum
  <2>3. ASSUME NEW k \in N
        PROVE  /\ SumOver(s, F(k)) = SumOver(t, F(k)) + f[x][k] /\ SumOver(t, F(k)) \in Nat
               /\ f[x][k] \in Nat /\ base[k] \in Nat
    <3>1. /\ SumOver(t \cup {x}, F(k)) = SumOver(t, F(k)) + F(k)[x] /\ SumOver(t, F(k)) \in Nat /\ F(k)[x] \in Nat
      BY <1>1, <2>2, AddWithin, Zenon
    <3>2. F(k)[x] = f[x][k] /\ base[k] \in Nat
      BY <1>1, <2>2
    <3> QED
      BY <2>2, <3>1, <3>2
  <2>4. Plus(Sum(t), f[x]) = [k \in N |-> Sum(t)[k] + f[x][k]]
    BY DEF Plus, Sum
  <2>5. \A k \in N : Sum(t)[k] = base[k] + SumOver(t, F(k))
    BY DEF Sum
  <2>6. \A k \in N : Sum(t)[k] + f[x][k] = base[k] + SumOver(s, F(k))
    BY <2>3, <2>5
  <2>7. Plus(Sum(t), f[x]) = Sum(s)
    BY <2>4, <2>6 DEF Sum
  <2> QED
    BY <2>7 DEF t, x
<1>4. SumsBySet(g, f, base, K)
  <2>1. \A s \in SUBSET K : g[s] = IF s = {} THEN base ELSE Plus(g[s \ {pick(s)}], f[pick(s)])
    <3> SUFFICES ASSUME NEW s \in SUBSET K
                 PROVE  g[s] = IF s = {} THEN base ELSE Plus(g[s \ {pick(s)}], f[pick(s)])
      OBVIOUS
    <3> HIDE DEF Sum, pick
    <3>1. s \ {pick(s)} \in SUBSET K
      OBVIOUS
    <3> QED
      BY <1>2, <1>3, <3>1
  <2> DEFINE G(s) == IF s = {} THEN base ELSE Plus(g[s \ {pick(s)}], f[pick(s)])
  <2>2. \A s \in SUBSET K : g[s] = G(s)
    BY <2>1
  <2> HIDE DEF Sum
  <2>3. g = [s \in SUBSET K |-> G(s)]
    <3> HIDE DEF G
    <3> QED
      BY <2>2
  <2> QED
    BY <2>3, Zenon DEF SumsBySet
<1> DEFINE c == CHOOSE h : SumsBySet(h, f, base, K)
<1>5. SumsBySet(c, f, base, K)
  BY <1>4
<1> HIDE DEF c, g, Sum, F
<1>6. \A s \in SUBSET K : c[s] = IF s = {} THEN base ELSE Plus(c[s \ {pick(s)}], f[pick(s)])
  BY <1>5 DEF SumsBySet
<1>7. \A s \in SUBSET K : g[s] = IF s = {} THEN base ELSE Plus(g[s \ {pick(s)}], f[pick(s)])
  BY <1>4 DEF SumsBySet
<1> DEFINE H == {n \in 0..Cardinality(K) : \A s \in SUBSET K : Cardinality(s) = n => c[s] = g[s]}
<1>8. \A s \in SUBSET K : IsFiniteSet(s) /\ Cardinality(s) \in 0..Cardinality(K) /\ Cardinality(K) \in Nat
                         /\ (Cardinality(s) = 0 => s = {})
  BY FS_Subset, FS_CardinalityType, FS_EmptySet
<1>9. 0 \in H
  BY <1>6, <1>7, <1>8
<1>10. ASSUME NEW n \in 1..Cardinality(K), n - 1 \in H
       PROVE  n \in H
  <2> SUFFICES ASSUME NEW s \in SUBSET K, Cardinality(s) = n
               PROVE  c[s] = g[s]
    OBVIOUS
  <2>1. s # {}
    BY <1>8, FS_EmptySet
  <2>2. pick(s) \in s
    BY <2>1
  <2> HIDE DEF pick
  <2>3. s \ {pick(s)} \in SUBSET K /\ Cardinality(s \ {pick(s)}) = n - 1
    BY <1>8, <2>2, FS_RemoveElement
  <2>4. c[s \ {pick(s)}] = g[s \ {pick(s)}]
    BY <1>10, <2>3
  <2> QED
    BY <1>6, <1>7, <2>1, <2>4
<1>11. H = 0..Cardinality(K)
  <2>1. H \in SUBSET (0..Cardinality(K)) /\ Cardinality(K) \in Nat
    BY <1>8
  <2> HIDE DEF H
  <2> QED
    BY <1>9, <1>10, <2>1, Upwards
<1>12. c[K] = g[K]
  <2>1. Cardinality(K) \in 0..Cardinality(K)
    BY <1>8
  <2> QED
    BY <1>11, <2>1
<1>13. g[K] = Sum(K)
  BY DEF g
<1> QED
  BY <1>12, <1>13, SumsChosen DEF c, Sum, F


-----------------------------------------------------------------------------
(* The tree of the deck list.                                               *)

LEMMA FiniteDecks ==
  ASSUME CollectionOK
  PROVE  IsFiniteSet(decks) /\ \A K \in SUBSET decks : IsFiniteSet(K)
<1>1. IsFiniteSet(Decks)
  BY DeckNames, FiniteRange DEF Decks
<1> QED
  BY <1>1, FS_Subset DEF CollectionOK

(* The deck list has all decks, under those whose names they extend.        *)
LEMMA ListIsWhole ==
  ASSUME CollectionOK, HaveParents
  PROVE  DOMAIN ListTree = decks /\ \A e \in decks : ListTree[e] = {a \in decks : WithUnder(a, e)}
<1>0. decks \in SUBSET Decks /\ \A x \in decks : Level(x) \in Nat /\ Level(x) > 0 /\ Place[x] \in Nat
  BY NameType DEF CollectionOK
<1>1. ASSUME NEW e \in decks, NEW n \in 1..Level(e)
      PROVE  \E a \in Line(decks, e) : WithUnder(a, e) /\ Level(a) = n
  BY <1>0, <1>1, AncestorAt, AboveIsOnLine
<1>2. ASSUME NEW e \in decks, NEW f \in Line(decks, e)
      PROVE  f \in decks /\ Level(f) \in 1..Level(e)
  <2>1. f \in decks /\ Place[f] <= Place[e]
    BY <1>2 DEF Line
  <2>2. CASE Place[f] = Place[e]
    BY <1>0, <2>1, <2>2, PlaceIsItsOwn
  <2>3. CASE Place[f] < Place[e]
    BY <1>0, <1>2, <2>1, <2>3 DEF Line
  <2> QED
    BY <1>0, <2>1, <2>2, <2>3
<1>3. ASSUME NEW e \in decks
      PROVE  {Level(a) : a \in Line(decks, e)} = 1..Level(e)
  <2>1. \A n \in 1..Level(e) : \E a \in Line(decks, e) : Level(a) = n
    BY <1>1
  <2>2. \A a \in Line(decks, e) : Level(a) \in 1..Level(e)
    BY <1>2
  <2> QED
    BY <2>1, <2>2
<1>4. DOMAIN ListTree = decks /\ \A e \in decks : ListTree[e] = Line(decks, e)
  BY <1>3 DEF ListTree, Tree
<1>5. ASSUME NEW e \in decks, NEW a \in Line(decks, e)
      PROVE  WithUnder(a, e)
  <2>1. PICK b \in Line(decks, e) : WithUnder(b, e) /\ Level(b) = Level(a)
    BY <1>1, <1>2
  <2>2. a \in decks /\ b \in decks /\ Place[a] <= Place[e] /\ Place[b] <= Place[e]
    BY <1>5 DEF Line
  <2>3. ~(Place[a] < Place[b]) /\ ~(Place[b] < Place[a])
    BY <1>0, <1>5, <2>1, <2>2 DEF Line
  <2>4. a = b
    BY <1>0, <2>2, <2>3, PlaceIsItsOwn
  <2> QED
    BY <2>1, <2>4
<1>6. ASSUME NEW e \in decks
      PROVE  ListTree[e] = {a \in decks : WithUnder(a, e)}
  <2>1. \A a \in Line(decks, e) : a \in decks /\ WithUnder(a, e)
    BY <1>2, <1>5
  <2>2. \A a \in decks : WithUnder(a, e) => a \in Line(decks, e)
    BY <1>0, AboveIsOnLine
  <2>3. Line(decks, e) = {a \in decks : WithUnder(a, e)}
    BY <2>1, <2>2
  <2> QED
    BY <1>4, <2>3
<1> QED
  BY <1>4, <1>6

LEMMA KidsAre ==
  ASSUME CollectionOK, HaveParents, NEW d \in decks
  PROVE  /\ Kids(d) \in SUBSET decks /\ IsFiniteSet(Kids(d))
         /\ \A e \in decks : e \in Kids(d) <=> WithUnder(d, e) /\ Level(e) = Level(d) + 1
         /\ \A e \in Kids(d) : Place[d] < Place[e]
<1>1. Kids(d) \in SUBSET decks /\ \A e \in decks : e \in Kids(d) <=> WithUnder(d, e) /\ Level(e) = Level(d) + 1
  BY ListIsWhole DEF Kids
<1>2. ASSUME NEW e \in Kids(d)
      PROVE  Place[d] < Place[e]
  <2>1. /\ d \in Decks /\ e \in Decks /\ Place[d] <= Place[e] /\ Level(d) # Level(e)
        /\ Place[d] \in Nat /\ Place[e] \in Nat
    BY <1>1, NameType, DeckNames DEF CollectionOK
  <2> QED
    BY <2>1, PlaceIsItsOwn
<1> QED
  BY <1>1, <1>2, FiniteDecks

(* What holds of a deck if it holds of those directly under it holds of all.*)
LEMMA LeavesFirst ==
  ASSUME CollectionOK, HaveParents, NEW S, \A d \in decks : Kids(d) \subseteq S => d \in S
  PROVE  decks \subseteq S
<1> DEFINE M == {Len(NameOrder) - Place[d] : d \in decks \ S}
<1>1. \A d \in decks : Len(NameOrder) - Place[d] \in Nat /\ Place[d] \in Nat /\ Len(NameOrder) \in Nat
  <2> SUFFICES ASSUME NEW d \in decks PROVE Len(NameOrder) - Place[d] \in Nat /\ Place[d] \in Nat /\ Len(NameOrder) \in Nat
    OBVIOUS
  <2>1. \E i \in DOMAIN NameOrder : NameOrder[i] = d
    BY DEF CollectionOK, Decks, ToSet
  <2>2. Place[d] \in DOMAIN NameOrder
    BY <2>1 DEF Place, CollectionOK
  <2> QED
    BY <2>2, DeckNames
<1>2. CASE M = {}
  BY <1>2
<1>3. CASE M # {}
  <2>1. M \in SUBSET Nat
    BY <1>1
  <2>2. PICK m \in M : \A n \in M : m <= n
    <3> HIDE DEF M
    <3> QED
      BY <1>3, <2>1, LeastNumber
  <2>3. PICK d \in decks \ S : m = Len(NameOrder) - Place[d]
    BY <2>2
  <2>4. PICK e \in Kids(d) : e \notin S
    BY <2>3
  <2>5. e \in decks /\ Place[d] < Place[e]
    BY <2>3, KidsAre
  <2>6. Len(NameOrder) - Place[e] \in M
    BY <2>4, <2>5
  <2>7. m <= Len(NameOrder) - Place[e]
    <3> HIDE DEF M
    <3> QED
      BY <2>2, <2>6
  <2>8. Place[d] \in Nat /\ Place[e] \in Nat /\ Len(NameOrder) \in Nat
    BY <1>1, <2>3, <2>5
  <2>9. FALSE
    BY <2>3, <2>5, <2>7, <2>8
  <2> QED
    BY <2>9
<1> QED
  BY <1>2, <1>3

(* Cards under a deck are in it, or under one directly under it.            *)
LEMMA CardsUnder ==
  ASSUME CollectionOK, HaveParents, NEW d \in decks, NEW C, IsFiniteSet(C), NEW g,
         \A e \in Kids(d) : g[e] = Cardinality({c \in C : card[c].deck \in Under(e)})
  PROVE  Cardinality({c \in C : card[c].deck \in Under(d)})
            = Cardinality({c \in C : card[c].deck = d}) + SumOver(Kids(d), g)
<1> DEFINE In(e) == {c \in C : card[c].deck \in Under(e)}
           B == [e \in Kids(d) |-> In(e)]
           own == {c \in C : card[c].deck = d}
           below == UNION {B[e] : e \in Kids(d)}
<1>0. /\ d \in Decks /\ decks \subseteq Decks /\ Kids(d) \in SUBSET decks /\ IsFiniteSet(Kids(d))
      /\ \A e \in decks : e \in Kids(d) <=> WithUnder(d, e) /\ Level(e) = Level(d) + 1
      /\ \A e \in decks : Level(e) \in Nat /\ Level(e) > 0
  BY KidsAre, NameType DEF CollectionOK
<1>1. \A e : IsFiniteSet(In(e))
  <2> SUFFICES ASSUME NEW e PROVE IsFiniteSet(In(e))
    OBVIOUS
  <2>1. In(e) \in SUBSET C
    OBVIOUS
  <2> HIDE DEF In
  <2> QED
    BY <2>1, FS_Subset
<1>2. \A e \in Kids(d) : IsFiniteSet(B[e]) /\ g[e] = Cardinality(B[e])
  <2> SUFFICES ASSUME NEW e \in Kids(d) PROVE IsFiniteSet(B[e]) /\ g[e] = Cardinality(B[e])
    OBVIOUS
  <2>1. g[e] = Cardinality(B[e]) /\ B[e] \in SUBSET C
    OBVIOUS
  <2> HIDE DEF B, In
  <2> QED
    BY <2>1, FS_Subset
<1>3. \A e, f \in Kids(d) : e # f => B[e] \cap B[f] = {}
  <2> SUFFICES ASSUME NEW e \in Kids(d), NEW f \in Kids(d), NEW c \in B[e], c \in B[f]
               PROVE  e = f
    OBVIOUS
  <2> DEFINE x == card[c].deck
  <2>1. x \in decks /\ WithUnder(e, x) /\ WithUnder(f, x)
    BY DEF Under
  <2>2. e \in Decks /\ f \in Decks /\ x \in Decks /\ Level(e) = Level(f) /\ Level(e) <= Level(f)
    BY <1>0, <2>1
  <2>3. WithUnder(e, f)
    BY <2>1, <2>2, UnderIsOrder
  <2> QED
    BY <2>2, <2>3, SameLevelUnder
<1>4. In(d) = own \cup below
  <2>1. ASSUME NEW c \in In(d), card[c].deck # d
        PROVE  \E e \in Kids(d) : c \in B[e]
    <3> DEFINE x == card[c].deck
    <3>1. x \in decks /\ WithUnder(d, x) /\ c \in C
      BY DEF Under
    <3>2. Level(d) <= Level(x) /\ Level(d) # Level(x)
      BY <1>0, <2>1, <3>1, UnderIsOrder, SameLevelUnder
    <3>3. Level(d) + 1 \in 1..Level(x)
      BY <1>0, <3>1, <3>2
    <3>4. PICK e \in decks : WithUnder(e, x) /\ Level(e) = Level(d) + 1
      BY <3>1, <3>3, AncestorAt
    <3>5. WithUnder(d, e)
      <4>1. Level(d) <= Level(e)
        BY <1>0, <3>4
      <4> QED
        BY <1>0, <3>1, <3>4, <4>1, UnderIsOrder
    <3>6. e \in Kids(d) /\ x \in Under(e)
      BY <1>0, <3>1, <3>4, <3>5 DEF Under
    <3> QED
      BY <3>1, <3>6
  <2>2. ASSUME NEW e \in Kids(d), NEW c \in B[e]
        PROVE  c \in In(d)
    <3>1. c \in C /\ card[c].deck \in decks /\ WithUnder(e, card[c].deck) /\ WithUnder(d, e)
      BY <1>0 DEF Under
    <3> QED
      BY <1>0, <3>1, UnderIsOrder DEF Under
  <2>3. own \subseteq In(d)
    BY <1>0, UnderIsOrder DEF Under
  <2>4. \A c \in In(d) : c \in own \/ c \in below
    BY <2>1
  <2>5. \A c \in below : c \in In(d)
    BY <2>2
  <2> HIDE DEF below, In
  <2> QED
    BY <2>3, <2>4, <2>5
<1>5. own \cap below = {}
  <2> SUFFICES ASSUME NEW e \in Kids(d), NEW c \in B[e], card[c].deck = d
               PROVE  FALSE
    OBVIOUS
  <2>1. WithUnder(e, d) /\ e \in Decks
    BY <1>0 DEF Under
  <2>2. Level(e) <= Level(d)
    BY <1>0, <2>1, UnderIsOrder
  <2> QED
    BY <1>0, <2>2
<1>6. IsFiniteSet(own)
  <2>1. own \in SUBSET C
    OBVIOUS
  <2> HIDE DEF own
  <2> QED
    BY <2>1, FS_Subset
<1> HIDE DEF B, own, In
<1>7. IsFiniteSet(below) /\ Cardinality(below) = SumOver(Kids(d), g)
  BY <1>0, <1>2, <1>3, SumOfSets
<1> HIDE DEF below
<1> DEFINE all == own \cup below
<1>8. Cardinality(all) = Cardinality(own) + Cardinality(below) - Cardinality(own \cap below)
  BY <1>6, <1>7, FS_Union
<1>9. Cardinality(own \cap below) = 0 /\ Cardinality(own) \in Nat /\ Cardinality(below) \in Nat /\ In(d) = all
  BY <1>4, <1>5, <1>6, <1>7, FS_EmptySet, FS_CardinalityType
<1> HIDE DEF all
<1>10. Cardinality(In(d)) = Cardinality(own) + SumOver(Kids(d), g)
  BY <1>7, <1>8, <1>9
<1> QED
  BY <1>10 DEF In, own


-----------------------------------------------------------------------------
(* The numbers of a deck, from those directly under it.                     *)

CountNames == {"learn", "daylearn", "review", "new"}

LEMMA CountsAreFunctions ==
  /\ Counts = [CountNames -> Nat]
  /\ \A n \in Counts : /\ n.learn = n["learn"] /\ n.daylearn = n["daylearn"]
                       /\ n.review = n["review"] /\ n.new = n["new"]
<1>1. ASSUME NEW n \in Counts PROVE n \in [CountNames -> Nat]
  BY DEF Counts, CountNames
<1>2. ASSUME NEW n \in [CountNames -> Nat] PROVE n \in Counts
  <2>1. n = [learn |-> n["learn"], daylearn |-> n["daylearn"], review |-> n["review"], new |-> n["new"]]
    BY DEF CountNames
  <2>2. n["learn"] \in Nat /\ n["daylearn"] \in Nat /\ n["review"] \in Nat /\ n["new"] \in Nat
    BY DEF CountNames
  <2> QED
    BY <2>1, <2>2 DEF Counts
<1> QED
  BY <1>1, <1>2

LEMMA SmallerType ==
  ASSUME NEW x \in Nat, NEW y \in Nat
  PROVE  Smaller(x, y) \in Nat /\ Smaller(x, y) <= x /\ Smaller(x, y) <= y
BY DEF Smaller

LEMMA CappedIs ==
  ASSUME NEW n \in Counts, NEW l \in Limits
  PROVE  LET m == Capped(n, l)
         IN  /\ m \in Counts
             /\ m.learn = n.learn /\ m.daylearn = Smaller(n.daylearn, l.review)
             /\ m.review = Smaller(n.review, l.review - m.daylearn)
             /\ m.new = IF l.cap THEN Smaller(Smaller(n.new, l.new), l.review - m.daylearn - m.review)
                        ELSE Smaller(n.new, l.new)
<1> DEFINE daylearn == Smaller(n.daylearn, l.review)
           review == Smaller(n.review, l.review - daylearn)
           most == Smaller(n.new, l.new)
           new == IF l.cap THEN Smaller(most, l.review - daylearn - review) ELSE most
<1>1. /\ n.daylearn \in Nat /\ n.review \in Nat /\ n.new \in Nat /\ n.learn \in Nat
      /\ l.review \in Nat /\ l.new \in Nat
  BY DEF Counts, Limits
<1>2. daylearn \in Nat /\ l.review - daylearn \in Nat
  BY <1>1 DEF Smaller
<1>3. Capped(n, l) = [n EXCEPT !.daylearn = daylearn, !.review = review, !.new = new]
  BY DEF Capped
<1> HIDE DEF daylearn
<1>4. review \in Nat /\ l.review - daylearn - review \in Nat
  BY <1>1, <1>2 DEF Smaller
<1> HIDE DEF review
<1>5. most \in Nat
  BY <1>1 DEF Smaller
<1> HIDE DEF most
<1>6. new \in Nat
  BY <1>4, <1>5 DEF Smaller
<1> HIDE DEF new
<1>7. /\ Capped(n, l) \in Counts /\ Capped(n, l).learn = n.learn /\ Capped(n, l).daylearn = daylearn
      /\ Capped(n, l).review = review /\ Capped(n, l).new = new
  BY <1>2, <1>3, <1>4, <1>6 DEF Counts
<1> QED
  BY <1>7 DEF daylearn, review, most, new

LEMMA ListLimitsType ==
  ASSUME CollectionOK, HaveParents, NEW d \in decks
  PROVE  ListLimits(d) \in Limits /\ ListLimits(d).cap = RemainingLimits(d).cap
<1>1. d \in Decks /\ decks \subseteq Decks
  BY DEF CollectionOK
<1>2. RemainingLimits(d) \in Limits
  BY <1>1, RemainingType
<1>3. CASE option.all_parents
  <2> DEFINE ms == {RemainingLimits(a) : a \in ListTree[d]}
  <2>1. ms \in SUBSET Limits
    BY <1>1, ListIsWhole, RemainingType
  <2>2. ListLimits(d) = CapTo(RemainingLimits(d), ms)
    BY <1>3, ListIsWhole DEF ListLimits, BuiltLimits
  <2> HIDE DEF ms
  <2> QED
    BY <1>2, <2>1, <2>2, CapToMin
<1>4. CASE ~option.all_parents
  BY <1>2, <1>4 DEF ListLimits
<1> QED
  BY <1>3, <1>4

LEMMA FiniteCards == \A C \in SUBSET Cards : IsFiniteSet(C)
BY PoolIsFinite, FS_Subset, ExamParameters

LEMMA OwnType ==
  ASSUME NEW d
  PROVE  Own(d) \in Counts
<1>1. \A kind : {c \in Cards : card[c].deck = d /\ card[c].queue = kind} \in SUBSET Cards
  OBVIOUS
<1>2. \A kind : DueIn(d, kind) \in Nat
  BY <1>1, FiniteCards, FS_CardinalityType DEF DueIn
<1> QED
  BY <1>2 DEF Own, Counts

Of(f, d, kind) == [e \in Kids(d) |-> f[e][kind]]
Uncapped(f, d) == [kind \in CountNames |-> Own(d)[kind] + SumOver(Kids(d), Of(f, d, kind))]

LEMMA SumsOfKids ==
  ASSUME CollectionOK, HaveParents, NEW d \in decks, NEW f, \A e \in Kids(d) : f[e] \in Counts
  PROVE  /\ Sums(f, Own(d), Kids(d)) = Uncapped(f, d) /\ Uncapped(f, d) \in Counts
         /\ Capped(Uncapped(f, d), ListLimits(d)) \in Counts
<1>1. Own(d) \in [CountNames -> Nat] /\ \A e \in Kids(d) : f[e] \in [CountNames -> Nat]
  BY OwnType, CountsAreFunctions
<1>2. IsFiniteSet(Kids(d))
  BY KidsAre
<1>3. Sums(f, Own(d), Kids(d)) = [kind \in CountNames |-> Own(d)[kind] + SumOver(Kids(d), [e \in Kids(d) |-> f[e][kind]])]
  BY <1>1, <1>2, SumsAre
<1>4. Sums(f, Own(d), Kids(d)) = Uncapped(f, d)
  BY <1>3, Zenon DEF Uncapped, Of
<1>5. \A kind \in CountNames : SumOver(Kids(d), Of(f, d, kind)) \in Nat
  <2> SUFFICES ASSUME NEW kind \in CountNames
               PROVE  SumOver(Kids(d), Of(f, d, kind)) \in Nat
    OBVIOUS
  <2>1. \A e \in Kids(d) : Of(f, d, kind)[e] \in Nat
    BY <1>1 DEF Of
  <2> QED
    BY <1>2, <2>1, SumType
<1>6. Uncapped(f, d) \in Counts
  <2>1. Uncapped(f, d) \in [CountNames -> Nat]
    BY <1>1, <1>5 DEF Uncapped
  <2> QED
    BY <2>1, CountsAreFunctions
<1> QED
  BY <1>4, <1>6, CappedIs, ListLimitsType

Shown(f, d) == Capped(Sums(f, Own(d), Kids(d)), ListLimits(d))

LEMMA ShownSame ==
  ASSUME CollectionOK, HaveParents, NEW d \in decks, NEW f, NEW g,
         \A e \in Kids(d) : f[e] \in Counts /\ g[e] = f[e]
  PROVE  Shown(f, d) = Shown(g, d) /\ Shown(f, d) \in Counts
<1>1. \A kind : Of(f, d, kind) = Of(g, d, kind)
  BY DEF Of
<1>2. Uncapped(f, d) = Uncapped(g, d)
  BY <1>1 DEF Uncapped
<1>3. \A e \in Kids(d) : g[e] \in Counts
  OBVIOUS
<1>4. Sums(f, Own(d), Kids(d)) = Uncapped(f, d) /\ Capped(Uncapped(f, d), ListLimits(d)) \in Counts
  BY SumsOfKids
<1>5. Sums(g, Own(d), Kids(d)) = Uncapped(g, d)
  BY <1>3, SumsOfKids
<1> QED
  BY <1>2, <1>4, <1>5, Zenon DEF Shown

(* There is such a function: from the last deck to the first, which is      *)
(* before those under it.                                                   *)
LEMMA CountsExist ==
  ASSUME CollectionOK, HaveParents
  PROVE  \E f : Counted(f)
<1> DEFINE n == Len(NameOrder)
           Right(f, k) == \A d \in decks : Place[d] > n - k => f[d] = Shown(f, d)
           H == {k \in 0..n : \E f \in [decks -> Counts] : Right(f, k)}
<1>0. n \in Nat /\ \A d \in decks : Place[d] \in 1..n
  <2> SUFFICES ASSUME NEW d \in decks PROVE Place[d] \in 1..n
    BY DeckNames
  <2>1. \E i \in DOMAIN NameOrder : NameOrder[i] = d
    BY DEF CollectionOK, Decks, ToSet
  <2>2. Place[d] \in DOMAIN NameOrder
    BY <2>1 DEF Place, CollectionOK
  <2> QED
    BY <2>2, DeckNames
<1>1. 0 \in H
  <2> DEFINE f == [d \in decks |-> Own(d)]
  <2>1. f \in [decks -> Counts]
    BY OwnType
  <2>2. Right(f, 0)
    BY <1>0
  <2> HIDE DEF f, Right
  <2> QED
    BY <1>0, <2>1, <2>2
<1>2. ASSUME NEW k \in 1..n, k - 1 \in H
      PROVE  k \in H
  <2>1. PICK f \in [decks -> Counts] : Right(f, k - 1)
    BY <1>2
  <2> DEFINE g == [d \in decks |-> IF Place[d] = n - k + 1 THEN Shown(f, d) ELSE f[d]]
  <2>2. \A d \in decks : Shown(f, d) \in Counts
    <3> SUFFICES ASSUME NEW d \in decks PROVE Shown(f, d) \in Counts
      OBVIOUS
    <3>1. \A e \in Kids(d) : f[e] \in Counts /\ f[e] = f[e]
      BY KidsAre
    <3> QED
      BY <3>1, ShownSame
  <2>3. g \in [decks -> Counts]
    BY <2>2
  <2>4. ASSUME NEW d \in decks, Place[d] > n - k
        PROVE  g[d] = Shown(g, d)
    <3>1. \A e \in Kids(d) : f[e] \in Counts /\ g[e] = f[e]
      <4> SUFFICES ASSUME NEW e \in Kids(d) PROVE f[e] \in Counts /\ g[e] = f[e]
        OBVIOUS
      <4>1. e \in decks /\ Place[d] < Place[e]
        BY KidsAre
      <4>2. Place[e] # n - k + 1
        BY <1>0, <2>4, <4>1
      <4> QED
        BY <4>1, <4>2
    <3>2. Shown(f, d) = Shown(g, d)
      <4> HIDE DEF g
      <4> QED
        BY <3>1, ShownSame
    <3>3. CASE Place[d] = n - k + 1
      BY <3>2, <3>3
    <3>4. CASE Place[d] # n - k + 1
      <4>1. Place[d] > n - (k - 1)
        BY <1>0, <2>4, <3>4
      <4>2. f[d] = Shown(f, d)
        BY <2>1, <4>1
      <4> QED
        BY <3>2, <3>4, <4>2
    <3> QED
      BY <3>3, <3>4
  <2>5. Right(g, k)
    BY <2>4
  <2> HIDE DEF g, Right
  <2> QED
    BY <2>3, <2>5
<1>3. n \in H
  <2>1. H \in SUBSET (0..n)
    OBVIOUS
  <2> HIDE DEF H
  <2>2. H = 0..n
    BY <1>0, <1>1, <1>2, <2>1, Upwards
  <2> QED
    BY <1>0, <2>2
<1>4. PICK f \in [decks -> Counts] : Right(f, n)
  BY <1>3
<1>5. \A d \in decks : f[d] = Shown(f, d)
  BY <1>0, <1>4
<1>6. DOMAIN ListTree = decks
  BY ListIsWhole
<1>7. Counted(f)
  BY <1>5, <1>6 DEF Counted, Shown
<1> QED
  BY <1>7

(* The deck list has for each deck its own cards and those of the decks     *)
(* directly under it, capped.                                               *)
LEMMA ListCountsAre ==
  ASSUME CollectionOK, HaveParents, NEW d \in decks
  PROVE  /\ ListCounts[d] \in Counts /\ Uncapped(ListCounts, d) \in Counts
         /\ ListCounts[d] = Capped(Uncapped(ListCounts, d), ListLimits(d))
<1>1. Counted(ListCounts)
  BY CountsExist, CountsChosen
<1>2. \A e \in decks : ListCounts[e] = Shown(ListCounts, e)
  <2>1. DOMAIN ListTree = decks
    BY ListIsWhole
  <2> QED
    BY <1>1, <2>1 DEF Counted, Shown
<1> DEFINE S == {e \in decks : ListCounts[e] \in Counts}
<1>3. ASSUME NEW e \in decks, Kids(e) \subseteq S
      PROVE  e \in S
  <2>1. \A x \in Kids(e) : ListCounts[x] \in Counts
    BY <1>3
  <2>2. Capped(Uncapped(ListCounts, e), ListLimits(e)) \in Counts /\ Sums(ListCounts, Own(e), Kids(e)) = Uncapped(ListCounts, e)
    BY <2>1, SumsOfKids
  <2>3. ListCounts[e] \in Counts
    BY <1>2, <2>2 DEF Shown
  <2> QED
    BY <2>3
<1>4. decks \subseteq S
  <2> HIDE DEF S
  <2> QED
    BY <1>3, LeavesFirst
<1>5. \A x \in Kids(d) : ListCounts[x] \in Counts
  BY <1>4, KidsAre
<1>6. Uncapped(ListCounts, d) \in Counts /\ Sums(ListCounts, Own(d), Kids(d)) = Uncapped(ListCounts, d)
  BY <1>5, SumsOfKids
<1>7. ListCounts[d] = Capped(Uncapped(ListCounts, d), ListLimits(d))
  BY <1>2, <1>6 DEF Shown
<1> QED
  BY <1>4, <1>6, <1>7


-----------------------------------------------------------------------------
(* Two numbers by deck, one capped from above and one from below.           *)

(* In each studied deck g is p and what g is directly under it, which is    *)
(* at most m; y is o and what y is directly under it, but no more than m.   *)
Flow(g, y, p, o, m) ==
    /\ g \in [decks -> Nat] /\ y \in [decks -> Nat]
    /\ \A d \in Active :
         /\ p[d] \in Nat /\ o[d] \in Nat /\ m[d] \in Nat
         /\ p[d] <= o[d] /\ g[d] <= m[d]
         /\ g[d] = p[d] + SumOver(Kids(d), g)
         /\ y[d] = Smaller(o[d] + SumOver(Kids(d), y), m[d])

Full(g, m, d) == d \in Active /\ g[d] >= m[d]

(* If p is o but under decks where g is all of m, g is y but below these.   *)
LEMMA FlowAgrees ==
  ASSUME CollectionOK, HaveParents, root \in decks, NEW g, NEW y, NEW p, NEW o, NEW m, Flow(g, y, p, o, m),
         \A d \in Active : p[d] # o[d] => \E a : Full(g, m, a) /\ WithUnder(a, d)
  PROVE  \A d \in Active : g[d] <= y[d] /\ (g[d] # y[d] => \E a : Full(g, m, a) /\ WithUnder(a, d) /\ a # d)
<1> DEFINE P(d) == g[d] <= y[d] /\ (g[d] # y[d] => \E a : Full(g, m, a) /\ WithUnder(a, d) /\ a # d)
           S == {d \in decks : d \in Active => P(d)}
<1>1. ASSUME NEW d \in decks, Kids(d) \subseteq S, d \in Active
      PROVE  P(d)
  <2> DEFINE K == Kids(d)
             G == SumOver(K, g)
             Y == SumOver(K, y)
  <2>1. /\ p[d] \in Nat /\ o[d] \in Nat /\ m[d] \in Nat /\ p[d] <= o[d] /\ g[d] <= m[d]
        /\ g[d] = p[d] + G /\ y[d] = Smaller(o[d] + Y, m[d])
    BY <1>1 DEF Flow
  <2>2. /\ decks \subseteq Decks /\ K \in SUBSET decks /\ IsFiniteSet(K) /\ root \in Decks
        /\ \A e \in K : WithUnder(d, e) /\ Level(e) = Level(d) + 1 /\ Level(d) \in Nat /\ e \in Decks
    BY KidsAre, NameType DEF CollectionOK
  <2>3. K \subseteq Active
    BY <1>1, <2>2, UnderIsOrder DEF Active, Under
  <2>4. \A e \in K : P(e) /\ g[e] \in Nat /\ y[e] \in Nat
    BY <1>1, <2>2, <2>3 DEF Flow
  <2>5. G \in Nat /\ Y \in Nat
    BY <2>2, <2>4, SumType
  <2>6. G <= Y
    BY <2>2, <2>4, SumLess
  <2> HIDE DEF K, G, Y
  <2>7. g[d] <= y[d] /\ y[d] <= m[d] /\ (p[d] = o[d] /\ G = Y => g[d] = y[d])
    BY <2>1, <2>5, <2>6 DEF Smaller
  <2>8. ASSUME g[d] # y[d], \A a : Full(g, m, a) /\ WithUnder(a, d) => a = d
        PROVE  FALSE
    <3>1. g[d] \in Nat /\ y[d] \in Nat
      BY <1>1 DEF Flow
    <3>2. ~Full(g, m, d)
      BY <2>1, <2>7, <2>8, <3>1 DEF Full
    <3>3. \A a : Full(g, m, a) => ~WithUnder(a, d)
      BY <2>8, <3>2
    <3>4. p[d] = o[d]
      BY <1>1, <3>3
    <3>5. ASSUME NEW e \in K
          PROVE  g[e] = y[e]
      <4>1. ASSUME NEW a, Full(g, m, a), WithUnder(a, e), a # e
            PROVE  FALSE
        <5>1. a \in decks /\ a \in Decks /\ e \in Decks /\ d \in Decks
          BY <1>1, <2>2, <4>1 DEF Full, Active, Under
        <5>2. Level(a) <= Level(e) /\ Level(a) # Level(e) /\ Level(a) \in Nat
          BY <4>1, <5>1, UnderIsOrder, SameLevelUnder, NameType
        <5>3. Level(a) <= Level(d)
          BY <2>2, <5>2
        <5>4. WithUnder(a, d)
          BY <2>2, <4>1, <5>1, <5>3, UnderIsOrder
        <5> QED
          BY <3>3, <4>1, <5>4
      <4> QED
        BY <2>4, <4>1
    <3>6. G = Y
      BY <3>5, SumSame DEF G, Y
    <3> QED
      BY <2>7, <2>8, <3>4, <3>6
  <2> QED
    BY <2>7, <2>8
<1>2. \A d \in decks : Kids(d) \subseteq S => d \in S
  BY <1>1
<1>3. decks \subseteq S
  <2> HIDE DEF S
  <2> QED
    BY <1>2, LeavesFirst
<1>4. Active \subseteq decks
  BY DEF Active, Under
<1> QED
  BY <1>3, <1>4

LEMMA FlowAtRoot ==
  ASSUME CollectionOK, HaveParents, root \in decks, NEW g, NEW y, NEW p, NEW o, NEW m, Flow(g, y, p, o, m),
         \A d \in Active : p[d] # o[d] => \E a : Full(g, m, a) /\ WithUnder(a, d)
  PROVE  g[root] = y[root]
<1>1. root \in Active /\ root \in Decks
  BY UnderIsOrder DEF Active, Under, CollectionOK
<1>2. ASSUME NEW a, Full(g, m, a), WithUnder(a, root)
      PROVE  a = root
  <2>1. a \in Decks /\ WithUnder(root, a)
    BY <1>2 DEF Full, Active, Under, CollectionOK
  <2>2. Level(a) = Level(root)
    BY <1>1, <1>2, <2>1, UnderIsOrder, NameType
  <2> QED
    BY <1>1, <1>2, <2>1, <2>2, SameLevelUnder
<1>3. g[root] # y[root] => \E a : Full(g, m, a) /\ WithUnder(a, root) /\ a # root
  BY <1>1, FlowAgrees
<1> QED
  BY <1>2, <1>3


-----------------------------------------------------------------------------
(* What was gathered when, and what was left out for it.                    *)

(* How many cards that were learned on an earlier day were gathered.        *)
DaysOf(d) == Cardinality(GatheredIn(d, {"DayLearn"}))

NoneBury == \A d \in decks : BuriedBy(d) = {}

InDecks == \A c \in Cards : card[c].home \in decks

OnceEach ==
    \A kind \in Kinds \cup {"Learn"} :
        \A i, j \in 1..Len(gathered[kind]) : gathered[kind][i] = gathered[kind][j] => i = j

LearnOut ==
    phase # Idle => \A c \in Cards \ ToSet(gathered["Learn"]) :
        card[c].queue = "Learn" /\ card[c].deck \in Active => c \in unvisited /\ phase = "Learn"

(* Unlike UsedUp, without the reviews that were gathered later.             *)
DayLearnOut ==
    phase \in {"Review", "New", "Mix", "Built"} /\ HaveParents /\ FilteredAreLeaves /\ NoneBury =>
        \A c \in Cards \ ToSet(gathered["DayLearn"]) :
            card[c].queue = "DayLearn" /\ card[c].deck \in Active =>
                \E a \in {Top} \cup tree[card[c].deck] : DaysOf(a) >= RemainingLimits(a).review

CountInv == InDecks /\ OnceEach /\ LearnOut /\ DayLearnOut

LEMMA InitCountInv ==
  ASSUME ExamInit
  PROVE  CountInv
<1>1. phase = Idle /\ phase \notin {"Review", "New", "Mix", "Built"}
  BY BuilderParameters DEF ExamInit, BuilderInit, Kinds
<1>2. \A kind \in Kinds \cup {"Learn"} : gathered[kind] = <<>>
  BY DEF ExamInit, BuilderInit, NothingGathered
<1>3. OnceEach
  BY <1>2 DEF OnceEach
<1>4. InDecks
  BY DEF ExamInit, BuilderInit, InDecks
<1> QED
  BY <1>1, <1>3, <1>4 DEF CountInv, LearnOut, DayLearnOut

(* As soon as the cards learned on an earlier day are done.                 *)
DaysDone == phase = "Review" /\ gathered["Review"] = <<>>

LEMMA DayLearnEnds == BuilderInv /\ RightInv /\ InDecks /\ DaysDone => DayLearnOut
<1> SUFFICES ASSUME BuilderInv, RightInv, InDecks, DaysDone,
                    HaveParents, FilteredAreLeaves, NoneBury,
                    NEW c \in Cards \ ToSet(gathered["DayLearn"]),
                    card[c].queue = "DayLearn", card[c].deck \in Active
             PROVE  \E a \in {Top} \cup tree[card[c].deck] : DaysOf(a) >= RemainingLimits(a).review
  BY DEF DayLearnOut
<1>1. phase = "Review" /\ phase \notin {Idle, "Failed"} /\ NotYet = {"New"}
  BY BuilderParameters DEF NotYet, Kinds, DaysDone
<1>2. LeftOutOK /\ GatheredOK
  BY <1>1 DEF RightInv, BuilderInv
<1>3. c \notin ToSet(Queued)
  BY <1>2, QueuedCards DEF GatheredOK
<1>4. RightlyLeftOut(c)
  BY <1>1, <1>2, <1>3 DEF LeftOutOK
<1>5. ~\E s \in Cards : s \notin unvisited /\ Buries(s, c)
  BY DEF Buries, NoneBury, InDecks
<1>6. PICK a \in {Top} \cup tree[card[c].deck] : UsedUp(a, "DayLearn")
  BY <1>4, <1>5 DEF RightlyLeftOut
<1>7. ReviewsOf(a) >= RemainingLimits(a).review
  BY <1>6 DEF UsedUp
<1>8. GatheredIn(a, {"DayLearn", "Review"}) = GatheredIn(a, {"DayLearn"})
  <2>1. ToSet(gathered["Review"]) = {}
    <3>1. ToSet(<<>>) = {}
      BY DEF ToSet
    <3> QED
      BY <3>1, Zenon DEF DaysDone
  <2>2. \A x : x \in GatheredIn(a, {"DayLearn", "Review"}) <=> x \in GatheredIn(a, {"DayLearn"})
    BY <2>1, GatheredMembers
  <2> QED
    BY <2>2 DEF GatheredIn
<1>9. ReviewsOf(a) = DaysOf(a)
  BY <1>8, Zenon DEF ReviewsOf, DaysOf
<1> QED
  BY <1>6, <1>7, <1>9

LEMMA GatherOnce ==
  ASSUME GatheredOK, OnceEach, NEW c \in Waiting(phase), phase \in Kinds \cup {"Learn"}, Gather(c)
  PROVE  OnceEach'
<1>1. c \in unvisited /\ c \in Cards /\ card[c].queue = phase
  BY DEF Waiting, GatheredOK
<1>2. /\ \A k \in Kinds \cup {"Learn"} : k # phase => gathered'[k] = gathered[k]
      /\ gathered'[phase] = Append(gathered[phase], c)
  BY <1>1 DEF Gather, GatheredOK
<1> SUFFICES ASSUME NEW kind \in Kinds \cup {"Learn"},
                    NEW i \in 1..Len(gathered'[kind]), NEW j \in 1..Len(gathered'[kind]),
                    gathered'[kind][i] = gathered'[kind][j]
             PROVE  i = j
  BY DEF OnceEach
<1>3. CASE kind # phase
  BY <1>2, <1>3 DEF OnceEach
<1>4. CASE kind = phase
  <2> DEFINE s == gathered[phase]
  <2>1. s \in Seq(Cards) /\ c \notin ToSet(s)
    BY <1>1 DEF GatheredOK
  <2>2. \A x, y \in 1..Len(s) : s[x] = s[y] => x = y
    BY DEF OnceEach
  <2>3. gathered'[kind] = Append(s, c)
    BY <1>2, <1>4
  <2> HIDE DEF s
  <2>4. \A x \in 1..Len(s) : s[x] # c
    BY <2>1 DEF ToSet
  <2> QED
    BY <1>1, <2>1, <2>2, <2>3, <2>4
<1> QED
  BY <1>3, <1>4

(* What a step does to what was gathered.                                   *)
CardGathered ==
    /\ phase \in Kinds \cup {"Learn"}
    /\ \E c \in Waiting(phase) : Gather(c) /\ unvisited' = unvisited \ {c}
    /\ UNCHANGED <<collection, root, tree, phase>>

NoneGathered ==
    /\ \A kind \in Kinds \cup {"Learn"} : gathered'[kind] = gathered[kind]
    /\ UNCHANGED collection
    /\ \/ phase = Idle /\ phase' \in {Idle, "Learn"} /\ unvisited' = unvisited
       \/ UNCHANGED <<root, tree, phase>> /\ (phase = "Learn" => unvisited' = unvisited)
       \/ UNCHANGED <<root, tree>> /\ phase \notin {Idle, "Learn"} /\ phase' \in {"Failed", "Ordered"}
       \/ UNCHANGED <<root, tree, unvisited>> /\ phase = "Learn" /\ phase' = "DayLearn" /\ Waiting("Learn") = {}
       \/ UNCHANGED <<root, tree>> /\ phase = "DayLearn" /\ phase' = "Review"
       \/ UNCHANGED <<root, tree>> /\ phase \in {"Review", "New", "Mix"} /\ phase' \in {"New", "Mix", "Built"}

LEMMA StepGathers ==
  ASSUME BuilderInv, [ExamNext]_<<queue_vars, exam_vars>>
  PROVE  CardGathered \/ NoneGathered
<1>1. CASE UNCHANGED queue_vars
  BY <1>1 DEF NoneGathered, queue_vars, collection
<1>2. CASE OrderCards
  BY <1>2, BuilderParameters DEF NoneGathered, OrderCards
<1>3. ASSUME NEW d \in Decks, Start(d)
      PROVE  NoneGathered
  BY <1>3 DEF NoneGathered, Start
<1>4. CASE GatherIntraday
  BY <1>4 DEF CardGathered, GatherIntraday
<1>5. CASE GatherLimited
  BY <1>5, BuilderParameters DEF CardGathered, NoneGathered, GatherLimited, Consider, Skip, Kinds
<1>6. CASE FailOnUnknownDeck
  BY <1>6, BuilderParameters DEF NoneGathered, FailOnUnknownDeck, UnknownDeck, Skip, Kinds
<1>7. CASE NextPhase
  <2>1. /\ phase \in {"Learn", "DayLearn", "Review", "New"} /\ phase' = PhaseAfter[phase]
        /\ UNCHANGED <<collection, root, tree, gathered, unvisited>>
        /\ Waiting(phase) = {} \/ phase # "Learn"
    BY <1>7 DEF NextPhase, PhaseAfter, Kinds, Skip
  <2>2. /\ phase = "Learn" => phase' = "DayLearn"
        /\ phase = "DayLearn" => phase' = "Review"
        /\ phase = "Review" => phase' = "New"
        /\ phase = "New" => phase' = "Mix"
    BY <2>1 DEF PhaseAfter, Kinds
  <2> QED
    BY <2>1, <2>2 DEF NoneGathered
<1>8. CASE Build
  BY <1>8 DEF Build, NoneGathered, Kinds
<1> QED
  BY <1>1, <1>2, <1>3, <1>4, <1>5, <1>6, <1>7, <1>8
  DEF ExamNext, BuilderNext, TakeTurn, GetQueuedCards

LEMMA GatheredFrame ==
  ASSUME NEW kind, gathered'[kind] = gathered[kind], UNCHANGED <<decks, card>>
  PROVE  /\ ToSet(gathered[kind])' = ToSet(gathered[kind])
         /\ \A d : GatheredIn(d, {kind})' = GatheredIn(d, {kind})
<1>1. ToSet(gathered[kind])' = ToSet(gathered[kind])
  BY DEF ToSet
<1>2. ASSUME NEW d
      PROVE  GatheredIn(d, {kind})' = GatheredIn(d, {kind})
  <2>1. Under(d)' = Under(d)
    BY DEF Under
  <2>2. {ToSet(gathered[k])' : k \in {kind}} = {ToSet(gathered[k]) : k \in {kind}}
    BY <1>1
  <2> QED
    BY <2>1, <2>2 DEF GatheredIn
<1> QED
  BY <1>1, <1>2

LEMMA DayLearnFrame ==
  ASSUME UNCHANGED <<collection, root, tree>>, gathered'["DayLearn"] = gathered["DayLearn"],
         phase \in {"Review", "New", "Mix", "Built"}, DayLearnOut
  PROVE  DayLearnOut'
<1>1. card' = card /\ decks' = decks /\ tree' = tree /\ config' = config
  BY DEF collection
<1>2. /\ Active' = Active /\ Top' = Top /\ (HaveParents' <=> HaveParents)
      /\ (FilteredAreLeaves' <=> FilteredAreLeaves) /\ (NoneBury' <=> NoneBury)
  BY FrameOfNames, FrameOfCollection
  DEF Active, Top, Under, collection, Listed, TopOf, ParentDecks, Above, NoneBury, BuriedBy
<1>3. ToSet(gathered["DayLearn"])' = ToSet(gathered["DayLearn"])
  BY <1>1, GatheredFrame
<1>4. ASSUME NEW a
      PROVE  DaysOf(a)' = DaysOf(a) /\ RemainingLimits(a)' = RemainingLimits(a)
  <2>1. GatheredIn(a, {"DayLearn"})' = GatheredIn(a, {"DayLearn"})
    BY <1>1, GatheredFrame
  <2> QED
    BY <2>1, FrameOfCollection DEF DaysOf
<1> QED
  BY <1>1, <1>2, <1>3, <1>4 DEF DayLearnOut

LEMMA StepCountInv ==
  ASSUME BuilderInv, RightInv, CountInv, [ExamNext]_<<queue_vars, exam_vars>>
  PROVE  CountInv'
<1>0. UNCHANGED collection /\ (CardGathered \/ NoneGathered)
  BY StepGathers DEF CardGathered, NoneGathered
<1>1. BuilderInv' /\ RightInv'
  BY ExamStepInv, ExamStepRightInv
<1>2. InDecks'
  BY <1>0 DEF collection, CountInv, InDecks
<1>3. /\ CollectionOK /\ GatheredOK /\ GatheredOK' /\ card' = card /\ decks' = decks /\ Idle # "Learn"
  BY <1>0, <1>1, BuilderParameters DEF BuilderInv, collection
<1>4. UNCHANGED root => Active' = Active /\ Top' = Top
  BY <1>0, FrameOfCollection DEF Active, Top, Under, collection, Listed, TopOf, ParentDecks, Above
<1>5. ASSUME CardGathered
      PROVE  OnceEach' /\ LearnOut' /\ DayLearnOut'
  <2>1. PICK c \in Waiting(phase) : Gather(c) /\ unvisited' = unvisited \ {c}
    BY <1>5 DEF CardGathered
  <2>2. phase \in Kinds \cup {"Learn"} /\ UNCHANGED <<root, tree, phase>>
    BY <1>5 DEF CardGathered
  <2>3. c \in Cards /\ card[c].queue = phase
    BY <1>3 DEF Waiting, GatheredOK
  <2>4. \A k \in Kinds \cup {"Learn"} : k # phase => gathered'[k] = gathered[k]
    BY <1>3, <2>1, <2>3 DEF Gather, GatheredOK
  <2>5. OnceEach'
    BY <1>3, <2>1, <2>2, GatherOnce DEF CountInv
  <2>6. LearnOut'
    <3> SUFFICES ASSUME NEW x \in Cards, x \notin ToSet(gathered["Learn"])', phase # Idle,
                        card[x].queue = "Learn", card[x].deck \in Active
                 PROVE  x \in unvisited \ {c} /\ phase = "Learn"
      BY <1>3, <1>4, <2>1, <2>2 DEF LearnOut
    <3>1. CASE phase = "Learn"
      <4>1. gathered["Learn"] \in Seq(Cards) /\ gathered'["Learn"] = Append(gathered["Learn"], c)
        BY <1>3, <2>1, <2>3, <3>1 DEF Gather, GatheredOK
      <4>2. ToSet(gathered["Learn"])' = ToSet(gathered["Learn"]) \cup {c}
        BY <2>3, <4>1, RangeOfAppend DEF ToSet
      <4> QED
        BY <3>1, <4>2 DEF CountInv, LearnOut
    <3>2. CASE phase # "Learn"
      <4>1. ToSet(gathered["Learn"])' = ToSet(gathered["Learn"])
        BY <2>4, <3>2 DEF ToSet
      <4> QED
        BY <3>2, <4>1 DEF CountInv, LearnOut
    <3> QED
      BY <3>1, <3>2
  <2>7. phase \in {"Learn", "DayLearn"} => DayLearnOut'
    BY <2>2 DEF DayLearnOut
  <2>8. phase # "DayLearn" => gathered'["DayLearn"] = gathered["DayLearn"]
    BY <2>4 DEF Kinds
  <2>9. phase \in {"Review", "New"} /\ DayLearnOut => DayLearnOut'
    BY <1>0, <2>2, <2>8, DayLearnFrame
  <2> QED
    BY <2>2, <2>5, <2>6, <2>7, <2>9 DEF CountInv, Kinds
<1>6. ASSUME NoneGathered
      PROVE  OnceEach' /\ LearnOut' /\ DayLearnOut'
  <2>1. \A kind \in Kinds \cup {"Learn"} : gathered'[kind] = gathered[kind]
    BY <1>6 DEF NoneGathered
  <2>2. OnceEach'
    BY <2>1 DEF CountInv, OnceEach
  <2>3. LearnOut'
    <3>1. ToSet(gathered["Learn"])' = ToSet(gathered["Learn"])
      BY <2>1 DEF ToSet
    <3>2. phase = Idle => unvisited = Cards
      BY DEF RightInv
    <3> SUFFICES ASSUME NEW x \in Cards, x \notin ToSet(gathered["Learn"]), phase' # Idle,
                        card[x].queue = "Learn", card[x].deck \in Active'
                 PROVE  x \in unvisited' /\ phase' = "Learn"
      BY <1>3, <3>1 DEF LearnOut
    <3>3. CASE phase = Idle
      BY <1>3, <1>6, <3>2, <3>3, BuilderParameters, ExamParameters DEF NoneGathered, Kinds
    <3>4. CASE phase # Idle
      <4>1. UNCHANGED root /\ card[x].deck \in Active
        BY <1>4, <1>6, <3>4 DEF NoneGathered
      <4>2. x \in unvisited /\ phase = "Learn"
        BY <3>4, <4>1 DEF CountInv, LearnOut
      <4>3. x \in Waiting("Learn")
        BY <4>1, <4>2 DEF Waiting
      <4> QED
        BY <1>6, <4>2, <4>3, BuilderParameters DEF NoneGathered
    <3> QED
      BY <3>3, <3>4
  <2>4. DayLearnOut'
    <3>1. CASE phase = "DayLearn" /\ phase' = "Review"
      <4>1. gathered'["Review"] = <<>>
        BY <1>3, <2>1, <3>1, BuilderParameters DEF GatheredOK, NotYet, Kinds
      <4>2. DaysDone'
        BY <3>1, <4>1 DEF DaysDone
      <4> QED
        BY <1>1, <1>2, <4>2, DayLearnEnds, PTL
    <3>2. CASE phase' \notin {"Review", "New", "Mix", "Built"}
      BY <3>2 DEF DayLearnOut
    <3>3. CASE phase \in {"Review", "New", "Mix", "Built"} /\ UNCHANGED <<root, tree>>
      <4>1. gathered'["DayLearn"] = gathered["DayLearn"] /\ DayLearnOut
        BY <2>1 DEF Kinds, CountInv
      <4> QED
        BY <1>0, <1>3, <1>4, <3>3, <4>1, DayLearnFrame
    <3> QED
      BY <1>6, <3>1, <3>2, <3>3, BuilderParameters DEF NoneGathered, Kinds
  <2> QED
    BY <2>2, <2>3, <2>4
<1> QED
  BY <1>0, <1>2, <1>5, <1>6 DEF CountInv


-----------------------------------------------------------------------------
(* The limits of the deck list and those of the queue.                      *)

(* The limits of the deck list are the least of those of some deck above.   *)
LEMMA ListLimitsAre ==
  ASSUME CollectionOK, HaveParents, NEW d \in decks
  PROVE  /\ ListLimits(d) \in Limits /\ ListLimits(d).cap = RemainingLimits(d).cap
         /\ \A a \in decks : WithUnder(a, d) /\ (option.all_parents \/ a = d) =>
               /\ ListLimits(d).review <= RemainingLimits(a).review
               /\ ListLimits(d).new <= RemainingLimits(a).new
         /\ \E a \in decks : /\ WithUnder(a, d) /\ (option.all_parents \/ a = d)
                             /\ ListLimits(d).review = RemainingLimits(a).review
         /\ \E a \in decks : /\ WithUnder(a, d) /\ (option.all_parents \/ a = d)
                             /\ ListLimits(d).new = RemainingLimits(a).new
<1>1. d \in Decks /\ decks \subseteq Decks /\ WithUnder(d, d)
  BY UnderIsOrder DEF CollectionOK
<1>2. \A a \in decks : RemainingLimits(a) \in Limits
  BY <1>1, RemainingType
<1>3. ListLimits(d) \in Limits /\ ListLimits(d).cap = RemainingLimits(d).cap
  BY ListLimitsType
<1>4. CASE option.all_parents
  <2> DEFINE ms == {RemainingLimits(a) : a \in ListTree[d]}
  <2>1. ListTree[d] = {a \in decks : WithUnder(a, d)} /\ d \in DOMAIN ListTree
    BY ListIsWhole
  <2>2. ms \in SUBSET Limits
    BY <1>2, <2>1
  <2>3. ListLimits(d) = CapTo(RemainingLimits(d), ms)
    BY <1>4, <2>1 DEF ListLimits, BuiltLimits
  <2>4. \A a \in decks : WithUnder(a, d) => RemainingLimits(a) \in ms
    BY <2>1
  <2>5. \A m \in ms : \E a \in decks : WithUnder(a, d) /\ m = RemainingLimits(a)
    BY <2>1
  <2> HIDE DEF ms
  <2>6. /\ \A m \in ms : ListLimits(d).review <= m.review /\ ListLimits(d).new <= m.new
        /\ ListLimits(d).review = RemainingLimits(d).review \/ \E m \in ms : ListLimits(d).review = m.review
        /\ ListLimits(d).new = RemainingLimits(d).new \/ \E m \in ms : ListLimits(d).new = m.new
    BY <1>2, <2>2, <2>3, CapToMin
  <2> QED
    BY <1>1, <1>3, <1>4, <2>4, <2>5, <2>6
<1>5. CASE ~option.all_parents
  <2>1. ListLimits(d) = RemainingLimits(d)
    BY <1>5 DEF ListLimits
  <2> QED
    BY <1>1, <1>2, <1>3, <1>5, <2>1 DEF Limits
<1> QED
  BY <1>4, <1>5

AtEnd ==
    /\ BuilderInv /\ RightInv /\ CountInv /\ phase = "Built"
    /\ HaveParents /\ FilteredAreLeaves /\ ListAllowsForParents /\ NoneBury

LEMMA EndFacts ==
  ASSUME AtEnd
  PROVE  /\ CollectionOK /\ GatheredOK /\ TreeOK /\ LimitsOK /\ LeftOutOK /\ HaveParents /\ FilteredAreLeaves
         /\ WithinLimits /\ phase # Idle /\ NotYet = {}
         /\ root \in decks /\ root \in Active /\ Active \subseteq decks /\ decks \subseteq Decks
         /\ Active \subseteq Listed(root) /\ DOMAIN tree = Listed(root) /\ Listed(root) \subseteq decks
         /\ Top \in Listed(root)
         /\ \A d \in Listed(root) : \A a \in {Top} \cup tree[d] : a \in Listed(root) /\ WithUnder(a, d)
         /\ \A d \in Listed(root) : \A a \in Listed(root) : WithUnder(a, d) => a \in tree[d]
<1>1. phase \notin {Idle, "Failed"} /\ NotYet = {}
  BY BuilderParameters DEF AtEnd, NotYet, Kinds
<1>2. /\ CollectionOK /\ GatheredOK /\ TreeOK /\ LimitsOK /\ LeftOutOK /\ HaveParents /\ FilteredAreLeaves
      /\ WithinLimits
  BY <1>1, LimitsHold DEF AtEnd, BuilderInv, RightInv
<1>3. root \in decks /\ decks \subseteq Decks /\ Active \subseteq decks
  BY <1>2 DEF TreeOK, CollectionOK, Active, Under
<1>4. root \in Active
  BY <1>3, UnderIsOrder DEF Active, Under
<1>5. Active \subseteq Listed(root) /\ DOMAIN tree = Listed(root) /\ Listed(root) \subseteq decks
  BY <1>2, WholeTree, ListedType DEF Active, Listed
<1>6. Top \in Listed(root) /\ \A d \in Listed(root) : WithUnder(Top, d)
  BY <1>2, <1>3, TopIsAbove DEF Top
<1>7. \A d \in Listed(root) : \A a \in tree[d] : a \in Listed(root) /\ WithUnder(a, d)
  BY <1>2, <1>5, WholeTree, TreeFacts
<1>8. \A d \in Listed(root) : \A a \in Listed(root) : WithUnder(a, d) => a \in tree[d]
  BY <1>2, <1>5, TreeFacts
<1> QED
  BY <1>1, <1>2, <1>3, <1>4, <1>5, <1>6, <1>7, <1>8

(* With the limits of all parents, the decks above are listed, too.         *)
LEMMA ParentsListed ==
  ASSUME AtEnd, NEW d \in Active, NEW a \in decks, WithUnder(a, d), option.all_parents \/ a = d
  PROVE  a \in Listed(root) /\ a \in tree[d]
<1>1. /\ root \in Decks /\ d \in Decks /\ a \in Decks /\ d \in Listed(root) /\ WithUnder(root, d)
      /\ CollectionOK /\ HaveParents /\ root \in decks
  BY EndFacts DEF Active, Under
<1>2. Level(root) \in Nat /\ Level(a) \in Nat /\ Level(a) > 0
  BY <1>1, NameType
<1>3. CASE Level(root) <= Level(a) \/ a = d
  <2>1. WithUnder(root, a)
    BY <1>1, <1>3, UnderIsOrder
  <2>2. a \in Listed(root)
    BY <2>1 DEF Listed, Under
  <2> QED
    BY <1>1, <2>2, EndFacts
<1>4. CASE ~(Level(root) <= Level(a)) /\ a # d
  <2>1. WithUnder(a, root)
    BY <1>1, <1>2, <1>4, UnderIsOrder
  <2>2. Name[a] # Name[root]
    BY <1>2, <1>4 DEF Level
  <2>3. \A m \in Level(a)..Level(root) : \E x \in decks : Name[x] = SubSeq(Name[root], 1, m)
    BY <1>1, <1>2, ParentsAreThere
  <2>4. a \in ParentDecks(root)
    BY <2>1, <2>2, <2>3 DEF ParentDecks, Above, IsStrictPrefix, WithUnder
  <2>5. a \in Listed(root)
    BY <1>4, <2>4 DEF Listed
  <2> QED
    BY <1>1, <2>5, EndFacts
<1> QED
  BY <1>3, <1>4

LEMMA LessBelow ==
  ASSUME AtEnd, NEW d \in decks, NEW a \in decks, WithUnder(a, d)
  PROVE  /\ ReviewsOf(d) \in Nat /\ NewOf(d) \in Nat /\ ReviewsOf(a) \in Nat /\ NewOf(a) \in Nat
         /\ ReviewsOf(d) <= ReviewsOf(a) /\ NewOf(d) <= NewOf(a)
<1>1. GatheredOK /\ decks \subseteq Decks
  BY EndFacts
<1>2. /\ \A x \in {a, d} : /\ IsFiniteSet(GatheredIn(x, {"DayLearn", "Review"})) /\ IsFiniteSet(GatheredIn(x, {"New"}))
                           /\ ReviewsOf(x) \in Nat /\ NewOf(x) \in Nat
  BY <1>1, GatheredFinite
<1>3. Under(d) \subseteq Under(a)
  BY <1>1, UnderIsOrder DEF Under
<1>4. \A K : GatheredIn(d, K) \subseteq GatheredIn(a, K)
  BY <1>3 DEF GatheredIn
<1>5. ReviewsOf(d) <= ReviewsOf(a)
  BY <1>2, <1>4, FS_Subset DEF ReviewsOf
<1>6. NewOf(d) <= NewOf(a)
  BY <1>2, <1>4, FS_Subset DEF NewOf
<1> QED
  BY <1>2, <1>5, <1>6

(* A queue has no more cards of a deck than the deck list allows.           *)
LEMMA WithinListLimits ==
  ASSUME AtEnd, NEW d \in Active
  PROVE  LET l == ListLimits(d)
         IN  /\ l \in Limits /\ ReviewsOf(d) \in Nat /\ NewOf(d) \in Nat
             /\ ReviewsOf(d) <= l.review /\ NewOf(d) <= l.new
             /\ l.cap => ReviewsOf(d) + NewOf(d) <= l.review
<1> DEFINE l == ListLimits(d)
<1>1. /\ CollectionOK /\ HaveParents /\ d \in decks /\ d \in Listed(root) /\ Listed(root) \subseteq decks
      /\ decks \subseteq Decks /\ WithinLimits /\ phase # Idle
  BY EndFacts
<1>2. \A a \in Listed(root) :
        /\ RemainingLimits(a) \in Limits
        /\ ReviewsOf(a) <= RemainingLimits(a).review /\ NewOf(a) <= RemainingLimits(a).new
        /\ RemainingLimits(a).cap => ReviewsOf(a) + NewOf(a) <= RemainingLimits(a).review
  BY <1>1, RemainingType DEF WithinLimits
<1>3. l \in Limits /\ l.cap = RemainingLimits(d).cap
  BY <1>1, ListLimitsType
<1>4. ASSUME NEW a \in decks, WithUnder(a, d), option.all_parents \/ a = d
      PROVE  /\ a \in Listed(root)
             /\ ReviewsOf(d) \in Nat /\ NewOf(d) \in Nat /\ ReviewsOf(a) \in Nat /\ NewOf(a) \in Nat
             /\ ReviewsOf(d) <= ReviewsOf(a) /\ NewOf(d) <= NewOf(a)
             /\ RemainingLimits(d).cap => RemainingLimits(a).cap
  <2>1. a \in Listed(root) /\ a \in tree[d] /\ d \in DOMAIN tree
    BY <1>1, <1>4, ParentsListed, EndFacts
  <2>2. RemainingLimits(d).cap => RemainingLimits(a).cap
    BY <2>1, CapFromAbove, EndFacts
  <2> QED
    BY <1>1, <1>4, <2>1, <2>2, LessBelow
<1>5. PICK a \in decks : /\ WithUnder(a, d) /\ (option.all_parents \/ a = d)
                         /\ l.review = RemainingLimits(a).review
  BY <1>1, ListLimitsAre
<1>6. PICK b \in decks : /\ WithUnder(b, d) /\ (option.all_parents \/ b = d)
                         /\ l.new = RemainingLimits(b).new
  BY <1>1, ListLimitsAre
<1>7. /\ ReviewsOf(d) \in Nat /\ NewOf(d) \in Nat /\ ReviewsOf(d) <= l.review
      /\ l.cap => ReviewsOf(d) + NewOf(d) <= l.review
  <2>1. RemainingLimits(a).review \in Nat
    BY <1>2, <1>4, <1>5 DEF Limits
  <2> HIDE DEF l
  <2> QED
    BY <1>2, <1>3, <1>4, <1>5, <2>1
<1>8. NewOf(d) <= l.new
  <2>1. RemainingLimits(b).new \in Nat
    BY <1>2, <1>4, <1>6 DEF Limits
  <2> HIDE DEF l
  <2> QED
    BY <1>2, <1>4, <1>6, <2>1
<1> QED
  BY <1>3, <1>7, <1>8

(* A deck above what is studied gives what the studied deck gives.          *)
LEMMA WithinStudied ==
  ASSUME AtEnd, NEW d \in Active, NEW a \in {Top} \cup tree[d]
  PROVE  \E b \in Active :
            /\ WithUnder(b, d)
            /\ \A K \in SUBSET Kinds : GatheredIn(b, K) = GatheredIn(a, K)
            /\ ListLimits(b).review <= RemainingLimits(a).review
            /\ ListLimits(b).new <= RemainingLimits(a).new
            /\ RemainingLimits(a).cap => ListLimits(b).cap
<1>1. /\ CollectionOK /\ HaveParents /\ GatheredOK /\ d \in Listed(root) /\ d \in decks /\ root \in decks
      /\ root \in Active /\ Active \subseteq decks /\ decks \subseteq Decks /\ Listed(root) \subseteq decks
  BY EndFacts
<1>2. a \in Listed(root) /\ WithUnder(a, d)
  BY <1>1, EndFacts
<1>3. a \in decks /\ a \in Decks /\ root \in Decks /\ WithUnder(a, a) /\ WithUnder(root, d)
  BY <1>1, <1>2, UnderIsOrder DEF Active, Under
<1>4. CASE a \in Active
  <2>1. /\ ListLimits(a).cap = RemainingLimits(a).cap
        /\ ListLimits(a).review <= RemainingLimits(a).review /\ ListLimits(a).new <= RemainingLimits(a).new
    BY <1>1, <1>3, ListLimitsAre
  <2> QED
    BY <1>2, <1>4, <2>1
<1>5. CASE a \notin Active
  <2>1. option.all_parents /\ a \in ParentDecks(root)
    BY <1>2, <1>5 DEF Listed, Active
  <2>2. WithUnder(a, root)
    BY <2>1 DEF ParentDecks, Above, IsStrictPrefix, WithUnder
  <2>3. /\ ListLimits(root).cap = RemainingLimits(root).cap
        /\ ListLimits(root).review <= RemainingLimits(a).review
        /\ ListLimits(root).new <= RemainingLimits(a).new
    BY <1>1, <1>3, <2>1, <2>2, ListLimitsAre
  <2>4. RemainingLimits(a).cap => RemainingLimits(root).cap
    <3>1. RemainingLimits(a).cap => ~option.ignore_review_limit
      BY <1>1, <1>3, RemainingType
    <3>2. root \in FilteredDecks => ~option.all_parents \/ option.ignore_review_limit
      BY DEF AtEnd, ListAllowsForParents
    <3> QED
      BY <1>1, <1>3, <2>1, <3>1, <3>2, RemainingType
  <2>5. ASSUME NEW K \in SUBSET Kinds
        PROVE  GatheredIn(root, K) = GatheredIn(a, K)
    <3>1. Under(root) \subseteq Under(a)
      BY <1>1, <1>3, <2>2, UnderIsOrder DEF Under
    <3>2. \A k \in K : \A c \in ToSet(gathered[k]) : card[c].deck \in Under(root)
      BY <1>1 DEF GatheredOK, Active
    <3> QED
      BY <3>1, <3>2 DEF GatheredIn
  <2> QED
    BY <1>1, <1>3, <2>3, <2>4, <2>5
<1> QED
  BY <1>4, <1>5

(* A card is left out only for limits that the deck list has, too.          *)
LEMMA LeftForLimit ==
  ASSUME AtEnd, NEW c \in Cards, NEW kind \in Kinds, c \notin ToSet(gathered[kind]),
         card[c].queue = kind, card[c].deck \in Active
  PROVE  \E b \in Active :
            /\ WithUnder(b, card[c].deck)
            /\ kind # "New" => ReviewsOf(b) >= ListLimits(b).review
            /\ kind = "New" => \/ NewOf(b) >= ListLimits(b).new
                               \/ ListLimits(b).cap /\ ReviewsOf(b) + NewOf(b) >= ListLimits(b).review
<1>1. LeftOutOK /\ GatheredOK /\ NotYet = {} /\ phase = "Built" /\ kind # "Suspended" /\ kind # phase
  BY EndFacts DEF AtEnd, Kinds
<1>2. c \notin ToSet(Queued)
  BY <1>1, QueuedCards DEF GatheredOK
<1>3. RightlyLeftOut(c)
  BY <1>1, <1>2 DEF LeftOutOK
<1>4. ~\E s \in Cards : s \notin unvisited /\ Buries(s, c)
  BY DEF Buries, AtEnd, NoneBury, CountInv, InDecks
<1>5. PICK a \in {Top} \cup tree[card[c].deck] : UsedUp(a, kind)
  BY <1>3, <1>4 DEF RightlyLeftOut
<1>6. PICK b \in Active :
        /\ WithUnder(b, card[c].deck)
        /\ \A K \in SUBSET Kinds : GatheredIn(b, K) = GatheredIn(a, K)
        /\ ListLimits(b).review <= RemainingLimits(a).review
        /\ ListLimits(b).new <= RemainingLimits(a).new
        /\ RemainingLimits(a).cap => ListLimits(b).cap
  BY <1>5, WithinStudied
<1>7. GatheredIn(b, {"DayLearn", "Review"}) = GatheredIn(a, {"DayLearn", "Review"})
  BY <1>6 DEF Kinds
<1>8. GatheredIn(b, {"New"}) = GatheredIn(a, {"New"})
  BY <1>6 DEF Kinds
<1>9. ReviewsOf(b) = ReviewsOf(a)
  BY <1>7, Zenon DEF ReviewsOf
<1>10. NewOf(b) = NewOf(a)
  BY <1>8, Zenon DEF NewOf
<1>11. ReviewsOf(b) \in Nat /\ NewOf(b) \in Nat /\ ListLimits(b) \in Limits /\ RemainingLimits(a) \in Limits
  <2>1. CollectionOK /\ card[c].deck \in Listed(root) /\ Listed(root) \subseteq Decks
    BY EndFacts
  <2>2. a \in Decks
    BY <2>1, EndFacts
  <2> QED
    BY <2>1, <2>2, WithinListLimits, RemainingType
<1>12. CASE kind # "New"
  <2>1. ReviewsOf(a) >= RemainingLimits(a).review
    BY <1>5, <1>12 DEF UsedUp
  <2>2. ReviewsOf(b) >= ListLimits(b).review
    BY <1>6, <1>9, <1>11, <2>1 DEF Limits
  <2> QED
    BY <1>6, <1>12, <2>2
<1>13. CASE kind = "New"
  <2>1. \/ NewOf(a) >= RemainingLimits(a).new
        \/ RemainingLimits(a).cap /\ ReviewsOf(a) + NewOf(a) >= RemainingLimits(a).review
    BY <1>5, <1>13 DEF UsedUp
  <2>2. \/ NewOf(b) >= ListLimits(b).new
        \/ ListLimits(b).cap /\ ReviewsOf(b) + NewOf(b) >= ListLimits(b).review
    BY <1>6, <1>9, <1>10, <1>11, <2>1 DEF Limits
  <2> QED
    BY <1>6, <1>13, <2>2
<1> QED
  BY <1>12, <1>13

LEMMA DayLearnLeft ==
  ASSUME AtEnd, NEW c \in Cards, c \notin ToSet(gathered["DayLearn"]),
         card[c].queue = "DayLearn", card[c].deck \in Active
  PROVE  \E b \in Active : WithUnder(b, card[c].deck) /\ DaysOf(b) >= ListLimits(b).review
<1>1. PICK a \in {Top} \cup tree[card[c].deck] : DaysOf(a) >= RemainingLimits(a).review
  BY DEF AtEnd, CountInv, DayLearnOut
<1>2. PICK b \in Active :
        /\ WithUnder(b, card[c].deck)
        /\ \A K \in SUBSET Kinds : GatheredIn(b, K) = GatheredIn(a, K)
        /\ ListLimits(b).review <= RemainingLimits(a).review
  BY <1>1, WithinStudied
<1>3. GatheredIn(b, {"DayLearn"}) = GatheredIn(a, {"DayLearn"})
  BY <1>2 DEF Kinds
<1>4. DaysOf(b) = DaysOf(a)
  BY <1>3, Zenon DEF DaysOf
<1>5. GatheredOK /\ CollectionOK /\ card[c].deck \in Listed(root) /\ Listed(root) \subseteq Decks
  BY EndFacts
<1>6. ListLimits(b) \in Limits /\ RemainingLimits(a) \in Limits
  BY <1>1, <1>5, EndFacts, WithinListLimits, RemainingType
<1>7. DaysOf(b) \in Nat
  <2>1. IsFiniteSet(ToSet(gathered["DayLearn"]))
    BY <1>5, FiniteRange DEF GatheredOK, Kinds
  <2>2. GatheredIn(b, {"DayLearn"}) \in SUBSET ToSet(gathered["DayLearn"])
    BY GatheredMembers
  <2> QED
    BY <2>1, <2>2, FS_Subset, FS_CardinalityType DEF DaysOf
<1>8. DaysOf(b) >= ListLimits(b).review
  BY <1>1, <1>2, <1>4, <1>6, <1>7 DEF Limits
<1> QED
  BY <1>2, <1>8


-----------------------------------------------------------------------------
(* The cards of a deck and of those under it, gathered and shown.           *)

(* By deck: the cards of a kind that were gathered from it and below, and   *)
(* those from it alone; and the due cards in it.                            *)
Below(kind) == [d \in decks |-> Cardinality({c \in ToSet(gathered[kind]) : card[c].deck \in Under(d)})]
Here(kind) == [d \in decks |-> Cardinality({c \in ToSet(gathered[kind]) : card[c].deck = d})]
DueHere(kind) == [d \in decks |-> DueIn(d, kind)]

LEMMA GatheredBelow ==
  ASSUME AtEnd, NEW kind \in Kinds \cup {"Learn"}, NEW d \in decks
  PROVE  /\ Below(kind)[d] \in Nat /\ Here(kind)[d] \in Nat /\ DueHere(kind)[d] \in Nat
         /\ Below(kind)[d] = Here(kind)[d] + SumOver(Kids(d), Below(kind))
         /\ Here(kind)[d] <= DueHere(kind)[d]
         /\ Here(kind)[d] # DueHere(kind)[d] =>
               \E c \in Cards : c \notin ToSet(gathered[kind]) /\ card[c].queue = kind /\ card[c].deck = d
<1> DEFINE C == ToSet(gathered[kind])
           here == {c \in C : card[c].deck = d}
           due == {c \in Cards : card[c].deck = d /\ card[c].queue = kind}
<1>1. CollectionOK /\ HaveParents /\ GatheredOK
  BY EndFacts
<1>2. gathered[kind] \in Seq(Cards) /\ \A c \in C : card[c].queue = kind
  BY <1>1 DEF GatheredOK
<1>3. C \subseteq Cards /\ IsFiniteSet(C)
  BY <1>2, FiniteRange DEF ToSet
<1> HIDE DEF C
<1>4. {c \in C : card[c].deck \in Under(d)} \in SUBSET C /\ here \in SUBSET C /\ due \in SUBSET Cards
  OBVIOUS
<1>5. Below(kind)[d] \in Nat
  BY <1>3, <1>4, FS_Subset, FS_CardinalityType DEF Below, C
<1>6. IsFiniteSet(here) /\ IsFiniteSet(due)
  BY <1>3, <1>4, FS_Subset, FiniteCards
<1>7. Here(kind)[d] = Cardinality(here) /\ DueHere(kind)[d] = Cardinality(due)
  BY DEF Here, DueHere, DueIn, C
<1>8. here \subseteq due
  BY <1>2, <1>3 DEF C
<1>9. /\ Cardinality(here) \in Nat /\ Cardinality(due) \in Nat /\ Cardinality(here) <= Cardinality(due)
      /\ Cardinality(here) = Cardinality(due) => here = due
  <2> HIDE DEF here, due
  <2> QED
    BY <1>6, <1>8, FS_Subset, FS_CardinalityType
<1>10. Here(kind)[d] # DueHere(kind)[d] =>
         \E c \in Cards : c \notin C /\ card[c].queue = kind /\ card[c].deck = d
  <2> SUFFICES ASSUME Here(kind)[d] # DueHere(kind)[d]
               PROVE  \E c \in Cards : c \notin C /\ card[c].queue = kind /\ card[c].deck = d
    OBVIOUS
  <2>1. here # due
    BY <1>7
  <2>2. PICK c \in due : c \notin here
    BY <1>8, <2>1
  <2> QED
    BY <2>2
<1>11. \A e \in Kids(d) : Below(kind)[e] = Cardinality({c \in C : card[c].deck \in Under(e)})
  BY <1>1, KidsAre DEF Below, C
<1>12. Cardinality({c \in C : card[c].deck \in Under(d)})
          = Cardinality({c \in C : card[c].deck = d}) + SumOver(Kids(d), Below(kind))
  BY <1>1, <1>3, <1>11, CardsUnder
<1>13. Below(kind)[d] = Here(kind)[d] + SumOver(Kids(d), Below(kind))
  BY <1>12 DEF Below, Here, C
<1> QED
  BY <1>5, <1>7, <1>9, <1>10, <1>13 DEF C

LEMMA BelowIsGathered ==
  ASSUME AtEnd, NEW d \in decks
  PROVE  /\ DaysOf(d) = Below("DayLearn")[d] /\ NewOf(d) = Below("New")[d]
         /\ ReviewsOf(d) = Below("DayLearn")[d] + Below("Review")[d]
<1> DEFINE in(kind) == {c \in ToSet(gathered[kind]) : card[c].deck \in Under(d)}
           a == in("DayLearn")
           b == in("Review")
           all == a \cup b
<1>1. GatheredOK
  BY EndFacts
<1>2. \A kind : GatheredIn(d, {kind}) = in(kind)
  BY DEF GatheredIn
<1>3. GatheredIn(d, {"DayLearn", "Review"}) = all
  BY DEF GatheredIn
<1>4. \A kind : Below(kind)[d] = Cardinality(in(kind))
  BY DEF Below
<1>5. IsFiniteSet(a) /\ IsFiniteSet(b)
  <2>1. \A kind \in Kinds : IsFiniteSet(ToSet(gathered[kind])) /\ in(kind) \in SUBSET ToSet(gathered[kind])
    BY <1>1, FiniteRange DEF GatheredOK
  <2>2. \A kind \in Kinds : IsFiniteSet(in(kind))
    BY <2>1, FS_Subset
  <2> QED
    BY <2>2 DEF Kinds
<1>6. a \cap b = {}
  BY <1>1 DEF GatheredOK, Kinds
<1>7. DaysOf(d) = Below("DayLearn")[d] /\ NewOf(d) = Below("New")[d]
  <2>1. DaysOf(d) = Cardinality(in("DayLearn"))
    BY <1>2, Zenon DEF DaysOf
  <2>2. NewOf(d) = Cardinality(in("New"))
    BY <1>2, Zenon DEF NewOf
  <2> HIDE DEF in
  <2> QED
    BY <1>4, <2>1, <2>2
<1>8. Below("DayLearn")[d] = Cardinality(a) /\ Below("Review")[d] = Cardinality(b)
  BY <1>4
<1> HIDE DEF a, b
<1>9. Cardinality(all) = Cardinality(a) + Cardinality(b) - Cardinality(a \cap b)
  BY <1>5, FS_Union
<1>10. Cardinality(a \cap b) = 0 /\ Cardinality(a) \in Nat /\ Cardinality(b) \in Nat
  BY <1>5, <1>6, FS_EmptySet, FS_CardinalityType
<1>11. ReviewsOf(d) = Cardinality(all)
  BY <1>3, Zenon DEF ReviewsOf
<1> HIDE DEF all
<1> QED
  BY <1>7, <1>8, <1>9, <1>10, <1>11

(* The queue of the studied deck has each card once.                        *)
LEMMA LengthIsBelow ==
  ASSUME AtEnd, NEW kind \in Kinds \cup {"Learn"}
  PROVE  Len(gathered[kind]) = Below(kind)[root]
<1> DEFINE s == gathered[kind]
           in == {c \in ToSet(s) : card[c].deck \in Under(root)}
<1>1. GatheredOK /\ root \in decks
  BY EndFacts
<1>2. s \in Seq(Cards) /\ (\A c \in ToSet(s) : card[c].deck \in Active)
  BY <1>1 DEF GatheredOK
<1>3. \A i, j \in 1..Len(s) : s[i] = s[j] => i = j
  BY DEF AtEnd, CountInv, OnceEach
<1>4. in = ToSet(s)
  BY <1>2 DEF Active
<1>5. Below(kind)[root] = Cardinality(in)
  BY <1>1 DEF Below
<1> HIDE DEF s, in
<1>6. Len(s) \in Nat /\ DOMAIN s = 1..Len(s)
  BY <1>2
<1>7. s \in Bijection(1..Len(s), in)
  <2>1. s \in [1..Len(s) -> in] /\ \A x \in in : \E i \in 1..Len(s) : s[i] = x
    BY <1>2, <1>4, <1>6 DEF ToSet
  <2> QED
    BY <1>3, <2>1 DEF Bijection, Injection, Surjection, IsInjective
<1>8. ExistsBijection(1..Len(s), in)
  BY <1>7 DEF ExistsBijection
<1>9. IsFiniteSet(1..Len(s)) /\ Cardinality(1..Len(s)) = Len(s)
  <2>1. ASSUME NEW n \in Nat
        PROVE  IsFiniteSet(1..n) /\ Cardinality(1..n) = n
    BY FS_Interval
  <2> QED
    BY <1>6, <2>1
<1>10. Cardinality(in) = Cardinality(1..Len(s))
  BY <1>8, <1>9, FS_Bijection
<1> QED
  BY <1>5, <1>9, <1>10 DEF s

(* A number of the deck list, by deck.                                      *)
Showing(name) == [d \in decks |-> ListCounts[d][name]]

LEMMA ListSums ==
  ASSUME AtEnd, NEW d \in decks
  PROVE  LET n == Uncapped(ListCounts, d)
             m == ListCounts[d]
             l == ListLimits(d)
         IN  /\ n \in Counts /\ m \in Counts /\ l \in Limits
             /\ n.learn = DueHere("Learn")[d] + SumOver(Kids(d), Showing("learn"))
             /\ n.daylearn = DueHere("DayLearn")[d] + SumOver(Kids(d), Showing("daylearn"))
             /\ n.review = DueHere("Review")[d] + SumOver(Kids(d), Showing("review"))
             /\ n.new = DueHere("New")[d] + SumOver(Kids(d), Showing("new"))
             /\ m.learn = n.learn /\ m.daylearn = Smaller(n.daylearn, l.review)
             /\ m.review = Smaller(n.review, l.review - m.daylearn)
             /\ m.new = IF l.cap THEN Smaller(Smaller(n.new, l.new), l.review - m.daylearn - m.review)
                        ELSE Smaller(n.new, l.new)
             /\ Showing("learn")[d] = m.learn /\ Showing("daylearn")[d] = m.daylearn
             /\ Showing("review")[d] = m.review /\ Showing("new")[d] = m.new
<1> DEFINE n == Uncapped(ListCounts, d)
           m == ListCounts[d]
           l == ListLimits(d)
<1>1. CollectionOK /\ HaveParents
  BY EndFacts
<1>2. n \in Counts /\ m \in Counts /\ m = Capped(n, l) /\ l \in Limits
  BY <1>1, ListCountsAre, ListLimitsType
<1>3. \A name \in CountNames : SumOver(Kids(d), Of(ListCounts, d, name)) = SumOver(Kids(d), Showing(name))
  <2> TAKE name \in CountNames
  <2>1. Kids(d) \subseteq decks
    BY <1>1, KidsAre
  <2>2. \A e \in Kids(d) : Of(ListCounts, d, name)[e] = Showing(name)[e]
    BY <2>1 DEF Of, Showing
  <2> QED
    BY <2>2, SumSame
<1>4. \A name \in CountNames : n[name] = Own(d)[name] + SumOver(Kids(d), Showing(name))
  BY <1>3 DEF Uncapped
<1>5. /\ Own(d)["learn"] = DueHere("Learn")[d] /\ Own(d)["daylearn"] = DueHere("DayLearn")[d]
      /\ Own(d)["review"] = DueHere("Review")[d] /\ Own(d)["new"] = DueHere("New")[d]
  BY DEF Own, DueHere
<1>6. \A name \in CountNames : Showing(name)[d] = m[name]
  BY DEF Showing
<1> HIDE DEF n, m, l
<1>7. /\ m.learn = n.learn /\ m.daylearn = Smaller(n.daylearn, l.review)
      /\ m.review = Smaller(n.review, l.review - m.daylearn)
      /\ m.new = IF l.cap THEN Smaller(Smaller(n.new, l.new), l.review - m.daylearn - m.review)
                 ELSE Smaller(n.new, l.new)
  BY <1>2, CappedIs
<1>8. \A x \in {n, m} : /\ x.learn = x["learn"] /\ x.daylearn = x["daylearn"]
                        /\ x.review = x["review"] /\ x.new = x["new"]
  BY <1>2, CountsAreFunctions
<1>9. /\ n.learn = DueHere("Learn")[d] + SumOver(Kids(d), Showing("learn"))
      /\ n.daylearn = DueHere("DayLearn")[d] + SumOver(Kids(d), Showing("daylearn"))
      /\ n.review = DueHere("Review")[d] + SumOver(Kids(d), Showing("review"))
      /\ n.new = DueHere("New")[d] + SumOver(Kids(d), Showing("new"))
  BY <1>4, <1>5, <1>8 DEF CountNames
<1>10. /\ Showing("learn")[d] = m.learn /\ Showing("daylearn")[d] = m.daylearn
       /\ Showing("review")[d] = m.review /\ Showing("new")[d] = m.new
  BY <1>6, <1>8 DEF CountNames
<1> QED
  BY <1>2, <1>7, <1>9, <1>10 DEF n, m, l

LEMMA ShowingType ==
  ASSUME AtEnd
  PROVE  /\ \A name \in CountNames : Showing(name) \in [decks -> Nat]
         /\ \A kind \in Kinds \cup {"Learn"} : Below(kind) \in [decks -> Nat]
<1>1. ASSUME NEW name \in CountNames, NEW d \in decks
      PROVE  Showing(name)[d] \in Nat
  BY ListSums, CountsAreFunctions DEF Showing
<1>2. \A name \in CountNames : Showing(name) \in [decks -> Nat]
  BY <1>1 DEF Showing
<1>3. ASSUME NEW kind \in Kinds \cup {"Learn"}, NEW d \in decks
      PROVE  Below(kind)[d] \in Nat
  BY GatheredBelow
<1>4. \A kind \in Kinds \cup {"Learn"} : Below(kind) \in [decks -> Nat]
  BY <1>3 DEF Below
<1> QED
  BY <1>2, <1>4

(* Learning cards have no limit.                                            *)
LEMMA LearnAgrees ==
  ASSUME AtEnd
  PROVE  Below("Learn")[root] = Showing("learn")[root]
<1> DEFINE g == Below("Learn")
           y == Showing("learn")
           m == [d \in decks |-> g[d] + y[d]]
<1>1. CollectionOK /\ HaveParents /\ root \in decks /\ Active \subseteq decks
  BY EndFacts
<1>2. g \in [decks -> Nat] /\ y \in [decks -> Nat]
  BY ShowingType DEF CountNames
<1>3. ASSUME NEW d \in decks
      PROVE  /\ g[d] \in Nat /\ Here("Learn")[d] \in Nat /\ DueHere("Learn")[d] \in Nat
             /\ g[d] = Here("Learn")[d] + SumOver(Kids(d), g)
             /\ Here("Learn")[d] <= DueHere("Learn")[d]
             /\ y[d] \in Nat /\ y[d] = DueHere("Learn")[d] + SumOver(Kids(d), y)
             /\ m[d] = g[d] + y[d]
  BY <1>2, GatheredBelow, ListSums
<1>4. ASSUME NEW d \in Active
      PROVE  Here("Learn")[d] = DueHere("Learn")[d]
  <2>1. ~\E c \in Cards : c \notin ToSet(gathered["Learn"]) /\ card[c].queue = "Learn" /\ card[c].deck = d
    BY EndFacts DEF AtEnd, CountInv, LearnOut
  <2> QED
    BY <1>1, <2>1, GatheredBelow
<1> HIDE DEF g, y, m
<1>5. Flow(g, y, Here("Learn"), DueHere("Learn"), m)
  BY <1>1, <1>2, <1>3 DEF Flow, Smaller
<1>6. g[root] = y[root]
  BY <1>1, <1>4, <1>5, FlowAtRoot
<1> QED
  BY <1>6 DEF g, y

MostReviews == [d \in decks |-> ListLimits(d).review]

LEMMA DayLearnAgrees ==
  ASSUME AtEnd
  PROVE  Below("DayLearn")[root] = Showing("daylearn")[root]
<1> DEFINE g == Below("DayLearn")
           y == Showing("daylearn")
           p == Here("DayLearn")
           o == DueHere("DayLearn")
           m == MostReviews
<1>1. CollectionOK /\ HaveParents /\ root \in decks /\ Active \subseteq decks
  BY EndFacts
<1>2. g \in [decks -> Nat] /\ y \in [decks -> Nat]
  BY ShowingType DEF CountNames, Kinds
<1>3. ASSUME NEW d \in Active
      PROVE  /\ g[d] \in Nat /\ p[d] \in Nat /\ o[d] \in Nat
             /\ g[d] = p[d] + SumOver(Kids(d), g) /\ p[d] <= o[d]
             /\ y[d] = Smaller(o[d] + SumOver(Kids(d), y), m[d])
             /\ m[d] \in Nat /\ g[d] <= m[d]
  <2>1. m[d] = ListLimits(d).review /\ ListLimits(d) \in Limits
    BY <1>1, ListLimitsType DEF MostReviews
  <2>2. ReviewsOf(d) = g[d] + Below("Review")[d] /\ ReviewsOf(d) <= ListLimits(d).review
    BY <1>1, BelowIsGathered, WithinListLimits
  <2>3. Below("Review")[d] \in Nat /\ g[d] \in Nat
    BY <1>1, GatheredBelow DEF Kinds
  <2>4. m[d] \in Nat /\ g[d] <= m[d]
    BY <2>1, <2>2, <2>3 DEF Limits
  <2>5. y[d] = Smaller(o[d] + SumOver(Kids(d), y), m[d])
    BY <1>1, <2>1, ListSums
  <2> QED
    BY <1>1, <2>4, <2>5, GatheredBelow DEF Kinds
<1>4. ASSUME NEW d \in Active, p[d] # o[d]
      PROVE  \E a : Full(g, m, a) /\ WithUnder(a, d)
  <2>1. PICK c \in Cards : /\ c \notin ToSet(gathered["DayLearn"]) /\ card[c].queue = "DayLearn"
                           /\ card[c].deck = d
    BY <1>1, <1>4, GatheredBelow DEF Kinds
  <2>2. PICK b \in Active : WithUnder(b, d) /\ DaysOf(b) >= ListLimits(b).review
    BY <2>1, DayLearnLeft
  <2>3. DaysOf(b) = g[b] /\ m[b] = ListLimits(b).review
    BY <1>1, BelowIsGathered DEF MostReviews
  <2> QED
    BY <2>2, <2>3 DEF Full
<1> HIDE DEF g, y, m, p, o
<1>5. Flow(g, y, p, o, m)
  BY <1>2, <1>3 DEF Flow
<1>6. g[root] = y[root]
  BY <1>1, <1>4, <1>5, FlowAtRoot
<1> QED
  BY <1>6 DEF g, y

(* Cards learned on an earlier day count as reviews.                        *)
TwoSums(f, g) == [d \in decks |-> f[d] + g[d]]

BelowReviews == TwoSums(Below("DayLearn"), Below("Review"))
HereReviews == TwoSums(Here("DayLearn"), Here("Review"))
DueReviews == TwoSums(DueHere("DayLearn"), DueHere("Review"))
ShowingReviews == TwoSums(Showing("daylearn"), Showing("review"))

LEMMA SumOfTwo ==
  ASSUME CollectionOK, HaveParents, NEW d \in decks,
         NEW f \in [decks -> Nat], NEW g \in [decks -> Nat]
  PROVE  /\ SumOver(Kids(d), TwoSums(f, g)) = SumOver(Kids(d), f) + SumOver(Kids(d), g)
         /\ SumOver(Kids(d), f) \in Nat /\ SumOver(Kids(d), g) \in Nat
<1>1. Kids(d) \in SUBSET decks /\ IsFiniteSet(Kids(d))
  BY KidsAre
<1>2. Both(Kids(d), f, g, TwoSums(f, g))
  BY <1>1 DEF Both, TwoSums
<1>3. \A e \in Kids(d) : f[e] \in Nat /\ g[e] \in Nat
  BY <1>1
<1> QED
  BY <1>1, <1>2, <1>3, SumOfBoth, SumType

(* Two numbers, the second capped by what the first leaves.                 *)
LEMMA SmallerOfTwo ==
  ASSUME NEW x \in Nat, NEW y \in Nat, NEW z \in Nat
  PROVE  Smaller(x, z) + Smaller(y, z - Smaller(x, z)) = Smaller(x + y, z)
BY DEF Smaller

LEMMA ReviewsFlow ==
  ASSUME AtEnd
  PROVE  /\ Flow(BelowReviews, ShowingReviews, HereReviews, DueReviews, MostReviews)
         /\ \A d \in Active : HereReviews[d] # DueReviews[d] =>
               \E a : Full(BelowReviews, MostReviews, a) /\ WithUnder(a, d)
<1> DEFINE g == BelowReviews
           y == ShowingReviews
           p == HereReviews
           o == DueReviews
           m == MostReviews
<1>1. CollectionOK /\ HaveParents /\ root \in decks /\ Active \subseteq decks
  BY EndFacts
<1>2. /\ Below("DayLearn") \in [decks -> Nat] /\ Below("Review") \in [decks -> Nat]
      /\ Showing("daylearn") \in [decks -> Nat] /\ Showing("review") \in [decks -> Nat]
  BY ShowingType DEF CountNames, Kinds
<1>3. g \in [decks -> Nat] /\ y \in [decks -> Nat]
  BY <1>2 DEF BelowReviews, ShowingReviews, TwoSums
<1>4. \A d \in decks : ReviewsOf(d) = g[d] /\ m[d] = ListLimits(d).review
  BY BelowIsGathered DEF BelowReviews, TwoSums, MostReviews
<1>5. ASSUME NEW d \in decks
      PROVE  /\ p[d] \in Nat /\ o[d] \in Nat /\ p[d] <= o[d]
             /\ g[d] = p[d] + SumOver(Kids(d), g)
             /\ p[d] # o[d] => \/ Here("DayLearn")[d] # DueHere("DayLearn")[d]
                               \/ Here("Review")[d] # DueHere("Review")[d]
  <2>1. /\ SumOver(Kids(d), g) = SumOver(Kids(d), Below("DayLearn")) + SumOver(Kids(d), Below("Review"))
        /\ SumOver(Kids(d), Below("DayLearn")) \in Nat /\ SumOver(Kids(d), Below("Review")) \in Nat
    BY <1>1, <1>2, SumOfTwo DEF BelowReviews
  <2>2. /\ g[d] = Below("DayLearn")[d] + Below("Review")[d]
        /\ p[d] = Here("DayLearn")[d] + Here("Review")[d]
        /\ o[d] = DueHere("DayLearn")[d] + DueHere("Review")[d]
    BY DEF BelowReviews, HereReviews, DueReviews, TwoSums
  <2> HIDE DEF g, p, o
  <2>3. \A kind \in {"DayLearn", "Review"} :
          /\ Here(kind)[d] \in Nat /\ DueHere(kind)[d] \in Nat
          /\ Below(kind)[d] = Here(kind)[d] + SumOver(Kids(d), Below(kind))
          /\ Here(kind)[d] <= DueHere(kind)[d]
    BY GatheredBelow DEF Kinds
  <2> QED
    BY <2>1, <2>2, <2>3
<1>6. ASSUME NEW d \in decks
      PROVE  y[d] = Smaller(o[d] + SumOver(Kids(d), y), m[d]) /\ m[d] \in Nat
  <2> DEFINE n == Uncapped(ListCounts, d)
             c == ListCounts[d]
             l == ListLimits(d)
  <2>1. /\ SumOver(Kids(d), y) = SumOver(Kids(d), Showing("daylearn")) + SumOver(Kids(d), Showing("review"))
        /\ SumOver(Kids(d), Showing("daylearn")) \in Nat /\ SumOver(Kids(d), Showing("review")) \in Nat
    BY <1>1, <1>2, SumOfTwo DEF ShowingReviews
  <2>2. /\ n \in Counts /\ l \in Limits
        /\ n.daylearn = DueHere("DayLearn")[d] + SumOver(Kids(d), Showing("daylearn"))
        /\ n.review = DueHere("Review")[d] + SumOver(Kids(d), Showing("review"))
        /\ c.daylearn = Smaller(n.daylearn, l.review)
        /\ c.review = Smaller(n.review, l.review - c.daylearn)
        /\ Showing("daylearn")[d] = c.daylearn /\ Showing("review")[d] = c.review
    BY ListSums
  <2>3. /\ y[d] = Showing("daylearn")[d] + Showing("review")[d]
        /\ o[d] = DueHere("DayLearn")[d] + DueHere("Review")[d]
    BY DEF ShowingReviews, DueReviews, TwoSums
  <2>4. m[d] = l.review
    BY <1>4
  <2>5. DueHere("DayLearn")[d] \in Nat /\ DueHere("Review")[d] \in Nat
    BY GatheredBelow DEF Kinds
  <2> HIDE DEF n, c, l, y, o, m
  <2>6. n.daylearn \in Nat /\ n.review \in Nat /\ l.review \in Nat
    BY <2>2 DEF Counts, Limits
  <2>7. c.daylearn + c.review = Smaller(n.daylearn + n.review, l.review)
    BY <2>2, <2>6, SmallerOfTwo
  <2>8. n.daylearn + n.review = o[d] + SumOver(Kids(d), y)
    BY <2>1, <2>2, <2>3, <2>5
  <2> QED
    BY <2>2, <2>3, <2>4, <2>6, <2>7, <2>8
<1>7. ASSUME NEW d \in Active
      PROVE  g[d] <= m[d]
  BY <1>1, <1>4, WithinListLimits
<1>8. ASSUME NEW d \in Active, p[d] # o[d]
      PROVE  \E a : Full(g, m, a) /\ WithUnder(a, d)
  <2>1. PICK kind \in {"DayLearn", "Review"} : Here(kind)[d] # DueHere(kind)[d]
    BY <1>1, <1>5, <1>8
  <2>2. PICK c \in Cards : c \notin ToSet(gathered[kind]) /\ card[c].queue = kind /\ card[c].deck = d
    BY <1>1, <2>1, GatheredBelow DEF Kinds
  <2>3. PICK b \in Active : WithUnder(b, d) /\ ReviewsOf(b) >= ListLimits(b).review
    <3>1. kind \in Kinds /\ kind # "New"
      BY <2>1 DEF Kinds
    <3> QED
      BY <2>2, <3>1, LeftForLimit
  <2> QED
    BY <1>1, <1>4, <2>3 DEF Full
<1> HIDE DEF g, y, m, p, o
<1>9. Flow(g, y, p, o, m)
  BY <1>1, <1>3, <1>5, <1>6, <1>7 DEF Flow
<1> QED
  BY <1>8, <1>9 DEF g, y, m, p, o

LEMMA ReviewsAgree ==
  ASSUME AtEnd
  PROVE  BelowReviews[root] = ShowingReviews[root]
BY EndFacts, ReviewsFlow, FlowAtRoot

(* What the reviews of the deck list leave for new cards.                   *)
MostNew ==
    [d \in decks |-> IF ListLimits(d).cap
                     THEN Smaller(ListLimits(d).new, ListLimits(d).review - ShowingReviews[d])
                     ELSE ListLimits(d).new]

LEMMA RoomForNew ==
  ASSUME AtEnd, NEW d \in Active
  PROVE  /\ ShowingReviews[d] \in Nat /\ ReviewsOf(d) <= ShowingReviews[d]
         /\ ShowingReviews[d] <= ListLimits(d).review
         /\ ListLimits(d).cap => NewOf(d) <= ListLimits(d).review - ShowingReviews[d]
<1> DEFINE g == BelowReviews
           y == ShowingReviews
           m == MostReviews
           l == ListLimits(d)
<1>1. CollectionOK /\ HaveParents /\ root \in decks /\ Active \subseteq decks /\ decks \subseteq Decks
  BY EndFacts
<1>2. \A e \in Active : ReviewsOf(e) = g[e] /\ m[e] = ListLimits(e).review
  BY <1>1, BelowIsGathered DEF BelowReviews, TwoSums, MostReviews
<1>3. Flow(g, y, HereReviews, DueReviews, m)
  BY ReviewsFlow
<1>4. g[d] <= y[d] /\ (g[d] # y[d] => \E a : Full(g, m, a) /\ WithUnder(a, d) /\ a # d)
  BY <1>1, <1>3, ReviewsFlow, FlowAgrees
<1>5. y[d] \in Nat /\ y[d] <= m[d]
  <2> HIDE DEF g, y, m
  <2>1. d \in decks /\ y \in [decks -> Nat] /\ y[d] = Smaller(DueReviews[d] + SumOver(Kids(d), y), m[d]) /\ m[d] \in Nat
    BY <1>1, <1>3 DEF Flow
  <2>2. y[d] \in Nat
    BY <2>1
  <2>3. DueReviews[d] \in Nat /\ SumOver(Kids(d), y) \in Nat
    <3>1. DueReviews[d] \in Nat
      BY <1>3 DEF Flow
    <3>2. Kids(d) \in SUBSET decks /\ IsFiniteSet(Kids(d))
      BY <1>1, KidsAre
    <3> QED
      BY <2>1, <3>1, <3>2, SumType
  <2> QED
    BY <2>1, <2>2, <2>3 DEF Smaller
<1>6. /\ l \in Limits /\ ReviewsOf(d) \in Nat /\ NewOf(d) \in Nat
      /\ l.cap => ReviewsOf(d) + NewOf(d) <= l.review
  BY WithinListLimits
<1>7. ASSUME l.cap, g[d] # y[d]
      PROVE  NewOf(d) = 0
  <2>1. PICK a : Full(g, m, a) /\ WithUnder(a, d)
    BY <1>4, <1>7
  <2>2. a \in Active /\ ReviewsOf(a) >= ListLimits(a).review
    BY <1>2, <2>1 DEF Full
  <2>3. ListLimits(a).cap
    <3>1. a \in tree[d] /\ d \in DOMAIN tree /\ TreeOK /\ FilteredAreLeaves
      BY <2>1, <2>2, EndFacts
    <3>2. RemainingLimits(a).cap
      BY <1>1, <1>7, <3>1, ListLimitsType, CapFromAbove
    <3> QED
      BY <1>1, <2>2, <3>2, ListLimitsType
  <2>4. /\ ListLimits(a) \in Limits /\ ReviewsOf(a) \in Nat /\ NewOf(a) \in Nat
        /\ ReviewsOf(a) + NewOf(a) <= ListLimits(a).review
    BY <2>2, <2>3, WithinListLimits
  <2>5. NewOf(d) <= NewOf(a)
    BY <1>1, <2>1, <2>2, LessBelow
  <2> QED
    BY <1>6, <2>2, <2>4, <2>5 DEF Limits
<1>8. ReviewsOf(d) = g[d] /\ m[d] = l.review
  BY <1>2
<1> HIDE DEF g, y, m, l
<1>9. /\ y[d] \in Nat /\ ReviewsOf(d) <= y[d] /\ y[d] <= l.review
      /\ l.cap => NewOf(d) <= l.review - y[d]
  BY <1>4, <1>5, <1>6, <1>7, <1>8 DEF Limits
<1> QED
  BY <1>9 DEF y, l

LEMMA NewAgrees ==
  ASSUME AtEnd
  PROVE  Below("New")[root] = Showing("new")[root]
<1> DEFINE g == Below("New")
           y == Showing("new")
           p == Here("New")
           o == DueHere("New")
           m == MostNew
<1>1. CollectionOK /\ HaveParents /\ root \in decks /\ Active \subseteq decks
  BY EndFacts
<1>2. g \in [decks -> Nat] /\ y \in [decks -> Nat]
  BY ShowingType DEF CountNames, Kinds
<1>3. ASSUME NEW d \in Active
      PROVE  /\ d \in decks /\ NewOf(d) = g[d] /\ ListLimits(d) \in Limits /\ ListLimits(d).new \in Nat
             /\ ShowingReviews[d] \in Nat /\ ReviewsOf(d) \in Nat /\ NewOf(d) \in Nat
             /\ ListLimits(d).review - ShowingReviews[d] \in Nat
             /\ ReviewsOf(d) <= ShowingReviews[d] /\ NewOf(d) <= ListLimits(d).new
             /\ ListLimits(d).cap => NewOf(d) <= ListLimits(d).review - ShowingReviews[d]
             /\ m[d] = IF ListLimits(d).cap
                       THEN Smaller(ListLimits(d).new, ListLimits(d).review - ShowingReviews[d])
                       ELSE ListLimits(d).new
  <2>1. d \in decks /\ NewOf(d) = g[d]
    BY <1>1, BelowIsGathered
  <2>2. /\ ListLimits(d) \in Limits /\ ReviewsOf(d) \in Nat /\ NewOf(d) \in Nat /\ NewOf(d) <= ListLimits(d).new
    BY WithinListLimits
  <2>3. /\ ShowingReviews[d] \in Nat /\ ReviewsOf(d) <= ShowingReviews[d]
        /\ ShowingReviews[d] <= ListLimits(d).review
        /\ ListLimits(d).cap => NewOf(d) <= ListLimits(d).review - ShowingReviews[d]
    BY RoomForNew
  <2>4. m[d] = IF ListLimits(d).cap
               THEN Smaller(ListLimits(d).new, ListLimits(d).review - ShowingReviews[d])
               ELSE ListLimits(d).new
    BY <2>1 DEF MostNew
  <2>5. ListLimits(d).review \in Nat /\ ListLimits(d).new \in Nat
    BY <2>2 DEF Limits
  <2>6. ListLimits(d).review - ShowingReviews[d] \in Nat
    BY <2>3, <2>5
  <2> QED
    BY <2>1, <2>2, <2>3, <2>4, <2>5, <2>6
<1>4. ASSUME NEW d \in Active
      PROVE  m[d] \in Nat /\ g[d] <= m[d]
  <2> HIDE DEF g, m
  <2> QED
    BY <1>3 DEF Smaller
<1>5. ASSUME NEW d \in Active
      PROVE  y[d] = Smaller(o[d] + SumOver(Kids(d), y), m[d])
  <2> DEFINE n == Uncapped(ListCounts, d)
             c == ListCounts[d]
             l == ListLimits(d)
             s == ShowingReviews[d]
  <2>1. /\ n \in Counts /\ c \in Counts /\ l \in Limits
        /\ n.new = o[d] + SumOver(Kids(d), y)
        /\ c.new = IF l.cap THEN Smaller(Smaller(n.new, l.new), l.review - c.daylearn - c.review)
                   ELSE Smaller(n.new, l.new)
        /\ Showing("daylearn")[d] = c.daylearn /\ Showing("review")[d] = c.review /\ y[d] = c.new
    BY <1>3, ListSums
  <2>2. s = Showing("daylearn")[d] + Showing("review")[d]
    BY <1>3 DEF ShowingReviews, TwoSums
  <2>3. l.review - s \in Nat /\ m[d] = IF l.cap THEN Smaller(l.new, l.review - s) ELSE l.new
    BY <1>3
  <2> HIDE DEF n, c, l, s, y, o, m
  <2>4. /\ n.new \in Nat /\ c.daylearn \in Nat /\ c.review \in Nat /\ l.review \in Nat /\ l.new \in Nat
    BY <2>1 DEF Counts, Limits
  <2>5. s = c.daylearn + c.review /\ l.review - c.daylearn - c.review = l.review - s
    BY <2>1, <2>2, <2>4
  <2>6. c.new = IF l.cap THEN Smaller(Smaller(n.new, l.new), l.review - s) ELSE Smaller(n.new, l.new)
    BY <2>1, <2>5
  <2>7. Smaller(Smaller(n.new, l.new), l.review - s) = Smaller(n.new, Smaller(l.new, l.review - s))
    BY <2>3, <2>4 DEF Smaller
  <2>8. c.new = Smaller(n.new, m[d])
    BY <2>3, <2>6, <2>7
  <2> QED
    BY <2>1, <2>8
<1>6. ASSUME NEW d \in Active, p[d] # o[d]
      PROVE  \E a : Full(g, m, a) /\ WithUnder(a, d)
  <2>1. PICK c \in Cards : c \notin ToSet(gathered["New"]) /\ card[c].queue = "New" /\ card[c].deck = d
    BY <1>1, <1>6, GatheredBelow DEF Kinds
  <2>2. PICK b \in Active :
          /\ WithUnder(b, d)
          /\ \/ NewOf(b) >= ListLimits(b).new
             \/ ListLimits(b).cap /\ ReviewsOf(b) + NewOf(b) >= ListLimits(b).review
    BY <2>1, LeftForLimit DEF Kinds
  <2>3. g[b] >= m[b]
    <3>1. ListLimits(b).review \in Nat
      BY <1>3 DEF Limits
    <3> HIDE DEF g, m
    <3> QED
      BY <1>3, <2>2, <3>1 DEF Smaller
  <2> QED
    BY <2>2, <2>3 DEF Full
<1>7. ASSUME NEW d \in Active
      PROVE  /\ g[d] \in Nat /\ p[d] \in Nat /\ o[d] \in Nat /\ p[d] <= o[d]
             /\ g[d] = p[d] + SumOver(Kids(d), g)
  BY <1>1, GatheredBelow DEF Kinds
<1> HIDE DEF g, y, p, o, m
<1>8. Flow(g, y, p, o, m)
  BY <1>2, <1>4, <1>5, <1>7 DEF Flow
<1>9. g[root] = y[root]
  BY <1>1, <1>6, <1>8, FlowAtRoot
<1> QED
  BY <1>9 DEF g, y

LEMMA CountsMatch ==
  ASSUME AtEnd
  PROVE  ListCounts[root] = [learn |-> Len(gathered["Learn"]), daylearn |-> Len(gathered["DayLearn"]),
                             review |-> Len(gathered["Review"]), new |-> Len(gathered["New"])]
<1> DEFINE m == ListCounts[root]
<1>1. root \in decks
  BY EndFacts
<1>2. /\ m \in Counts
      /\ Showing("learn")[root] = m.learn /\ Showing("daylearn")[root] = m.daylearn
      /\ Showing("review")[root] = m.review /\ Showing("new")[root] = m.new
  BY <1>1, ListSums
<1>3. /\ Len(gathered["Learn"]) = Below("Learn")[root] /\ Len(gathered["DayLearn"]) = Below("DayLearn")[root]
      /\ Len(gathered["Review"]) = Below("Review")[root] /\ Len(gathered["New"]) = Below("New")[root]
  BY LengthIsBelow DEF Kinds
<1>4. Below("Review")[root] = Showing("review")[root]
  <2>1. /\ BelowReviews[root] = Below("DayLearn")[root] + Below("Review")[root]
        /\ ShowingReviews[root] = Showing("daylearn")[root] + Showing("review")[root]
    BY <1>1 DEF BelowReviews, ShowingReviews, TwoSums
  <2>2. /\ Below("DayLearn")[root] \in Nat /\ Below("Review")[root] \in Nat
        /\ Showing("daylearn")[root] \in Nat /\ Showing("review")[root] \in Nat
    BY <1>1, ShowingType DEF Kinds, CountNames
  <2> QED
    BY <2>1, <2>2, DayLearnAgrees, ReviewsAgree
<1> HIDE DEF m
<1>5. /\ m.learn = Len(gathered["Learn"]) /\ m.daylearn = Len(gathered["DayLearn"])
      /\ m.review = Len(gathered["Review"]) /\ m.new = Len(gathered["New"])
  BY <1>2, <1>3, <1>4, LearnAgrees, DayLearnAgrees, NewAgrees
<1>6. m = [learn |-> m.learn, daylearn |-> m.daylearn, review |-> m.review, new |-> m.new]
  BY <1>2 DEF Counts
<1> QED
  BY <1>5, <1>6 DEF m

(* Where nothing is buried, no deck is without its parent and none is under *)
(* a filtered deck (and, if one is studied, it is not also held to limits   *)
(* of parents that count new cards as reviews), the deck list announces     *)
(* just what the queue gives: NodeCountsV3::capped going up the tree and    *)
(* the limits going down it agree, whatever the decks and their limits.     *)
THEOREM DeckListSafety == ExamSpec => []CountsMatchDeckList
<1>1. ExamInit => BuilderInv /\ RightInv /\ CountInv
  BY InitBuilderInv, InitRightInv, InitCountInv DEF ExamInit
<1>2. BuilderInv /\ RightInv /\ CountInv /\ [ExamNext]_<<queue_vars, exam_vars>>
        => BuilderInv' /\ RightInv' /\ CountInv'
  BY ExamStepInv, ExamStepRightInv, StepCountInv
<1>3. BuilderInv /\ RightInv /\ CountInv => CountsMatchDeckList
  BY CountsMatch DEF CountsMatchDeckList, AtEnd, NoneBury
<1> QED
  BY <1>1, <1>2, <1>3, PTL DEF ExamSpec

==============================================================================
