-------------------------- MODULE StudyQueueProofs --------------------------
(***************************************************************************)
(* Theorems about StudyQueue, for any number of cards and of operations:   *)
(* the counts are exact, undo gives back the queue, each operation finds   *)
(* its card, an answered card is not the next where another can be, and    *)
(* the queue stays one that a rebuild could give.                          *)
(*                                                                         *)
(* The invariant has three parts. A queue holds each card at most once and *)
(* its counts are those of its sets of entries. A step that can be undone  *)
(* or redone remembers the queue it was given to, of which its entry was   *)
(* the top. And the steps of one build form a chain: each was given to     *)
(* what the step before it left, and the queue itself lies between the     *)
(* newest step to undo and the next one to redo.                           *)
(*                                                                         *)
(* That the queue agrees with the rows of the cards needs more: so does    *)
(* the queue that each step to undo or redo gives back, with the rows that *)
(* undoing or redoing the steps up to it will have restored (MatchInv).    *)
(***************************************************************************)
EXTENDS StudyQueue, FiniteSetTheorems, SequenceTheorems, WellFoundedInduction, TLAPS

-----------------------------------------------------------------------------
(* The invariant.                                                          *)

MainKinds  == {"New", "Review", "DayLearn"}
QueueNames == MainKinds \cup {"Learn", "PreviewRepeat", "Suspended", "SchedBuried", "UserBuried"}

Rows == [queue : QueueNames, due : Nat, mtime : Nat, here : BOOLEAN, reps : Nat]

(* Rows of some of the cards, none modified after the time t.              *)
RowsBy(rows, cs, t) == rows \in [cs -> Rows] /\ \A c \in cs : rows[c].mtime <= t

MainEntries  == [id : Cards, mtime : Nat, kind : MainKinds, due : Nat, reps : Nat]
LearnEntries == [id : Cards, mtime : Nat, kind : {"Learn"}, due : 0..(Tomorrow + Ahead),
                 reps : Nat]

Counters == [new : Nat, learning : Nat, review : Nat]

QueueType == [built : Nat, counts : Counters, main : Seq(MainEntries),
              learning : Seq(LearnEntries), cutoff : Nat]

Apart(s) == \A i, j \in DOMAIN s : s[i].id = s[j].id => i = j

(* Each card is in the queue at most once.                                 *)
Shape(q) ==
    /\ q \in QueueType
    /\ Apart(q.main) /\ Apart(q.learning)
    /\ \A e \in ToSet(q.main), f \in ToSet(q.learning) : e.id # f.id

KindIn(E, kind) == {e \in E : e.kind = kind}
DueIn(E, time)  == {e \in E : e.due <= time}

NewIn(M)           == Cardinality(KindIn(M, "New"))
ReviewIn(M)        == Cardinality(KindIn(M, "Review"))
LearningIn(M, L, time) == Cardinality(KindIn(M, "DayLearn")) + Cardinality(DueIn(L, time))

MainExact(q) == q.counts.new = NewIn(ToSet(q.main)) /\ q.counts.review = ReviewIn(ToSet(q.main))

LearningExact(q) ==
    q.counts.learning = LearningIn(ToSet(q.main), ToSet(q.learning), AheadCutoff(q))

GoodQueue(q) == Shape(q) /\ MainExact(q) /\ LearningExact(q)

(* What a step of an answer left of the queue it was given to.             *)
MainAfter(step) ==
    IF step.update.entry.kind = "Learn" THEN step.was.main ELSE Tail(step.was.main)

LearningAfter(step) ==
    (ToSet(step.was.learning) \ {step.update.entry}) \cup step.update.requeue

Given(step, main, learning) == step.was.main = main /\ ToSet(step.was.learning) = learning

Left(step, main, learning) == MainAfter(step) = main /\ LearningAfter(step) = learning

Requeued(entries, c) ==
    \/ entries = {}
    \/ \E e \in entries : entries = {e} /\ e \in LearnEntries /\ e.id = c

AnswerStep(step) ==
    LET update == step.update
    IN  /\ GoodQueue(step.was)
        /\ update.built = step.was.built
        /\ update.built \in 1..builds
        /\ update.cutoff = step.was.cutoff /\ update.cutoff <= now
        /\ update.entry = Top(step.was) /\ update.entry # NoEntry
        /\ Requeued(update.requeue, update.entry.id)
        /\ update.learning = LearningIn(ToSet(MainAfter(step)), LearningAfter(step),
                                        AheadCutoff(step.was))

GoodStep(step) ==
    /\ \E cs \in SUBSET Cards : RowsBy(step.old, cs, now)
    /\ step.update.built # 0 => AnswerStep(step)

Linked(newer, older) ==
    newer.update.built # 0 /\ newer.update.built = older.update.built =>
        Given(newer, MainAfter(older), LearningAfter(older))

TypesOK ==
    /\ RowsBy(cards, Cards, now)
    /\ now \in Nat /\ now <= MaxTime /\ builds \in Nat /\ ops \in Nat
    /\ shown \in Cards \cup {NoCard}

QueueOK ==
    queues # NoQueues =>
        GoodQueue(queues) /\ queues.built \in 1..builds /\ queues.cutoff <= now

ShownOK == shown # NoCard => queues # NoQueues /\ Top(queues) # NoEntry /\ Top(queues).id = shown

IsSeq(s) == s \in Seq(ToSet(s))

StepsOK ==
    /\ IsSeq(undo_steps) /\ IsSeq(redo_steps)
    /\ \A step \in ToSet(undo_steps) \cup ToSet(redo_steps) : GoodStep(step)

Chain(undo, redo) ==
    /\ \A i \in 1..(Len(undo) - 1) : Linked(undo[i], undo[i + 1])
    /\ \A i \in 1..(Len(redo) - 1) : Linked(redo[i + 1], redo[i])
    /\ undo # <<>> /\ redo # <<>> => Linked(redo[1], undo[1])

ChainOK == Chain(undo_steps, redo_steps)

(* The queue lies between the two stacks.                                  *)
PlaceOK ==
    /\ undo_steps # <<>> /\ SameBuild(undo_steps[1]) =>
           Left(undo_steps[1], queues.main, ToSet(queues.learning))
    /\ redo_steps # <<>> /\ SameBuild(redo_steps[1]) =>
           Given(redo_steps[1], queues.main, ToSet(queues.learning))

Inv == TypesOK /\ QueueOK /\ ShownOK /\ StepsOK /\ ChainOK /\ PlaceOK

-----------------------------------------------------------------------------
(* Sequences of distinct entries and the sets of their elements.           *)

LEMMA ElementsOf ==
    ASSUME NEW S, NEW s \in Seq(S)
    PROVE  /\ ToSet(s) \subseteq S
           /\ \A e : e \in ToSet(s) <=> \E i \in 1..Len(s) : e = s[i]
           /\ DOMAIN s = 1..Len(s) /\ Len(s) \in Nat
           /\ s = <<>> <=> Len(s) = 0
BY LenProperties, EmptySeq DEF ToSet

LEMMA ConsOf ==
    ASSUME NEW S, NEW s \in Seq(S), NEW e \in S
    PROVE  /\ <<e>> \o s \in Seq(S) /\ <<e>> \o s # <<>>
           /\ Len(<<e>> \o s) = Len(s) + 1
           /\ (<<e>> \o s)[1] = e
           /\ \A i \in 1..Len(s) : (<<e>> \o s)[i + 1] = s[i]
           /\ ToSet(<<e>> \o s) = ToSet(s) \cup {e}
<1>1. <<e>> \in Seq(S) /\ Len(<<e>>) = 1 /\ <<e>>[1] = e
    OBVIOUS
<1>2. /\ <<e>> \o s \in Seq(S) /\ Len(<<e>> \o s) = Len(s) + 1 /\ Len(s) \in Nat
      /\ (<<e>> \o s)[1] = e
      /\ \A i \in 1..Len(s) : (<<e>> \o s)[i + 1] = s[i]
    BY <1>1, ConcatProperties, LenProperties
<1> DEFINE t == <<e>> \o s
<1>3. /\ t \in Seq(S) /\ Len(t) = Len(s) + 1 /\ Len(s) \in Nat
      /\ t[1] = e /\ \A i \in 1..Len(s) : t[i + 1] = s[i]
    BY <1>2
<1> HIDE DEF t
<1>4. \A f : f \in ToSet(t) <=> \E i \in 1..Len(t) : f = t[i]
    BY <1>3, ElementsOf
<1>5. \A f : f \in ToSet(s) <=> \E i \in 1..Len(s) : f = s[i]
    BY ElementsOf
<1>6. ASSUME NEW f \in ToSet(t)  PROVE f \in ToSet(s) \cup {e}
    <2>1. PICK i \in 1..Len(t) : f = t[i]
        BY <1>4, <1>6
    <2>2. CASE i = 1
        BY <2>1, <2>2, <1>3
    <2>3. CASE i # 1
        <3>1. i - 1 \in 1..Len(s) /\ t[(i - 1) + 1] = s[i - 1]
            BY <2>1, <2>3, <1>3
        <3>2. QED
            BY <3>1, <2>1, <1>5
    <2>4. QED
        BY <2>2, <2>3
<1>7. ASSUME NEW f \in ToSet(s) \cup {e}  PROVE f \in ToSet(t)
    <2>1. CASE f = e
        BY <2>1, <1>3, <1>4
    <2>2. CASE f \in ToSet(s)
        <3>1. PICK i \in 1..Len(s) : f = s[i]
            BY <2>2, <1>5
        <3>2. i + 1 \in 1..Len(t) /\ t[i + 1] = f
            BY <3>1, <1>3
        <3>3. QED
            BY <3>2, <1>4
    <2>3. QED
        BY <1>7, <2>1, <2>2
<1>8. ToSet(t) = ToSet(s) \cup {e} /\ t # <<>>
    BY <1>6, <1>7, <1>3, ElementsOf
<1>9. QED
    BY <1>2, <1>8 DEF t

LEMMA TailOf ==
    ASSUME NEW S, NEW s \in Seq(S), s # <<>>
    PROVE  /\ Head(s) = s[1] /\ Head(s) \in S
           /\ Tail(s) \in Seq(S) /\ Len(Tail(s)) = Len(s) - 1 /\ Len(s) \in Nat \ {0}
           /\ \A i \in 1..Len(Tail(s)) : Tail(s)[i] = s[i + 1]
           /\ ToSet(s) = ToSet(Tail(s)) \cup {Head(s)}
           /\ s = <<Head(s)>> \o Tail(s)
<1>1. /\ Head(s) = s[1] /\ Head(s) \in S
      /\ Tail(s) \in Seq(S) /\ Len(Tail(s)) = Len(s) - 1 /\ Len(s) \in Nat \ {0}
      /\ \A i \in 1..Len(Tail(s)) : Tail(s)[i] = s[i + 1]
    BY HeadTailProperties, EmptySeq
<1> DEFINE h == Head(s)
           t == Tail(s)
           u == <<h>> \o t
<1>2. h = s[1] /\ h \in S /\ t \in Seq(S) /\ Len(t) = Len(s) - 1 /\ Len(s) \in Nat \ {0}
      /\ \A i \in 1..Len(t) : t[i] = s[i + 1]
    BY <1>1
<1> HIDE DEF h, t
<1>3. /\ u \in Seq(S) /\ Len(u) = Len(t) + 1 /\ u[1] = h
      /\ \A i \in 1..Len(t) : u[i + 1] = t[i]
      /\ ToSet(u) = ToSet(t) \cup {h}
    BY <1>2, ConsOf
<1> HIDE DEF u
<1>4. \A i \in 1..Len(s) : s[i] = u[i]
    <2> TAKE i \in 1..Len(s)
    <2>1. CASE i = 1
        BY <2>1, <1>2, <1>3
    <2>2. CASE i # 1
        <3>1. i - 1 \in 1..Len(t) /\ (i - 1) + 1 = i
            BY <2>2, <1>2
        <3>2. QED
            BY <3>1, <1>2, <1>3
    <2>3. QED
        BY <2>1, <2>2
<1>5. s = u
    BY <1>2, <1>3, <1>4, SeqEqual
<1>6. QED
    BY <1>1, <1>3, <1>5 DEF h, t, u

LEMMA RemoveAtOf ==
    ASSUME NEW S, NEW s \in Seq(S), NEW k \in 1..Len(s)
    PROVE  /\ RemoveAt(s, k) \in Seq(S) /\ Len(RemoveAt(s, k)) = Len(s) - 1 /\ Len(s) \in Nat
           /\ \A i \in 1..(Len(s) - 1) :
                  RemoveAt(s, k)[i] = IF i < k THEN s[i] ELSE s[i + 1]
<1> DEFINE a == SubSeq(s, 1, k - 1)
           b == SubSeq(s, k + 1, Len(s))
<1>1. Len(s) \in Nat /\ k \in Nat /\ \A i \in 1..Len(s) : s[i] \in S
    BY LenProperties
<1>2. /\ a \in Seq(S) /\ Len(a) = k - 1
      /\ \A i \in 1..(k - 1) : a[i] = s[i]
    <2>1. \A i \in 1..(k - 1) : s[i] \in S
        BY <1>1
    <2>2. /\ a \in Seq(S) /\ Len(a) = IF 1 <= k - 1 THEN (k - 1) - 1 + 1 ELSE 0
          /\ \A i \in 1..((k - 1) - 1 + 1) : a[i] = s[1 + i - 1]
        BY <2>1, <1>1, SubSeqProperties
    <2> HIDE DEF a
    <2>3. (k - 1) - 1 + 1 = k - 1 /\ \A i \in 1..(k - 1) : 1 + i - 1 = i
        BY <1>1
    <2>4. QED
        BY <2>2, <2>3, <1>1
<1>3. /\ b \in Seq(S) /\ Len(b) = Len(s) - k
      /\ \A i \in 1..(Len(s) - k) : b[i] = s[k + i]
    <2>1. \A i \in (k + 1)..Len(s) : s[i] \in S
        BY <1>1
    <2>2. /\ b \in Seq(S) /\ Len(b) = IF k + 1 <= Len(s) THEN Len(s) - (k + 1) + 1 ELSE 0
          /\ \A i \in 1..(Len(s) - (k + 1) + 1) : b[i] = s[(k + 1) + i - 1]
        BY <2>1, <1>1, SubSeqProperties
    <2> HIDE DEF b
    <2>3. Len(s) - (k + 1) + 1 = Len(s) - k /\ \A i \in 1..(Len(s) - k) : (k + 1) + i - 1 = k + i
        BY <1>1
    <2>4. (IF k + 1 <= Len(s) THEN Len(s) - (k + 1) + 1 ELSE 0) = Len(s) - k
        BY <1>1
    <2>5. \A i \in 1..(Len(s) - k) : b[i] = s[k + i]
        <3> TAKE i \in 1..(Len(s) - k)
        <3>1. b[i] = s[(k + 1) + i - 1]
            BY <2>2, <2>3
        <3>2. QED
            BY <3>1, <2>3
    <2>6. QED
        BY <2>2, <2>4, <2>5
<1> HIDE DEF a, b
<1>4. /\ a \o b \in Seq(S) /\ Len(a \o b) = Len(s) - 1
      /\ \A i \in 1..(Len(s) - 1) : (a \o b)[i] = IF i <= k - 1 THEN a[i] ELSE b[i - (k - 1)]
    <2>1. Len(a) + Len(b) = Len(s) - 1
        BY <1>1, <1>2, <1>3
    <2>2. /\ a \o b \in Seq(S) /\ Len(a \o b) = Len(a) + Len(b)
          /\ \A i \in 1..(Len(a) + Len(b)) :
                 (a \o b)[i] = IF i <= Len(a) THEN a[i] ELSE b[i - Len(a)]
        BY <1>2, <1>3, ConcatProperties
    <2>3. QED
        BY <2>1, <2>2, <1>2
<1>5. ASSUME NEW i \in 1..(Len(s) - 1)
      PROVE  (a \o b)[i] = IF i < k THEN s[i] ELSE s[i + 1]
    <2>1. CASE i < k
        <3>1. i <= k - 1 /\ i \in 1..(k - 1)
            BY <2>1, <1>1
        <3>2. QED
            BY <3>1, <2>1, <1>2, <1>4
    <2>2. CASE ~(i < k)
        <3>1. ~(i <= k - 1) /\ i - (k - 1) \in 1..(Len(s) - k) /\ k + (i - (k - 1)) = i + 1
            BY <2>2, <1>1
        <3>2. QED
            BY <3>1, <2>2, <1>3, <1>4
    <2>3. QED
        BY <2>1, <2>2
<1>6. RemoveAt(s, k) = a \o b
    BY DEF RemoveAt, a, b
<1>7. QED
    BY <1>1, <1>4, <1>5, <1>6

LEMMA InsertAtOf ==
    ASSUME NEW S, NEW s \in Seq(S), NEW k \in 1..(Len(s) + 1), NEW e \in S
    PROVE  /\ InsertAt(s, k, e) \in Seq(S) /\ Len(InsertAt(s, k, e)) = Len(s) + 1 /\ Len(s) \in Nat
           /\ \A i \in 1..(Len(s) + 1) :
                  InsertAt(s, k, e)[i] = IF i < k THEN s[i] ELSE IF i = k THEN e ELSE s[i - 1]
<1> DEFINE a == SubSeq(s, 1, k - 1)
           b == SubSeq(s, k, Len(s))
           m == <<e>> \o b
<1>1. Len(s) \in Nat /\ k \in Nat /\ \A i \in 1..Len(s) : s[i] \in S
    BY LenProperties
<1>2. /\ a \in Seq(S) /\ Len(a) = k - 1
      /\ \A i \in 1..(k - 1) : a[i] = s[i]
    <2>1. \A i \in 1..(k - 1) : s[i] \in S
        BY <1>1
    <2>2. /\ a \in Seq(S) /\ Len(a) = IF 1 <= k - 1 THEN (k - 1) - 1 + 1 ELSE 0
          /\ \A i \in 1..((k - 1) - 1 + 1) : a[i] = s[1 + i - 1]
        BY <2>1, <1>1, SubSeqProperties
    <2> HIDE DEF a
    <2>3. (k - 1) - 1 + 1 = k - 1 /\ \A i \in 1..(k - 1) : 1 + i - 1 = i
        BY <1>1
    <2>4. QED
        BY <2>2, <2>3, <1>1
<1>3. /\ b \in Seq(S) /\ Len(b) = Len(s) - k + 1
      /\ \A i \in 1..(Len(s) - k + 1) : b[i] = s[k + i - 1]
    <2>1. \A i \in k..Len(s) : s[i] \in S
        BY <1>1
    <2>2. /\ b \in Seq(S) /\ Len(b) = IF k <= Len(s) THEN Len(s) - k + 1 ELSE 0
          /\ \A i \in 1..(Len(s) - k + 1) : b[i] = s[k + i - 1]
        BY <2>1, <1>1, SubSeqProperties
    <2> HIDE DEF b
    <2>3. QED
        BY <2>2, <1>1
<1> HIDE DEF a, b
<1>3a. /\ m \in Seq(S) /\ Len(m) = Len(s) - k + 2 /\ m[1] = e
       /\ \A i \in 1..(Len(s) - k + 1) : m[i + 1] = s[k + i - 1]
    <2>1. m \in Seq(S) /\ Len(m) = Len(b) + 1 /\ m[1] = e
          /\ \A i \in 1..Len(b) : m[i + 1] = b[i]
        BY <1>3, ConsOf
    <2> HIDE DEF m
    <2>2. Len(b) + 1 = Len(s) - k + 2
        BY <1>1, <1>3
    <2>3. QED
        BY <2>1, <2>2, <1>3
<1> HIDE DEF m
<1>4. /\ a \o m \in Seq(S) /\ Len(a \o m) = Len(s) + 1
      /\ \A i \in 1..(Len(s) + 1) : (a \o m)[i] = IF i <= k - 1 THEN a[i] ELSE m[i - (k - 1)]
    <2>1. Len(a) + Len(m) = Len(s) + 1
        BY <1>1, <1>2, <1>3a
    <2>2. QED
        BY <2>1, <1>2, <1>3a, ConcatProperties
<1>5. ASSUME NEW i \in 1..(Len(s) + 1)
      PROVE  (a \o m)[i] = IF i < k THEN s[i] ELSE IF i = k THEN e ELSE s[i - 1]
    <2>1. CASE i < k
        <3>1. i <= k - 1 /\ i \in 1..(k - 1)
            BY <2>1, <1>1
        <3>2. QED
            BY <3>1, <2>1, <1>2, <1>4
    <2>2. CASE i = k
        <3>1. ~(i <= k - 1) /\ i - (k - 1) = 1 /\ ~(i < k)
            BY <2>2, <1>1
        <3>2. QED
            BY <3>1, <2>2, <1>3a, <1>4
    <2>3. CASE i > k
        <3>1. /\ ~(i <= k - 1) /\ i - k \in 1..(Len(s) - k + 1) /\ ~(i < k) /\ i # k
              /\ i - (k - 1) = (i - k) + 1 /\ k + (i - k) - 1 = i - 1
            BY <2>3, <1>1
        <3>2. QED
            BY <3>1, <1>3a, <1>4
    <2>4. i < k \/ i = k \/ i > k
        BY <1>1
    <2>5. QED
        BY <2>1, <2>2, <2>3, <2>4
<1>6. InsertAt(s, k, e) = a \o m
    <2>1. InsertAt(s, k, e) = (a \o <<e>>) \o b
        BY DEF InsertAt, a, b
    <2>2. <<e>> \in Seq(S)
        OBVIOUS
    <2>3. (a \o <<e>>) \o b = a \o (<<e>> \o b)
        BY <2>2, <1>2, <1>3, ConcatAssociative
    <2>4. QED
        BY <2>1, <2>3 DEF m
<1>7. QED
    BY <1>1, <1>4, <1>5, <1>6

LEMMA Distinct ==
    ASSUME NEW S, NEW s \in Seq(S), Apart(s)
    PROVE  \A e, f \in ToSet(s) : e.id = f.id => e = f
BY ElementsOf DEF Apart

LEMMA RemoveApart ==
    ASSUME NEW S, NEW s \in Seq(S), Apart(s), NEW k \in 1..Len(s)
    PROVE  /\ RemoveAt(s, k) \in Seq(S) /\ Apart(RemoveAt(s, k))
           /\ ToSet(RemoveAt(s, k)) = ToSet(s) \ {s[k]}
<1> DEFINE t == RemoveAt(s, k)
<1>1. /\ t \in Seq(S) /\ Len(t) = Len(s) - 1 /\ Len(s) \in Nat
      /\ \A i \in 1..(Len(s) - 1) : t[i] = IF i < k THEN s[i] ELSE s[i + 1]
    BY RemoveAtOf
<1> HIDE DEF t
<1>2. DOMAIN s = 1..Len(s) /\ DOMAIN t = 1..(Len(s) - 1) /\ k \in Nat
    BY <1>1, ElementsOf
<1>3. \A i, j \in 1..Len(s) : s[i].id = s[j].id => i = j
    BY <1>2 DEF Apart
<1> DEFINE at(i) == IF i < k THEN i ELSE i + 1
<1>4. \A i \in 1..(Len(s) - 1) : at(i) \in 1..Len(s) /\ at(i) # k /\ t[i] = s[at(i)]
    BY <1>1, <1>2
<1>5. \A i, j \in 1..(Len(s) - 1) : at(i) = at(j) => i = j
    BY <1>1, <1>2
<1>6. \A i \in 1..Len(s) : i # k => \E j \in 1..(Len(s) - 1) : at(j) = i
    <2> TAKE i \in 1..Len(s)
    <2> HAVE i # k
    <2>1. CASE i < k
        <3>1. i \in 1..(Len(s) - 1) /\ at(i) = i
            BY <2>1, <1>1, <1>2
        <3>2. QED
            BY <3>1
    <2>2. CASE i > k
        <3>1. i - 1 \in 1..(Len(s) - 1) /\ at(i - 1) = i
            BY <2>2, <1>1, <1>2
        <3>2. QED
            BY <3>1
    <2>3. QED
        BY <2>1, <2>2, <1>1, <1>2
<1> HIDE DEF at
<1>7. Apart(t)
    BY <1>2, <1>3, <1>4, <1>5 DEF Apart
<1>8. ASSUME NEW e \in ToSet(t)  PROVE e \in ToSet(s) \ {s[k]}
    <2>1. PICK i \in 1..(Len(s) - 1) : e = t[i]
        BY <1>8, <1>2 DEF ToSet
    <2>2. e = s[at(i)] /\ at(i) \in 1..Len(s) /\ at(i) # k
        BY <2>1, <1>4
    <2>3. e # s[k]
        BY <2>2, <1>3
    <2>4. QED
        BY <2>2, <2>3, <1>2 DEF ToSet
<1>9. ASSUME NEW e \in ToSet(s) \ {s[k]}  PROVE e \in ToSet(t)
    <2>1. PICK i \in 1..Len(s) : e = s[i] /\ i # k
        BY <1>9, <1>2 DEF ToSet
    <2>2. PICK j \in 1..(Len(s) - 1) : at(j) = i
        BY <2>1, <1>6
    <2>3. t[j] = e
        BY <2>1, <2>2, <1>4
    <2>4. QED
        BY <2>3, <1>2 DEF ToSet
<1>10. QED
    BY <1>1, <1>7, <1>8, <1>9 DEF t

LEMMA InsertApart ==
    ASSUME NEW S, NEW s \in Seq(S), Apart(s), NEW k \in 1..(Len(s) + 1), NEW e \in S,
           \A f \in ToSet(s) : f.id # e.id
    PROVE  /\ InsertAt(s, k, e) \in Seq(S) /\ Apart(InsertAt(s, k, e))
           /\ ToSet(InsertAt(s, k, e)) = ToSet(s) \cup {e}
<1> DEFINE t == InsertAt(s, k, e)
<1>1. /\ t \in Seq(S) /\ Len(t) = Len(s) + 1 /\ Len(s) \in Nat
      /\ \A i \in 1..(Len(s) + 1) : t[i] = IF i < k THEN s[i] ELSE IF i = k THEN e ELSE s[i - 1]
    BY ONLY InsertAtOf, k \in 1..(Len(s) + 1), s \in Seq(S), e \in S
<1> HIDE DEF t
<1>2. DOMAIN s = 1..Len(s) /\ DOMAIN t = 1..(Len(s) + 1) /\ k \in Nat
    BY <1>1, ElementsOf
<1>3. /\ \A i, j \in 1..Len(s) : s[i].id = s[j].id => i = j
      /\ \A i \in 1..Len(s) : s[i].id # e.id /\ s[i] \in ToSet(s)
    BY <1>2 DEF Apart, ToSet
<1> DEFINE at(i) == IF i < k THEN i ELSE i - 1
<1>4. /\ \A i \in 1..(Len(s) + 1) : i # k => at(i) \in 1..Len(s) /\ t[i] = s[at(i)]
      /\ t[k] = e
    BY <1>1, <1>2
<1>5. \A i, j \in 1..(Len(s) + 1) : i # k /\ j # k /\ at(i) = at(j) => i = j
    BY <1>1, <1>2
<1>6. \A i \in 1..Len(s) : \E j \in 1..(Len(s) + 1) : j # k /\ at(j) = i
    <2> TAKE i \in 1..Len(s)
    <2>1. CASE i < k
        <3>1. i \in 1..(Len(s) + 1) /\ at(i) = i /\ i # k
            BY <2>1, <1>1, <1>2
        <3>2. QED
            BY <3>1
    <2>2. CASE i >= k
        <3>1. i + 1 \in 1..(Len(s) + 1) /\ at(i + 1) = i /\ i + 1 # k
            BY <2>2, <1>1, <1>2
        <3>2. QED
            BY <3>1
    <2>3. QED
        BY <2>1, <2>2, <1>1, <1>2
<1> HIDE DEF at
<1>7. Apart(t)
    <2> SUFFICES ASSUME NEW i \in 1..(Len(s) + 1), NEW j \in 1..(Len(s) + 1), t[i].id = t[j].id
                 PROVE  i = j
        BY <1>2 DEF Apart
    <2>1. CASE i # k /\ j # k
        BY <2>1, <1>3, <1>4, <1>5
    <2>2. CASE i = k /\ j # k
        BY <2>2, <1>3, <1>4
    <2>3. CASE i # k /\ j = k
        BY <2>3, <1>3, <1>4
    <2>4. QED
        BY <2>1, <2>2, <2>3
<1>8. ASSUME NEW f \in ToSet(t)  PROVE f \in ToSet(s) \cup {e}
    <2>1. PICK i \in 1..(Len(s) + 1) : f = t[i]
        BY <1>8, <1>2 DEF ToSet
    <2>2. QED
        BY <2>1, <1>3, <1>4
<1>9. ASSUME NEW f \in ToSet(s) \cup {e}  PROVE f \in ToSet(t)
    <2>1. CASE f = e
        BY <2>1, <1>2, <1>4 DEF ToSet
    <2>2. CASE f \in ToSet(s)
        <3>1. PICK i \in 1..Len(s) : f = s[i]
            BY <2>2, <1>2 DEF ToSet
        <3>2. PICK j \in 1..(Len(s) + 1) : j # k /\ at(j) = i
            BY <1>6
        <3>3. t[j] = f
            BY <3>1, <3>2, <1>4
        <3>4. QED
            BY <3>3, <1>2 DEF ToSet
    <2>3. QED
        BY <1>9, <2>1, <2>2
<1>10. QED
    BY <1>1, <1>7, <1>8, <1>9 DEF t

LEMMA ConsApart ==
    ASSUME NEW S, NEW s \in Seq(S), Apart(s), NEW e \in S, \A f \in ToSet(s) : f.id # e.id
    PROVE  Apart(<<e>> \o s)
<1> DEFINE t == <<e>> \o s
<1>1. /\ t \in Seq(S) /\ Len(t) = Len(s) + 1 /\ t[1] = e
      /\ \A i \in 1..Len(s) : t[i + 1] = s[i]
    BY ConsOf
<1> HIDE DEF t
<1>2. DOMAIN s = 1..Len(s) /\ DOMAIN t = 1..(Len(s) + 1) /\ Len(s) \in Nat
    BY <1>1, ElementsOf
<1>3. /\ \A i, j \in 1..Len(s) : s[i].id = s[j].id => i = j
      /\ \A i \in 1..Len(s) : s[i].id # e.id
    BY <1>2 DEF Apart, ToSet
<1>4. \A i \in 1..(Len(s) + 1) : i # 1 => i - 1 \in 1..Len(s) /\ t[i] = s[i - 1]
    <2> TAKE i \in 1..(Len(s) + 1)
    <2> HAVE i # 1
    <2>1. i - 1 \in 1..Len(s) /\ (i - 1) + 1 = i
        BY <1>2
    <2>2. QED
        BY <2>1, <1>1
<1>5. Apart(t)
    <2> SUFFICES ASSUME NEW i \in 1..(Len(s) + 1), NEW j \in 1..(Len(s) + 1), t[i].id = t[j].id
                 PROVE  i = j
        BY <1>2 DEF Apart
    <2>1. CASE i # 1 /\ j # 1
        <3>1. i - 1 = j - 1
            BY <2>1, <1>3, <1>4
        <3>2. QED
            BY <3>1
    <2>2. CASE i = 1 /\ j # 1
        BY <2>2, <1>1, <1>3, <1>4
    <2>3. CASE i # 1 /\ j = 1
        BY <2>3, <1>1, <1>3, <1>4
    <2>4. QED
        BY <2>1, <2>2, <2>3
<1>6. QED
    BY <1>5 DEF t

LEMMA TailApart ==
    ASSUME NEW S, NEW s \in Seq(S), s # <<>>, Apart(s)
    PROVE  Apart(Tail(s)) /\ ToSet(Tail(s)) = ToSet(s) \ {Head(s)}
<1> DEFINE h == Head(s)
           t == Tail(s)
<1>1. /\ h = s[1] /\ t \in Seq(S) /\ Len(t) = Len(s) - 1 /\ Len(s) \in Nat \ {0}
      /\ \A i \in 1..Len(t) : t[i] = s[i + 1]
      /\ ToSet(s) = ToSet(t) \cup {h}
    BY TailOf
<1> HIDE DEF h, t
<1>2. DOMAIN s = 1..Len(s) /\ DOMAIN t = 1..Len(t)
    BY <1>1, ElementsOf
<1>3. \A i, j \in 1..Len(s) : s[i].id = s[j].id => i = j
    BY <1>2 DEF Apart
<1>4. \A i \in 1..Len(t) : i + 1 \in 1..Len(s) /\ i + 1 # 1
    BY <1>1
<1>5. Apart(t)
    <2> SUFFICES ASSUME NEW i \in 1..Len(t), NEW j \in 1..Len(t), t[i].id = t[j].id
                 PROVE  i = j
        BY <1>2 DEF Apart
    <2>1. i + 1 = j + 1
        BY <1>1, <1>3, <1>4
    <2>2. QED
        BY <2>1
<1>6. h \notin ToSet(t)
    <2> SUFFICES ASSUME NEW i \in 1..Len(t), t[i] = h
                 PROVE  FALSE
        BY <1>2 DEF ToSet
    <2>1. s[i + 1] = s[1] /\ 1 \in 1..Len(s)
        BY <1>1
    <2>2. QED
        BY <2>1, <1>3, <1>4
<1>7. QED
    BY <1>1, <1>5, <1>6 DEF h, t

-----------------------------------------------------------------------------
(* Counting.                                                               *)

LEMMA CountOverSet ==
    ASSUME NEW S, NEW s \in Seq(S), Apart(s), NEW T
    PROVE  /\ IsFiniteSet(ToSet(s))
           /\ Cardinality({i \in DOMAIN s : s[i] \in T}) = Cardinality(ToSet(s) \cap T)
<1>1. DOMAIN s = 1..Len(s) /\ Len(s) \in Nat /\ IsFiniteSet(1..Len(s))
    BY ElementsOf, FS_Interval
<1>2. \A i, j \in 1..Len(s) : s[i] = s[j] => i = j
    BY <1>1 DEF Apart
<1> DEFINE I == {i \in DOMAIN s : s[i] \in T}
           f == [i \in I |-> s[i]]
           g == [i \in 1..Len(s) |-> s[i]]
<1>3. IsFiniteSet(I)
    BY <1>1, FS_Subset
<1>4. f \in Bijection(I, ToSet(s) \cap T)
    <2> DEFINE B == ToSet(s) \cap T
    <2>1. f \in [I -> B]
        BY DEF ToSet
    <2>2. \A i, j \in I : f[i] = f[j] => i = j
        BY <1>1, <1>2
    <2>3. \A b \in B : \E i \in I : f[i] = b
        BY DEF ToSet
    <2> HIDE DEF f, I, B
    <2>4. f \in Bijection(I, B)
        BY <2>1, <2>2, <2>3 DEF Bijection, Injection, Surjection, IsInjective
    <2>5. QED
        BY <2>4 DEF B
<1>5. Cardinality(ToSet(s) \cap T) = Cardinality(I)
    <2> HIDE DEF I, f
    <2>1. QED
        BY <1>3, <1>4, FS_Bijection DEF ExistsBijection
<1>6. g \in Surjection(1..Len(s), ToSet(s))
    BY <1>1 DEF Surjection, ToSet
<1>7. IsFiniteSet(ToSet(s))
    <2> HIDE DEF g
    <2>1. QED
        BY <1>1, <1>6, FS_Surjection
<1>8. QED
    BY <1>5, <1>7

LEMMA KindsCounted ==
    ASSUME NEW main \in Seq(MainEntries), Apart(main), NEW kind
    PROVE  /\ IsFiniteSet(ToSet(main))
           /\ OfKind(main, kind) = Cardinality(KindIn(ToSet(main), kind))
<1> DEFINE T == {e \in ToSet(main) : e.kind = kind}
<1>1. /\ IsFiniteSet(ToSet(main))
      /\ Cardinality({i \in DOMAIN main : main[i] \in T}) = Cardinality(ToSet(main) \cap T)
    BY CountOverSet
<1>2. {i \in DOMAIN main : main[i] \in T} = {i \in DOMAIN main : main[i].kind = kind}
    BY DEF ToSet
<1>3. ToSet(main) \cap T = KindIn(ToSet(main), kind)
    BY DEF KindIn
<1>4. QED
    BY <1>1, <1>2, <1>3 DEF OfKind

LEMMA DueCounted ==
    ASSUME NEW learning \in Seq(LearnEntries), Apart(learning), NEW time
    PROVE  /\ IsFiniteSet(ToSet(learning))
           /\ DueSoon(learning, time) = Cardinality(DueIn(ToSet(learning), time))
<1> DEFINE T == {e \in ToSet(learning) : e.due <= time}
<1>1. /\ IsFiniteSet(ToSet(learning))
      /\ Cardinality({i \in DOMAIN learning : learning[i] \in T}) = Cardinality(ToSet(learning) \cap T)
    BY CountOverSet
<1>2. {i \in DOMAIN learning : learning[i] \in T} = {i \in DOMAIN learning : learning[i].due <= time}
    BY DEF ToSet
<1>3. ToSet(learning) \cap T = DueIn(ToSet(learning), time)
    BY DEF DueIn
<1>4. QED
    BY <1>1, <1>2, <1>3 DEF DueSoon

(* One card more, and one card less.                                       *)
LEMMA OneMoreOfKind ==
    ASSUME NEW E, IsFiniteSet(E), NEW e, e \notin E, NEW kind
    PROVE  /\ Cardinality(KindIn(E, kind)) \in Nat
           /\ Cardinality(KindIn(E \cup {e}, kind)) =
                Cardinality(KindIn(E, kind)) + (IF e.kind = kind THEN 1 ELSE 0)
<1>1. IsFiniteSet(KindIn(E, kind)) /\ Cardinality(KindIn(E, kind)) \in Nat
    BY FS_Subset, FS_CardinalityType DEF KindIn
<1>2. CASE e.kind = kind
    <2>1. KindIn(E \cup {e}, kind) = KindIn(E, kind) \cup {e} /\ e \notin KindIn(E, kind)
        BY <1>2 DEF KindIn
    <2>2. QED
        BY <2>1, <1>1, <1>2, FS_AddElement
<1>3. CASE e.kind # kind
    <2>1. KindIn(E \cup {e}, kind) = KindIn(E, kind)
        BY <1>3 DEF KindIn
    <2>2. QED
        BY <2>1, <1>1, <1>3
<1>4. QED
    BY <1>2, <1>3

LEMMA OneMoreDue ==
    ASSUME NEW E, IsFiniteSet(E), NEW e, e \notin E, NEW time
    PROVE  /\ Cardinality(DueIn(E, time)) \in Nat
           /\ Cardinality(DueIn(E \cup {e}, time)) =
                Cardinality(DueIn(E, time)) + (IF e.due <= time THEN 1 ELSE 0)
<1>1. IsFiniteSet(DueIn(E, time)) /\ Cardinality(DueIn(E, time)) \in Nat
    BY FS_Subset, FS_CardinalityType DEF DueIn
<1>2. CASE e.due <= time
    <2>1. DueIn(E \cup {e}, time) = DueIn(E, time) \cup {e} /\ e \notin DueIn(E, time)
        BY <1>2 DEF DueIn
    <2>2. QED
        BY <2>1, <1>1, <1>2, FS_AddElement
<1>3. CASE ~(e.due <= time)
    <2>1. DueIn(E \cup {e}, time) = DueIn(E, time)
        BY <1>3 DEF DueIn
    <2>2. QED
        BY <2>1, <1>1, <1>3
<1>4. QED
    BY <1>2, <1>3

(* The counts over the sequences are those over the sets.                  *)
LEMMA CountsOfSets ==
    ASSUME NEW main \in Seq(MainEntries), Apart(main),
           NEW learning \in Seq(LearnEntries), Apart(learning), NEW time
    PROVE  CountsOver(main, learning, time) =
             [new |-> NewIn(ToSet(main)), review |-> ReviewIn(ToSet(main)),
              learning |-> LearningIn(ToSet(main), ToSet(learning), time)]
BY KindsCounted, DueCounted DEF CountsOver, NewIn, ReviewIn, LearningIn

LEMMA CountsAreNaturals ==
    ASSUME NEW M, IsFiniteSet(M), NEW L, IsFiniteSet(L), NEW time
    PROVE  /\ NewIn(M) \in Nat /\ ReviewIn(M) \in Nat
           /\ LearningIn(M, L, time) \in Nat
           /\ Cardinality(KindIn(M, "DayLearn")) \in Nat /\ Cardinality(DueIn(L, time)) \in Nat
<1>1. \A kind : Cardinality(KindIn(M, kind)) \in Nat
    BY FS_Subset, FS_CardinalityType DEF KindIn
<1>2. Cardinality(DueIn(L, time)) \in Nat
    BY FS_Subset, FS_CardinalityType DEF DueIn
<1>3. QED
    BY <1>1, <1>2 DEF NewIn, ReviewIn, LearningIn

-----------------------------------------------------------------------------
(* Finding entries.                                                        *)

LEMMA MinOf ==
    ASSUME NEW T \in SUBSET Nat, T # {}
    PROVE  Min(T) \in T /\ \A y \in T : Min(T) <= y
<1>1. IsWellFoundedOn(OpToRel(<, Nat), Nat)
    BY NatLessThanWellFounded
<1>2. \E x \in T : \A y \in T : ~(<<y, x>> \in OpToRel(<, Nat))
    BY <1>1, WFMin
<1>3. \E x \in T : \A y \in T : x <= y
    <2>1. PICK x \in T : \A y \in T : ~(<<y, x>> \in OpToRel(<, Nat))
        BY <1>2
    <2>2. \A y \in T : ~(y < x)
        BY <2>1 DEF OpToRel
    <2>3. QED
        BY <2>2
<1>4. QED
    BY <1>3 DEF Min

LEMMA LearningFinds ==
    ASSUME NEW q, q.learning \in Seq(LearnEntries), NEW c
    PROVE  /\ Learning(q, c) = 0 => \A e \in ToSet(q.learning) : e.id # c
           /\ Learning(q, c) # 0 => /\ Learning(q, c) \in 1..Len(q.learning)
                                    /\ q.learning[Learning(q, c)].id = c
<1> DEFINE I == {i \in 1..Len(q.learning) : q.learning[i].id = c}
<1>1. Learning(q, c) = IF I # {} THEN Min(I) ELSE 0
    BY DEF Learning, SelectInSeq
<1>2. I \in SUBSET Nat /\ 0 \notin I
    OBVIOUS
<1>3. I # {} => Min(I) \in I
    <2> HIDE DEF I
    <2>1. QED
        BY <1>2, MinOf
<1>4. DOMAIN q.learning = 1..Len(q.learning)
    BY ElementsOf
<1>5. CASE I = {}
    BY <1>1, <1>4, <1>5 DEF ToSet
<1>6. CASE I # {}
    <2>1. Learning(q, c) \in I /\ Learning(q, c) # 0
        BY <1>1, <1>2, <1>3, <1>6
    <2>2. QED
        BY <2>1
<1>7. QED
    BY <1>5, <1>6

LEMMA DueByFinds ==
    ASSUME NEW learning \in Seq(LearnEntries), NEW time
    PROVE  /\ DueBy(learning, time) = 0 => \A e \in ToSet(learning) : ~(e.due <= time)
           /\ DueBy(learning, time) # 0 =>
                /\ DueBy(learning, time) \in 1..Len(learning)
                /\ learning[DueBy(learning, time)].due <= time
                /\ \A i \in 1..Len(learning) :
                      learning[i].due <= time => DueBy(learning, time) <= i
<1> DEFINE I == {i \in 1..Len(learning) : learning[i].due <= time}
<1>1. DueBy(learning, time) = IF I # {} THEN Min(I) ELSE 0
    BY DEF DueBy, SelectInSeq
<1>2. I \in SUBSET Nat /\ 0 \notin I
    OBVIOUS
<1>3. I # {} => Min(I) \in I /\ \A y \in I : Min(I) <= y
    <2> HIDE DEF I
    <2>1. QED
        BY <1>2, MinOf
<1>4. DOMAIN learning = 1..Len(learning)
    BY ElementsOf
<1>5. CASE I = {}
    BY <1>1, <1>4, <1>5 DEF ToSet
<1>6. CASE I # {}
    <2>1. DueBy(learning, time) \in I /\ DueBy(learning, time) # 0
          /\ \A y \in I : DueBy(learning, time) <= y
        BY <1>1, <1>2, <1>3, <1>6
    <2>2. QED
        BY <2>1
<1>7. QED
    BY <1>5, <1>6

-----------------------------------------------------------------------------
(* The operations on a queue.                                              *)

Without(q, c) == \A f \in ToSet(q.main) \cup ToSet(q.learning) : f.id # c

InFront(q, e) == e \in ToSet(q.learning) \/ (q.main # <<>> /\ e = Head(q.main))

LEMMA ShapeParts ==
    ASSUME NEW q, Shape(q)
    PROVE  /\ q.main \in Seq(MainEntries) /\ Apart(q.main) /\ ToSet(q.main) \subseteq MainEntries
           /\ q.learning \in Seq(LearnEntries) /\ Apart(q.learning)
           /\ ToSet(q.learning) \subseteq LearnEntries
           /\ IsFiniteSet(ToSet(q.main)) /\ IsFiniteSet(ToSet(q.learning))
           /\ \A e, f \in ToSet(q.main) \cup ToSet(q.learning) : e.id = f.id => e = f
           /\ q.built \in Nat /\ q.cutoff \in Nat /\ q.counts \in Counters
           /\ AheadCutoff(q) \in Nat
<1>1. /\ q.main \in Seq(MainEntries) /\ Apart(q.main)
      /\ q.learning \in Seq(LearnEntries) /\ Apart(q.learning)
      /\ q.built \in Nat /\ q.cutoff \in Nat /\ q.counts \in Counters
      /\ \A e \in ToSet(q.main), f \in ToSet(q.learning) : e.id # f.id
    BY DEF Shape, QueueType
<1>2. ToSet(q.main) \subseteq MainEntries /\ ToSet(q.learning) \subseteq LearnEntries
    BY <1>1, ElementsOf
<1>3. IsFiniteSet(ToSet(q.main)) /\ IsFiniteSet(ToSet(q.learning))
    BY <1>1, KindsCounted, DueCounted
<1>4. /\ \A e, f \in ToSet(q.main) : e.id = f.id => e = f
      /\ \A e, f \in ToSet(q.learning) : e.id = f.id => e = f
    BY <1>1, Distinct
<1>5. AheadCutoff(q) \in Nat
    BY <1>1, QueueParameters DEF AheadCutoff
<1>6. QED
    BY <1>1, <1>2, <1>3, <1>4, <1>5

LEMMA PopLearning ==
    ASSUME NEW q, Shape(q), MainExact(q), NEW e \in ToSet(q.learning)
    PROVE  LET p == PopEntry(q, e.id)
           IN  /\ CanPop(q, e.id) /\ EntryOf(q, e.id) = e
               /\ Shape(p) /\ MainExact(p) /\ Without(p, e.id)
               /\ p.built = q.built /\ p.cutoff = q.cutoff /\ p.main = q.main
               /\ ToSet(p.learning) = ToSet(q.learning) \ {e}
               /\ LearningExact(q) /\ e.due <= AheadCutoff(q) => LearningExact(p)
<1> DEFINE k == Learning(q, e.id)
           l == RemoveAt(q.learning, k)
           p == PopEntry(q, e.id)
           M == ToSet(q.main)
           L == ToSet(q.learning)
<1>1. /\ q.learning \in Seq(LearnEntries) /\ Apart(q.learning) /\ L \subseteq LearnEntries
      /\ IsFiniteSet(M) /\ IsFiniteSet(L) /\ q.counts \in Counters
      /\ \A f, g \in M \cup L : f.id = g.id => f = g
      /\ AheadCutoff(q) \in Nat
    BY ShapeParts
<1>2. k \in 1..Len(q.learning) /\ q.learning[k].id = e.id /\ k # 0
    BY <1>1, LearningFinds
<1>3. q.learning[k] = e
    <2>1. q.learning[k] \in L
        BY <1>1, <1>2, ElementsOf
    <2>2. QED
        BY <2>1, <1>1, <1>2
<1>4. l \in Seq(LearnEntries) /\ Apart(l) /\ ToSet(l) = L \ {e}
    BY <1>1, <1>2, <1>3, RemoveApart
<1>5. p = [q EXCEPT !.learning = l, !.counts.learning = OneLess(@)]
    BY <1>2 DEF PopEntry
<1>6. CanPop(q, e.id) /\ EntryOf(q, e.id) = e
    BY <1>2, <1>3 DEF CanPop, EntryOf
<1> HIDE DEF k, l, p, M, L
<1>7. /\ p \in QueueType /\ p.built = q.built /\ p.cutoff = q.cutoff /\ p.main = q.main
      /\ p.learning = l
      /\ p.counts.new = q.counts.new /\ p.counts.review = q.counts.review
      /\ p.counts.learning = OneLess(q.counts.learning)
    <2>1. q \in QueueType
        BY DEF Shape
    <2>2. OneLess(q.counts.learning) \in Nat
        BY <1>1 DEF OneLess, Counters
    <2> HIDE DEF OneLess
    <2>3. [q.counts EXCEPT !.learning = OneLess(@)] \in Counters
        BY <2>2, <1>1 DEF Counters
    <2>4. QED
        BY <2>1, <2>2, <2>3, <1>4, <1>5 DEF QueueType, Counters
<1>8. Shape(p)
    <2>1. Apart(q.main) /\ \A f \in M, g \in L : f.id # g.id
        BY DEF Shape, M, L
    <2>2. QED
        BY <2>1, <1>4, <1>7 DEF Shape, M
<1>9. MainExact(p)
    BY <1>7 DEF MainExact
<1>10. Without(p, e.id)
    BY <1>1, <1>4, <1>7 DEF Without, Shape, M, L
<1>11. ASSUME LearningExact(q), e.due <= AheadCutoff(q)
       PROVE  LearningExact(p)
    <2> DEFINE m == Cardinality(KindIn(M, "DayLearn"))
               d == Cardinality(DueIn(L \ {e}, AheadCutoff(q)))
    <2>1. IsFiniteSet(L \ {e}) /\ (L \ {e}) \cup {e} = L
        BY <1>1, FS_RemoveElement DEF L
    <2>2. d \in Nat /\ Cardinality(DueIn((L \ {e}) \cup {e}, AheadCutoff(q))) = d + 1
        BY <2>1, <1>11, OneMoreDue
    <2>3. m \in Nat
        BY <1>1, CountsAreNaturals
    <2>4. q.counts.learning = m + (d + 1)
        BY <2>1, <2>2, <1>11 DEF LearningExact, LearningIn, M, L
    <2>5. OneLess(q.counts.learning) = m + d
        <3> HIDE DEF m, d
        <3>1. QED
            BY <2>2, <2>3, <2>4 DEF OneLess
    <2>6. AheadCutoff(p) = AheadCutoff(q)
        BY <1>7 DEF AheadCutoff
    <2>7. QED
        BY <2>5, <2>6, <1>4, <1>7 DEF LearningExact, LearningIn, M
<1>12. QED
    BY <1>4, <1>6, <1>7, <1>8, <1>9, <1>10, <1>11 DEF p, L

LEMMA PopMain ==
    ASSUME NEW q, Shape(q), MainExact(q), q.main # <<>>, NEW e, e = Head(q.main)
    PROVE  LET p == PopEntry(q, e.id)
           IN  /\ CanPop(q, e.id) /\ EntryOf(q, e.id) = e /\ e.kind \in MainKinds
               /\ Shape(p) /\ MainExact(p) /\ Without(p, e.id)
               /\ p.built = q.built /\ p.cutoff = q.cutoff /\ p.main = Tail(q.main)
               /\ p.learning = q.learning /\ e \notin ToSet(q.learning)
               /\ LearningExact(q) => LearningExact(p)
<1> DEFINE t == Tail(q.main)
           p == PopEntry(q, e.id)
           M == ToSet(q.main)
           L == ToSet(q.learning)
           kind == CountOf(e)
<1>1. /\ q.main \in Seq(MainEntries) /\ Apart(q.main) /\ M \subseteq MainEntries
      /\ q.learning \in Seq(LearnEntries)
      /\ IsFiniteSet(M) /\ IsFiniteSet(L) /\ q.counts \in Counters
      /\ \A f, g \in M \cup L : f.id = g.id => f = g
      /\ AheadCutoff(q) \in Nat /\ q \in QueueType
    BY ShapeParts DEF Shape
<1>2. t \in Seq(MainEntries) /\ e \in MainEntries /\ e \in M
    BY <1>1, TailOf, ElementsOf
<1>3. Apart(t) /\ ToSet(t) = M \ {e}
    BY <1>1, TailApart
<1>4. \A f \in L : f.id # e.id
    BY <1>2 DEF Shape
<1>5. Learning(q, e.id) = 0
    <2>1. SUFFICES ASSUME Learning(q, e.id) # 0  PROVE FALSE
        OBVIOUS
    <2>2. Learning(q, e.id) \in 1..Len(q.learning) /\ q.learning[Learning(q, e.id)].id = e.id
        BY <2>1, <1>1, LearningFinds
    <2>3. q.learning[Learning(q, e.id)] \in L
        BY <2>2, <1>1, ElementsOf
    <2>4. QED
        BY <2>2, <2>3, <1>4
<1>6. CanPop(q, e.id) /\ EntryOf(q, e.id) = e
    BY <1>5 DEF CanPop, AtFront, EntryOf
<1>7. p = [q EXCEPT !.main = t, !.counts[kind] = IF kind = "learning" THEN OneLess(@) ELSE @ - 1]
    BY <1>5 DEF PopEntry
<1>8. e.kind \in MainKinds /\ kind \in {"new", "learning", "review"}
      /\ (e.kind = "New" <=> kind = "new") /\ (e.kind = "Review" <=> kind = "review")
      /\ (e.kind = "DayLearn" <=> kind = "learning")
    BY <1>2 DEF MainEntries, MainKinds, CountOf
<1> HIDE DEF t, p, M, L, kind
<1>9. /\ IsFiniteSet(M \ {e}) /\ (M \ {e}) \cup {e} = M /\ e \notin M \ {e}
    BY <1>1, <1>2, FS_RemoveElement
<1>10. \A k : /\ Cardinality(KindIn(M \ {e}, k)) \in Nat
              /\ Cardinality(KindIn(M, k)) =
                    Cardinality(KindIn(M \ {e}, k)) + (IF e.kind = k THEN 1 ELSE 0)
    <2> TAKE k
    <2> DEFINE E == M \ {e}
    <2>1. IsFiniteSet(E) /\ e \notin E /\ E \cup {e} = M
        BY <1>9
    <2> HIDE DEF E
    <2>2. /\ Cardinality(KindIn(E, k)) \in Nat
          /\ Cardinality(KindIn(E \cup {e}, k)) =
               Cardinality(KindIn(E, k)) + (IF e.kind = k THEN 1 ELSE 0)
        BY <2>1, OneMoreOfKind
    <2>3. QED
        BY <2>1, <2>2 DEF E
<1>11. /\ NewIn(M) = NewIn(M \ {e}) + (IF kind = "new" THEN 1 ELSE 0)
       /\ ReviewIn(M) = ReviewIn(M \ {e}) + (IF kind = "review" THEN 1 ELSE 0)
       /\ NewIn(M \ {e}) \in Nat /\ ReviewIn(M \ {e}) \in Nat
    BY <1>8, <1>10 DEF NewIn, ReviewIn
<1>12. q.counts.new = NewIn(M) /\ q.counts.review = ReviewIn(M)
    BY DEF MainExact, M
<1> DEFINE cs == [q.counts EXCEPT ![kind] = IF kind = "learning" THEN OneLess(@) ELSE @ - 1]
<1>13. /\ cs \in Counters
       /\ cs.new = NewIn(M \ {e}) /\ cs.review = ReviewIn(M \ {e})
       /\ cs.learning = IF kind = "learning" THEN OneLess(q.counts.learning) ELSE q.counts.learning
    <2> DEFINE n == NewIn(M \ {e})
               r == ReviewIn(M \ {e})
    <2>1. /\ q.counts.new = n + (IF kind = "new" THEN 1 ELSE 0) /\ n \in Nat
          /\ q.counts.review = r + (IF kind = "review" THEN 1 ELSE 0) /\ r \in Nat
        BY <1>11, <1>12
    <2> HIDE DEF n, r
    <2>1a. /\ q.counts.new \in Nat /\ q.counts.learning \in Nat /\ q.counts.review \in Nat
           /\ q.counts = [new |-> q.counts.new, learning |-> q.counts.learning,
                          review |-> q.counts.review]
        BY <1>1 DEF Counters
    <2>2. CASE kind = "new"
        <3>1. cs = [new |-> q.counts.new - 1, learning |-> q.counts.learning,
                    review |-> q.counts.review]
            BY <2>2, <2>1a
        <3>2. q.counts.new - 1 = n /\ q.counts.review = r
            BY <2>1, <2>2
        <3>3. QED
            BY <3>1, <3>2, <2>1, <2>1a, <2>2 DEF Counters, n, r
    <2>3. CASE kind = "review"
        <3>1. cs = [new |-> q.counts.new, learning |-> q.counts.learning,
                    review |-> q.counts.review - 1]
            BY <2>3, <2>1a
        <3>2. q.counts.review - 1 = r /\ q.counts.new = n
            BY <2>1, <2>3
        <3>3. QED
            BY <3>1, <3>2, <2>1, <2>1a, <2>3 DEF Counters, n, r
    <2>4. CASE kind = "learning"
        <3>1. OneLess(q.counts.learning) \in Nat
            BY <1>1 DEF OneLess, Counters
        <3>2. cs = [new |-> q.counts.new, learning |-> OneLess(q.counts.learning),
                    review |-> q.counts.review]
            BY <2>4, <2>1a
        <3>3. q.counts.review = r /\ q.counts.new = n
            BY <2>1, <2>4
        <3>4. QED
            BY <3>1, <3>2, <3>3, <2>1, <2>1a, <2>4 DEF Counters, n, r
    <2>5. QED
        BY <2>2, <2>3, <2>4, <1>8 DEF n, r
<1>14. p = [q EXCEPT !.main = t, !.counts = cs]
    BY <1>7, <1>1 DEF QueueType
<1> HIDE DEF cs
<1>15. /\ p \in QueueType /\ p.built = q.built /\ p.cutoff = q.cutoff /\ p.main = t
       /\ p.learning = q.learning /\ p.counts = cs
    BY <1>1, <1>2, <1>13, <1>14 DEF QueueType
<1>16. Shape(p)
    <2>1. Apart(q.learning) /\ \A f \in M, g \in L : f.id # g.id
        BY DEF Shape, M, L
    <2>2. QED
        BY <2>1, <1>3, <1>15 DEF Shape, L
<1>17. MainExact(p)
    BY <1>3, <1>13, <1>15 DEF MainExact
<1>18. Without(p, e.id)
    <2>1. \A f \in M \ {e} : f.id # e.id
        BY <1>1, <1>2
    <2>2. QED
        BY <2>1, <1>3, <1>4, <1>15 DEF Without, L
<1>19. ASSUME LearningExact(q)  PROVE LearningExact(p)
    <2> DEFINE m == Cardinality(KindIn(M \ {e}, "DayLearn"))
               d == Cardinality(DueIn(L, AheadCutoff(q)))
    <2>1. m \in Nat /\ d \in Nat
        BY <1>1, <1>10, CountsAreNaturals
    <2>2. q.counts.learning = (m + (IF kind = "learning" THEN 1 ELSE 0)) + d
        BY <1>8, <1>10, <1>19 DEF LearningExact, LearningIn, M, L
    <2>3. cs.learning = m + d
        <3> HIDE DEF m, d
        <3>1. CASE kind = "learning"
            BY <3>1, <2>1, <2>2, <1>13 DEF OneLess
        <3>2. CASE kind # "learning"
            BY <3>2, <2>1, <2>2, <1>13
        <3>3. QED
            BY <3>1, <3>2
    <2>4. AheadCutoff(p) = AheadCutoff(q)
        BY <1>15 DEF AheadCutoff
    <2>5. QED
        BY <2>3, <2>4, <1>3, <1>15 DEF LearningExact, LearningIn, L
<1>20. e \notin L
    BY <1>4
<1>21. QED
    BY <1>6, <1>8, <1>15, <1>16, <1>17, <1>18, <1>19, <1>20 DEF p, t, L

LEMMA PopOf ==
    ASSUME NEW q, Shape(q), MainExact(q), NEW e, InFront(q, e)
    PROVE  LET p == PopEntry(q, e.id)
           IN  /\ CanPop(q, e.id) /\ EntryOf(q, e.id) = e
               /\ Shape(p) /\ MainExact(p) /\ Without(p, e.id)
               /\ p.built = q.built /\ p.cutoff = q.cutoff
               /\ p.main = IF e.kind = "Learn" THEN q.main ELSE Tail(q.main)
               /\ ToSet(p.learning) = ToSet(q.learning) \ {e}
               /\ LearningExact(q) /\ (e.kind = "Learn" => e.due <= AheadCutoff(q))
                    => LearningExact(p)
<1> DEFINE p == PopEntry(q, e.id)
<1>1. CASE e \in ToSet(q.learning)
    <2>1. e.kind = "Learn"
        BY <1>1, ShapeParts DEF LearnEntries
    <2>2. /\ CanPop(q, e.id) /\ EntryOf(q, e.id) = e
          /\ Shape(p) /\ MainExact(p) /\ Without(p, e.id)
          /\ p.built = q.built /\ p.cutoff = q.cutoff /\ p.main = q.main
          /\ ToSet(p.learning) = ToSet(q.learning) \ {e}
          /\ LearningExact(q) /\ e.due <= AheadCutoff(q) => LearningExact(p)
        BY <1>1, PopLearning
    <2> HIDE DEF p
    <2>3. QED
        BY <2>1, <2>2 DEF p
<1>2. CASE q.main # <<>> /\ e = Head(q.main)
    <2>1. /\ CanPop(q, e.id) /\ EntryOf(q, e.id) = e /\ e.kind \in MainKinds
          /\ Shape(p) /\ MainExact(p) /\ Without(p, e.id)
          /\ p.built = q.built /\ p.cutoff = q.cutoff /\ p.main = Tail(q.main)
          /\ p.learning = q.learning /\ e \notin ToSet(q.learning)
          /\ LearningExact(q) => LearningExact(p)
        BY <1>2, PopMain
    <2>2. e.kind # "Learn"
        BY <2>1 DEF MainKinds
    <2> HIDE DEF p
    <2>3. ToSet(p.learning) = ToSet(q.learning) \ {e}
        BY <2>1
    <2>4. QED
        BY <2>1, <2>2, <2>3 DEF p
<1>3. QED
    BY <1>1, <1>2 DEF InFront

(* What putting an entry into the learning queue comes to, wherever it     *)
(* goes.                                                                   *)
Grown(p, q, e) ==
    /\ p \in QueueType /\ p.built = q.built /\ p.cutoff = q.cutoff /\ p.main = q.main
    /\ Apart(p.learning) /\ ToSet(p.learning) = ToSet(q.learning) \cup {e}
    /\ p.counts.new = q.counts.new /\ p.counts.review = q.counts.review
    /\ p.counts.learning = IF e.due <= AheadCutoff(q) THEN q.counts.learning + 1
                           ELSE q.counts.learning

LEMMA LearningGrows ==
    ASSUME NEW q, Shape(q), MainExact(q), NEW e \in LearnEntries, Without(q, e.id),
           NEW p, Grown(p, q, e)
    PROVE  /\ Shape(p) /\ MainExact(p)
           /\ LearningExact(q) => LearningExact(p)
<1> DEFINE M == ToSet(q.main)
           L == ToSet(q.learning)
<1>1. /\ L \subseteq LearnEntries /\ IsFiniteSet(M) /\ IsFiniteSet(L)
      /\ q.counts \in Counters /\ AheadCutoff(q) \in Nat
    BY ShapeParts
<1>5. Shape(p)
    <2>1. Apart(q.main) /\ \A f \in M, g \in L : f.id # g.id
        BY DEF Shape
    <2>2. \A f \in M : f.id # e.id
        BY DEF Without
    <2>3. QED
        BY <2>1, <2>2 DEF Shape, Grown
<1>6. MainExact(p)
    BY DEF MainExact, Grown
<1>7. ASSUME LearningExact(q)  PROVE LearningExact(p)
    <2> DEFINE m == Cardinality(KindIn(M, "DayLearn"))
               d == Cardinality(DueIn(L, AheadCutoff(q)))
               one == IF e.due <= AheadCutoff(q) THEN 1 ELSE 0
    <2>1. e \notin L
        BY DEF Without
    <2>2. d \in Nat /\ Cardinality(DueIn(L \cup {e}, AheadCutoff(q))) = d + one
        BY <2>1, <1>1, OneMoreDue
    <2>3. m \in Nat
        BY <1>1, CountsAreNaturals
    <2>4. q.counts.learning = m + d
        BY <1>7 DEF LearningExact, LearningIn
    <2>5. p.counts.learning = m + (d + one)
        <3>1. p.counts.learning = IF e.due <= AheadCutoff(q) THEN q.counts.learning + 1
                                  ELSE q.counts.learning
            BY DEF Grown
        <3> HIDE DEF m, d
        <3>2. QED
            BY <3>1, <2>2, <2>3, <2>4
    <2>6. AheadCutoff(p) = AheadCutoff(q)
        BY DEF AheadCutoff, Grown
    <2>7. LearningIn(M, L \cup {e}, AheadCutoff(q)) = m + (d + one)
        BY <2>2 DEF LearningIn
    <2>8. QED
        BY <2>5, <2>6, <2>7 DEF LearningExact, Grown
<1>8. QED
    BY <1>5, <1>6, <1>7

LEMMA InsertOf ==
    ASSUME NEW q, Shape(q), MainExact(q), NEW e \in LearnEntries, Without(q, e.id),
           NEW i \in Places(q.learning, e)
    PROVE  LET p == InsertLearning(q, e, i)
           IN  /\ Shape(p) /\ MainExact(p)
               /\ p.built = q.built /\ p.cutoff = q.cutoff /\ p.main = q.main
               /\ ToSet(p.learning) = ToSet(q.learning) \cup {e}
               /\ LearningExact(q) => LearningExact(p)
<1> DEFINE l == InsertAt(q.learning, i, e)
           n == IF e.due <= AheadCutoff(q) THEN q.counts.learning + 1 ELSE q.counts.learning
           p == InsertLearning(q, e, i)
<1>1. i \in 1..(Len(q.learning) + 1)
    BY DEF Places
<1>2. q.learning \in Seq(LearnEntries) /\ Apart(q.learning) /\ q.counts \in Counters
      /\ q \in QueueType /\ \A f \in ToSet(q.learning) : f.id # e.id
    BY ShapeParts DEF Without, Shape
<1>3. l \in Seq(LearnEntries) /\ Apart(l) /\ ToSet(l) = ToSet(q.learning) \cup {e}
    BY <1>1, <1>2, InsertApart
<1>4. p = [q EXCEPT !.learning = l, !.counts.learning = n]
    BY DEF InsertLearning
<1>5. n \in Nat
    BY <1>2 DEF Counters
<1>6. n = IF e.due <= AheadCutoff(q) THEN q.counts.learning + 1 ELSE q.counts.learning
    OBVIOUS
<1> HIDE DEF l, n, p
<1>7. /\ p \in QueueType /\ p.built = q.built /\ p.cutoff = q.cutoff /\ p.main = q.main
      /\ p.learning = l
      /\ p.counts.new = q.counts.new /\ p.counts.review = q.counts.review
      /\ p.counts.learning = n
    <2>1. [q.counts EXCEPT !.learning = n] \in Counters
        BY <1>2, <1>5 DEF Counters
    <2>2. QED
        BY <2>1, <1>2, <1>3, <1>4, <1>5 DEF QueueType, Counters
<1>8. Grown(p, q, e)
    BY <1>3, <1>6, <1>7 DEF Grown
<1>9. /\ Shape(p) /\ MainExact(p)
      /\ LearningExact(q) => LearningExact(p)
    BY <1>8, LearningGrows
<1>10. QED
    BY <1>3, <1>7, <1>9 DEF p

LEMMA RemoveOf ==
    ASSUME NEW q, Shape(q), MainExact(q), NEW e \in ToSet(q.learning)
    PROVE  LET p == RemoveLearning(q, e.id)
           IN  /\ Shape(p) /\ MainExact(p) /\ Without(p, e.id)
               /\ p.built = q.built /\ p.cutoff = q.cutoff /\ p.main = q.main
               /\ ToSet(p.learning) = ToSet(q.learning) \ {e}
               /\ LearningExact(q) => LearningExact(p)
<1> DEFINE p == RemoveLearning(q, e.id)
           r == PopEntry(q, e.id)
           k == Learning(q, e.id)
           L == ToSet(q.learning)
<1>1. /\ CanPop(q, e.id) /\ EntryOf(q, e.id) = e
      /\ Shape(r) /\ MainExact(r) /\ Without(r, e.id)
      /\ r.built = q.built /\ r.cutoff = q.cutoff /\ r.main = q.main
      /\ ToSet(r.learning) = L \ {e}
      /\ LearningExact(q) /\ e.due <= AheadCutoff(q) => LearningExact(r)
    BY PopLearning
<1>2. q.learning \in Seq(LearnEntries) /\ q.counts \in Counters /\ q \in QueueType
      /\ IsFiniteSet(L)
    BY ShapeParts DEF Shape
<1>3. k # 0
    BY <1>2, LearningFinds
<1>4. r = [q EXCEPT !.learning = RemoveAt(@, k), !.counts.learning = OneLess(@)]
    BY <1>3 DEF PopEntry
<1>5. p = [q EXCEPT !.learning = RemoveAt(@, k),
                    !.counts.learning = IF e.due <= AheadCutoff(q) THEN OneLess(@) ELSE @]
    BY <1>3, <1>1 DEF RemoveLearning
<1>6. CASE e.due <= AheadCutoff(q)
    <2>1. p = r
        BY <1>4, <1>5, <1>6
    <2> HIDE DEF p, r
    <2>2. QED
        BY <2>1, <1>1, <1>6 DEF p
<1>7. CASE ~(e.due <= AheadCutoff(q))
    <2> HIDE DEF p, r
    <2>1. /\ p \in QueueType /\ p.built = r.built /\ p.cutoff = r.cutoff /\ p.main = r.main
          /\ p.learning = r.learning
          /\ p.counts = q.counts
          /\ r.counts.new = q.counts.new /\ r.counts.review = q.counts.review
        <3> DEFINE l == RemoveAt(q.learning, k)
        <3>0. l = r.learning /\ r \in QueueType
            BY <1>1, <1>2, <1>4 DEF Shape, QueueType
        <3>1. l \in Seq(LearnEntries)
            BY <3>0 DEF QueueType
        <3>2. p = [q EXCEPT !.learning = l]
            BY <1>5, <1>7, <1>2 DEF QueueType, Counters
        <3>3. r = [q EXCEPT !.learning = l, !.counts.learning = OneLess(@)]
            BY <1>4
        <3> HIDE DEF l
        <3>4. /\ r.counts.new = q.counts.new /\ r.counts.review = q.counts.review
              /\ r.built = q.built /\ r.cutoff = q.cutoff /\ r.main = q.main /\ r.learning = l
            BY <3>3, <1>2 DEF QueueType, Counters
        <3>5. QED
            BY <3>1, <3>2, <3>4, <1>2 DEF QueueType
    <2>2. Shape(p) /\ MainExact(p) /\ Without(p, e.id)
        BY <2>1, <1>1 DEF Shape, MainExact, Without
    <2>3. ASSUME LearningExact(q)  PROVE LearningExact(p)
        <3>1. IsFiniteSet(L \ {e}) /\ (L \ {e}) \cup {e} = L
            BY <1>2, FS_RemoveElement
        <3>2. DueIn(L \ {e}, AheadCutoff(q)) = DueIn(L, AheadCutoff(q))
            BY <1>7 DEF DueIn
        <3>3. AheadCutoff(p) = AheadCutoff(q)
            BY <2>1, <1>1 DEF AheadCutoff
        <3>4. QED
            BY <2>1, <2>3, <3>2, <3>3, <1>1 DEF LearningExact, LearningIn
    <2>4. QED
        BY <2>1, <2>2, <2>3, <1>1 DEF p
<1>8. QED
    BY <1>6, <1>7

LEMMA PushLearning ==
    ASSUME NEW q, Shape(q), MainExact(q), NEW e \in LearnEntries, Without(q, e.id)
    PROVE  LET p == PushUndoEntry(q, e)
           IN  /\ Shape(p) /\ MainExact(p)
               /\ p.built = q.built /\ p.cutoff = q.cutoff /\ p.main = q.main
               /\ p.learning = <<e>> \o q.learning
               /\ ToSet(p.learning) = ToSet(q.learning) \cup {e}
               /\ LearningExact(q) /\ e.due <= AheadCutoff(q) => LearningExact(p)
<1> DEFINE l == <<e>> \o q.learning
           n == q.counts.learning + 1
           p == PushUndoEntry(q, e)
           M == ToSet(q.main)
           L == ToSet(q.learning)
<1>1. /\ q.learning \in Seq(LearnEntries) /\ Apart(q.learning) /\ q.counts \in Counters
      /\ q \in QueueType /\ (\A f \in L : f.id # e.id)
      /\ IsFiniteSet(M) /\ IsFiniteSet(L)
    BY ShapeParts DEF Without, Shape
<1>2. l \in Seq(LearnEntries) /\ Apart(l) /\ ToSet(l) = L \cup {e}
    BY <1>1, ConsOf, ConsApart
<1>3. e.kind = "Learn"
    BY DEF LearnEntries
<1>4. p = [q EXCEPT !.learning = l, !.counts.learning = n]
    BY <1>3 DEF PushUndoEntry
<1>5. n \in Nat
    BY <1>1 DEF Counters
<1> HIDE DEF l, p
<1>6. /\ p \in QueueType /\ p.built = q.built /\ p.cutoff = q.cutoff /\ p.main = q.main
      /\ p.learning = l
      /\ p.counts.new = q.counts.new /\ p.counts.review = q.counts.review
      /\ p.counts.learning = n
    <2> HIDE DEF n
    <2>1. [q.counts EXCEPT !.learning = n] \in Counters
        BY <1>1, <1>5 DEF Counters
    <2>2. QED
        BY <2>1, <1>1, <1>2, <1>4, <1>5 DEF QueueType, Counters
<1>7. Shape(p)
    <2>1. Apart(q.main) /\ \A f \in M, g \in L : f.id # g.id
        BY DEF Shape
    <2>2. \A f \in M : f.id # e.id
        BY DEF Without
    <2>3. QED
        BY <2>1, <2>2, <1>2, <1>6 DEF Shape
<1>8. MainExact(p)
    BY <1>6 DEF MainExact
<1>9. ASSUME LearningExact(q), e.due <= AheadCutoff(q)  PROVE LearningExact(p)
    <2>1. Grown(p, q, e)
        BY <1>2, <1>6, <1>9 DEF Grown
    <2>2. QED
        BY <2>1, <1>9, LearningGrows
<1>10. QED
    BY <1>2, <1>6, <1>7, <1>8, <1>9 DEF p, l

LEMMA PushMain ==
    ASSUME NEW q, Shape(q), MainExact(q), NEW e \in MainEntries, Without(q, e.id)
    PROVE  LET p == PushUndoEntry(q, e)
           IN  /\ Shape(p) /\ MainExact(p)
               /\ p.built = q.built /\ p.cutoff = q.cutoff /\ p.main = <<e>> \o q.main
               /\ p.learning = q.learning
               /\ LearningExact(q) => LearningExact(p)
<1> DEFINE t == <<e>> \o q.main
           p == PushUndoEntry(q, e)
           M == ToSet(q.main)
           L == ToSet(q.learning)
           kind == CountOf(e)
           cs == [q.counts EXCEPT ![kind] = @ + 1]
<1>1. /\ q.main \in Seq(MainEntries) /\ Apart(q.main) /\ q.counts \in Counters
      /\ q \in QueueType /\ (\A f \in M \cup L : f.id # e.id)
      /\ IsFiniteSet(M) /\ IsFiniteSet(L) /\ e \notin M
    BY ShapeParts DEF Without, Shape
<1>2. t \in Seq(MainEntries) /\ Apart(t) /\ ToSet(t) = M \cup {e}
    BY <1>1, ConsOf, ConsApart
<1>3. e.kind \in MainKinds /\ kind \in {"new", "learning", "review"}
      /\ (e.kind = "New" <=> kind = "new") /\ (e.kind = "Review" <=> kind = "review")
      /\ (e.kind = "DayLearn" <=> kind = "learning") /\ e.kind # "Learn"
    BY DEF MainEntries, MainKinds, CountOf
<1>4. p = [q EXCEPT !.main = t, !.counts[kind] = @ + 1]
    BY <1>3 DEF PushUndoEntry
<1>5. p = [q EXCEPT !.main = t, !.counts = cs]
    BY <1>1, <1>4 DEF QueueType
<1>6. \A k : /\ Cardinality(KindIn(M, k)) \in Nat
             /\ Cardinality(KindIn(M \cup {e}, k)) =
                   Cardinality(KindIn(M, k)) + (IF e.kind = k THEN 1 ELSE 0)
    <2> TAKE k
    <2> HIDE DEF M
    <2>1. QED
        BY <1>1, OneMoreOfKind
<1> HIDE DEF t, p, kind
<1>7. /\ cs \in Counters
      /\ cs.new = q.counts.new + (IF kind = "new" THEN 1 ELSE 0)
      /\ cs.review = q.counts.review + (IF kind = "review" THEN 1 ELSE 0)
      /\ cs.learning = q.counts.learning + (IF kind = "learning" THEN 1 ELSE 0)
    <2>1. /\ q.counts.new \in Nat /\ q.counts.learning \in Nat /\ q.counts.review \in Nat
          /\ q.counts = [new |-> q.counts.new, learning |-> q.counts.learning,
                         review |-> q.counts.review]
        BY <1>1 DEF Counters
    <2>2. CASE kind = "new"
        <3>1. cs = [new |-> q.counts.new + 1, learning |-> q.counts.learning,
                    review |-> q.counts.review]
            BY <2>1, <2>2
        <3>2. QED
            BY <3>1, <2>1, <2>2 DEF Counters
    <2>3. CASE kind = "review"
        <3>1. cs = [new |-> q.counts.new, learning |-> q.counts.learning,
                    review |-> q.counts.review + 1]
            BY <2>1, <2>3
        <3>2. QED
            BY <3>1, <2>1, <2>3 DEF Counters
    <2>4. CASE kind = "learning"
        <3>1. cs = [new |-> q.counts.new, learning |-> q.counts.learning + 1,
                    review |-> q.counts.review]
            BY <2>1, <2>4
        <3>2. QED
            BY <3>1, <2>1, <2>4 DEF Counters
    <2>5. QED
        BY <2>2, <2>3, <2>4, <1>3
<1> HIDE DEF cs
<1>8. /\ p \in QueueType /\ p.built = q.built /\ p.cutoff = q.cutoff /\ p.main = t
      /\ p.learning = q.learning /\ p.counts = cs
    BY <1>1, <1>2, <1>5, <1>7 DEF QueueType
<1>9. Shape(p)
    <2>1. Apart(q.learning) /\ \A f \in M, g \in L : f.id # g.id
        BY DEF Shape
    <2>2. QED
        BY <2>1, <1>1, <1>2, <1>8 DEF Shape
<1>10. MainExact(p)
    <2>1. q.counts.new = NewIn(M) /\ q.counts.review = ReviewIn(M)
        BY DEF MainExact
    <2>2. /\ NewIn(M \cup {e}) = NewIn(M) + (IF kind = "new" THEN 1 ELSE 0)
          /\ ReviewIn(M \cup {e}) = ReviewIn(M) + (IF kind = "review" THEN 1 ELSE 0)
        BY <1>3, <1>6 DEF NewIn, ReviewIn
    <2>3. QED
        BY <2>1, <2>2, <1>2, <1>7, <1>8 DEF MainExact
<1>11. ASSUME LearningExact(q)  PROVE LearningExact(p)
    <2> DEFINE m == Cardinality(KindIn(M, "DayLearn"))
               d == Cardinality(DueIn(L, AheadCutoff(q)))
               one == IF kind = "learning" THEN 1 ELSE 0
    <2>1. m \in Nat /\ d \in Nat
        BY <1>1, CountsAreNaturals
    <2>2. q.counts.learning = m + d
        BY <1>11 DEF LearningExact, LearningIn
    <2>3. LearningIn(M \cup {e}, L, AheadCutoff(q)) = (m + one) + d
        BY <1>3, <1>6 DEF LearningIn
    <2>4. cs.learning = (m + d) + one
        BY <2>2, <1>7
    <2>5. one \in Nat
        OBVIOUS
    <2>6. (m + d) + one = (m + one) + d
        <3> HIDE DEF m, d, one
        <3>1. QED
            BY <2>1, <2>5
    <2>7. AheadCutoff(p) = AheadCutoff(q)
        BY <1>8 DEF AheadCutoff
    <2>8. QED
        BY <2>3, <2>4, <2>6, <2>7, <1>2, <1>8 DEF LearningExact
<1>12. QED
    BY <1>8, <1>9, <1>10, <1>11 DEF p, t

LEMMA DueGrows ==
    ASSUME NEW L, IsFiniteSet(L), NEW a \in Nat, NEW b \in Nat, a <= b,
           \A e \in L : e.due \in Nat
    PROVE  /\ Cardinality(DueIn(L, a)) \in Nat /\ Cardinality(DueIn(L, b)) \in Nat
           /\ Cardinality(DueIn(L, a)) <= Cardinality(DueIn(L, b))
<1>1. DueIn(L, a) \subseteq DueIn(L, b) /\ IsFiniteSet(DueIn(L, b))
    BY FS_Subset DEF DueIn
<1>2. QED
    BY <1>1, FS_Subset, FS_CardinalityType

LEMMA UpdateCutoffOf ==
    ASSUME NEW q, Shape(q), MainExact(q), LearningExact(q), now \in Nat, q.cutoff <= now
    PROVE  LET p == UpdateCutoff(q)
           IN  /\ GoodQueue(p)
               /\ p.built = q.built /\ p.cutoff = now /\ p.main = q.main
               /\ p.learning = q.learning
<1> DEFINE p == UpdateCutoff(q)
           M == ToSet(q.main)
           L == ToSet(q.learning)
           a == AheadCutoff(q)
           b == now + Ahead
           n == q.counts.learning + DueSoon(q.learning, b) - DueSoon(q.learning, a)
           m == Cardinality(KindIn(M, "DayLearn"))
<1>1. /\ q.learning \in Seq(LearnEntries) /\ Apart(q.learning) /\ q.counts \in Counters
      /\ q \in QueueType /\ IsFiniteSet(M) /\ IsFiniteSet(L) /\ L \subseteq LearnEntries
      /\ q.cutoff \in Nat
    BY ShapeParts DEF Shape
<1>2. a \in Nat /\ b \in Nat /\ a <= b
    BY <1>1, QueueParameters DEF AheadCutoff
<1>3. \A e \in L : e.due \in Nat
    BY <1>1, QueueParameters DEF LearnEntries
<1>4. p = [q EXCEPT !.cutoff = now, !.counts.learning = n]
    BY DEF UpdateCutoff
<1>5. DueSoon(q.learning, a) = Cardinality(DueIn(L, a))
      /\ DueSoon(q.learning, b) = Cardinality(DueIn(L, b))
    BY <1>1, DueCounted
<1>6. /\ Cardinality(DueIn(L, a)) \in Nat /\ Cardinality(DueIn(L, b)) \in Nat
      /\ Cardinality(DueIn(L, a)) <= Cardinality(DueIn(L, b))
    <2> HIDE DEF L, a, b
    <2>1. QED
        BY <1>1, <1>2, <1>3, DueGrows
<1>7. m \in Nat
    BY <1>1, CountsAreNaturals
<1>8. q.counts.learning = m + Cardinality(DueIn(L, a))
    BY DEF LearningExact, LearningIn
<1>9. n = m + Cardinality(DueIn(L, b)) /\ n \in Nat
    <2> HIDE DEF m, L, a, b
    <2>1. QED
        BY <1>5, <1>6, <1>7, <1>8
<1> HIDE DEF n, p
<1>10. /\ p \in QueueType /\ p.built = q.built /\ p.cutoff = now /\ p.main = q.main
       /\ p.learning = q.learning
       /\ p.counts.new = q.counts.new /\ p.counts.review = q.counts.review
       /\ p.counts.learning = n
    <2>1. [q.counts EXCEPT !.learning = n] \in Counters
        BY <1>1, <1>9 DEF Counters
    <2>2. QED
        BY <2>1, <1>1, <1>4, <1>9 DEF QueueType, Counters
<1>11. Shape(p)
    BY <1>10 DEF Shape
<1>12. MainExact(p) /\ LearningExact(p)
    BY <1>9, <1>10 DEF MainExact, LearningExact, LearningIn, AheadCutoff
<1>13. QED
    BY <1>10, <1>11, <1>12 DEF GoodQueue, p

LEMMA RestoreOf ==
    ASSUME NEW q, Shape(q), MainExact(q), NEW update, update.cutoff \in Nat,
           update.learning =
               LearningIn(ToSet(q.main), ToSet(q.learning), update.cutoff + Ahead)
    PROVE  LET p == RestoreCutoff(q, update)
           IN  /\ GoodQueue(p)
               /\ p.built = q.built /\ p.cutoff = update.cutoff /\ p.main = q.main
               /\ p.learning = q.learning
<1> DEFINE p == RestoreCutoff(q, update)
           n == update.learning
<1>1. /\ q.counts \in Counters /\ q \in QueueType
      /\ IsFiniteSet(ToSet(q.main)) /\ IsFiniteSet(ToSet(q.learning))
    BY ShapeParts DEF Shape
<1>2. n \in Nat
    BY <1>1, CountsAreNaturals
<1>3. p = [q EXCEPT !.counts.learning = n, !.cutoff = update.cutoff]
    BY DEF RestoreCutoff
<1>4. n = LearningIn(ToSet(q.main), ToSet(q.learning), update.cutoff + Ahead)
    OBVIOUS
<1> HIDE DEF n, p
<1>5. /\ p \in QueueType /\ p.built = q.built /\ p.cutoff = update.cutoff /\ p.main = q.main
      /\ p.learning = q.learning
      /\ p.counts.new = q.counts.new /\ p.counts.review = q.counts.review
      /\ p.counts.learning = n
    <2>1. [q.counts EXCEPT !.learning = n] \in Counters
        BY <1>1, <1>2 DEF Counters
    <2>2. QED
        BY <2>1, <1>1, <1>2, <1>3 DEF QueueType, Counters
<1>6. QED
    BY <1>4, <1>5 DEF GoodQueue, Shape, MainExact, LearningExact, AheadCutoff, p

LEMMA RequeueOf ==
    ASSUME NEW q, Shape(q), q.cutoff <= now, now \in Nat, now <= MaxTime, NEW e \in LearnEntries
    PROVE  RequeueEntry(q, e) \in LearnEntries /\ RequeueEntry(q, e).id = e.id
<1> DEFINE next == Head(q.learning)
<1>1. q.learning \in Seq(LearnEntries) /\ AheadCutoff(q) \in Nat /\ q.cutoff \in Nat
    BY ShapeParts
<1>2. AheadCutoff(q) <= Tomorrow + Ahead
    BY <1>1, QueueParameters DEF AheadCutoff
<1>3. CASE /\ e.due <= AheadCutoff(q) /\ q.main = <<>> /\ q.learning # <<>>
           /\ next.due >= e.due /\ next.due + 1 < AheadCutoff(q)
    <2>1. next \in LearnEntries
        BY <1>1, <1>3, TailOf
    <2>2. next.due + 1 \in 0..(Tomorrow + Ahead)
        <3> DEFINE d == next.due
                   a == AheadCutoff(q)
        <3>1. d \in Nat
            BY <2>1, QueueParameters DEF LearnEntries
        <3>2. d + 1 < a /\ a \in Nat /\ a <= Tomorrow + Ahead
            BY <1>1, <1>2, <1>3
        <3> HIDE DEF d, a
        <3>3. d + 1 \in 0..(Tomorrow + Ahead)
            BY <3>1, <3>2, QueueParameters
        <3>4. QED
            BY <3>3 DEF d
    <2>3. RequeueEntry(q, e) = [e EXCEPT !.due = next.due + 1]
        BY <1>3 DEF RequeueEntry
    <2> HIDE DEF next
    <2>4. QED
        BY <2>2, <2>3 DEF LearnEntries
<1>4. CASE ~(/\ e.due <= AheadCutoff(q) /\ q.main = <<>> /\ q.learning # <<>>
             /\ next.due >= e.due /\ next.due + 1 < AheadCutoff(q))
    BY <1>4 DEF RequeueEntry
<1>5. QED
    BY <1>3, <1>4

(* Which entry is on top.                                                  *)
IsTop(q, e) ==
    \/ e \in ToSet(q.learning) /\ e.due <= q.cutoff
    \/ /\ q.main # <<>> /\ e = Head(q.main)
       /\ \A f \in ToSet(q.learning) : ~(f.due <= q.cutoff)
    \/ /\ q.main = <<>> /\ e \in ToSet(q.learning) /\ e.due <= AheadCutoff(q)
       /\ \A f \in ToSet(q.learning) : ~(f.due <= q.cutoff)

LEMMA TopIsTop ==
    ASSUME NEW q, Shape(q), Top(q) # NoEntry
    PROVE  IsTop(q, Top(q))
<1> DEFINE first == DueBy(q.learning, q.cutoff)
           soon  == DueBy(q.learning, AheadCutoff(q))
<1>1. q.learning \in Seq(LearnEntries)
    BY ShapeParts
<1>2. /\ first = 0 => \A f \in ToSet(q.learning) : ~(f.due <= q.cutoff)
      /\ first # 0 => first \in 1..Len(q.learning) /\ q.learning[first].due <= q.cutoff
      /\ soon # 0 => soon \in 1..Len(q.learning) /\ q.learning[soon].due <= AheadCutoff(q)
    BY <1>1, DueByFinds
<1>3. Top(q) = IF first # 0 THEN q.learning[first]
               ELSE IF q.main # <<>> THEN Head(q.main)
               ELSE IF soon # 0 THEN q.learning[soon] ELSE NoEntry
    BY DEF Top
<1>4. \A i \in 1..Len(q.learning) : q.learning[i] \in ToSet(q.learning)
    BY <1>1, ElementsOf
<1> HIDE DEF first, soon
<1>5. QED
    BY <1>2, <1>3, <1>4 DEF IsTop

LEMMA IsTopParts ==
    ASSUME NEW q, Shape(q), NEW e, IsTop(q, e)
    PROVE  /\ InFront(q, e) /\ e \in MainEntries \cup LearnEntries
           /\ e.id \in Cards
           /\ e.kind = "Learn" <=> e \in ToSet(q.learning)
           /\ e.kind = "Learn" => e \in LearnEntries /\ e.due <= AheadCutoff(q)
           /\ e.kind # "Learn" => e \in MainEntries /\ q.main # <<>> /\ e = Head(q.main)
<1>1. /\ q.main \in Seq(MainEntries) /\ ToSet(q.learning) \subseteq LearnEntries
      /\ q.cutoff \in Nat
      /\ \A f \in ToSet(q.learning) : f.id = e.id => f = e
    <2>1. /\ q.main \in Seq(MainEntries) /\ ToSet(q.learning) \subseteq LearnEntries
          /\ q.cutoff \in Nat
          /\ \A f, g \in ToSet(q.main) \cup ToSet(q.learning) : f.id = g.id => f = g
        BY ShapeParts
    <2>2. e \in ToSet(q.main) \cup ToSet(q.learning)
        BY <2>1, TailOf DEF IsTop
    <2>3. QED
        BY <2>1, <2>2
<1>2. \A f \in LearnEntries : f.kind = "Learn" /\ f.due \in Int /\ f.id \in Cards
    BY QueueParameters DEF LearnEntries
<1>3. \A f \in MainEntries : f.kind # "Learn" /\ f.id \in Cards
    BY DEF MainEntries, MainKinds
<1>4. q.main # <<>> => Head(q.main) \in MainEntries
    BY <1>1, TailOf
<1>5. q.cutoff <= AheadCutoff(q) /\ AheadCutoff(q) \in Nat
    BY <1>1, QueueParameters DEF AheadCutoff
<1>6. CASE e \in ToSet(q.learning) /\ e.due <= AheadCutoff(q)
    BY <1>1, <1>2, <1>6 DEF InFront
<1>7. CASE q.main # <<>> /\ e = Head(q.main)
    BY <1>1, <1>2, <1>3, <1>4, <1>7 DEF InFront
<1>8. e \in ToSet(q.learning) /\ e.due <= q.cutoff => e.due <= AheadCutoff(q)
    BY <1>1, <1>2, <1>5
<1>9. QED
    BY <1>6, <1>7, <1>8 DEF IsTop

(* A queue with the same cards of which e is in front has it on top.       *)
LEMMA TopAgain ==
    ASSUME NEW q, Shape(q), NEW e, IsTop(q, e), NEW p, Shape(p),
           p.main = q.main, ToSet(p.learning) = ToSet(q.learning), p.cutoff = q.cutoff,
           e \in ToSet(q.learning) => p.learning # <<>> /\ p.learning[1] = e
    PROVE  Top(p) = e
<1> DEFINE first == DueBy(p.learning, p.cutoff)
           soon  == DueBy(p.learning, AheadCutoff(p))
<1>1. p.learning \in Seq(LearnEntries) /\ ToSet(p.learning) \subseteq LearnEntries
      /\ AheadCutoff(p) = AheadCutoff(q)
    BY ShapeParts DEF AheadCutoff
<1>2. /\ first = 0 => \A f \in ToSet(p.learning) : ~(f.due <= p.cutoff)
      /\ first # 0 => /\ first \in 1..Len(p.learning) /\ p.learning[first].due <= p.cutoff
                      /\ \A i \in 1..Len(p.learning) : p.learning[i].due <= p.cutoff => first <= i
      /\ soon = 0 => \A f \in ToSet(p.learning) : ~(f.due <= AheadCutoff(p))
      /\ soon # 0 => /\ soon \in 1..Len(p.learning) /\ p.learning[soon].due <= AheadCutoff(p)
                     /\ \A i \in 1..Len(p.learning) :
                           p.learning[i].due <= AheadCutoff(p) => soon <= i
    BY <1>1, DueByFinds
<1>3. Top(p) = IF first # 0 THEN p.learning[first]
               ELSE IF p.main # <<>> THEN Head(p.main)
               ELSE IF soon # 0 THEN p.learning[soon] ELSE NoEntry
    BY DEF Top
<1>4. /\ \A i \in 1..Len(p.learning) : p.learning[i] \in ToSet(p.learning)
      /\ Len(p.learning) \in Nat /\ (p.learning # <<>> => 1 \in 1..Len(p.learning))
    BY <1>1, ElementsOf, EmptySeq
<1> HIDE DEF first, soon
<1>5. CASE e \in ToSet(q.learning) /\ e.due <= q.cutoff
    <2>1. p.learning[1] = e /\ 1 \in 1..Len(p.learning)
        BY <1>4, <1>5
    <2>2. first # 0
        BY <1>2, <1>5
    <2>3. first <= 1 /\ first \in 1..Len(p.learning)
        BY <2>1, <2>2, <1>2, <1>5
    <2>4. first = 1
        BY <2>3
    <2>5. QED
        BY <2>1, <2>4, <1>3
<1>6. CASE /\ q.main # <<>> /\ e = Head(q.main)
           /\ \A f \in ToSet(q.learning) : ~(f.due <= q.cutoff)
    <2>1. first = 0
        BY <1>2, <1>4, <1>6
    <2>2. QED
        BY <2>1, <1>3, <1>6
<1>7. CASE /\ q.main = <<>> /\ e \in ToSet(q.learning) /\ e.due <= AheadCutoff(q)
           /\ \A f \in ToSet(q.learning) : ~(f.due <= q.cutoff)
    <2>1. first = 0
        BY <1>2, <1>4, <1>7
    <2>2. p.learning[1] = e /\ 1 \in 1..Len(p.learning)
        BY <1>4, <1>7
    <2>3. soon # 0
        BY <1>1, <1>2, <1>7
    <2>4. soon <= 1 /\ soon \in 1..Len(p.learning)
        BY <2>2, <2>3, <1>1, <1>2, <1>7
    <2>5. soon = 1
        BY <2>4
    <2>6. QED
        BY <2>1, <2>2, <2>5, <1>3, <1>7
<1>8. QED
    BY <1>5, <1>6, <1>7 DEF IsTop

-----------------------------------------------------------------------------
(* The queue that an answer leaves, and what undo and redo make of it.     *)

(* The rows an answer may leave.                                           *)
LEMMA AnswersAreRows ==
    ASSUME TypesOK, NEW c \in Cards, NEW row \in Answers(c)
    PROVE  /\ row \in Rows /\ row.mtime = now
           /\ Requeues(row) => Entry(c, row) \in LearnEntries
<1>1. cards[c] \in Rows /\ now \in Nat
    BY DEF TypesOK, RowsBy
<1>2. Steps \subseteq Nat \ {0} /\ Tomorrow \in Nat /\ Ahead \in Nat
      /\ FirstQueue[c] \in {"New", "Review", "DayLearn"}
    BY QueueParameters
<1> DEFINE r0 == [cards[c] EXCEPT !.mtime = now]
           r1 == [r0 EXCEPT !.reps = 1]
<1>3. r0 \in Rows /\ r0.mtime = now /\ r1 \in Rows /\ r1.mtime = now
    BY <1>1 DEF Rows
<1>4. row \in Rows /\ row.mtime = now
    <2>1. CASE c \in Previewed
        <3>1. \/ \E d \in Steps : row = [r0 EXCEPT !.queue = "PreviewRepeat", !.due = now + d]
              \/ row = [r0 EXCEPT !.queue = FirstQueue[c], !.due = 0, !.here = FALSE]
            BY <2>1 DEF Answers
        <3> HIDE DEF r0
        <3>2. CASE \E d \in Steps : row = [r0 EXCEPT !.queue = "PreviewRepeat", !.due = now + d]
            <4>1. PICK d \in Steps : row = [r0 EXCEPT !.queue = "PreviewRepeat", !.due = now + d]
                BY <3>2
            <4>2. now + d \in Nat
                BY <1>1, <1>2
            <4>3. QED
                BY <4>1, <4>2, <1>3 DEF Rows, QueueNames, MainKinds
        <3>3. CASE row = [r0 EXCEPT !.queue = FirstQueue[c], !.due = 0, !.here = FALSE]
            <4>1. FirstQueue[c] \in QueueNames
                BY <1>2 DEF QueueNames, MainKinds
            <4>2. QED
                BY <3>3, <4>1, <1>3 DEF Rows
        <3>4. QED
            BY <3>1, <3>2, <3>3
    <2>2. CASE c \notin Previewed
        <3>1. \/ \E d \in Steps : row = [r1 EXCEPT !.queue = "Learn", !.due = now + d]
              \/ \E k \in {"Review", "DayLearn"} :
                    row = [r1 EXCEPT !.queue = k, !.due = Tomorrow]
              \/ row = [r1 EXCEPT !.queue = "Suspended"]
            BY <2>2 DEF Answers
        <3> HIDE DEF r1
        <3>2. CASE \E d \in Steps : row = [r1 EXCEPT !.queue = "Learn", !.due = now + d]
            <4>1. PICK d \in Steps : row = [r1 EXCEPT !.queue = "Learn", !.due = now + d]
                BY <3>2
            <4>2. now + d \in Nat
                BY <1>1, <1>2
            <4>3. QED
                BY <4>1, <4>2, <1>3 DEF Rows, QueueNames, MainKinds
        <3>3. CASE \E k \in {"Review", "DayLearn"} :
                      row = [r1 EXCEPT !.queue = k, !.due = Tomorrow]
            BY <3>3, <1>2, <1>3 DEF Rows, QueueNames, MainKinds
        <3>4. CASE row = [r1 EXCEPT !.queue = "Suspended"]
            BY <3>4, <1>3 DEF Rows, QueueNames, MainKinds
        <3>5. QED
            BY <3>1, <3>2, <3>3, <3>4
    <2>3. QED
        BY <2>1, <2>2
<1>5. ASSUME Requeues(row)  PROVE Entry(c, row) \in LearnEntries
    <2>1. IsIntraday(row) /\ row.due < Tomorrow /\ row.due \in Nat
        BY <1>4, <1>5 DEF Requeues, Rows
    <2>2. row.due \in 0..(Tomorrow + Ahead)
        BY <2>1, <1>2
    <2>3. QED
        BY <2>1, <2>2, <1>4 DEF Entry, LearnEntries, Rows
<1>6. QED
    BY <1>4, <1>5

LEMMA AnsweredQueue ==
    ASSUME TypesOK, GoodQueue(queues), queues.cutoff <= now,
           NEW e, IsTop(queues, e),
           NEW row \in Answers(e.id),
           NEW q \in QueuesAfter(PopEntry(queues, e.id), e.id, row),
           NEW requeue, requeue = IF Requeues(row) THEN {EntryOf(q, e.id)} ELSE {}
    PROVE  /\ CanPop(queues, e.id) /\ EntryOf(queues, e.id) = e
           /\ GoodQueue(q) /\ q.built = queues.built /\ q.cutoff = queues.cutoff
           /\ q.main = IF e.kind = "Learn" THEN queues.main ELSE Tail(queues.main)
           /\ ToSet(q.learning) = (ToSet(queues.learning) \ {e}) \cup requeue
           /\ Requeued(requeue, e.id)
<1> DEFINE p == PopEntry(queues, e.id)
           f == RequeueEntry(p, Entry(e.id, row))
<1>1. Shape(queues) /\ MainExact(queues) /\ LearningExact(queues)
    BY DEF GoodQueue
<1>2. /\ InFront(queues, e) /\ e.id \in Cards
      /\ e.kind = "Learn" => e.due <= AheadCutoff(queues)
    BY <1>1, IsTopParts
<1>3. /\ CanPop(queues, e.id) /\ EntryOf(queues, e.id) = e
      /\ Shape(p) /\ MainExact(p) /\ LearningExact(p) /\ Without(p, e.id)
      /\ p.built = queues.built /\ p.cutoff = queues.cutoff
      /\ p.main = IF e.kind = "Learn" THEN queues.main ELSE Tail(queues.main)
      /\ ToSet(p.learning) = ToSet(queues.learning) \ {e}
    BY <1>1, <1>2, PopOf
<1>4. q \in IF Requeues(row) THEN {InsertLearning(p, f, i) : i \in Places(p.learning, f)}
            ELSE {p}
    BY DEF QueuesAfter
<1> HIDE DEF p, f
<1>5. CASE ~Requeues(row)
    <2>1. q = p /\ requeue = {}
        BY <1>4, <1>5
    <2>2. QED
        BY <2>1, <1>3 DEF GoodQueue, Requeued
<1>6. CASE Requeues(row)
    <2>1. now \in Nat /\ now <= MaxTime /\ p.cutoff <= now
        BY <1>3 DEF TypesOK
    <2>2. Entry(e.id, row) \in LearnEntries /\ Entry(e.id, row).id = e.id
        BY <1>2, <1>6, AnswersAreRows DEF Entry
    <2>3. f \in LearnEntries /\ f.id = e.id
        BY <2>1, <2>2, <1>3, RequeueOf DEF f
    <2>4. PICK i \in Places(p.learning, f) : q = InsertLearning(p, f, i)
        BY <1>4, <1>6
    <2>5. /\ Shape(q) /\ MainExact(q) /\ LearningExact(q)
          /\ q.built = p.built /\ q.cutoff = p.cutoff /\ q.main = p.main
          /\ ToSet(q.learning) = ToSet(p.learning) \cup {f}
        BY <2>3, <2>4, <1>3, InsertOf
    <2>6. EntryOf(q, e.id) = f
        BY <2>3, <2>5, PopLearning
    <2>7. requeue = {f}
        BY <2>6, <1>6
    <2>8. QED
        BY <2>3, <2>5, <2>7, <1>3 DEF GoodQueue, Requeued
<1>7. QED
    BY <1>5, <1>6

(* The queue an answer left, when the answer is undone.                    *)
LEMMA UndoneOf ==
    ASSUME NEW step, AnswerStep(step), NEW q, Shape(q), MainExact(q),
           Left(step, q.main, ToSet(q.learning))
    PROVE  LET u == UndoneQueue(q, step.update)
           IN  /\ GoodQueue(u) /\ u.built = q.built
               /\ Given(step, u.main, ToSet(u.learning))
               /\ u.cutoff = step.was.cutoff /\ u.counts = step.was.counts
               /\ Top(u) = Top(step.was)
<1> DEFINE update == step.update
           was == step.was
           e == update.entry
           L == ToSet(was.learning)
           p == PopEntry(was, e.id)
           r == RestoreCutoff(q, update)
           v == RemoveAll(r, update.requeue)
           u == PushUndoEntry(v, e)
<1>1. /\ GoodQueue(was) /\ update.cutoff = was.cutoff /\ e = Top(was) /\ e # NoEntry
      /\ Requeued(update.requeue, e.id)
      /\ update.learning = LearningIn(ToSet(MainAfter(step)), LearningAfter(step),
                                      AheadCutoff(was))
    BY DEF AnswerStep
<1>2. Shape(was) /\ MainExact(was) /\ LearningExact(was)
    BY <1>1 DEF GoodQueue
<1>3. IsTop(was, e)
    BY <1>1, <1>2, TopIsTop
<1>4. /\ InFront(was, e) /\ e \in MainEntries \cup LearnEntries
      /\ e.kind = "Learn" <=> e \in L
      /\ e.kind = "Learn" => e \in LearnEntries /\ e.due <= AheadCutoff(was)
      /\ e.kind # "Learn" => e \in MainEntries /\ was.main # <<>> /\ e = Head(was.main)
    BY <1>2, <1>3, IsTopParts
<1>5. /\ Without(p, e.id)
      /\ p.main = IF e.kind = "Learn" THEN was.main ELSE Tail(was.main)
      /\ ToSet(p.learning) = L \ {e}
    <2> HIDE DEF update, was, e
    <2>1. Shape(was) /\ MainExact(was) /\ InFront(was, e)
        BY <1>2, <1>4
    <2>2. QED
        BY <2>1, PopOf
<1>6. q.main = p.main /\ ToSet(q.learning) = (L \ {e}) \cup update.requeue
    BY <1>5 DEF Left, MainAfter, LearningAfter
<1>7. was.main \in Seq(MainEntries) /\ was.cutoff \in Nat
    BY <1>2, ShapeParts
<1>8. UndoneQueue(q, update) = u
    BY DEF UndoneQueue
<1>9. update.learning = LearningIn(ToSet(q.main), ToSet(q.learning), update.cutoff + Ahead)
    BY <1>1 DEF Left, AheadCutoff
<1> HIDE DEF p, u, v
<1>10. /\ GoodQueue(r) /\ r.built = q.built /\ r.cutoff = was.cutoff /\ r.main = q.main
       /\ r.learning = q.learning
    <2> HIDE DEF update, was
    <2>1. update.cutoff \in Nat
        BY <1>1, <1>7
    <2>2. QED
        BY <2>1, <1>1, <1>9, RestoreOf
<1> HIDE DEF update, was, e, L, r
<1>11. /\ GoodQueue(v) /\ v.built = q.built /\ v.cutoff = was.cutoff /\ v.main = p.main
       /\ ToSet(v.learning) = L \ {e} /\ Without(v, e.id)
    <2>1. CASE update.requeue = {}
        <3>1. v = r
            BY <2>1 DEF v, RemoveAll
        <3>2. QED
            BY <2>1, <3>1, <1>5, <1>6, <1>10 DEF Without
    <2>2. CASE update.requeue # {}
        <3>1. PICK f \in update.requeue :
                  update.requeue = {f} /\ f \in LearnEntries /\ f.id = e.id
            BY <2>2, <1>1 DEF Requeued
        <3>2. v = RemoveLearning(r, f.id)
            <4>1. (CHOOSE g \in {f} : TRUE) = f
                OBVIOUS
            <4>2. QED
                BY <4>1, <2>2, <3>1 DEF v, RemoveAll
        <3>3. f \in ToSet(r.learning)
            BY <3>1, <1>6, <1>10
        <3>4. Shape(r) /\ MainExact(r) /\ LearningExact(r)
            BY <1>10 DEF GoodQueue
        <3>5. /\ Shape(v) /\ MainExact(v) /\ LearningExact(v) /\ Without(v, f.id)
              /\ v.built = r.built /\ v.cutoff = r.cutoff /\ v.main = r.main
              /\ ToSet(v.learning) = ToSet(r.learning) \ {f}
            BY <3>2, <3>3, <3>4, RemoveOf
        <3>6. f \notin L \ {e}
            BY <3>1, <1>5 DEF Without
        <3>7. ToSet(v.learning) = L \ {e}
            BY <3>1, <3>5, <3>6, <1>6, <1>10
        <3>8. QED
            BY <3>1, <3>5, <3>7, <1>6, <1>10 DEF GoodQueue
    <2>3. QED
        BY <2>1, <2>2
<1>12. Shape(v) /\ MainExact(v) /\ LearningExact(v) /\ AheadCutoff(v) = AheadCutoff(was)
    BY <1>11 DEF GoodQueue, AheadCutoff
<1>13. /\ GoodQueue(u) /\ u.built = q.built /\ u.cutoff = was.cutoff
       /\ u.main = was.main /\ ToSet(u.learning) = L
       /\ e \in L => u.learning # <<>> /\ u.learning[1] = e
    <2>1. CASE e.kind = "Learn"
        <3>1. /\ Shape(u) /\ MainExact(u) /\ LearningExact(u)
              /\ u.built = v.built /\ u.cutoff = v.cutoff /\ u.main = v.main
              /\ u.learning = <<e>> \o v.learning
              /\ ToSet(u.learning) = ToSet(v.learning) \cup {e}
            BY <2>1, <1>4, <1>11, <1>12, PushLearning DEF u
        <3>2. v.learning \in Seq(LearnEntries)
            BY <1>12, ShapeParts
        <3>3. u.learning # <<>> /\ u.learning[1] = e
            BY <2>1, <3>1, <3>2, <1>4, ConsOf
        <3>4. QED
            BY <2>1, <3>1, <3>3, <1>4, <1>5, <1>11 DEF GoodQueue
    <2>2. CASE e.kind # "Learn"
        <3>1. /\ Shape(u) /\ MainExact(u) /\ LearningExact(u)
              /\ u.built = v.built /\ u.cutoff = v.cutoff /\ u.main = <<e>> \o v.main
              /\ u.learning = v.learning
            BY <2>2, <1>4, <1>11, <1>12, PushMain DEF u
        <3>2. was.main = <<e>> \o v.main
            BY <2>2, <1>4, <1>5, <1>7, <1>11, TailOf
        <3>3. QED
            BY <2>2, <3>1, <3>2, <1>4, <1>11 DEF GoodQueue
    <2>3. QED
        BY <2>1, <2>2
<1>14. Top(u) = e
    <2>1. Shape(u)
        BY <1>13 DEF GoodQueue
    <2>2. QED
        BY <2>1, <1>2, <1>3, <1>13, TopAgain DEF L
<1>15. u.counts = was.counts
    <2>1. u.counts \in Counters /\ was.counts \in Counters
        BY <1>2, <1>13, ShapeParts DEF GoodQueue
    <2>2. /\ u.counts.new = was.counts.new /\ u.counts.review = was.counts.review
          /\ u.counts.learning = was.counts.learning
        BY <1>2, <1>13 DEF GoodQueue, MainExact, LearningExact, AheadCutoff, L
    <2>3. QED
        BY <2>1, <2>2 DEF Counters
<1>16. QED
    BY <1>1, <1>8, <1>13, <1>14, <1>15 DEF Given, update, was, L

(* The queue an answer was given to, when it is given again.               *)
LEMMA RedoneOf ==
    ASSUME NEW step, AnswerStep(step), NEW q, Shape(q), MainExact(q),
           Given(step, q.main, ToSet(q.learning))
    PROVE  /\ CanPop(q, step.update.entry.id)
           /\ \A u \in RedoneQueues(q, step.update) :
                 /\ GoodQueue(u) /\ u.built = q.built
                 /\ Left(step, u.main, ToSet(u.learning))
                 /\ u.cutoff = step.update.cutoff
<1> DEFINE update == step.update
           was == step.was
           e == update.entry
           p == PopEntry(q, e.id)
<1>1. /\ GoodQueue(was) /\ update.cutoff = was.cutoff /\ e = Top(was) /\ e # NoEntry
      /\ Requeued(update.requeue, e.id)
      /\ update.learning = LearningIn(ToSet(MainAfter(step)), LearningAfter(step),
                                      AheadCutoff(was))
    BY DEF AnswerStep
<1>2. Shape(was) /\ was.cutoff \in Nat
    BY <1>1, ShapeParts DEF GoodQueue
<1>3. InFront(was, e)
    BY <1>1, <1>2, TopIsTop, IsTopParts
<1>4. InFront(q, e)
    BY <1>3 DEF InFront, Given
<1>5. /\ CanPop(q, e.id) /\ Shape(p) /\ MainExact(p) /\ Without(p, e.id)
      /\ p.built = q.built
      /\ p.main = IF e.kind = "Learn" THEN q.main ELSE Tail(q.main)
      /\ ToSet(p.learning) = ToSet(q.learning) \ {e}
    BY <1>4, PopOf
<1>6. p.main = MainAfter(step) /\ ToSet(p.learning) \cup update.requeue = LearningAfter(step)
    BY <1>5 DEF Given, MainAfter, LearningAfter
<1>7. ASSUME NEW u \in RedoneQueues(q, update)
      PROVE  /\ GoodQueue(u) /\ u.built = q.built
             /\ Left(step, u.main, ToSet(u.learning))
             /\ u.cutoff = update.cutoff
    <2>1. PICK j \in (IF update.requeue = {} THEN {p}
                      ELSE UNION {{InsertLearning(p, f, i) : i \in Places(p.learning, f)}
                                  : f \in update.requeue}) :
              u = RestoreCutoff(j, update)
        BY <1>7 DEF RedoneQueues
    <2> HIDE DEF p, e
    <2>2. /\ Shape(j) /\ MainExact(j) /\ j.built = q.built /\ j.main = MainAfter(step)
          /\ ToSet(j.learning) = LearningAfter(step)
        <3>1. CASE update.requeue = {}
            BY <3>1, <2>1, <1>5, <1>6
        <3>2. CASE update.requeue # {}
            <4>1. PICK f \in update.requeue :
                      update.requeue = {f} /\ f \in LearnEntries /\ f.id = e.id
                BY <3>2, <1>1 DEF Requeued
            <4>2. PICK i \in Places(p.learning, f) : j = InsertLearning(p, f, i)
                BY <3>2, <4>1, <2>1
            <4>3. /\ Shape(j) /\ MainExact(j) /\ j.built = p.built /\ j.main = p.main
                  /\ ToSet(j.learning) = ToSet(p.learning) \cup {f}
                BY <4>1, <4>2, <1>5, InsertOf
            <4>4. QED
                BY <4>1, <4>3, <1>5, <1>6
        <3>3. QED
            BY <3>1, <3>2
    <2>3. update.cutoff \in Nat
          /\ update.learning = LearningIn(ToSet(j.main), ToSet(j.learning), update.cutoff + Ahead)
        BY <2>2, <1>1, <1>2 DEF AheadCutoff
    <2> HIDE DEF update
    <2>4. /\ GoodQueue(u) /\ u.built = j.built /\ u.cutoff = update.cutoff /\ u.main = j.main
          /\ u.learning = j.learning
        BY <2>1, <2>2, <2>3, RestoreOf
    <2>5. QED
        BY <2>2, <2>4 DEF Left
<1>8. QED
    BY <1>5, <1>7

-----------------------------------------------------------------------------
(* The stacks of steps.                                                    *)

LEMMA IsSeqOf ==
    ASSUME NEW S, NEW s \in Seq(S)
    PROVE  IsSeq(s)
<1>1. Len(s) \in Nat /\ s \in [1..Len(s) -> S] /\ DOMAIN s = 1..Len(s)
    BY LenProperties
<1>2. s \in [1..Len(s) -> ToSet(s)]
    BY <1>1 DEF ToSet
<1>3. QED
    BY <1>1, <1>2, SeqDef DEF IsSeq

LEMMA ConsIsSeq ==
    ASSUME NEW s, IsSeq(s), NEW e
    PROVE  /\ IsSeq(<<e>> \o s) /\ <<e>> \o s # <<>> /\ (<<e>> \o s)[1] = e
           /\ ToSet(<<e>> \o s) = ToSet(s) \cup {e}
           /\ Len(<<e>> \o s) = Len(s) + 1 /\ Len(s) \in Nat
           /\ \A i \in 1..Len(s) : (<<e>> \o s)[i + 1] = s[i]
<1> DEFINE S == ToSet(s) \cup {e}
<1>1. s \in Seq(S) /\ e \in S
    BY SeqMonotonic DEF IsSeq
<1> HIDE DEF S
<1>2. /\ <<e>> \o s \in Seq(S) /\ <<e>> \o s # <<>> /\ (<<e>> \o s)[1] = e
      /\ ToSet(<<e>> \o s) = ToSet(s) \cup {e}
      /\ Len(<<e>> \o s) = Len(s) + 1 /\ Len(s) \in Nat
      /\ \A i \in 1..Len(s) : (<<e>> \o s)[i + 1] = s[i]
    BY <1>1, ConsOf, LenProperties
<1>3. IsSeq(<<e>> \o s)
    BY <1>2, IsSeqOf
<1>4. QED
    BY <1>2, <1>3

LEMMA TailIsSeq ==
    ASSUME NEW s, IsSeq(s), s # <<>>
    PROVE  /\ IsSeq(Tail(s)) /\ ToSet(Tail(s)) \subseteq ToSet(s)
           /\ Head(s) = s[1] /\ s[1] \in ToSet(s)
           /\ Len(s) \in Nat \ {0} /\ Len(Tail(s)) = Len(s) - 1
           /\ \A i \in 1..(Len(s) - 1) : Tail(s)[i] = s[i + 1]
           /\ Tail(s) # <<>> => Len(s) > 1
<1>1. s \in Seq(ToSet(s))
    BY DEF IsSeq
<1>2. /\ Head(s) = s[1] /\ Head(s) \in ToSet(s)
      /\ Tail(s) \in Seq(ToSet(s)) /\ Len(Tail(s)) = Len(s) - 1 /\ Len(s) \in Nat \ {0}
      /\ \A i \in 1..Len(Tail(s)) : Tail(s)[i] = s[i + 1]
      /\ ToSet(s) = ToSet(Tail(s)) \cup {Head(s)}
    BY <1>1, TailOf
<1>3. IsSeq(Tail(s))
    BY <1>2, IsSeqOf
<1>4. Tail(s) # <<>> => Len(Tail(s)) \in Nat \ {0}
    BY <1>2, EmptySeq
<1>5. QED
    BY <1>2, <1>3, <1>4

LEMMA ChainPush ==
    ASSUME NEW undo, IsSeq(undo), NEW redo, Chain(undo, redo), NEW step,
           undo # <<>> => Linked(step, undo[1])
    PROVE  Chain(<<step>> \o undo, <<>>)
<1> DEFINE u == <<step>> \o undo
<1>1. /\ IsSeq(u) /\ u[1] = step /\ Len(u) = Len(undo) + 1 /\ Len(undo) \in Nat
      /\ \A i \in 1..Len(undo) : u[i + 1] = undo[i]
    BY ConsIsSeq
<1> HIDE DEF u
<1>2. ASSUME NEW i \in 1..(Len(u) - 1)  PROVE Linked(u[i], u[i + 1])
    <2>1. CASE i = 1
        <3>1. undo # <<>> /\ u[1 + 1] = undo[1]
            BY <1>1, <1>2, <2>1, EmptySeq
        <3>2. QED
            BY <3>1, <2>1, <1>1
    <2>2. CASE i # 1
        <3>1. i - 1 \in 1..(Len(undo) - 1) /\ (i - 1) + 1 = i /\ i \in 1..Len(undo)
              /\ i - 1 \in 1..Len(undo)
            BY <1>1, <2>2
        <3>2. u[i] = undo[i - 1] /\ u[i + 1] = undo[i]
            BY <3>1, <1>1
        <3>3. Linked(undo[i - 1], undo[(i - 1) + 1])
            BY <3>1 DEF Chain
        <3>4. QED
            BY <3>1, <3>2, <3>3
    <2>3. QED
        BY <2>1, <2>2
<1>3. \A i \in 1..(Len(<<>>) - 1) : FALSE
    BY EmptySeq
<1>4. QED
    BY <1>2, <1>3 DEF Chain, u

LEMMA LinkedAlike ==
    ASSUME NEW a, NEW b, a.update = b.update, a.was = b.was
    PROVE  \A c : (Linked(a, c) <=> Linked(b, c)) /\ (Linked(c, a) <=> Linked(c, b))
BY DEF Linked, Given, MainAfter, LearningAfter

LEMMA ChainUndo ==
    ASSUME NEW undo, IsSeq(undo), undo # <<>>, NEW redo, IsSeq(redo), Chain(undo, redo),
           NEW step, step.update = undo[1].update, step.was = undo[1].was
    PROVE  /\ Chain(Tail(undo), <<step>> \o redo)
           /\ Tail(undo) # <<>> => Linked(undo[1], Tail(undo)[1])
<1> DEFINE r == <<step>> \o redo
           u == Tail(undo)
<1>1. /\ IsSeq(r) /\ r[1] = step /\ Len(r) = Len(redo) + 1 /\ Len(redo) \in Nat /\ r # <<>>
      /\ \A i \in 1..Len(redo) : r[i + 1] = redo[i]
    BY ConsIsSeq
<1>2. /\ IsSeq(u) /\ Len(undo) \in Nat \ {0} /\ Len(u) = Len(undo) - 1
      /\ \A i \in 1..(Len(undo) - 1) : u[i] = undo[i + 1]
      /\ u # <<>> => Len(undo) > 1
    BY TailIsSeq
<1> HIDE DEF r, u
<1>3. u # <<>> => Linked(undo[1], u[1])
    <2>1. u # <<>> => 1 \in 1..(Len(undo) - 1)
        BY <1>2
    <2>2. QED
        BY <2>1, <1>2 DEF Chain
<1>4. \A c : (Linked(step, c) <=> Linked(undo[1], c)) /\ (Linked(c, step) <=> Linked(c, undo[1]))
    BY LinkedAlike
<1>5. ASSUME NEW i \in 1..(Len(u) - 1)  PROVE Linked(u[i], u[i + 1])
    <2>1. /\ i + 1 \in 1..(Len(undo) - 1) /\ i \in 1..(Len(undo) - 1)
        BY <1>2
    <2>2. u[i] = undo[i + 1] /\ u[i + 1] = undo[(i + 1) + 1]
        BY <2>1, <1>2
    <2>3. QED
        BY <2>1, <2>2 DEF Chain
<1>6. ASSUME NEW i \in 1..(Len(r) - 1)  PROVE Linked(r[i + 1], r[i])
    <2>1. CASE i = 1
        <3>1. redo # <<>> /\ r[1 + 1] = redo[1]
            BY <1>1, <1>6, <2>1, EmptySeq
        <3>2. Linked(redo[1], undo[1])
            BY <3>1 DEF Chain
        <3>3. QED
            BY <3>1, <3>2, <2>1, <1>1, <1>4
    <2>2. CASE i # 1
        <3>1. i - 1 \in 1..(Len(redo) - 1) /\ (i - 1) + 1 = i /\ i \in 1..Len(redo)
              /\ i - 1 \in 1..Len(redo)
            BY <1>1, <2>2
        <3>2. r[i] = redo[i - 1] /\ r[i + 1] = redo[i]
            BY <3>1, <1>1
        <3>3. Linked(redo[(i - 1) + 1], redo[i - 1])
            BY <3>1 DEF Chain
        <3>4. QED
            BY <3>1, <3>2, <3>3
    <2>3. QED
        BY <2>1, <2>2
<1>7. u # <<>> => Linked(r[1], u[1])
    BY <1>1, <1>3, <1>4
<1>8. QED
    BY <1>3, <1>5, <1>6, <1>7 DEF Chain, r, u

LEMMA ChainRedo ==
    ASSUME NEW undo, IsSeq(undo), NEW redo, IsSeq(redo), redo # <<>>, Chain(undo, redo),
           NEW step, step.update = redo[1].update, step.was = redo[1].was
    PROVE  /\ Chain(<<step>> \o undo, Tail(redo))
           /\ Tail(redo) # <<>> => Linked(Tail(redo)[1], redo[1])
<1> DEFINE u == <<step>> \o undo
           r == Tail(redo)
<1>1. /\ IsSeq(u) /\ u[1] = step /\ Len(u) = Len(undo) + 1 /\ Len(undo) \in Nat /\ u # <<>>
      /\ \A i \in 1..Len(undo) : u[i + 1] = undo[i]
    BY ConsIsSeq
<1>2. /\ IsSeq(r) /\ Len(redo) \in Nat \ {0} /\ Len(r) = Len(redo) - 1
      /\ \A i \in 1..(Len(redo) - 1) : r[i] = redo[i + 1]
      /\ r # <<>> => Len(redo) > 1
    BY TailIsSeq
<1> HIDE DEF r, u
<1>3. r # <<>> => Linked(r[1], redo[1])
    <2>1. r # <<>> => 1 \in 1..(Len(redo) - 1)
        BY <1>2
    <2>2. QED
        BY <2>1, <1>2 DEF Chain
<1>4. \A c : (Linked(step, c) <=> Linked(redo[1], c)) /\ (Linked(c, step) <=> Linked(c, redo[1]))
    BY LinkedAlike
<1>5. ASSUME NEW i \in 1..(Len(r) - 1)  PROVE Linked(r[i + 1], r[i])
    <2>1. /\ i + 1 \in 1..(Len(redo) - 1) /\ i \in 1..(Len(redo) - 1)
        BY <1>2
    <2>2. r[i] = redo[i + 1] /\ r[i + 1] = redo[(i + 1) + 1]
        BY <2>1, <1>2
    <2>3. QED
        BY <2>1, <2>2 DEF Chain
<1>6. ASSUME NEW i \in 1..(Len(u) - 1)  PROVE Linked(u[i], u[i + 1])
    <2>1. CASE i = 1
        <3>1. undo # <<>> /\ u[1 + 1] = undo[1]
            BY <1>1, <1>6, <2>1, EmptySeq
        <3>2. Linked(redo[1], undo[1])
            BY <3>1 DEF Chain
        <3>3. QED
            BY <3>1, <3>2, <2>1, <1>1, <1>4
    <2>2. CASE i # 1
        <3>1. i - 1 \in 1..(Len(undo) - 1) /\ (i - 1) + 1 = i /\ i \in 1..Len(undo)
              /\ i - 1 \in 1..Len(undo)
            BY <1>1, <2>2
        <3>2. u[i] = undo[i - 1] /\ u[i + 1] = undo[i]
            BY <3>1, <1>1
        <3>3. Linked(undo[i - 1], undo[(i - 1) + 1])
            BY <3>1 DEF Chain
        <3>4. QED
            BY <3>1, <3>2, <3>3
    <2>3. QED
        BY <2>1, <2>2
<1>7. r # <<>> => Linked(r[1], u[1])
    BY <1>1, <1>3, <1>4
<1>8. QED
    BY <1>3, <1>5, <1>6, <1>7 DEF Chain, r, u

-----------------------------------------------------------------------------
(* Building the queue, and showing its top.                                *)

LEMMA ArrangedOf ==
    ASSUME NEW E, IsFiniteSet(E), NEW s \in SetToSeqs(E),
           \A e, f \in E : e.id = f.id => e = f
    PROVE  s \in Seq(E) /\ Apart(s) /\ ToSet(s) \subseteq E
<1>1. Cardinality(E) \in Nat
    BY FS_CardinalityType
<1>2. s \in [1..Cardinality(E) -> E]
      /\ \A i, j \in 1..Cardinality(E) : i # j => s[i] # s[j]
    BY DEF SetToSeqs
<1>3. s \in Seq(E)
    BY <1>1, <1>2, SeqDef
<1>4. QED
    BY <1>2, <1>3 DEF Apart, ToSet

LEMMA BuiltQueue ==
    ASSUME TypesOK, NEW q \in Builds
    PROVE  GoodQueue(q) /\ q.built = builds + 1 /\ q.cutoff = now
<1>1. PICK v \in Visits : q \in BuildsOf(Gathered(v))
    BY DEF Builds
<1> DEFINE learns == Intraday(Gathered(v))
           others == Gathered(v) \ learns
           E == Entries(others)
           F == Entries(learns)
<1>2. PICK main \in SetToSeqs(E), learning \in SetToSeqs(F) : q = BuiltFrom(main, learning)
    <2>1. PICK main \in SetToSeqs(E), learning \in SortedSeqs(F) : q = BuiltFrom(main, learning)
        BY <1>1 DEF BuildsOf
    <2>2. learning \in SetToSeqs(F)
        BY DEF SortedSeqs
    <2>3. QED
        BY <2>1, <2>2
<1>3. others \subseteq Cards /\ learns \subseteq Cards
    BY DEF Gathered, Due, Intraday
<1>4. now \in Nat /\ builds \in Nat /\ \A c \in Cards : cards[c] \in Rows
    BY DEF TypesOK, RowsBy
<1>5. E \subseteq MainEntries
    <2> SUFFICES ASSUME NEW c \in others  PROVE Entry(c, cards[c]) \in MainEntries
        BY DEF Entries
    <2>1. c \in Cards /\ ~IsIntraday(cards[c]) /\ DueRow(cards[c]) /\ cards[c] \in Rows
        BY <1>3, <1>4 DEF Gathered, Due, Intraday
    <2>2. cards[c].queue \in MainKinds
        BY <2>1 DEF DueRow, MainKinds
    <2>3. QED
        BY <2>1, <2>2 DEF Entry, MainEntries, Rows
<1>6. F \subseteq LearnEntries
    <2> SUFFICES ASSUME NEW c \in learns  PROVE Entry(c, cards[c]) \in LearnEntries
        BY DEF Entries
    <2>1. c \in Cards /\ IsIntraday(cards[c]) /\ DueRow(cards[c]) /\ cards[c] \in Rows
        BY <1>3, <1>4 DEF Gathered, Due, Intraday
    <2>2. cards[c].due \in 0..(Tomorrow + Ahead)
        BY <2>1, QueueParameters DEF DueRow, Rows
    <2>3. QED
        BY <2>1, <2>2 DEF Entry, LearnEntries, Rows
<1>7. \A e \in E \cup F : e.id \in Cards /\ e = Entry(e.id, cards[e.id])
    BY <1>3 DEF Entries, Entry
<1>8. \A e \in E, f \in F : e.id # f.id
    <2> SUFFICES ASSUME NEW c \in others, NEW d \in learns
                 PROVE  Entry(c, cards[c]).id # Entry(d, cards[d]).id
        BY DEF Entries
    <2>1. QED
        BY DEF Entry
<1>9. IsFiniteSet(E) /\ IsFiniteSet(F)
    <2>1. IsFiniteSet(others) /\ IsFiniteSet(learns)
        BY <1>3, QueueParameters, FS_Subset
    <2>2. \A cs : IsFiniteSet(cs) => IsFiniteSet(Entries(cs))
        <3> TAKE cs
        <3> HAVE IsFiniteSet(cs)
        <3> DEFINE g == [c \in cs |-> Entry(c, cards[c])]
        <3>1. g \in Surjection(cs, Entries(cs))
            BY DEF Surjection, Entries
        <3> HIDE DEF g
        <3>2. QED
            BY <3>1, FS_Surjection
    <2>3. QED
        BY <2>1, <2>2
<1> HIDE DEF learns, others, E, F
<1>10. main \in Seq(E) /\ Apart(main) /\ ToSet(main) \subseteq E
    BY <1>2, <1>7, <1>9, ArrangedOf
<1>11. learning \in Seq(F) /\ Apart(learning) /\ ToSet(learning) \subseteq F
    BY <1>2, <1>7, <1>9, ArrangedOf
<1>12. main \in Seq(MainEntries) /\ learning \in Seq(LearnEntries)
    BY <1>5, <1>6, <1>10, <1>11, SeqMonotonic
<1>13. CountsOver(main, learning, now + Ahead) =
         [new |-> NewIn(ToSet(main)), review |-> ReviewIn(ToSet(main)),
          learning |-> LearningIn(ToSet(main), ToSet(learning), now + Ahead)]
    BY <1>10, <1>11, <1>12, CountsOfSets
<1>14. /\ NewIn(ToSet(main)) \in Nat /\ ReviewIn(ToSet(main)) \in Nat
       /\ LearningIn(ToSet(main), ToSet(learning), now + Ahead) \in Nat
    <2>1. IsFiniteSet(ToSet(main)) /\ IsFiniteSet(ToSet(learning))
        BY <1>9, <1>10, <1>11, FS_Subset
    <2>2. QED
        BY <2>1, CountsAreNaturals
<1>15. /\ q.built = builds + 1 /\ q.cutoff = now /\ q.main = main /\ q.learning = learning
       /\ q.counts = CountsOver(main, learning, now + Ahead)
       /\ q = [built |-> q.built, counts |-> q.counts, main |-> q.main,
               learning |-> q.learning, cutoff |-> q.cutoff]
    BY <1>2 DEF BuiltFrom
<1>16. q \in QueueType
    <2>1. q.counts \in Counters
        BY <1>13, <1>14, <1>15 DEF Counters
    <2>2. q.built \in Nat /\ q.cutoff \in Nat
        BY <1>4, <1>15
    <2>3. QED
        BY <2>1, <2>2, <1>12, <1>15 DEF QueueType
<1>17. Shape(q)
    BY <1>8, <1>10, <1>11, <1>15, <1>16 DEF Shape
<1>18. MainExact(q) /\ LearningExact(q)
    BY <1>13, <1>15 DEF MainExact, LearningExact, AheadCutoff
<1>19. QED
    BY <1>15, <1>17, <1>18 DEF GoodQueue

LEMMA CountedOf ==
    ASSUME TypesOK, NEW q, GoodQueue(q), q.cutoff <= now
    PROVE  LET p == Counted(q)
           IN  /\ GoodQueue(p) /\ p.built = q.built /\ p.cutoff <= now
               /\ p.main = q.main /\ p.learning = q.learning
<1>1. now \in Nat
    BY DEF TypesOK
<1>2. CASE Counted(q) = q
    BY <1>2
<1>3. CASE Counted(q) = UpdateCutoff(q)
    <2>1. Shape(q) /\ MainExact(q) /\ LearningExact(q)
        BY DEF GoodQueue
    <2>2. LET p == UpdateCutoff(q)
          IN  /\ GoodQueue(p)
              /\ p.built = q.built /\ p.cutoff = now /\ p.main = q.main
              /\ p.learning = q.learning
        BY <2>1, <1>1, UpdateCutoffOf
    <2>3. QED
        BY <2>2, <1>1, <1>3
<1>4. QED
    BY <1>2, <1>3 DEF Counted

-----------------------------------------------------------------------------
(* The invariant is inductive.                                             *)

LEMMA InitInv == Init => Inv
<1> SUFFICES ASSUME Init  PROVE Inv
    OBVIOUS
<1>1. /\ queues = NoQueues /\ shown = NoCard
      /\ undo_steps = <<>> /\ redo_steps = <<>>
      /\ now = 1 /\ builds = 0 /\ ops = 0
    BY DEF Init
<1>2. TypesOK
    <2>1. RowsBy(cards, Cards, now)
        <3>1. \A c \in Cards : FirstQueue[c] \in QueueNames
            BY QueueParameters DEF QueueNames, MainKinds
        <3>2. "Review" \in QueueNames
            BY DEF QueueNames, MainKinds
        <3>3. QED
            BY <1>1, <3>1, <3>2 DEF Init, RowsBy, Rows
    <2>2. QED
        BY <2>1, <1>1, QueueParameters DEF TypesOK
<1>3. StepsOK
    <2>1. IsSeq(<<>>) /\ ToSet(<<>>) = {}
        BY EmptySeq DEF IsSeq, ToSet
    <2>2. QED
        BY <2>1, <1>1 DEF StepsOK
<1>4. ChainOK
    BY <1>1, EmptySeq DEF ChainOK, Chain
<1>5. QED
    BY <1>1, <1>2, <1>3, <1>4 DEF Inv, QueueOK, ShownOK, PlaceOK

(* What time does not change.                                              *)
LEMMA StepsLater ==
    ASSUME TypesOK, now' \in Nat, now <= now', builds' \in Nat, builds <= builds',
           NEW step, GoodStep(step)
    PROVE  GoodStep(step)'
<1>1. now \in Nat /\ builds \in Nat
    BY DEF TypesOK
<1>2. \E cs \in SUBSET Cards : RowsBy(step.old, cs, now')
    <2>1. PICK cs \in SUBSET Cards : RowsBy(step.old, cs, now)
        BY DEF GoodStep
    <2>2. RowsBy(step.old, cs, now')
        BY <2>1, <1>1 DEF RowsBy, Rows
    <2>3. QED
        BY <2>2
<1>3. ASSUME AnswerStep(step)  PROVE AnswerStep(step)'
    <2>1. step.update.built \in 1..builds'
        BY <1>1, <1>3 DEF AnswerStep
    <2>2. step.update.cutoff <= now'
        <3>1. step.update.cutoff <= now /\ step.update.cutoff \in Nat
            BY <1>3, ShapeParts DEF AnswerStep, GoodQueue
        <3>2. QED
            BY <3>1, <1>1
    <2>3. QED
        BY <2>1, <2>2, <1>3 DEF AnswerStep
<1>4. QED
    BY <1>2, <1>3 DEF GoodStep

LEMMA TickInv ==
    ASSUME Inv, Tick
    PROVE  Inv'
<1> USE DEF Inv
<1>1. /\ now < MaxTime /\ now' = now + 1
      /\ UNCHANGED <<cards, queues, shown, undo_steps, redo_steps, builds, ops>>
    BY DEF Tick
<1>2. now \in Nat /\ builds \in Nat /\ MaxTime \in Nat
    BY QueueParameters DEF TypesOK
<1>3. TypesOK'
    <2>1. RowsBy(cards, Cards, now)
        BY DEF TypesOK
    <2>2. RowsBy(cards, Cards, now')
        BY <2>1, <1>1, <1>2 DEF RowsBy, Rows
    <2>3. RowsBy(cards, Cards, now)'
        BY <2>2, <1>1
    <2>4. QED
        BY <2>3, <1>1, <1>2 DEF TypesOK
<1>4. QueueOK'
    <2>1. queues # NoQueues => queues.cutoff \in Nat
        BY ShapeParts DEF QueueOK, GoodQueue
    <2>2. QED
        BY <2>1, <1>1, <1>2 DEF QueueOK
<1>5. ShownOK'
    BY <1>1 DEF ShownOK
<1>6. StepsOK'
    <2>1. \A step : GoodStep(step) => GoodStep(step)'
        BY <1>1, <1>2, StepsLater
    <2>2. QED
        BY <2>1, <1>1 DEF StepsOK
<1>7. ChainOK'
    BY <1>1 DEF ChainOK
<1>8. PlaceOK'
    BY <1>1 DEF PlaceOK, SameBuild
<1>9. QED
    BY <1>3, <1>4, <1>5, <1>6, <1>7, <1>8

LEMMA StutterInv ==
    ASSUME Inv, UNCHANGED vars
    PROVE  Inv'
<1> USE DEF Inv, vars
<1>1. TypesOK' /\ QueueOK' /\ ShownOK' /\ ChainOK'
    BY DEF TypesOK, QueueOK, ShownOK, ChainOK
<1>2. PlaceOK'
    BY DEF PlaceOK, SameBuild
<1>3. StepsOK'
    <2>1. \A step : GoodStep(step) => GoodStep(step)'
        BY DEF GoodStep, AnswerStep
    <2>2. QED
        BY <2>1 DEF StepsOK
<1>4. QED
    BY <1>1, <1>2, <1>3

LEMMA GetQueuedCardsInv ==
    ASSUME Inv, GetQueuedCards
    PROVE  Inv'
<1> USE DEF Inv
<1>1. /\ shown = NoCard
      /\ UNCHANGED <<cards, undo_steps, redo_steps, now, ops>>
    BY DEF GetQueuedCards
<1>2. now \in Nat /\ builds \in Nat
    BY DEF TypesOK
<1>3. PICK q : /\ Show(q) /\ GoodQueue(q) /\ q.cutoff <= now /\ q.built \in 1..builds'
               /\ \/ queues = NoQueues /\ builds' = builds + 1 /\ q.built = builds + 1
                  \/ queues # NoQueues /\ builds' = builds /\ q = queues
    <2>1. CASE queues = NoQueues
        <3>1. PICK q \in Builds : Show(q) /\ builds' = builds + 1
            BY <2>1 DEF GetQueuedCards
        <3>2. GoodQueue(q) /\ q.built = builds + 1 /\ q.cutoff = now
            BY BuiltQueue
        <3>3. QED
            BY <2>1, <3>1, <3>2, <1>2
    <2>2. CASE queues # NoQueues
        <3>1. Show(queues) /\ builds' = builds
            BY <2>2 DEF GetQueuedCards
        <3>2. QED
            BY <2>2, <3>1 DEF QueueOK
    <2>3. QED
        BY <2>1, <2>2
<1>4. builds' \in Nat /\ builds <= builds'
    BY <1>2, <1>3
<1> DEFINE p == Counted(q)
<1>5. /\ GoodQueue(p) /\ p.built = q.built /\ p.cutoff <= now
      /\ p.main = q.main /\ p.learning = q.learning
    BY <1>3, CountedOf
<1>6. /\ queues' = p
      /\ shown' = IF Top(p) # NoEntry /\ Fresh(Top(p)) THEN Top(p).id ELSE NoCard
    BY <1>3 DEF Show
<1> HIDE DEF p
<1>7. p # NoQueues
    <2>1. p.built \in 1..builds'
        BY <1>3, <1>5
    <2>2. NoQueues.built = 0
        BY DEF NoQueues
    <2>3. QED
        BY <2>1, <2>2
<1>8. Top(p) # NoEntry => Top(p).id \in Cards
    BY <1>5, TopIsTop, IsTopParts DEF GoodQueue
<1>9. TypesOK'
    BY <1>1, <1>4, <1>6, <1>8 DEF TypesOK
<1>10. QueueOK'
    <2>1. GoodQueue(queues') /\ queues'.built \in 1..builds' /\ queues'.cutoff <= now'
        BY <1>1, <1>3, <1>5, <1>6
    <2>2. QED
        BY <2>1 DEF QueueOK
<1>11. ShownOK'
    BY <1>6, <1>7 DEF ShownOK
<1>12. StepsOK'
    <2>1. \A step : GoodStep(step) => GoodStep(step)'
        BY <1>1, <1>2, <1>4, StepsLater
    <2>2. QED
        BY <2>1, <1>1 DEF StepsOK
<1>13. ChainOK'
    BY <1>1 DEF ChainOK
<1>14. PlaceOK'
    <2>1. CASE queues = NoQueues
        <3>1. queues'.built = builds + 1
            BY <2>1, <1>3, <1>5, <1>6
        <3>2. ASSUME NEW step \in ToSet(undo_steps) \cup ToSet(redo_steps)
              PROVE  step.update.built # builds + 1
            <4>1. step.update.built = 0 \/ step.update.built \in 1..builds
                BY DEF StepsOK, GoodStep, AnswerStep
            <4>2. QED
                BY <4>1, <1>2
        <3>3. /\ undo_steps # <<>> => undo_steps[1] \in ToSet(undo_steps)
              /\ redo_steps # <<>> => redo_steps[1] \in ToSet(redo_steps)
            BY TailIsSeq DEF StepsOK
        <3>4. QED
            BY <3>1, <3>2, <3>3, <1>1 DEF PlaceOK, SameBuild
    <2>2. CASE queues # NoQueues
        <3>1. queues'.built = queues.built /\ queues'.main = queues.main
              /\ queues'.learning = queues.learning
            BY <2>2, <1>3, <1>5, <1>6
        <3>2. QED
            BY <2>2, <3>1, <1>1 DEF PlaceOK, SameBuild
    <2>3. QED
        BY <2>1, <2>2
<1>15. QED
    BY <1>9, <1>10, <1>11, <1>12, <1>13, <1>14

LEMMA EmptyStacks ==
    ASSUME undo_steps' = <<>>, redo_steps' = <<>>, queues' = NoQueues, shown' = NoCard
    PROVE  QueueOK' /\ ShownOK' /\ StepsOK' /\ ChainOK' /\ PlaceOK'
<1>1. IsSeq(<<>>) /\ ToSet(<<>>) = {} /\ Len(<<>>) = 0
    BY EmptySeq DEF IsSeq, ToSet
<1>2. StepsOK'
    BY <1>1 DEF StepsOK
<1>3. ChainOK'
    BY <1>1 DEF ChainOK, Chain
<1>4. QueueOK' /\ ShownOK' /\ PlaceOK'
    BY DEF QueueOK, ShownOK, PlaceOK
<1>5. QED
    BY <1>2, <1>3, <1>4

LEMMA FailedInv ==
    ASSUME Inv, Operation, Failed
    PROVE  Inv'
<1>1. /\ queues' = NoQueues /\ undo_steps' = <<>> /\ redo_steps' = <<>>
      /\ cards' = cards /\ shown' = NoCard /\ ops' = ops + 1 /\ now' = now /\ builds' = builds
    BY DEF Operation, Failed
<1>2. TypesOK'
    BY <1>1 DEF Inv, TypesOK
<1>3. QED
    BY <1>1, <1>2, EmptyStacks DEF Inv

(* A new step on the stack.                                                *)
LEMMA PushedStep ==
    ASSUME Inv, NEW step, UNCHANGED <<now, builds>>,
           undo_steps' = <<step>> \o undo_steps, redo_steps' = <<>>,
           GoodStep(step),
           undo_steps # <<>> => Linked(step, undo_steps[1])
    PROVE  StepsOK' /\ ChainOK' /\ undo_steps'[1] = step
<1>1. IsSeq(undo_steps) /\ Chain(undo_steps, redo_steps)
    BY DEF Inv, StepsOK, ChainOK
<1>2. /\ IsSeq(undo_steps') /\ ToSet(undo_steps') = ToSet(undo_steps) \cup {step}
      /\ undo_steps'[1] = step
    BY <1>1, ConsIsSeq
<1>3. IsSeq(<<>>) /\ ToSet(<<>>) = {}
    BY EmptySeq DEF IsSeq, ToSet
<1>4. Chain(undo_steps', redo_steps')
    BY <1>1, ChainPush
<1>5. \A s \in ToSet(undo_steps) \cup {step} : GoodStep(s)
    BY DEF Inv, StepsOK
<1>6. \A s : GoodStep(s) => GoodStep(s)'
    BY DEF GoodStep, AnswerStep
<1>7. StepsOK'
    BY <1>2, <1>3, <1>5, <1>6 DEF StepsOK
<1>8. QED
    BY <1>2, <1>4, <1>7 DEF ChainOK

LEMMA BuriedIsRow ==
    ASSUME TypesOK, NEW c \in Cards, NEW queue \in {"SchedBuried", "UserBuried"}
    PROVE  Buried(c, queue) \in Rows /\ Buried(c, queue).mtime <= now
<1> DEFINE row == cards[c]
           b == Buried(c, queue)
<1>1. row \in Rows /\ now \in Nat
    BY DEF TypesOK, RowsBy
<1>2. queue \in QueueNames
    BY DEF QueueNames
<1>3. b = [row EXCEPT !.queue = queue, !.mtime = now]
    BY DEF Buried
<1> HIDE DEF row, b
<1>4. b \in Rows /\ b.mtime = now
    BY <1>1, <1>2, <1>3 DEF Rows
<1>5. QED
    BY <1>1, <1>4 DEF b

LEMMA BuryCardInv ==
    ASSUME Inv, NEW c \in Cards, BuryCard(c)
    PROVE  Inv'
<1> DEFINE step == Step("Bury", {c}, NoUpdate, NoQueues)
<1>1. /\ cards' = [cards EXCEPT ![c] = Buried(c, "UserBuried")]
      /\ queues' = NoQueues /\ undo_steps' = <<step>> \o undo_steps /\ redo_steps' = <<>>
      /\ shown' = NoCard /\ ops' = ops + 1 /\ now' = now /\ builds' = builds
    BY DEF BuryCard, Operation
<1>2. TypesOK
    BY DEF Inv
<1>3. Buried(c, "UserBuried") \in Rows /\ Buried(c, "UserBuried").mtime <= now
    BY <1>2, BuriedIsRow
<1>4. TypesOK'
    <2>1. RowsBy(cards', Cards, now)
        BY <1>1, <1>2, <1>3 DEF TypesOK, RowsBy
    <2>2. QED
        BY <2>1, <1>1, <1>2 DEF TypesOK
<1>5. step.update.built = 0 /\ step.old = [d \in {c} |-> cards[d]]
    BY DEF Step, NoUpdate
<1> HIDE DEF step
<1>6. GoodStep(step)
    <2>1. RowsBy(step.old, {c}, now)
        BY <1>2, <1>5 DEF TypesOK, RowsBy
    <2>2. QED
        BY <2>1, <1>5 DEF GoodStep
<1>7. \A s : Linked(step, s)
    BY <1>5 DEF Linked
<1>8. StepsOK' /\ ChainOK' /\ undo_steps'[1] = step
    BY <1>1, <1>6, <1>7, PushedStep
<1>9. QueueOK' /\ ShownOK'
    BY <1>1 DEF QueueOK, ShownOK
<1>10. PlaceOK'
    BY <1>1 DEF PlaceOK, SameBuild
<1>11. QED
    BY <1>4, <1>8, <1>9, <1>10 DEF Inv

LEMMA AnswerCardInv ==
    ASSUME Inv, AnswerCard
    PROVE  Inv'
<1> DEFINE e == Top(queues)
<1>1. TypesOK /\ QueueOK /\ ShownOK
    BY DEF Inv
<1>2. /\ shown # NoCard /\ Operation /\ shown \in Cards
      /\ queues # NoQueues /\ e # NoEntry /\ e.id = shown
    BY <1>1 DEF AnswerCard, TypesOK, ShownOK
<1>3. /\ GoodQueue(queues) /\ queues.built \in 1..builds /\ queues.cutoff <= now
      /\ Shape(queues) /\ MainExact(queues)
    BY <1>1, <1>2 DEF QueueOK, GoodQueue
<1>4. IsTop(queues, e)
    BY <1>2, <1>3, TopIsTop
<1> HIDE DEF e
<1>5. CanPop(queues, e.id)
    <2>1. InFront(queues, e)
        BY <1>3, <1>4, IsTopParts
    <2>2. QED
        BY <1>3, <2>1, PopOf
<1>6a. PICK row \in Answers(e.id) :
          \E r \in QueuesAfter(PopEntry(queues, e.id), e.id, row) : AnsweredAs(e.id, row, r)
    BY <1>2, <1>5 DEF AnswerCard
<1>6. PICK q \in QueuesAfter(PopEntry(queues, e.id), e.id, row) : AnsweredAs(e.id, row, q)
    BY <1>6a
<1> DEFINE requeue == IF Requeues(row) THEN {EntryOf(q, e.id)} ELSE {}
           changed == {e.id} \cup SiblingsForBury(e.id)
           update == [built |-> queues.built, entry |-> EntryOf(queues, e.id),
                      requeue |-> requeue,
                      learning |-> q.counts.learning, cutoff |-> q.cutoff]
           step == Step("AnswerCard", changed, update, queues)
<1>7. /\ queues' = UpdateCutoff(q)
      /\ cards' = [d \in Cards |-> IF d = e.id THEN row
                                   ELSE IF d \in SiblingsForBury(e.id)
                                   THEN Buried(d, "SchedBuried") ELSE cards[d]]
      /\ undo_steps' = <<step>> \o undo_steps /\ redo_steps' = <<>>
      /\ shown' = NoCard /\ ops' = ops + 1 /\ now' = now /\ builds' = builds
    BY <1>2, <1>6 DEF AnsweredAs, Operation
<1>8. /\ EntryOf(queues, e.id) = e
      /\ GoodQueue(q) /\ q.built = queues.built /\ q.cutoff = queues.cutoff
      /\ q.main = IF e.kind = "Learn" THEN queues.main ELSE Tail(queues.main)
      /\ ToSet(q.learning) = (ToSet(queues.learning) \ {e}) \cup requeue
      /\ Requeued(requeue, e.id)
    <2>1. requeue = IF Requeues(row) THEN {EntryOf(q, e.id)} ELSE {}
        OBVIOUS
    <2> HIDE DEF requeue
    <2>2. QED
        BY <2>1, <1>1, <1>3, <1>4, AnsweredQueue
<1> HIDE DEF requeue
<1>9. /\ step.update = update /\ step.was = queues
      /\ step.old = [d \in changed |-> cards[d]]
    BY DEF Step
<1> HIDE DEF step, changed
<1>10. /\ step.update.built = queues.built /\ step.update.entry = e
       /\ step.update.requeue = requeue
       /\ step.update.learning = q.counts.learning /\ step.update.cutoff = q.cutoff
    BY <1>8, <1>9
<1> HIDE DEF update
<1>11. Left(step, q.main, ToSet(q.learning))
    BY <1>8, <1>9, <1>10 DEF Left, MainAfter, LearningAfter
<1>12. now \in Nat /\ e.id \in Cards
    BY <1>1, <1>2 DEF TypesOK
<1>13. /\ GoodQueue(queues') /\ queues'.built = queues.built /\ queues'.cutoff = now
       /\ queues'.main = q.main /\ queues'.learning = q.learning
    <2>1. Shape(q) /\ MainExact(q) /\ LearningExact(q) /\ q.cutoff <= now
        BY <1>3, <1>8 DEF GoodQueue
    <2>2. /\ GoodQueue(UpdateCutoff(q)) /\ UpdateCutoff(q).built = q.built
          /\ UpdateCutoff(q).cutoff = now /\ UpdateCutoff(q).main = q.main
          /\ UpdateCutoff(q).learning = q.learning
        BY <2>1, <1>12, UpdateCutoffOf
    <2>3. QED
        BY <2>2, <1>7, <1>8
<1>14. TypesOK'
    <2>1. row \in Rows /\ row.mtime <= now
        BY <1>1, <1>12, AnswersAreRows
    <2>2. \A d \in Cards : Buried(d, "SchedBuried") \in Rows
                           /\ Buried(d, "SchedBuried").mtime <= now
        BY <1>1, BuriedIsRow
    <2>3. RowsBy(cards', Cards, now)
        BY <2>1, <2>2, <1>1, <1>7 DEF TypesOK, RowsBy
    <2>4. QED
        BY <2>3, <1>1, <1>7 DEF TypesOK
<1>15. GoodStep(step)
    <2>1. changed \in SUBSET Cards
        BY <1>12 DEF changed, SiblingsForBury
    <2>2. RowsBy(step.old, changed, now)
        BY <2>1, <1>1, <1>9 DEF TypesOK, RowsBy
    <2>3. step.update.learning = LearningIn(ToSet(MainAfter(step)), LearningAfter(step),
                                            AheadCutoff(step.was))
        BY <1>8, <1>9, <1>10, <1>11 DEF Left, GoodQueue, LearningExact, AheadCutoff
    <2>4. AnswerStep(step)
        BY <2>3, <1>2, <1>3, <1>8, <1>9, <1>10 DEF AnswerStep, e
    <2>5. QED
        BY <2>1, <2>2, <2>4 DEF GoodStep
<1>16. undo_steps # <<>> => Linked(step, undo_steps[1])
    BY <1>2, <1>9, <1>10 DEF Inv, PlaceOK, SameBuild, Left, Linked, Given
<1>17. StepsOK' /\ ChainOK' /\ undo_steps'[1] = step
    BY <1>7, <1>15, <1>16, PushedStep
<1>18. QueueOK' /\ ShownOK'
    BY <1>3, <1>7, <1>12, <1>13 DEF QueueOK, ShownOK
<1>19. PlaceOK'
    <2>1. Left(step, queues'.main, ToSet(queues'.learning))
        BY <1>11, <1>13
    <2>2. QED
        BY <2>1, <1>7, <1>17 DEF PlaceOK
<1>20. QED
    BY <1>14, <1>17, <1>18, <1>19 DEF Inv

(* The step a stack gets for the one taken from the other.                 *)
LEMMA OppositeStep ==
    ASSUME Inv, NEW step, GoodStep(step)
    PROVE  /\ Opposite(step).update = step.update /\ Opposite(step).was = step.was
           /\ GoodStep(Opposite(step))
           /\ RowsBy(Restored(step), Cards, now)
<1>1. PICK cs \in SUBSET Cards : RowsBy(step.old, cs, now)
    BY DEF GoodStep
<1>2. DOMAIN step.old = cs /\ RowsBy(cards, Cards, now)
    BY <1>1 DEF RowsBy, Inv, TypesOK
<1>3. /\ Opposite(step).update = step.update /\ Opposite(step).was = step.was
      /\ Opposite(step).old = [c \in cs |-> cards[c]]
    BY <1>2 DEF Opposite, Step
<1>4. RowsBy(Opposite(step).old, cs, now)
    BY <1>2, <1>3 DEF RowsBy
<1>5. AnswerStep(step) => AnswerStep(Opposite(step))
    BY <1>3 DEF AnswerStep, MainAfter, LearningAfter
<1>6. RowsBy(Restored(step), Cards, now)
    BY <1>1, <1>2 DEF Restored, RowsBy
<1>7. QED
    BY <1>1, <1>3, <1>4, <1>5, <1>6 DEF GoodStep

(* The step on top of a stack that knows the queue is that of an answer.   *)
LEMMA SameBuildSteps ==
    ASSUME Inv, NEW step, GoodStep(step), SameBuild(step)
    PROVE  AnswerStep(step) /\ Shape(queues) /\ MainExact(queues) /\ queues.built \in 1..builds
BY DEF Inv, QueueOK, GoodQueue, SameBuild, GoodStep, TypesOK

LEMMA UndoInv ==
    ASSUME Inv, Undo
    PROVE  Inv'
<1> DEFINE step == undo_steps[1]
           back == Opposite(step)
<1>1. /\ undo_steps # <<>> /\ IsSeq(undo_steps) /\ IsSeq(redo_steps)
      /\ Chain(undo_steps, redo_steps) /\ TypesOK
    BY DEF Undo, Inv, StepsOK, ChainOK
<1>2. /\ Head(undo_steps) = step /\ step \in ToSet(undo_steps)
      /\ IsSeq(Tail(undo_steps)) /\ ToSet(Tail(undo_steps)) \subseteq ToSet(undo_steps)
    BY <1>1, TailIsSeq
<1>3. /\ queues' = IF SameBuild(step) THEN UndoneQueue(queues, step.update) ELSE NoQueues
      /\ cards' = Restored(step)
      /\ undo_steps' = Tail(undo_steps) /\ redo_steps' = <<back>> \o redo_steps
      /\ shown' = NoCard /\ ops' = ops + 1 /\ now' = now /\ builds' = builds
    BY <1>2 DEF Undo, Operation
<1>4. GoodStep(step)
    BY <1>2 DEF Inv, StepsOK
<1>5. /\ back.update = step.update /\ back.was = step.was /\ GoodStep(back)
      /\ RowsBy(cards', Cards, now)
    BY <1>3, <1>4, OppositeStep
<1> HIDE DEF step, back
<1>6. TypesOK'
    BY <1>1, <1>3, <1>5 DEF TypesOK
<1>7. /\ IsSeq(redo_steps') /\ redo_steps' # <<>> /\ redo_steps'[1] = back
      /\ ToSet(redo_steps') = ToSet(redo_steps) \cup {back}
    BY <1>1, <1>3, ConsIsSeq
<1>8. StepsOK'
    <2>1. \A s \in ToSet(undo_steps') \cup ToSet(redo_steps') : GoodStep(s)
        BY <1>2, <1>3, <1>5, <1>7 DEF Inv, StepsOK
    <2>2. \A s : GoodStep(s) => GoodStep(s)'
        BY <1>3 DEF GoodStep, AnswerStep
    <2>3. QED
        BY <2>1, <2>2, <1>2, <1>3, <1>7 DEF StepsOK
<1>9. /\ Chain(Tail(undo_steps), <<back>> \o redo_steps)
      /\ Tail(undo_steps) # <<>> => Linked(step, Tail(undo_steps)[1])
    BY <1>1, <1>5, ChainUndo DEF step
<1>10. ChainOK'
    BY <1>3, <1>9 DEF ChainOK
<1>11. ShownOK'
    BY <1>3 DEF ShownOK
<1>12. CASE ~SameBuild(step)
    <2>1. queues' = NoQueues
        BY <1>3, <1>12
    <2>2. QueueOK' /\ PlaceOK'
        BY <2>1 DEF QueueOK, PlaceOK, SameBuild
    <2>3. QED
        BY <2>2, <1>6, <1>8, <1>10, <1>11 DEF Inv
<1>13. CASE SameBuild(step)
    <2>1. AnswerStep(step) /\ Shape(queues) /\ MainExact(queues) /\ queues.built \in 1..builds
        BY <1>4, <1>13, SameBuildSteps
    <2>2. Left(step, queues.main, ToSet(queues.learning))
        BY <1>1, <1>13 DEF Inv, PlaceOK, step
    <2>3. queues' = UndoneQueue(queues, step.update)
        BY <1>3, <1>13
    <2>4. /\ GoodQueue(queues') /\ queues'.built = queues.built
          /\ Given(step, queues'.main, ToSet(queues'.learning))
          /\ queues'.cutoff = step.was.cutoff
        BY <2>1, <2>2, <2>3, UndoneOf
    <2>5. queues'.cutoff <= now /\ step.update.built = queues.built
          /\ step.update.built # 0
        BY <2>1, <2>4, <1>13 DEF AnswerStep, SameBuild
    <2>6. QueueOK'
        BY <2>1, <2>4, <2>5, <1>3 DEF QueueOK
    <2>7. Given(back, queues'.main, ToSet(queues'.learning))
        BY <2>4, <1>5 DEF Given
    <2>8. ASSUME undo_steps' # <<>>, undo_steps'[1].update.built = queues'.built
          PROVE  Left(undo_steps'[1], queues'.main, ToSet(queues'.learning))
        <3>1. Linked(step, undo_steps'[1])
            BY <2>8, <1>3, <1>9
        <3>2. Given(step, MainAfter(undo_steps'[1]), LearningAfter(undo_steps'[1]))
            BY <2>4, <2>5, <2>8, <3>1 DEF Linked
        <3>3. QED
            BY <2>4, <3>2 DEF Given, Left
    <2>9. PlaceOK'
        BY <2>7, <2>8, <1>7 DEF PlaceOK, SameBuild
    <2>10. QED
        BY <2>6, <2>9, <1>6, <1>8, <1>10, <1>11 DEF Inv
<1>14. QED
    BY <1>12, <1>13

(* What a redo finds, if it knows the queue.                               *)
LEMMA RedoIsFound ==
    ASSUME Inv, redo_steps # <<>>
    PROVE  RedoFinds(Head(redo_steps))
<1> DEFINE step == redo_steps[1]
<1>1. Head(redo_steps) = step /\ step \in ToSet(redo_steps)
    BY TailIsSeq DEF Inv, StepsOK
<1>2. GoodStep(step)
    BY <1>1 DEF Inv, StepsOK
<1>3. ASSUME SameBuild(step)  PROVE CanPop(queues, step.update.entry.id)
    <2>1. AnswerStep(step) /\ Shape(queues) /\ MainExact(queues)
        BY <1>2, <1>3, SameBuildSteps
    <2>2. Given(step, queues.main, ToSet(queues.learning))
        BY <1>3 DEF Inv, PlaceOK
    <2> HIDE DEF step
    <2>3. QED
        BY <2>1, <2>2, RedoneOf
<1>4. QED
    BY <1>1, <1>3 DEF RedoFinds

LEMMA RedoInv ==
    ASSUME Inv, Redo
    PROVE  Inv'
<1> DEFINE step == redo_steps[1]
           back == Opposite(step)
<1>1. /\ redo_steps # <<>> /\ IsSeq(undo_steps) /\ IsSeq(redo_steps)
      /\ Chain(undo_steps, redo_steps) /\ TypesOK
    BY DEF Redo, Inv, StepsOK, ChainOK
<1>2. /\ Head(redo_steps) = step /\ step \in ToSet(redo_steps)
      /\ IsSeq(Tail(redo_steps)) /\ ToSet(Tail(redo_steps)) \subseteq ToSet(redo_steps)
    BY <1>1, TailIsSeq
<1>3. RedoFinds(step)
    BY <1>1, <1>2, RedoIsFound
<1>4. /\ queues' \in IF SameBuild(step) THEN RedoneQueues(queues, step.update) ELSE {NoQueues}
      /\ cards' = Restored(step)
      /\ undo_steps' = <<back>> \o undo_steps /\ redo_steps' = Tail(redo_steps)
      /\ shown' = NoCard /\ ops' = ops + 1 /\ now' = now /\ builds' = builds
    BY <1>2, <1>3 DEF Redo, Operation
<1>5. GoodStep(step)
    BY <1>2 DEF Inv, StepsOK
<1>6. /\ back.update = step.update /\ back.was = step.was /\ GoodStep(back)
      /\ RowsBy(cards', Cards, now)
    BY <1>4, <1>5, OppositeStep
<1> HIDE DEF step, back
<1>7. TypesOK'
    BY <1>1, <1>4, <1>6 DEF TypesOK
<1>8. /\ IsSeq(undo_steps') /\ undo_steps' # <<>> /\ undo_steps'[1] = back
      /\ ToSet(undo_steps') = ToSet(undo_steps) \cup {back}
    BY <1>1, <1>4, ConsIsSeq
<1>9. StepsOK'
    <2>1. \A s \in ToSet(undo_steps') \cup ToSet(redo_steps') : GoodStep(s)
        BY <1>2, <1>4, <1>6, <1>8 DEF Inv, StepsOK
    <2>2. \A s : GoodStep(s) => GoodStep(s)'
        BY <1>4 DEF GoodStep, AnswerStep
    <2>3. QED
        BY <2>1, <2>2, <1>2, <1>4, <1>8 DEF StepsOK
<1>10. /\ Chain(<<back>> \o undo_steps, Tail(redo_steps))
       /\ Tail(redo_steps) # <<>> => Linked(Tail(redo_steps)[1], step)
    BY <1>1, <1>6, ChainRedo DEF step
<1>11. ChainOK'
    BY <1>4, <1>10 DEF ChainOK
<1>12. ShownOK'
    BY <1>4 DEF ShownOK
<1>13. CASE ~SameBuild(step)
    <2>1. queues' = NoQueues
        BY <1>4, <1>13
    <2>2. QueueOK' /\ PlaceOK'
        BY <2>1 DEF QueueOK, PlaceOK, SameBuild
    <2>3. QED
        BY <2>2, <1>7, <1>9, <1>11, <1>12 DEF Inv
<1>14. CASE SameBuild(step)
    <2>1. AnswerStep(step) /\ Shape(queues) /\ MainExact(queues) /\ queues.built \in 1..builds
        BY <1>5, <1>14, SameBuildSteps
    <2>2. Given(step, queues.main, ToSet(queues.learning))
        BY <1>1, <1>14 DEF Inv, PlaceOK, step
    <2>3. queues' \in RedoneQueues(queues, step.update)
        BY <1>4, <1>14
    <2>4. /\ GoodQueue(queues') /\ queues'.built = queues.built
          /\ Left(step, queues'.main, ToSet(queues'.learning))
          /\ queues'.cutoff = step.update.cutoff
        BY <2>1, <2>2, <2>3, RedoneOf
    <2>5. queues'.cutoff <= now /\ step.update.built = queues.built
          /\ step.update.built # 0
        BY <2>1, <2>4, <1>14 DEF AnswerStep, SameBuild
    <2>6. QueueOK'
        BY <2>1, <2>4, <2>5, <1>4 DEF QueueOK
    <2>7. Left(back, queues'.main, ToSet(queues'.learning))
        BY <2>4, <1>6 DEF Left, MainAfter, LearningAfter
    <2>8. ASSUME redo_steps' # <<>>, redo_steps'[1].update.built = queues'.built
          PROVE  Given(redo_steps'[1], queues'.main, ToSet(queues'.learning))
        <3>1. Linked(redo_steps'[1], step)
            BY <2>8, <1>4, <1>10
        <3>2. Given(redo_steps'[1], MainAfter(step), LearningAfter(step))
            BY <2>4, <2>5, <2>8, <3>1 DEF Linked
        <3>3. QED
            BY <2>4, <3>2 DEF Given, Left
    <2>9. PlaceOK'
        BY <2>7, <2>8, <1>8 DEF PlaceOK, SameBuild
    <2>10. QED
        BY <2>6, <2>9, <1>7, <1>9, <1>11, <1>12 DEF Inv
<1>15. QED
    BY <1>13, <1>14


-----------------------------------------------------------------------------
(* The theorems.                                                           *)

LEMMA InvNext == Inv /\ [Next]_vars => Inv'
<1> SUFFICES ASSUME Inv, [Next]_vars  PROVE Inv'
    OBVIOUS
<1>1. CASE Tick
    BY <1>1, TickInv
<1>2. CASE GetQueuedCards
    BY <1>2, GetQueuedCardsInv
<1>3. CASE AnswerCard
    BY <1>3, AnswerCardInv
<1>4. CASE Undo
    BY <1>4, UndoInv
<1>5. CASE Redo
    BY <1>5, RedoInv
<1>6. ASSUME NEW c \in Cards, BuryCard(c)  PROVE Inv'
    BY <1>6, BuryCardInv
<1>7. CASE UNCHANGED vars
    BY <1>7, StutterInv
<1>8. QED
    BY <1>1, <1>2, <1>3, <1>4, <1>5, <1>6, <1>7 DEF Next

(* The invariant of the queue, the rows and the two stacks of steps, kept  *)
(* by each operation of CardQueues and of the undo manager.                *)
THEOREM QueueInvariant == Spec => []Inv
BY InitInv, InvNext, PTL DEF Spec

LEMMA TypesFollow == Inv => TypeOK
<1> SUFFICES ASSUME Inv  PROVE TypeOK
    OBVIOUS
<1>1. TypesOK /\ QueueOK /\ builds \in Nat /\ now \in Nat
    BY DEF Inv, TypesOK
<1>2. shown \in Cards \cup {NoCard} /\ \A c \in Cards : cards[c].mtime <= now
    BY <1>1 DEF TypesOK, RowsBy
<1>3. CASE queues = NoQueues
    <2>1. /\ queues.counts \in [new : Nat, learning : Nat, review : Nat]
          /\ queues.main = <<>> /\ queues.learning = <<>>
          /\ queues.cutoff <= now /\ queues.built <= builds
        BY <1>1, <1>3 DEF NoQueues
    <2>2. ToSet(<<>>) = {}
        BY DEF ToSet
    <2>3. QED
        BY <1>2, <2>1, <2>2 DEF TypeOK
<1>4. CASE queues # NoQueues
    <2>1. Shape(queues) /\ queues.built \in 1..builds /\ queues.cutoff <= now
        BY <1>1, <1>4 DEF QueueOK, GoodQueue
    <2>2. /\ ToSet(queues.main) \subseteq MainEntries
          /\ ToSet(queues.learning) \subseteq LearnEntries
          /\ queues.counts \in Counters
        BY <2>1, ShapeParts
    <2>3. \A e \in ToSet(queues.main) : e.id \in Cards /\ e.kind \in {"New", "Review", "DayLearn"}
        BY <2>2 DEF MainEntries, MainKinds
    <2>4. \A e \in ToSet(queues.learning) : e.id \in Cards /\ e.kind = "Learn" /\ e.due <= Tomorrow + Ahead
        BY <2>2, QueueParameters DEF LearnEntries
    <2>5. queues.counts \in [new : Nat, learning : Nat, review : Nat]
        BY <2>2 DEF Counters
    <2>6. queues.built <= builds
        BY <1>1, <2>1
    <2>7. QED
        BY <1>2, <2>1, <2>3, <2>4, <2>5, <2>6 DEF TypeOK
<1>5. QED
    BY <1>3, <1>4

(* The counts never go below zero, where the code's subtractions of the    *)
(* unsigned counts would panic or wrap, and no learning card is queued for *)
(* later than the rollover and what is learnt ahead.                       *)
THEOREM StudyTypeCorrect == Spec => []TypeOK
BY QueueInvariant, TypesFollow, PTL

LEMMA CountsFollow == Inv => CountsAgree
<1> SUFFICES ASSUME Inv  PROVE CountsAgree
    OBVIOUS
<1>1. CASE queues = NoQueues
    <2>1. /\ queues.main = <<>> /\ queues.learning = <<>>
          /\ queues.counts = [new |-> 0, learning |-> 0, review |-> 0]
        BY <1>1 DEF NoQueues
    <2>2. \A kind : OfKind(<<>>, kind) = 0
        BY FS_EmptySet DEF OfKind
    <2>3. \A time : DueSoon(<<>>, time) = 0
        BY FS_EmptySet DEF DueSoon
    <2>4. \A time : CountsOver(<<>>, <<>>, time) = [new |-> 0, learning |-> 0, review |-> 0]
        BY <2>2, <2>3 DEF CountsOver
    <2>5. QED
        BY <2>1, <2>4 DEF CountsAgree
<1>2. CASE queues # NoQueues
    <2>1. Shape(queues) /\ MainExact(queues) /\ LearningExact(queues)
        BY <1>2 DEF Inv, QueueOK, GoodQueue
    <2>2. /\ queues.main \in Seq(MainEntries) /\ Apart(queues.main)
          /\ queues.learning \in Seq(LearnEntries) /\ Apart(queues.learning)
          /\ queues.counts \in Counters
        BY <2>1, ShapeParts
    <2>3. CountsOver(queues.main, queues.learning, AheadCutoff(queues)) =
            [new |-> NewIn(ToSet(queues.main)), review |-> ReviewIn(ToSet(queues.main)),
             learning |-> LearningIn(ToSet(queues.main), ToSet(queues.learning),
                                     AheadCutoff(queues))]
        BY <2>2, CountsOfSets
    <2>4. \A c \in Counters : c = [new |-> c.new, review |-> c.review, learning |-> c.learning]
        BY DEF Counters
    <2>5. QED
        BY <2>1, <2>2, <2>3, <2>4 DEF MainExact, LearningExact, CountsAgree
<1>3. QED
    BY <1>1, <1>2

(* The counts the reviewer shows, which each operation adjusts by one or   *)
(* by what the cutoff passes, are those of a count over the whole queue,   *)
(* after any answers, undos and redos.                                     *)
THEOREM CountsAreExact == Spec => []CountsAgree
BY QueueInvariant, CountsFollow, PTL

LEMMA TopFollows == Inv => CardIsAtTop
<1> SUFFICES ASSUME Inv  PROVE CardIsAtTop
    OBVIOUS
<1>1. ASSUME shown # NoCard  PROVE CanPop(queues, shown)
    <2> DEFINE e == Top(queues)
    <2>1. queues # NoQueues /\ e # NoEntry /\ e.id = shown
        BY <1>1 DEF Inv, ShownOK
    <2>2. Shape(queues) /\ MainExact(queues)
        BY <2>1 DEF Inv, QueueOK, GoodQueue
    <2>3. IsTop(queues, e)
        BY <2>1, <2>2, TopIsTop
    <2> HIDE DEF e
    <2>4. InFront(queues, e)
        BY <2>2, <2>3, IsTopParts
    <2>5. CanPop(queues, e.id)
        BY <2>2, <2>4, PopOf
    <2>6. QED
        BY <2>1, <2>5
<1>2. QED
    BY <1>1, RedoIsFound DEF CardIsAtTop

(* pop_entry never fails: an answer finds the card that is shown, and a    *)
(* redo the card that was answered, so that neither loses what could be    *)
(* undone.                                                                 *)
THEOREM CardsAreAtTop == Spec => []CardIsAtTop
BY QueueInvariant, TopFollows, PTL

LEMMA UndoFollows == Inv => UndoGivesBack
<1> DEFINE step == undo_steps[1]
<1> SUFFICES ASSUME Inv, undo_steps # <<>>, SameBuild(Head(undo_steps))
             PROVE  LET undone == UndoneQueue(queues, Head(undo_steps).update)
                        was    == Head(undo_steps).was
                    IN  /\ Top(undone) = Top(was) /\ undone.main = was.main
                        /\ ToSet(undone.learning) = ToSet(was.learning)
                        /\ undone.counts = was.counts /\ undone.cutoff = was.cutoff
    BY DEF UndoGivesBack
<1>1. Head(undo_steps) = step /\ step \in ToSet(undo_steps)
    BY TailIsSeq DEF Inv, StepsOK
<1>2. GoodStep(step) /\ SameBuild(step)
    BY <1>1 DEF Inv, StepsOK
<1>3. AnswerStep(step) /\ Shape(queues) /\ MainExact(queues)
    BY <1>2, SameBuildSteps
<1>4. Left(step, queues.main, ToSet(queues.learning))
    BY <1>2 DEF Inv, PlaceOK
<1> HIDE DEF step
<1>5. QED
    BY <1>1, <1>3, <1>4, UndoneOf DEF Given

(* The undo of the last answer gives back the queue it was given to, with  *)
(* the same card on top, however many answers were undone and redone       *)
(* before it.                                                              *)
THEOREM UndoGivesQueueBack == Spec => []UndoGivesBack
BY QueueInvariant, UndoFollows, PTL

-----------------------------------------------------------------------------
(* The card after the one that was answered.                               *)

LEMMA RowIsLater ==
    ASSUME TypesOK, NEW c \in Cards, NEW row \in Answers(c), Requeues(row)
    PROVE  row.due > now
<1>1. cards[c] \in Rows /\ now \in Nat /\ Steps \subseteq Nat \ {0}
      /\ FirstQueue[c] \in {"New", "Review", "DayLearn"}
    BY QueueParameters DEF TypesOK, RowsBy
<1> DEFINE r0 == [cards[c] EXCEPT !.mtime = now]
           r1 == [r0 EXCEPT !.reps = 1]
<1>2. r0 \in Rows /\ r1 \in Rows
    BY <1>1 DEF Rows
<1>3. row.queue \in {"Learn", "PreviewRepeat"}
    BY DEF Requeues, IsIntraday
<1>4. CASE c \in Previewed
    <2>1. \/ \E d \in Steps : row = [r0 EXCEPT !.queue = "PreviewRepeat", !.due = now + d]
          \/ row = [r0 EXCEPT !.queue = FirstQueue[c], !.due = 0, !.here = FALSE]
        BY <1>4 DEF Answers
    <2> HIDE DEF r0
    <2>2. row # [r0 EXCEPT !.queue = FirstQueue[c], !.due = 0, !.here = FALSE]
        BY <1>1, <1>2, <1>3 DEF Rows
    <2>3. PICK d \in Steps : row = [r0 EXCEPT !.queue = "PreviewRepeat", !.due = now + d]
        BY <2>1, <2>2
    <2>4. row.due = now + d
        BY <1>2, <2>3 DEF Rows
    <2>5. QED
        BY <1>1, <2>4
<1>5. CASE c \notin Previewed
    <2>1. \/ \E d \in Steps : row = [r1 EXCEPT !.queue = "Learn", !.due = now + d]
          \/ \E k \in {"Review", "DayLearn"} :
                row = [r1 EXCEPT !.queue = k, !.due = Tomorrow]
          \/ row = [r1 EXCEPT !.queue = "Suspended"]
        BY <1>5 DEF Answers
    <2> HIDE DEF r1
    <2>2. /\ row # [r1 EXCEPT !.queue = "Suspended"]
          /\ \A k \in {"Review", "DayLearn"} : row # [r1 EXCEPT !.queue = k, !.due = Tomorrow]
        BY <1>2, <1>3 DEF Rows
    <2>3. PICK d \in Steps : row = [r1 EXCEPT !.queue = "Learn", !.due = now + d]
        BY <2>1, <2>2
    <2>4. row.due = now + d
        BY <1>2, <2>3 DEF Rows
    <2>5. QED
        BY <1>1, <2>4
<1>6. QED
    BY <1>4, <1>5

LEMMA RequeueIsLater ==
    ASSUME NEW q, Shape(q), NEW e \in LearnEntries
    PROVE  /\ RequeueEntry(q, e).due >= e.due
           /\ RequeueEntry(q, e).reps = e.reps
<1> DEFINE next == Head(q.learning)
<1>1. q.learning \in Seq(LearnEntries) /\ AheadCutoff(q) \in Nat /\ e.due \in Int
    <2>1. q.learning \in Seq(LearnEntries) /\ AheadCutoff(q) \in Nat
        BY ShapeParts
    <2>2. e.due \in Int
        BY QueueParameters DEF LearnEntries
    <2>3. QED
        BY <2>1, <2>2
<1>2. CASE /\ e.due <= AheadCutoff(q) /\ q.main = <<>> /\ q.learning # <<>>
           /\ next.due >= e.due /\ next.due + 1 < AheadCutoff(q)
    <2>1. next \in LearnEntries
        BY <1>1, <1>2, TailOf
    <2>2. next.due \in Int /\ next.due >= e.due
        BY <1>2, <2>1, QueueParameters DEF LearnEntries
    <2>3. RequeueEntry(q, e) = [e EXCEPT !.due = next.due + 1]
        BY <1>2 DEF RequeueEntry
    <2> HIDE DEF next
    <2>4. QED
        BY <1>1, <2>2, <2>3 DEF LearnEntries
<1>3. CASE ~(/\ e.due <= AheadCutoff(q) /\ q.main = <<>> /\ q.learning # <<>>
             /\ next.due >= e.due /\ next.due + 1 < AheadCutoff(q))
    BY <1>1, <1>3 DEF RequeueEntry
<1>4. QED
    BY <1>2, <1>3

(* The entry on top that is not due at the time of the cutoff is the first *)
(* that is due soon, and nothing else is left.                             *)
LEMMA TopIsSoon ==
    ASSUME NEW q, Shape(q), Top(q) # NoEntry, Top(q) \in ToSet(q.learning), Top(q).due > q.cutoff
    PROVE  /\ q.main = <<>>
           /\ \A i \in 1..Len(q.learning) :
                 q.learning[i].due <= AheadCutoff(q) =>
                    \E k \in 1..i : q.learning[k] = Top(q)
<1> DEFINE first == DueBy(q.learning, q.cutoff)
           soon  == DueBy(q.learning, AheadCutoff(q))
<1>1. /\ q.learning \in Seq(LearnEntries) /\ q.main \in Seq(MainEntries)
      /\ ToSet(q.learning) \subseteq LearnEntries /\ q.cutoff \in Nat /\ AheadCutoff(q) \in Nat
      /\ \A e, f \in ToSet(q.main) \cup ToSet(q.learning) : e.id = f.id => e = f
    BY ShapeParts
<1>2. /\ first # 0 => first \in 1..Len(q.learning) /\ q.learning[first].due <= q.cutoff
      /\ soon # 0 => /\ soon \in 1..Len(q.learning)
                     /\ \A i \in 1..Len(q.learning) :
                           q.learning[i].due <= AheadCutoff(q) => soon <= i
    BY <1>1, DueByFinds
<1>3. Top(q) = IF first # 0 THEN q.learning[first]
               ELSE IF q.main # <<>> THEN Head(q.main)
               ELSE IF soon # 0 THEN q.learning[soon] ELSE NoEntry
    BY DEF Top
<1> HIDE DEF first, soon
<1>4. Top(q).due \in Int /\ Top(q).kind = "Learn"
    BY <1>1, QueueParameters DEF LearnEntries
<1>5. first = 0
    <2>1. ~(Top(q).due <= q.cutoff)
        BY <1>1, <1>4
    <2>2. QED
        BY <1>2, <1>3, <2>1
<1>6. q.main = <<>>
    <2>1. q.main # <<>> => Head(q.main) \in MainEntries
        BY <1>1, TailOf
    <2>2. \A e \in MainEntries : e.kind # "Learn"
        BY DEF MainEntries, MainKinds
    <2>3. QED
        BY <1>3, <1>4, <1>5, <2>1, <2>2
<1>7. soon # 0 /\ Top(q) = q.learning[soon]
    BY <1>3, <1>5, <1>6
<1>8. ASSUME NEW i \in 1..Len(q.learning), q.learning[i].due <= AheadCutoff(q)
      PROVE  \E k \in 1..i : q.learning[k] = Top(q)
    <2>1. soon \in 1..Len(q.learning) /\ soon <= i
        BY <1>2, <1>7, <1>8
    <2>2. soon \in 1..i
        BY <2>1
    <2>3. QED
        BY <1>7, <2>2
<1>9. QED
    BY <1>6, <1>8

(* The queue after an answer has the answered card on top only if the next *)
(* card could not take its place.                                          *)
LEMMA AnsweredIsBehind ==
    ASSUME TypesOK, GoodQueue(queues), queues.cutoff <= now,
           NEW e, IsTop(queues, e),
           NEW row \in Answers(e.id),
           NEW p, p = PopEntry(queues, e.id), p.learning # <<>>,
           NEW r \in QueuesAfter(p, e.id, row),
           NEW q, Shape(q), q.main = r.main, q.learning = r.learning, q.cutoff = now,
           Top(q) # NoEntry, Top(q).id = e.id
    PROVE  LET next == Head(p.learning)
           IN  \/ next.due + 1 >= AheadCutoff(queues)
               \/ next.reps = 0 /\ Top(q).reps # 0
<1> DEFINE next == Head(p.learning)
           ahead == AheadCutoff(queues)
           f == RequeueEntry(p, Entry(e.id, row))
<1>1. Shape(queues) /\ MainExact(queues) /\ LearningExact(queues)
    BY DEF GoodQueue
<1>2. InFront(queues, e) /\ e.id \in Cards
    BY <1>1, IsTopParts
<1>3. Shape(p) /\ MainExact(p) /\ Without(p, e.id) /\ p.cutoff = queues.cutoff
    BY <1>1, <1>2, PopOf
<1>4. /\ p.learning \in Seq(LearnEntries) /\ p.main \in Seq(MainEntries)
      /\ p.cutoff \in Nat /\ AheadCutoff(p) = ahead /\ ahead \in Nat
    <2>1. AheadCutoff(p) = ahead
        BY <1>3 DEF AheadCutoff
    <2>2. /\ p.learning \in Seq(LearnEntries) /\ p.main \in Seq(MainEntries)
          /\ p.cutoff \in Nat /\ AheadCutoff(p) \in Nat
        BY <1>3, ShapeParts
    <2>3. QED
        BY <2>1, <2>2
<1>5. /\ next \in LearnEntries /\ next = p.learning[1] /\ Len(p.learning) \in Nat \ {0}
      /\ next \in ToSet(p.learning)
    BY <1>4, TailOf, ElementsOf
<1>6. now \in Nat /\ now <= MaxTime
    BY DEF TypesOK
<1>7. InFront(q, Top(q))
    BY TopIsTop, IsTopParts
<1>8. Requeues(row)
    <2>1. ASSUME ~Requeues(row)  PROVE FALSE
        <3>1. r = p
            BY <2>1 DEF QueuesAfter
        <3>2. Top(q) \in ToSet(p.main) \cup ToSet(p.learning)
            <4>1. p.main # <<>> => Head(p.main) \in ToSet(p.main)
                BY <1>4, TailOf
            <4>2. QED
                BY <1>7, <3>1, <4>1 DEF InFront
        <3>3. QED
            BY <1>3, <3>2 DEF Without
    <2>2. QED
        BY <2>1
<1>9. /\ Entry(e.id, row) \in LearnEntries /\ Entry(e.id, row).id = e.id
      /\ Entry(e.id, row).due > now
    BY <1>2, <1>8, AnswersAreRows, RowIsLater DEF Entry
<1>10. /\ f \in LearnEntries /\ f.id = e.id /\ f.due >= Entry(e.id, row).due
    BY <1>3, <1>6, <1>9, RequeueOf, RequeueIsLater
<1>11. PICK i \in Places(p.learning, f) : r = InsertLearning(p, f, i)
    BY <1>8 DEF QueuesAfter
<1>12. f.due \in Int /\ f.reps \in Nat /\ next.due \in Int /\ next.reps \in Nat /\ f.due > now
    <2>1. Entry(e.id, row).due \in Int /\ f.due \in Int
        BY <1>9, <1>10, QueueParameters DEF LearnEntries
    <2>2. QED
        BY <1>5, <1>6, <1>9, <1>10, <2>1, QueueParameters DEF LearnEntries
<1>13. f = RequeueEntry(p, Entry(e.id, row))
    OBVIOUS
<1> HIDE DEF f, next, ahead
<1>14. /\ i \in 1..(Len(p.learning) + 1)
       /\ q.learning = InsertAt(p.learning, i, f) /\ q.main = p.main
    BY <1>11 DEF Places, InsertLearning
<1>15. /\ Len(q.learning) = Len(p.learning) + 1
       /\ \A k \in 1..(Len(p.learning) + 1) :
             q.learning[k] = IF k < i THEN p.learning[k] ELSE IF k = i THEN f ELSE p.learning[k - 1]
    BY <1>4, <1>10, <1>14, InsertAtOf, SMTT(40)
<1>16. /\ ToSet(q.learning) \subseteq LearnEntries /\ q.learning \in Seq(LearnEntries)
       /\ \A x, y \in ToSet(q.main) \cup ToSet(q.learning) : x.id = y.id => x = y
    BY ShapeParts
<1>17. f \in ToSet(q.learning)
    <2>1. q.learning[i] = f /\ i \in 1..Len(q.learning)
        BY <1>5, <1>14, <1>15
    <2>2. QED
        BY <1>16, <2>1, ElementsOf
<1>18. Top(q) = f
    <2>1. Top(q) \in ToSet(q.main) \cup ToSet(q.learning)
        BY <1>4, <1>7, <1>14, TailOf DEF InFront
    <2>2. QED
        BY <1>10, <1>16, <1>17, <2>1
<1>19. /\ q.main = <<>>
       /\ \A k \in 1..Len(q.learning) :
             q.learning[k].due <= AheadCutoff(q) => \E j \in 1..k : q.learning[j] = f
    <2>1. Top(q).due > q.cutoff /\ Top(q) \in ToSet(q.learning)
        BY <1>12, <1>17, <1>18
    <2>2. QED
        BY <1>18, <2>1, TopIsSoon
<1>20. ahead <= AheadCutoff(q)
    BY <1>3, <1>4, <1>6, QueueParameters DEF AheadCutoff, ahead
<1>21. CASE i # 1 /\ next.due + 1 < ahead
    <2>1. q.learning[1] = next /\ 1 \in 1..Len(q.learning)
        BY <1>5, <1>14, <1>15, <1>21
    <2>2. AheadCutoff(q) \in Nat
        BY ShapeParts
    <2>3. next.due <= AheadCutoff(q)
        BY <1>4, <1>12, <1>20, <1>21, <2>2
    <2>4. next = f
        BY <1>19, <2>1, <2>3
    <2>5. next.id # e.id
        BY <1>3, <1>5 DEF Without
    <2>6. QED
        BY <1>10, <2>4, <2>5
<1>22. CASE i = 1 /\ next.due + 1 < ahead /\ ~(next.reps = 0 /\ f.reps # 0)
    <2>1. ~Before(next, f)
        <3>1. Before(f, next) \/ ~Before(next, f)
            BY <1>5, <1>11, <1>22 DEF Places
        <3>2. QED
            BY <1>12, <3>1 DEF Before
    <2>2. f.due <= next.due
        BY <1>12, <1>22, <2>1 DEF Before
    <2>3. Entry(e.id, row).due \in Int
        BY <1>9, QueueParameters DEF LearnEntries
    <2>4. Entry(e.id, row).due <= AheadCutoff(p) /\ next.due >= Entry(e.id, row).due
        BY <1>4, <1>10, <1>12, <1>22, <2>2, <2>3
    <2>5. f = [Entry(e.id, row) EXCEPT !.due = next.due + 1]
        BY <1>4, <1>13, <1>14, <1>19, <1>22, <2>4 DEF RequeueEntry, next
    <2>6. f.due = next.due + 1
        BY <1>9, <2>5 DEF LearnEntries
    <2>7. QED
        BY <1>12, <2>2, <2>6
<1>23. QED
    BY <1>4, <1>12, <1>18, <1>21, <1>22 DEF next, ahead

LEMMA AgainFollows ==
    ASSUME Inv, Next
    PROVE  NotShownAgain
<1> SUFFICES ASSUME AnswerCard, Top(queues').id = shown, PopEntry(queues, shown).learning # <<>>
             PROVE  LET next == Head(PopEntry(queues, shown).learning)
                    IN  \/ next.due + 1 >= AheadCutoff(queues)
                        \/ next.reps = 0 /\ Top(queues').reps # 0
    BY DEF NotShownAgain
<1> DEFINE e == Top(queues)
<1>1. TypesOK /\ QueueOK /\ ShownOK
    BY DEF Inv
<1>2. /\ shown # NoCard /\ shown \in Cards
      /\ queues # NoQueues /\ e # NoEntry /\ e.id = shown
    BY <1>1 DEF AnswerCard, TypesOK, ShownOK
<1>3. GoodQueue(queues) /\ queues.cutoff <= now /\ Shape(queues) /\ MainExact(queues)
    BY <1>1, <1>2 DEF QueueOK, GoodQueue
<1>4. IsTop(queues, e)
    BY <1>2, <1>3, TopIsTop
<1> HIDE DEF e
<1>5. CanPop(queues, e.id)
    <2>1. InFront(queues, e)
        BY <1>3, <1>4, IsTopParts
    <2>2. QED
        BY <1>3, <2>1, PopOf
<1>6. PICK row \in Answers(e.id) :
          \E r \in QueuesAfter(PopEntry(queues, e.id), e.id, row) : AnsweredAs(e.id, row, r)
    BY <1>2, <1>5 DEF AnswerCard
<1>7. PICK r \in QueuesAfter(PopEntry(queues, e.id), e.id, row) : AnsweredAs(e.id, row, r)
    BY <1>6
<1>8. PICK q : q = queues'
    OBVIOUS
<1>9. GoodQueue(r) /\ r.cutoff = queues.cutoff
    <2>1. PICK requeue : requeue = IF Requeues(row) THEN {EntryOf(r, e.id)} ELSE {}
        OBVIOUS
    <2>2. QED
        BY <2>1, <1>1, <1>3, <1>4, AnsweredQueue
<1>10. q = UpdateCutoff(r)
    BY <1>7, <1>8 DEF AnsweredAs
<1>11. now \in Nat
    BY <1>1 DEF TypesOK
<1>12. GoodQueue(q) /\ q.cutoff = now /\ q.main = r.main /\ q.learning = r.learning
    <2>1. Shape(r) /\ MainExact(r) /\ LearningExact(r) /\ r.cutoff <= now
        BY <1>3, <1>9 DEF GoodQueue
    <2>2. QED
        BY <2>1, <1>10, <1>11, UpdateCutoffOf
<1>13. Top(q) # NoEntry /\ Top(q).id = e.id
    <2>1. NoEntry.id = NoCard
        BY DEF NoEntry
    <2>2. QED
        BY <1>2, <1>8, <2>1
<1>14. Shape(q)
    BY <1>12 DEF GoodQueue
<1>15. PICK p : p = PopEntry(queues, e.id)
    OBVIOUS
<1>16. p.learning # <<>>
    BY <1>2, <1>15
<1>17. LET next == Head(p.learning)
       IN  \/ next.due + 1 >= AheadCutoff(queues)
           \/ next.reps = 0 /\ Top(q).reps # 0
    BY <1>1, <1>3, <1>4, <1>7, <1>12, <1>13, <1>14, <1>15, <1>16, AnsweredIsBehind
<1>18. QED
    BY <1>2, <1>8, <1>15, <1>17

(* The answered card is not the next to be shown if the card after it in   *)
(* the learning queue can take its place, whatever was undone before.      *)
THEOREM AnsweredComesLater == Spec => NeverShownAgain
<1>1. Inv /\ [Next]_vars => [NotShownAgain]_vars
    BY AgainFollows
<1>2. QED
    BY <1>1, QueueInvariant, PTL DEF Spec, NeverShownAgain

-----------------------------------------------------------------------------
(* How a queue agrees with the rows: each entry is that of its card, which *)
(* is due; what is due is queued, or buried by a sibling that comes before *)
(* it or is queued beside it, or due in the second of the rollover; and no *)
(* queued card is buried so.                                               *)
Ids(E) == {e.id : e \in E}

DueOf(rows) == {c \in Cards : DueRow(rows[c])}

At(rows, c) == GatherOrd(rows[c].queue)

Buries(d, c, rows) == d # c /\ NoteOf[d] = NoteOf[c] /\ rows[c].queue \in Bury[d]

IsAtRollover(row) == IsIntraday(row) /\ row.due = Tomorrow

Current(E, rows) ==
    \A e \in E : /\ e.id \in DueOf(rows) /\ rows[e.id].mtime = e.mtime
                 /\ e.kind = Entry(e.id, rows[e.id]).kind

GoesBefore(d, c, cs, rows) ==
    At(rows, d) < At(rows, c) \/ (At(rows, d) = At(rows, c) /\ d \in cs)

NoneMissing(cs, rows) ==
    \A c \in DueOf(rows) \ cs :
        \/ IsAtRollover(rows[c])
        \/ \E d \in DueOf(rows) : Buries(d, c, rows) /\ GoesBefore(d, c, cs, rows)

NoneBuried(cs, rows) ==
    \A c \in cs, d \in DueOf(rows) :
        Buries(d, c, rows) => At(rows, c) < At(rows, d) \/ (At(rows, c) = At(rows, d) /\ d \notin cs)

Matches(E, rows) == Current(E, rows) /\ NoneMissing(Ids(E), rows) /\ NoneBuried(Ids(E), rows)

Rooms(main, learning) == ToSet(main) \cup learning

(* The rows that undoing or redoing one step after the other gives.        *)
Over(rows, old) == [c \in Cards |-> IF c \in DOMAIN old THEN old[c] ELSE rows[c]]

History(rows, steps, H) ==
    /\ DOMAIN H = 0..Len(steps) /\ H[0] = rows
    /\ \A k \in 1..Len(steps) : H[k] = Over(H[k - 1], steps[k].old)

(* A step of the build that q comes from.                                  *)
Alive(step, q) == q # NoQueues /\ step.update.built = q.built

(* The queues that undoing and redoing give agree with the rows that they  *)
(* give.                                                                   *)
Fit(rows, steps, live, rooms) ==
    \E H : History(rows, steps, H) /\ \A k \in live : Matches(rooms[k], H[k])

UndoRoom(step) == Rooms(step.was.main, ToSet(step.was.learning))
RedoRoom(step) == Rooms(MainAfter(step), LearningAfter(step))

Live(steps, q) == {k \in 1..Len(steps) : Alive(steps[k], q)}

UndoFits(rows, steps, q) ==
    Fit(rows, steps, Live(steps, q), [k \in 1..Len(steps) |-> UndoRoom(steps[k])])

RedoFits(rows, steps, q) ==
    Fit(rows, steps, Live(steps, q), [k \in 1..Len(steps) |-> RedoRoom(steps[k])])

QueueFits(q, rows) == q # NoQueues => Matches(Rooms(q.main, ToSet(q.learning)), rows)

MatchInv ==
    /\ QueueFits(queues, cards)
    /\ UndoFits(cards, undo_steps, queues) /\ RedoFits(cards, redo_steps, queues)

-----------------------------------------------------------------------------
(* Histories.                                                              *)

LEMMA HistoryOfNone ==
    ASSUME NEW rows
    PROVE  \E H : History(rows, <<>>, H)
<1> DEFINE H == [k \in 0..0 |-> rows]
<1>1. Len(<<>>) = 0
    BY EmptySeq
<1>2. H[0] = rows /\ DOMAIN H = 0..0
    OBVIOUS
<1> HIDE DEF H
<1>3. History(rows, <<>>, H)
    BY <1>1, <1>2 DEF History
<1>4. QED
    BY <1>3

Pushed(new, step, steps, H, K) ==
    /\ History(new, <<step>> \o steps, K)
    /\ \A k \in 1..(Len(steps) + 1) : K[k] = H[k - 1]

Popped(rows, steps, H, K) ==
    /\ History(rows, Tail(steps), K)
    /\ \A k \in 0..Len(Tail(steps)) : K[k] = H[k + 1]

(* One step more is in front.                                              *)
LEMMA HistoryPush ==
    ASSUME NEW rows, NEW steps, IsSeq(steps), NEW H, History(rows, steps, H),
           NEW step, NEW new, rows = Over(new, step.old)
    PROVE  \E K : Pushed(new, step, steps, H, K)
<1> DEFINE n == Len(steps)
           K == [k \in 0..(n + 1) |-> IF k = 0 THEN new ELSE H[k - 1]]
<1>1. /\ Len(<<step>> \o steps) = n + 1 /\ n \in Nat /\ (<<step>> \o steps)[1] = step
      /\ \A i \in 1..n : (<<step>> \o steps)[i + 1] = steps[i]
    BY ConsIsSeq
<1> DEFINE t == <<step>> \o steps
<1>2. /\ DOMAIN K = 0..(n + 1) /\ K[0] = new
      /\ \A k \in 1..(n + 1) : K[k] = H[k - 1]
    BY <1>1
<1>3. /\ H[0] = rows /\ \A k \in 1..n : H[k] = Over(H[k - 1], steps[k].old)
    BY DEF History
<1>4. t[1] = step /\ \A k \in 2..(n + 1) : t[k] = steps[k - 1]
    <2> SUFFICES ASSUME NEW k \in 2..(n + 1)  PROVE t[k] = steps[k - 1]
        BY <1>1
    <2>1. k - 1 \in 1..n /\ (k - 1) + 1 = k
        BY <1>1
    <2>2. QED
        BY <1>1, <2>1
<1> HIDE DEF K, t, n
<1>5. ASSUME NEW k \in 1..(n + 1)  PROVE K[k] = Over(K[k - 1], t[k].old)
    <2>1. CASE k = 1
        BY <1>1, <1>2, <1>3, <1>4, <2>1
    <2>2. CASE k # 1
        <3>1. k \in 2..(n + 1) /\ k - 1 \in 1..n /\ k - 1 \in 1..(n + 1)
            BY <1>1, <2>2
        <3>2. K[k] = H[k - 1] /\ K[k - 1] = H[(k - 1) - 1] /\ t[k] = steps[k - 1]
            BY <1>2, <1>4, <3>1
        <3>3. H[k - 1] = Over(H[(k - 1) - 1], steps[k - 1].old)
            BY <1>3, <3>1
        <3>4. QED
            BY <3>2, <3>3
    <2>3. QED
        BY <2>1, <2>2
<1>6. History(new, t, K)
    BY <1>1, <1>2, <1>5 DEF History, t
<1>7. QED
    BY <1>2, <1>6 DEF t, n, Pushed

(* The step in front is taken away.                                        *)
LEMMA HistoryPop ==
    ASSUME NEW rows, NEW steps, IsSeq(steps), steps # <<>>, NEW H, History(rows, steps, H)
    PROVE  /\ H[1] = Over(rows, steps[1].old)
           /\ \E K : Popped(H[1], steps, H, K)
<1> DEFINE n == Len(steps)
           t == Tail(steps)
           K == [k \in 0..(n - 1) |-> H[k + 1]]
<1>1. /\ n \in Nat \ {0} /\ Len(t) = n - 1
      /\ \A i \in 1..(n - 1) : t[i] = steps[i + 1]
    BY TailIsSeq
<1>2. H[0] = rows /\ \A k \in 1..n : H[k] = Over(H[k - 1], steps[k].old)
    BY DEF History
<1>3. DOMAIN K = 0..(n - 1) /\ \A k \in 0..(n - 1) : K[k] = H[k + 1]
    BY <1>1
<1> HIDE DEF K, t, n
<1>4. ASSUME NEW k \in 1..(n - 1)  PROVE K[k] = Over(K[k - 1], t[k].old)
    <2>1. k \in 0..(n - 1) /\ k - 1 \in 0..(n - 1) /\ k + 1 \in 1..n /\ (k - 1) + 1 = k
          /\ (k + 1) - 1 = k
        BY <1>1
    <2>2. K[k] = H[k + 1] /\ K[k - 1] = H[k] /\ t[k] = steps[k + 1]
        BY <1>1, <1>3, <2>1
    <2>3. H[k + 1] = Over(H[(k + 1) - 1], steps[k + 1].old)
        BY <1>2, <2>1
    <2>4. QED
        BY <2>1, <2>2, <2>3
<1>5. K[0] = H[1] /\ H[1] = Over(rows, steps[1].old)
    <2>1. 0 \in 0..(n - 1) /\ 1 \in 1..n
        BY <1>1
    <2>2. K[0] = H[0 + 1] /\ H[1] = Over(H[1 - 1], steps[1].old)
        BY <1>2, <1>3, <2>1
    <2>3. QED
        BY <1>2, <2>2
<1>6. History(H[1], t, K)
    BY <1>1, <1>3, <1>4, <1>5 DEF History
<1>7. QED
    BY <1>1, <1>3, <1>5, <1>6 DEF t, Popped

-----------------------------------------------------------------------------
(* Stacks that fit, as steps are put in front or taken away.               *)

LEMMA FitPush ==
    ASSUME NEW rows, NEW new, NEW step, NEW steps, IsSeq(steps), rows = Over(new, step.old),
           NEW live, NEW rooms, Fit(rows, steps, live, rooms),
           NEW live2 \in SUBSET (1..(Len(steps) + 1)), NEW rooms2,
           1 \in live2 => Matches(rooms2[1], rows),
           \A k \in 1..Len(steps) : k + 1 \in live2 => k \in live /\ rooms2[k + 1] = rooms[k]
    PROVE  Fit(new, <<step>> \o steps, live2, rooms2)
<1>1. PICK H : History(rows, steps, H) /\ \A k \in live : Matches(rooms[k], H[k])
    BY DEF Fit
<1>2. PICK K : Pushed(new, step, steps, H, K)
    BY <1>1, HistoryPush
<1>3. H[0] = rows /\ Len(steps) \in Nat
    BY <1>1, LenProperties DEF History, IsSeq
<1>4. \A k \in 1..(Len(steps) + 1) : K[k] = H[k - 1]
    BY <1>2 DEF Pushed
<1>5. ASSUME NEW k \in live2  PROVE Matches(rooms2[k], K[k])
    <2>1. CASE k = 1
        <3>1. 1 - 1 = 0 /\ 1 \in 1..(Len(steps) + 1)
            BY <1>3
        <3>2. K[1] = rows
            BY <1>3, <1>4, <3>1
        <3>3. QED
            BY <2>1, <3>2, <1>5
    <2>2. CASE k # 1
        <3>1. PICK j \in 1..Len(steps) : k = j + 1
            <4>1. k - 1 \in 1..Len(steps) /\ k = (k - 1) + 1
                BY <1>3, <2>2
            <4>2. QED
                BY <4>1
        <3>2. j \in live /\ rooms2[k] = rooms[j]
            BY <3>1, <1>5
        <3>3. (j + 1) - 1 = j
            BY <3>1, <1>3
        <3>4. K[j + 1] = H[j]
            BY <3>1, <3>3, <1>4
        <3>5. QED
            BY <1>1, <3>1, <3>2, <3>4
    <2>3. QED
        BY <2>1, <2>2
<1>6. QED
    BY <1>2, <1>5 DEF Pushed, Fit

IsRest(t, steps) == steps # <<>> /\ t = Tail(steps)

PopsTo(rows, steps, live, rooms, new, t, live2, rooms2) ==
    /\ IsSeq(steps) /\ new = Over(rows, steps[1].old) /\ Fit(rows, steps, live, rooms)
    /\ IsRest(t, steps) /\ live2 \subseteq 1..Len(t)
    /\ \A k \in 1..Len(t) : k \in live2 => k + 1 \in live /\ rooms2[k] = rooms[k + 1]

LEMMA FitPop ==
    ASSUME NEW rows, NEW steps, NEW live, NEW rooms, NEW new, NEW t, NEW live2, NEW rooms2,
           PopsTo(rows, steps, live, rooms, new, t, live2, rooms2)
    PROVE  Fit(new, t, live2, rooms2)
<1> USE DEF PopsTo
<1>0. steps # <<>> /\ t = Tail(steps)
    BY DEF IsRest
<1>1. PICK H : History(rows, steps, H) /\ \A k \in live : Matches(rooms[k], H[k])
    BY DEF Fit
<1>2. H[1] = new /\ \E K : Popped(H[1], steps, H, K)
    BY <1>0, <1>1, HistoryPop
<1>3. PICK K : Popped(H[1], steps, H, K)
    BY <1>2
<1>4. \A k \in live2 : K[k] = H[k + 1]
    <2>1. Len(Tail(steps)) \in Nat
        BY <1>0, TailIsSeq, LenProperties DEF IsSeq
    <2>2. \A k \in live2 : k \in 0..Len(Tail(steps))
        BY <1>0, <2>1
    <2>3. QED
        BY <1>3, <2>2 DEF Popped
<1>5. \A k \in live2 : Matches(rooms2[k], K[k])
    BY <1>1, <1>4
<1>6. QED
    BY <1>0, <1>1, <1>2, <1>3, <1>5 DEF Fit, Popped

LEMMA FitTop ==
    ASSUME NEW rows, NEW steps, IsSeq(steps), steps # <<>>, NEW new, new = Over(rows, steps[1].old),
           NEW live, NEW rooms, Fit(rows, steps, live, rooms), 1 \in live
    PROVE  Matches(rooms[1], new)
<1>1. PICK H : History(rows, steps, H) /\ \A k \in live : Matches(rooms[k], H[k])
    BY DEF Fit
<1>2. H[1] = Over(rows, steps[1].old)
    BY <1>1, HistoryPop
<1>3. QED
    BY <1>1, <1>2

LEMMA OnStack ==
    ASSUME NEW steps, IsSeq(steps)
    PROVE  Len(steps) \in Nat /\ \A k \in 1..Len(steps) : steps[k] \in ToSet(steps)
BY LenProperties DEF IsSeq, ToSet

LEMMA FitsStay ==
    ASSUME NEW rows, NEW steps, IsSeq(steps), NEW q, NEW q2,
           \A s \in ToSet(steps) : Alive(s, q2) => Alive(s, q)
    PROVE  /\ UndoFits(rows, steps, q) => UndoFits(rows, steps, q2)
           /\ RedoFits(rows, steps, q) => RedoFits(rows, steps, q2)
<1>1. \A k \in Live(steps, q2) : k \in Live(steps, q)
    BY OnStack DEF Live
<1>2. QED
    BY <1>1 DEF UndoFits, RedoFits, Fit

LEMMA NoneFits ==
    ASSUME NEW rows, NEW q
    PROVE  UndoFits(rows, <<>>, q) /\ RedoFits(rows, <<>>, q)
<1>1. PICK H : History(rows, <<>>, H)
    BY HistoryOfNone
<1>2. Len(<<>>) = 0
    BY EmptySeq
<1>3. Live(<<>>, q) = {}
    BY <1>2 DEF Live
<1>4. QED
    BY <1>1, <1>3 DEF UndoFits, RedoFits, Fit

LEMMA FitsPush ==
    ASSUME NEW rows, NEW new, NEW step, NEW steps, IsSeq(steps), rows = Over(new, step.old),
           NEW q, NEW q2, \A s \in ToSet(steps) : Alive(s, q2) => Alive(s, q)
    PROVE  /\ UndoFits(rows, steps, q) /\ (Alive(step, q2) => Matches(UndoRoom(step), rows))
                => UndoFits(new, <<step>> \o steps, q2)
           /\ RedoFits(rows, steps, q) /\ (Alive(step, q2) => Matches(RedoRoom(step), rows))
                => RedoFits(new, <<step>> \o steps, q2)
<1> DEFINE t == <<step>> \o steps
           n == Len(steps)
           live == Live(steps, q)
           live2 == Live(t, q2)
           U == [k \in 1..Len(steps) |-> UndoRoom(steps[k])]
           U2 == [k \in 1..Len(t) |-> UndoRoom(t[k])]
           R == [k \in 1..Len(steps) |-> RedoRoom(steps[k])]
           R2 == [k \in 1..Len(t) |-> RedoRoom(t[k])]
<1>1. /\ n \in Nat /\ Len(t) = n + 1 /\ t[1] = step
      /\ \A k \in 1..n : t[k + 1] = steps[k] /\ steps[k] \in ToSet(steps)
    BY ConsIsSeq, OnStack
<1>2. live2 \in SUBSET (1..(n + 1)) /\ (1 \in live2 => Alive(step, q2))
    BY <1>1 DEF Live
<1>3. \A k \in 1..n : k + 1 \in 1..Len(t) /\ (k + 1 \in live2 => k \in live)
    BY <1>1 DEF Live
<1>4. 1 \in 1..Len(t)
    BY <1>1
<1>5. /\ U2[1] = UndoRoom(step) /\ R2[1] = RedoRoom(step)
      /\ \A k \in 1..n : U2[k + 1] = U[k] /\ R2[k + 1] = R[k]
    BY <1>1, <1>3, <1>4
<1>6. ASSUME UndoFits(rows, steps, q), Alive(step, q2) => Matches(UndoRoom(step), rows)
      PROVE  UndoFits(new, t, q2)
    <2>1. Fit(rows, steps, live, U)
        BY <1>6 DEF UndoFits
    <2> HIDE DEF t, live, live2, U, U2
    <2>2. /\ 1 \in live2 => Matches(U2[1], rows)
          /\ \A k \in 1..Len(steps) : k + 1 \in live2 => k \in live /\ U2[k + 1] = U[k]
        BY <1>2, <1>3, <1>5, <1>6
    <2>3. Fit(new, <<step>> \o steps, live2, U2)
        BY <1>2, <2>1, <2>2, FitPush
    <2>4. QED
        BY <2>3 DEF UndoFits, t, live2, U2
<1>7. ASSUME RedoFits(rows, steps, q), Alive(step, q2) => Matches(RedoRoom(step), rows)
      PROVE  RedoFits(new, t, q2)
    <2>1. Fit(rows, steps, live, R)
        BY <1>7 DEF RedoFits
    <2> HIDE DEF t, live, live2, R, R2
    <2>2. /\ 1 \in live2 => Matches(R2[1], rows)
          /\ \A k \in 1..Len(steps) : k + 1 \in live2 => k \in live /\ R2[k + 1] = R[k]
        BY <1>2, <1>3, <1>5, <1>7
    <2>3. Fit(new, <<step>> \o steps, live2, R2)
        BY <1>2, <2>1, <2>2, FitPush
    <2>4. QED
        BY <2>3 DEF RedoFits, t, live2, R2
<1>8. QED
    BY <1>6, <1>7

LEMMA FitsPop ==
    ASSUME NEW rows, NEW new, NEW steps, IsSeq(steps), steps # <<>>, new = Over(rows, steps[1].old),
           NEW q, NEW q2, \A s \in ToSet(steps) : Alive(s, q2) => Alive(s, q)
    PROVE  /\ UndoFits(rows, steps, q) =>
                /\ UndoFits(new, Tail(steps), q2)
                /\ Alive(steps[1], q) => Matches(UndoRoom(steps[1]), new)
           /\ RedoFits(rows, steps, q) =>
                /\ RedoFits(new, Tail(steps), q2)
                /\ Alive(steps[1], q) => Matches(RedoRoom(steps[1]), new)
<1> DEFINE t == Tail(steps)
           n == Len(steps)
           live == Live(steps, q)
           live2 == Live(t, q2)
           U == [k \in 1..Len(steps) |-> UndoRoom(steps[k])]
           U2 == [k \in 1..Len(t) |-> UndoRoom(t[k])]
           R == [k \in 1..Len(steps) |-> RedoRoom(steps[k])]
           R2 == [k \in 1..Len(t) |-> RedoRoom(t[k])]
<1>1. /\ n \in Nat \ {0} /\ Len(t) = n - 1 /\ 1 \in 1..n
      /\ \A k \in 1..n : steps[k] \in ToSet(steps)
      /\ \A k \in 1..(n - 1) : t[k] = steps[k + 1] /\ k + 1 \in 1..n
    BY TailIsSeq, OnStack
<1>2. live2 \in SUBSET (1..Len(t)) /\ (Alive(steps[1], q) => 1 \in live)
    BY <1>1 DEF Live
<1>3. \A k \in live2 : k \in 1..(n - 1) /\ k + 1 \in live
    BY <1>1 DEF Live
<1>4. /\ U[1] = UndoRoom(steps[1]) /\ R[1] = RedoRoom(steps[1])
      /\ \A k \in 1..(n - 1) : U2[k] = U[k + 1] /\ R2[k] = R[k + 1]
    BY <1>1
<1>5. ASSUME UndoFits(rows, steps, q)
      PROVE  UndoFits(new, t, q2) /\ (Alive(steps[1], q) => Matches(UndoRoom(steps[1]), new))
    <2>1. Fit(rows, steps, live, U)
        BY <1>5 DEF UndoFits
    <2> HIDE DEF t, live, live2, U, U2
    <2>2. \A k \in 1..Len(t) : k \in live2 => k + 1 \in live /\ U2[k] = U[k + 1]
        BY <1>3, <1>4
    <2>3. IsRest(t, steps) /\ live2 \in SUBSET (1..Len(t))
        BY <1>2 DEF t, IsRest
    <2>4. PopsTo(rows, steps, live, U, new, t, live2, U2)
        BY <2>1, <2>2, <2>3 DEF PopsTo
    <2>5. Fit(new, t, live2, U2)
        BY <2>4, FitPop
    <2>6. 1 \in live => Matches(U[1], new)
        BY <2>1, FitTop
    <2>7. QED
        BY <1>2, <1>4, <2>5, <2>6 DEF UndoFits, t, live2, U2
<1>6. ASSUME RedoFits(rows, steps, q)
      PROVE  RedoFits(new, t, q2) /\ (Alive(steps[1], q) => Matches(RedoRoom(steps[1]), new))
    <2>1. Fit(rows, steps, live, R)
        BY <1>6 DEF RedoFits
    <2> HIDE DEF t, live, live2, R, R2
    <2>2. \A k \in 1..Len(t) : k \in live2 => k + 1 \in live /\ R2[k] = R[k + 1]
        BY <1>3, <1>4
    <2>3. IsRest(t, steps) /\ live2 \in SUBSET (1..Len(t))
        BY <1>2 DEF t, IsRest
    <2>4. PopsTo(rows, steps, live, R, new, t, live2, R2)
        BY <2>1, <2>2, <2>3 DEF PopsTo
    <2>5. Fit(new, t, live2, R2)
        BY <2>4, FitPop
    <2>6. 1 \in live => Matches(R[1], new)
        BY <2>1, FitTop
    <2>7. QED
        BY <1>2, <1>4, <2>5, <2>6 DEF RedoFits, t, live2, R2
<1>7. QED
    BY <1>5, <1>6

(* The rows before a step, and after it.                                   *)
LEMMA RowsOfStep ==
    ASSUME Inv, NEW step, GoodStep(step), cards' = Restored(step)
    PROVE  /\ cards' = Over(cards, step.old)
           /\ cards = Over(cards', Opposite(step).old)
<1>1. PICK cs \in SUBSET Cards : DOMAIN step.old = cs
    BY DEF GoodStep, RowsBy
<1>2. cards \in [Cards -> Rows]
    BY DEF Inv, TypesOK, RowsBy
<1>3. cards' = Over(cards, step.old)
    BY DEF Restored, Over
<1>4. Opposite(step).old = [c \in cs |-> cards[c]]
    BY <1>1 DEF Opposite, Step
<1>5. PICK rows, new, old : rows = cards /\ new = cards' /\ old = Opposite(step).old
    OBVIOUS
<1>6. /\ \A c \in Cards : new[c] = IF c \in cs THEN step.old[c] ELSE rows[c]
      /\ DOMAIN old = cs /\ \A c \in cs : old[c] = rows[c]
    BY <1>1, <1>3, <1>4, <1>5 DEF Over
<1>7. \A c \in Cards : rows[c] = Over(new, old)[c]
    BY <1>6 DEF Over
<1>8. rows = Over(new, old)
    BY <1>2, <1>5, <1>7 DEF Over
<1>9. QED
    BY <1>3, <1>5, <1>8

-----------------------------------------------------------------------------
(* A queue that was built agrees with the rows.                            *)

LEMMA ArrangedAll ==
    ASSUME NEW S, IsFiniteSet(S), NEW s \in SetToSeqs(S)
    PROVE  /\ DOMAIN s = 1..Cardinality(S) /\ Cardinality(S) \in Nat
           /\ \A i \in DOMAIN s : s[i] \in S
           /\ \A i, j \in DOMAIN s : i # j => s[i] # s[j]
           /\ \A x \in S : \E i \in DOMAIN s : s[i] = x
           /\ ToSet(s) = S
<1>1. Cardinality(S) \in Nat
    BY FS_CardinalityType
<1> DEFINE D == 1..Cardinality(S)
<1>2. s \in [D -> S] /\ \A i, j \in D : i # j => s[i] # s[j]
    BY DEF SetToSeqs
<1>3. IsFiniteSet(D) /\ Cardinality(D) = Cardinality(S)
    <2>1. \A x \in Int : IsFiniteSet(1..x) /\ Cardinality(1..x) = IF 1 > x THEN 0 ELSE x - 1 + 1
        BY FS_Interval
    <2>2. QED
        BY <1>1, <2>1
<1> HIDE DEF D
<1>4. s \in Injection(D, S)
    BY <1>2 DEF Injection, IsInjective
<1>5. s \in Surjection(D, S)
    BY <1>3, <1>4, FS_Injection
<1>6. \A x \in S : \E i \in D : s[i] = x
    BY <1>5 DEF Surjection
<1>7. DOMAIN s = D
    BY <1>2
<1>8. ToSet(s) = S
    BY <1>2, <1>6, <1>7 DEF ToSet
<1>9. QED
    BY <1>1, <1>2, <1>6, <1>7, <1>8 DEF D

(* The queues that siblings bury.                                          *)
LEMMA QueuesBuried ==
    ASSUME NEW rows, NEW d \in Cards, NEW c, Buries(d, c, rows)
    PROVE  /\ rows[c].queue \in MainKinds /\ At(rows, c) \in {1, 2, 3}
           /\ \A x : DueRow(rows[x]) /\ At(rows, x) = At(rows, c) => rows[x].queue = rows[c].queue
<1>1. rows[c].queue \in {"New", "Review", "DayLearn"}
    BY QueueParameters DEF Buries
<1>2. ASSUME NEW x, DueRow(rows[x])
      PROVE  rows[x].queue \in {"Learn", "PreviewRepeat", "DayLearn", "Review", "New"}
    BY <1>2 DEF DueRow, IsIntraday
<1>3. QED
    BY <1>1, <1>2 DEF At, GatherOrd, MainKinds

LEMMA DueIsAt ==
    ASSUME NEW rows, NEW c \in DueOf(rows)
    PROVE  At(rows, c) \in 0..3
BY DEF DueOf, DueRow, IsIntraday, At, GatherOrd

LEMMA GatheredMatches ==
    ASSUME BuriedAlike, NEW v \in Visits
    PROVE  /\ Gathered(v) \subseteq DueOf(cards)
           /\ NoneMissing(Gathered(v), cards) /\ NoneBuried(Gathered(v), cards)
<1> DEFINE D == DueOf(cards)
           G == Gathered(v)
           A(c) == At(cards, c)
<1>1. Due = D /\ D \subseteq Cards /\ IsFiniteSet(D)
    <2>1. Due = D /\ D \subseteq Cards
        BY DEF Due, DueOf
    <2>2. QED
        BY <2>1, QueueParameters, FS_Subset
<1>2. /\ v \in SetToSeqs(D)
      /\ \A i, j \in DOMAIN v : i < j => A(v[i]) <= A(v[j])
    BY <1>1 DEF Visits, At
<1>3. /\ DOMAIN v \subseteq Nat
      /\ \A i \in DOMAIN v : v[i] \in D
      /\ \A i, j \in DOMAIN v : i # j => v[i] # v[j]
      /\ \A c \in D : \E i \in DOMAIN v : v[i] = c
    BY <1>1, <1>2, ArrangedAll
<1>4. /\ G \subseteq D
      /\ \A c \in D : c \in G <=> ~\E i, j \in DOMAIN v :
            i < j /\ v[j] = c /\ NoteOf[v[i]] = NoteOf[c] /\ cards[c].queue \in Bury[v[i]]
    BY <1>1 DEF Gathered
<1> HIDE DEF D, G
<1>5. \A i, j \in DOMAIN v : i < j => v[i] # v[j]
    BY <1>3
<1>6. ASSUME NEW j \in DOMAIN v
      PROVE  v[j] \in G <=> ~\E i \in DOMAIN v : i < j /\ Buries(v[i], v[j], cards)
    <2>1. v[j] \in D
        BY <1>3
    <2>2. ASSUME v[j] \in G, NEW i \in DOMAIN v, i < j, Buries(v[i], v[j], cards)
          PROVE  FALSE
        BY <1>4, <2>1, <2>2 DEF Buries
    <2>3. ASSUME v[j] \notin G
          PROVE  \E i \in DOMAIN v : i < j /\ Buries(v[i], v[j], cards)
        <3>1. PICK i, k \in DOMAIN v : i < k /\ v[k] = v[j] /\ NoteOf[v[i]] = NoteOf[v[j]]
                                       /\ cards[v[j]].queue \in Bury[v[i]]
            BY <1>4, <2>1, <2>3
        <3>2. k = j
            BY <1>3, <3>1
        <3>3. QED
            BY <1>5, <3>1, <3>2 DEF Buries
    <2>4. QED
        BY <2>2, <2>3
<1>7. ASSUME NEW c \in D \ G
      PROVE  \E d \in D : Buries(d, c, cards) /\ GoesBefore(d, c, G, cards)
    <2>1. PICK j \in DOMAIN v : v[j] = c
        BY <1>3
    <2> DEFINE T == {i \in DOMAIN v : i < j /\ Buries(v[i], c, cards)}
    <2>2. T # {} /\ T \in SUBSET Nat
        BY <1>3, <1>6, <2>1
    <2>3. PICK i \in T : \A k \in T : i <= k
        <3> HIDE DEF T
        <3>1. Min(T) \in T /\ \A k \in T : Min(T) <= k
            BY <2>2, MinOf
        <3>2. QED
            BY <3>1
    <2>4. i \in DOMAIN v /\ i < j /\ v[i] \in D /\ Buries(v[i], c, cards) /\ A(v[i]) <= A(c)
        BY <1>2, <1>3, <2>1, <2>3
    <2>5. A(v[i]) \in 0..3 /\ A(c) \in 0..3 /\ v[i] \in Cards
        BY <1>1, <2>4, DueIsAt DEF D
    <2>6. CASE v[i] \in G \/ A(v[i]) # A(c)
        BY <2>4, <2>5, <2>6 DEF GoesBefore
    <2>7. CASE v[i] \notin G /\ A(v[i]) = A(c)
        <3>1. PICK k \in DOMAIN v : k < i /\ Buries(v[k], v[i], cards)
            BY <1>6, <2>4, <2>7
        <3>2. cards[v[i]].queue = cards[c].queue
            BY <2>4, <2>5, <2>7, QueuesBuried DEF D, DueOf
        <3>3. k < j /\ k \in Nat /\ i \in Nat /\ j \in Nat
            BY <1>3, <2>1, <2>4, <3>1
        <3>4. v[k] # c
            BY <1>5, <2>1, <3>3
        <3>5. Buries(v[k], c, cards)
            BY <2>4, <3>1, <3>2, <3>4 DEF Buries
        <3>6. i <= k
            BY <2>3, <3>1, <3>3, <3>5
        <3>7. QED
            BY <3>1, <3>3, <3>6
    <2>8. QED
        BY <2>6, <2>7
<1>8. ASSUME NEW c \in G, NEW d \in D, Buries(d, c, cards)
      PROVE  A(c) < A(d) \/ (A(c) = A(d) /\ d \notin G)
    <2>1. PICK i, j \in DOMAIN v : v[i] = d /\ v[j] = c
        BY <1>3, <1>4
    <2>2. i \in Nat /\ j \in Nat /\ ~(i < j)
        BY <1>3, <1>6, <1>8, <2>1
    <2>3. j < i
        BY <1>8, <2>1, <2>2 DEF Buries
    <2>4. A(c) <= A(d) /\ A(c) \in 0..3 /\ A(d) \in 0..3 /\ c \in Cards /\ d \in Cards
        BY <1>1, <1>2, <1>4, <2>1, <2>3, DueIsAt DEF D
    <2>5. ASSUME A(c) = A(d)  PROVE d \notin G
        <3>1. cards[d].queue = cards[c].queue
            BY <1>8, <2>4, <2>5, QueuesBuried DEF D, DueOf
        <3>2. Bury[c] = Bury[d]
            BY <1>8, <2>4 DEF BuriedAlike, Buries
        <3>3. Buries(c, d, cards)
            BY <1>8, <3>1, <3>2 DEF Buries
        <3>4. QED
            BY <1>6, <2>1, <2>3, <3>3
    <2>6. QED
        BY <2>4, <2>5
<1>9. NoneMissing(G, cards)
    BY <1>7 DEF NoneMissing, D
<1>10. NoneBuried(G, cards)
    BY <1>8 DEF NoneBuried, D
<1>11. QED
    BY <1>4, <1>9, <1>10 DEF D, G

LEMMA BuildMatches ==
    ASSUME BuriedAlike, NEW q \in Builds
    PROVE  Matches(Rooms(q.main, ToSet(q.learning)), cards)
<1>1. PICK v \in Visits : q \in BuildsOf(Gathered(v))
    BY DEF Builds
<1> DEFINE G == Gathered(v)
           learns == Intraday(G)
           E == Entries(G \ learns)
           F == Entries(learns)
<1>2. PICK main \in SetToSeqs(E), learning \in SetToSeqs(F) : q = BuiltFrom(main, learning)
    <2>1. PICK main \in SetToSeqs(E), learning \in SortedSeqs(F) : q = BuiltFrom(main, learning)
        BY <1>1 DEF BuildsOf
    <2>2. learning \in SetToSeqs(F)
        BY DEF SortedSeqs
    <2>3. QED
        BY <2>1, <2>2
<1>3. /\ G \subseteq DueOf(cards) /\ NoneMissing(G, cards) /\ NoneBuried(G, cards)
    BY GatheredMatches
<1> HIDE DEF G
<1>4. IsFiniteSet(E) /\ IsFiniteSet(F)
    <2>1. IsFiniteSet(G)
        BY <1>3, QueueParameters, FS_Subset DEF DueOf
    <2>2. IsFiniteSet(G \ learns) /\ IsFiniteSet(learns)
        BY <2>1, FS_Subset DEF Intraday
    <2>3. \A cs : IsFiniteSet(cs) => IsFiniteSet(Entries(cs))
        <3> TAKE cs
        <3> HAVE IsFiniteSet(cs)
        <3> DEFINE g == [c \in cs |-> Entry(c, cards[c])]
        <3>1. g \in Surjection(cs, Entries(cs))
            BY DEF Surjection, Entries
        <3> HIDE DEF g
        <3>2. QED
            BY <3>1, FS_Surjection
    <2>4. QED
        BY <2>2, <2>3
<1>5. Rooms(q.main, ToSet(q.learning)) = E \cup F
    <2>1. q.main = main /\ q.learning = learning
        BY <1>2 DEF BuiltFrom
    <2> HIDE DEF E, F
    <2>2. ToSet(main) = E /\ ToSet(learning) = F
        BY <1>4, ArrangedAll
    <2>3. QED
        BY <2>1, <2>2 DEF Rooms
<1>6. E \cup F = Entries(G)
    BY DEF Entries, Intraday
<1>7. /\ \A e \in Entries(G) : e.id \in G /\ e = Entry(e.id, cards[e.id])
      /\ \A c \in G : Entry(c, cards[c]) \in Entries(G) /\ Entry(c, cards[c]).id = c
    BY DEF Entries, Entry
<1>8. Ids(Entries(G)) = G
    BY <1>7 DEF Ids
<1>9. Current(Entries(G), cards)
    <2> SUFFICES ASSUME NEW e \in Entries(G)
                 PROVE  /\ e.id \in DueOf(cards) /\ cards[e.id].mtime = e.mtime
                        /\ e.kind = Entry(e.id, cards[e.id]).kind
        BY DEF Current
    <2>1. e.id \in G /\ e = Entry(e.id, cards[e.id])
        BY <1>7
    <2>2. Entry(e.id, cards[e.id]).mtime = cards[e.id].mtime
        BY DEF Entry
    <2>3. QED
        BY <1>3, <2>1, <2>2
<1>10. QED
    BY <1>3, <1>5, <1>6, <1>8, <1>9 DEF Matches

-----------------------------------------------------------------------------
(* An answer leaves a queue that agrees with the rows it leaves.           *)

(* The card c is answered: its row is new, siblings are buried.            *)
AnswersWith(rows, new, c, row, sib) ==
    /\ sib = {d \in Cards \ {c} : /\ NoteOf[d] = NoteOf[c] /\ rows[d].queue \in Bury[c]
                                  /\ At(rows, c) <= At(rows, d)}
    /\ new[c] = row
    /\ \A d \in sib : new[d].queue = "SchedBuried"
    /\ \A d \in (Cards \ {c}) \ sib : new[d] = rows[d]

(* The answered card is due again in the learning queue, or not at all.    *)
ComesBack(row, back, f, c) ==
    /\ row.due \in Nat /\ (DueRow(row) => IsIntraday(row))
    /\ back <=> Requeues(row)
    /\ back => DueRow(row) /\ f.id = c /\ f.mtime = row.mtime /\ f.kind = "Learn"

(* What is due when c is answered.                                         *)
DueAfter(rows, new, c, row, sib) ==
    /\ \A d \in Cards \ {c} : d \in DueOf(new) <=> d \in DueOf(rows) \ sib
    /\ c \in DueOf(new) <=> DueRow(row)
    /\ c \in DueOf(new) => IsIntraday(new[c]) /\ At(new, c) = 0

LEMMA DueAfterAnswer ==
    ASSUME NEW rows, NEW new, NEW c \in Cards, NEW row, NEW sib,
           AnswersWith(rows, new, c, row, sib), DueRow(row) => IsIntraday(row)
    PROVE  DueAfter(rows, new, c, row, sib)
<1>1. ASSUME NEW d \in sib  PROVE ~DueRow(new[d])
    <2>1. new[d].queue = "SchedBuried"
        BY DEF AnswersWith
    <2>2. QED
        BY <2>1 DEF DueRow, IsIntraday
<1>2. \A d \in (Cards \ {c}) \ sib : new[d] = rows[d]
    BY DEF AnswersWith
<1>3. new[c] = row
    BY DEF AnswersWith
<1>4. \A d \in Cards \ {c} : d \in DueOf(new) <=> d \in DueOf(rows) \ sib
    BY <1>1, <1>2 DEF DueOf
<1>5. c \in DueOf(new) <=> DueRow(row)
    BY <1>3 DEF DueOf
<1>6. IsIntraday(row) => At(new, c) = 0
    BY <1>3 DEF IsIntraday, At, GatherOrd
<1>7. QED
    BY <1>3, <1>4, <1>5, <1>6 DEF DueAfter

(* The entries E become M as the one on top is answered.                   *)
Turned(E, M, top, rows, new, row, sib, back, f) ==
    /\ Matches(E, rows) /\ \A x, y \in E : x.id = y.id => x = y
    /\ top \in E /\ M = (E \ {top}) \cup (IF back THEN {f} ELSE {})
    /\ AnswersWith(rows, new, top.id, row, sib)
    /\ back \in BOOLEAN /\ ComesBack(row, back, f, top.id)

LEMMA AnswerMatches ==
    ASSUME BuriedAlike, NEW E, NEW M, NEW top, NEW rows, NEW new, NEW row, NEW sib,
           NEW back, NEW f, Turned(E, M, top, rows, new, row, sib, back, f)
    PROVE  Matches(M, new)
<1> SUFFICES ASSUME Matches(E, rows), \A x, y \in E : x.id = y.id => x = y, top \in E,
                    NEW c, c = top.id, AnswersWith(rows, new, c, row, sib),
                    back \in BOOLEAN, ComesBack(row, back, f, c),
                    M = (E \ {top}) \cup (IF back THEN {f} ELSE {})
             PROVE  Matches(M, new)
    BY DEF Turned
<1> DEFINE cs == Ids(E)
           ms == Ids(M)
<1>1. /\ Current(E, rows) /\ NoneMissing(cs, rows) /\ NoneBuried(cs, rows)
    BY DEF Matches
<1>2. /\ cs \subseteq DueOf(rows) /\ DueOf(rows) \subseteq Cards /\ c \in cs /\ c \in Cards
    BY <1>1 DEF Current, Ids, DueOf
<1>3. /\ \A d \in Cards \ {c} : d \in DueOf(new) <=> d \in DueOf(rows) \ sib
      /\ c \in DueOf(new) <=> DueRow(row)
      /\ c \in DueOf(new) => IsIntraday(new[c]) /\ At(new, c) = 0
    <2>1. DueRow(row) => IsIntraday(row)
        BY DEF ComesBack
    <2>2. DueAfter(rows, new, c, row, sib)
        BY <1>2, <2>1, DueAfterAnswer
    <2>3. QED
        BY <2>2 DEF DueAfter
<1>4. /\ \A d \in (Cards \ {c}) \ sib : new[d] = rows[d] /\ At(new, d) = At(rows, d)
      /\ new[c] = row
    BY DEF AnswersWith, At
<1>5. \A d : d \in sib <=> /\ d \in Cards \ {c} /\ Buries(c, d, rows)
                           /\ At(rows, c) <= At(rows, d)
    BY DEF AnswersWith, Buries
<1>6. \A d \in DueOf(rows) : At(rows, d) \in 0..3
    BY DueIsAt
<1>7. \A d \in cs : d \notin sib
    <2> SUFFICES ASSUME NEW d \in cs, d \in sib  PROVE FALSE
        OBVIOUS
    <2>1. Buries(c, d, rows) /\ At(rows, c) <= At(rows, d)
        BY <1>5
    <2>2. At(rows, d) < At(rows, c)
        BY <1>1, <1>2, <2>1 DEF NoneBuried
    <2>3. QED
        BY <1>2, <1>6, <2>1, <2>2
<1>8. /\ \A d : d \in ms <=> (d \in cs /\ d # c) \/ (d = c /\ back)
    <2>1. \A e \in E : e.id = c <=> e = top
        OBVIOUS
    <2>2. back => f.id = c
        BY DEF ComesBack
    <2>3. QED
        BY <2>1, <2>2 DEF Ids
<1>9. \A x \in DueOf(rows), d \in Cards : Buries(d, x, rows) => At(rows, x) \in {1, 2, 3}
    BY QueuesBuried
<1>10. Current(M, new)
    <2> SUFFICES ASSUME NEW e \in M
                 PROVE  /\ e.id \in DueOf(new) /\ new[e.id].mtime = e.mtime
                        /\ e.kind = Entry(e.id, new[e.id]).kind
        BY DEF Current
    <2>1. CASE e \in E /\ e # top
        <3>1. e.id # c /\ e.id \in cs
            BY <2>1 DEF Ids
        <3>2. e.id \in Cards /\ e.id \notin sib /\ new[e.id] = rows[e.id]
            BY <1>2, <1>4, <1>7, <3>1
        <3>3. e.id \in DueOf(new)
            BY <1>2, <1>3, <3>1, <3>2
        <3>4. QED
            BY <1>1, <2>1, <3>2, <3>3 DEF Current
    <2>2. CASE back /\ e = f
        <3>1. DueRow(row) /\ f.id = c /\ f.mtime = row.mtime /\ f.kind = "Learn" /\ IsIntraday(row)
            BY <2>2 DEF ComesBack
        <3>2. Entry(c, row).kind = "Learn"
            BY <3>1 DEF Entry
        <3>3. QED
            BY <1>3, <1>4, <2>2, <3>1, <3>2
    <2>3. QED
        BY <2>1, <2>2
<1> HIDE DEF cs, ms
<1>11. NoneMissing(ms, new)
    <2> SUFFICES ASSUME NEW x \in DueOf(new) \ ms, ~IsAtRollover(new[x])
                 PROVE  \E d \in DueOf(new) : Buries(d, x, new) /\ GoesBefore(d, x, ms, new)
        BY DEF NoneMissing
    <2>1. x # c
        <3>1. ASSUME x = c  PROVE FALSE
            <4>1. DueRow(row) /\ ~back /\ new[c] = row
                BY <1>3, <1>4, <1>8, <3>1
            <4>2. IsIntraday(row) /\ ~(row.due < Tomorrow)
                BY <4>1 DEF ComesBack, Requeues
            <4>3. row.due <= Tomorrow
                BY <4>1, <4>2 DEF DueRow
            <4>4. QED
                BY <3>1, <4>1, <4>2, <4>3, QueueParameters DEF IsAtRollover, ComesBack
        <3>2. QED
            BY <3>1
    <2>2. /\ x \in DueOf(rows) /\ x \notin sib /\ x \in Cards /\ x \notin cs /\ new[x] = rows[x]
          /\ At(new, x) = At(rows, x)
        BY <1>2, <1>3, <1>4, <1>8, <2>1 DEF DueOf
    <2>3. PICK d \in DueOf(rows) : Buries(d, x, rows) /\ GoesBefore(d, x, cs, rows)
        BY <1>1, <2>2 DEF NoneMissing
    <2>4. d \in Cards /\ At(rows, d) <= At(rows, x) /\ At(rows, d) \in 0..3 /\ At(rows, x) \in 0..3
          /\ At(rows, c) \in 0..3
        BY <1>2, <1>6, <2>2, <2>3 DEF GoesBefore
    <2>5. d # c
        BY <1>5, <2>1, <2>2, <2>3, <2>4
    <2>6. d \notin sib
        <3>1. ASSUME d \in sib  PROVE FALSE
            <4>1. NoteOf[d] = NoteOf[c] /\ At(rows, c) <= At(rows, d)
                BY <1>5, <3>1 DEF Buries
            <4>2. Bury[d] = Bury[c]
                BY <1>2, <2>4, <4>1 DEF BuriedAlike
            <4>3. Buries(c, x, rows)
                BY <2>1, <2>3, <4>1, <4>2 DEF Buries
            <4>4. At(rows, c) <= At(rows, x)
                BY <2>4, <4>1
            <4>5. QED
                BY <1>5, <2>1, <2>2, <4>3, <4>4
        <3>2. QED
            BY <3>1
    <2>7. d \in DueOf(new) /\ new[d] = rows[d] /\ At(new, d) = At(rows, d)
        BY <1>3, <1>4, <2>4, <2>5, <2>6
    <2>8. Buries(d, x, new)
        BY <2>2, <2>3 DEF Buries
    <2>9. d \in cs => d \in ms
        BY <1>8, <2>5
    <2>10. GoesBefore(d, x, ms, new)
        BY <2>2, <2>3, <2>7, <2>9 DEF GoesBefore
    <2>11. QED
        BY <2>7, <2>8, <2>10
<1>12. NoneBuried(ms, new)
    <2> SUFFICES ASSUME NEW x \in ms, NEW d \in DueOf(new), Buries(d, x, new)
                 PROVE  At(new, x) < At(new, d) \/ (At(new, x) = At(new, d) /\ d \notin ms)
        BY DEF NoneBuried
    <2>1. d \in Cards
        BY DEF DueOf
    <2>2. x # c
        <3>1. ASSUME x = c  PROVE FALSE
            <4>1. IsIntraday(new[c])
                BY <1>3, <1>8, <3>1 DEF ComesBack
            <4>2. new[c].queue \in MainKinds
                BY <2>1, <3>1, QueuesBuried
            <4>3. QED
                BY <4>1, <4>2 DEF IsIntraday, MainKinds
        <3>2. QED
            BY <3>1
    <2>3. /\ x \in cs /\ x \in DueOf(rows) /\ x \in Cards /\ x \notin sib /\ new[x] = rows[x]
          /\ At(new, x) = At(rows, x)
        BY <1>2, <1>4, <1>7, <1>8, <2>2
    <2>4. Buries(d, x, rows)
        BY <2>3 DEF Buries
    <2>5. CASE d # c
        <3>1. d \in DueOf(rows) /\ d \notin sib /\ At(new, d) = At(rows, d)
            BY <1>3, <1>4, <2>1, <2>5
        <3>2. At(rows, x) < At(rows, d) \/ (At(rows, x) = At(rows, d) /\ d \notin cs)
            BY <1>1, <2>3, <2>4, <3>1 DEF NoneBuried
        <3>3. d \notin cs => d \notin ms
            BY <1>8, <2>5
        <3>4. QED
            BY <2>3, <3>1, <3>2, <3>3
    <2>6. CASE d = c
        <3>1. At(rows, x) < At(rows, c)
            BY <1>1, <1>2, <2>3, <2>4, <2>6 DEF NoneBuried
        <3>2. At(rows, x) \in {1, 2, 3} /\ At(rows, c) \in 0..3
            BY <1>2, <1>6, <1>9, <2>1, <2>3, <2>4
        <3>3. rows[c].queue \in MainKinds /\ rows[x].queue \in Bury[c]
            <4>1. At(rows, c) \in {2, 3}
                BY <3>1, <3>2
            <4>2. DueRow(rows[c])
                BY <1>2 DEF DueOf
            <4>3. QED
                BY <2>4, <2>6, <4>1, <4>2 DEF DueRow, IsIntraday, At, GatherOrd, MainKinds, Buries
        <3>4. rows[c].queue \in Bury[c]
            <4>1. GatherOrd(rows[x].queue) <= GatherOrd(rows[c].queue)
                BY <3>1, <3>2 DEF At
            <4>2. QED
                BY <1>2, <3>3, <4>1 DEF BuriedAlike, MainKinds
        <3>5. Buries(x, c, rows)
            <4>1. NoteOf[x] = NoteOf[c]
                BY <2>4, <2>6 DEF Buries
            <4>2. Bury[x] = Bury[c]
                BY <1>2, <2>3, <4>1 DEF BuriedAlike
            <4>3. QED
                BY <2>2, <3>4, <4>1, <4>2 DEF Buries
        <3>6. At(rows, c) <= At(rows, x)
            BY <1>1, <1>2, <2>3, <3>1, <3>2, <3>5 DEF NoneBuried
        <3>7. QED
            BY <3>1, <3>2, <3>6
    <2>7. QED
        BY <2>5, <2>6
<1>13. QED
    BY <1>10, <1>11, <1>12 DEF Matches, ms

-----------------------------------------------------------------------------
(* Each operation leaves what agrees.                                      *)

LEMMA MatchLater ==
    ASSUME NEW q, q = queues', NEW rows, rows = cards',
           NEW u, u = undo_steps', NEW r, r = redo_steps',
           QueueFits(q, rows), UndoFits(rows, u, q), RedoFits(rows, r, q)
    PROVE  MatchInv'
BY DEF MatchInv

LEMMA StutterMatch ==
    ASSUME MatchInv, UNCHANGED <<cards, queues, undo_steps, redo_steps>>
    PROVE  MatchInv'
BY DEF MatchInv

LEMMA GetQueuedCardsMatch ==
    ASSUME BuriedAlike, Inv, MatchInv, GetQueuedCards
    PROVE  MatchInv'
<1>1. UNCHANGED <<cards, undo_steps, redo_steps>> /\ TypesOK /\ QueueOK /\ StepsOK
    BY DEF GetQueuedCards, Inv
<1>2. QueueFits(queues, cards) /\ UndoFits(cards, undo_steps, queues)
      /\ RedoFits(cards, redo_steps, queues)
    BY DEF MatchInv
<1>3. PICK q : /\ Show(q) /\ GoodQueue(q) /\ q.cutoff <= now
               /\ Matches(Rooms(q.main, ToSet(q.learning)), cards)
               /\ \/ queues = NoQueues /\ q.built = builds + 1
                  \/ queues # NoQueues /\ q = queues
    <2>1. CASE queues = NoQueues
        <3>1. PICK q \in Builds : Show(q)
            BY <2>1 DEF GetQueuedCards
        <3>2. GoodQueue(q) /\ q.built = builds + 1 /\ q.cutoff = now /\ now \in Nat
            BY <1>1, BuiltQueue DEF TypesOK
        <3>3. Matches(Rooms(q.main, ToSet(q.learning)), cards)
            BY BuildMatches
        <3>4. QED
            BY <2>1, <3>1, <3>2, <3>3
    <2>2. CASE queues # NoQueues
        <3>1. Show(queues)
            BY <2>2 DEF GetQueuedCards
        <3>2. QED
            BY <1>1, <1>2, <2>2, <3>1 DEF QueueOK, QueueFits
    <2>3. QED
        BY <2>1, <2>2
<1>4. PICK p, rows, u, r : p = Counted(q) /\ rows = cards /\ u = undo_steps /\ r = redo_steps
    OBVIOUS
<1>5. /\ p.built = q.built /\ p.main = q.main /\ p.learning = q.learning
      /\ queues' = p
    BY <1>1, <1>3, <1>4, CountedOf DEF Show
<1>6. QueueFits(p, rows)
    BY <1>3, <1>4, <1>5 DEF QueueFits
<1>7. \A s \in ToSet(u) \cup ToSet(r) : Alive(s, p) => Alive(s, queues)
    <2> SUFFICES ASSUME NEW s \in ToSet(u) \cup ToSet(r), Alive(s, p)
                 PROVE  Alive(s, queues)
        OBVIOUS
    <2>1. s.update.built = q.built
        BY <1>5 DEF Alive
    <2>2. s.update.built = 0 \/ s.update.built \in 1..builds
        BY <1>1, <1>4 DEF StepsOK, GoodStep, AnswerStep
    <2>3. builds \in Nat
        BY <1>1 DEF TypesOK
    <2>4. queues # NoQueues /\ q = queues
        BY <1>3, <2>1, <2>2, <2>3
    <2>5. QED
        BY <2>1, <2>4 DEF Alive
<1>8. IsSeq(u) /\ IsSeq(r)
    BY <1>1, <1>4 DEF StepsOK
<1>9. PICK o : o = queues
    OBVIOUS
<1>10. UndoFits(rows, u, p) /\ RedoFits(rows, r, p)
    <2>1. UndoFits(rows, u, o) /\ RedoFits(rows, r, o)
        BY <1>2, <1>4, <1>9
    <2>2. /\ \A s \in ToSet(u) : Alive(s, p) => Alive(s, o)
          /\ \A s \in ToSet(r) : Alive(s, p) => Alive(s, o)
        BY <1>7, <1>9
    <2>3. QED
        BY <1>8, <2>1, <2>2, FitsStay
<1>11. QED
    BY <1>1, <1>4, <1>5, <1>6, <1>10, MatchLater

(* The row an answer leaves is due today only if it is requeued, or falls  *)
(* in the second of the rollover.                                          *)
LEMMA AnsweredRow ==
    ASSUME TypesOK, NEW c \in Cards, cards[c].here, NEW row \in Answers(c)
    PROVE  /\ row.due \in Nat /\ (DueRow(row) => IsIntraday(row))
           /\ Requeues(row) => DueRow(row)
<1>1. cards[c] \in Rows /\ now \in Nat /\ FirstQueue[c] \in {"New", "Review", "DayLearn"}
    BY QueueParameters DEF TypesOK, RowsBy
<1>2. row \in Rows
    BY AnswersAreRows
<1> DEFINE r0 == [cards[c] EXCEPT !.mtime = now]
           r1 == [r0 EXCEPT !.reps = 1]
<1>3. r0 \in Rows /\ r1 \in Rows /\ r0.here /\ r1.here
    BY <1>1 DEF Rows
<1>4. \/ IsIntraday(row) /\ row.here
      \/ ~IsIntraday(row) /\ ~DueRow(row)
    <2>1. CASE c \in Previewed
        <3>1. \/ \E d \in Steps : row = [r0 EXCEPT !.queue = "PreviewRepeat", !.due = now + d]
              \/ row = [r0 EXCEPT !.queue = FirstQueue[c], !.due = 0, !.here = FALSE]
            BY <2>1 DEF Answers
        <3> HIDE DEF r0
        <3>2. CASE \E d \in Steps : row = [r0 EXCEPT !.queue = "PreviewRepeat", !.due = now + d]
            <4>1. row.queue = "PreviewRepeat" /\ row.here
                BY <1>3, <3>2 DEF Rows
            <4>2. QED
                BY <4>1 DEF IsIntraday
        <3>3. CASE row = [r0 EXCEPT !.queue = FirstQueue[c], !.due = 0, !.here = FALSE]
            <4>1. row.queue = FirstQueue[c] /\ row.here = FALSE
                BY <1>3, <3>3 DEF Rows
            <4>2. QED
                BY <1>1, <4>1 DEF IsIntraday, DueRow
        <3>4. QED
            BY <3>1, <3>2, <3>3
    <2>2. CASE c \notin Previewed
        <3>1. \/ \E d \in Steps : row = [r1 EXCEPT !.queue = "Learn", !.due = now + d]
              \/ \E k \in {"Review", "DayLearn"} :
                    row = [r1 EXCEPT !.queue = k, !.due = Tomorrow]
              \/ row = [r1 EXCEPT !.queue = "Suspended"]
            BY <2>2 DEF Answers
        <3> HIDE DEF r1
        <3>2. CASE \E d \in Steps : row = [r1 EXCEPT !.queue = "Learn", !.due = now + d]
            <4>1. row.queue = "Learn" /\ row.here
                BY <1>3, <3>2 DEF Rows
            <4>2. QED
                BY <4>1 DEF IsIntraday
        <3>3. CASE \E k \in {"Review", "DayLearn"} :
                      row = [r1 EXCEPT !.queue = k, !.due = Tomorrow]
            <4>1. row.queue \in {"Review", "DayLearn"} /\ row.due = Tomorrow
                BY <1>3, <3>3 DEF Rows
            <4>2. ~(Tomorrow < Tomorrow)
                BY QueueParameters
            <4>3. QED
                BY <4>1, <4>2 DEF IsIntraday, DueRow
        <3>4. CASE row = [r1 EXCEPT !.queue = "Suspended"]
            <4>1. row.queue = "Suspended"
                BY <1>3, <3>4 DEF Rows
            <4>2. QED
                BY <4>1 DEF IsIntraday, DueRow
        <3>5. QED
            BY <3>1, <3>2, <3>3, <3>4
    <2>3. QED
        BY <2>1, <2>2
<1>5. row.due \in Nat
    BY <1>2 DEF Rows
<1>6. row.due < Tomorrow => row.due <= Tomorrow
    BY <1>5, QueueParameters
<1>7. QED
    BY <1>4, <1>5, <1>6 DEF Requeues, DueRow

(* The entry that is requeued is that of the row, due later perhaps.       *)
LEMMA RequeuedEntry ==
    ASSUME TypesOK, GoodQueue(queues), queues.cutoff <= now,
           NEW e, IsTop(queues, e),
           NEW row \in Answers(e.id), Requeues(row),
           NEW q \in QueuesAfter(PopEntry(queues, e.id), e.id, row)
    PROVE  /\ EntryOf(q, e.id).id = e.id /\ EntryOf(q, e.id).mtime = row.mtime
           /\ EntryOf(q, e.id).kind = "Learn"
<1> DEFINE p == PopEntry(queues, e.id)
           g == Entry(e.id, row)
           f == RequeueEntry(p, g)
<1>1. Shape(queues) /\ MainExact(queues) /\ LearningExact(queues)
    BY DEF GoodQueue
<1>2. /\ InFront(queues, e) /\ e.id \in Cards
      /\ e.kind = "Learn" => e.due <= AheadCutoff(queues)
    BY <1>1, IsTopParts
<1>3. /\ Shape(p) /\ MainExact(p) /\ LearningExact(p) /\ Without(p, e.id)
      /\ p.cutoff = queues.cutoff
    BY <1>1, <1>2, PopOf
<1>4. q \in {InsertLearning(p, f, i) : i \in Places(p.learning, f)}
    BY DEF QueuesAfter
<1>5. now \in Nat /\ now <= MaxTime /\ p.cutoff <= now
    BY <1>3 DEF TypesOK
<1>6. g \in LearnEntries /\ g.id = e.id /\ g.mtime = row.mtime
    BY <1>2, AnswersAreRows DEF Entry
<1> HIDE DEF g
<1>7. f.mtime = g.mtime
    <2>1. f = g \/ \E d : f = [g EXCEPT !.due = d]
        BY DEF RequeueEntry
    <2> HIDE DEF f
    <2>2. QED
        BY <1>6, <2>1 DEF LearnEntries
<1> HIDE DEF p
<1>8. f \in LearnEntries /\ f.id = e.id
    BY <1>3, <1>5, <1>6, RequeueOf
<1> HIDE DEF f
<1>9. PICK i \in Places(p.learning, f) : q = InsertLearning(p, f, i)
    BY <1>4
<1>10. /\ Shape(q) /\ MainExact(q)
       /\ ToSet(q.learning) = ToSet(p.learning) \cup {f}
    BY <1>3, <1>8, <1>9, InsertOf
<1>11. EntryOf(q, e.id) = f
    BY <1>8, <1>10, PopLearning
<1>12. f.kind = "Learn"
    BY <1>8 DEF LearnEntries
<1>13. QED
    BY <1>6, <1>7, <1>8, <1>11, <1>12

(* The entries that are left when the one on top is taken away.            *)
MovesOn(q, e, more, main, learning) ==
    /\ main = IF e.kind = "Learn" THEN q.main ELSE Tail(q.main)
    /\ learning = (ToSet(q.learning) \ {e}) \cup more

LEMMA RoomsWithout ==
    ASSUME NEW q, Shape(q), NEW e, IsTop(q, e), NEW main, NEW learning, NEW more,
           MovesOn(q, e, more, main, learning)
    PROVE  /\ Rooms(main, learning) = (Rooms(q.main, ToSet(q.learning)) \ {e}) \cup more
           /\ e \in Rooms(q.main, ToSet(q.learning))
<1>1. /\ InFront(q, e) /\ (e.kind = "Learn" <=> e \in ToSet(q.learning))
      /\ e.kind # "Learn" => e \in MainEntries /\ q.main # <<>> /\ e = Head(q.main)
    BY IsTopParts
<1>2. /\ q.main \in Seq(MainEntries) /\ Apart(q.main) /\ ToSet(q.main) \subseteq MainEntries
    BY ShapeParts
<1>3. CASE e.kind = "Learn"
    <2>1. e \notin ToSet(q.main)
        BY <1>2, <1>3 DEF MainEntries, MainKinds
    <2>2. QED
        BY <1>1, <1>3, <2>1 DEF Rooms, MovesOn
<1>4. CASE e.kind # "Learn"
    <2>1. ToSet(Tail(q.main)) = ToSet(q.main) \ {e} /\ e \in ToSet(q.main)
        BY <1>1, <1>2, <1>4, TailApart, TailOf
    <2>2. QED
        BY <1>1, <1>4, <2>1 DEF Rooms, MovesOn
<1>5. QED
    BY <1>3, <1>4

LEMMA AnswerCardMatch ==
    ASSUME BuriedAlike, Inv, MatchInv, AnswerCard
    PROVE  MatchInv'
<1>1. TypesOK /\ QueueOK /\ ShownOK /\ IsSeq(undo_steps)
    BY DEF Inv, StepsOK
<1> DEFINE e == Top(queues)
<1>2. /\ shown # NoCard /\ shown \in Cards
      /\ queues # NoQueues /\ e # NoEntry /\ e.id = shown
    BY <1>1 DEF AnswerCard, TypesOK, ShownOK
<1>3. /\ GoodQueue(queues) /\ queues.cutoff <= now
      /\ Shape(queues) /\ MainExact(queues)
    BY <1>1, <1>2 DEF QueueOK, GoodQueue
<1>4. IsTop(queues, e)
    BY <1>2, <1>3, TopIsTop
<1> HIDE DEF e
<1>5. CanPop(queues, e.id)
    <2>1. InFront(queues, e)
        BY <1>3, <1>4, IsTopParts
    <2>2. QED
        BY <1>3, <2>1, PopOf
<1>6a. PICK row \in Answers(e.id) :
          \E r \in QueuesAfter(PopEntry(queues, e.id), e.id, row) : AnsweredAs(e.id, row, r)
    BY <1>2, <1>5 DEF AnswerCard
<1>6. PICK q \in QueuesAfter(PopEntry(queues, e.id), e.id, row) : AnsweredAs(e.id, row, q)
    BY <1>6a
<1> DEFINE requeue == IF Requeues(row) THEN {EntryOf(q, e.id)} ELSE {}
           sib == SiblingsForBury(e.id)
           changed == {e.id} \cup sib
           update == [built |-> queues.built, entry |-> EntryOf(queues, e.id),
                      requeue |-> requeue,
                      learning |-> q.counts.learning, cutoff |-> q.cutoff]
           step == Step("AnswerCard", changed, update, queues)
<1>7. /\ queues' = UpdateCutoff(q)
      /\ cards' = [d \in Cards |-> IF d = e.id THEN row
                                   ELSE IF d \in sib
                                   THEN Buried(d, "SchedBuried") ELSE cards[d]]
      /\ undo_steps' = <<step>> \o undo_steps /\ redo_steps' = <<>>
    BY <1>6 DEF AnsweredAs
<1>8. /\ q.main = IF e.kind = "Learn" THEN queues.main ELSE Tail(queues.main)
      /\ ToSet(q.learning) = (ToSet(queues.learning) \ {e}) \cup requeue
      /\ q.built = queues.built /\ q.cutoff = queues.cutoff /\ GoodQueue(q)
    <2>1. requeue = IF Requeues(row) THEN {EntryOf(q, e.id)} ELSE {}
        OBVIOUS
    <2> HIDE DEF requeue, step, update
    <2>2. QED
        BY <2>1, <1>1, <1>3, <1>4, AnsweredQueue
<1>9. /\ step.update.built = queues.built /\ step.was = queues
      /\ step.old = [d \in changed |-> cards[d]]
    BY DEF Step
<1>10. \A d \in sib : Buried(d, "SchedBuried").queue = "SchedBuried"
    <2>1. \A d \in sib : cards[d] \in Rows
        BY <1>1 DEF TypesOK, RowsBy, SiblingsForBury
    <2>2. QED
        BY <2>1 DEF Buried, Rows
<1>11. /\ UpdateCutoff(q).built = q.built /\ UpdateCutoff(q).main = q.main
       /\ UpdateCutoff(q).learning = q.learning
    <2>1. GoodQueue(q) /\ q.cutoff <= now
        BY <1>3, <1>8
    <2>2. now \in Nat
        BY <1>1 DEF TypesOK
    <2>3. QED
        BY <2>1, <2>2, UpdateCutoffOf DEF GoodQueue
<1> HIDE DEF step, update, requeue
<1>12. PICK rows, new, o, p, u, s, c, sb, E, M :
          /\ rows = cards /\ new = cards' /\ o = queues /\ p = queues' /\ u = undo_steps
          /\ s = step /\ c = e.id /\ sb = sib
          /\ E = Rooms(queues.main, ToSet(queues.learning))
          /\ M = Rooms(q.main, ToSet(q.learning))
    OBVIOUS
<1>13. M = (E \ {e}) \cup requeue /\ e \in E
    <2>1. /\ Rooms(q.main, ToSet(q.learning)) =
                (Rooms(queues.main, ToSet(queues.learning)) \ {e}) \cup requeue
          /\ e \in Rooms(queues.main, ToSet(queues.learning))
        <3>1. MovesOn(queues, e, requeue, q.main, ToSet(q.learning))
            BY <1>8 DEF MovesOn
        <3>2. QED
            BY <1>3, <1>4, <3>1, RoomsWithout
    <2>2. QED
        BY <1>12, <2>1
<1>14. Matches(E, rows)
    BY <1>2, <1>12 DEF MatchInv, QueueFits
<1>15. \A x, y \in E : x.id = y.id => x = y
    BY <1>3, <1>12, ShapeParts DEF Rooms
<1>16. c \in Cards /\ rows[c].here
    <2>1. e.id \in DueOf(rows)
        BY <1>13, <1>14 DEF Matches, Current
    <2>2. QED
        BY <1>12, <2>1 DEF DueOf, DueRow
<1>17. AnswersWith(rows, new, c, row, sb)
    <2>1. sb = {d \in Cards \ {c} : /\ NoteOf[d] = NoteOf[c] /\ rows[d].queue \in Bury[c]
                                    /\ At(rows, c) <= At(rows, d)}
        BY <1>12 DEF SiblingsForBury, At
    <2>2. c \notin sb /\ sb \subseteq Cards
        BY <2>1
    <2>3. new[c] = row /\ \A d \in (Cards \ {c}) \ sb : new[d] = rows[d]
        BY <1>7, <1>12, <1>16
    <2>4. \A d \in sb : new[d].queue = "SchedBuried"
        BY <1>7, <1>10, <1>12, <2>2
    <2>5. QED
        BY <2>1, <2>3, <2>4 DEF AnswersWith
<1>18. PICK back \in BOOLEAN : back <=> Requeues(row)
    OBVIOUS
<1>18f. PICK f : f = EntryOf(q, e.id)
    OBVIOUS
<1>19. ComesBack(row, back, f, c)
    <2>1. row.due \in Nat /\ (DueRow(row) => IsIntraday(row)) /\ (Requeues(row) => DueRow(row))
        BY <1>1, <1>12, <1>16, AnsweredRow
    <2>2. Requeues(row) => f.id = e.id /\ f.mtime = row.mtime /\ f.kind = "Learn"
        BY <1>1, <1>3, <1>4, <1>18f, RequeuedEntry
    <2>3. QED
        BY <1>12, <1>18, <2>1, <2>2 DEF ComesBack
<1>20. M = (E \ {e}) \cup (IF back THEN {f} ELSE {})
    BY <1>13, <1>18, <1>18f DEF requeue
<1>21. Matches(M, new)
    <2>1. PICK top \in E : top = e
        BY <1>13
    <2>2. c = top.id /\ M = (E \ {top}) \cup (IF back THEN {f} ELSE {})
        BY <1>12, <1>20, <2>1
    <2>3. Turned(E, M, top, rows, new, row, sb, back, f)
        BY <2>2, <1>14, <1>15, <1>17, <1>19 DEF Turned
    <2>4. QED
        BY <2>3, AnswerMatches
<1>22. QueueFits(p, new)
    BY <1>7, <1>11, <1>12, <1>21 DEF QueueFits
<1>23. rows = Over(new, s.old)
    <2>1. DOMAIN s.old = {c} \cup sb /\ \A d \in {c} \cup sb : s.old[d] = rows[d]
        BY <1>9, <1>12
    <2>2. \A d \in Cards : rows[d] = Over(new, s.old)[d]
        BY <1>17, <2>1 DEF Over, AnswersWith
    <2>3. rows \in [Cards -> Rows]
        BY <1>1, <1>12 DEF TypesOK, RowsBy
    <2>4. QED
        BY <2>2, <2>3 DEF Over
<1>24. UndoFits(rows, u, o)
    BY <1>12 DEF MatchInv
<1>25. Matches(UndoRoom(s), rows)
    BY <1>9, <1>12, <1>14 DEF UndoRoom
<1>26. \A x \in ToSet(u) : Alive(x, p) => Alive(x, o)
    BY <1>2, <1>7, <1>8, <1>11, <1>12 DEF Alive
<1>27. IsSeq(u)
    BY <1>1, <1>12
<1>28. UndoFits(new, <<s>> \o u, p)
    BY <1>23, <1>24, <1>25, <1>26, <1>27, FitsPush
<1>29. RedoFits(new, <<>>, p)
    BY NoneFits
<1>30. PICK w : w = <<s>> \o u
    OBVIOUS
<1>31. w = undo_steps'
    BY <1>7, <1>12, <1>30
<1>32. UndoFits(new, w, p)
    BY <1>28, <1>30
<1>33. QED
    BY <1>7, <1>12, <1>22, <1>29, <1>31, <1>32, MatchLater

LEMMA BuryCardMatch ==
    ASSUME Inv, MatchInv, NEW card \in Cards, BuryCard(card)
    PROVE  MatchInv'
<1> DEFINE step == Step("Bury", {card}, NoUpdate, NoQueues)
<1>1. /\ cards' = [cards EXCEPT ![card] = Buried(card, "UserBuried")]
      /\ queues' = NoQueues /\ undo_steps' = <<step>> \o undo_steps /\ redo_steps' = <<>>
    BY DEF BuryCard
<1>2. step.old = [d \in {card} |-> cards[d]] /\ cards \in [Cards -> Rows] /\ IsSeq(undo_steps)
    BY DEF Step, Inv, TypesOK, RowsBy, StepsOK
<1> HIDE DEF step
<1>3. PICK rows, new, o, p, u, s : /\ rows = cards /\ new = cards' /\ o = queues /\ p = queues'
                                   /\ u = undo_steps /\ s = step
    OBVIOUS
<1>4. rows = Over(new, s.old)
    <2>1. DOMAIN s.old = {card} /\ s.old[card] = rows[card]
        BY <1>2, <1>3
    <2>2. \A d \in Cards : d # card => new[d] = rows[d]
        BY <1>1, <1>2, <1>3
    <2>3. \A d \in Cards : rows[d] = Over(new, s.old)[d]
        BY <2>1, <2>2 DEF Over
    <2>4. rows \in [Cards -> Rows]
        BY <1>2, <1>3
    <2>5. QED
        BY <2>3, <2>4 DEF Over
<1>5. \A x : ~Alive(x, p)
    BY <1>1, <1>3 DEF Alive
<1>6. UndoFits(rows, u, o) /\ IsSeq(u)
    BY <1>2, <1>3 DEF MatchInv
<1>7. UndoFits(new, <<s>> \o u, p)
    BY <1>4, <1>5, <1>6, FitsPush
<1>8. RedoFits(new, <<>>, p)
    BY NoneFits
<1>9. QueueFits(p, new)
    BY <1>1, <1>3 DEF QueueFits
<1>10. PICK w : w = <<s>> \o u
    OBVIOUS
<1>11. w = undo_steps'
    BY <1>1, <1>3, <1>10
<1>12. UndoFits(new, w, p)
    BY <1>7, <1>10
<1>13. QED
    BY <1>1, <1>3, <1>8, <1>9, <1>11, <1>12, MatchLater

(* The queue after an undo is the one the step was given to.               *)
LEMMA UndoMatch ==
    ASSUME Inv, MatchInv, Undo
    PROVE  MatchInv'
<1> DEFINE step == undo_steps[1]
           back == Opposite(step)
<1>1. undo_steps # <<>> /\ IsSeq(undo_steps) /\ IsSeq(redo_steps)
    BY DEF Undo, Inv, StepsOK
<1>2. Head(undo_steps) = step /\ step \in ToSet(undo_steps)
    BY <1>1, TailIsSeq
<1>3. /\ queues' = IF SameBuild(step) THEN UndoneQueue(queues, step.update) ELSE NoQueues
      /\ cards' = Restored(step)
      /\ undo_steps' = Tail(undo_steps) /\ redo_steps' = <<back>> \o redo_steps
    BY <1>2 DEF Undo
<1>4. GoodStep(step)
    BY <1>2 DEF Inv, StepsOK
<1>5. back.update = step.update /\ back.was = step.was
    BY <1>4, OppositeStep
<1>6. cards' = Over(cards, step.old) /\ cards = Over(cards', back.old)
    BY <1>3, <1>4, RowsOfStep
<1>7. queues' # NoQueues =>
        /\ SameBuild(step) /\ queues'.built = queues.built
        /\ Left(step, queues.main, ToSet(queues.learning))
        /\ Given(step, queues'.main, ToSet(queues'.learning))
    <2> SUFFICES ASSUME queues' # NoQueues
                 PROVE  /\ SameBuild(step) /\ queues'.built = queues.built
                        /\ Left(step, queues.main, ToSet(queues.learning))
                        /\ Given(step, queues'.main, ToSet(queues'.learning))
        OBVIOUS
    <2>1. SameBuild(step) /\ queues' = UndoneQueue(queues, step.update)
        BY <1>3
    <2>2. AnswerStep(step) /\ Shape(queues) /\ MainExact(queues)
        BY <1>4, <2>1, SameBuildSteps
    <2>3. Left(step, queues.main, ToSet(queues.learning))
        BY <1>1, <2>1 DEF Inv, PlaceOK
    <2> HIDE DEF step, back
    <2>4. QED
        BY <2>1, <2>2, <2>3, UndoneOf
<1> HIDE DEF step, back
<1>8. PICK rows, new, o, p, u, r, s, b :
          /\ rows = cards /\ new = cards' /\ o = queues /\ p = queues' /\ u = undo_steps
          /\ r = redo_steps /\ s = step /\ b = back
    OBVIOUS
<1>9. p # NoQueues => /\ Alive(s, o) /\ p.built = o.built
                      /\ Rooms(p.main, ToSet(p.learning)) = UndoRoom(s)
                      /\ Rooms(o.main, ToSet(o.learning)) = RedoRoom(b)
    BY <1>5, <1>7, <1>8 DEF SameBuild, Alive, Given, Left, UndoRoom, RedoRoom, MainAfter,
                            LearningAfter
<1>10. \A x : Alive(x, p) => Alive(x, o)
    BY <1>9 DEF Alive
<1>11. QueueFits(o, rows) /\ UndoFits(rows, u, o) /\ RedoFits(rows, r, o)
    BY <1>8 DEF MatchInv
<1>12. /\ IsSeq(u) /\ u # <<>> /\ IsSeq(r) /\ new = Over(rows, u[1].old) /\ s = u[1]
       /\ rows = Over(new, b.old)
    BY <1>1, <1>6, <1>8 DEF step
<1>13. UndoFits(new, Tail(u), p) /\ (Alive(s, o) => Matches(UndoRoom(s), new))
    BY <1>10, <1>11, <1>12, FitsPop
<1>14. Alive(b, p) => Matches(RedoRoom(b), rows)
    BY <1>9, <1>11 DEF Alive, QueueFits
<1>15. RedoFits(new, <<b>> \o r, p)
    BY <1>10, <1>11, <1>12, <1>14, FitsPush
<1>16. QueueFits(p, new)
    BY <1>9, <1>13 DEF QueueFits
<1>17. PICK v, w : v = Tail(u) /\ w = <<b>> \o r
    OBVIOUS
<1>18. UndoFits(new, v, p) /\ RedoFits(new, w, p)
    BY <1>13, <1>15, <1>17
<1>19. v = undo_steps' /\ w = redo_steps'
    BY <1>3, <1>8, <1>17
<1>20. QED
    BY <1>8, <1>16, <1>18, <1>19, MatchLater

LEMMA RedoMatch ==
    ASSUME Inv, MatchInv, Redo
    PROVE  MatchInv'
<1> DEFINE step == redo_steps[1]
           back == Opposite(step)
<1>1. redo_steps # <<>> /\ IsSeq(undo_steps) /\ IsSeq(redo_steps)
    BY DEF Redo, Inv, StepsOK
<1>2. Head(redo_steps) = step /\ step \in ToSet(redo_steps)
    BY <1>1, TailIsSeq
<1>3a. RedoFinds(step)
    BY <1>1, <1>2, RedoIsFound
<1>3. /\ queues' \in IF SameBuild(step) THEN RedoneQueues(queues, step.update) ELSE {NoQueues}
      /\ cards' = Restored(step)
      /\ undo_steps' = <<back>> \o undo_steps /\ redo_steps' = Tail(redo_steps)
    BY <1>2, <1>3a DEF Redo
<1>4. GoodStep(step)
    BY <1>2 DEF Inv, StepsOK
<1>5. back.update = step.update /\ back.was = step.was
    BY <1>4, OppositeStep
<1>6. cards' = Over(cards, step.old) /\ cards = Over(cards', back.old)
    BY <1>3, <1>4, RowsOfStep
<1>7. queues' # NoQueues =>
        /\ SameBuild(step) /\ queues'.built = queues.built
        /\ Given(step, queues.main, ToSet(queues.learning))
        /\ Left(step, queues'.main, ToSet(queues'.learning))
    <2> SUFFICES ASSUME queues' # NoQueues
                 PROVE  /\ SameBuild(step) /\ queues'.built = queues.built
                        /\ Given(step, queues.main, ToSet(queues.learning))
                        /\ Left(step, queues'.main, ToSet(queues'.learning))
        OBVIOUS
    <2>1. SameBuild(step) /\ queues' \in RedoneQueues(queues, step.update)
        BY <1>3
    <2>2. AnswerStep(step) /\ Shape(queues) /\ MainExact(queues)
        BY <1>4, <2>1, SameBuildSteps
    <2>3. Given(step, queues.main, ToSet(queues.learning))
        BY <1>1, <2>1 DEF Inv, PlaceOK
    <2> HIDE DEF step, back
    <2>4. QED
        BY <2>1, <2>2, <2>3, RedoneOf
<1> HIDE DEF step, back
<1>8. PICK rows, new, o, p, u, r, s, b :
          /\ rows = cards /\ new = cards' /\ o = queues /\ p = queues' /\ u = undo_steps
          /\ r = redo_steps /\ s = step /\ b = back
    OBVIOUS
<1>9. p # NoQueues => /\ Alive(s, o) /\ p.built = o.built
                      /\ Rooms(p.main, ToSet(p.learning)) = RedoRoom(s)
                      /\ Rooms(o.main, ToSet(o.learning)) = UndoRoom(b)
    BY <1>5, <1>7, <1>8 DEF SameBuild, Alive, Given, Left, UndoRoom, RedoRoom
<1>10. \A x : Alive(x, p) => Alive(x, o)
    BY <1>9 DEF Alive
<1>11. QueueFits(o, rows) /\ UndoFits(rows, u, o) /\ RedoFits(rows, r, o)
    BY <1>8 DEF MatchInv
<1>12. /\ IsSeq(r) /\ r # <<>> /\ IsSeq(u) /\ new = Over(rows, r[1].old) /\ s = r[1]
       /\ rows = Over(new, b.old)
    BY <1>1, <1>6, <1>8 DEF step
<1>13. RedoFits(new, Tail(r), p) /\ (Alive(s, o) => Matches(RedoRoom(s), new))
    BY <1>10, <1>11, <1>12, FitsPop
<1>14. Alive(b, p) => Matches(UndoRoom(b), rows)
    BY <1>9, <1>11 DEF Alive, QueueFits
<1>15. UndoFits(new, <<b>> \o u, p)
    BY <1>10, <1>11, <1>12, <1>14, FitsPush
<1>16. QueueFits(p, new)
    BY <1>9, <1>13 DEF QueueFits
<1>17. PICK v, w : v = Tail(r) /\ w = <<b>> \o u
    OBVIOUS
<1>18. RedoFits(new, v, p) /\ UndoFits(new, w, p)
    BY <1>13, <1>15, <1>17
<1>19. v = redo_steps' /\ w = undo_steps'
    BY <1>3, <1>8, <1>17
<1>20. QED
    BY <1>8, <1>16, <1>18, <1>19, MatchLater

LEMMA InitMatch ==
    ASSUME Init
    PROVE  MatchInv
<1>1. queues = NoQueues /\ undo_steps = <<>> /\ redo_steps = <<>>
    BY DEF Init
<1>2. QueueFits(queues, cards)
    BY <1>1 DEF QueueFits
<1>3. UndoFits(cards, undo_steps, queues) /\ RedoFits(cards, redo_steps, queues)
    BY <1>1, NoneFits
<1>4. QED
    BY <1>2, <1>3 DEF MatchInv

LEMMA MatchNext ==
    ASSUME BuriedAlike
    PROVE  Inv /\ MatchInv /\ [Next]_vars => MatchInv'
<1> SUFFICES ASSUME Inv, MatchInv, [Next]_vars  PROVE MatchInv'
    OBVIOUS
<1>1. CASE Tick
    BY <1>1, StutterMatch DEF Tick
<1>2. CASE GetQueuedCards
    BY <1>2, GetQueuedCardsMatch
<1>3. CASE AnswerCard
    BY <1>3, AnswerCardMatch
<1>4. CASE Undo
    BY <1>4, UndoMatch
<1>5. CASE Redo
    BY <1>5, RedoMatch
<1>6. ASSUME NEW c \in Cards, BuryCard(c)  PROVE MatchInv'
    BY <1>6, BuryCardMatch
<1>7. CASE UNCHANGED vars
    BY <1>7, StutterMatch DEF vars
<1>8. QED
    BY <1>1, <1>2, <1>3, <1>4, <1>5, <1>6, <1>7 DEF Next

-----------------------------------------------------------------------------
(* A queue that agrees with the rows is one that a rebuild could give.     *)

(* How a stable sort by rank places the numbers up to n.                   *)
UpTo(rank, n, i) == {j \in 1..n : rank[j] < rank[i] \/ (rank[j] = rank[i] /\ j <= i)}
InPlace(rank, n, i) == Cardinality(UpTo(rank, n, i))

LEMMA SortedPlaces ==
    ASSUME NEW n \in Nat, NEW rank \in [1..n -> Nat]
    PROVE  /\ \A i \in 1..n : InPlace(rank, n, i) \in 1..n
           /\ \A i, j \in 1..n : InPlace(rank, n, i) <= InPlace(rank, n, j) => rank[i] <= rank[j]
           /\ \A i, j \in 1..n : InPlace(rank, n, i) = InPlace(rank, n, j) => i = j
           /\ \A k \in 1..n : \E i \in 1..n : InPlace(rank, n, i) = k
<1> DEFINE B(i) == UpTo(rank, n, i)
<1>0. IsFiniteSet(1..n) /\ Cardinality(1..n) = n
    <2>1. \A x \in Int : IsFiniteSet(1..x) /\ Cardinality(1..x) = IF 1 > x THEN 0 ELSE x - 1 + 1
        BY FS_Interval
    <2> QED
        BY <2>1
<1>1. ASSUME NEW i \in 1..n
      PROVE  IsFiniteSet(B(i)) /\ Cardinality(B(i)) \in 1..n
    <2>1. B(i) \in SUBSET (1..n) /\ i \in B(i)
        BY DEF UpTo
    <2>2. IsFiniteSet(B(i)) /\ Cardinality(B(i)) <= n
        BY <1>0, <2>1, FS_Subset
    <2>3. Cardinality(B(i)) \in Nat /\ Cardinality(B(i)) # 0
        BY <2>1, <2>2, FS_CardinalityType, FS_EmptySet
    <2> QED
        BY <2>2, <2>3
<1>2. ASSUME NEW i \in 1..n, NEW j \in 1..n, rank[i] < rank[j] \/ (rank[i] = rank[j] /\ i < j)
      PROVE  Cardinality(B(i)) < Cardinality(B(j))
    <2>1. \A k \in 1..n : rank[k] \in Nat
        OBVIOUS
    <2>2. B(i) \in SUBSET B(j) /\ j \in B(j) /\ j \notin B(i)
        BY <1>2, <2>1 DEF UpTo
    <2>3. IsFiniteSet(B(j)) /\ Cardinality(B(i)) \in Nat /\ Cardinality(B(j)) \in Nat
        BY <1>1
    <2>4. Cardinality(B(i)) <= Cardinality(B(j)) /\ Cardinality(B(i)) # Cardinality(B(j))
        BY <2>2, <2>3, FS_Subset
    <2> QED
        BY <2>3, <2>4
<1>3. ASSUME NEW i \in 1..n, NEW j \in 1..n, Cardinality(B(i)) <= Cardinality(B(j))
      PROVE  rank[i] <= rank[j]
    <2>1. ~(rank[j] < rank[i])
        BY <1>1, <1>2, <1>3
    <2> QED
        BY <2>1
<1>4. ASSUME NEW i \in 1..n, NEW j \in 1..n, Cardinality(B(i)) = Cardinality(B(j))
      PROVE  i = j
    <2>1. Cardinality(B(i)) <= Cardinality(B(j)) /\ Cardinality(B(j)) <= Cardinality(B(i))
        BY <1>1, <1>4
    <2>2. rank[i] = rank[j]
        BY <1>3, <2>1
    <2>3. Cardinality(B(i)) \in Nat /\ Cardinality(B(j)) \in Nat
        BY <1>1
    <2>4. ~(Cardinality(B(i)) < Cardinality(B(j))) /\ ~(Cardinality(B(j)) < Cardinality(B(i)))
        BY <1>4, <2>3
    <2>5. ~(i < j) /\ ~(j < i)
        BY <1>2, <2>2, <2>4
    <2> QED
        BY <2>5
<1>5. \A k \in 1..n : \E i \in 1..n : Cardinality(B(i)) = k
    <2> DEFINE f == [i \in 1..n |-> Cardinality(B(i))]
    <2>1. f \in [1..n -> 1..n] /\ \A i, j \in 1..n : f[i] = f[j] => i = j
        BY <1>1, <1>4
    <2>2. \A i \in 1..n : f[i] = Cardinality(B(i))
        OBVIOUS
    <2> HIDE DEF f
    <2>3. f \in Injection(1..n, 1..n)
        BY <2>1 DEF Injection, IsInjective
    <2>4. f \in Surjection(1..n, 1..n)
        BY <1>0, <2>3, FS_Injection
    <2> QED
        BY <2>2, <2>4 DEF Surjection
<1> QED
    BY <1>1, <1>3, <1>4, <1>5 DEF InPlace


(* Any finite set can be visited in the order of ranks.                    *)
LEMMA RankedVisit ==
    ASSUME NEW S, IsFiniteSet(S), NEW r \in [S -> Nat]
    PROVE  \E v \in SetToSeqs(S) : \A i, j \in DOMAIN v : i < j => r[v[i]] <= r[v[j]]
<1> DEFINE n == Cardinality(S)
<1>1. n \in Nat /\ ExistsBijection(1..n, S)
    BY FS_CardinalityType
<1> HIDE DEF n
<1>2. PICK e : e \in Bijection(1..n, S)
    BY <1>1 DEF ExistsBijection
<1>3. /\ e \in [1..n -> S] /\ \A i, j \in 1..n : e[i] = e[j] => i = j
      /\ \A x \in S : \E i \in 1..n : e[i] = x
    BY <1>2 DEF Bijection, Injection, Surjection, IsInjective
<1> DEFINE rank == [i \in 1..n |-> r[e[i]]]
<1>4. rank \in [1..n -> Nat] /\ \A i \in 1..n : rank[i] = r[e[i]]
    BY <1>3
<1> HIDE DEF rank
<1>5. /\ \A i \in 1..n : InPlace(rank, n, i) \in 1..n
      /\ \A i, j \in 1..n : InPlace(rank, n, i) <= InPlace(rank, n, j) => rank[i] <= rank[j]
      /\ \A i, j \in 1..n : InPlace(rank, n, i) = InPlace(rank, n, j) => i = j
      /\ \A k \in 1..n : \E i \in 1..n : InPlace(rank, n, i) = k
    BY <1>1, <1>4, SortedPlaces
<1> DEFINE at(k) == CHOOSE i \in 1..n : InPlace(rank, n, i) = k
           v == [k \in 1..n |-> e[at(k)]]
<1>6. \A k \in 1..n : at(k) \in 1..n /\ InPlace(rank, n, at(k)) = k
    BY <1>5
<1>7. DOMAIN v = 1..n /\ \A k \in 1..n : v[k] = e[at(k)]
    OBVIOUS
<1> HIDE DEF at, v
<1>8. \A k \in 1..n : v[k] \in S
    BY <1>3, <1>6, <1>7
<1>9. \A k, l \in 1..n : k # l => v[k] # v[l]
    <2> SUFFICES ASSUME NEW k \in 1..n, NEW l \in 1..n, v[k] = v[l]  PROVE k = l
        OBVIOUS
    <2>1. at(k) = at(l)
        BY <1>3, <1>6, <1>7
    <2>2. QED
        BY <1>6, <2>1
<1>10. v \in [1..n -> S]
    <2>1. v = [k \in 1..n |-> e[at(k)]]
        BY DEF v
    <2>2. \A k \in 1..n : e[at(k)] \in S
        BY <1>3, <1>6
    <2>3. QED
        BY <2>1, <2>2
<1>11. v \in SetToSeqs(S)
    BY <1>9, <1>10 DEF SetToSeqs, n
<1>12. \A i, j \in DOMAIN v : i < j => r[v[i]] <= r[v[j]]
    <2> SUFFICES ASSUME NEW i \in 1..n, NEW j \in 1..n, i < j  PROVE r[v[i]] <= r[v[j]]
        BY <1>7
    <2>1. InPlace(rank, n, at(i)) <= InPlace(rank, n, at(j))
        BY <1>1, <1>6
    <2>2. rank[at(i)] <= rank[at(j)]
        BY <1>5, <1>6, <2>1
    <2>3. QED
        BY <1>4, <1>6, <1>7, <2>2
<1>13. QED
    BY <1>11, <1>12

LEMMA EntriesCounted ==
    ASSUME NEW q, Shape(q)
    PROVE  Len(q.main) + Len(q.learning) = Cardinality(Ids(Rooms(q.main, ToSet(q.learning))))
<1> DEFINE M == ToSet(q.main)
           L == ToSet(q.learning)
           E == M \cup L
           f == [e \in E |-> e.id]
<1>1. /\ q.main \in Seq(MainEntries) /\ Apart(q.main)
      /\ q.learning \in Seq(LearnEntries) /\ Apart(q.learning)
      /\ IsFiniteSet(M) /\ IsFiniteSet(L)
      /\ \A x, y \in E : x.id = y.id => x = y
    BY ShapeParts
<1>2. ASSUME NEW S, NEW s \in Seq(S), Apart(s)
      PROVE  Len(s) = Cardinality(ToSet(s))
    <2>1. Cardinality({i \in DOMAIN s : s[i] \in ToSet(s)}) = Cardinality(ToSet(s) \cap ToSet(s))
        BY <1>2, CountOverSet
    <2>2. {i \in DOMAIN s : s[i] \in ToSet(s)} = 1..Len(s) /\ Len(s) \in Nat
        BY ElementsOf DEF ToSet
    <2>3. Cardinality(1..Len(s)) = Len(s)
        <3>1. \A x \in Int : Cardinality(1..x) = IF 1 > x THEN 0 ELSE x - 1 + 1
            BY FS_Interval
        <3>2. QED
            BY <2>2, <3>1
    <2>4. ToSet(s) \cap ToSet(s) = ToSet(s)
        OBVIOUS
    <2>5. QED
        BY <2>1, <2>2, <2>3, <2>4
<1>3. Len(q.main) = Cardinality(M) /\ Len(q.learning) = Cardinality(L)
    BY <1>1, <1>2
<1>4. M \cap L = {}
    BY DEF Shape
<1> HIDE DEF M, L
<1>5. IsFiniteSet(E) /\ Cardinality(E) = Cardinality(M) + Cardinality(L)
    <2>1. Cardinality(M) \in Nat /\ Cardinality(L) \in Nat
        BY <1>1, FS_CardinalityType
    <2>2. /\ IsFiniteSet(M \cup L)
          /\ Cardinality(M \cup L) = Cardinality(M) + Cardinality(L) - Cardinality(M \cap L)
        BY <1>1, FS_Union
    <2>3. Cardinality(M \cap L) = 0
        BY <1>4, FS_EmptySet
    <2>4. QED
        BY <2>1, <2>2, <2>3 DEF E
<1> HIDE DEF E
<1>6. f \in Bijection(E, Ids(E))
    <2>1. f \in [E -> Ids(E)] /\ \A e \in E : f[e] = e.id
        BY DEF Ids
    <2> HIDE DEF f
    <2>2. f \in Injection(E, Ids(E)) /\ f \in Surjection(E, Ids(E))
        BY <1>1, <2>1 DEF Injection, Surjection, IsInjective, Ids
    <2>3. QED
        BY <2>2 DEF Bijection
<1>7. Cardinality(Ids(E)) = Cardinality(E)
    BY <1>5, <1>6, FS_Bijection DEF ExistsBijection
<1>8. QED
    BY <1>3, <1>5, <1>7 DEF Rooms, E, M, L

(* The visit that goes to the queued cards first, in each of the steps in  *)
(* which cards are gathered.                                               *)
LEMMA VisitOfQueue ==
    ASSUME NEW cs \in SUBSET DueOf(cards), NoneMissing(cs, cards), NoneBuried(cs, cards)
    PROVE  \E v \in Visits : Gathered(v) \ AtRollover = cs \ AtRollover
<1> DEFINE D == DueOf(cards)
           A(c) == At(cards, c)
           r == [c \in D |-> 2 * A(c) + (IF c \in cs THEN 0 ELSE 1)]
<1>1. D = Due /\ D \subseteq Cards /\ IsFiniteSet(D)
    <2>1. D = Due /\ D \subseteq Cards
        BY DEF Due, DueOf
    <2>2. QED
        BY <2>1, QueueParameters, FS_Subset
<1>2. \A c \in D : A(c) \in 0..3
    BY DueIsAt
<1>3. r \in [D -> Nat] /\ \A c \in D : r[c] = 2 * A(c) + (IF c \in cs THEN 0 ELSE 1)
    BY <1>2
<1> HIDE DEF r, D
<1>4. PICK v \in SetToSeqs(D) : \A i, j \in DOMAIN v : i < j => r[v[i]] <= r[v[j]]
    BY <1>1, <1>3, RankedVisit
<1>5. /\ DOMAIN v = 1..Cardinality(D) /\ Cardinality(D) \in Nat
      /\ \A i \in DOMAIN v : v[i] \in D
      /\ \A i, j \in DOMAIN v : i # j => v[i] # v[j]
      /\ \A c \in D : \E i \in DOMAIN v : v[i] = c
    BY <1>1, ArrangedAll
<1>6. \A i, j \in DOMAIN v : i < j => A(v[i]) <= A(v[j])
    <2> SUFFICES ASSUME NEW i \in DOMAIN v, NEW j \in DOMAIN v, i < j
                 PROVE  A(v[i]) <= A(v[j])
        OBVIOUS
    <2>1. r[v[i]] <= r[v[j]] /\ v[i] \in D /\ v[j] \in D
        BY <1>4, <1>5
    <2>2. A(v[i]) \in 0..3 /\ A(v[j]) \in 0..3
        BY <1>2, <2>1
    <2>3. QED
        BY <1>3, <2>1, <2>2
<1>7. v \in Visits
    BY <1>1, <1>6 DEF Visits, At
<1>8. \A c \in D : c \in Gathered(v) <=> ~\E i, j \in DOMAIN v :
            i < j /\ v[j] = c /\ NoteOf[v[i]] = NoteOf[c] /\ cards[c].queue \in Bury[v[i]]
    BY <1>1 DEF Gathered
<1>9. Gathered(v) \subseteq D /\ cs \subseteq D
    BY <1>1 DEF Gathered, D
<1>10. ASSUME NEW i \in DOMAIN v, NEW j \in DOMAIN v, r[v[i]] < r[v[j]]
       PROVE  i < j
    <2>1. i \in Nat /\ j \in Nat /\ r[v[i]] \in Nat /\ r[v[j]] \in Nat
        BY <1>3, <1>5
    <2>2. ~(j < i) /\ i # j
        BY <1>4, <1>10, <2>1
    <2>3. QED
        BY <2>1, <2>2
<1>11. ASSUME NEW c \in cs  PROVE c \in Gathered(v)
    <2> SUFFICES ASSUME NEW i \in DOMAIN v, NEW j \in DOMAIN v, i < j, v[j] = c,
                        NoteOf[v[i]] = NoteOf[c], cards[c].queue \in Bury[v[i]]
                 PROVE  FALSE
        BY <1>8, <1>9
    <2>1. v[i] \in D /\ v[i] # c /\ i \in Nat /\ j \in Nat
        BY <1>5
    <2>2. Buries(v[i], c, cards)
        BY <2>1 DEF Buries
    <2>3. A(c) < A(v[i]) \/ (A(c) = A(v[i]) /\ v[i] \notin cs)
        BY <2>1, <2>2 DEF NoneBuried, D
    <2>4. A(c) \in 0..3 /\ A(v[i]) \in 0..3 /\ c \in D
        BY <1>2, <1>9, <2>1
    <2>5. r[c] < r[v[i]]
        BY <1>3, <2>1, <2>3, <2>4
    <2>6. j < i
        BY <1>10, <2>5
    <2>7. QED
        BY <2>1, <2>6
<1>12. ASSUME NEW c \in Gathered(v), c \notin AtRollover  PROVE c \in cs
    <2> SUFFICES ASSUME c \notin cs  PROVE FALSE
        OBVIOUS
    <2>1. c \in D /\ c \in Cards /\ ~IsAtRollover(cards[c])
        BY <1>1, <1>9, <1>12 DEF AtRollover, IsAtRollover
    <2>2. PICK d \in D : Buries(d, c, cards) /\ GoesBefore(d, c, cs, cards)
        BY <2>1 DEF NoneMissing, D
    <2>3. A(c) \in 0..3 /\ A(d) \in 0..3
        BY <1>2, <2>1
    <2>4. r[d] < r[c]
        BY <1>3, <2>1, <2>2, <2>3 DEF GoesBefore
    <2>5. PICK i, j \in DOMAIN v : v[i] = d /\ v[j] = c
        BY <1>5, <2>1
    <2>6. i < j
        BY <1>10, <2>4, <2>5
    <2>7. QED
        BY <1>8, <2>1, <2>2, <2>5, <2>6 DEF Buries
<1>13. QED
    BY <1>7, <1>11, <1>12

LEMMA MatchFollows == Inv /\ MatchInv => QueueMatchesCards
<1> SUFFICES ASSUME Inv, MatchInv, queues # NoQueues
             PROVE  /\ Len(queues.main) + Len(queues.learning) = Cardinality({e.id : e \in Queued})
                    /\ \A e \in Queued : Fresh(e) /\ e.kind = Entry(e.id, cards[e.id]).kind
                    /\ \E v \in Visits :
                          Gathered(v) \ AtRollover = {e.id : e \in Queued} \ AtRollover
    BY DEF QueueMatchesCards
<1>1. Shape(queues)
    BY DEF Inv, QueueOK, GoodQueue
<1>2. Matches(Queued, cards) /\ Queued = Rooms(queues.main, ToSet(queues.learning))
    BY DEF MatchInv, QueueFits, Queued, Rooms
<1>3. Ids(Queued) = {e.id : e \in Queued}
    BY DEF Ids
<1>4. Len(queues.main) + Len(queues.learning) = Cardinality({e.id : e \in Queued})
    BY <1>1, <1>2, <1>3, EntriesCounted
<1>5. \A e \in Queued : /\ e.id \in DueOf(cards) /\ cards[e.id].mtime = e.mtime
                        /\ e.kind = Entry(e.id, cards[e.id]).kind
    BY <1>2 DEF Matches, Current
<1>6. Ids(Queued) \in SUBSET DueOf(cards)
    BY <1>5 DEF Ids
<1>7. \E v \in Visits : Gathered(v) \ AtRollover = Ids(Queued) \ AtRollover
    BY <1>2, <1>6, VisitOfQueue DEF Matches
<1>8. QED
    BY <1>3, <1>4, <1>5, <1>7 DEF Fresh

(* Where siblings are buried alike, the queue that answers, undo and redo  *)
(* move on is always one that a rebuild from the cards could give: each    *)
(* card once, as it was queued, none too many and none missing.            *)
THEOREM QueueFollowsCards ==
    ASSUME BuriedAlike
    PROVE  Spec => []QueueMatchesCards
BY InitInv, InvNext, InitMatch, MatchNext, MatchFollows, PTL DEF Spec

=============================================================================
