--------------------------- MODULE MCDailyQueues ----------------------------
(* An instance of ExamQueue.                                               *)
EXTENDS ExamQueue, TLC

CONSTANTS p, a, b, x, f, c1, c2, c3, c4, o1, o2

InOrder == <<p, a, b, x, f>>
Names == p :> <<"p">> @@ a :> <<"p", "a">> @@ b :> <<"p", "b">> @@ x :> <<"p", "b", "x">>
         @@ f :> <<"p", "f">>

(* Decks may be missing above x.                                           *)
SomeDecks == {{p, a, b, x, f}, {p, a, x, f}, {p, x}}

Notes == c1 :> 1 @@ c2 :> 1 @@ c3 :> 2 @@ c4 :> 3
In(deck, queue) == [deck |-> deck, home |-> deck, queue |-> queue]
Borrowed == [deck |-> f, home |-> a, queue |-> "Review"]
BorrowedNew == [deck |-> f, home |-> a, queue |-> "New"]
SomeRows ==
    {c1 :> q[1] @@ c2 :> q[2] @@ c3 :> q[3] @@ c4 :> q[4] : q \in
        {In(x, "DayLearn")}
        \X {In(a, "New"), In(x, "Review"), In(x, "New")}
        \X {In(x, "Review"), In(x, "New"), Borrowed}
        \X {In(p, "Learn"), In(p, "New"), Borrowed, BorrowedNew, In(b, "Review"), In(b, "Suspended")}}

Limit(r, n, u) ==
    [review |-> r, new |-> n, reviewed |-> 1, introduced |-> 1, bury |-> u]
SomeConfigs ==
    {p :> Limit(l[1], 2, u) @@ a :> Limit(2, 2, u) @@ b :> Limit(l[2], 3, {}) @@ x :> Limit(4, 2, u)
        @@ f :> Limit(0, 0, {}) : l \in {3, 5} \X {2, 3}, u \in {{}, {"New", "Review"}}}
AnOption(ignored, parents, byDeck, dayLearn, new) ==
    [ignore_review_limit |-> ignored, all_parents |-> parents, by_deck |-> byDeck,
     day_learn_mix |-> dayLearn, new_review_mix |-> new]
SomeOptions ==
    {AnOption(i, q, TRUE, "Mix", "Mix") : i, q \in BOOLEAN}
        \cup {AnOption(FALSE, FALSE, FALSE, "Before", "Mix"), AnOption(TRUE, TRUE, FALSE, "After", "Before")}

(* Topics are numbered; 0 is the empty key.                                *)
KeyBefore(t, u) == t < u
TopicsOfNotes == c1 :> 1 @@ c2 :> 1 @@ c3 :> 2 @@ c4 :> 2 @@ o1 :> 2 @@ o2 :> 0
InDueOrder == <<o1, c3, c2, c4, c1, o2>>
SomeWeights == {1 :> 3 @@ 2 :> 1, 1 :> 0}
SomeWeaknesses == {1 :> 1 @@ 2 :> 2, 2 :> 0}

(* The exam order is taken of some of the queues that are built.           *)
SomeOrdered ==
    order # Idle => /\ root = p /\ option = AnOption(TRUE, TRUE, TRUE, "Mix", "Mix")
                    /\ config[p] = Limit(5, 2, {}) /\ config[b].review = 3
=============================================================================
