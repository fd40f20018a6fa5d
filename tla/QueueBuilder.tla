---------------------------- MODULE QueueBuilder ----------------------------
(***************************************************************************)
(* How the queue of a deck is built (rslib/src/scheduler/queue/builder,    *)
(* rslib/src/decks/limits.rs): cards are gathered one by one, as the daily *)
(* limits of the decks allow and as siblings bury each other, and then     *)
(* mixed.  Beside it the counts of the deck list, which come from the same *)
(* cards and limits in another way (rslib/src/decks/tree.rs).              *)
(*                                                                         *)
(* All cards are due.  Sort orders are left out: the cards of a kind are   *)
(* gathered in any order that the gathering by decks allows.  The ratio of *)
(* Intersperser is exact here and of single precision in the code.         *)
(* A definition named ...Bug is a faulty variant of the definition after   *)
(* it, and belongs to no specification.                                    *)
(***************************************************************************)
EXTENDS Integers, SequencesExt, FiniteSetsExt

CONSTANTS
    Cards, NoteOf,  \* NoteOf[c]: the note of c
    NameOrder,      \* all decks in the order of their names
    DeckSets,       \* the decks that there may be
    Name,           \* Name[d]: the components of the name of d
    FilteredDecks,
    Rows,           \* the cards there may be: functions from Cards to rows
    Configs,        \* the limits and settings that the decks may have
    Options,        \* the options there may be
    DefaultLimit,   \* of decks without a configuration: 9999
    Idle            \* before the queue is built

Decks == ToSet(NameOrder)
Kinds == {"DayLearn", "Review", "New"}
Mixes == {"Before", "After", "Mix"}

Place == [d \in Decks |-> CHOOSE i \in DOMAIN NameOrder : NameOrder[i] = d]
Level(d) == Len(Name[d])
WithUnder(d, e) == IsPrefix(Name[d], Name[e])

(* A name is that of one deck, and what is under a deck follows it at once: *)
(* names are unique, and kept so that their order is depth-first.           *)
ASSUME DeckNames ==
    /\ NameOrder \in Seq(Decks)
    /\ \A i, j \in DOMAIN NameOrder : NameOrder[i] = NameOrder[j] => i = j
    /\ Name \in [Decks -> Seq(STRING) \ {<<>>}]
    /\ \A d, e \in Decks : Name[d] = Name[e] => d = e
    /\ \A d, e \in Decks : WithUnder(d, e) =>
         Place[d] <= Place[e] /\ \A f \in Decks : Place[f] \in Place[d]..Place[e] => WithUnder(d, f)

ASSUME BuilderParameters ==
    /\ DefaultLimit \in Nat /\ DOMAIN NoteOf = Cards
    /\ Idle \notin Kinds \cup {"Learn", "Mix", "Built", "Failed"}
    /\ DeckSets \subseteq SUBSET Decks /\ FilteredDecks \subseteq Decks
    /\ \A rows \in Rows, c \in Cards : rows[c] \in
         [deck : Decks, home : Decks \ FilteredDecks, queue : Kinds \cup {"Learn", "Suspended"}]
    /\ \A config \in Configs, d \in Decks : config[d] \in
         [review : Nat, new : Nat, reviewed : Nat, introduced : Nat, bury : SUBSET Kinds]
    /\ Options \subseteq [ignore_review_limit : BOOLEAN, all_parents : BOOLEAN, by_deck : BOOLEAN,
                          day_learn_mix : Mixes, new_review_mix : Mixes]

VARIABLES
    decks,          \* the decks that exist
    card,           \* the row of each card
    config,         \* the settings of each deck
    option,
    root,           \* the deck that is studied
    tree,           \* the decks from each deck of the tree up to its root
    limits,         \* what is left of the limits, by deck of the tree
    seen,           \* seen_note_ids: the kinds that are buried, by note
    unvisited,
    phase,          \* the kind that is gathered, then "Mix", "Built" or "Failed"
    gathered        \* the cards of each kind; main: the main queue

collection == <<decks, card, config, option>>
queue_vars == <<decks, card, config, option, root, tree, limits, seen, unvisited, phase, gathered>>

Smaller(x, y) == IF x < y THEN x ELSE y
OneLess(x) == IF x = 0 THEN 0 ELSE x - 1

-----------------------------------------------------------------------------
(* The tree of decks and their limits.                                      *)

(* Names decide; a deck need not have a parent (it may have been deleted    *)
(* elsewhere while a child was added here).                                 *)
Above(a, d) == IsStrictPrefix(Name[a], Name[d])
Under(d) == {e \in decks : WithUnder(d, e)}

HaveParents == \A d \in decks : Len(Name[d]) > 1 => \E e \in decks : Name[e] = Front(Name[d])

(* Adding and renaming keep decks from filtered ones (MustBeLeafNode), but  *)
(* syncing "does not check parents/children".                               *)
FilteredAreLeaves == \A f \in FilteredDecks \cap decks : Under(f) = {f}

(* parent_decks, which stops at the first that is missing.                  *)
ParentDecks(d) ==
    {a \in decks : Above(a, d) /\ \A n \in Level(a)..Level(d) :
                      \E e \in decks : Name[e] = SubSeq(Name[d], 1, n)}

(* The decks that QueueBuilder::new gives to LimitTreeMap::build.           *)
Listed(r) == Under(r) \cup (IF option.all_parents THEN ParentDecks(r) ELSE {})

(* Of ds in the order of names, the last deck up to d of each level, but    *)
(* for those that a later deck of a higher level follows.                   *)
Line(ds, d) ==
    {a \in ds : Place[a] <= Place[d] /\ \A e \in ds :
                  Place[a] < Place[e] /\ Place[e] <= Place[d] => Level(a) < Level(e)}

(* add_child_nodes: a deck is put under the last deck of the level above,   *)
(* or left out if one is missing.  Each deck of the tree, whose root is of  *)
(* level top, with the decks from it up to the root.                        *)
Tree(ds, top) ==
    [d \in {e \in ds : {Level(a) : a \in Line(ds, e)} = top..Level(e)} |-> Line(ds, d)]

(* RemainingLimits::new.                                                    *)
RemainingLimits(d) ==
    LET k == config[d]
        shared == IF option.ignore_review_limit THEN 0 ELSE k.introduced
        review == k.review - k.reviewed - shared
        new == k.new - k.introduced
        capped == IF option.ignore_review_limit THEN new ELSE Smaller(new, review)
    IN  IF d \in FilteredDecks
        THEN [review |-> DefaultLimit, new |-> DefaultLimit, cap |-> FALSE]
        ELSE [review |-> Max({0, review}), new |-> Max({0, capped}),
              cap |-> ~option.ignore_review_limit]

(* cap_to, for each of ms.                                                  *)
CapTo(l, ms) ==
    [l EXCEPT !.review = Min({@} \cup {m.review : m \in ms}),
              !.new = Min({@} \cup {m.new : m \in ms})]

(* LimitTreeMap::build: no deck has more left than those it is under.       *)
BuiltLimits(t) ==
    [d \in DOMAIN t |-> CapTo(RemainingLimits(d), {RemainingLimits(a) : a \in t[d]})]

Decremented(l, kind) ==
    IF kind = "New" THEN [l EXCEPT !.new = OneLess(@)]
    ELSE [l EXCEPT !.review = OneLess(@),
                   !.new = IF l.cap THEN Smaller(@, OneLess(l.review)) ELSE @]

ReachedZero(before, after) ==
    (before.review > 0 /\ after.review = 0) \/ (before.new > 0 /\ after.new = 0)

NoCapBelowBug(d, kind) ==
    [b \in DOMAIN limits |-> IF b \in tree[d] THEN Decremented(limits[b], kind) ELSE limits[b]]

(* decrement_deck_and_parent_limits: a deck with nothing left caps those    *)
(* under it.                                                                *)
DecrementDeckAndParents(d, kind) ==
    LET less(a) == IF a \in tree[d] THEN Decremented(limits[a], kind) ELSE limits[a]
        ended == {a \in tree[d] : ReachedZero(limits[a], less(a))}
    IN  [b \in DOMAIN limits |-> CapTo(less(b), {less(a) : a \in ended \cap tree[b]})]

-----------------------------------------------------------------------------
(* Gathering.                                                               *)

NothingGathered == [k \in Kinds \cup {"Learn", "main"} |-> <<>>]

BuilderInit ==
    /\ card \in Rows /\ decks \in {ds \in DeckSets : \A c \in Cards : {card[c].deck, card[c].home} \subseteq ds}
    /\ config \in Configs /\ option \in Options
    /\ root = Idle /\ tree = Idle /\ limits = Idle
    /\ seen = [n \in {NoteOf[c] : c \in Cards} |-> {}]
    /\ unvisited = Cards
    /\ phase = Idle
    /\ gathered = NothingGathered

TopOf(r) == CHOOSE d \in Listed(r) : \A e \in Listed(r) : WithUnder(d, e)

(* build_queues of the current deck, up to QueueBuilder::new.               *)
Start(d) ==
    /\ phase = Idle /\ d \in decks
    /\ root' = d
    /\ tree' = Tree(Listed(d), Level(TopOf(d))) /\ limits' = BuiltLimits(tree')
    /\ phase' = "Learn"
    /\ UNCHANGED <<collection, seen, unvisited, gathered>>

Active == Under(root)
Top == TopOf(root)

LimitOf(d, kind) == IF kind = "New" THEN limits[d].new ELSE limits[d].review
RootLimitReached(kind) == LimitOf(Top, kind) = 0
InTree(d) == d \in DOMAIN limits

Waiting(kind) == {c \in unvisited : card[c].queue = kind /\ card[c].deck \in Active}

(* A note not seen yet buries nothing, as one whose decks bury nothing.     *)
BuriedBy(home) == config[home].bury
SeenWith(c) == [seen EXCEPT ![NoteOf[c]] = @ \cup BuriedBy(card[c].home)]

Gather(c) == gathered' = [gathered EXCEPT ![card[c].queue] = Append(@, c)]
Skip == UNCHANGED <<limits, seen, gathered>>

GatherIntraday ==
    /\ phase = "Learn"
    /\ \E c \in Waiting("Learn") :
         /\ Gather(c) /\ seen' = SeenWith(c) /\ unvisited' = unvisited \ {c}
    /\ UNCHANGED <<collection, root, tree, limits, phase>>

(* With gathering by deck, the decks come in the order of their names.      *)
Turn(d, kind) ==
    kind = "New" /\ option.by_deck =>
        \A c \in Waiting(kind) : Place[d] <= Place[card[c].deck]

CountedFirstBug(c, kind) ==
    IF LimitOf(card[c].deck, kind) = 0 THEN Skip
    ELSE /\ limits' = DecrementDeckAndParents(card[c].deck, kind) /\ seen' = SeenWith(c)
         /\ IF kind \in seen[NoteOf[c]] THEN UNCHANGED gathered ELSE Gather(c)

(* A card of a deck that has reached its limit leaves no trace; one that is *)
(* buried still buries its siblings.                                        *)
Consider(c, kind) ==
    IF LimitOf(card[c].deck, kind) = 0 THEN Skip
    ELSE /\ seen' = SeenWith(c)
         /\ IF kind \in seen[NoteOf[c]] THEN UNCHANGED <<limits, gathered>>
            ELSE /\ Gather(c)
                 /\ limits' = DecrementDeckAndParents(card[c].deck, kind)

(* gather_due_cards and gather_new_cards; a deck that is not in the tree is *)
(* an error ("deck not found in limits map").                               *)
GatherLimited ==
    /\ phase \in Kinds /\ ~RootLimitReached(phase)
    /\ \E c \in Waiting(phase) :
         /\ Turn(card[c].deck, phase)
         /\ unvisited' = unvisited \ {c}
         /\ IF InTree(card[c].deck) THEN Consider(c, phase) /\ UNCHANGED phase
                                    ELSE phase' = "Failed" /\ Skip
    /\ UNCHANGED <<collection, root, tree>>

(* gather_new_cards_by_deck asks for the limit of decks without cards, too. *)
UnknownDeck ==
    /\ phase = "New" /\ option.by_deck /\ ~RootLimitReached("New")
    /\ \E d \in Active : ~InTree(d) /\ Turn(d, "New")

FailOnUnknownDeck ==
    /\ UnknownDeck
    /\ phase' = "Failed"
    /\ Skip /\ UNCHANGED <<collection, root, tree, unvisited>>

PhaseAfter == [k \in Kinds \cup {"Learn"} |->
    CASE k = "Learn" -> "DayLearn" [] k = "DayLearn" -> "Review" [] k = "Review" -> "New"
      [] k = "New" -> "Mix"]

NextPhase ==
    /\ phase \in DOMAIN PhaseAfter
    /\ Waiting(phase) = {} \/ (phase # "Learn" /\ RootLimitReached(phase))
    /\ ~UnknownDeck
    /\ phase' = PhaseAfter[phase]
    /\ Skip /\ UNCHANGED <<collection, root, tree, unvisited>>

-----------------------------------------------------------------------------
(* Mixing.                                                                  *)

FromZeroBug(m, n) ==
    LET TakesTwo(i, j) == i = m \/ (j < n /\ j * (m + 1) < (i + 1) * (n + 1))
        taken[k \in 0..(m + n)] ==
            IF k = 0 THEN <<0, 0>>
            ELSE LET i == taken[k - 1][1]
                     j == taken[k - 1][2]
                 IN  IF TakesTwo(i, j) THEN <<i, j + 1>> ELSE <<i + 1, j>>
    IN  taken

(* How many of m and of n cards are taken in the first k steps.             *)
Taken(m, n) ==
    LET TakesTwo(i, j) == i = m \/ (j < n /\ (j + 1) * (m + 1) < (i + 1) * (n + 1))
        taken[k \in 0..(m + n)] ==
            IF k = 0 THEN <<0, 0>>
            ELSE LET i == taken[k - 1][1]
                     j == taken[k - 1][2]
                 IN  IF TakesTwo(i, j) THEN <<i, j + 1>> ELSE <<i + 1, j>>
    IN  taken

(* Intersperser.                                                            *)
Intersperse(one, two) ==
    LET taken == Taken(Len(one), Len(two))
    IN  [k \in 1..(Len(one) + Len(two)) |->
            IF taken[k][1] > taken[k - 1][1] THEN one[taken[k][1]] ELSE two[taken[k][2]]]

Merge(reviews, others, mix) ==
    CASE mix = "After"  -> reviews \o others
      [] mix = "Before" -> others \o reviews
      [] mix = "Mix"    -> Intersperse(reviews, others)

(* QueueBuilder::build.                                                     *)
Build ==
    /\ phase = "Mix"
    /\ gathered' = [gathered EXCEPT !["main"] =
          Merge(Merge(gathered["Review"], gathered["DayLearn"], option.day_learn_mix),
                gathered["New"], option.new_review_mix)]
    /\ phase' = "Built"
    /\ UNCHANGED <<collection, root, tree, limits, seen, unvisited>>

BuilderNext ==
    \/ \E d \in Decks : Start(d)
    \/ GatherIntraday \/ GatherLimited \/ FailOnUnknownDeck \/ NextPhase \/ Build

BuilderSpec == BuilderInit /\ [][BuilderNext]_queue_vars

-----------------------------------------------------------------------------
(* The counts of the deck list (sum_counts_and_apply_limits_v3).            *)

DueIn(d, kind) == Cardinality({c \in Cards : card[c].deck = d /\ card[c].queue = kind})

LearningApartBug(n, l) ==
    LET review == Smaller(n.review, l.review)
        new == Smaller(n.new, l.new)
    IN  [n EXCEPT !.daylearn = Smaller(@, l.review), !.review = review,
                  !.new = IF l.cap THEN Smaller(new, l.review - review) ELSE new]

(* NodeCountsV3::capped.                                                    *)
Capped(n, l) ==
    LET daylearn == Smaller(n.daylearn, l.review)
        review == Smaller(n.review, l.review - daylearn)
        new == Smaller(n.new, l.new)
    IN  [n EXCEPT !.daylearn = daylearn, !.review = review,
                  !.new = IF l.cap THEN Smaller(new, l.review - daylearn - review) ELSE new]

(* deck_names_to_tree: decks of level 1 begin trees of their own.           *)
ListTree == Tree(decks, 1)

ListLimits(d) == IF option.all_parents THEN BuiltLimits(ListTree)[d] ELSE RemainingLimits(d)

Plus(m, n) == [kind \in DOMAIN m |-> m[kind] + n[kind]]

ListCounts ==
    LET own(d) == [learn |-> DueIn(d, "Learn"), daylearn |-> DueIn(d, "DayLearn"),
                   review |-> DueIn(d, "Review"), new |-> DueIn(d, "New")]
        counts[d \in DOMAIN ListTree] ==
            LET children == {e \in DOMAIN ListTree : d \in ListTree[e] /\ Level(e) = Level(d) + 1}
            IN  Capped(FoldSet(LAMBDA e, sum : Plus(sum, counts[e]), own(d), children),
                       ListLimits(d))
    IN  counts

-----------------------------------------------------------------------------
(* Properties.                                                              *)

GatheredIn(d, kinds) ==
    {c \in UNION {ToSet(gathered[k]) : k \in kinds} : card[c].deck \in Under(d)}

ReviewsOf(d) == Cardinality(GatheredIn(d, {"DayLearn", "Review"}))
NewOf(d) == Cardinality(GatheredIn(d, {"New"}))

(* The limit of d is used up by what was gathered from it and below.        *)
UsedUp(d, kind) ==
    LET l == RemainingLimits(d)
    IN  \/ kind # "New" /\ ReviewsOf(d) >= l.review
        \/ kind = "New" /\ NewOf(d) >= l.new
        \/ kind = "New" /\ l.cap /\ ReviewsOf(d) + NewOf(d) >= l.review

Queued == gathered["Learn"] \o gathered["DayLearn"] \o gathered["Review"] \o gathered["New"]

(* The sibling s, if it comes first, buries c.                              *)
Buries(s, c) ==
    /\ s # c /\ NoteOf[s] = NoteOf[c]
    /\ card[s].deck \in Active /\ card[c].queue \in BuriedBy(card[s].home)

(* No deck above what is studied, or within it, gives more cards than its   *)
(* own daily limits have left, whatever the limits of its parents and of    *)
(* its children; new cards count as reviews where the option says so.       *)
WithinLimits ==
    phase # Idle => \A d \in Listed(root) :
      LET l == RemainingLimits(d)
      IN  /\ ReviewsOf(d) <= l.review /\ NewOf(d) <= l.new
          /\ l.cap => ReviewsOf(d) + NewOf(d) <= l.review

(* Of two siblings in the queue the first does not bury the second. Where   *)
(* no deck is without its parent, building succeeds, and if none is under a *)
(* filtered deck, a due card is left out only when a deck it is in has      *)
(* given all that its limits allow, or when a sibling that came before it   *)
(* buries it.                                                               *)
RightlyGathered ==
    /\ \A i, j \in DOMAIN Queued : i < j => ~Buries(Queued[i], Queued[j])
    /\ phase = "Built" /\ HaveParents /\ FilteredAreLeaves => \A c \in Cards \ ToSet(Queued) :
          card[c].deck \in Active /\ card[c].queue # "Suspended" =>
            \/ UsedUp(Top, card[c].queue)
            \/ \E a \in tree[card[c].deck] : UsedUp(a, card[c].queue)
            \/ \E s \in Cards : s \notin unvisited /\ Buries(s, c)
    /\ phase = "Failed" => ~HaveParents

(* The reviews of a filtered deck count as those of its parents, and reduce *)
(* their new cards: a queue of it has fewer then, the deck list as many.    *)
ListAllowsForParents ==
    root \in FilteredDecks => ~option.all_parents \/ option.ignore_review_limit

(* Where nothing is buried, no deck is without its parent and none is under *)
(* a filtered deck, the numbers that the deck list shows for a deck are     *)
(* those of the cards that its queue then has.                              *)
CountsMatchDeckList ==
    phase = "Built" /\ HaveParents /\ FilteredAreLeaves /\ ListAllowsForParents
        /\ (\A d \in decks : BuriedBy(d) = {}) =>
      ListCounts[root] = [learn |-> Len(gathered["Learn"]), daylearn |-> Len(gathered["DayLearn"]),
                          review |-> Len(gathered["Review"]), new |-> Len(gathered["New"])]

(* The cards of s are among those of t, in the same order.                  *)
KeptIn(s, t) ==
    \E at \in [DOMAIN s -> DOMAIN t] :
        /\ \A i \in DOMAIN s : t[at[i]] = s[i]
        /\ \A i, j \in DOMAIN s : i < j => at[i] < at[j]

(* The main queue has each card that was gathered for it once, those of a   *)
(* kind in the order in which they were gathered; and mixed, the new cards  *)
(* are spread evenly over the others: at no point of the queue is either    *)
(* side more than one share ahead.                                          *)
MixedEvenly ==
    phase = "Built" =>
        LET main == gathered["main"]
            new == Len(gathered["New"])
            others == Len(gathered["Review"]) + Len(gathered["DayLearn"])
            newIn(k) == Cardinality({i \in 1..k : card[main[i]].queue = "New"})
        IN  /\ Len(main) = others + new /\ \A kind \in Kinds : KeptIn(gathered[kind], main)
            /\ option.new_review_mix = "Mix" => \A k \in DOMAIN main :
                 /\ newIn(k) * (others + 1) <= (k - newIn(k) + 1) * (new + 1)
                 /\ (k - newIn(k)) * (new + 1) <= (newIn(k) + 1) * (others + 1)

=============================================================================
