--------------------------- MODULE CardLifeProofs ---------------------------
(***************************************************************************)
(* Proofs about CardLife, for any cards, decks, steps, intervals and days: *)
(* what holds of each card by itself is kept by every operation on it, and *)
(* a deck of previews gives its cards back as they came.                   *)
(***************************************************************************)
EXTENDS CardLife, FiniteSetTheorems, TLAPS

Kinds == {None, "reschedule", "preview"}

(* HasAHome, ColumnsAgree, StepsInRange and PositionKept for one card k,    *)
(* where ds are the decks, fs the filtered decks and p its position.        *)
Housed(k, ds, fs) ==
    /\ HomeDeck(k) \in ds
    /\ IF IsFiltered(k) THEN k.did \in FilteredDecks /\ fs[k.did] # None ELSE k.odue = 0

Previewed(k, fs) == IsFiltered(k) /\ fs[k.did] = "preview"

Columns(k, fs) ==
    /\ k.queue = "New" => k.ctype = "New"
    /\ k.queue \in {"Learn", "DayLearn"} => k.ctype \in {"Learn", "Relearn"}
    /\ k.queue = "Review" => k.ctype = "Review" \/ Previewed(k, fs)
    /\ k.queue = "PreviewRepeat" => Previewed(k, fs)
    /\ ~IsFiltered(k) => /\ k.queue = "Learn" => IsTimestamp(k.due)
                         /\ k.queue = "DayLearn" => ~IsTimestamp(k.due)
    /\ OriginalOrCurrentDue(k) > 0
    /\ k.ctype \in {"New", "Review"} => OriginalOrCurrentDue(k) \in 1..Epoch

StepsLeft(k) ==
    /\ k.ctype = "Learn" => k.left <= Larger(1, Len(LearnSteps[HomeDeck(k)]))
    /\ k.ctype = "Relearn" => k.left <= Larger(1, Len(RelearnSteps[HomeDeck(k)]))

CardBase(k, p, ds, fs) ==
    /\ k \in CardType
    /\ Housed(k, ds, fs)
    /\ Columns(k, fs)
    /\ LastPosition(k) = p /\ p \in 1..MaxPosition

CardInv(k, p, ds, fs) == CardBase(k, p, ds, fs) /\ StepsLeft(k)

(* The queue of a card that is neither buried nor suspended, at home.       *)
RightQueue(ctype, due) ==
    IF ctype \in {"New", "Review"} THEN ctype ELSE IF IsTimestamp(due) THEN "Learn" ELSE "DayLearn"

-----------------------------------------------------------------------------
(* The operations on one card.                                              *)

LEMMA Numbers == Epoch \in Nat /\ Now \in Nat /\ Now > Epoch /\ Front \in Int /\ NoPosition = -1
BY SMT DEF Epoch, Now, Front, NoPosition

(* A row that exists is not taken for one that does not.                    *)
LEMMA RowsAreCards == NoCard \notin CardType
BY DEF NoCard, None, CardType

(* What is in its home deck does not depend on the filtered decks.          *)
LEMMA AtHome ==
  ASSUME NEW k, NEW p, NEW ds, NEW fs, NEW gs, CardBase(k, p, ds, fs), ~IsFiltered(k)
  PROVE  CardBase(k, p, ds, gs)
BY DEF CardInv, CardBase, Housed, Columns, Previewed

LEMMA SetAside ==
  ASSUME NEW k, NEW p, NEW ds, NEW fs, CardInv(k, p, ds, fs), NEW q \in NotDue
  PROVE  CardInv([k EXCEPT !.queue = q], p, ds, fs)
<1> DEFINE aside == [k EXCEPT !.queue = q]
<1>1. aside \in CardType
  BY DEF CardInv, CardBase, CardType, NotDue, Buried
<1>2. /\ aside.ctype = k.ctype /\ aside.due = k.due /\ aside.odue = k.odue /\ aside.did = k.did
      /\ aside.odid = k.odid /\ aside.pos = k.pos /\ aside.left = k.left /\ aside.queue = q
  BY DEF CardInv, CardBase, CardType
<1> HIDE DEF aside
<1>3. Housed(aside, ds, fs) /\ StepsLeft(aside) /\ LastPosition(aside) = LastPosition(k)
  BY <1>2 DEF CardInv, CardBase, Housed, StepsLeft, LastPosition, HomeDeck, IsFiltered, OriginalOrCurrentDue
<1>4. Columns(aside, fs)
  BY <1>2 DEF CardInv, CardBase, Columns, IsFiltered, OriginalOrCurrentDue, NotDue, Buried
<1>5. CardInv(aside, p, ds, fs)
  BY <1>1, <1>3, <1>4 DEF CardInv, CardBase
<1> QED
  BY <1>5 DEF aside

LEMMA Restored ==
  ASSUME NEW k, NEW p, NEW ds, NEW fs, CardInv(k, p, ds, fs)
  PROVE  CardInv(RestoreQueueFromType(k), p, ds, fs)
<1> DEFINE r == RestoreQueueFromType(k)
<1>1. r \in CardType
  BY DEF CardInv, CardBase, CardType, RestoreQueueFromType
<1>2. /\ r.ctype = k.ctype /\ r.due = k.due /\ r.odue = k.odue /\ r.did = k.did
      /\ r.odid = k.odid /\ r.pos = k.pos /\ r.left = k.left
  BY DEF CardInv, CardBase, CardType, RestoreQueueFromType
<1>3. k.ctype \in {"New", "Learn", "Review", "Relearn"} /\ k.due \in Int
  BY DEF CardInv, CardBase, CardType
<1>4. /\ k.ctype = "New" => r.queue = "New"
      /\ k.ctype = "Review" => r.queue = "Review"
      /\ k.ctype \in {"Learn", "Relearn"} /\ IsTimestamp(k.due) => r.queue = "Learn"
      /\ k.ctype \in {"Learn", "Relearn"} /\ ~IsTimestamp(k.due) => r.queue = "DayLearn"
  BY <1>3, Numbers DEF CardInv, CardBase, CardType, RestoreQueueFromType, IsTimestamp
<1> HIDE DEF r
<1>5. Housed(r, ds, fs) /\ StepsLeft(r) /\ LastPosition(r) = LastPosition(k)
  BY <1>2 DEF CardInv, CardBase, Housed, StepsLeft, LastPosition, HomeDeck, IsFiltered, OriginalOrCurrentDue
<1>6. Columns(r, fs)
  <2>1. OriginalOrCurrentDue(r) = OriginalOrCurrentDue(k)
    BY <1>2 DEF IsFiltered, OriginalOrCurrentDue
  <2>2. /\ OriginalOrCurrentDue(r) > 0
        /\ k.ctype \in {"New", "Review"} => OriginalOrCurrentDue(r) \in 1..Epoch
    BY <2>1 DEF CardInv, CardBase, Columns
  <2> QED
    BY <1>2, <1>3, <1>4, <2>2, Numbers DEF Columns, IsTimestamp
<1>7. CardInv(r, p, ds, fs)
  BY <1>1, <1>5, <1>6 DEF CardInv, CardBase
<1> QED
  BY <1>7 DEF r

LEMMA HomeType ==
  ASSUME NEW k \in CardType
  PROVE  RemoveBeforeReschedule(k) \in CardType
<1>1. ASSUME NEW did \in Decks, NEW odid \in {None}, NEW odue \in Int
      PROVE  [k EXCEPT !.did = did, !.odid = odid, !.odue = odue] \in CardType
  BY DEF CardType
<1>2. CASE IsFiltered(k)
  <2>1. k.odid \in Decks /\ None \in {None} /\ 0 \in Int
    BY <1>2 DEF CardType, IsFiltered
  <2>2. [k EXCEPT !.did = k.odid, !.odid = None, !.odue = 0] \in CardType
    BY <1>1, <2>1
  <2> QED
    BY <1>2, <2>2 DEF RemoveBeforeReschedule
<1>3. CASE ~IsFiltered(k)
  BY <1>3 DEF RemoveBeforeReschedule
<1> QED
  BY <1>2, <1>3

(* A card that leaves a filtered deck is at home, whatever becomes of the   *)
(* deck in the same step.                                                   *)
LEMMA ReturnsHomeBase ==
  ASSUME NEW k, NEW p, NEW ds \in SUBSET Decks, NEW fs, NEW gs, CardBase(k, p, ds, fs)
  PROVE  LET r == RemoveRestoringQueue(k) IN
         /\ CardBase(r, p, ds, gs)
         /\ ~IsFiltered(r) /\ HomeDeck(r) = HomeDeck(k) /\ r.ctype = k.ctype /\ r.left = k.left
         /\ IsFiltered(k) => /\ r.due = k.odue
                             /\ r.queue = IF k.queue \in NotDue THEN k.queue
                                          ELSE RightQueue(k.ctype, k.odue)
<1>1. CASE ~IsFiltered(k)
  BY <1>1, AtHome DEF RemoveRestoringQueue
<1>2. CASE IsFiltered(k)
  <2> DEFINE home == [RemoveBeforeReschedule(k) EXCEPT !.due = IF k.odue # 0 THEN k.odue ELSE @]
  <2>1. home \in CardType
    <3>1. k \in CardType /\ k.odid \in Decks /\ k.odue \in Int
      BY <1>2 DEF CardBase, CardType, IsFiltered
    <3>2. RemoveBeforeReschedule(k) \in CardType
      BY <3>1, HomeType
    <3> QED
      BY <3>1, <3>2 DEF CardType
  <2>2. k \in CardType /\ k.odue \in Int /\ HomeDeck(k) = k.odid /\ OriginalOrCurrentDue(k) = k.odue
    BY <1>2 DEF CardBase, CardType, HomeDeck, OriginalOrCurrentDue
  <2>3. k.odue # 0
    BY <2>2 DEF CardBase, Columns
  <2>4. /\ home.ctype = k.ctype /\ home.odue = 0 /\ home.did = k.odid /\ home.odid = None
        /\ home.pos = k.pos /\ home.left = k.left /\ home.queue = k.queue
        /\ home.due = k.odue
    BY <1>2, <2>2, <2>3 DEF CardType, RemoveBeforeReschedule, IsFiltered
  <2> DEFINE r == IF k.queue \in NotDue THEN home ELSE RestoreQueueFromType(home)
  <2>5. RemoveRestoringQueue(k) = r
    BY <1>2 DEF RemoveRestoringQueue
  <2> HIDE DEF home
  <2>6. k.ctype \in {"New", "Learn", "Review", "Relearn"} /\ home.due \in Int
    BY <2>1, <2>2 DEF CardType
  <2>7. /\ r \in CardType
        /\ r.ctype = k.ctype /\ r.due = k.odue /\ r.odue = 0 /\ r.did = k.odid
        /\ r.odid = None /\ r.pos = k.pos /\ r.left = k.left
    <3>1. CASE k.queue \in NotDue
      BY <2>1, <2>4, <3>1
    <3>2. CASE k.queue \notin NotDue
      BY <2>1, <2>4, <3>2 DEF CardType, RestoreQueueFromType
    <3> QED
      BY <3>1, <3>2
  <2>8. r.queue = IF k.queue \in NotDue THEN k.queue ELSE RightQueue(k.ctype, k.odue)
    <3>1. CASE k.queue \in NotDue
      BY <2>4, <3>1
    <3>2. CASE k.queue \notin NotDue
      <4>1. r = [home EXCEPT !.queue = RightQueue(home.ctype, home.due)]
        BY <3>2 DEF RestoreQueueFromType, RightQueue
      <4> QED
        BY <2>1, <2>4, <3>2, <4>1 DEF CardType
    <3> QED
      BY <3>1, <3>2
  <2> HIDE DEF r
  <2>9. ~IsFiltered(r) /\ HomeDeck(r) = HomeDeck(k) /\ OriginalOrCurrentDue(r) = k.odue
    BY <2>2, <2>7 DEF IsFiltered, HomeDeck, OriginalOrCurrentDue
  <2>10. Housed(r, ds, gs)
    BY <2>2, <2>7, <2>9 DEF CardBase, Housed
  <2>11. LastPosition(r) = p
    BY <2>2, <2>7, <2>9 DEF CardBase, LastPosition
  <2>12. Columns(r, gs)
    <3>1. k.odue > 0 /\ (k.ctype \in {"New", "Review"} => k.odue \in 1..Epoch)
      BY <2>2 DEF CardBase, Columns
    <3>2. CASE k.queue \in NotDue
      BY <2>7, <2>8, <2>9, <3>1, <3>2 DEF Columns, NotDue, Buried
    <3>3. CASE k.queue \notin NotDue
      BY <2>2, <2>6, <2>7, <2>8, <2>9, <3>1, <3>3, Numbers DEF Columns, RightQueue, IsTimestamp
    <3> QED
      BY <3>2, <3>3
  <2>13. CardBase(r, p, ds, gs)
    BY <2>7, <2>10, <2>11, <2>12 DEF CardBase
  <2> QED
    BY <2>5, <2>7, <2>8, <2>9, <2>13
<1> QED
  BY <1>1, <1>2

LEMMA ReturnsHome ==
  ASSUME NEW k, NEW p, NEW ds \in SUBSET Decks, NEW fs, NEW gs, CardInv(k, p, ds, fs)
  PROVE  CardInv(RemoveRestoringQueue(k), p, ds, gs) /\ ~IsFiltered(RemoveRestoringQueue(k))
<1>1. CardBase(k, p, ds, fs) /\ StepsLeft(k)
  BY DEF CardInv
<1>2. /\ CardBase(RemoveRestoringQueue(k), p, ds, gs)
      /\ ~IsFiltered(RemoveRestoringQueue(k))
      /\ HomeDeck(RemoveRestoringQueue(k)) = HomeDeck(k)
      /\ RemoveRestoringQueue(k).ctype = k.ctype /\ RemoveRestoringQueue(k).left = k.left
  BY <1>1, ReturnsHomeBase
<1> QED
  BY <1>1, <1>2 DEF CardInv, StepsLeft

LEMMA MovesIn ==
  ASSUME NEW k, NEW p, NEW ds \in SUBSET Decks, NEW fs, NEW gs, NEW f \in FilteredDecks,
         NEW kind \in {"reschedule", "preview"},
         CardInv(k, p, ds, fs), ~IsFiltered(k), k.queue \notin NotDue, gs[f] = kind
  PROVE  LET m == MoveIntoFilteredDeck(k, f, kind) IN
         /\ CardInv(m, p, ds, gs)
         /\ IsFiltered(m) /\ m.did = f /\ m.ctype = k.ctype /\ m.odue = k.due
<1> DEFINE m == MoveIntoFilteredDeck(k, f, kind)
<1>1. k \in CardType /\ k.odue = 0 /\ k.did \in Decks /\ k.did # None /\ k.did \in ds
  BY CardLifeParameters DEF CardInv, CardBase, Housed, HomeDeck
<1>2. m = [k EXCEPT !.odid = k.did, !.did = f, !.odue = k.due,
                    !.queue = IF kind = "preview" THEN "Review" ELSE @,
                    !.due = IF @ > 0 THEN Front ELSE @]
  BY <1>1 DEF MoveIntoFilteredDeck
<1>3. m \in CardType
  BY <1>1, <1>2, Numbers DEF CardType
<1>4. /\ m.ctype = k.ctype /\ m.odue = k.due /\ m.did = f /\ m.odid = k.did
      /\ m.pos = k.pos /\ m.left = k.left
      /\ m.queue = IF kind = "preview" THEN "Review" ELSE k.queue
  BY <1>1, <1>2 DEF CardType
<1> HIDE DEF m
<1>5. IsFiltered(m) /\ HomeDeck(m) = HomeDeck(k) /\ OriginalOrCurrentDue(m) = OriginalOrCurrentDue(k)
  BY <1>1, <1>4 DEF IsFiltered, HomeDeck, OriginalOrCurrentDue
<1>6. Housed(m, ds, gs) /\ StepsLeft(m) /\ LastPosition(m) = LastPosition(k)
  BY <1>1, <1>4, <1>5 DEF CardInv, CardBase, Housed, StepsLeft, LastPosition, None
<1>7. Columns(m, gs)
  <2>1. CASE kind = "preview"
    <3>1. m.queue = "Review" /\ Previewed(m, gs)
      BY <1>4, <1>5, <2>1 DEF Previewed
    <3> QED
      BY <1>4, <1>5, <3>1 DEF CardInv, CardBase, Columns
  <2>2. CASE kind # "preview"
    <3>1. m.queue = k.queue /\ ~Previewed(k, fs)
      BY <1>4, <2>2 DEF Previewed
    <3> QED
      BY <1>4, <1>5, <3>1 DEF CardInv, CardBase, Columns
  <2> QED
    BY <2>1, <2>2
<1>8. CardInv(m, p, ds, gs)
  BY <1>3, <1>6, <1>7 DEF CardInv, CardBase
<1> QED
  BY <1>4, <1>5, <1>8 DEF m

LEMMA HomeFields ==
  ASSUME NEW k, NEW p, NEW ds, NEW fs, CardInv(k, p, ds, fs)
  PROVE  LET h == RemoveBeforeReschedule(k) IN
         /\ h \in CardType
         /\ h.did = HomeDeck(k) /\ h.odid = None /\ h.odue = 0
         /\ h.ctype = k.ctype /\ h.queue = k.queue /\ h.due = k.due /\ h.pos = k.pos /\ h.left = k.left
<1> DEFINE h == RemoveBeforeReschedule(k)
<1>1. k \in CardType /\ h \in CardType
  BY HomeType DEF CardInv, CardBase
<1>2. CASE IsFiltered(k)
  <2>1. h = [k EXCEPT !.did = k.odid, !.odid = None, !.odue = 0] /\ HomeDeck(k) = k.odid
    BY <1>2 DEF RemoveBeforeReschedule, HomeDeck
  <2> QED
    BY <1>1, <2>1 DEF CardType
<1>3. CASE ~IsFiltered(k)
  <2>1. h = k /\ HomeDeck(k) = k.did /\ k.odid = None /\ k.odue = 0
    BY <1>3 DEF RemoveBeforeReschedule, HomeDeck, IsFiltered, CardInv, CardBase, Housed
  <2> QED
    BY <1>1, <2>1
<1> QED
  BY <1>2, <1>3

(* A row in its home deck, by its columns.                                  *)
LEMMA HomeRow ==
  ASSUME NEW r \in CardType, NEW p \in 1..MaxPosition, NEW ds, NEW fs,
         r.did \in ds, r.odid = None, r.odue = 0,
         r.due > 0, r.ctype \in {"New", "Review"} => r.due \in 1..Epoch /\ r.queue \in {r.ctype} \cup NotDue,
         r.ctype \in {"Learn", "Relearn"} =>
             \/ r.queue = "Learn" /\ IsTimestamp(r.due)
             \/ r.queue = "DayLearn" /\ ~IsTimestamp(r.due)
             \/ r.queue \in NotDue,
         r.ctype = "Learn" => r.left <= Larger(1, Len(LearnSteps[r.did])),
         r.ctype = "Relearn" => r.left <= Larger(1, Len(RelearnSteps[r.did])),
         p = IF r.ctype = "New" THEN r.due ELSE r.pos
  PROVE  CardInv(r, p, ds, fs)
<1>1. ~IsFiltered(r) /\ HomeDeck(r) = r.did /\ OriginalOrCurrentDue(r) = r.due
  BY DEF IsFiltered, HomeDeck, OriginalOrCurrentDue
<1>2. Housed(r, ds, fs) /\ StepsLeft(r) /\ LastPosition(r) = p
  BY <1>1 DEF Housed, StepsLeft, LastPosition
<1>3. r.ctype \in {"New", "Learn", "Review", "Relearn"} /\ r.due \in Int
  BY DEF CardType
<1>4. Columns(r, fs)
  BY <1>1, <1>3, Numbers DEF Columns, NotDue, Buried, IsTimestamp
<1> QED
  BY <1>2, <1>4 DEF CardInv, CardBase

LEMMA BecomesNew ==
  ASSUME NEW k, NEW p, NEW ds, NEW fs, NEW position \in 1..MaxPosition, NEW restore \in BOOLEAN,
         CardInv(k, p, ds, fs)
  PROVE  CardInv(ScheduleAsNew(k, position, restore),
                 IF restore /\ LastPosition(k) # NoPosition THEN p ELSE position, ds, fs)
<1> DEFINE h == RemoveBeforeReschedule(k)
           q == IF restore /\ LastPosition(k) # NoPosition THEN p ELSE position
           r == [h EXCEPT !.due = q, !.ctype = "New", !.queue = "New", !.pos = NoPosition]
<1>1. p \in 1..MaxPosition /\ LastPosition(k) = p /\ HomeDeck(k) \in ds
  BY DEF CardInv, CardBase, Housed
<1>2. q \in 1..MaxPosition /\ q \in 1..Epoch /\ q \in Int /\ p # NoPosition
  BY <1>1, DuesApart, Numbers
<1>3. ScheduleAsNew(k, position, restore) = r
  BY <1>1, <1>2 DEF ScheduleAsNew
<1>4. h \in CardType /\ h.did = HomeDeck(k) /\ h.odid = None /\ h.odue = 0
  BY HomeFields
<1> HIDE DEF h, q
<1>5. r \in CardType
  BY <1>2, <1>4 DEF CardType
<1>6. /\ r.did = HomeDeck(k) /\ r.odid = None /\ r.odue = 0
      /\ r.ctype = "New" /\ r.queue = "New" /\ r.due = q
  BY <1>4 DEF CardType
<1> HIDE DEF r
<1>7. CardInv(r, q, ds, fs)
  BY <1>1, <1>2, <1>5, <1>6, HomeRow
<1> QED
  BY <1>3, <1>7 DEF q

LEMMA BecomesReview ==
  ASSUME NEW k, NEW p, NEW ds, NEW fs, NEW due \in 1..Epoch, CardInv(k, p, ds, fs)
  PROVE  CardInv(ScheduleAsReview(k, due), p, ds, fs)
<1> DEFINE m == [k EXCEPT !.pos = p]
           h == RemoveBeforeReschedule(m)
           r == [h EXCEPT !.due = due, !.ctype = "Review", !.queue = "Review"]
<1>1. p \in 1..MaxPosition /\ LastPosition(k) = p /\ HomeDeck(k) \in ds /\ k \in CardType
      /\ p \in Nat
  BY DuesApart, Numbers DEF CardInv, CardBase, Housed
<1>2. ScheduleAsReview(k, due) = r
  BY <1>1 DEF ScheduleAsReview
<1>3. /\ m \in CardType /\ m.pos = p /\ m.did = k.did /\ m.odid = k.odid /\ m.odue = k.odue
  BY <1>1 DEF CardType
<1> HIDE DEF m
<1>4. h \in CardType
  BY <1>3, HomeType
<1>5. h.did = HomeDeck(k) /\ h.odid = None /\ h.odue = 0 /\ h.pos = p
  <2>1. CASE IsFiltered(m)
    <3>1. h = [m EXCEPT !.did = m.odid, !.odid = None, !.odue = 0] /\ HomeDeck(k) = m.odid
      BY <1>3, <2>1 DEF RemoveBeforeReschedule, HomeDeck, IsFiltered
    <3> QED
      BY <1>3, <3>1 DEF CardType
  <2>2. CASE ~IsFiltered(m)
    BY <1>3, <2>2 DEF RemoveBeforeReschedule, HomeDeck, IsFiltered, CardInv, CardBase, Housed
  <2> QED
    BY <2>1, <2>2
<1> HIDE DEF h
<1>6. due \in Int
  BY Numbers
<1>7. r \in CardType
  BY <1>4, <1>6 DEF CardType
<1>8. /\ r.did = HomeDeck(k) /\ r.odid = None /\ r.odue = 0 /\ r.pos = p
      /\ r.ctype = "Review" /\ r.queue = "Review" /\ r.due = due
  BY <1>4, <1>5 DEF CardType
<1> HIDE DEF r
<1>9. CardInv(r, p, ds, fs)
  BY <1>1, <1>7, <1>8, HomeRow
<1> QED
  BY <1>2, <1>9

LEMMA Positioned ==
  ASSUME NEW k, NEW p, NEW ds, NEW fs, NEW position \in 1..MaxPosition,
         CardInv(k, p, ds, fs), k.ctype = "New"
  PROVE  /\ CardInv(SetNewPosition(k, position), position, ds, fs)
         /\ LastPosition(SetNewPosition(k, position)) = position
         /\ SetNewPosition(k, position).ctype = "New"
         /\ SetNewPosition(k, position).did = k.did /\ SetNewPosition(k, position).odid = k.odid
         /\ IsFiltered(k) => SetNewPosition(k, position).odue = position
<1> DEFINE r == SetNewPosition(k, position)
<1>1. k \in CardType /\ position \in Int /\ position \in 1..Epoch
  BY DuesApart, Numbers DEF CardInv, CardBase
<1>2. CASE IsFiltered(k)
  <2>1. r = [k EXCEPT !.odue = position]
    BY <1>2 DEF SetNewPosition
  <2>2. /\ r \in CardType
        /\ r.ctype = "New" /\ r.odue = position /\ r.did = k.did /\ r.odid = k.odid
        /\ r.queue = k.queue /\ r.due = k.due
    BY <1>1, <2>1 DEF CardType
  <2> HIDE DEF r
  <2>3. IsFiltered(r) /\ HomeDeck(r) = HomeDeck(k) /\ OriginalOrCurrentDue(r) = position
    BY <1>2, <2>2 DEF IsFiltered, HomeDeck, OriginalOrCurrentDue
  <2>4. Housed(r, ds, fs) /\ StepsLeft(r) /\ LastPosition(r) = position
    BY <1>2, <2>2, <2>3 DEF CardInv, CardBase, Housed, StepsLeft, LastPosition
  <2>5. Columns(r, fs)
    BY <1>1, <1>2, <2>2, <2>3 DEF CardInv, CardBase, Columns, Previewed
  <2>6. CardInv(r, position, ds, fs)
    BY <2>2, <2>4, <2>5 DEF CardInv, CardBase
  <2> QED
    BY <2>2, <2>4, <2>6 DEF r
<1>3. CASE ~IsFiltered(k)
  <2>1. r = [k EXCEPT !.due = position]
    BY <1>3 DEF SetNewPosition
  <2>2. /\ r \in CardType
        /\ r.ctype = "New" /\ r.due = position /\ r.did = k.did /\ r.odid = k.odid
        /\ r.queue = k.queue /\ r.odue = k.odue
    BY <1>1, <2>1 DEF CardType
  <2> HIDE DEF r
  <2>3. ~IsFiltered(r) /\ HomeDeck(r) = HomeDeck(k) /\ OriginalOrCurrentDue(r) = position
    BY <1>3, <2>2 DEF IsFiltered, HomeDeck, OriginalOrCurrentDue
  <2>4. Housed(r, ds, fs) /\ StepsLeft(r) /\ LastPosition(r) = position
    BY <1>3, <2>2, <2>3 DEF CardInv, CardBase, Housed, StepsLeft, LastPosition
  <2>5. Columns(r, fs)
    BY <1>1, <1>3, <2>2, <2>3 DEF CardInv, CardBase, Columns, Previewed
  <2>6. CardInv(r, position, ds, fs)
    BY <2>2, <2>4, <2>5 DEF CardInv, CardBase
  <2> QED
    BY <1>3, <2>2, <2>4, <2>6 DEF r
<1> QED
  BY <1>2, <1>3

-----------------------------------------------------------------------------
(* Moves between decks.                                                     *)

LEMMA RemainingBound ==
  ASSUME NEW left \in Nat, NEW new_steps \in Seq(Nat), NEW old_steps \in Seq(Nat)
  PROVE  /\ NewRemainingSteps(left, new_steps, old_steps) \in Nat
         /\ left <= Larger(1, Len(old_steps)) =>
              NewRemainingSteps(left, new_steps, old_steps) <= Larger(1, Len(new_steps))
<1> DEFINE passed == Len(old_steps) - left
           after == {j \in 1..Len(new_steps) : \A i \in j..Len(new_steps) :
                       passed >= 1 => new_steps[i] > old_steps[passed]}
<1>1. Len(new_steps) \in Nat
  OBVIOUS
<1>2. IsFiniteSet(1..Len(new_steps)) /\ Cardinality(1..Len(new_steps)) = Len(new_steps)
  <2> DEFINE n == Len(new_steps)
  <2>1. 1 \in Int /\ n \in Int /\ n \in Nat
    BY <1>1
  <2> HIDE DEF n
  <2>2. IsFiniteSet(1..n) /\ Cardinality(1..n) = IF 1 > n THEN 0 ELSE n - 1 + 1
    BY <2>1, FS_Interval, Zenon
  <2>3. (IF 1 > n THEN 0 ELSE n - 1 + 1) = n
    BY <2>1
  <2> QED
    BY <2>2, <2>3 DEF n
<1>3. after \subseteq 1..Len(new_steps)
  OBVIOUS
<1>4. Cardinality(after) \in Nat /\ Cardinality(after) <= Len(new_steps)
  BY <1>1, <1>2, <1>3, FS_Subset, FS_CardinalityType
<1>5. NewRemainingSteps(left, new_steps, old_steps) =
        IF old_steps = <<>> THEN left ELSE Larger(Cardinality(after), 1)
  BY DEF NewRemainingSteps
<1> HIDE DEF after
<1>6. old_steps = <<>> => Len(old_steps) = 0
  OBVIOUS
<1> QED
  BY <1>1, <1>4, <1>5, <1>6 DEF Larger

LEMMA Adjusted ==
  ASSUME NEW k, NEW p, NEW ds \in SUBSET Decks, NEW fs, NEW d \in ds, CardInv(k, p, ds, fs)
  PROVE  LET r == AdjustRemainingSteps(k, d) IN
         /\ CardBase(r, p, ds, fs)
         /\ r.ctype = "Learn" => r.left <= Larger(1, Len(LearnSteps[d]))
         /\ r.ctype = "Relearn" => r.left <= Larger(1, Len(RelearnSteps[d]))
<1>1. k \in CardType /\ HomeDeck(k) \in Decks /\ d \in Decks /\ k.left \in Nat
  BY DEF CardInv, CardBase, Housed, CardType
<1>2. /\ LearnSteps[d] \in Seq(Nat) /\ LearnSteps[HomeDeck(k)] \in Seq(Nat)
      /\ RelearnSteps[d] \in Seq(Nat) /\ RelearnSteps[HomeDeck(k)] \in Seq(Nat)
  BY <1>1, CardLifeParameters
<1>3. ASSUME NEW left \in Nat
      PROVE  CardBase([k EXCEPT !.left = left], p, ds, fs)
  <2> DEFINE r == [k EXCEPT !.left = left]
  <2>1. /\ r \in CardType
        /\ r.ctype = k.ctype /\ r.queue = k.queue /\ r.due = k.due /\ r.odue = k.odue
        /\ r.did = k.did /\ r.odid = k.odid /\ r.pos = k.pos
    BY <1>1 DEF CardType
  <2> HIDE DEF r
  <2>2. Housed(r, ds, fs) /\ LastPosition(r) = LastPosition(k)
    BY <2>1 DEF CardInv, CardBase, Housed, HomeDeck, IsFiltered, LastPosition, OriginalOrCurrentDue
  <2>3. Columns(r, fs)
    BY <2>1 DEF CardInv, CardBase, Columns, IsFiltered, Previewed, OriginalOrCurrentDue
  <2>4. CardBase(r, p, ds, fs)
    BY <2>1, <2>2, <2>3 DEF CardInv, CardBase
  <2> QED
    BY <2>4 DEF r
<1>4. CASE k.ctype = "Learn"
  <2> DEFINE left == NewRemainingSteps(k.left, LearnSteps[d], LearnSteps[HomeDeck(k)])
  <2>1. left \in Nat /\ left <= Larger(1, Len(LearnSteps[d]))
    BY <1>1, <1>2, <1>4, RemainingBound DEF CardInv, StepsLeft
  <2>2. AdjustRemainingSteps(k, d) = [k EXCEPT !.left = left]
    BY <1>4 DEF AdjustRemainingSteps
  <2> HIDE DEF left
  <2>3. [k EXCEPT !.left = left].ctype = "Learn" /\ [k EXCEPT !.left = left].left = left
    BY <1>1, <1>4 DEF CardType
  <2> QED
    BY <1>3, <2>1, <2>2, <2>3
<1>5. CASE k.ctype = "Relearn"
  <2> DEFINE left == NewRemainingSteps(k.left, RelearnSteps[d], RelearnSteps[HomeDeck(k)])
  <2>1. left \in Nat /\ left <= Larger(1, Len(RelearnSteps[d]))
    BY <1>1, <1>2, <1>5, RemainingBound DEF CardInv, StepsLeft
  <2>2. AdjustRemainingSteps(k, d) = [k EXCEPT !.left = left]
    BY <1>5 DEF AdjustRemainingSteps
  <2> HIDE DEF left
  <2>3. [k EXCEPT !.left = left].ctype = "Relearn" /\ [k EXCEPT !.left = left].left = left
    BY <1>1, <1>5 DEF CardType
  <2> QED
    BY <1>3, <2>1, <2>2, <2>3
<1>6. CASE k.ctype \notin {"Learn", "Relearn"}
  <2>1. AdjustRemainingSteps(k, d) = k
    BY <1>6 DEF AdjustRemainingSteps
  <2> QED
    BY <1>6, <2>1 DEF CardInv
<1> QED
  BY <1>4, <1>5, <1>6

LEMMA MovesDeck ==
  ASSUME NEW k, NEW p, NEW ds \in SUBSET Decks, NEW fs, NEW d \in ds, CardInv(k, p, ds, fs)
  PROVE  LET r == [RemoveRestoringQueue(AdjustRemainingSteps(k, d)) EXCEPT !.did = d]
         IN CardInv(r, p, ds, fs) /\ ~IsFiltered(r)
<1> DEFINE a == AdjustRemainingSteps(k, d)
           h == RemoveRestoringQueue(a)
           r == [h EXCEPT !.did = d]
<1>1. /\ CardBase(a, p, ds, fs)
      /\ a.ctype = "Learn" => a.left <= Larger(1, Len(LearnSteps[d]))
      /\ a.ctype = "Relearn" => a.left <= Larger(1, Len(RelearnSteps[d]))
  BY Adjusted
<1> HIDE DEF a
<1>2. /\ CardBase(h, p, ds, fs)
      /\ ~IsFiltered(h) /\ h.ctype = a.ctype /\ h.left = a.left
  BY <1>1, ReturnsHomeBase
<1> HIDE DEF h
<1>3. h \in CardType
  BY <1>2 DEF CardBase
<1>4. /\ r \in CardType
      /\ r.ctype = h.ctype /\ r.queue = h.queue /\ r.due = h.due /\ r.odue = h.odue
      /\ r.did = d /\ r.odid = h.odid /\ r.pos = h.pos /\ r.left = h.left
  BY <1>3 DEF CardType
<1> HIDE DEF r
<1>5. ~IsFiltered(r) /\ HomeDeck(r) = d
  BY <1>2, <1>4 DEF IsFiltered, HomeDeck
<1>6. Housed(r, ds, fs) /\ LastPosition(r) = p /\ StepsLeft(r)
  BY <1>1, <1>2, <1>4, <1>5
     DEF CardBase, Housed, LastPosition, OriginalOrCurrentDue, StepsLeft
<1>7. Columns(r, fs)
  BY <1>2, <1>4, <1>5 DEF CardBase, Columns, Previewed, OriginalOrCurrentDue
<1>8. CardInv(r, p, ds, fs)
  BY <1>2, <1>4, <1>6, <1>7 DEF CardInv, CardBase
<1> QED
  BY <1>5, <1>8 DEF r, h, a

-----------------------------------------------------------------------------
(* Answers.                                                                 *)

LEMMA SteppedBound ==
  ASSUME NEW ctype \in {"Learn", "Relearn"}, NEW rating \in Ratings, NEW left \in Nat, NEW n \in Nat,
         left <= Larger(1, n), NEW s \in Stepped(ctype, rating, left, n)
  PROVE  /\ s.ctype \in {ctype, "Review"} /\ s.left \in Nat
         /\ s.left <= Larger(1, n)
<1> DEFINE next == Larger(n - (StepIndex(n, left) + 1), 0)
<1>1. next \in Nat /\ next <= Larger(1, n) /\ n <= Larger(1, n) /\ 0 <= Larger(1, n)
  BY DEF StepIndex, Larger, Smaller
<1>2. rating \in {"Again", "Hard", "Good", "Easy"}
  BY DEF Ratings
<1> HIDE DEF next
<1>3. \E l \in {n, left, next, 0} :
        s = [ctype |-> ctype, left |-> l] \/ s = [ctype |-> "Review", left |-> 0]
  <2>1. CASE rating = "Again"
    <3>1. s \in IF n > 0 THEN {[ctype |-> ctype, left |-> n]}
                ELSE {[ctype |-> "Review", left |-> 0]} \cup
                       IF ShortTerm THEN {[ctype |-> ctype, left |-> n]} ELSE {}
      BY <2>1 DEF Stepped
    <3> QED
      BY <3>1
  <2>2. CASE rating = "Hard"
    <3>1. s \in IF n > 0 THEN {[ctype |-> ctype, left |-> left]}
                ELSE {[ctype |-> "Review", left |-> 0]} \cup
                       IF ShortTerm THEN {[ctype |-> ctype, left |-> left]} ELSE {}
      BY <2>2 DEF Stepped
    <3> QED
      BY <3>1
  <2>3. CASE rating = "Good"
    <3> DEFINE l == IF ctype = "Learn" THEN left ELSE next
    <3>1. s \in IF next > 0 THEN {[ctype |-> ctype, left |-> next]}
                ELSE {[ctype |-> "Review", left |-> 0]} \cup
                       IF ShortTerm THEN {[ctype |-> ctype, left |-> l]} ELSE {}
      BY <2>3 DEF Stepped, next
    <3>2. l \in {left, next}
      OBVIOUS
    <3> HIDE DEF l
    <3> QED
      BY <3>1, <3>2
  <2>4. CASE rating = "Easy"
    <3>1. s \in {[ctype |-> "Review", left |-> 0]}
      BY <2>4 DEF Stepped
    <3> QED
      BY <3>1
  <2> QED
    BY <1>2, <2>1, <2>2, <2>3, <2>4
<1> QED
  BY <1>1, <1>3

LEMMA NextStateBound ==
  ASSUME NEW k, NEW p, NEW ds \in SUBSET Decks, NEW fs, CardInv(k, p, ds, fs),
         NEW rating \in Ratings, NEW s \in NextStates(k, rating)
  PROVE  /\ s.ctype \in {"Learn", "Relearn", "Review"} /\ s.left \in Nat
         /\ s.ctype = "Learn" => s.left <= Larger(1, Len(LearnSteps[HomeDeck(k)]))
         /\ s.ctype = "Relearn" => s.left <= Larger(1, Len(RelearnSteps[HomeDeck(k)]))
<1> DEFINE learn == Len(LearnSteps[HomeDeck(k)])
           relearn == Len(RelearnSteps[HomeDeck(k)])
<1>1. /\ HomeDeck(k) \in Decks /\ k.left \in Nat
      /\ k.ctype \in {"New", "Learn", "Review", "Relearn"}
  BY DEF CardInv, CardBase, Housed, CardType
<1>2. learn \in Nat /\ relearn \in Nat
  BY <1>1, CardLifeParameters
<1>3. /\ k.ctype = "Learn" => k.left <= Larger(1, learn)
      /\ k.ctype = "Relearn" => k.left <= Larger(1, relearn)
      /\ learn <= Larger(1, learn) /\ 0 <= Larger(1, relearn)
  BY <1>2 DEF CardInv, StepsLeft, Larger
<1>4. NextStates(k, rating) =
        CASE k.ctype = "New"     -> Stepped("Learn", rating, learn, learn)
          [] k.ctype = "Learn"   -> Stepped("Learn", rating, k.left, learn)
          [] k.ctype = "Relearn" -> Stepped("Relearn", rating, k.left, relearn)
          [] k.ctype = "Review"  -> IF rating = "Again" THEN Stepped("Relearn", rating, 0, relearn)
                                    ELSE {[ctype |-> "Review", left |-> 0]}
  BY DEF NextStates
<1> HIDE DEF learn, relearn
<1>5. CASE k.ctype = "New"
  <2>1. s \in Stepped("Learn", rating, learn, learn)
    BY <1>4, <1>5
  <2>2. s.ctype \in {"Learn", "Review"} /\ s.left \in Nat /\ s.left <= Larger(1, learn)
    BY <1>2, <1>3, <2>1, SteppedBound
  <2> QED
    BY <2>2 DEF learn
<1>6. CASE k.ctype = "Learn"
  <2>1. s \in Stepped("Learn", rating, k.left, learn)
    BY <1>4, <1>6
  <2>2. s.ctype \in {"Learn", "Review"} /\ s.left \in Nat /\ s.left <= Larger(1, learn)
    BY <1>1, <1>2, <1>3, <1>6, <2>1, SteppedBound
  <2> QED
    BY <2>2 DEF learn
<1>7. CASE k.ctype = "Relearn"
  <2>1. s \in Stepped("Relearn", rating, k.left, relearn)
    BY <1>4, <1>7
  <2>2. s.ctype \in {"Relearn", "Review"} /\ s.left \in Nat /\ s.left <= Larger(1, relearn)
    BY <1>1, <1>2, <1>3, <1>7, <2>1, SteppedBound
  <2> QED
    BY <2>2 DEF relearn
<1>8. CASE k.ctype = "Review" /\ rating = "Again"
  <2>1. s \in Stepped("Relearn", rating, 0, relearn)
    BY <1>4, <1>8
  <2>2. s.ctype \in {"Relearn", "Review"} /\ s.left \in Nat /\ s.left <= Larger(1, relearn)
    BY <1>2, <1>3, <2>1, SteppedBound
  <2> QED
    BY <2>2 DEF relearn
<1>9. CASE k.ctype = "Review" /\ rating # "Again"
  BY <1>4, <1>9
<1> QED
  BY <1>1, <1>5, <1>6, <1>7, <1>8, <1>9

(* A new card is answered at the position it was given.                     *)
LEMMA PositionFound ==
  ASSUME NEW k, NEW p, NEW ds \in SUBSET Decks, NEW fs, CardInv(k, p, ds, fs), k.ctype = "New"
  PROVE  CurrentPosition(k) = p
<1>1. /\ k.did \in FilteredDecks <=> IsFiltered(k)
      /\ IsFiltered(k) => k.odue # 0
  BY CardLifeParameters
     DEF CardInv, CardBase, Housed, Columns, HomeDeck, IsFiltered, OriginalOrCurrentDue, CardType
<1>2. LastPosition(k) = p /\ p \in Int /\ p > 0 /\ LastPosition(k) = IF IsFiltered(k) THEN k.odue ELSE k.due
  BY DuesApart, Numbers DEF CardInv, CardBase, LastPosition, OriginalOrCurrentDue
<1> QED
  BY <1>1, <1>2 DEF CurrentPosition, Larger

LEMMA AnsweredRow ==
  ASSUME NEW h \in CardType, NEW from, NEW rating \in Ratings, NEW s,
         s.ctype \in {"Learn", "Relearn", "Review"}, s.left \in Nat,
         NEW p \in Nat, IF from.ctype = "New" THEN CurrentPosition(from) = p ELSE h.pos = p,
         today \in FirstDay..LastDay, NEW a \in NormalAnswer(h, from, s, rating)
  PROVE  /\ a \in CardType
         /\ a.did = h.did /\ a.odid = h.odid /\ a.odue = h.odue
         /\ a.ctype = s.ctype /\ a.left = s.left /\ a.pos = p /\ a.due > 0
         /\ s.ctype = "Review" => a.due \in 1..Epoch /\ a.queue \in {"Review", "Suspended"}
         /\ s.ctype # "Review" => \/ a.queue = "Learn" /\ IsTimestamp(a.due)
                                  \/ a.queue = "DayLearn" /\ ~IsTimestamp(a.due)
                                  \/ a.queue = "Suspended"
<1> DEFINE position == IF from.ctype = "New" THEN CurrentPosition(from) ELSE NoPosition
           base == [h EXCEPT !.ctype = s.ctype, !.left = s.left,
                             !.pos = IF position = NoPosition THEN @ ELSE position]
<1>1. base = [h EXCEPT !.ctype = s.ctype, !.left = s.left, !.pos = p]
  <2>1. h.pos \in Nat \cup {NoPosition} /\ p # NoPosition
    BY Numbers DEF CardType
  <2> QED
    BY <2>1 DEF CardType
<1>2. /\ base \in CardType
      /\ base.did = h.did /\ base.odid = h.odid /\ base.odue = h.odue
      /\ base.ctype = s.ctype /\ base.left = s.left /\ base.pos = p
  BY <1>1 DEF CardType
<1> HIDE DEF base
<1>3. \A i \in Intervals : today + i \in 1..Epoch /\ today + i \in Int /\ ~IsTimestamp(today + i)
  BY DuesApart, Numbers DEF IsTimestamp
<1>4. Now \in Int /\ Now > 0 /\ IsTimestamp(Now)
  BY Numbers DEF IsTimestamp
<1>5. \A b \in Scheduled(h, s, position) :
        \E due \in Int, queue \in {"Review", "Learn", "DayLearn"} :
          /\ b = [base EXCEPT !.queue = queue, !.due = due] /\ due > 0
          /\ s.ctype = "Review" => queue = "Review" /\ due \in 1..Epoch
          /\ s.ctype # "Review" => \/ queue = "Learn" /\ IsTimestamp(due)
                                   \/ queue = "DayLearn" /\ ~IsTimestamp(due)
  <2> DEFINE later(queue) == {[base EXCEPT !.queue = queue, !.due = today + i] : i \in Intervals}
  <2>1. Scheduled(h, s, position) =
          IF s.ctype = "Review" THEN later("Review")
          ELSE {[base EXCEPT !.queue = "Learn", !.due = Now]} \cup later("DayLearn")
    BY DEF Scheduled, base
  <2> SUFFICES ASSUME NEW b \in Scheduled(h, s, position)
               PROVE  \E due \in Int, queue \in {"Review", "Learn", "DayLearn"} :
                        /\ b = [base EXCEPT !.queue = queue, !.due = due] /\ due > 0
                        /\ s.ctype = "Review" => queue = "Review" /\ due \in 1..Epoch
                        /\ s.ctype # "Review" => \/ queue = "Learn" /\ IsTimestamp(due)
                                                 \/ queue = "DayLearn" /\ ~IsTimestamp(due)
    OBVIOUS
  <2>2. CASE s.ctype = "Review"
    <3>1. PICK i \in Intervals : b = [base EXCEPT !.queue = "Review", !.due = today + i]
      BY <2>1, <2>2
    <3>2. today + i \in 1..Epoch /\ today + i > 0 /\ today + i \in Int /\ ~IsTimestamp(today + i)
      BY <1>3, Numbers
    <3> USE <3>2
    <3> WITNESS today + i \in Int, "Review" \in {"Review", "Learn", "DayLearn"}
    <3> QED
      BY <2>2, <3>1, <3>2
  <2>3. CASE s.ctype # "Review" /\ b \in later("DayLearn")
    <3>1. PICK i \in Intervals : b = [base EXCEPT !.queue = "DayLearn", !.due = today + i]
      BY <2>3
    <3>2. today + i \in 1..Epoch /\ today + i > 0 /\ today + i \in Int /\ ~IsTimestamp(today + i)
      BY <1>3, Numbers
    <3> USE <3>2
    <3> WITNESS today + i \in Int, "DayLearn" \in {"Review", "Learn", "DayLearn"}
    <3> QED
      BY <2>3, <3>1, <3>2
  <2>4. CASE s.ctype # "Review" /\ b = [base EXCEPT !.queue = "Learn", !.due = Now]
    BY <1>4, <2>4
  <2> QED
    BY <2>1, <2>2, <2>3, <2>4
<1>6. PICK due \in Int, queue \in {"Review", "Learn", "DayLearn"},
           q \in {"Review", "Learn", "DayLearn", "Suspended"} :
        /\ a = [base EXCEPT !.queue = q, !.due = due] /\ due > 0 /\ q \in {queue, "Suspended"}
        /\ s.ctype = "Review" => queue = "Review" /\ due \in 1..Epoch
        /\ s.ctype # "Review" => \/ queue = "Learn" /\ IsTimestamp(due)
                                 \/ queue = "DayLearn" /\ ~IsTimestamp(due)
  <2>1. PICK b \in Scheduled(h, s, position) : a = b \/ a = [b EXCEPT !.queue = "Suspended"]
    BY DEF NormalAnswer
  <2>2. PICK due \in Int, queue \in {"Review", "Learn", "DayLearn"} :
          /\ b = [base EXCEPT !.queue = queue, !.due = due] /\ due > 0
          /\ s.ctype = "Review" => queue = "Review" /\ due \in 1..Epoch
          /\ s.ctype # "Review" => \/ queue = "Learn" /\ IsTimestamp(due)
                                   \/ queue = "DayLearn" /\ ~IsTimestamp(due)
    BY <1>5
  <2>3. CASE a = b
    BY <2>2, <2>3
  <2>4. CASE a = [b EXCEPT !.queue = "Suspended"]
    <3>1. a = [base EXCEPT !.queue = "Suspended", !.due = due]
      BY <1>2, <2>2, <2>4 DEF CardType
    <3> QED
      BY <2>2, <3>1
  <2> QED
    BY <2>1, <2>3, <2>4
<1>7. /\ a \in CardType
      /\ a.did = base.did /\ a.odid = base.odid /\ a.odue = base.odue /\ a.ctype = base.ctype
      /\ a.left = base.left /\ a.pos = base.pos /\ a.due = due /\ a.queue = q
  BY <1>2, <1>6 DEF CardType, NotDue
<1> QED
  BY <1>2, <1>6, <1>7

(* An answer in the home deck, or one that takes the card back to it.       *)
LEMMA AnsweredAtHome ==
  ASSUME NEW k, NEW p, NEW ds \in SUBSET Decks, NEW fs, NEW rating \in Ratings, CardInv(k, p, ds, fs),
         today \in FirstDay..LastDay, NEW s \in NextStates(k, rating),
         NEW a \in NormalAnswer(RemoveBeforeReschedule(k), k, s, rating)
  PROVE  CardInv(a, p, ds, fs)
<1> DEFINE h == RemoveBeforeReschedule(k)
<1>1. /\ h \in CardType /\ h.did = HomeDeck(k) /\ h.odid = None /\ h.odue = 0 /\ h.pos = k.pos
  BY HomeFields
<1>2. p \in 1..MaxPosition /\ p \in Nat /\ HomeDeck(k) \in ds /\ LastPosition(k) = p
  BY DuesApart, Numbers DEF CardInv, CardBase, Housed
<1>3. IF k.ctype = "New" THEN CurrentPosition(k) = p ELSE h.pos = p
  BY <1>1, <1>2, PositionFound DEF LastPosition
<1>4. /\ s.ctype \in {"Learn", "Relearn", "Review"} /\ s.left \in Nat
      /\ s.ctype = "Learn" => s.left <= Larger(1, Len(LearnSteps[HomeDeck(k)]))
      /\ s.ctype = "Relearn" => s.left <= Larger(1, Len(RelearnSteps[HomeDeck(k)]))
  BY NextStateBound
<1> HIDE DEF h
<1>5. a \in NormalAnswer(h, k, s, rating)
  BY DEF h
<1>6. /\ a \in CardType
      /\ a.did = h.did /\ a.odid = h.odid /\ a.odue = h.odue
      /\ a.ctype = s.ctype /\ a.left = s.left /\ a.pos = p /\ a.due > 0
      /\ s.ctype = "Review" => a.due \in 1..Epoch /\ a.queue \in {"Review", "Suspended"}
      /\ s.ctype # "Review" => \/ a.queue = "Learn" /\ IsTimestamp(a.due)
                               \/ a.queue = "DayLearn" /\ ~IsTimestamp(a.due)
                               \/ a.queue = "Suspended"
  BY <1>1, <1>2, <1>3, <1>4, <1>5, AnsweredRow
<1>7. /\ a.did \in ds /\ a.odid = None /\ a.odue = 0
      /\ a.ctype \in {"New", "Review"} => a.due \in 1..Epoch /\ a.queue \in {a.ctype} \cup NotDue
      /\ a.ctype \in {"Learn", "Relearn"} => \/ a.queue = "Learn" /\ IsTimestamp(a.due)
                                             \/ a.queue = "DayLearn" /\ ~IsTimestamp(a.due)
                                             \/ a.queue \in NotDue
      /\ a.ctype = "Learn" => a.left <= Larger(1, Len(LearnSteps[a.did]))
      /\ a.ctype = "Relearn" => a.left <= Larger(1, Len(RelearnSteps[a.did]))
      /\ p = IF a.ctype = "New" THEN a.due ELSE a.pos
  BY <1>1, <1>2, <1>4, <1>6 DEF NotDue
<1> QED
  BY <1>2, <1>6, <1>7, HomeRow

(* A learning answer in a filtered deck that reschedules: the card stays.   *)
LEMMA AnsweredAway ==
  ASSUME NEW k, NEW p, NEW ds \in SUBSET Decks, NEW fs, NEW rating \in Ratings, CardInv(k, p, ds, fs),
         IsFiltered(k), today \in FirstDay..LastDay,
         NEW s \in NextStates(k, rating), s.ctype # "Review",
         NEW b \in NormalAnswer(k, k, s, rating)
  PROVE  CardInv([b EXCEPT !.odue = b.due], p, ds, fs)
<1> DEFINE a == [b EXCEPT !.odue = b.due]
<1>1. k \in CardType
  BY DEF CardInv, CardBase
<1>2. p \in 1..MaxPosition /\ p \in Nat /\ HomeDeck(k) \in ds /\ LastPosition(k) = p
  BY DuesApart, Numbers DEF CardInv, CardBase, Housed
<1>3. IF k.ctype = "New" THEN CurrentPosition(k) = p ELSE k.pos = p
  BY <1>2, PositionFound DEF LastPosition
<1>4. /\ s.ctype \in {"Learn", "Relearn"} /\ s.left \in Nat
      /\ s.ctype = "Learn" => s.left <= Larger(1, Len(LearnSteps[HomeDeck(k)]))
      /\ s.ctype = "Relearn" => s.left <= Larger(1, Len(RelearnSteps[HomeDeck(k)]))
  BY NextStateBound
<1>5. /\ b \in CardType
      /\ b.did = k.did /\ b.odid = k.odid
      /\ b.ctype = s.ctype /\ b.left = s.left /\ b.pos = p /\ b.due > 0
      /\ b.queue \in {"Learn", "DayLearn", "Suspended"}
  BY <1>1, <1>2, <1>3, <1>4, AnsweredRow
<1>6. /\ a \in CardType
      /\ a.did = k.did /\ a.odid = k.odid /\ a.odue = b.due
      /\ a.ctype = s.ctype /\ a.left = s.left /\ a.pos = p
      /\ a.queue \in {"Learn", "DayLearn", "Suspended"}
  BY <1>5 DEF CardType
<1> HIDE DEF a
<1>7. IsFiltered(a) /\ HomeDeck(a) = HomeDeck(k) /\ OriginalOrCurrentDue(a) > 0
  BY <1>5, <1>6 DEF IsFiltered, HomeDeck, OriginalOrCurrentDue
<1>8. Housed(a, ds, fs) /\ LastPosition(a) = p /\ StepsLeft(a)
  BY <1>4, <1>6, <1>7 DEF CardInv, CardBase, Housed, LastPosition, StepsLeft
<1>9. Columns(a, fs)
  BY <1>4, <1>6, <1>7 DEF Columns
<1>10. CardInv(a, p, ds, fs)
  BY <1>2, <1>6, <1>8, <1>9 DEF CardInv, CardBase
<1> QED
  BY <1>10 DEF a

LEMMA AnsweredInPreview ==
  ASSUME NEW k, NEW p, NEW ds \in SUBSET Decks, NEW fs, NEW rating \in Ratings, CardInv(k, p, ds, fs),
         Previewed(k, fs)
  PROVE  CardInv(PreviewAnswer(k, rating), p, ds, fs)
<1>1. CASE rating \in Finishing
  BY <1>1, ReturnsHome DEF PreviewAnswer
<1>2. CASE rating \notin Finishing
  <2> DEFINE a == [k EXCEPT !.queue = "PreviewRepeat", !.due = Now]
  <2>1. k \in CardType /\ Now \in Int
    BY Numbers DEF CardInv, CardBase
  <2>2. /\ a \in CardType
        /\ a.ctype = k.ctype /\ a.queue = "PreviewRepeat" /\ a.odue = k.odue
        /\ a.did = k.did /\ a.odid = k.odid /\ a.pos = k.pos /\ a.left = k.left
    BY <2>1 DEF CardType
  <2> HIDE DEF a
  <2>3. /\ IsFiltered(a) /\ Previewed(a, fs)
        /\ HomeDeck(a) = HomeDeck(k) /\ OriginalOrCurrentDue(a) = OriginalOrCurrentDue(k)
    BY <2>2 DEF IsFiltered, Previewed, HomeDeck, OriginalOrCurrentDue
  <2>4. Housed(a, ds, fs) /\ LastPosition(a) = p /\ StepsLeft(a)
    BY <2>2, <2>3 DEF CardInv, CardBase, Housed, LastPosition, StepsLeft, Previewed
  <2>5. Columns(a, fs)
    BY <2>2, <2>3 DEF CardInv, CardBase, Columns
  <2>6. CardInv(a, p, ds, fs)
    BY <2>2, <2>4, <2>5 DEF CardInv, CardBase
  <2> QED
    BY <1>2, <2>6 DEF PreviewAnswer, a
<1> QED
  BY <1>1, <1>2

LEMMA InNormalDeck ==
  ASSUME NEW k, NEW p, NEW ds \in SUBSET Decks, NEW fs, CardBase(k, p, ds, fs)
  PROVE  k.did \in Decks <=> ~IsFiltered(k)
BY CardLifeParameters DEF CardBase, Housed, HomeDeck, IsFiltered, CardType

LEMMA Answered ==
  ASSUME NEW k, NEW p, NEW ds \in SUBSET Decks, NEW rating \in Ratings, CardInv(k, p, ds, filtered),
         today \in FirstDay..LastDay, NEW a \in AnswerOutcomes(k, rating)
  PROVE  CardInv(a, p, ds, filtered)
<1>1. k.did \in Decks <=> ~IsFiltered(k)
  BY InNormalDeck DEF CardInv
<1>2. CASE ~IsFiltered(k)
  <2>1. PICK s \in NextStates(k, rating) : a \in NormalAnswer(k, k, s, rating)
    BY <1>1, <1>2 DEF AnswerOutcomes
  <2>2. RemoveBeforeReschedule(k) = k
    BY <1>2 DEF RemoveBeforeReschedule
  <2> QED
    BY <2>1, <2>2, AnsweredAtHome
<1>3. CASE IsFiltered(k) /\ filtered[k.did] = "preview"
  <2>1. a = PreviewAnswer(k, rating)
    BY <1>1, <1>3 DEF AnswerOutcomes
  <2> QED
    BY <1>3, <2>1, AnsweredInPreview DEF Previewed
<1>4. CASE IsFiltered(k) /\ filtered[k.did] # "preview"
  <2>1. PICK s \in NextStates(k, rating) :
          a \in IF s.ctype = "Review" THEN NormalAnswer(RemoveBeforeReschedule(k), k, s, rating)
                ELSE {[b EXCEPT !.odue = b.due] : b \in NormalAnswer(k, k, s, rating)}
    BY <1>1, <1>4 DEF AnswerOutcomes
  <2>2. CASE s.ctype = "Review"
    BY <2>1, <2>2, AnsweredAtHome
  <2>3. CASE s.ctype # "Review"
    <3>1. PICK b \in NormalAnswer(k, k, s, rating) : a = [b EXCEPT !.odue = b.due]
      BY <2>1, <2>3
    <3> QED
      BY <1>4, <2>3, <3>1, AnsweredAway
  <2> QED
    BY <2>2, <2>3
<1> QED
  BY <1>2, <1>3, <1>4

-----------------------------------------------------------------------------
(* The invariant.                                                           *)

Inv ==
    /\ card \in [Cards -> CardType \cup {NoCard}]
    /\ filtered \in [FilteredDecks -> Kinds]
    /\ decks \in SUBSET Decks /\ Home \in decks
    /\ today \in FirstDay..LastDay
    /\ place \in [Cards -> Nat]
    /\ \A c \in Existing : CardInv(card[c], place[c], decks, filtered)

(* What a card in a deck of previews came as is what it would return as.    *)
CameAs ==
    /\ came \in [Cards -> CardType \cup {NoCard}]
    /\ \A c \in Existing : Previewed(card[c], filtered) =>
         /\ came[c].ctype = card[c].ctype /\ came[c].due = card[c].odue
         /\ came[c].queue = RightQueue(card[c].ctype, card[c].odue)

(* Decks may go and filtered decks may change around a card.                *)
LEMMA ElsewhereChanged ==
  ASSUME NEW k, NEW p, NEW ds, NEW fs, NEW es, NEW gs, CardInv(k, p, ds, fs),
         HomeDeck(k) \in es, IsFiltered(k) => gs[k.did] = fs[k.did]
  PROVE  CardInv(k, p, es, gs)
BY DEF CardInv, CardBase, Housed, Columns, Previewed

(* A step that only touches one card.                                       *)
LEMMA OneCard ==
  ASSUME Inv, NEW c \in Existing, NEW x, NEW q, CardInv(x, q, decks, filtered),
         card' = [card EXCEPT ![c] = x], place' = [place EXCEPT ![c] = q], UNCHANGED Schedule
  PROVE  Inv'
<1>1. c \in Cards /\ x \in CardType /\ q \in Nat
  BY DuesApart, Numbers DEF Existing, CardInv, CardBase
<1>2. /\ filtered' = filtered /\ decks' = decks /\ today' = today
  BY DEF Schedule
<1>3. card' \in [Cards -> CardType \cup {NoCard}] /\ place' \in [Cards -> Nat]
  BY <1>1 DEF Inv
<1>4. ASSUME NEW s \in Existing'
      PROVE  CardInv(card'[s], place'[s], decks', filtered')
  <2>1. CASE s = c
    BY <1>1, <1>2, <2>1 DEF Inv
  <2>2. CASE s # c
    BY <1>1, <1>2, <1>4, <2>2 DEF Inv, Existing
  <2> QED
    BY <2>1, <2>2
<1> QED
  BY <1>2, <1>3, <1>4 DEF Inv

LEMMA OneCardInPlace ==
  ASSUME Inv, NEW c \in Existing, NEW x, CardInv(x, place[c], decks, filtered),
         card' = [card EXCEPT ![c] = x], UNCHANGED <<Schedule, place>>
  PROVE  Inv'
<1>1. place' = [place EXCEPT ![c] = place[c]] /\ UNCHANGED Schedule
  BY DEF Inv
<1> QED
  BY <1>1, OneCard

LEMMA InitInv == Init => Inv /\ CameAs
<1> SUFFICES ASSUME Init PROVE Inv /\ CameAs
  OBVIOUS
<1>1. ASSUME NEW q \in Positions
      PROVE  NewCard(q) \in CardType /\ CardInv(NewCard(q), q, decks, filtered) /\ q \in Nat
  <2>1. q \in 1..MaxPosition /\ q \in Int /\ q \in Nat /\ q > 0 /\ q \in 1..Epoch
    BY DuesApart, Numbers
  <2> DEFINE r == NewCard(q)
  <2>2. /\ r \in CardType
        /\ r.ctype = "New" /\ r.queue = "New" /\ r.due = q /\ r.did = Home
        /\ r.odue = 0 /\ r.odid = None
    BY <2>1, CardLifeParameters DEF NewCard, CardType
  <2> HIDE DEF r
  <2>3. r.did \in decks
    BY <2>2, CardLifeParameters DEF Init
  <2>4. CardInv(r, q, decks, filtered)
    BY <2>1, <2>2, <2>3, HomeRow
  <2> QED
    BY <2>1, <2>2, <2>4 DEF r
<1>2. ASSUME NEW c \in Cards
      PROVE  /\ card[c] \in CardType \cup {NoCard} /\ place[c] \in Nat
             /\ c \in Existing => CardInv(card[c], place[c], decks, filtered) /\ ~IsFiltered(card[c])
  <2>1. /\ card[c] \in {NewCard(q) : q \in Positions} \cup {NoCard}
        /\ place[c] = IF card[c] = NoCard THEN 0 ELSE card[c].due
    BY DEF Init
  <2>2. CASE card[c] = NoCard
    BY <2>1, <2>2 DEF Existing
  <2>3. CASE card[c] # NoCard
    <3>1. PICK q \in Positions : card[c] = NewCard(q)
      BY <2>1, <2>3
    <3>2. place[c] = q /\ ~IsFiltered(card[c])
      BY <2>1, <2>3, <3>1 DEF NewCard, IsFiltered
    <3> QED
      BY <1>1, <3>1, <3>2
  <2> QED
    BY <2>2, <2>3
<1>3. card \in [Cards -> CardType \cup {NoCard}] /\ place \in [Cards -> Nat]
  BY <1>2 DEF Init
<1>4. filtered \in [FilteredDecks -> Kinds] /\ decks = Decks /\ Home \in decks
  BY CardLifeParameters DEF Init, Kinds
<1>5. today \in FirstDay..LastDay
  BY DuesApart DEF Init
<1>6. CameAs
  <2>1. came \in [Cards -> CardType \cup {NoCard}]
    BY DEF Init
  <2> QED
    BY <1>2, <2>1 DEF CameAs, Existing, Previewed
<1> QED
  BY <1>2, <1>3, <1>4, <1>5, <1>6 DEF Inv, Existing

(* A step that leaves the days and every position alone.                    *)
LEMMA EachCard ==
  ASSUME Inv, card' \in [Cards -> CardType \cup {NoCard}], filtered' \in [FilteredDecks -> Kinds],
         decks' \in SUBSET Decks, Home \in decks', today' \in FirstDay..LastDay, place' = place,
         \A c \in Cards : card'[c] # NoCard => CardInv(card'[c], place[c], decks', filtered')
  PROVE  Inv'
BY DEF Inv, Existing

LEMMA InvFacts ==
  ASSUME Inv, NEW c \in Cards
  PROVE  /\ card[c] \in CardType \cup {NoCard}
         /\ card[c] # NoCard => /\ c \in Existing /\ card[c] \in CardType
                                /\ CardInv(card[c], place[c], decks, filtered)
BY DEF Inv, Existing, CardInv, CardBase

LEMMA AnswerKeeps ==
  ASSUME Inv, NEW c \in Existing, NEW rating \in Ratings, Answer(c, rating)
  PROVE  Inv'
<1>1. PICK k \in AnswerOutcomes(card[c], rating) :
        card' = [s \in Cards |-> IF s = c THEN k
                                 ELSE IF SiblingBuried(c, s)
                                 THEN [card[s] EXCEPT !.queue = "SchedBuried"]
                                 ELSE card[s]]
  BY DEF Answer
<1>2. CardInv(k, place[c], decks, filtered)
  BY <1>1, Answered DEF Inv
<1>3. ASSUME NEW s \in Cards
      PROVE  /\ card'[s] \in CardType \cup {NoCard}
             /\ card'[s] # NoCard => CardInv(card'[s], place[s], decks, filtered)
  <2>1. CASE s = c
    BY <1>1, <1>2, <2>1 DEF CardInv, CardBase
  <2>2. CASE s # c /\ SiblingBuried(c, s)
    <3>1. s \in Existing /\ card'[s] = [card[s] EXCEPT !.queue = "SchedBuried"]
      BY <1>1, <2>2 DEF SiblingBuried
    <3>2. CardInv(card'[s], place[s], decks, filtered)
      <4>1. CardInv(card[s], place[s], decks, filtered) /\ "SchedBuried" \in NotDue
        BY <3>1 DEF Inv, NotDue, Buried
      <4> QED
        BY <3>1, <4>1, SetAside
    <3> QED
      BY <3>2 DEF CardInv, CardBase
  <2>3. CASE s # c /\ ~SiblingBuried(c, s)
    <3>1. card'[s] = card[s]
      BY <1>1, <2>3
    <3> QED
      BY <3>1, InvFacts
  <2> QED
    BY <2>1, <2>2, <2>3
<1>4. /\ filtered' = filtered /\ decks' = decks /\ today' = today /\ place' = place
      /\ card' \in [Cards -> CardType \cup {NoCard}]
  BY <1>1, <1>3 DEF Answer
<1> QED
  BY <1>3, <1>4, EachCard DEF Inv

LEMMA OnOneCardKeeps ==
  ASSUME Inv, NEW c \in Existing,
         \/ \E rating \in Ratings : Answer(c, rating)
         \/ \E queue \in ByUser : BuryOrSuspend(c, queue)
         \/ UnburyOrUnsuspend(c)
         \/ \E p \in Positions, restore \in BOOLEAN : Forget(c, p, restore)
         \/ \E days \in DueDays : SetDueDate(c, days)
         \/ \E p \in Positions : Reposition(c, p)
         \/ \E d \in Decks : SetDeck(c, d)
  PROVE  Inv'
<1> DEFINE k == card[c]
<1>1. CardInv(k, place[c], decks, filtered) /\ decks \in SUBSET Decks /\ today \in FirstDay..LastDay
  BY DEF Inv
<1>2. CASE \E rating \in Ratings : Answer(c, rating)
  BY <1>2, AnswerKeeps
<1>3. ASSUME NEW queue \in ByUser, BuryOrSuspend(c, queue) PROVE Inv'
  <2> DEFINE r == [k EXCEPT !.queue = queue]
  <2>1. queue \in NotDue
    BY CardLifeParameters DEF NotDue, Buried
  <2>2. CardInv(r, place[c], decks, filtered)
    BY <1>1, <2>1, SetAside
  <2>3. card' = [card EXCEPT ![c] = r] /\ UNCHANGED <<Schedule, place>>
    BY <1>3 DEF BuryOrSuspend
  <2> HIDE DEF r
  <2> QED
    BY <2>2, <2>3, OneCardInPlace
<1>4. ASSUME UnburyOrUnsuspend(c) PROVE Inv'
  <2>1. CardInv(RestoreQueueFromType(k), place[c], decks, filtered)
    BY <1>1, Restored
  <2>2. card' = [card EXCEPT ![c] = RestoreQueueFromType(k)] /\ UNCHANGED <<Schedule, place>>
    BY <1>4 DEF UnburyOrUnsuspend
  <2> QED
    BY <2>1, <2>2, OneCardInPlace
<1>5. ASSUME NEW p \in Positions, NEW restore \in BOOLEAN, Forget(c, p, restore) PROVE Inv'
  <2> DEFINE q == IF restore /\ LastPosition(k) # NoPosition THEN place[c] ELSE p
  <2>1. CardInv(ScheduleAsNew(k, p, restore), q, decks, filtered)
    BY <1>1, BecomesNew, DuesApart
  <2>2. /\ card' = [card EXCEPT ![c] = ScheduleAsNew(k, p, restore)]
        /\ place' = [place EXCEPT ![c] = q] /\ UNCHANGED Schedule
    BY <1>5 DEF Forget
  <2> HIDE DEF q
  <2> QED
    BY <2>1, <2>2, OneCard
<1>6. ASSUME NEW days \in DueDays, SetDueDate(c, days) PROVE Inv'
  <2>1. today + days \in 1..Epoch
    BY <1>1, DuesApart, Numbers
  <2>2. CardInv(ScheduleAsReview(k, today + days), place[c], decks, filtered)
    BY <1>1, <2>1, BecomesReview
  <2>3. card' = [card EXCEPT ![c] = ScheduleAsReview(k, today + days)] /\ UNCHANGED <<Schedule, place>>
    BY <1>6 DEF SetDueDate
  <2> QED
    BY <2>2, <2>3, OneCardInPlace
<1>7. ASSUME NEW p \in Positions, Reposition(c, p) PROVE Inv'
  <2>1. CardInv(SetNewPosition(k, p), p, decks, filtered)
    BY <1>1, <1>7, Positioned, DuesApart DEF Reposition
  <2>2. card' = [card EXCEPT ![c] = SetNewPosition(k, p)] /\ place' = [place EXCEPT ![c] = p]
        /\ UNCHANGED Schedule
    BY <1>7 DEF Reposition
  <2> QED
    BY <2>1, <2>2, OneCard
<1>8. ASSUME NEW d \in Decks, SetDeck(c, d) PROVE Inv'
  <2> DEFINE r == [RemoveRestoringQueue(AdjustRemainingSteps(k, d)) EXCEPT !.did = d]
  <2>1. d \in decks
    BY <1>8 DEF SetDeck
  <2>2. CardInv(r, place[c], decks, filtered)
    BY <1>1, <2>1, MovesDeck
  <2>3. card' = [card EXCEPT ![c] = r] /\ UNCHANGED <<Schedule, place>>
    BY <1>8 DEF SetDeck
  <2> HIDE DEF r
  <2> QED
    BY <2>2, <2>3, OneCardInPlace
<1> QED
  BY <1>2, <1>3, <1>4, <1>5, <1>6, <1>7, <1>8

(* Cards keep what holds of them when a filtered deck gives its cards back, *)
(* whatever becomes of that deck.                                           *)
LEMMA ReturnedKept ==
  ASSUME Inv, NEW f \in FilteredDecks, NEW kind \in Kinds,
         NEW gs, gs = [filtered EXCEPT ![f] = kind], NEW c \in Cards
  PROVE  /\ Returned(f)[c] \in CardType \cup {NoCard}
         /\ Returned(f)[c] # NoCard => CardInv(Returned(f)[c], place[c], decks, gs)
<1>1. decks \in SUBSET Decks
  BY DEF Inv
<1>2. CASE c \in CardsForDeck(f)
  <2>1. c \in Existing /\ Returned(f)[c] = RemoveRestoringQueue(card[c])
    BY <1>2 DEF CardsForDeck, Returned
  <2>2. CardInv(card[c], place[c], decks, filtered)
    BY <2>1 DEF Inv
  <2>3. CardInv(Returned(f)[c], place[c], decks, gs)
    BY <1>1, <2>1, <2>2, ReturnsHome
  <2> QED
    BY <2>3 DEF CardInv, CardBase
<1>3. CASE c \notin CardsForDeck(f)
  <2>1. Returned(f)[c] = card[c]
    BY <1>3 DEF Returned
  <2>2. CASE card[c] = NoCard
    BY <2>1, <2>2
  <2>3. CASE card[c] # NoCard
    <3>1. /\ c \in Existing /\ card[c] \in CardType
          /\ CardInv(card[c], place[c], decks, filtered)
      BY <2>3, InvFacts
    <3>2. card[c].did # f /\ HomeDeck(card[c]) \in decks
          /\ (IsFiltered(card[c]) => card[c].did \in FilteredDecks)
      BY <1>3, <3>1 DEF CardsForDeck, CardInv, CardBase, Housed
    <3>3. IsFiltered(card[c]) => gs[card[c].did] = filtered[card[c].did]
      BY <3>2 DEF Inv
    <3> QED
      BY <2>1, <3>1, <3>2, <3>3, ElsewhereChanged
  <2> QED
    BY <2>2, <2>3
<1> QED
  BY <1>2, <1>3

LEMMA FilteredDeckKeeps ==
  ASSUME Inv, NEW f \in FilteredDecks,
         \/ \E kind \in {"reschedule", "preview"}, matched \in SUBSET Cards :
              BuildFilteredDeck(f, kind, matched)
         \/ EmptyFilteredDeck(f) \/ RemoveFilteredDeck(f)
  PROVE  Inv'
<1>1. ASSUME NEW kind \in {"reschedule", "preview"}, NEW matched \in SUBSET Cards,
             BuildFilteredDeck(f, kind, matched)
      PROVE  Inv'
  <2>1. /\ filtered' = [filtered EXCEPT ![f] = kind] /\ kind \in Kinds
        /\ filtered' \in [FilteredDecks -> Kinds] /\ filtered'[f] = kind
        /\ decks' = decks /\ today' = today /\ place' = place
    BY <1>1 DEF BuildFilteredDeck, Inv, Kinds
  <2>2. card' = [c \in Cards |-> IF c \in matched
                                 THEN MoveIntoFilteredDeck(Returned(f)[c], f, kind)
                                 ELSE Returned(f)[c]]
    BY <1>1 DEF BuildFilteredDeck
  <2>3. ASSUME NEW c \in Cards
        PROVE  /\ card'[c] \in CardType \cup {NoCard}
               /\ card'[c] # NoCard => CardInv(card'[c], place[c], decks, filtered')
    <3> DEFINE r == Returned(f)[c]
    <3>1. r \in CardType \cup {NoCard} /\ (r # NoCard => CardInv(r, place[c], decks, filtered'))
      BY <2>1, ReturnedKept
    <3>2. CASE c \in matched
      <4>1. r # NoCard /\ r.queue \notin NotDue /\ ~IsFiltered(r)
        BY <1>1, <3>2 DEF BuildFilteredDeck, Matchable
      <4>2. decks \in SUBSET Decks
        BY DEF Inv
      <4>3. CardInv(MoveIntoFilteredDeck(r, f, kind), place[c], decks, filtered')
        BY <2>1, <3>1, <4>1, <4>2, MovesIn
      <4>4. card'[c] = MoveIntoFilteredDeck(r, f, kind)
        BY <2>2, <3>2
      <4> QED
        BY <4>3, <4>4 DEF CardInv, CardBase
    <3>3. CASE c \notin matched
      BY <2>2, <3>1, <3>3
    <3> QED
      BY <3>2, <3>3
  <2>4. card' \in [Cards -> CardType \cup {NoCard}]
    BY <2>2, <2>3
  <2> QED
    BY <2>1, <2>3, <2>4, EachCard DEF Inv
<1>2. ASSUME EmptyFilteredDeck(f) \/ RemoveFilteredDeck(f)
      PROVE  Inv'
  <2>1. PICK kind \in Kinds : filtered' = [filtered EXCEPT ![f] = kind]
    <3>1. CASE EmptyFilteredDeck(f)
      <4>1. filtered[f] \in Kinds /\ filtered' = [filtered EXCEPT ![f] = filtered[f]]
        BY <3>1 DEF EmptyFilteredDeck, Schedule, Inv
      <4> QED
        BY <4>1
    <3>2. CASE RemoveFilteredDeck(f)
      BY <3>2 DEF RemoveFilteredDeck, Kinds
    <3> QED
      BY <1>2, <3>1, <3>2
  <2>2. /\ card' = Returned(f) /\ decks' = decks /\ today' = today /\ place' = place
        /\ filtered' \in [FilteredDecks -> Kinds]
    BY <1>2, <2>1 DEF EmptyFilteredDeck, RemoveFilteredDeck, Schedule, Inv
  <2>3. ASSUME NEW c \in Cards
        PROVE  /\ card'[c] \in CardType \cup {NoCard}
               /\ card'[c] # NoCard => CardInv(card'[c], place[c], decks, filtered')
    BY <2>1, <2>2, ReturnedKept
  <2>4. card' \in [Cards -> CardType \cup {NoCard}]
    BY <2>2, <2>3 DEF Returned
  <2> QED
    BY <2>2, <2>3, <2>4, EachCard DEF Inv
<1> QED
  BY <1>1, <1>2

LEMMA RemoveNormalDeckKeeps ==
  ASSUME Inv, NEW d \in Decks, RemoveNormalDeck(d)
  PROVE  Inv'
<1>1. /\ card' = [c \in Cards |-> IF c \in CardsForDeck(d) THEN NoCard ELSE card[c]]
      /\ decks' = decks \ ({d} \ {Home})
      /\ filtered' = filtered /\ today' = today /\ place' = place
  BY DEF RemoveNormalDeck
<1>2. ASSUME NEW c \in Cards
      PROVE  /\ card'[c] \in CardType \cup {NoCard}
             /\ card'[c] # NoCard => CardInv(card'[c], place[c], decks', filtered)
  <2>1. CASE c \in CardsForDeck(d)
    BY <1>1, <2>1
  <2>2. CASE c \notin CardsForDeck(d)
    <3>1. card'[c] = card[c]
      BY <1>1, <2>2
    <3>2. CASE card[c] # NoCard
      <4>1. /\ c \in Existing /\ CardInv(card[c], place[c], decks, filtered)
            /\ card[c].did # d /\ card[c].odid # d
        BY <2>2, <3>2, InvFacts DEF CardsForDeck
      <4>2. HomeDeck(card[c]) \in decks'
        BY <1>1, <4>1 DEF CardInv, CardBase, Housed, HomeDeck
      <4> QED
        BY <3>1, <4>1, <4>2, ElsewhereChanged DEF CardInv, CardBase
    <3> QED
      BY <3>1, <3>2
  <2> QED
    BY <2>1, <2>2
<1>3. card' \in [Cards -> CardType \cup {NoCard}] /\ decks' \in SUBSET Decks /\ Home \in decks'
  BY <1>1, <1>2 DEF Inv
<1> QED
  BY <1>1, <1>2, <1>3, EachCard DEF Inv

LEMMA DayKeeps ==
  ASSUME Inv, NewDay \/ UnburyOnRollover
  PROVE  Inv'
<1>1. CASE NewDay
  <2>1. /\ card' = card /\ filtered' = filtered /\ decks' = decks /\ place' = place
        /\ today' \in FirstDay..LastDay
    BY <1>1, DuesApart DEF NewDay, Inv
  <2>2. \A c \in Cards : card'[c] # NoCard => CardInv(card'[c], place[c], decks', filtered')
    BY <2>1 DEF Inv, Existing
  <2> QED
    BY <2>1, <2>2, EachCard DEF Inv
<1>2. CASE UnburyOnRollover
  <2>1. /\ card' = [c \in Cards |-> IF c \in Existing /\ card[c].queue \in Buried
                                    THEN RestoreQueueFromType(card[c]) ELSE card[c]]
        /\ filtered' = filtered /\ decks' = decks /\ today' = today /\ place' = place
    BY <1>2 DEF UnburyOnRollover
  <2>2. ASSUME NEW c \in Cards
        PROVE  /\ card'[c] \in CardType \cup {NoCard}
               /\ card'[c] # NoCard => CardInv(card'[c], place[c], decks, filtered)
    <3>1. CASE c \in Existing /\ card[c].queue \in Buried
      <4>1. card'[c] = RestoreQueueFromType(card[c]) /\ CardInv(card[c], place[c], decks, filtered)
        BY <2>1, <3>1 DEF Inv
      <4>2. CardInv(card'[c], place[c], decks, filtered)
        BY <4>1, Restored
      <4> QED
        BY <4>2 DEF CardInv, CardBase
    <3>2. CASE ~(c \in Existing /\ card[c].queue \in Buried)
      <4>1. card'[c] = card[c]
        BY <2>1, <3>2
      <4> QED
        BY <4>1, InvFacts
    <3> QED
      BY <3>1, <3>2
  <2>3. card' \in [Cards -> CardType \cup {NoCard}]
    BY <2>1, <2>2
  <2> QED
    BY <2>1, <2>2, <2>3, EachCard DEF Inv
<1> QED
  BY <1>1, <1>2

(* When no new card is away, a due that is shifted is a position.           *)
LEMMA ShiftKeeps ==
  ASSUME Inv, NEW c \in Existing, NEW start \in Positions, NoneAway(start), ShiftAndReposition(c, start)
  PROVE  Inv'
<1> DEFINE Shifted(s) == IF AtOrAbove(s, start) THEN SetNewPosition(card[s], card[s].due + 1) ELSE card[s]
<1>1. /\ card' = [s \in Cards |-> IF s = c THEN SetNewPosition(Shifted(s), start) ELSE Shifted(s)]
      /\ place' = [s \in Cards |-> IF s = c THEN start
                                   ELSE IF AtOrAbove(s, start) THEN LastPosition(card'[s])
                                   ELSE place[s]]
      /\ filtered' = filtered /\ decks' = decks /\ today' = today
      /\ card[c].ctype = "New" /\ c \in Cards
      /\ \A s \in Cards : AtOrAbove(s, start) => card[s].due # MaxPosition
  BY DEF ShiftAndReposition, Schedule, Existing
<1>2. start \in 1..MaxPosition
  BY DuesApart
<1>3. ASSUME NEW s \in Cards, AtOrAbove(s, start)
      PROVE  /\ CardInv(Shifted(s), card[s].due + 1, decks, filtered)
             /\ LastPosition(Shifted(s)) = card[s].due + 1 /\ Shifted(s).ctype = "New"
  <2>1. s \in Existing /\ card[s].ctype = "New" /\ CardInv(card[s], place[s], decks, filtered)
    BY <1>3 DEF AtOrAbove, Inv
  <2>2. ~IsFiltered(card[s])
    BY <1>3 DEF NoneAway
  <2>3. card[s].due = place[s] /\ place[s] \in 1..MaxPosition
    BY <2>1, <2>2 DEF CardInv, CardBase, LastPosition, OriginalOrCurrentDue
  <2>4. card[s].due + 1 \in 1..MaxPosition
    BY <1>1, <1>3, <2>3, DuesApart, Numbers
  <2>5. /\ CardInv(SetNewPosition(card[s], card[s].due + 1), card[s].due + 1, decks, filtered)
        /\ LastPosition(SetNewPosition(card[s], card[s].due + 1)) = card[s].due + 1
        /\ SetNewPosition(card[s], card[s].due + 1).ctype = "New"
    BY <2>1, <2>4, Positioned
  <2> QED
    BY <1>3, <2>5
<1>4. ASSUME NEW s \in Cards
      PROVE  /\ card'[s] \in CardType \cup {NoCard} /\ place'[s] \in Nat
             /\ card'[s] # NoCard => CardInv(card'[s], place'[s], decks, filtered)
  <2>1. CASE s = c
    <3>1. \E p : CardInv(Shifted(c), p, decks, filtered) /\ Shifted(c).ctype = "New"
      <4>1. CASE AtOrAbove(c, start)
        BY <1>1, <1>3, <4>1
      <4>2. CASE ~AtOrAbove(c, start)
        BY <1>1, <4>2 DEF Inv
      <4> QED
        BY <4>1, <4>2
    <3> HIDE DEF Shifted
    <3>2. CardInv(SetNewPosition(Shifted(c), start), start, decks, filtered)
      BY <1>2, <3>1, Positioned
    <3>3. card'[s] = SetNewPosition(Shifted(c), start) /\ place'[s] = start
      BY <1>1, <2>1
    <3> QED
      BY <1>2, <3>2, <3>3, DuesApart, Numbers DEF CardInv, CardBase
  <2>2. CASE s # c /\ AtOrAbove(s, start)
    <3>1. CardInv(Shifted(s), card[s].due + 1, decks, filtered) /\ LastPosition(Shifted(s)) = card[s].due + 1
      BY <1>3, <2>2
    <3> HIDE DEF Shifted
    <3>2. card'[s] = Shifted(s) /\ place'[s] = card[s].due + 1
      BY <1>1, <2>2, <3>1
    <3> QED
      BY <3>1, <3>2, DuesApart, Numbers DEF CardInv, CardBase
  <2>3. CASE s # c /\ ~AtOrAbove(s, start)
    <3>1. card'[s] = card[s] /\ place'[s] = place[s] /\ place[s] \in Nat
      BY <1>1, <2>3 DEF Inv
    <3> QED
      BY <3>1, InvFacts
  <2> QED
    BY <2>1, <2>2, <2>3
<1>5. DOMAIN card' = Cards /\ DOMAIN place' = Cards
  BY <1>1
<1>6. card' \in [Cards -> CardType \cup {NoCard}] /\ place' \in [Cards -> Nat]
  BY <1>1, <1>4
<1> QED
  BY <1>1, <1>4, <1>6 DEF Inv, Existing

LEMMA NextKeeps == Inv /\ [HomeShiftsNext]_vars => Inv'
<1> SUFFICES ASSUME Inv, [HomeShiftsNext]_vars PROVE Inv'
  OBVIOUS
<1>1. ASSUME NEW c \in Existing,
             \/ \E rating \in Ratings : Answer(c, rating)
             \/ \E queue \in ByUser : BuryOrSuspend(c, queue)
             \/ UnburyOrUnsuspend(c)
             \/ \E p \in Positions, restore \in BOOLEAN : Forget(c, p, restore)
             \/ \E days \in DueDays : SetDueDate(c, days)
             \/ \E p \in Positions : Reposition(c, p)
             \/ \E d \in Decks : SetDeck(c, d)
      PROVE  Inv'
  BY <1>1, OnOneCardKeeps
<1>2. ASSUME NEW f \in FilteredDecks,
             \/ \E kind \in {"reschedule", "preview"}, matched \in SUBSET Cards :
                  BuildFilteredDeck(f, kind, matched)
             \/ EmptyFilteredDeck(f) \/ RemoveFilteredDeck(f)
      PROVE  Inv'
  BY <1>2, FilteredDeckKeeps
<1>3. CASE \E d \in Decks : RemoveNormalDeck(d)
  BY <1>3, RemoveNormalDeckKeeps
<1>4. CASE NewDay \/ UnburyOnRollover
  BY <1>4, DayKeeps
<1>5. CASE \E c \in Existing, p \in Positions : NoneAway(p) /\ ShiftAndReposition(c, p)
  BY <1>5, ShiftKeeps
<1>6. CASE UNCHANGED vars
  BY <1>6 DEF vars, Inv, Existing
<1> QED
  BY <1>1, <1>2, <1>3, <1>4, <1>5, <1>6 DEF HomeShiftsNext, Operation

(* Each card by itself keeps a home, columns that agree, its position and   *)
(* its steps, through every operation on it or on any deck.                 *)
THEOREM Invariant == HomeShiftsSpec => []Inv
<1>1. Init => Inv
  BY InitInv
<1> QED
  BY <1>1, NextKeeps, PTL DEF HomeShiftsSpec

-----------------------------------------------------------------------------
(* The properties.                                                          *)

(* For any cards, decks and days: a card is in a filtered deck exactly when *)
(* it has a home deck to return to, and neither deck is ever removed under  *)
(* it.                                                                      *)
THEOREM HomeKept == HomeShiftsSpec => []HasAHome
<1>1. Inv => HasAHome
  BY DEF Inv, HasAHome, CardInv, CardBase, Housed
<1> QED
  BY <1>1, Invariant, PTL

(* For any steps, intervals and due dates: the queue of a card only holds   *)
(* its type, and at home its due is of the kind that the type calls for.    *)
THEOREM ColumnsKept == HomeShiftsSpec => []ColumnsAgree
<1>1. Inv => ColumnsAgree
  <2> SUFFICES ASSUME Inv, NEW c \in Existing
               PROVE  LET k == card[c] IN
                      /\ k \in CardType
                      /\ k.queue = "New" => k.ctype = "New"
                      /\ k.queue \in {"Learn", "DayLearn"} => k.ctype \in {"Learn", "Relearn"}
                      /\ k.queue = "Review" => k.ctype = "Review" \/ InPreview(k)
                      /\ k.queue = "PreviewRepeat" => InPreview(k)
                      /\ ~IsFiltered(k) => /\ k.queue = "Learn" => IsTimestamp(k.due)
                                           /\ k.queue = "DayLearn" => ~IsTimestamp(k.due)
                                           /\ k.ctype \in {"New", "Review"} => k.due \in 1..Epoch
    BY DEF ColumnsAgree
  <2>1. CardBase(card[c], place[c], decks, filtered)
    BY DEF Inv, CardInv
  <2>2. InPreview(card[c]) <=> Previewed(card[c], filtered)
    BY DEF InPreview, Previewed
  <2> QED
    BY <2>1, <2>2 DEF CardBase, Columns, OriginalOrCurrentDue
<1> QED
  BY <1>1, Invariant, PTL

(* Through any sequence of answers, filtered decks, lapses and due dates a  *)
(* card keeps the position it was last given.                               *)
THEOREM PositionsKept == HomeShiftsSpec => []PositionKept
<1>1. Inv => PositionKept
  BY DEF Inv, PositionKept, CardInv, CardBase
<1> QED
  BY <1>1, Invariant, PTL

(* Whatever steps the decks have and whichever of them a card is moved      *)
(* through, it has no more steps left than its home deck.                   *)
THEOREM StepsKept == HomeShiftsSpec => []StepsInRange
<1>1. Inv => StepsInRange
  BY DEF Inv, StepsInRange, CardInv, StepsLeft
<1> QED
  BY <1>1, Invariant, PTL

-----------------------------------------------------------------------------
(* Decks of previews.                                                       *)

(* r is what RemoveRestoringQueue makes of k, up to its deck.               *)
GivenBack(k, r) ==
    /\ r.ctype = k.ctype /\ r.due = k.odue
    /\ r.queue = IF k.queue \in NotDue THEN k.queue ELSE RightQueue(k.ctype, k.odue)

LEMMA HomeQueue ==
  ASSUME NEW k, NEW p, NEW ds, NEW fs, CardInv(k, p, ds, fs), ~IsFiltered(k), k.queue \notin NotDue
  PROVE  k.queue = RightQueue(k.ctype, k.due)
<1>1. /\ k.ctype \in {"New", "Learn", "Review", "Relearn"} /\ ~Previewed(k, fs)
      /\ k.queue \in {"New", "Learn", "DayLearn", "Review", "PreviewRepeat"}
  BY DEF CardInv, CardBase, CardType, Previewed
<1>2. /\ k.queue = "New" => k.ctype = "New"
      /\ k.queue \in {"Learn", "DayLearn"} => k.ctype \in {"Learn", "Relearn"}
      /\ k.queue = "Review" => k.ctype = "Review"
      /\ k.queue # "PreviewRepeat"
      /\ k.queue = "Learn" => IsTimestamp(k.due)
      /\ k.queue = "DayLearn" => ~IsTimestamp(k.due)
  BY <1>1 DEF CardInv, CardBase, Columns
<1>3. CASE IsTimestamp(k.due)
  BY <1>1, <1>2, <1>3 DEF RightQueue
<1>4. CASE ~IsTimestamp(k.due)
  BY <1>1, <1>2, <1>4 DEF RightQueue
<1> QED
  BY <1>3, <1>4

LEMMA AnswerStays ==
  ASSUME NEW h \in CardType, NEW from, NEW s, NEW rating, NEW a \in NormalAnswer(h, from, s, rating)
  PROVE  a.did = h.did /\ a.odid = h.odid
<1> DEFINE position == IF from.ctype = "New" THEN CurrentPosition(from) ELSE NoPosition
           base == [h EXCEPT !.ctype = s.ctype, !.left = s.left,
                             !.pos = IF position = NoPosition THEN @ ELSE position]
           later(queue) == {[base EXCEPT !.queue = queue, !.due = today + i] : i \in Intervals}
<1>1. \A queue, due : LET b == [base EXCEPT !.queue = queue, !.due = due]
                          aside == [b EXCEPT !.queue = "Suspended"]
                      IN /\ b.did = h.did /\ b.odid = h.odid
                         /\ aside.did = h.did /\ aside.odid = h.odid
  BY DEF CardType
<1>2. Scheduled(h, s, position) \subseteq
        later("Review") \cup {[base EXCEPT !.queue = "Learn", !.due = Now]} \cup later("DayLearn")
  BY DEF Scheduled
<1> HIDE DEF base
<1>3. ASSUME NEW b \in Scheduled(h, s, position)
      PROVE  \E queue, due : b = [base EXCEPT !.queue = queue, !.due = due]
  BY <1>2
<1>4. PICK b \in Scheduled(h, s, position) : a = b \/ a = [b EXCEPT !.queue = "Suspended"]
  BY DEF NormalAnswer
<1>5. PICK queue, due : b = [base EXCEPT !.queue = queue, !.due = due]
  BY <1>3
<1> DEFINE aside == [b EXCEPT !.queue = "Suspended"]
<1>6. b.did = h.did /\ b.odid = h.odid /\ aside.did = h.did /\ aside.odid = h.odid
  BY <1>1, <1>5, Zenon
<1> QED
  BY <1>4, <1>6

(* What a step can make of a card: it stays where it is; it gets another    *)
(* position; it stays or comes where no previews are; it goes home; or it   *)
(* comes to a deck of previews.                                             *)
Stays(c) ==
    /\ card'[c].ctype = card[c].ctype /\ card'[c].odue = card[c].odue
    /\ card'[c].did = card[c].did /\ card'[c].odid = card[c].odid
    /\ IsFiltered(card[c]) => came'[c] = came[c] /\ filtered'[card[c].did] = filtered[card[c].did]

Placed(c) ==
    /\ card[c].ctype = "New" /\ card'[c].ctype = "New" /\ filtered' = filtered
    /\ card'[c].did = card[c].did /\ card'[c].odid = card[c].odid
    /\ IsFiltered(card[c]) =>
         came'[c] = IF came[c] = NoCard THEN came[c] ELSE [came[c] EXCEPT !.due = card'[c].odue]

Elsewhere(c) ==
    /\ ~Previewed(card'[c], filtered')
    /\ IsFiltered(card'[c]) \/ ~Previewed(card[c], filtered)

GoesHome(c) ==
    /\ ~IsFiltered(card'[c])
    /\ Previewed(card[c], filtered) => GivenBack(card[c], card'[c]) \/ Rescheduled(c)

ComesIn(c) ==
    /\ IsFiltered(card'[c])
    /\ came'[c].ctype = card'[c].ctype /\ came'[c].due = card'[c].odue
    /\ came'[c].queue = RightQueue(card'[c].ctype, card'[c].odue)

Fate(c) == c \in Existing /\ (Stays(c) \/ Placed(c) \/ Elsewhere(c) \/ GoesHome(c) \/ ComesIn(c))

LEMMA StaysByRow ==
  ASSUME NEW c \in Existing, card'[c].ctype = card[c].ctype, card'[c].odue = card[c].odue,
         card'[c].did = card[c].did, card'[c].odid = card[c].odid, card'[c] # NoCard,
         KeepCame \/ came' = came, filtered' = filtered
  PROVE  Fate(c)
<1>1. IsFiltered(card[c]) => came'[c] = came[c]
  BY DEF KeepCame, IsFiltered, Existing
<1> QED
  BY <1>1 DEF Fate, Stays

LEMMA FateOfAnswer ==
  ASSUME Inv, NEW e \in Existing, NEW rating \in Ratings, Answer(e, rating),
         NEW c \in Cards, card'[c] # NoCard
  PROVE  Fate(c)
<1>1. PICK k \in AnswerOutcomes(card[e], rating) :
        card' = [s \in Cards |-> IF s = e THEN k
                                 ELSE IF SiblingBuried(e, s)
                                 THEN [card[s] EXCEPT !.queue = "SchedBuried"]
                                 ELSE card[s]]
  BY DEF Answer
<1>2. filtered' = filtered /\ KeepCame /\ decks \in SUBSET Decks
  BY DEF Answer, Inv
<1>3. CASE c = e
  <2>1. /\ card'[c] = k /\ c \in Existing /\ card[c] \in CardType
        /\ CardInv(card[c], place[c], decks, filtered) /\ CardBase(card[c], place[c], decks, filtered)
    BY <1>1, <1>3, InvFacts DEF CardInv, Existing
  <2>2. card[c].did \in Decks <=> ~IsFiltered(card[c])
    BY <1>2, <2>1, InNormalDeck
  <2>3. CASE Previewed(card[c], filtered)
    <3>1. k = PreviewAnswer(card[c], rating)
      BY <1>1, <1>3, <2>2, <2>3 DEF AnswerOutcomes, Previewed
    <3>2. CASE rating \in Finishing
      <4>1. k = RemoveRestoringQueue(card[c])
        BY <3>1, <3>2 DEF PreviewAnswer
      <4>2. ~IsFiltered(k) /\ GivenBack(card[c], k)
        BY <1>2, <2>1, <2>3, <4>1, ReturnsHomeBase DEF GivenBack, Previewed
      <4> QED
        BY <2>1, <4>2 DEF Fate, GoesHome
    <3>3. CASE rating \notin Finishing
      <4>1. k = [card[c] EXCEPT !.queue = "PreviewRepeat", !.due = Now]
        BY <3>1, <3>3 DEF PreviewAnswer
      <4>2. /\ card'[c].ctype = card[c].ctype /\ card'[c].odue = card[c].odue
            /\ card'[c].did = card[c].did /\ card'[c].odid = card[c].odid
        BY <2>1, <4>1 DEF CardType
      <4> QED
        BY <1>2, <2>1, <4>2, StaysByRow
    <3> QED
      BY <3>2, <3>3
  <2>4. CASE ~Previewed(card[c], filtered)
    <3>1. PICK s : \/ k \in NormalAnswer(card[c], card[c], s, rating)
                   \/ k \in NormalAnswer(RemoveBeforeReschedule(card[c]), card[c], s, rating)
                   \/ \E b \in NormalAnswer(card[c], card[c], s, rating) : k = [b EXCEPT !.odue = b.due]
      <4>1. CASE card[c].did \in Decks
        BY <1>1, <1>3, <4>1 DEF AnswerOutcomes
      <4>2. CASE card[c].did \notin Decks
        <5>1. filtered[card[c].did] # "preview"
          BY <2>2, <2>4, <4>2 DEF Previewed
        <5> QED
          BY <1>1, <1>3, <4>2, <5>1 DEF AnswerOutcomes
      <4> QED
        BY <4>1, <4>2
    <3>2. CASE k \in NormalAnswer(card[c], card[c], s, rating)
      <4>1. k.did = card[c].did /\ k.odid = card[c].odid
        BY <2>1, <3>2, AnswerStays
      <4> QED
        BY <1>2, <2>1, <2>4, <4>1 DEF Fate, Elsewhere, Previewed, IsFiltered
    <3>3. CASE k \in NormalAnswer(RemoveBeforeReschedule(card[c]), card[c], s, rating)
      <4>1. RemoveBeforeReschedule(card[c]) \in CardType /\ RemoveBeforeReschedule(card[c]).odid = None
        BY <2>1, HomeFields
      <4>2. k.odid = None
        BY <3>3, <4>1, AnswerStays
      <4> QED
        BY <2>1, <2>4, <4>2 DEF Fate, Elsewhere, Previewed, IsFiltered
    <3>4. CASE \E b \in NormalAnswer(card[c], card[c], s, rating) : k = [b EXCEPT !.odue = b.due]
      <4>1. PICK b \in NormalAnswer(card[c], card[c], s, rating) : k = [b EXCEPT !.odue = b.due]
        BY <3>4
      <4>2. b.did = card[c].did /\ b.odid = card[c].odid
        BY <2>1, AnswerStays
      <4>3. k.did = b.did /\ k.odid = b.odid
        BY <4>1
      <4> QED
        BY <1>2, <2>1, <2>4, <4>2, <4>3 DEF Fate, Elsewhere, Previewed, IsFiltered
    <3> QED
      BY <3>1, <3>2, <3>3, <3>4
  <2> QED
    BY <2>3, <2>4
<1>4. CASE c # e
  <2>1. CASE SiblingBuried(e, c)
    <3>1. /\ c \in Existing /\ card[c] \in CardType /\ card'[c] = [card[c] EXCEPT !.queue = "SchedBuried"]
      BY <1>1, <1>4, <2>1, InvFacts DEF SiblingBuried, Existing
    <3>2. /\ card'[c].ctype = card[c].ctype /\ card'[c].odue = card[c].odue
          /\ card'[c].did = card[c].did /\ card'[c].odid = card[c].odid
      BY <3>1 DEF CardType
    <3> QED
      BY <1>2, <3>1, <3>2, StaysByRow
  <2>2. CASE ~SiblingBuried(e, c)
    <3>1. card'[c] = card[c] /\ c \in Existing
      BY <1>1, <1>4, <2>2 DEF Existing
    <3> QED
      BY <1>2, <3>1, StaysByRow
  <2> QED
    BY <2>1, <2>2
<1> QED
  BY <1>3, <1>4

LEMMA FateOnOneCard ==
  ASSUME Inv, CameAs, NEW e \in Existing,
         \/ \E queue \in ByUser : BuryOrSuspend(e, queue)
         \/ UnburyOrUnsuspend(e)
         \/ \E p \in Positions, restore \in BOOLEAN : Forget(e, p, restore)
         \/ \E days \in DueDays : SetDueDate(e, days)
         \/ \E p \in Positions : Reposition(e, p)
         \/ \E d \in Decks : SetDeck(e, d),
         NEW c \in Cards, card'[c] # NoCard
  PROVE  Fate(c)
<1>1. /\ e \in Cards /\ card[e] \in CardType /\ CardInv(card[e], place[e], decks, filtered)
      /\ card \in [Cards -> CardType \cup {NoCard}] /\ decks \in SUBSET Decks
      /\ came \in [Cards -> CardType \cup {NoCard}]
  BY InvFacts DEF Existing, Inv, CameAs
<1>2. CASE c # e
  <2>1. card'[c] = card[c] /\ filtered' = filtered
    BY <1>1, <1>2 DEF BuryOrSuspend, UnburyOrUnsuspend, Forget, SetDueDate, Reposition, SetDeck, Schedule
  <2>2. c \in Existing
    BY <2>1 DEF Existing
  <2>3. KeepCame \/ came' = came \/ came'[c] = came[c]
    BY <1>1, <1>2 DEF BuryOrSuspend, UnburyOrUnsuspend, Forget, SetDueDate, Reposition, SetDeck
  <2>4. IsFiltered(card[c]) => came'[c] = came[c]
    BY <2>1, <2>2, <2>3 DEF KeepCame, IsFiltered, Existing
  <2> QED
    BY <2>1, <2>2, <2>4 DEF Fate, Stays
<1>3. ASSUME c = e, NEW queue \in ByUser, BuryOrSuspend(e, queue) PROVE Fate(c)
  <2>1. card'[c] = [card[c] EXCEPT !.queue = queue] /\ came' = came /\ filtered' = filtered
    BY <1>1, <1>3 DEF BuryOrSuspend, Schedule
  <2>2. /\ card'[c].ctype = card[c].ctype /\ card'[c].odue = card[c].odue
        /\ card'[c].did = card[c].did /\ card'[c].odid = card[c].odid
    BY <1>1, <1>3, <2>1 DEF CardType
  <2> QED
    BY <1>3, <2>1, <2>2, StaysByRow
<1>4. ASSUME c = e, UnburyOrUnsuspend(e) PROVE Fate(c)
  <2>1. card'[c] = RestoreQueueFromType(card[c]) /\ came' = came /\ filtered' = filtered
    BY <1>1, <1>4 DEF UnburyOrUnsuspend, Schedule
  <2>2. /\ card'[c].ctype = card[c].ctype /\ card'[c].odue = card[c].odue
        /\ card'[c].did = card[c].did /\ card'[c].odid = card[c].odid
    BY <1>1, <1>4, <2>1 DEF CardType, RestoreQueueFromType
  <2> QED
    BY <1>4, <2>1, <2>2, StaysByRow
<1>5. ASSUME c = e, NEW p \in Positions, NEW restore \in BOOLEAN, Forget(e, p, restore) PROVE Fate(c)
  <2> DEFINE h == RemoveBeforeReschedule(card[e])
  <2>1. h \in CardType /\ h.odid = None
    BY <1>1, HomeFields
  <2>2. PICK due : card'[c] = [h EXCEPT !.due = due, !.ctype = "New", !.queue = "New", !.pos = NoPosition]
    BY <1>1, <1>5 DEF Forget, ScheduleAsNew
  <2> HIDE DEF h
  <2>3. ~IsFiltered(card'[c])
    BY <2>1, <2>2 DEF IsFiltered, CardType
  <2>4. Rescheduled(c)
    BY <1>5 DEF Rescheduled
  <2> QED
    BY <1>5, <2>3, <2>4 DEF Fate, GoesHome
<1>6. ASSUME c = e, NEW days \in DueDays, SetDueDate(e, days) PROVE Fate(c)
  <2> DEFINE m == [card[e] EXCEPT !.pos = LastPosition(card[e])]
             h == RemoveBeforeReschedule(m)
  <2>1. LastPosition(card[e]) \in Nat
    BY <1>1, DuesApart, Numbers DEF CardInv, CardBase
  <2>2. m \in CardType
    BY <1>1, <2>1 DEF CardType
  <2> HIDE DEF m
  <2>3. h \in CardType /\ h.odid = None
    <3>1. CASE IsFiltered(m)
      <4>1. h = [m EXCEPT !.did = m.odid, !.odid = None, !.odue = 0]
        BY <3>1 DEF RemoveBeforeReschedule
      <4> QED
        BY <2>2, <4>1, HomeType DEF CardType
    <3>2. CASE ~IsFiltered(m)
      BY <2>2, <3>2 DEF RemoveBeforeReschedule, IsFiltered
    <3> QED
      BY <3>1, <3>2
  <2>4. card'[c] = [h EXCEPT !.due = today + days, !.ctype = "Review", !.queue = "Review"]
    BY <1>1, <1>6 DEF SetDueDate, ScheduleAsReview, m
  <2> HIDE DEF h
  <2>5. ~IsFiltered(card'[c])
    BY <2>3, <2>4 DEF IsFiltered, CardType
  <2>6. Rescheduled(c)
    BY <1>6 DEF Rescheduled
  <2> QED
    BY <1>6, <2>5, <2>6 DEF Fate, GoesHome
<1>7. ASSUME c = e, NEW p \in Positions, Reposition(e, p) PROVE Fate(c)
  <2>1. /\ card'[c] = SetNewPosition(card[c], p) /\ card[c].ctype = "New" /\ filtered' = filtered
        /\ came' = [came EXCEPT ![c] = IF @ = NoCard THEN @ ELSE [@ EXCEPT !.due = p]]
    BY <1>1, <1>7 DEF Reposition, Schedule
  <2>2. CardInv(card[c], place[c], decks, filtered) /\ p \in 1..MaxPosition
    BY <1>1, <1>7, DuesApart
  <2>3. /\ card'[c].ctype = "New" /\ card'[c].did = card[c].did /\ card'[c].odid = card[c].odid
        /\ IsFiltered(card[c]) => card'[c].odue = p
    <3> DEFINE r == SetNewPosition(card[c], p)
    <3>1. /\ r.ctype = "New" /\ r.did = card[c].did /\ r.odid = card[c].odid
          /\ IsFiltered(card[c]) => r.odue = p
      <4>1. card[c].ctype = "New"
        BY <2>1
      <4> QED
        BY <2>2, <4>1, Positioned
    <3> QED
      BY <2>1, <3>1
  <2>4. came'[c] = IF came[c] = NoCard THEN came[c] ELSE [came[c] EXCEPT !.due = p]
    BY <1>1, <2>1
  <2> QED
    BY <1>7, <2>1, <2>3, <2>4 DEF Fate, Placed
<1>8. ASSUME c = e, NEW d \in Decks, SetDeck(e, d) PROVE Fate(c)
  <2> DEFINE a == AdjustRemainingSteps(card[e], d)
             h == RemoveRestoringQueue(a)
  <2>1. d \in decks /\ card'[c] = [h EXCEPT !.did = d]
    BY <1>1, <1>8 DEF SetDeck
  <2>2. CardBase(a, place[e], decks, filtered)
    BY <1>1, <2>1, Adjusted
  <2>3. /\ a.ctype = card[e].ctype /\ a.odid = card[e].odid /\ a.odue = card[e].odue
        /\ a.queue = card[e].queue
    BY <1>1 DEF AdjustRemainingSteps, CardType
  <2> HIDE DEF a
  <2>4. /\ CardBase(h, place[e], decks, filtered) /\ ~IsFiltered(h)
        /\ IsFiltered(card[e]) => GivenBack(card[e], h)
    BY <1>1, <2>2, <2>3, ReturnsHomeBase DEF GivenBack, IsFiltered
  <2> HIDE DEF h
  <2>5. h \in CardType
    BY <2>4 DEF CardBase
  <2>6. /\ card'[c].odid = h.odid /\ card'[c].ctype = h.ctype /\ card'[c].due = h.due
        /\ card'[c].queue = h.queue
    BY <2>1, <2>5 DEF CardType
  <2>7. ~IsFiltered(card'[c]) /\ (IsFiltered(card[c]) => GivenBack(card[c], card'[c]))
    BY <1>8, <2>4, <2>6 DEF IsFiltered, GivenBack
  <2> QED
    BY <1>8, <2>7 DEF Fate, GoesHome, Previewed
<1> QED
  BY <1>2, <1>3, <1>4, <1>5, <1>6, <1>7, <1>8

(* A card when filtered deck f gives its cards back.                        *)
LEMMA ReturnedFate ==
  ASSUME Inv, NEW f \in FilteredDecks, NEW c \in Cards, Returned(f)[c] # NoCard
  PROVE  LET r == Returned(f)[c] IN
         /\ c \in Existing
         /\ c \in CardsForDeck(f) => ~IsFiltered(r) /\ (IsFiltered(card[c]) => GivenBack(card[c], r))
         /\ c \notin CardsForDeck(f) => r = card[c] /\ card[c].did # f
<1>1. CASE c \in CardsForDeck(f)
  <2>1. c \in Existing /\ Returned(f)[c] = RemoveRestoringQueue(card[c])
    BY <1>1 DEF CardsForDeck, Returned
  <2>2. CardBase(card[c], place[c], decks, filtered) /\ decks \in SUBSET Decks
    BY <2>1 DEF Inv, CardInv
  <2> QED
    BY <1>1, <2>1, <2>2, ReturnsHomeBase DEF GivenBack
<1>2. CASE c \notin CardsForDeck(f)
  <2>1. Returned(f)[c] = card[c]
    BY <1>2 DEF Returned
  <2> QED
    BY <1>2, <2>1 DEF CardsForDeck, Existing
<1> QED
  BY <1>1, <1>2

LEMMA FateOfFiltered ==
  ASSUME Inv, NEW f \in FilteredDecks,
         \/ \E kind \in {"reschedule", "preview"}, matched \in SUBSET Cards :
              BuildFilteredDeck(f, kind, matched)
         \/ EmptyFilteredDeck(f) \/ RemoveFilteredDeck(f),
         NEW c \in Cards, card'[c] # NoCard
  PROVE  Fate(c)
<1> DEFINE r == Returned(f)[c]
<1>1. PICK kind \in Kinds : filtered' = [filtered EXCEPT ![f] = kind]
  <2>1. CASE EmptyFilteredDeck(f)
    <3>1. filtered[f] \in Kinds /\ filtered' = [filtered EXCEPT ![f] = filtered[f]]
      BY <2>1 DEF EmptyFilteredDeck, Schedule, Inv
    <3> QED
      BY <3>1
  <2> QED
    BY <2>1 DEF BuildFilteredDeck, RemoveFilteredDeck, Kinds
<1>2. /\ r \in CardType \cup {NoCard} /\ (r # NoCard => CardInv(r, place[c], decks, filtered'))
      /\ filtered \in [FilteredDecks -> Kinds] /\ decks \in SUBSET Decks
  BY <1>1, ReturnedKept DEF Inv
<1>3. ASSUME card'[c] = r, c \notin CardsForDeck(f) => (KeepCame \/ came'[c] = came[c])
      PROVE  Fate(c)
  <2>1. /\ c \in Existing
        /\ c \in CardsForDeck(f) => ~IsFiltered(r) /\ (IsFiltered(card[c]) => GivenBack(card[c], r))
        /\ c \notin CardsForDeck(f) => r = card[c] /\ card[c].did # f
    BY <1>3, ReturnedFate
  <2> HIDE DEF r
  <2>2. CASE c \in CardsForDeck(f)
    BY <1>3, <2>1, <2>2 DEF Fate, GoesHome, Previewed
  <2>3. CASE c \notin CardsForDeck(f)
    <3>1. IsFiltered(card[c]) => card[c].did \in FilteredDecks
      BY <2>1 DEF Inv, CardInv, CardBase, Housed
    <3>2. IsFiltered(card[c]) => filtered'[card[c].did] = filtered[card[c].did]
      BY <1>1, <1>2, <2>1, <2>3, <3>1
    <3>3. IsFiltered(card[c]) => came'[c] = came[c]
      BY <1>3, <2>1, <2>3 DEF KeepCame, IsFiltered
    <3> QED
      BY <1>3, <2>1, <2>3, <3>2, <3>3 DEF Fate, Stays
  <2> QED
    BY <2>2, <2>3
<1>4. ASSUME NEW matched \in SUBSET Cards, NEW k \in {"reschedule", "preview"}, BuildFilteredDeck(f, k, matched)
      PROVE  Fate(c)
  <2>1. CASE c \notin matched
    <3>1. card'[c] = r /\ (c \notin CardsForDeck(f) => came'[c] = came[c])
      BY <1>4, <2>1 DEF BuildFilteredDeck
    <3> QED
      BY <1>3, <3>1
  <2>2. CASE c \in matched
    <3>1. r # NoCard /\ r.queue \notin NotDue /\ ~IsFiltered(r)
      BY <1>4, <2>2 DEF BuildFilteredDeck, Matchable
    <3>2. /\ card'[c] = MoveIntoFilteredDeck(r, f, k) /\ (k = "preview" => came'[c] = r)
          /\ filtered'[f] = k
      BY <1>2, <1>4, <2>2 DEF BuildFilteredDeck
    <3>3. c \in Existing
      BY <3>1, ReturnedFate
    <3>4. CardInv(r, place[c], decks, filtered')
      BY <1>2, <3>1
    <3> HIDE DEF r
    <3>5. /\ IsFiltered(card'[c]) /\ card'[c].did = f /\ card'[c].ctype = r.ctype
          /\ card'[c].odue = r.due
      BY <1>2, <3>1, <3>2, <3>4, MovesIn
    <3>6. CASE k = "preview"
      <4>1. r.queue = RightQueue(r.ctype, r.due)
        BY <3>1, <3>4, HomeQueue
      <4> QED
        BY <3>2, <3>3, <3>5, <3>6, <4>1 DEF Fate, ComesIn
    <3>7. CASE k # "preview"
      BY <3>2, <3>3, <3>5, <3>7 DEF Fate, Elsewhere, Previewed
    <3> QED
      BY <3>6, <3>7
  <2> QED
    BY <2>1, <2>2
<1>5. CASE EmptyFilteredDeck(f) \/ RemoveFilteredDeck(f)
  <2>1. card'[c] = r /\ KeepCame
    BY <1>5 DEF EmptyFilteredDeck, RemoveFilteredDeck
  <2> QED
    BY <1>3, <2>1
<1> QED
  BY <1>4, <1>5

LEMMA FateOfRemovedAndDays ==
  ASSUME Inv, (\E d \in Decks : RemoveNormalDeck(d)) \/ NewDay \/ UnburyOnRollover \/ UNCHANGED vars,
         NEW c \in Cards, card'[c] # NoCard
  PROVE  Fate(c)
<1>1. filtered' = filtered /\ (KeepCame \/ came' = came)
  BY DEF RemoveNormalDeck, NewDay, UnburyOnRollover, vars
<1>2. CASE card'[c] = card[c]
  BY <1>1, <1>2, StaysByRow DEF Existing
<1>3. CASE card'[c] # card[c]
  <2>1. c \in Existing /\ card'[c] = RestoreQueueFromType(card[c])
    BY <1>3 DEF RemoveNormalDeck, NewDay, UnburyOnRollover, vars
  <2>2. card[c] \in CardType
    BY <2>1, InvFacts DEF Existing
  <2>3. /\ card'[c].ctype = card[c].ctype /\ card'[c].odue = card[c].odue
        /\ card'[c].did = card[c].did /\ card'[c].odid = card[c].odid
    BY <2>1, <2>2 DEF CardType, RestoreQueueFromType
  <2> QED
    BY <1>1, <2>1, <2>3, StaysByRow
<1> QED
  BY <1>2, <1>3

LEMMA FateOfShifted ==
  ASSUME Inv, CameAs, NEW e \in Existing, NEW start \in Positions, NoneAway(start), ShiftAndReposition(e, start),
         NEW c \in Cards, card'[c] # NoCard
  PROVE  Fate(c)
<1> DEFINE Shifted(s) == IF AtOrAbove(s, start) THEN SetNewPosition(card[s], card[s].due + 1) ELSE card[s]
<1>1. /\ card' = [s \in Cards |-> IF s = e THEN SetNewPosition(Shifted(s), start) ELSE Shifted(s)]
      /\ came' = [came EXCEPT ![e] = IF @ = NoCard THEN @ ELSE [@ EXCEPT !.due = start]]
      /\ filtered' = filtered /\ card[e].ctype = "New" /\ e \in Cards
  BY DEF ShiftAndReposition, Schedule, Existing
<1>2. CASE ~AtOrAbove(c, start) /\ c # e
  <2>1. card'[c] = card[c] /\ came'[c] = came[c]
    BY <1>1, <1>2 DEF CameAs
  <2> QED
    BY <1>1, <2>1 DEF Fate, Stays, Existing
<1>3. CASE ~AtOrAbove(c, start) /\ c = e
  <2>1. card'[c] = SetNewPosition(card[c], start) /\ c \in Existing /\ card[c].ctype = "New"
    BY <1>1, <1>3
  <2>2. CardInv(card[c], place[c], decks, filtered) /\ start \in 1..MaxPosition
    BY <2>1, DuesApart DEF Inv
  <2> DEFINE r == SetNewPosition(card[c], start)
  <2>3. /\ r.ctype = "New" /\ r.did = card[c].did /\ r.odid = card[c].odid
        /\ IsFiltered(card[c]) => r.odue = start
    BY <2>1, <2>2, Positioned
  <2>4. came'[c] = IF came[c] = NoCard THEN came[c] ELSE [came[c] EXCEPT !.due = start]
    BY <1>1, <1>3 DEF CameAs
  <2> QED
    BY <1>1, <2>1, <2>3, <2>4 DEF Fate, Placed
<1>4. CASE AtOrAbove(c, start)
  <2>1. c \in Existing /\ card[c].ctype = "New" /\ ~IsFiltered(card[c]) /\ card[c] \in CardType
    BY <1>4, InvFacts DEF AtOrAbove, NoneAway, Existing
  <2>2. ASSUME NEW q
        PROVE  SetNewPosition(card[c], q).odid = card[c].odid
    BY <2>1 DEF SetNewPosition, CardType
  <2>3. ASSUME NEW q, NEW z
        PROVE  SetNewPosition(SetNewPosition(card[c], q), z).odid = card[c].odid
    BY <2>1 DEF SetNewPosition, CardType, IsFiltered
  <2>4. card'[c].odid = card[c].odid
    BY <1>1, <1>4, <2>2, <2>3
  <2> QED
    BY <2>1, <2>4 DEF Fate, Elsewhere, Previewed, IsFiltered
<1> QED
  BY <1>2, <1>3, <1>4

LEMMA EveryFate ==
  ASSUME Inv, CameAs, [HomeShiftsNext]_vars, NEW c \in Cards, card'[c] # NoCard
  PROVE  Fate(c)
<1>1. ASSUME NEW e \in Existing, NEW rating \in Ratings, Answer(e, rating)
      PROVE  Fate(c)
  BY <1>1, FateOfAnswer
<1>2. ASSUME NEW e \in Existing,
             \/ \E queue \in ByUser : BuryOrSuspend(e, queue)
             \/ UnburyOrUnsuspend(e)
             \/ \E p \in Positions, restore \in BOOLEAN : Forget(e, p, restore)
             \/ \E days \in DueDays : SetDueDate(e, days)
             \/ \E p \in Positions : Reposition(e, p)
             \/ \E d \in Decks : SetDeck(e, d)
      PROVE  Fate(c)
  BY <1>2, FateOnOneCard
<1>3. ASSUME NEW f \in FilteredDecks,
             \/ \E kind \in {"reschedule", "preview"}, matched \in SUBSET Cards :
                  BuildFilteredDeck(f, kind, matched)
             \/ EmptyFilteredDeck(f) \/ RemoveFilteredDeck(f)
      PROVE  Fate(c)
  BY <1>3, FateOfFiltered
<1>4. CASE (\E d \in Decks : RemoveNormalDeck(d)) \/ NewDay \/ UnburyOnRollover \/ UNCHANGED vars
  BY <1>4, FateOfRemovedAndDays
<1>5. CASE \E e \in Existing, p \in Positions : NoneAway(p) /\ ShiftAndReposition(e, p)
  BY <1>5, FateOfShifted
<1> QED
  BY <1>1, <1>2, <1>3, <1>4, <1>5 DEF HomeShiftsNext, Operation

LEMMA CameTyped ==
  ASSUME Inv, CameAs, [HomeShiftsNext]_vars
  PROVE  came' \in [Cards -> CardType \cup {NoCard}]
<1>1. came \in [Cards -> CardType \cup {NoCard}]
  BY DEF CameAs
<1>2. CASE KeepCame \/ came' = came
  BY <1>1, <1>2 DEF KeepCame
<1>3. ASSUME NEW e \in Cards, NEW start \in Positions,
             came' = [came EXCEPT ![e] = IF @ = NoCard THEN @ ELSE [@ EXCEPT !.due = start]]
      PROVE  came' \in [Cards -> CardType \cup {NoCard}]
  <2>1. start \in Int
    BY DuesApart, Numbers
  <2>2. came[e] # NoCard => [came[e] EXCEPT !.due = start] \in CardType
    BY <1>1, <2>1 DEF CardType
  <2> QED
    BY <1>1, <1>3, <2>2
<1>4. ASSUME NEW f \in FilteredDecks, NEW kind \in {"reschedule", "preview"}, NEW matched \in SUBSET Cards,
             BuildFilteredDeck(f, kind, matched)
      PROVE  came' \in [Cards -> CardType \cup {NoCard}]
  <2>1. \A c \in Cards : Returned(f)[c] \in CardType \cup {NoCard}
    <3>1. kind \in Kinds
      BY DEF Kinds
    <3> QED
      BY <3>1, ReturnedKept
  <2>2. came' = [c \in Cards |-> IF c \in matched /\ kind = "preview" THEN Returned(f)[c]
                                 ELSE IF c \in CardsForDeck(f) THEN NoCard ELSE came[c]]
    BY <1>4 DEF BuildFilteredDeck
  <2> QED
    BY <1>1, <2>1, <2>2
<1>5. ASSUME NEW e \in Existing,
             \/ \E rating \in Ratings : Answer(e, rating)
             \/ \E queue \in ByUser : BuryOrSuspend(e, queue)
             \/ UnburyOrUnsuspend(e)
             \/ \E p \in Positions, restore \in BOOLEAN : Forget(e, p, restore)
             \/ \E days \in DueDays : SetDueDate(e, days)
             \/ \E d \in Decks : SetDeck(e, d)
      PROVE  came' \in [Cards -> CardType \cup {NoCard}]
  BY <1>2, <1>5 DEF Answer, BuryOrSuspend, UnburyOrUnsuspend, Forget, SetDueDate, SetDeck
<1>6. CASE \/ \E d \in Decks : RemoveNormalDeck(d)
           \/ \E f \in FilteredDecks : EmptyFilteredDeck(f) \/ RemoveFilteredDeck(f)
           \/ NewDay \/ UnburyOnRollover \/ UNCHANGED vars
  BY <1>2, <1>6 DEF RemoveNormalDeck, EmptyFilteredDeck, RemoveFilteredDeck, NewDay, UnburyOnRollover, vars
<1>7. ASSUME NEW e \in Existing, NEW p \in Positions, Reposition(e, p) \/ ShiftAndReposition(e, p)
      PROVE  came' \in [Cards -> CardType \cup {NoCard}]
  BY <1>3, <1>7 DEF Reposition, ShiftAndReposition, Existing
<1> QED
  BY <1>4, <1>5, <1>6, <1>7 DEF HomeShiftsNext, Operation

LEMMA CameKept == Inv /\ CameAs /\ [HomeShiftsNext]_vars => CameAs'
<1> SUFFICES ASSUME Inv, CameAs, [HomeShiftsNext]_vars PROVE CameAs'
  OBVIOUS
<1>1. came' \in [Cards -> CardType \cup {NoCard}]
  BY CameTyped
<1>2. ASSUME NEW c \in Existing', Previewed(card'[c], filtered')
      PROVE  /\ came'[c].ctype = card'[c].ctype /\ came'[c].due = card'[c].odue
             /\ came'[c].queue = RightQueue(card'[c].ctype, card'[c].odue)
  <2>1. c \in Cards /\ c \in Existing
    BY EveryFate DEF Existing, Fate
  <2>2. Previewed(card[c], filtered) =>
          /\ came[c].ctype = card[c].ctype /\ came[c].due = card[c].odue
          /\ came[c].queue = RightQueue(card[c].ctype, card[c].odue)
    BY <2>1 DEF CameAs
  <2>3. CASE Stays(c)
    <3>1. Previewed(card[c], filtered)
      BY <1>2, <2>3 DEF Stays, Previewed, IsFiltered
    <3> QED
      BY <2>2, <2>3, <3>1 DEF Stays, Previewed
  <2>4. CASE Placed(c)
    <3>1. Previewed(card[c], filtered)
      BY <1>2, <2>4 DEF Placed, Previewed, IsFiltered
    <3>2. came[c].ctype = "New" /\ came[c].queue = "New" /\ card'[c].ctype = "New"
      BY <2>2, <2>4, <3>1 DEF Placed, RightQueue
    <3>3. came[c] # NoCard /\ came[c] \in CardType
      BY <2>1, <3>2 DEF CameAs, NoCard, None
    <3>4. came'[c] = [came[c] EXCEPT !.due = card'[c].odue]
      BY <2>4, <3>1, <3>3 DEF Placed, Previewed
    <3>5. came'[c].ctype = "New" /\ came'[c].due = card'[c].odue /\ came'[c].queue = "New"
      BY <3>2, <3>3, <3>4 DEF CardType
    <3> QED
      BY <3>2, <3>5 DEF RightQueue
  <2>5. CASE ComesIn(c)
    BY <2>5 DEF ComesIn
  <2> QED
    BY <1>2, <2>1, <2>3, <2>4, <2>5, EveryFate DEF Existing, Fate, Elsewhere, GoesHome, Previewed
<1> QED
  BY <1>1, <1>2 DEF CameAs

(* "When they are returned to their original deck, they are returned        *)
(* exactly as they started" holds of any decks and any sequence of answers, *)
(* buryings, moves, rebuilds and days: a card that leaves a deck of         *)
(* previews without being rescheduled has the type, due and queue it came   *)
(* with; buried or suspended, it stays so.  It does not hold when the       *)
(* positions of cards that are away are shifted (shift_existing_cards),     *)
(* which is what HomeShiftsSpec leaves out.                                 *)
THEOREM PreviewsGivenBack == HomeShiftsSpec => ReturnedAsStarted
<1>1. Init => CameAs
  BY InitInv
<1>2. Inv /\ CameAs /\ [HomeShiftsNext]_vars => \A c \in Existing : ReturnsAsItCame(c)
  <2> SUFFICES ASSUME Inv, CameAs, [HomeShiftsNext]_vars, NEW c \in Existing,
                      Previewed(card[c], filtered), card'[c] # NoCard, ~IsFiltered(card'[c]), ~Rescheduled(c)
               PROVE  /\ card'[c].ctype = came[c].ctype /\ card'[c].due = came[c].due
                      /\ card'[c].queue = IF card[c].queue \in NotDue THEN card[c].queue ELSE came[c].queue
    BY DEF ReturnsAsItCame, InPreview, Previewed
  <2>1. Fate(c)
    BY EveryFate DEF Existing
  <2>2. GivenBack(card[c], card'[c])
    BY <2>1 DEF Fate, Stays, Placed, Elsewhere, GoesHome, ComesIn, Previewed, IsFiltered
  <2>3. /\ came[c].ctype = card[c].ctype /\ came[c].due = card[c].odue
        /\ came[c].queue = RightQueue(card[c].ctype, card[c].odue)
    BY DEF CameAs
  <2> QED
    BY <2>2, <2>3 DEF GivenBack
<1>3. HomeShiftsSpec => []CameAs
  BY <1>1, CameKept, Invariant, PTL DEF HomeShiftsSpec
<1> QED
  BY <1>2, <1>3, Invariant, PTL DEF HomeShiftsSpec, ReturnedAsStarted
=============================================================================
