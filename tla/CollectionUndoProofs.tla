------------------------ MODULE CollectionUndoProofs ------------------------
(***************************************************************************)
(* Proofs about CollectionUndo, for any notes, any limit of the stacks and *)
(* any number of operations: what is undone comes back as it was, with its *)
(* usn, what is redone too, and no edit goes unreported after an undo.     *)
(***************************************************************************)
EXTENDS CollectionUndo, SequenceTheorems, TLAPS

Undoing    == INSTANCE FoldFacts WITH op <- UndoChange
UndoingAll == INSTANCE FoldFacts WITH op <- LAMBDA s, step : UndoAll(s, step.changes)
Merging    == INSTANCE FoldFacts WITH op <- LAMBDA all, s : all \o s.changes

(* What undo gives back: the value of each row, and the modification time.  *)
Time  == CHOOSE t : t \notin Rows
Cells == Rows \cup {Time}

Value(s, x) == IF x = Time THEN s.mod ELSE s.rows[x]

Change ==
    [type : {"row"}, row : Rows, old : Row]
        \cup [type : {"modified"}, old : 0..MaxClock] \cup [type : {"queue"}, built : Nat]

Queues == [built : Nat, day : Nat]

State == [rows : [Rows -> Row], mod : 0..MaxClock, queues : Queues,
          changes : Seq(Change), active : BOOLEAN]

StepType == [kind : {"UpdateNote", "AnswerCard", "Custom"}, timestamp : Nat,
             changes : Seq(Change), counter : 1..MaxClock, before : [Undoable -> Row]]

(* The change c gives x an older value.                                     *)
Sets(c, x) == IF x = Time THEN c.type = "modified" ELSE c.type = "row" /\ c.row = x

(* k is the oldest of the changes from m on that gives x an older value.    *)
IsOldest(changes, m, x, k) ==
    k \in m..Len(changes) /\ Sets(changes[k], x) /\ \A j \in m..(k-1) : ~Sets(changes[j], x)

(* Undoing the changes from m on takes x from value a to value b.           *)
UndoneFrom(changes, m, x, a, b) ==
    \/ \E k \in m..Len(changes) : IsOldest(changes, m, x, k) /\ b = changes[k].old
    \/ (\A k \in m..Len(changes) : ~Sets(changes[k], x)) /\ b = a

UndoneTo(changes, x, a, b) == UndoneFrom(changes, 1, x, a, b)

(* The transaction s saved what takes it back to where it began.            *)
Recorded(s) == \A x \in Cells : UndoneTo(s.changes, x, Value(s, x), Value(Opened, x))

-----------------------------------------------------------------------------
(* The inductive invariant.  Time is read off the arguments: now are the    *)
(* rows, ls is last_sync, c the clock and n the counter.                    *)

Clean(row, time, ls) == time <= ls => \A r \in Undoable : ~row[r].pending

(* A step that is undone or redone gives no status that hides an edit, and  *)
(* no modification time that is yet to come.                                *)
GoodChanges(changes, before, ls, c) ==
    \A k \in 1..Len(changes) :
        /\ changes[k].type = "modified" => changes[k].old <= c
        /\ IsOldest(changes, 1, Time, k) => Clean(before, changes[k].old, ls)

GoodStep(step, ls, c) == GoodChanges(step.changes, step.before, ls, c)

(* Every operation saves the collection's old modification time last, and   *)
(* an undo reverses the order.                                              *)
ModifiedLast(changes)  == changes # <<>> => changes[Len(changes)].type = "modified"
ModifiedFirst(changes) == changes # <<>> => changes[1].type = "modified"

(* The rows before step i is undone, when those above it were.              *)
Above(steps, now, i, r) == IF i = 1 THEN now[r] ELSE steps[i - 1].before[r]

(* Each step takes the rows from where the step that is undone before it    *)
(* left them to where they were when it began.                              *)
UndoStack(steps, now, ls, c, n) ==
    /\ steps \in Seq(StepType)
    /\ \A i \in 1..Len(steps) :
           /\ GoodStep(steps[i], ls, c) /\ ModifiedLast(steps[i].changes)
           /\ \A r \in Undoable :
                  UndoneTo(steps[i].changes, r, Above(steps, now, i, r), steps[i].before[r])
           /\ steps[i].counter <= n
           /\ i > 1 => steps[i].counter < steps[i - 1].counter

Below(steps, now, i, r) == IF i = Len(steps) THEN now[r] ELSE steps[i + 1].before[r]

RedoStack(steps, now, ls, c) ==
    /\ steps \in Seq(StepType)
    /\ \A i \in 1..Len(steps) :
           /\ GoodStep(steps[i], ls, c) /\ ModifiedFirst(steps[i].changes)
           /\ \A r \in Undoable :
                  UndoneTo(steps[i].changes, r, Below(steps, now, i, r), steps[i].before[r])

Typed ==
    /\ rows \in [Rows -> Row] /\ mod \in Nat /\ last_sync \in Nat
    /\ card_queues \in Queues /\ panicked \in BOOLEAN
    /\ clk \in 0..MaxClock /\ minutes \in Nat /\ day \in Nat /\ syncs \in Nat
    /\ counter \in Nat

Bounded ==
    /\ mod <= clk /\ last_sync <= clk /\ counter <= clk
    /\ card_queues.built <= clk /\ card_queues.day <= day
    /\ Len(undo_steps) + Len(redo_steps) <= UNDO_LIMIT

UndoInv ==
    /\ Typed /\ Bounded
    /\ UndoStack(undo_steps, rows, last_sync, clk, counter)
    /\ RedoStack(redo_steps, rows, last_sync, clk)
    /\ Clean(rows, mod, last_sync)

-----------------------------------------------------------------------------
(* Undoing changes, as a relation.                                          *)

LEMMA TimeIsNoRow == Time \notin Rows
BY NoSetContainsEverything DEF Time

LEMMA OneOldest ==
  ASSUME NEW changes, NEW x, NEW m \in Nat, Len(changes) \in Nat,
         NEW k \in m..Len(changes), NEW j \in m..Len(changes),
         IsOldest(changes, m, x, k), IsOldest(changes, m, x, j)
  PROVE  k = j
<1>1. k \in Nat /\ j \in Nat
    OBVIOUS
<1>2. ~(k < j) /\ ~(j < k)
    BY <1>1 DEF IsOldest
<1>3. QED
    BY <1>1, <1>2

(* Whatever the changes are, what they give back is determined.             *)
LEMMA UndoneOnce ==
  ASSUME NEW changes, NEW x, NEW m \in Nat, NEW a, NEW b, NEW c,
         Len(changes) \in Nat,
         UndoneFrom(changes, m, x, a, b), UndoneFrom(changes, m, x, a, c)
  PROVE  b = c
BY OneOldest DEF UndoneFrom, IsOldest

(* Without changes, nothing is given back.                                  *)
LEMMA NothingUndone ==
  ASSUME NEW x, NEW m \in Nat \ {0}, NEW a, NEW changes, Len(changes) \in Nat, m = Len(changes) + 1
  PROVE  UndoneFrom(changes, m, x, a, a)
BY DEF UndoneFrom, IsOldest

(* The change before the others is undone after them.                       *)
LEMMA UndoOneMore ==
  ASSUME NEW changes, NEW m \in Nat \ {0}, Len(changes) \in Nat, m <= Len(changes),
         NEW x, NEW a, NEW b, NEW c,
         UndoneFrom(changes, m + 1, x, a, b),
         c = IF Sets(changes[m], x) THEN changes[m].old ELSE b
  PROVE  UndoneFrom(changes, m, x, a, c)
<1>1. CASE Sets(changes[m], x)
    <2>1. IsOldest(changes, m, x, m)
        BY <1>1 DEF IsOldest
    <2>2. QED
        BY <1>1, <2>1 DEF UndoneFrom
<1>2. CASE ~Sets(changes[m], x)
    <2>1. ASSUME NEW k \in (m+1)..Len(changes), IsOldest(changes, m + 1, x, k)
          PROVE  k \in m..Len(changes) /\ IsOldest(changes, m, x, k)
        BY <1>2, <2>1 DEF IsOldest
    <2>2. (\A k \in (m+1)..Len(changes) : ~Sets(changes[k], x))
            => \A k \in m..Len(changes) : ~Sets(changes[k], x)
        <3>1. \A k \in m..Len(changes) : k = m \/ k \in (m+1)..Len(changes)
            OBVIOUS
        <3>2. QED
            BY <1>2, <3>1
    <2>3. c = b
        BY <1>2
    <2>4. QED
        BY <2>1, <2>2, <2>3 DEF UndoneFrom
<1>3. QED
    BY <1>1, <1>2

(* A change that is saved after the others is undone before them.           *)
LEMMA UndoOneLater ==
  ASSUME NEW C, NEW changes \in Seq(C), NEW change \in C,
         NEW x, NEW a, NEW b, NEW later,
         UndoneTo(changes, x, a, b),
         a = IF Sets(change, x) THEN change.old ELSE later
  PROVE  UndoneTo(Append(changes, change), x, later, b)
<1> DEFINE all == Append(changes, change)
<1> DEFINE n == Len(changes)
<1>1. /\ n \in Nat /\ Len(all) = n + 1 /\ all[n + 1] = change
      /\ \A k \in 1..n : all[k] = changes[k]
    OBVIOUS
<1>2. \A k \in 1..(n+1) : k \in 1..n \/ k = n + 1
    BY <1>1
<1>7. \A k \in 1..n : 1..(k-1) \subseteq 1..n
    BY <1>1
<1> HIDE DEF all, n
<1>3. CASE \E k \in 1..n : IsOldest(changes, 1, x, k) /\ b = changes[k].old
    <2>1. PICK k \in 1..n : IsOldest(changes, 1, x, k) /\ b = changes[k].old
        BY <1>3
    <2>2. k \in 1..(n+1)
        BY <1>1
    <2>3. IsOldest(all, 1, x, k)
        BY <1>1, <1>7, <2>1, <2>2 DEF IsOldest
    <2>4. b = all[k].old
        BY <1>1, <2>1
    <2>5. QED
        BY <1>1, <2>2, <2>3, <2>4 DEF UndoneTo, UndoneFrom, all
<1>4. CASE (\A k \in 1..n : ~Sets(changes[k], x)) /\ b = a
    <2>1. \A k \in 1..n : ~Sets(all[k], x)
        BY <1>1, <1>4
    <2>2. CASE Sets(change, x)
        <3>1. n + 1 \in 1..(n+1) /\ (n + 1) - 1 = n
            BY <1>1
        <3>2. IsOldest(all, 1, x, n + 1)
            BY <1>1, <2>1, <2>2, <3>1 DEF IsOldest
        <3>3. b = all[n+1].old
            BY <1>1, <1>4, <2>2
        <3>4. QED
            BY <1>1, <3>1, <3>2, <3>3 DEF UndoneTo, UndoneFrom, all
    <2>3. CASE ~Sets(change, x)
        <3>1. \A k \in 1..(n+1) : ~Sets(all[k], x)
            BY <1>1, <1>2, <2>1, <2>3
        <3>2. b = later
            BY <1>4, <2>3
        <3>3. QED
            BY <1>1, <3>1, <3>2 DEF UndoneTo, UndoneFrom, all
    <2>4. QED
        BY <2>2, <2>3
<1>5. QED
    BY <1>3, <1>4 DEF UndoneTo, UndoneFrom, n

(* Changes that join others are undone before them.                         *)
LEMMA UndoJoined ==
  ASSUME NEW C, NEW first \in Seq(C), NEW then \in Seq(C), NEW x, NEW a, NEW b, NEW c,
         UndoneTo(first, x, b, c), UndoneTo(then, x, a, b)
  PROVE  UndoneTo(first \o then, x, a, c)
<1> DEFINE all == first \o then
<1> DEFINE n == Len(first)
<1> DEFINE l == Len(then)
<1>1. /\ n \in Nat /\ l \in Nat /\ Len(all) = n + l
      /\ \A k \in 1..n : all[k] = first[k]
      /\ \A k \in 1..l : all[n + k] = then[k]
    OBVIOUS
<1>2. \A k \in 1..(n+l) : k \in 1..n \/ (k - n \in 1..l /\ k = n + (k - n))
    BY <1>1
<1>3. \A k \in 1..n : 1..(k-1) \subseteq 1..n /\ k \in 1..(n+l)
    BY <1>1
<1>4. \A k \in 1..l : n + k \in 1..(n+l) /\ \A j \in 1..((n+k)-1) : j \in 1..n \/ (j - n \in 1..(k-1) /\ j - n \in 1..l /\ j = n + (j - n))
    BY <1>1
<1> HIDE DEF all, n, l
<1>5. CASE \E k \in 1..n : IsOldest(first, 1, x, k) /\ c = first[k].old
    <2>1. PICK k \in 1..n : IsOldest(first, 1, x, k) /\ c = first[k].old
        BY <1>5
    <2>2. IsOldest(all, 1, x, k)
        BY <1>1, <1>3, <2>1 DEF IsOldest
    <2>3. c = all[k].old
        BY <1>1, <2>1
    <2>4. QED
        BY <1>1, <1>3, <2>2, <2>3 DEF UndoneTo, UndoneFrom, all
<1>6. CASE (\A k \in 1..n : ~Sets(first[k], x)) /\ c = b
    <2>1. \A k \in 1..n : ~Sets(all[k], x)
        BY <1>1, <1>6
    <2>2. CASE \E k \in 1..l : IsOldest(then, 1, x, k) /\ b = then[k].old
        <3>1. PICK k \in 1..l : IsOldest(then, 1, x, k) /\ b = then[k].old
            BY <2>2
        <3>2. \A j \in 1..((n+k)-1) : ~Sets(all[j], x)
            BY <1>1, <1>4, <2>1, <3>1 DEF IsOldest
        <3>3. IsOldest(all, 1, x, n + k)
            BY <1>1, <1>4, <3>1, <3>2 DEF IsOldest
        <3>4. c = all[n + k].old
            BY <1>1, <1>6, <3>1
        <3>5. QED
            BY <1>1, <1>4, <3>3, <3>4 DEF UndoneTo, UndoneFrom, all
    <2>3. CASE (\A k \in 1..l : ~Sets(then[k], x)) /\ b = a
        <3>1. \A k \in 1..(n+l) : ~Sets(all[k], x)
            BY <1>1, <1>2, <2>1, <2>3
        <3>2. QED
            BY <1>1, <1>6, <2>3, <3>1 DEF UndoneTo, UndoneFrom, all
    <2>4. QED
        BY <2>2, <2>3 DEF UndoneTo, UndoneFrom, l
<1>7. QED
    BY <1>5, <1>6 DEF UndoneTo, UndoneFrom, n

-----------------------------------------------------------------------------
(* What a transaction saves.                                                *)

(* t is s after it saved the change d.                                      *)
Saves(s, t, d) ==
    /\ t.active /\ d \in Change /\ t.changes = Append(s.changes, d)
    /\ \A x \in Cells : Value(s, x) = IF Sets(d, x) THEN d.old ELSE Value(t, x)

LEMMA SavesRecords ==
  ASSUME NEW s \in State, NEW t, NEW d, Recorded(s), Saves(s, t, d)
  PROVE  Recorded(t)
<1> SUFFICES ASSUME NEW x \in Cells
             PROVE  UndoneTo(t.changes, x, Value(t, x), Value(Opened, x))
    BY DEF Recorded
<1>1. s.changes \in Seq(Change)
    BY DEF State
<1>2. /\ d \in Change /\ t.changes = Append(s.changes, d)
      /\ Value(s, x) = IF Sets(d, x) THEN d.old ELSE Value(t, x)
    BY DEF Saves
<1>3. UndoneTo(s.changes, x, Value(s, x), Value(Opened, x))
    BY DEF Recorded
<1>4. QED
    BY <1>1, <1>2, <1>3, UndoOneLater

(* A change is saved while there is a step to save it in.                   *)
LEMMA SaveTypes ==
  ASSUME NEW s \in State, NEW d \in Change
  PROVE  /\ Save(s, d) \in State
         /\ Save(s, d).rows = s.rows /\ Save(s, d).mod = s.mod
         /\ Save(s, d).queues = s.queues /\ Save(s, d).active = s.active
         /\ s.active => Save(s, d).changes = Append(s.changes, d)
         /\ ~s.active => Save(s, d) = s
<1>1. Append(s.changes, d) \in Seq(Change)
    BY DEF State
<1>2. QED
    BY <1>1 DEF State, Save

LEMMA ChangeTypes ==
  /\ \A r \in Rows, old \in Row :
        /\ RowChange(r, old) \in Change
        /\ RowChange(r, old).type = "row" /\ RowChange(r, old).row = r /\ RowChange(r, old).old = old
  /\ \A old \in 0..MaxClock :
        /\ Modified(old) \in Change
        /\ Modified(old).type = "modified" /\ Modified(old).old = old
  /\ \A b \in Nat :
        QueueChange(b) \in Change /\ QueueChange(b).type = "queue" /\ QueueChange(b).built = b
BY DEF RowChange, Modified, QueueChange, Change

LEMMA WriteRowSaves ==
  ASSUME NEW s \in State, NEW r \in Rows, NEW row \in Row
  PROVE  /\ WriteRow(s, r, row) \in State
         /\ \A x \in Cells : Value(WriteRow(s, r, row), x) = IF x = r THEN row ELSE Value(s, x)
         /\ WriteRow(s, r, row).queues = s.queues /\ WriteRow(s, r, row).active = s.active
         /\ s.active => Saves(s, WriteRow(s, r, row), RowChange(r, s.rows[r]))
<1> DEFINE d == RowChange(r, s.rows[r])
<1> DEFINE saved == Save(s, d)
<1> DEFINE t == WriteRow(s, r, row)
<1>1. d \in Change /\ d.type = "row" /\ d.row = r /\ d.old = s.rows[r]
    BY ChangeTypes DEF State
<1>2. /\ saved \in State /\ saved.rows = s.rows /\ saved.mod = s.mod
      /\ saved.queues = s.queues /\ saved.active = s.active
      /\ s.active => saved.changes = Append(s.changes, d)
    BY <1>1, SaveTypes
<1>3. t = [saved EXCEPT !.rows[r] = row]
    BY DEF WriteRow
<1> HIDE DEF d, saved, t
<1>4. /\ t \in State /\ t.mod = saved.mod /\ t.queues = saved.queues /\ t.active = saved.active
      /\ t.changes = saved.changes
      /\ t.rows = [saved.rows EXCEPT ![r] = row]
    BY <1>2, <1>3 DEF State
<1>5. s.rows \in [Rows -> Row]
    BY DEF State
<1>6. \A x \in Cells : Value(t, x) = IF x = r THEN row ELSE Value(s, x)
    BY <1>2, <1>4, <1>5, TimeIsNoRow DEF Value, Cells
<1>7. ASSUME s.active PROVE Saves(s, t, d)
    <2>1. \A x \in Cells : Sets(d, x) <=> x = r
        BY <1>1, TimeIsNoRow DEF Sets, Cells
    <2>2. Value(s, r) = s.rows[r]
        BY TimeIsNoRow DEF Value
    <2>3. \A x \in Cells : Value(s, x) = IF Sets(d, x) THEN d.old ELSE Value(t, x)
        BY <1>1, <1>6, <2>1, <2>2
    <2>4. QED
        BY <1>1, <1>2, <1>4, <1>7, <2>3 DEF Saves
<1>8. QED
    BY <1>2, <1>4, <1>6, <1>7 DEF t, d

LEMMA SetModifiedSaves ==
  ASSUME NEW s \in State, NEW time \in 0..MaxClock
  PROVE  /\ SetModified(s, time) \in State
         /\ \A x \in Cells : Value(SetModified(s, time), x) = IF x = Time THEN time ELSE Value(s, x)
         /\ SetModified(s, time).queues = s.queues /\ SetModified(s, time).active = s.active
         /\ s.active => Saves(s, SetModified(s, time), Modified(s.mod))
<1> DEFINE d == Modified(s.mod)
<1> DEFINE saved == Save(s, d)
<1> DEFINE t == SetModified(s, time)
<1>1. d \in Change /\ d.type = "modified" /\ d.old = s.mod
    BY ChangeTypes DEF State
<1>2. /\ saved \in State /\ saved.rows = s.rows /\ saved.mod = s.mod
      /\ saved.queues = s.queues /\ saved.active = s.active
      /\ s.active => saved.changes = Append(s.changes, d)
    BY <1>1, SaveTypes
<1>3. t = [saved EXCEPT !.mod = time]
    BY DEF SetModified
<1> HIDE DEF d, saved, t
<1>4. /\ t \in State /\ t.rows = saved.rows /\ t.queues = saved.queues /\ t.active = saved.active
      /\ t.changes = saved.changes /\ t.mod = time
    BY <1>2, <1>3 DEF State
<1>6. \A x \in Cells : Value(t, x) = IF x = Time THEN time ELSE Value(s, x)
    BY <1>2, <1>4 DEF Value
<1>7. ASSUME s.active PROVE Saves(s, t, d)
    <2>1. \A x \in Cells : Sets(d, x) <=> x = Time
        BY <1>1 DEF Sets
    <2>2. Value(s, Time) = s.mod
        BY DEF Value
    <2>3. \A x \in Cells : Value(s, x) = IF Sets(d, x) THEN d.old ELSE Value(t, x)
        BY <1>1, <1>6, <2>1, <2>2
    <2>4. QED
        BY <1>1, <1>2, <1>4, <1>7, <2>3 DEF Saves
<1>8. QED
    BY <1>2, <1>4, <1>6, <1>7 DEF t, d

LEMMA QueueChangeSaves ==
  ASSUME NEW s \in State, NEW d \in Change, d.type = "queue"
  PROVE  /\ Save(s, d) \in State
         /\ \A x \in Cells : Value(Save(s, d), x) = Value(s, x) /\ ~Sets(d, x)
         /\ Save(s, d).queues = s.queues /\ Save(s, d).active = s.active
         /\ s.active => Saves(s, Save(s, d), d)
<1>1. /\ Save(s, d) \in State
      /\ Save(s, d).rows = s.rows /\ Save(s, d).mod = s.mod
      /\ Save(s, d).queues = s.queues /\ Save(s, d).active = s.active
      /\ s.active => Save(s, d).changes = Append(s.changes, d)
    BY SaveTypes
<1>2. \A x \in Cells : Value(Save(s, d), x) = Value(s, x) /\ ~Sets(d, x)
    BY <1>1 DEF Value, Sets
<1>3. QED
    BY <1>1, <1>2 DEF Saves

(* Checking that the queues are of today changes no row.                    *)
LEMMA QueuesChecked ==
  ASSUME NEW s \in State, NEW built
  PROVE  /\ GetOrInvalidate(s, built) \in State
         /\ GetOrInvalidate(s, built).rows = s.rows /\ GetOrInvalidate(s, built).mod = s.mod
         /\ GetOrInvalidate(s, built).queues \in {s.queues, NoQueues}
         /\ GetOrInvalidate(s, built).active =>
                s.active /\ GetOrInvalidate(s, built).changes = s.changes
<1> DEFINE t == ClearIfDayChanged(s)
<1>1. NoQueues \in Queues /\ <<>> \in Seq(Change)
    BY DEF NoQueues, Queues
<1>2. /\ t \in State /\ t.rows = s.rows /\ t.mod = s.mod /\ t.queues \in {s.queues, NoQueues}
      /\ t.active => s.active /\ t.changes = s.changes
    BY <1>1 DEF ClearIfDayChanged, State
<1>3. GetOrInvalidate(s, built) = IF t.queues.built = built THEN t ELSE [t EXCEPT !.queues = NoQueues]
    BY DEF GetOrInvalidate
<1> HIDE DEF t
<1>4. QED
    BY <1>1, <1>2, <1>3 DEF State

LEMMA ChangeKinds ==
  ASSUME NEW c \in Change
  PROVE  \/ c.type = "row" /\ c.row \in Rows /\ c.old \in Row
         \/ c.type = "modified" /\ c.old \in 0..MaxClock
         \/ c.type = "queue" /\ c.built \in Nat
BY DEF Change

LEMMA UndoChangeEffect ==
  ASSUME NEW s \in State, NEW c \in Change
  PROVE  /\ UndoChange(s, c) \in State
         /\ \A x \in Cells : Value(UndoChange(s, c), x) = IF Sets(c, x) THEN c.old ELSE Value(s, x)
         /\ UndoChange(s, c).queues \in {s.queues, NoQueues}
         /\ UndoChange(s, c).active =>
                s.active /\ \E d : Saves(s, UndoChange(s, c), d) /\ d.type = c.type
<1> DEFINE t == UndoChange(s, c)
<1>1. CASE c.type = "row"
    <2>1. c.row \in Rows /\ c.old \in Row
        BY <1>1, ChangeKinds
    <2>2. t = WriteRow(s, c.row, c.old)
        BY <1>1 DEF UndoChange
    <2>3. \A x \in Cells : Sets(c, x) <=> x = c.row
        BY <1>1, <2>1, TimeIsNoRow DEF Sets, Cells
    <2>4. RowChange(c.row, s.rows[c.row]).type = "row"
        BY DEF RowChange
    <2>5. /\ t \in State
          /\ \A x \in Cells : Value(t, x) = IF x = c.row THEN c.old ELSE Value(s, x)
          /\ t.queues = s.queues /\ t.active = s.active
          /\ s.active => Saves(s, t, RowChange(c.row, s.rows[c.row]))
        BY <2>1, <2>2, WriteRowSaves
    <2> HIDE DEF t
    <2>6. \A x \in Cells : Value(t, x) = IF Sets(c, x) THEN c.old ELSE Value(s, x)
        BY <2>3, <2>5
    <2>7. QED
        BY <1>1, <2>4, <2>5, <2>6 DEF t
<1>2. CASE c.type = "modified"
    <2>1. c.old \in 0..MaxClock
        BY <1>2, ChangeKinds
    <2>2. t = SetModified(s, c.old)
        BY <1>2 DEF UndoChange
    <2>3. \A x \in Cells : Sets(c, x) <=> x = Time
        BY <1>2 DEF Sets
    <2>4. Modified(s.mod).type = "modified"
        BY DEF Modified
    <2>5. /\ t \in State
          /\ \A x \in Cells : Value(t, x) = IF x = Time THEN c.old ELSE Value(s, x)
          /\ t.queues = s.queues /\ t.active = s.active
          /\ s.active => Saves(s, t, Modified(s.mod))
        BY <2>1, <2>2, SetModifiedSaves
    <2> HIDE DEF t
    <2>6. \A x \in Cells : Value(t, x) = IF Sets(c, x) THEN c.old ELSE Value(s, x)
        BY <2>3, <2>5
    <2>7. QED
        BY <1>2, <2>4, <2>5, <2>6 DEF t
<1>3. CASE c.type = "queue"
    <2> DEFINE g == GetOrInvalidate(s, c.built)
    <2>1. t = Save(g, c)
        BY <1>3 DEF UndoChange
    <2>2. /\ g \in State /\ g.rows = s.rows /\ g.mod = s.mod
          /\ g.queues \in {s.queues, NoQueues}
          /\ g.active => s.active /\ g.changes = s.changes
        BY QueuesChecked
    <2> HIDE DEF g
    <2>3. /\ t \in State
          /\ \A x \in Cells : Value(t, x) = Value(g, x) /\ ~Sets(c, x)
          /\ t.queues = g.queues /\ t.active = g.active
          /\ g.active => Saves(g, t, c)
        BY <1>3, <2>1, <2>2, QueueChangeSaves
    <2> HIDE DEF t
    <2>4. \A x \in Cells : Value(g, x) = Value(s, x)
        BY <2>2 DEF Value
    <2>5. ASSUME t.active PROVE Saves(s, t, c)
        BY <2>2, <2>3, <2>4, <2>5 DEF Saves
    <2>6. QED
        BY <2>2, <2>3, <2>4, <2>5 DEF t
<1>4. QED
    BY <1>1, <1>2, <1>3, ChangeKinds

-----------------------------------------------------------------------------
(* Undoing all the changes of a step.                                       *)

Undone(s, changes) == FoldLeft(UndoChange, s, changes)

LEMMA UndoneIsFold ==
  ASSUME NEW s, NEW changes
  PROVE  Undone(s, changes) = Undoing!Fold(s, changes)
BY Zenon DEF Undone, Undoing!Fold, FoldLeft, Undoing!FoldLeft,
             MapThenFoldSet, Undoing!MapThenFoldSet, Max, Undoing!Max

LEMMA UndoAllIsUndone ==
  ASSUME NEW s, NEW changes
  PROVE  UndoAll(s, changes) = Undone(s, Reverse(changes))
BY DEF UndoAll, Undone

(* No change gives back a time after c.                                     *)
Timely(changes, c) ==
    \A k \in 1..Len(changes) : changes[k].type = "modified" => changes[k].old <= c

(* t is s with the newest k of the changes undone.                          *)
UndoneNewest(s, t, changes, k) ==
    /\ t \in State
    /\ \A x \in Cells : UndoneFrom(changes, (Len(changes) - k) + 1, x, Value(s, x), Value(t, x))
    /\ t.queues \in {s.queues, NoQueues}
    /\ t.active =>
           /\ Recorded(s) => Recorded(t)
           /\ s.changes = <<>> =>
                  /\ Len(t.changes) = k
                  /\ \A j \in 1..k : t.changes[j].type = changes[(Len(changes) - j) + 1].type
    /\ \A c \in Nat : s.changes = <<>> /\ s.mod <= c /\ Timely(changes, c) =>
           t.mod <= c /\ (t.active => Timely(t.changes, c))

LEMMA UndoNextNewest ==
  ASSUME NEW s \in State, NEW t, NEW u, NEW changes \in Seq(Change), NEW k \in 0..(Len(changes) - 1),
         UndoneNewest(s, t, changes, k), u = UndoChange(t, changes[Len(changes) - k])
  PROVE  UndoneNewest(s, u, changes, k + 1)
<1> DEFINE n == Len(changes)
<1> DEFINE c == changes[n - k]
<1>1. n \in Nat /\ n - k \in 1..n /\ c \in Change
    OBVIOUS
<1>2. /\ t \in State
      /\ \A x \in Cells : UndoneFrom(changes, (n - k) + 1, x, Value(s, x), Value(t, x))
      /\ t.queues \in {s.queues, NoQueues}
    BY DEF UndoneNewest
<1>9. u = UndoChange(t, c)
    OBVIOUS
<1> HIDE DEF c
<1>3. /\ u \in State
      /\ \A x \in Cells : Value(u, x) = IF Sets(c, x) THEN c.old ELSE Value(t, x)
      /\ u.queues \in {t.queues, NoQueues}
      /\ u.active => t.active /\ \E d : Saves(t, u, d) /\ d.type = c.type
    <2>1. t \in State /\ c \in Change
        BY <1>1, <1>2
    <2>2. /\ UndoChange(t, c) \in State
          /\ \A x \in Cells : Value(UndoChange(t, c), x) = IF Sets(c, x) THEN c.old ELSE Value(t, x)
          /\ UndoChange(t, c).queues \in {t.queues, NoQueues}
          /\ UndoChange(t, c).active =>
                 t.active /\ \E d : Saves(t, UndoChange(t, c), d) /\ d.type = c.type
        BY <2>1, UndoChangeEffect
    <2>3. QED
        BY <1>9, <2>2, Zenon
<1>4. ASSUME NEW x \in Cells
      PROVE  UndoneFrom(changes, n - k, x, Value(s, x), Value(u, x))
    <2>1. n - k \in Nat \ {0} /\ n - k <= n
        BY <1>1
    <2>2. QED
        BY <1>1, <1>2, <1>3, <2>1, UndoOneMore DEF c
<1>5. n - k = (n - (k + 1)) + 1
    BY <1>1
<1>6. ASSUME u.active
      PROVE  /\ Recorded(s) => Recorded(u)
             /\ s.changes = <<>> =>
                    /\ Len(u.changes) = k + 1
                    /\ \A j \in 1..(k+1) : u.changes[j].type = changes[(n - j) + 1].type
    <2>1. PICK d : Saves(t, u, d) /\ d.type = c.type
        BY <1>3, <1>6
    <2>2. /\ Recorded(s) => Recorded(t)
          /\ s.changes = <<>> =>
                  /\ Len(t.changes) = k
                  /\ \A j \in 1..k : t.changes[j].type = changes[(n - j) + 1].type
        BY <1>3, <1>6 DEF UndoneNewest
    <2>3. Recorded(s) => Recorded(u)
        BY <1>2, <2>1, <2>2, SavesRecords
    <2>4. ASSUME s.changes = <<>>
          PROVE  /\ Len(u.changes) = k + 1
                 /\ \A j \in 1..(k+1) : u.changes[j].type = changes[(n - j) + 1].type
        <3>1. u.changes = Append(t.changes, d) /\ t.changes \in Seq(Change) /\ d \in Change
            BY <1>2, <2>1 DEF Saves, State
        <3>2. Len(t.changes) = k /\ \A j \in 1..k : t.changes[j].type = changes[(n - j) + 1].type
            BY <2>2, <2>4
        <3>3. /\ Len(u.changes) = k + 1 /\ u.changes[k + 1] = d
              /\ \A j \in 1..k : u.changes[j] = t.changes[j]
            BY <3>1, <3>2
        <3>4. (n - (k + 1)) + 1 = n - k
            BY <1>1
        <3>5. u.changes[k + 1].type = changes[(n - (k + 1)) + 1].type
            BY <2>1, <3>3, <3>4 DEF c
        <3>6. \A j \in 1..(k+1) : j \in 1..k \/ j = k + 1
            OBVIOUS
        <3>7. QED
            BY <3>2, <3>3, <3>5, <3>6
    <2>5. QED
        BY <2>3, <2>4
<1>7. u.queues \in {s.queues, NoQueues}
    BY <1>2, <1>3
<1>8. ASSUME NEW b \in Nat, s.changes = <<>>, s.mod <= b, Timely(changes, b)
      PROVE  u.mod <= b /\ (u.active => Timely(u.changes, b))
    <2>1. t.mod <= b /\ (t.active => Timely(t.changes, b))
        BY <1>8 DEF UndoneNewest
    <2>2. Value(u, Time) = u.mod /\ Value(t, Time) = t.mod /\ Time \in Cells
        BY DEF Value, Cells
    <2>3. Sets(c, Time) => c.old <= b
        BY <1>1, <1>8 DEF Sets, Timely, c
    <2>4. u.mod <= b
        BY <1>3, <2>1, <2>2, <2>3
    <2>5. ASSUME u.active PROVE Timely(u.changes, b)
        <3>1. PICK d : Saves(t, u, d) /\ d.type = c.type
            BY <1>3, <2>5
        <3>2. u.changes = Append(t.changes, d) /\ t.changes \in Seq(Change) /\ d \in Change
            BY <1>2, <3>1 DEF Saves, State
        <3>3. d.type = "modified" => d.old = t.mod
            BY <2>2, <3>1 DEF Saves, Sets
        <3>4. Timely(t.changes, b)
            BY <1>3, <2>1, <2>5
        <3>5. \A k1 \in 1..Len(u.changes) :
                  \/ k1 \in 1..Len(t.changes) /\ u.changes[k1] = t.changes[k1]
                  \/ u.changes[k1] = d
            BY <3>2
        <3>6. QED
            BY <2>1, <3>3, <3>4, <3>5 DEF Timely
    <2>6. QED
        BY <2>4, <2>5
<1>10. QED
    BY <1>3, <1>4, <1>5, <1>6, <1>7, <1>8 DEF UndoneNewest

(* What undoing a step does to the rows and the modification time, and what *)
(* it saves: the same changes in the reverse order, with which it can be    *)
(* undone.                                                                  *)
LEMMA UndoAllEffect ==
  ASSUME NEW s \in State, NEW changes \in Seq(Change)
  PROVE  UndoneNewest(s, UndoAll(s, changes), changes, Len(changes))
<1> DEFINE n == Len(changes)
<1> DEFINE rev == Reverse(changes)
<1>1. n \in Nat /\ DOMAIN rev = 1..n /\ \A k \in 1..n : rev[k] = changes[(n - k) + 1]
    BY DEF Reverse
<1>2. UndoAll(s, changes) = Undoing!Fold(s, rev)
    BY UndoAllIsUndone, UndoneIsFold
<1> HIDE DEF rev, n
<1>3. PICK v : /\ v[0] = s
               /\ \A k \in 1..n : v[k] = UndoChange(v[k-1], rev[k])
               /\ v[n] = Undoing!Fold(s, rev)
    BY <1>1, Undoing!FoldTrace
<1> DEFINE H == {k \in 0..n : UndoneNewest(s, v[k], changes, k)}
<1>4. 0 \in H
    <2>1. \A x \in Cells : UndoneFrom(changes, n + 1, x, Value(s, x), Value(s, x))
        BY <1>1, NothingUndone DEF n
    <2>2. s.changes = <<>> => Len(s.changes) = 0
        OBVIOUS
    <2>3. (n - 0) + 1 = n + 1 /\ 1..0 = {}
        BY <1>1
    <2>6. s.changes = <<>> => \A c : Timely(s.changes, c)
        BY DEF Timely
    <2>4. UndoneNewest(s, s, changes, 0)
        BY <2>1, <2>2, <2>3, <2>6 DEF UndoneNewest, n
    <2>5. QED
        BY <1>1, <1>3, <2>4
<1>5. ASSUME NEW k \in 0..(n-1), k \in H PROVE k + 1 \in H
    <2>1. k + 1 \in 1..n /\ (k + 1) - 1 = k /\ (n - (k + 1)) + 1 = n - k
        BY <1>1
    <2>2. v[k + 1] = UndoChange(v[k], changes[n - k])
        BY <1>1, <1>3, <2>1
    <2>3. UndoneNewest(s, v[k + 1], changes, k + 1)
        BY <1>5, <2>2, UndoNextNewest DEF n
    <2>4. QED
        BY <2>1, <2>3
<1>6. H = 0..n
    <2> HIDE DEF H
    <2>1. H \in SUBSET (0..n)
        BY DEF H
    <2>2. QED
        BY <1>1, <1>4, <1>5, <2>1, Undoing!Induct
<1>7. n \in H
    BY <1>1, <1>6
<1>8. QED
    BY <1>2, <1>3, <1>7 DEF n

-----------------------------------------------------------------------------
(* The stacks.                                                              *)

LEMMA PushedSteps ==
  ASSUME NEW steps \in Seq(StepType), NEW step \in StepType
  PROVE  /\ Push(steps, step) \in Seq(StepType)
         /\ Len(Push(steps, step)) \in Nat \ {0} /\ Len(Push(steps, step)) <= UNDO_LIMIT
         /\ Len(Push(steps, step)) <= Len(steps) + 1
         /\ Push(steps, step)[1] = step
         /\ \A i \in 2..Len(Push(steps, step)) :
                i - 1 \in 1..Len(steps) /\ Push(steps, step)[i] = steps[i - 1]
<1> DEFINE n == Len(steps)
<1> DEFINE m == IF n < UNDO_LIMIT THEN n ELSE UNDO_LIMIT - 1
<1> DEFINE kept == SubSeq(steps, 1, m)
<1> DEFINE p == Push(steps, step)
<1>1. n \in Nat /\ UNDO_LIMIT \in Nat \ {0}
    BY UndoBounds
<1>2. m \in Nat /\ m <= n /\ m + 1 <= UNDO_LIMIT
    BY <1>1
<1>3. p = <<step>> \o kept
    BY DEF Push
<1> HIDE DEF m, p
<1>4. \A i \in 1..m : steps[i] \in StepType
    BY <1>1, <1>2
<1>5. kept \in Seq(StepType) /\ Len(kept) = m /\ \A i \in 1..m : kept[i] = steps[i]
    BY <1>1, <1>2, <1>4
<1> HIDE DEF kept, n
<1>6. /\ p \in Seq(StepType) /\ Len(p) = m + 1 /\ p[1] = step
      /\ \A i \in 2..(m+1) : p[i] = kept[i - 1]
    BY <1>2, <1>3, <1>5
<1>7. \A i \in 2..(m+1) : i - 1 \in 1..m /\ i - 1 \in 1..n
    BY <1>1, <1>2
<1>8. QED
    BY <1>1, <1>2, <1>5, <1>6, <1>7 DEF p, n

LEMMA EmptyStacks ==
  ASSUME NEW now, NEW ls, NEW c, NEW n
  PROVE  UndoStack(<<>>, now, ls, c, n) /\ RedoStack(<<>>, now, ls, c)
BY DEF UndoStack, RedoStack

(* The stacks only depend on the rows that can be undone, and time may pass. *)
LEMMA StacksKept ==
  ASSUME NEW us, NEW rs, NEW now, NEW later, NEW ls,
         NEW c \in Nat, NEW d \in Nat, NEW n \in Nat, NEW m \in Nat, c <= d, n <= m,
         \A r \in Undoable : now[r] = later[r]
  PROVE  /\ UndoStack(us, now, ls, c, n) => UndoStack(us, later, ls, d, m)
         /\ RedoStack(rs, now, ls, c) => RedoStack(rs, later, ls, d)
<1>1. ASSUME NEW step \in StepType, GoodStep(step, ls, c) PROVE GoodStep(step, ls, d)
    <2>1. \A k \in 1..Len(step.changes) :
              step.changes[k].type = "modified" => step.changes[k].old \in 0..MaxClock
        BY DEF StepType, Change
    <2>2. QED
        BY <1>1, <2>1 DEF GoodStep, GoodChanges
<1>2. ASSUME UndoStack(us, now, ls, c, n) PROVE UndoStack(us, later, ls, d, m)
    <2>1. us \in Seq(StepType)
        BY <1>2 DEF UndoStack
    <2>2. ASSUME NEW i \in 1..Len(us)
          PROVE  /\ GoodStep(us[i], ls, d) /\ ModifiedLast(us[i].changes)
                 /\ \A r \in Undoable :
                        UndoneTo(us[i].changes, r, Above(us, later, i, r), us[i].before[r])
                 /\ us[i].counter <= m
                 /\ i > 1 => us[i].counter < us[i - 1].counter
        <3>1. us[i] \in StepType
            BY <2>1
        <3>2. us[i].counter \in Nat
            BY <3>1 DEF StepType
        <3>3. \A r \in Undoable : Above(us, later, i, r) = Above(us, now, i, r)
            BY DEF Above
        <3>4. /\ GoodStep(us[i], ls, c) /\ ModifiedLast(us[i].changes)
              /\ \A r \in Undoable :
                     UndoneTo(us[i].changes, r, Above(us, now, i, r), us[i].before[r])
              /\ us[i].counter <= n
              /\ i > 1 => us[i].counter < us[i - 1].counter
            BY <1>2 DEF UndoStack
        <3>5. us[i].counter <= m
            BY <3>2, <3>4
        <3>6. QED
            BY <1>1, <3>1, <3>3, <3>4, <3>5
    <2>3. QED
        BY <2>1, <2>2 DEF UndoStack
<1>3. ASSUME RedoStack(rs, now, ls, c) PROVE RedoStack(rs, later, ls, d)
    <2>1. rs \in Seq(StepType)
        BY <1>3 DEF RedoStack
    <2>2. ASSUME NEW i \in 1..Len(rs)
          PROVE  /\ GoodStep(rs[i], ls, d) /\ ModifiedFirst(rs[i].changes)
                 /\ \A r \in Undoable :
                        UndoneTo(rs[i].changes, r, Below(rs, later, i, r), rs[i].before[r])
        <3>1. rs[i] \in StepType
            BY <2>1
        <3>3. \A r \in Undoable : Below(rs, later, i, r) = Below(rs, now, i, r)
            BY DEF Below
        <3>4. /\ GoodStep(rs[i], ls, c) /\ ModifiedFirst(rs[i].changes)
              /\ \A r \in Undoable :
                     UndoneTo(rs[i].changes, r, Below(rs, now, i, r), rs[i].before[r])
            BY <1>3 DEF RedoStack
        <3>6. QED
            BY <1>1, <3>1, <3>3, <3>4
    <2>3. QED
        BY <2>1, <2>2 DEF RedoStack
<1>4. QED
    BY <1>2, <1>3

(* A step that takes the rows from after back to now is pushed.             *)
LEMMA UndoPushed ==
  ASSUME NEW steps, NEW step \in StepType, NEW now, NEW after, NEW ls, NEW c, NEW n \in Nat,
         UndoStack(steps, now, ls, c, n),
         GoodStep(step, ls, c), ModifiedLast(step.changes), step.counter = n + 1,
         \A r \in Undoable : step.before[r] = now[r],
         \A r \in Undoable : UndoneTo(step.changes, r, after[r], now[r])
  PROVE  UndoStack(Push(steps, step), after, ls, c, n + 1)
<1> DEFINE p == Push(steps, step)
<1>1. steps \in Seq(StepType)
    BY DEF UndoStack
<1>2. /\ p \in Seq(StepType) /\ Len(p) \in Nat /\ Len(p) >= 1 /\ p[1] = step
      /\ \A i \in 2..Len(p) : i - 1 \in 1..Len(steps) /\ p[i] = steps[i - 1]
    <2>1. /\ p \in Seq(StepType) /\ Len(p) \in Nat \ {0} /\ p[1] = step
          /\ \A i \in 2..Len(p) : i - 1 \in 1..Len(steps) /\ p[i] = steps[i - 1]
        BY <1>1, PushedSteps, Zenon
    <2> HIDE DEF p
    <2>2. QED
        BY <2>1
<1> HIDE DEF p
<1>3. ASSUME NEW i \in 1..Len(p)
      PROVE  /\ GoodStep(p[i], ls, c) /\ ModifiedLast(p[i].changes)
             /\ \A r \in Undoable : UndoneTo(p[i].changes, r, Above(p, after, i, r), p[i].before[r])
             /\ p[i].counter <= n + 1
             /\ i > 1 => p[i].counter < p[i - 1].counter
    <2>1. CASE i = 1
        <3>1. \A r \in Undoable : Above(p, after, i, r) = after[r]
            BY <2>1 DEF Above
        <3>2. p[i] = step
            BY <1>2, <2>1
        <3>3. QED
            BY <2>1, <3>1, <3>2
    <2>2. CASE i # 1
        <3>1. i \in 2..Len(p) /\ i - 1 \in 1..Len(steps) /\ p[i] = steps[i - 1]
            BY <1>2, <2>2
        <3> DEFINE j == i - 1
        <3>2. j \in 1..Len(steps) /\ p[i] = steps[j]
            BY <3>1
        <3>3. /\ GoodStep(steps[j], ls, c) /\ ModifiedLast(steps[j].changes)
              /\ \A r \in Undoable :
                     UndoneTo(steps[j].changes, r, Above(steps, now, j, r), steps[j].before[r])
              /\ steps[j].counter <= n
              /\ j > 1 => steps[j].counter < steps[j - 1].counter
            BY <3>2 DEF UndoStack
        <3>8. steps[j] \in StepType
            BY <1>1, <3>2
        <3>9. steps[j].counter \in Nat
            BY <3>8 DEF StepType
        <3>4. steps[j].counter \in Nat /\ Len(steps) \in Nat /\ j \in Nat /\ i \in Nat
            BY <1>1, <1>2, <3>1, <3>9
        <3>5. CASE j = 1
            <4>1. p[i - 1] = step
                BY <1>2, <3>5
            <4>2. \A r \in Undoable : Above(p, after, i, r) = Above(steps, now, j, r)
                BY <2>2, <3>5, <4>1 DEF Above
            <4>3. p[i].counter < p[i - 1].counter /\ p[i].counter <= n + 1
                BY <3>2, <3>3, <3>4, <4>1
            <4>4. QED
                BY <3>2, <3>3, <4>2, <4>3
        <3>6. CASE j # 1
            <4>1. j \in 2..Len(p) /\ p[j] = steps[j - 1]
                BY <1>2, <3>1, <3>4, <3>6
            <4>2. \A r \in Undoable : Above(p, after, i, r) = Above(steps, now, j, r)
                BY <2>2, <3>6, <4>1 DEF Above
            <4>3. p[i].counter < p[i - 1].counter /\ p[i].counter <= n + 1
                BY <3>2, <3>3, <3>4, <3>6, <4>1
            <4>4. QED
                BY <3>2, <3>3, <4>2, <4>3
        <3>7. QED
            BY <3>5, <3>6
    <2>3. QED
        BY <2>1, <2>2
<1>4. QED
    BY <1>2, <1>3 DEF UndoStack, p

(* The newest step is undone.                                               *)
LEMMA UndoPopped ==
  ASSUME NEW steps, NEW now, NEW after, NEW ls, NEW c, NEW n \in Nat,
         UndoStack(steps, now, ls, c, n), steps # <<>>,
         \A r \in Undoable : after[r] = Head(steps).before[r]
  PROVE  UndoStack(Tail(steps), after, ls, c, n)
<1> DEFINE t == Tail(steps)
<1>1. steps \in Seq(StepType)
    BY DEF UndoStack
<1>2. /\ t \in Seq(StepType) /\ Len(t) = Len(steps) - 1 /\ Len(steps) \in Nat
      /\ \A i \in 1..Len(t) : i + 1 \in 1..Len(steps) /\ t[i] = steps[i + 1]
      /\ Head(steps) = steps[1]
    BY <1>1
<1> HIDE DEF t
<1>3. ASSUME NEW i \in 1..Len(t)
      PROVE  /\ GoodStep(t[i], ls, c) /\ ModifiedLast(t[i].changes)
             /\ \A r \in Undoable : UndoneTo(t[i].changes, r, Above(t, after, i, r), t[i].before[r])
             /\ t[i].counter <= n
             /\ i > 1 => t[i].counter < t[i - 1].counter
    <2> DEFINE j == i + 1
    <2>1. j \in 1..Len(steps) /\ t[i] = steps[j] /\ j > 1 /\ i \in Nat /\ j - 1 = i
        BY <1>2
    <2> HIDE DEF j
    <2>2. /\ GoodStep(steps[j], ls, c) /\ ModifiedLast(steps[j].changes)
          /\ \A r \in Undoable :
                 UndoneTo(steps[j].changes, r, Above(steps, now, j, r), steps[j].before[r])
          /\ steps[j].counter <= n
          /\ steps[j].counter < steps[j - 1].counter
        BY <2>1 DEF UndoStack
    <2>3. CASE i = 1
        <3>1. \A r \in Undoable : Above(t, after, i, r) = Above(steps, now, j, r)
            BY <1>2, <2>1, <2>3 DEF Above
        <3>2. QED
            BY <2>1, <2>2, <2>3, <3>1
    <2>4. CASE i # 1
        <3>1. i - 1 \in 1..Len(t) /\ (i - 1) + 1 = i
            BY <1>2, <2>1, <2>4
        <3>2. t[i - 1] = steps[i]
            BY <1>2, <3>1
        <3>3. \A r \in Undoable : Above(t, after, i, r) = Above(steps, now, j, r)
            BY <2>1, <2>4, <3>2 DEF Above
        <3>4. QED
            BY <2>1, <2>2, <3>2, <3>3
    <2>5. QED
        BY <2>3, <2>4
<1>4. QED
    BY <1>2, <1>3 DEF UndoStack, t

(* A note update that joins the step before it leaves the stack as it is:   *)
(* that step gives the note back whatever was written to it since.          *)
LEMMA CoalescedKept ==
  ASSUME NEW steps, NEW now, NEW after, NEW ls, NEW c, NEW n,
         UndoStack(steps, now, ls, c, n), steps # <<>>, IsNoteUpdate(steps[1].changes),
         \A r \in Undoable : r # steps[1].changes[1].row => after[r] = now[r]
  PROVE  UndoStack(steps, after, ls, c, n)
<1> DEFINE note == steps[1].changes[1].row
<1>1. steps \in Seq(StepType)
    BY DEF UndoStack
<1>2. ASSUME NEW i \in 1..Len(steps), NEW r \in Undoable
      PROVE  UndoneTo(steps[i].changes, r, Above(steps, after, i, r), steps[i].before[r])
    <2>1. UndoneTo(steps[i].changes, r, Above(steps, now, i, r), steps[i].before[r])
        BY DEF UndoStack
    <2>2. CASE i # 1 \/ r # note
        <3>1. Above(steps, after, i, r) = Above(steps, now, i, r)
            BY <2>2 DEF Above
        <3>2. QED
            BY <2>1, <3>1
    <2>3. CASE i = 1 /\ r = note
        <3>1. r # Time /\ steps[i].changes[1].type = "row" /\ Len(steps[i].changes) = 2
            BY <2>3, TimeIsNoRow DEF IsNoteUpdate, Rows
        <3>2. Sets(steps[i].changes[1], r)
            BY <2>3, <3>1 DEF Sets
        <3>3. PICK k \in 1..Len(steps[i].changes) :
                  IsOldest(steps[i].changes, 1, r, k) /\ steps[i].before[r] = steps[i].changes[k].old
            BY <2>1, <3>1, <3>2 DEF UndoneTo, UndoneFrom
        <3>4. QED
            BY <3>3 DEF UndoneTo, UndoneFrom
    <2>4. QED
        BY <2>2, <2>3
<1>3. QED
    BY <1>1, <1>2 DEF UndoStack

LEMMA RedoPushed ==
  ASSUME NEW steps, NEW step \in StepType, NEW now, NEW after, NEW ls, NEW c,
         RedoStack(steps, now, ls, c),
         GoodStep(step, ls, c), ModifiedFirst(step.changes),
         \A r \in Undoable : step.before[r] = now[r],
         \A r \in Undoable : UndoneTo(step.changes, r, after[r], now[r])
  PROVE  RedoStack(Append(steps, step), after, ls, c)
<1> DEFINE p == Append(steps, step)
<1> DEFINE l == Len(steps)
<1>1. steps \in Seq(StepType)
    BY DEF RedoStack
<1>2. /\ p \in Seq(StepType) /\ l \in Nat /\ Len(p) = l + 1 /\ p[l + 1] = step
      /\ \A i \in 1..l : p[i] = steps[i] /\ i # l + 1
    BY <1>1
<1> HIDE DEF p
<1>3. ASSUME NEW i \in 1..Len(p)
      PROVE  /\ GoodStep(p[i], ls, c) /\ ModifiedFirst(p[i].changes)
             /\ \A r \in Undoable : UndoneTo(p[i].changes, r, Below(p, after, i, r), p[i].before[r])
    <2>1. CASE i = l + 1
        BY <1>2, <2>1 DEF Below
    <2>2. CASE i # l + 1
        <3>1. i \in 1..l /\ p[i] = steps[i] /\ i # Len(p)
            BY <1>2, <2>2
        <3>2. /\ GoodStep(steps[i], ls, c) /\ ModifiedFirst(steps[i].changes)
              /\ \A r \in Undoable :
                     UndoneTo(steps[i].changes, r, Below(steps, now, i, r), steps[i].before[r])
            BY <3>1 DEF RedoStack
        <3>3. CASE i = l
            <4>1. p[i + 1] = step
                BY <1>2, <3>3
            <4>2. \A r \in Undoable : Below(p, after, i, r) = Below(steps, now, i, r)
                BY <3>1, <3>3, <4>1 DEF Below
            <4>3. QED
                BY <3>1, <3>2, <4>2
        <3>4. CASE i # l
            <4>1. i + 1 \in 1..l
                BY <1>2, <3>1, <3>4
            <4>2. p[i + 1] = steps[i + 1]
                BY <1>2, <4>1
            <4>3. \A r \in Undoable : Below(p, after, i, r) = Below(steps, now, i, r)
                BY <3>1, <3>4, <4>2 DEF Below
            <4>4. QED
                BY <3>1, <3>2, <4>3
        <3>5. QED
            BY <3>3, <3>4
    <2>3. QED
        BY <2>1, <2>2
<1>4. QED
    BY <1>2, <1>3 DEF RedoStack, p

LEMMA RedoPopped ==
  ASSUME NEW steps, NEW now, NEW after, NEW ls, NEW c,
         RedoStack(steps, now, ls, c), steps # <<>>,
         \A r \in Undoable : after[r] = Last(steps).before[r]
  PROVE  RedoStack(Front(steps), after, ls, c)
<1> DEFINE t == Front(steps)
<1> DEFINE l == Len(steps)
<1>1. steps \in Seq(StepType)
    BY DEF RedoStack
<1>2. l \in Nat \ {0} /\ Last(steps) = steps[l]
    BY <1>1 DEF Last
<1>3. /\ t \in Seq(StepType) /\ Len(t) = l - 1
      /\ \A i \in 1..(l-1) : i \in 1..l /\ i # l /\ t[i] = steps[i]
    <2>1. t = SubSeq(steps, 1, l - 1)
        BY DEF Front
    <2>2. \A i \in 1..(l-1) : i \in 1..l /\ i # l /\ steps[i] \in StepType
        BY <1>1, <1>2
    <2> HIDE DEF t, l
    <2>3. QED
        BY <1>2, <2>1, <2>2
<1> HIDE DEF t
<1>4. ASSUME NEW i \in 1..Len(t)
      PROVE  /\ GoodStep(t[i], ls, c) /\ ModifiedFirst(t[i].changes)
             /\ \A r \in Undoable : UndoneTo(t[i].changes, r, Below(t, after, i, r), t[i].before[r])
    <2>1. i \in 1..(l-1) /\ i \in 1..l /\ i # l /\ t[i] = steps[i]
        BY <1>3
    <2>2. /\ GoodStep(steps[i], ls, c) /\ ModifiedFirst(steps[i].changes)
          /\ \A r \in Undoable :
                 UndoneTo(steps[i].changes, r, Below(steps, now, i, r), steps[i].before[r])
        BY <2>1 DEF RedoStack
    <2>3. CASE i = l - 1
        <3>1. i + 1 = l
            BY <1>2, <2>3
        <3>2. \A r \in Undoable : Below(t, after, i, r) = Below(steps, now, i, r)
            BY <1>2, <1>3, <2>1, <2>3, <3>1 DEF Below
        <3>3. QED
            BY <2>1, <2>2, <3>2
    <2>4. CASE i # l - 1
        <3>1. i + 1 \in 1..(l-1)
            BY <1>2, <2>1, <2>4
        <3>2. t[i + 1] = steps[i + 1]
            BY <1>3, <3>1
        <3>3. \A r \in Undoable : Below(t, after, i, r) = Below(steps, now, i, r)
            BY <1>3, <2>1, <2>4, <3>2 DEF Below
        <3>4. QED
            BY <2>1, <2>2, <3>3
    <2>5. QED
        BY <2>3, <2>4
<1>5. QED
    BY <1>3, <1>4 DEF RedoStack, t

-----------------------------------------------------------------------------
(* Merging steps.                                                           *)

LEMMA GoodJoined ==
  ASSUME NEW first \in Seq(Change), NEW then \in Seq(Change),
         NEW b, NEW d, NEW ls, NEW c,
         GoodChanges(first, b, ls, c), GoodChanges(then, d, ls, c),
         ModifiedLast(first), ModifiedLast(then),
         first = <<>> => \A r \in Undoable : b[r] = d[r]
  PROVE  GoodChanges(first \o then, b, ls, c) /\ ModifiedLast(first \o then)
<1> DEFINE all == first \o then
<1> DEFINE n == Len(first)
<1> DEFINE l == Len(then)
<1>1. /\ n \in Nat /\ l \in Nat /\ Len(all) = n + l
      /\ \A k \in 1..n : all[k] = first[k]
      /\ \A k \in 1..l : all[n + k] = then[k]
    OBVIOUS
<1>2. first = <<>> => all = then
    OBVIOUS
<1>3. \A k \in 1..(n+l) : k \in 1..n \/ (k - n \in 1..l /\ k = n + (k - n))
    BY <1>1
<1>4. first # <<>> => n \in 1..n
    BY <1>1
<1>5. then # <<>> => l \in 1..l
    BY <1>1
<1>6. then = <<>> => l = 0
    OBVIOUS
<1> HIDE DEF all, n, l
<1>7. CASE first = <<>>
    <2>1. \A t : Clean(b, t, ls) <=> Clean(d, t, ls)
        BY <1>7 DEF Clean
    <2>2. QED
        BY <1>2, <1>7, <2>1 DEF GoodChanges, ModifiedLast, all
<1>8. CASE first # <<>>
    <2>1. all[n].type = "modified" /\ n \in 1..n
        BY <1>1, <1>4, <1>8 DEF ModifiedLast, n
    <2>2. ASSUME NEW k \in 1..(n+l), all[k].type = "modified" PROVE all[k].old <= c
        BY <1>1, <1>3, <2>2 DEF GoodChanges, n, l
    <2>3. ASSUME NEW k \in 1..(n+l), IsOldest(all, 1, Time, k) PROVE Clean(b, all[k].old, ls)
        <3>1. k <= n
            <4>1. Sets(all[n], Time)
                BY <2>1 DEF Sets
            <4>2. ~(n \in 1..(k-1))
                BY <2>3, <4>1 DEF IsOldest
            <4>3. QED
                BY <1>1, <2>1, <4>2
        <3>2. k \in 1..n /\ \A j \in 1..(k-1) : j \in 1..n
            BY <1>1, <3>1
        <3>3. IsOldest(first, 1, Time, k)
            BY <1>1, <2>3, <3>2 DEF IsOldest, n
        <3>4. QED
            BY <1>1, <3>2, <3>3 DEF GoodChanges, n
    <2>4. ModifiedLast(all)
        <3>1. CASE then = <<>>
            <4>1. n + l = n
                BY <1>1, <1>6, <3>1
            <4>2. QED
                BY <1>1, <2>1, <4>1 DEF ModifiedLast
        <3>2. CASE then # <<>>
            <4>1. all[n + l] = then[l]
                BY <1>1, <1>5, <3>2
            <4>2. QED
                BY <1>1, <3>2, <4>1 DEF ModifiedLast, l
        <3>3. QED
            BY <3>1, <3>2
    <2>5. QED
        BY <1>1, <2>2, <2>3, <2>4 DEF GoodChanges, all
<1>9. QED
    BY <1>7, <1>8

Joined(changes, steps) == FoldLeft(LAMBDA all, s : all \o s.changes, changes, steps)

LEMMA JoinedIsFold ==
  ASSUME NEW changes, NEW steps
  PROVE  Joined(changes, steps) = Merging!Fold(changes, steps)
BY Zenon DEF Joined, Merging!Fold, FoldLeft, Merging!FoldLeft,
             MapThenFoldSet, Merging!MapThenFoldSet, Max, Merging!Max

LEMMA MergedIsJoined ==
  ASSUME NEW steps, NEW i
  PROVE  Merged(steps, i)
             = [steps[i] EXCEPT !.changes = Joined(@, Reverse(SubSeq(steps, 1, i - 1)))]
BY DEF Merged, Joined

(* all undoes the steps from i up to the one below step j.                  *)
JoinedTo(steps, now, ls, c, i, j, all) ==
    /\ all \in Seq(Change)
    /\ GoodChanges(all, steps[i].before, ls, c) /\ ModifiedLast(all)
    /\ \A r \in Undoable : UndoneTo(all, r, Above(steps, now, j, r), steps[i].before[r])

LEMMA JoinOneMore ==
  ASSUME NEW steps, NEW now, NEW ls, NEW c, NEW n, UndoStack(steps, now, ls, c, n),
         NEW i \in 1..Len(steps), NEW j \in 2..i, NEW all, JoinedTo(steps, now, ls, c, i, j, all)
  PROVE  JoinedTo(steps, now, ls, c, i, j - 1, all \o steps[j - 1].changes)
<1> DEFINE more == steps[j - 1].changes
<1>1. steps \in Seq(StepType)
    BY DEF UndoStack
<1>2. j - 1 \in 1..Len(steps) /\ j # 1
    BY <1>1
<1>3. steps[j - 1] \in StepType
    BY <1>1, <1>2
<1>4. more \in Seq(Change)
    BY <1>3 DEF StepType
<1>5. /\ GoodChanges(more, steps[j - 1].before, ls, c) /\ ModifiedLast(more)
      /\ \A r \in Undoable :
             UndoneTo(more, r, Above(steps, now, j - 1, r), steps[j - 1].before[r])
    BY <1>2 DEF UndoStack, GoodStep
<1>6. /\ all \in Seq(Change)
      /\ GoodChanges(all, steps[i].before, ls, c) /\ ModifiedLast(all)
      /\ \A r \in Undoable : UndoneTo(all, r, steps[j - 1].before[r], steps[i].before[r])
    BY <1>2 DEF JoinedTo, Above
<1> HIDE DEF more
<1>7. all = <<>> => \A r \in Undoable : steps[i].before[r] = steps[j - 1].before[r]
    BY <1>6 DEF UndoneTo, UndoneFrom
<1>8. /\ GoodChanges(all \o more, steps[i].before, ls, c) /\ ModifiedLast(all \o more)
    BY <1>4, <1>5, <1>6, <1>7, GoodJoined
<1>9. \A r \in Undoable : UndoneTo(all \o more, r, Above(steps, now, j - 1, r), steps[i].before[r])
    BY <1>4, <1>5, <1>6, UndoJoined
<1>10. all \o more \in Seq(Change)
    BY <1>4, <1>6
<1>11. QED
    BY <1>8, <1>9, <1>10 DEF JoinedTo, more

LEMMA JoinedAll ==
  ASSUME NEW steps, NEW now, NEW ls, NEW c, NEW n, UndoStack(steps, now, ls, c, n),
         NEW i \in 1..Len(steps)
  PROVE  JoinedTo(steps, now, ls, c, i, 1, Joined(steps[i].changes, Reverse(SubSeq(steps, 1, i - 1))))
<1> DEFINE sub == SubSeq(steps, 1, i - 1)
<1> DEFINE rev == Reverse(sub)
<1>1. steps \in Seq(StepType)
    BY DEF UndoStack
<1>2. i \in Nat \ {0} /\ \A j \in 1..(i-1) : j \in 1..Len(steps) /\ steps[j] \in StepType
    BY <1>1
<1>3. Len(sub) = i - 1 /\ \A j \in 1..(i-1) : sub[j] = steps[j]
    BY <1>1, <1>2
<1> HIDE DEF sub
<1>4. DOMAIN rev = 1..(i-1) /\ \A k \in 1..(i-1) : rev[k] = steps[i - k]
    BY <1>2, <1>3 DEF Reverse
<1>5. Joined(steps[i].changes, rev) = Merging!Fold(steps[i].changes, rev)
    BY JoinedIsFold
<1> HIDE DEF rev
<1>6. PICK v : /\ v[0] = steps[i].changes
               /\ \A k \in 1..(i-1) : v[k] = v[k-1] \o rev[k].changes
               /\ v[i-1] = Merging!Fold(steps[i].changes, rev)
    <2>1. i - 1 \in Nat
        BY <1>2
    <2>2. QED
        BY <1>4, <2>1, Merging!FoldTrace
<1> DEFINE H == {k \in 0..(i-1) : JoinedTo(steps, now, ls, c, i, i - k, v[k])}
<1>7. 0 \in H
    <2>1. steps[i] \in StepType
        BY <1>1
    <2>2. steps[i].changes \in Seq(Change)
        BY <2>1 DEF StepType
    <2>3. /\ GoodChanges(steps[i].changes, steps[i].before, ls, c) /\ ModifiedLast(steps[i].changes)
          /\ \A r \in Undoable :
                 UndoneTo(steps[i].changes, r, Above(steps, now, i, r), steps[i].before[r])
        BY DEF UndoStack, GoodStep
    <2>4. JoinedTo(steps, now, ls, c, i, i, v[0])
        BY <1>6, <2>2, <2>3 DEF JoinedTo
    <2>5. i - 0 = i /\ 0 \in 0..(i-1)
        BY <1>2
    <2>6. QED
        BY <2>4, <2>5
<1>8. ASSUME NEW k \in 0..((i-1)-1), k \in H PROVE k + 1 \in H
    <2>1. k + 1 \in 1..(i-1) /\ (k + 1) - 1 = k /\ i - k \in 2..i /\ (i - k) - 1 = i - (k + 1)
        BY <1>2
    <2>2. v[k + 1] = v[k] \o steps[(i - k) - 1].changes
        BY <1>4, <1>6, <2>1
    <2>3. JoinedTo(steps, now, ls, c, i, (i - k) - 1, v[k + 1])
        BY <1>8, <2>1, <2>2, JoinOneMore
    <2>4. k + 1 \in 0..(i-1)
        BY <1>2
    <2>5. QED
        BY <2>1, <2>3, <2>4
<1>9. H = 0..(i-1)
    <2> HIDE DEF H
    <2>1. H \in SUBSET (0..(i-1)) /\ i - 1 \in Nat
        BY <1>2 DEF H
    <2>2. QED
        BY <1>7, <1>8, <2>1, Merging!Induct
<1>10. i - 1 \in H /\ i - (i - 1) = 1
    BY <1>2, <1>9
<1>11. QED
    BY <1>5, <1>6, <1>10 DEF rev, sub

(* The counters get smaller down the stack.                                 *)
LEMMA CountersDecrease ==
  ASSUME NEW steps, NEW now, NEW ls, NEW c, NEW n, UndoStack(steps, now, ls, c, n),
         NEW i \in 1..Len(steps), NEW k \in i..Len(steps)
  PROVE  steps[k].counter <= steps[i].counter
<1> DEFINE l == Len(steps)
<1> DEFINE count(a) == steps[a].counter
<1>1. steps \in Seq(StepType)
    BY DEF UndoStack
<1>2. l \in Nat /\ i \in Nat \ {0} /\ i <= l
    BY <1>1
<1>3. ASSUME NEW a \in 1..l PROVE count(a) \in Nat
    <2>1. steps[a] \in StepType
        BY <1>1
    <2>2. QED
        BY <2>1 DEF StepType
<1>4. ASSUME NEW a \in 1..l, a > 1 PROVE count(a) < count(a - 1)
    BY <1>4 DEF UndoStack
<1> HIDE DEF count, l
<1> DEFINE H == {a \in 0..(l-i) : count(i + a) <= count(i)}
<1>5. 0 \in H
    <2>1. i + 0 = i /\ i \in 1..l /\ 0 \in 0..(l-i)
        BY <1>2
    <2>2. QED
        BY <1>3, <2>1
<1>6. ASSUME NEW a \in 0..((l-i)-1), a \in H PROVE a + 1 \in H
    <2> DEFINE b == i + (a + 1)
    <2>1. /\ b \in 1..l /\ b > 1 /\ b - 1 = i + a /\ b - 1 \in 1..l
          /\ a + 1 \in 0..(l-i) /\ i \in 1..l
        BY <1>2
    <2>2. count(b - 1) <= count(i)
        BY <1>6, <2>1
    <2>3. count(b) < count(b - 1)
        BY <1>4, <2>1
    <2>4. count(b) \in Nat /\ count(b - 1) \in Nat /\ count(i) \in Nat
        BY <1>3, <2>1
    <2> HIDE DEF b
    <2>5. count(b) <= count(i)
        BY <2>2, <2>3, <2>4
    <2>6. QED
        BY <2>1, <2>5 DEF b
<1>7. H = 0..(l-i)
    <2> HIDE DEF H
    <2>1. H \in SUBSET (0..(l-i)) /\ l - i \in Nat
        BY <1>2 DEF H
    <2>2. QED
        BY <1>5, <1>6, <2>1, Merging!Induct
<1>8. k - i \in 0..(l-i) /\ i + (k - i) = k
    BY <1>2 DEF l
<1>9. QED
    BY <1>7, <1>8 DEF count

(* The merged step takes the place of those it was made of, and the counter *)
(* goes back to that of the oldest.                                         *)
LEMMA UndoMerged ==
  ASSUME NEW steps, NEW now, NEW ls, NEW c, NEW n, UndoStack(steps, now, ls, c, n),
         NEW i \in 1..Len(steps)
  PROVE  /\ UndoStack(<<Merged(steps, i)>> \o SubSeq(steps, i + 1, Len(steps)), now, ls, c, steps[i].counter)
         /\ Len(<<Merged(steps, i)>> \o SubSeq(steps, i + 1, Len(steps))) <= Len(steps)
<1> DEFINE m == Merged(steps, i)
<1> DEFINE l == Len(steps)
<1> DEFINE rest == SubSeq(steps, i + 1, l)
<1> DEFINE q == <<m>> \o rest
<1> DEFINE joined == Joined(steps[i].changes, Reverse(SubSeq(steps, 1, i - 1)))
<1>1. steps \in Seq(StepType)
    BY DEF UndoStack
<1>2. l \in Nat /\ i \in Nat \ {0} /\ i <= l /\ steps[i] \in StepType
    BY <1>1
<1>3. JoinedTo(steps, now, ls, c, i, 1, joined)
    BY JoinedAll
<1>4. m = [steps[i] EXCEPT !.changes = joined]
    BY MergedIsJoined
<1> HIDE DEF m, joined
<1>5. /\ m \in StepType /\ m.changes = joined
      /\ m.before = steps[i].before /\ m.counter = steps[i].counter
    BY <1>2, <1>3, <1>4 DEF JoinedTo, StepType
<1>6. /\ Len(rest) = l - i /\ rest \in Seq(StepType)
      /\ \A j \in 1..(l-i) : rest[j] = steps[i + j]
    <2>1. \A j \in (i+1)..l : steps[j] \in StepType
        BY <1>1, <1>2
    <2>2. QED
        BY <1>2, <2>1, SubSeqProperties
<1> HIDE DEF rest
<1>7. /\ q \in Seq(StepType) /\ Len(q) = (l - i) + 1 /\ q[1] = m
      /\ \A j \in 2..((l-i)+1) : q[j] = rest[j - 1]
    <2>1. <<m>> \in Seq(StepType) /\ Len(<<m>>) = 1 /\ <<m>>[1] = m
        BY <1>5
    <2>2. Len(rest) = l - i /\ l - i \in Nat
        BY <1>2, <1>6
    <2> HIDE DEF l
    <2>3. QED
        BY <1>6, <2>1, <2>2, ConcatProperties
<1>8. \A j \in 2..((l-i)+1) : /\ (i + j) - 1 \in (i+1)..l /\ (i + j) - 1 \in 1..l
                              /\ q[j] = steps[(i + j) - 1]
    <2>1. \A j \in 2..((l-i)+1) : j - 1 \in 1..(l-i) /\ i + (j - 1) = (i + j) - 1
        BY <1>2
    <2>2. \A j \in 2..((l-i)+1) : (i + j) - 1 \in (i+1)..l /\ (i + j) - 1 \in 1..l
        BY <1>2
    <2>3. QED
        BY <1>6, <1>7, <2>1, <2>2
<1> HIDE DEF q
<1>9. ASSUME NEW j \in 1..Len(q)
      PROVE  /\ GoodStep(q[j], ls, c) /\ ModifiedLast(q[j].changes)
             /\ \A r \in Undoable : UndoneTo(q[j].changes, r, Above(q, now, j, r), q[j].before[r])
             /\ q[j].counter <= steps[i].counter
             /\ j > 1 => q[j].counter < q[j - 1].counter
    <2>1. CASE j = 1
        <3>1. \A r \in Undoable : Above(q, now, 1, r) = now[r] /\ Above(steps, now, 1, r) = now[r]
            BY DEF Above
        <3>2. m.counter <= steps[i].counter
            BY <1>2, <1>5 DEF StepType
        <3>3. QED
            BY <1>3, <1>5, <1>7, <2>1, <3>1, <3>2, SMTT(40) DEF JoinedTo, GoodStep
    <2>2. CASE j # 1
        <3> DEFINE k == (i + j) - 1
        <3>1. j \in 2..((l-i)+1) /\ k \in (i+1)..l /\ k \in 1..l /\ q[j] = steps[k]
            BY <1>2, <1>7, <1>8, <2>2
        <3>2. k \in Nat /\ k > 1 /\ k # 1 /\ j \in Nat
            BY <1>2, <3>1
        <3>3. /\ GoodStep(steps[k], ls, c) /\ ModifiedLast(steps[k].changes)
              /\ \A r \in Undoable :
                     UndoneTo(steps[k].changes, r, steps[k - 1].before[r], steps[k].before[r])
              /\ steps[k].counter < steps[k - 1].counter
            BY <3>1, <3>2 DEF UndoStack, Above
        <3>4. q[j - 1].before = steps[k - 1].before /\ q[j - 1].counter = steps[k - 1].counter
            <4>1. CASE j = 2
                <5>1. k - 1 = i /\ j - 1 = 1
                    BY <1>2, <4>1
                <5>2. QED
                    BY <1>5, <1>7, <5>1
            <4>2. CASE j # 2
                <5>1. j - 1 \in 2..((l-i)+1) /\ (i + (j - 1)) - 1 = k - 1
                    BY <1>2, <3>1, <4>2
                <5>2. QED
                    BY <1>8, <5>1
            <4>3. QED
                BY <4>1, <4>2
        <3>5. \A r \in Undoable : Above(q, now, j, r) = steps[k - 1].before[r]
            BY <2>2, <3>4 DEF Above
        <3>6. steps[k].counter <= steps[i].counter
            BY <1>2, <3>1, CountersDecrease
        <3>7. QED
            BY <3>1, <3>3, <3>4, <3>5, <3>6
    <2>3. QED
        BY <2>1, <2>2
<1>10. Len(q) <= l
    BY <1>2, <1>7
<1>11. QED
    BY <1>7, <1>9, <1>10 DEF UndoStack, q, m, rest

-----------------------------------------------------------------------------
(* The beginning and the end of a transaction.                              *)

LEMMA OpenedState ==
  ASSUME UndoInv
  PROVE  /\ Opened \in State /\ Opened.changes = <<>> /\ Opened.active
         /\ Opened.rows = rows /\ Opened.mod = mod /\ Opened.queues = card_queues
         /\ Recorded(Opened)
         /\ \A r \in Undoable : Value(Opened, r) = rows[r] /\ r \in Cells /\ r \in Rows /\ r # Time
         /\ Value(Opened, Time) = mod
<1>1. mod \in 0..MaxClock
    BY UndoBounds DEF UndoInv, Typed, Bounded
<1>2. <<>> \in Seq(Change) /\ Len(<<>>) = 0
    OBVIOUS
<1>3. /\ Opened \in State /\ Opened.changes = <<>> /\ Opened.active
      /\ Opened.rows = rows /\ Opened.mod = mod /\ Opened.queues = card_queues
    BY <1>1, <1>2 DEF Opened, State, UndoInv, Typed
<1>4. Recorded(Opened)
    BY <1>2, <1>3, NothingUndone DEF Recorded, UndoneTo
<1>5. \A r \in Undoable : Value(Opened, r) = rows[r] /\ r \in Cells /\ r \in Rows /\ r # Time
    BY <1>3, TimeIsNoRow DEF Value, Cells, Undoable, Rows
<1>6. QED
    BY <1>3, <1>4, <1>5 DEF Value

LEMMA StepTyped ==
  ASSUME UndoInv, clk < MaxClock,
         NEW kind \in {"UpdateNote", "AnswerCard", "Custom"}, NEW changes \in Seq(Change)
  PROVE  /\ Step(kind, changes) \in StepType
         /\ Step(kind, changes).kind = kind /\ Step(kind, changes).changes = changes
         /\ Step(kind, changes).counter = counter + 1
         /\ \A r \in Undoable : Step(kind, changes).before[r] = rows[r]
<1>1. counter + 1 \in 1..MaxClock
    BY UndoBounds DEF UndoInv, Typed, Bounded
<1>2. [r \in Undoable |-> rows[r]] \in [Undoable -> Row]
    BY DEF UndoInv, Typed, Undoable, Rows
<1>3. minutes \in Nat
    BY DEF UndoInv, Typed
<1>4. QED
    BY <1>1, <1>2, <1>3 DEF Step, StepType

(* What was saved when nothing was changed.                                 *)
LEMMA NothingRecorded ==
  ASSUME UndoInv, NEW s \in State, Recorded(s), s.changes = <<>>
  PROVE  s.mod = mod /\ \A r \in Undoable : s.rows[r] = rows[r]
<1>1. \A x \in Cells : Value(Opened, x) = Value(s, x)
    BY DEF Recorded, UndoneTo, UndoneFrom
<1>2. QED
    BY <1>1, OpenedState DEF Value, Cells

(* The step of a transaction that changed something goes on the undo stack, *)
(* unless it was a note update that joins the step before.                  *)
LEMMA StepStacked ==
  ASSUME UndoInv, clk < MaxClock,
         NEW kind \in {"UpdateNote", "AnswerCard", "Custom"},
         NEW done \in State, Recorded(done),
         GoodChanges(done.changes, rows, last_sync, clk + 1), ModifiedLast(done.changes),
         NEW step, step = Step(kind, IF Coalesces(kind, done.changes, undo_steps)
                                     THEN <<>> ELSE done.changes)
  PROVE  UndoStack(IF HasChanges(step) THEN Push(undo_steps, step) ELSE undo_steps,
                   done.rows, last_sync, clk + 1, counter + 1)
<1>1. /\ UndoStack(undo_steps, rows, last_sync, clk, counter)
      /\ clk \in Nat /\ counter \in Nat /\ clk + 1 \in Nat /\ counter + 1 \in Nat
      /\ clk <= clk + 1 /\ counter <= counter + 1 /\ counter <= counter
    BY DEF UndoInv, Typed
<1>2. UndoStack(undo_steps, rows, last_sync, clk + 1, counter)
    BY <1>1, StacksKept
<1>3. \A r \in Undoable : UndoneTo(done.changes, r, done.rows[r], rows[r])
    BY OpenedState DEF Recorded, Value
<1>4. done.changes \in Seq(Change) /\ <<>> \in Seq(Change)
    BY DEF State
<1>5. CASE Coalesces(kind, done.changes, undo_steps)
    <2>1. /\ kind = "UpdateNote" /\ IsNoteUpdate(done.changes)
          /\ undo_steps # <<>> /\ IsNoteUpdate(undo_steps[1].changes)
          /\ undo_steps[1].changes[1].row = done.changes[1].row
        BY <1>5 DEF Coalesces
    <2>2. step = Step(kind, <<>>)
        BY <1>5
    <2>8. step.changes = <<>> /\ step.kind = "UpdateNote"
        BY <2>1, <2>2 DEF Step
    <2>3. ~HasChanges(step)
        BY <2>8 DEF HasChanges
    <2>4. ASSUME NEW r \in Undoable, r # done.changes[1].row PROVE done.rows[r] = rows[r]
        <3>1. r # Time
            BY OpenedState
        <3>2. \A k \in 1..Len(done.changes) : ~Sets(done.changes[k], r)
            BY <1>4, <2>1, <2>4, <3>1 DEF IsNoteUpdate, Sets
        <3>3. QED
            BY <1>3, <3>2 DEF UndoneTo, UndoneFrom, IsOldest
    <2>5. UndoStack(undo_steps, done.rows, last_sync, clk + 1, counter)
        BY <1>2, <2>1, <2>4, CoalescedKept
    <2>6. UndoStack(undo_steps, done.rows, last_sync, clk + 1, counter + 1)
        <3>1. clk + 1 <= clk + 1 /\ \A r \in Undoable : done.rows[r] = done.rows[r]
            BY <1>1
        <3>2. QED
            BY <1>1, <2>5, <3>1, StacksKept
    <2>7. QED
        BY <2>3, <2>6
<1>6. CASE ~Coalesces(kind, done.changes, undo_steps)
    <2>1. step = Step(kind, done.changes)
        BY <1>6
    <2>2. /\ step \in StepType /\ step.kind = kind /\ step.changes = done.changes
          /\ step.counter = counter + 1 /\ \A r \in Undoable : step.before[r] = rows[r]
        BY <1>4, <2>1, StepTyped
    <2>3. GoodStep(step, last_sync, clk + 1)
        BY <2>2 DEF GoodStep, GoodChanges, Clean
    <2>4. CASE HasChanges(step)
        <3>1. UndoStack(Push(undo_steps, step), done.rows, last_sync, clk + 1, counter + 1)
            BY <1>1, <1>2, <1>3, <2>2, <2>3, UndoPushed
        <3>2. QED
            BY <2>4, <3>1
    <2>5. CASE ~HasChanges(step)
        <3>1. done.changes = <<>>
            BY <2>2, <2>5 DEF HasChanges
        <3>2. \A r \in Undoable : done.rows[r] = rows[r]
            BY <3>1, NothingRecorded
        <3>3. UndoStack(undo_steps, done.rows, last_sync, clk + 1, counter + 1)
            BY <1>1, <1>2, <3>2, StacksKept
        <3>4. QED
            BY <2>5, <3>3
    <2>6. QED
        BY <2>4, <2>5
<1>7. QED
    BY <1>5, <1>6

(* The same for what goes on the redo stack, which nothing joins.           *)
LEMMA StepForRedo ==
  ASSUME UndoInv, clk < MaxClock,
         NEW kind \in {"UpdateNote", "AnswerCard", "Custom"},
         NEW done \in State, Recorded(done),
         GoodChanges(done.changes, rows, last_sync, clk + 1), ModifiedFirst(done.changes),
         NEW step, step = Step(kind, IF Coalesces(kind, done.changes, Tail(undo_steps))
                                     THEN <<>> ELSE done.changes)
  PROVE  /\ RedoStack(IF HasChanges(step) THEN Append(redo_steps, step) ELSE redo_steps,
                      done.rows, last_sync, clk + 1)
<1>1. /\ RedoStack(redo_steps, rows, last_sync, clk)
      /\ clk \in Nat /\ clk + 1 \in Nat /\ clk <= clk + 1 /\ counter \in Nat /\ counter <= counter
    BY DEF UndoInv, Typed
<1>2. RedoStack(redo_steps, rows, last_sync, clk + 1)
    BY <1>1, StacksKept
<1>3. \A r \in Undoable : UndoneTo(done.changes, r, done.rows[r], rows[r])
    BY OpenedState DEF Recorded, Value
<1>4. done.changes \in Seq(Change)
    BY DEF State
<1>5. ~IsNoteUpdate(done.changes)
    BY <1>4 DEF IsNoteUpdate, ModifiedFirst
<1>6. step = Step(kind, done.changes)
    BY <1>5 DEF Coalesces
<1>7. /\ step \in StepType /\ step.kind = kind /\ step.changes = done.changes
      /\ \A r \in Undoable : step.before[r] = rows[r]
    BY <1>4, <1>6, StepTyped
<1>8. GoodStep(step, last_sync, clk + 1)
    BY <1>7 DEF GoodStep, GoodChanges, Clean
<1>9. CASE HasChanges(step)
    <2>1. RedoStack(Append(redo_steps, step), done.rows, last_sync, clk + 1)
        BY <1>2, <1>3, <1>7, <1>8, RedoPushed
    <2>2. QED
        BY <1>9, <2>1
<1>10. CASE ~HasChanges(step)
    <2>1. done.changes = <<>>
        BY <1>7, <1>10 DEF HasChanges
    <2>2. \A r \in Undoable : done.rows[r] = rows[r]
        BY <2>1, NothingRecorded
    <2>3. RedoStack(redo_steps, done.rows, last_sync, clk + 1)
        BY <1>1, <1>2, <2>2, StacksKept
    <2>4. QED
        BY <1>10, <2>3
<1>11. QED
    BY <1>9, <1>10

LEMMA QueuesAfterTyped ==
  ASSUME UndoInv, NEW s \in State, s.queues \in {card_queues, NoQueues}, NEW kind
  PROVE  /\ QueuesAfter(kind, s) \in Queues
         /\ QueuesAfter(kind, s).built <= clk /\ QueuesAfter(kind, s).day <= day
<1>1. NoQueues \in Queues /\ NoQueues.built = 0 /\ NoQueues.day = 0
    BY DEF NoQueues, Queues
<1>2. QueuesAfter(kind, s) \in {card_queues, NoQueues}
    BY DEF QueuesAfter
<1>3. QED
    BY <1>1, <1>2 DEF UndoInv, Typed, Bounded

-----------------------------------------------------------------------------
(* An ordinary operation.                                                   *)

(* What an operation may have done before its transaction ends: its changes *)
(* are saved and leave the modification time alone.                         *)
Editing(s) ==
    /\ s \in State /\ s.active /\ Recorded(s)
    /\ s.mod = mod /\ s.queues = card_queues
    /\ \A k \in 1..Len(s.changes) : s.changes[k].type # "modified"

Operation(kind, s) ==
    /\ Editing(s)
    /\ kind \in {"UpdateNote", "AnswerCard"} \/
           (kind = "SkipUndo" /\ \A r \in Undoable : s.rows[r] = rows[r])

LEMMA TransactKeeps ==
  ASSUME UndoInv, NEW kind, NEW s, Operation(kind, s), Transact(kind, s)
  PROVE  UndoInv'
<1> DEFINE done == IF s.changes = <<>> THEN s ELSE SetModified(s, clk + 1)
<1> DEFINE step == Step(kind, IF Coalesces(kind, done.changes, undo_steps)
                              THEN <<>> ELSE done.changes)
<1>1. /\ clk \in Nat /\ clk < MaxClock /\ MaxClock \in Nat /\ clk + 1 \in 0..MaxClock
      /\ mod \in Nat /\ mod <= clk /\ last_sync \in Nat /\ last_sync <= clk
      /\ counter \in Nat /\ counter <= clk
    BY UndoBounds DEF UndoInv, Typed, Bounded, Transact, Tick
<1>2. /\ rows' = done.rows /\ mod' = done.mod /\ card_queues' = QueuesAfter(kind, done)
      /\ redo_steps' = <<>>
      /\ undo_steps' = IF HasChanges(step) /\ kind # "SkipUndo" THEN Push(undo_steps, step) ELSE undo_steps
      /\ clk' = clk + 1 /\ counter' = counter + 1
      /\ UNCHANGED <<last_sync, panicked, minutes, day, syncs>>
    BY DEF Transact, Store, Tick
<1> HIDE DEF step
<1>3. s \in State /\ s.changes \in Seq(Change)
    BY DEF Operation, Editing, State
<1>4. /\ done \in State /\ Recorded(done) /\ done.queues = card_queues
      /\ done.rows = s.rows
      /\ s.changes = <<>> => done.changes = <<>> /\ done.mod = mod
      /\ s.changes # <<>> => done.changes = Append(s.changes, Modified(mod)) /\ done.mod = clk + 1
    <2>1. CASE s.changes = <<>>
        BY <2>1 DEF Operation, Editing
    <2>2. CASE s.changes # <<>>
        <3> DEFINE m == SetModified(s, clk + 1)
        <3>1. /\ m \in State /\ \A x \in Cells : Value(m, x) = IF x = Time THEN clk + 1 ELSE Value(s, x)
              /\ m.queues = s.queues
              /\ Saves(s, m, Modified(s.mod))
            BY <1>1, <1>3, SetModifiedSaves DEF Operation, Editing
        <3>2. done = m
            BY <2>2
        <3> HIDE DEF m
        <3>3. Recorded(m)
            BY <1>3, <3>1, SavesRecords DEF Operation, Editing
        <3>4. \A r \in Rows : m.rows[r] = s.rows[r]
            BY <3>1, TimeIsNoRow DEF Value, Cells
        <3>5. m.rows = s.rows
            BY <1>3, <3>1, <3>4 DEF State
        <3>6. m.mod = clk + 1
            BY <3>1 DEF Value, Cells
        <3>7. m.changes = Append(s.changes, Modified(mod))
            BY <3>1 DEF Saves, Operation, Editing
        <3>8. QED
            BY <2>2, <3>1, <3>2, <3>3, <3>5, <3>6, <3>7 DEF Operation, Editing
    <2>3. QED
        BY <2>1, <2>2
<1>5. /\ GoodChanges(done.changes, rows, last_sync, clk + 1) /\ ModifiedLast(done.changes)
    <2>1. CASE s.changes = <<>>
        <3>1. Len(done.changes) = 0
            BY <1>4, <2>1
        <3>2. QED
            BY <1>4, <2>1, <3>1 DEF GoodChanges, ModifiedLast
    <2>2. CASE s.changes # <<>>
        <3> DEFINE n == Len(s.changes)
        <3>1. Modified(mod) \in Change /\ Modified(mod).type = "modified" /\ Modified(mod).old = mod
            BY <1>1, ChangeTypes
        <3>2. done.changes = Append(s.changes, Modified(mod))
            BY <1>4, <2>2
        <3>3. /\ n \in Nat /\ Len(done.changes) = n + 1 /\ done.changes[n + 1] = Modified(mod)
              /\ \A k \in 1..n : done.changes[k] = s.changes[k]
            BY <1>3, <3>1, <3>2
        <3>4. \A k \in 1..n : done.changes[k].type # "modified"
            BY <3>3 DEF Operation, Editing
        <3>5. \A k \in 1..(n+1) : k \in 1..n \/ k = n + 1
            BY <3>3
        <3>6. Clean(rows, mod, last_sync)
            BY DEF UndoInv
        <3>7. mod <= clk + 1
            BY <1>1
        <3> HIDE DEF n, done
        <3>8. GoodChanges(done.changes, rows, last_sync, clk + 1)
            BY <3>1, <3>3, <3>4, <3>5, <3>6, <3>7 DEF GoodChanges, IsOldest, Sets
        <3>9. QED
            BY <3>1, <3>3, <3>8 DEF ModifiedLast
    <2>3. QED
        BY <2>1, <2>2
<1> HIDE DEF done
<1>6. UndoStack(undo_steps', rows', last_sync', clk', counter')
    <2>1. CASE kind # "SkipUndo"
        <3>1. kind \in {"UpdateNote", "AnswerCard", "Custom"}
            BY <2>1 DEF Operation, Editing
        <3>2. UndoStack(IF HasChanges(step) THEN Push(undo_steps, step) ELSE undo_steps,
                        done.rows, last_sync, clk + 1, counter + 1)
            BY <1>1, <1>4, <1>5, <3>1, StepStacked DEF step
        <3>3. QED
            BY <1>2, <2>1, <3>2
    <2>2. CASE kind = "SkipUndo"
        <3>1. \A r \in Undoable : done.rows[r] = rows[r]
            BY <1>4, <2>2 DEF Operation, Editing
        <3>2. UndoStack(undo_steps, done.rows, last_sync, clk + 1, counter + 1)
            <4>1. UndoStack(undo_steps, rows, last_sync, clk, counter)
                BY DEF UndoInv
            <4>2. clk + 1 \in Nat /\ counter + 1 \in Nat /\ clk <= clk + 1 /\ counter <= counter + 1
                BY <1>1
            <4>3. QED
                BY <1>1, <3>1, <4>1, <4>2, StacksKept
        <3>3. QED
            BY <1>2, <2>2, <3>2
    <2>3. QED
        BY <2>1, <2>2
<1>7. RedoStack(redo_steps', rows', last_sync', clk')
    BY <1>2, EmptyStacks
<1>8. Clean(rows', mod', last_sync')
    <2>1. CASE s.changes = <<>>
        <3>1. \A r \in Undoable : done.rows[r] = rows[r]
            BY <1>4, <2>1, NothingRecorded
        <3>2. QED
            BY <1>2, <1>4, <2>1, <3>1 DEF UndoInv, Clean
    <2>2. CASE s.changes # <<>>
        <3>1. mod' = clk + 1 /\ last_sync' = last_sync
            BY <1>2, <1>4, <2>2
        <3>2. ~(mod' <= last_sync')
            BY <1>1, <3>1
        <3>3. QED
            BY <3>2 DEF Clean
    <2>3. QED
        BY <2>1, <2>2
<1>9. /\ QueuesAfter(kind, done) \in Queues
      /\ QueuesAfter(kind, done).built <= clk /\ QueuesAfter(kind, done).day <= day
    BY <1>4, QueuesAfterTyped
<1>10. done.rows \in [Rows -> Row] /\ done.mod \in Nat /\ done.mod <= clk + 1
    BY <1>1, <1>4 DEF State
<1>11. Typed'
    BY <1>1, <1>2, <1>9, <1>10 DEF UndoInv, Typed
<1>12. Len(undo_steps') + Len(redo_steps') <= UNDO_LIMIT
    <2>1. Len(undo_steps) <= UNDO_LIMIT /\ undo_steps \in Seq(StepType) /\ redo_steps \in Seq(StepType)
        BY UndoBounds DEF UndoInv, Bounded, UndoStack, RedoStack
    <2>2. ASSUME HasChanges(step), kind # "SkipUndo"
          PROVE  Len(Push(undo_steps, step)) \in Nat /\ Len(Push(undo_steps, step)) <= UNDO_LIMIT
        <3>1. kind \in {"UpdateNote", "AnswerCard", "Custom"}
            BY <2>2 DEF Operation, Editing
        <3>2. (IF Coalesces(kind, done.changes, undo_steps) THEN <<>> ELSE done.changes) \in Seq(Change)
            BY <1>4 DEF State
        <3>3. step \in StepType
            BY <1>1, <3>1, <3>2, StepTyped DEF step
        <3>4. QED
            BY <2>1, <3>3, PushedSteps
    <2>3. Len(undo_steps') \in Nat /\ Len(undo_steps') <= UNDO_LIMIT
        BY <1>2, <2>1, <2>2
    <2>4. Len(redo_steps') = 0
        BY <1>2
    <2>5. QED
        BY <2>3, <2>4, UndoBounds
<1>13. Bounded'
    BY <1>1, <1>2, <1>9, <1>10, <1>12 DEF UndoInv, Typed, Queues, Bounded
<1>14. QED
    BY <1>6, <1>7, <1>8, <1>11, <1>13 DEF UndoInv

(* Editing a row, and moving the queues on, are saved.                      *)
LEMMA EditSaved ==
  ASSUME UndoInv, NEW s, Editing(s), NEW t \in State, NEW d, Saves(s, t, d), d.type # "modified",
         t.queues = s.queues, t.mod = s.mod
  PROVE  Editing(t)
<1>1. s \in State /\ s.changes \in Seq(Change)
    BY DEF Editing, State
<1>2. t.active /\ d \in Change /\ t.changes = Append(s.changes, d)
    BY DEF Saves
<1>3. Recorded(t)
    BY <1>1, SavesRecords DEF Editing
<1>4. \A k \in 1..Len(t.changes) : t.changes[k].type # "modified"
    <2>1. \A k \in 1..Len(t.changes) :
              (k \in 1..Len(s.changes) /\ t.changes[k] = s.changes[k]) \/ t.changes[k] = d
        BY <1>1, <1>2
    <2>2. QED
        BY <2>1 DEF Editing
<1>5. QED
    BY <1>2, <1>3, <1>4 DEF Editing

LEMMA EditRowKeeps ==
  ASSUME UndoInv, clk < MaxClock, NEW s, Editing(s), NEW r \in Rows
  PROVE  /\ Editing(EditRow(s, r))
         /\ \A q \in Rows \ {r} : EditRow(s, r).rows[q] = s.rows[q]
<1> DEFINE row == [ed |-> clk + 1, pending |-> TRUE]
<1> DEFINE t == WriteRow(s, r, row)
<1>1. clk \in Nat /\ clk + 1 \in 0..MaxClock
    BY UndoBounds DEF UndoInv, Typed
<1>2. row \in Row
    BY <1>1 DEF Row
<1>3. s \in State /\ s.active
    BY DEF Editing
<1> HIDE DEF row
<1>4. /\ t \in State /\ \A x \in Cells : Value(t, x) = IF x = r THEN row ELSE Value(s, x)
      /\ t.queues = s.queues /\ Saves(s, t, RowChange(r, s.rows[r]))
    BY <1>2, <1>3, WriteRowSaves
<1> HIDE DEF t
<1>5. t.mod = s.mod
    BY <1>4, TimeIsNoRow DEF Value, Cells
<1>6. \A q \in Rows \ {r} : t.rows[q] = s.rows[q]
    BY <1>4, TimeIsNoRow DEF Value, Cells
<1>7. RowChange(r, s.rows[r]).type # "modified"
    BY DEF RowChange
<1>8. Editing(t)
    BY <1>4, <1>5, <1>7, EditSaved
<1>9. EditRow(s, r) = t
    BY DEF EditRow, t, row
<1>10. QED
    BY <1>6, <1>8, <1>9

LEMMA OpenedEditing ==
  ASSUME UndoInv
  PROVE  Editing(Opened) /\ Opened.rows = rows
BY OpenedState DEF Editing

LEMMA UpdateNoteKeeps ==
  ASSUME UndoInv, NEW n \in Notes, UpdateNote(n)
  PROVE  UndoInv'
<1>1. clk < MaxClock /\ n \in Rows
    BY DEF UpdateNote, Transact, Tick, Rows
<1>2. Operation("UpdateNote", EditRow(Opened, n))
    BY <1>1, OpenedEditing, EditRowKeeps DEF Operation
<1>3. QED
    BY <1>2, TransactKeeps DEF UpdateNote

LEMMA UpdateNoteUnchangedKeeps ==
  ASSUME UndoInv, UpdateNoteUnchanged
  PROVE  UndoInv'
<1>1. Operation("UpdateNote", Opened)
    BY OpenedEditing DEF Operation
<1>2. QED
    BY <1>1, TransactKeeps DEF UpdateNoteUnchanged

LEMMA AnswerCardKeeps ==
  ASSUME UndoInv, AnswerCard
  PROVE  UndoInv'
<1> DEFINE s == EditRow(EditRow(Opened, Deck), Card)
<1> DEFINE q == IF card_queues = NoQueues THEN s ELSE Save(s, QueueChange(card_queues.built))
<1>1. clk < MaxClock /\ Deck \in Rows /\ Card \in Rows
    BY DEF AnswerCard, Transact, Tick, Rows
<1>2. Editing(s)
    BY <1>1, OpenedEditing, EditRowKeeps
<1> HIDE DEF s
<1>3. Editing(Save(s, QueueChange(card_queues.built)))
    <2> DEFINE d == QueueChange(card_queues.built)
    <2>1. card_queues.built \in Nat
        BY DEF UndoInv, Typed, Queues
    <2>2. d \in Change /\ d.type = "queue"
        BY <2>1, ChangeTypes
    <2>3. s \in State /\ s.active
        BY <1>2 DEF Editing
    <2> HIDE DEF d
    <2>4. /\ Save(s, d) \in State /\ Save(s, d).queues = s.queues /\ Saves(s, Save(s, d), d)
        BY <2>2, <2>3, QueueChangeSaves
    <2>5. Save(s, d).mod = s.mod
        BY <2>2, <2>3, SaveTypes
    <2>6. QED
        BY <1>2, <2>2, <2>4, <2>5, EditSaved DEF d
<1>4. Operation("AnswerCard", q)
    BY <1>2, <1>3 DEF Operation
<1>5. Transact("AnswerCard", q)
    BY DEF AnswerCard, s
<1>6. QED
    BY <1>4, <1>5, TransactKeeps

LEMMA SetDeckCollapsedKeeps ==
  ASSUME UndoInv, SetDeckCollapsed
  PROVE  UndoInv'
<1>1. clk < MaxClock /\ Deck \in Rows
    BY DEF SetDeckCollapsed, Transact, Tick, Rows
<1>2. \A r \in Undoable : r \in Rows \ {Deck}
    BY UndoBounds DEF Undoable, Rows
<1>3. Operation("SkipUndo", EditRow(Opened, Deck))
    BY <1>1, <1>2, OpenedEditing, EditRowKeeps DEF Operation
<1>4. QED
    BY <1>3, TransactKeeps DEF SetDeckCollapsed

-----------------------------------------------------------------------------
(* The operations that discard what can be undone, and the others that undo *)
(* nothing.                                                                 *)

LEMMA ClockTyped ==
  ASSUME UndoInv
  PROVE  /\ clk \in Nat /\ MaxClock \in Nat /\ UNDO_LIMIT \in Nat \ {0}
         /\ mod \in Nat /\ mod <= clk /\ last_sync \in Nat /\ last_sync <= clk
         /\ counter \in Nat /\ counter <= clk /\ rows \in [Rows -> Row] /\ day \in Nat
         /\ card_queues \in Queues /\ card_queues.built \in Nat /\ card_queues.day \in Nat
         /\ card_queues.built <= clk /\ card_queues.day <= day
         /\ undo_steps \in Seq(StepType) /\ redo_steps \in Seq(StepType)
         /\ NoQueues \in Queues /\ NoQueues.built = 0 /\ NoQueues.day = 0
         /\ clk < MaxClock => clk + 1 \in 0..MaxClock
<1>1. card_queues \in Queues
    BY DEF UndoInv, Typed
<1>2. card_queues.built \in Nat /\ card_queues.day \in Nat
    BY <1>1 DEF Queues
<1>3. QED
    BY <1>1, <1>2, UndoBounds
    DEF UndoInv, Typed, Bounded, UndoStack, RedoStack, NoQueues, Queues

(* Nothing to undo, and the clock moved on.                                 *)
LEMMA Discarded ==
  ASSUME UndoInv, Tick, DiscardUndoAndStudyQueues,
         rows' \in [Rows -> Row], mod' \in Nat, mod' <= clk + 1,
         last_sync' \in Nat, last_sync' <= clk + 1,
         counter' \in Nat, counter' <= clk + 1,
         panicked' \in BOOLEAN, syncs' \in Nat, UNCHANGED <<minutes, day>>,
         Clean(rows', mod', last_sync')
  PROVE  UndoInv'
<1>1. clk' = clk + 1 /\ clk < MaxClock /\ undo_steps' = <<>> /\ redo_steps' = <<>> /\ card_queues' = NoQueues
    BY DEF Tick, DiscardUndoAndStudyQueues
<1>2. Typed'
    BY <1>1, ClockTyped DEF UndoInv, Typed
<1>3. Bounded'
    <2>1. Len(undo_steps') + Len(redo_steps') = 0
        BY <1>1
    <2>2. QED
        BY <1>1, <2>1, ClockTyped, SMTT(40) DEF Bounded
<1>4. /\ UndoStack(undo_steps', rows', last_sync', clk', counter')
      /\ RedoStack(redo_steps', rows', last_sync', clk')
    BY <1>1, EmptyStacks
<1>5. QED
    BY <1>2, <1>3, <1>4 DEF UndoInv

LEMMA UpdateNoteNoUndoKeeps ==
  ASSUME UndoInv, NEW n \in Notes, UpdateNoteNoUndo(n)
  PROVE  UndoInv'
<1>1. Tick /\ clk < MaxClock
    BY DEF UpdateNoteNoUndo, Tick
<1>2. [ed |-> clk + 1, pending |-> TRUE] \in Row
    BY <1>1, ClockTyped DEF Row
<1>3. rows' \in [Rows -> Row]
    BY <1>2, ClockTyped DEF UpdateNoteNoUndo
<1>4. mod' = clk + 1 /\ last_sync' = last_sync /\ counter' = counter
    BY DEF UpdateNoteNoUndo
<1>5. ~(mod' <= last_sync')
    BY <1>4, ClockTyped
<1>6. Clean(rows', mod', last_sync')
    BY <1>5 DEF Clean
<1>7. QED
    BY <1>1, <1>3, <1>4, <1>6, ClockTyped, Discarded DEF UpdateNoteNoUndo, UndoInv, Typed

LEMMA FailOperationKeeps ==
  ASSUME UndoInv, FailOperation
  PROVE  UndoInv'
<1>1. Clean(rows', mod', last_sync')
    BY DEF FailOperation, UndoInv
<1>2. QED
    BY <1>1, ClockTyped, Discarded DEF FailOperation, UndoInv, Typed

LEMMA SyncKeeps ==
  ASSUME UndoInv, Sync
  PROVE  UndoInv'
<1>1. \A r \in Rows : [rows[r] EXCEPT !.pending = FALSE] \in Row /\ ~[rows[r] EXCEPT !.pending = FALSE].pending
    BY ClockTyped DEF Row
<1>2. rows' \in [Rows -> Row] /\ \A r \in Rows : ~rows'[r].pending
    BY <1>1 DEF Sync
<1>3. Clean(rows', mod', last_sync')
    BY <1>2 DEF Clean, Undoable, Rows
<1>4. QED
    BY <1>2, <1>3, ClockTyped, Discarded, SMTT(40) DEF Sync, UndoInv, Typed

LEMMA RestartKeeps ==
  ASSUME UndoInv, Restart
  PROVE  UndoInv'
<1>1. Clean(rows', mod', last_sync')
    BY DEF Restart, UndoInv
<1>2. /\ Tick /\ DiscardUndoAndStudyQueues /\ counter' = 0 /\ panicked' = FALSE
      /\ UNCHANGED <<rows, mod, last_sync, minutes, day, syncs>>
    BY DEF Restart
<1>7. clk \in Nat
    BY ClockTyped
<1>3. counter' \in Nat /\ counter' <= clk + 1
    BY <1>2, <1>7
<1>8. panicked' \in BOOLEAN
    BY <1>2
<1>4. syncs \in Nat
    BY DEF UndoInv, Typed
<1>5. mod <= clk + 1 /\ last_sync <= clk + 1
    BY ClockTyped
<1>6. QED
    BY <1>1, <1>2, <1>3, <1>4, <1>5, <1>8, ClockTyped, Discarded

LEMMA GetQueuesKeeps ==
  ASSUME UndoInv, GetQueues
  PROVE  UndoInv'
<1> DEFINE checked == ClearIfDayChanged(Opened)
<1>1. /\ clk < MaxClock /\ clk' = clk + 1
      /\ undo_steps' \in {undo_steps, <<>>} /\ redo_steps' \in {redo_steps, <<>>}
      /\ card_queues' = IF checked.queues = NoQueues
                        THEN [built |-> clk + 1, day |-> day] ELSE checked.queues
      /\ UNCHANGED <<rows, mod, last_sync, counter, panicked, minutes, day, syncs>>
    BY DEF GetQueues, Tick
<1>2. checked.queues \in {card_queues, NoQueues}
    BY OpenedState DEF ClearIfDayChanged, State
<1> HIDE DEF checked
<1>3. card_queues' \in Queues /\ card_queues'.built <= clk + 1 /\ card_queues'.day <= day
    <2>1. CASE checked.queues = NoQueues
        <3>1. card_queues' = [built |-> clk + 1, day |-> day]
            BY <1>1, <2>1
        <3>2. QED
            BY <3>1, ClockTyped DEF Queues
    <2>2. CASE checked.queues # NoQueues
        <3>1. card_queues' = card_queues
            BY <1>1, <1>2, <2>2
        <3>2. QED
            BY <3>1, ClockTyped
    <2>3. QED
        BY <2>1, <2>2
<1>4. Typed'
    BY <1>1, <1>3, ClockTyped DEF UndoInv, Typed
<1>5. Len(undo_steps') + Len(redo_steps') <= UNDO_LIMIT
    <2>1. Len(undo_steps) \in Nat /\ Len(redo_steps) \in Nat /\ Len(undo_steps) + Len(redo_steps) <= UNDO_LIMIT
        BY ClockTyped DEF UndoInv, Bounded
    <2>2. Len(undo_steps') \in {0, Len(undo_steps)} /\ Len(redo_steps') \in {0, Len(redo_steps)}
        BY <1>1
    <2>3. QED
        BY <2>1, <2>2, ClockTyped
<1>6. Bounded'
    BY <1>1, <1>3, <1>5, ClockTyped DEF Bounded
<1>7. /\ UndoStack(undo_steps, rows, last_sync, clk + 1, counter)
      /\ RedoStack(redo_steps, rows, last_sync, clk + 1)
    <2>1. clk + 1 \in Nat /\ clk <= clk + 1 /\ counter <= counter
        BY ClockTyped
    <2>2. QED
        BY <2>1, ClockTyped, StacksKept DEF UndoInv
<1>8. /\ UndoStack(undo_steps', rows', last_sync', clk', counter')
      /\ RedoStack(redo_steps', rows', last_sync', clk')
    BY <1>1, <1>7, EmptyStacks
<1>9. QED
    BY <1>1, <1>4, <1>6, <1>8 DEF UndoInv

LEMMA AddCustomUndoStepKeeps ==
  ASSUME UndoInv, AddCustomUndoStep
  PROVE  UndoInv'
<1> DEFINE step == Step("Custom", <<>>)
<1>1. /\ clk < MaxClock /\ clk' = clk + 1 /\ counter' = counter + 1
      /\ undo_steps' = Push(undo_steps, step) /\ redo_steps' = <<>>
      /\ UNCHANGED <<rows, mod, last_sync, card_queues, panicked, minutes, day, syncs>>
    BY DEF AddCustomUndoStep, Tick
<1>2. <<>> \in Seq(Change) /\ Len(<<>>) = 0
    OBVIOUS
<1>3. /\ step \in StepType /\ step.changes = <<>> /\ step.counter = counter + 1
      /\ \A r \in Undoable : step.before[r] = rows[r]
    BY <1>1, <1>2, StepTyped
<1> HIDE DEF step
<1>4. GoodStep(step, last_sync, clk + 1) /\ ModifiedLast(step.changes)
    BY <1>2, <1>3 DEF GoodStep, GoodChanges, ModifiedLast
<1>5. \A r \in Undoable : UndoneTo(step.changes, r, rows[r], rows[r])
    BY <1>2, <1>3, NothingUndone DEF UndoneTo
<1>6. UndoStack(undo_steps, rows, last_sync, clk + 1, counter)
    <2>1. clk + 1 \in Nat /\ clk <= clk + 1 /\ counter <= counter
        BY ClockTyped
    <2>2. UndoStack(undo_steps, rows, last_sync, clk, counter)
        BY DEF UndoInv
    <2>3. \A r \in Undoable : rows[r] = rows[r]
        OBVIOUS
    <2>4. QED
        BY <2>1, <2>2, <2>3, ClockTyped, StacksKept
<1>7. UndoStack(Push(undo_steps, step), rows, last_sync, clk + 1, counter + 1)
    BY <1>3, <1>4, <1>5, <1>6, ClockTyped, UndoPushed
<1>8. RedoStack(redo_steps', rows, last_sync, clk + 1)
    BY <1>1, EmptyStacks
<1>9. Typed'
    BY <1>1, ClockTyped DEF UndoInv, Typed
<1>10. Bounded'
    <2>1. Len(undo_steps') \in Nat /\ Len(undo_steps') <= UNDO_LIMIT
        BY <1>1, <1>3, ClockTyped, PushedSteps
    <2>2. Len(redo_steps') = 0
        BY <1>1
    <2>3. QED
        BY <1>1, <2>1, <2>2, ClockTyped, SMTT(40) DEF Bounded
<1>11. Clean(rows', mod', last_sync')
    BY <1>1 DEF UndoInv
<1>12. QED
    BY <1>1, <1>7, <1>8, <1>9, <1>10, <1>11 DEF UndoInv

LEMMA MergeUndoableOpsKeeps ==
  ASSUME UndoInv, NEW i \in DOMAIN undo_steps, MergeUndoableOps(i)
  PROVE  UndoInv'
<1>1. i \in 1..Len(undo_steps) /\ undo_steps[i] \in StepType
    BY ClockTyped
<1>2. UndoStack(undo_steps, rows, last_sync, clk, counter)
    BY DEF UndoInv
<1>3. undo_steps[i].counter \in Nat /\ undo_steps[i].counter <= counter
    BY <1>1, <1>2 DEF UndoStack, StepType
<1>4. /\ UndoStack(undo_steps', rows, last_sync, clk, counter')
      /\ Len(undo_steps') <= Len(undo_steps) /\ counter' = undo_steps[i].counter
    BY <1>1, <1>2, UndoMerged DEF MergeUndoableOps, CounterAfterMerge
<1>5. UNCHANGED <<rows, mod, last_sync, redo_steps, card_queues, panicked, clk, minutes, day, syncs>>
    BY DEF MergeUndoableOps
<1>6. Typed'
    BY <1>3, <1>4, <1>5 DEF UndoInv, Typed
<1>7. Bounded'
    <2>1. Len(undo_steps') \in Nat /\ Len(undo_steps) \in Nat /\ Len(redo_steps) \in Nat
        BY <1>4, ClockTyped DEF UndoStack
    <2>2. Len(undo_steps) + Len(redo_steps) <= UNDO_LIMIT
        BY DEF UndoInv, Bounded
    <2>3. Len(undo_steps') + Len(redo_steps) <= UNDO_LIMIT
        BY <1>4, <2>1, <2>2, ClockTyped
    <2>4. QED
        BY <1>3, <1>4, <1>5, <2>3, ClockTyped DEF Bounded
<1>8. QED
    BY <1>4, <1>5, <1>6, <1>7 DEF UndoInv

LEMMA TimePasses ==
  ASSUME UndoInv,
         UNCHANGED <<rows, mod, last_sync, undo_steps, redo_steps, counter, card_queues,
                     panicked, clk, syncs>>,
         minutes' \in Nat, day' \in Nat, day <= day'
  PROVE  UndoInv'
<1>1. Typed'
    BY DEF UndoInv, Typed
<1>2. Bounded'
    BY ClockTyped DEF UndoInv, Bounded
<1>3. QED
    BY <1>1, <1>2 DEF UndoInv

LEMMA NextMinuteKeeps ==
  ASSUME UndoInv, NextMinute
  PROVE  UndoInv'
<1>1. minutes' \in Nat /\ day' \in Nat /\ day <= day'
    BY ClockTyped DEF NextMinute, UndoInv, Typed
<1>2. QED
    BY <1>1, TimePasses DEF NextMinute

LEMMA NextDayKeeps ==
  ASSUME UndoInv, NextDay
  PROVE  UndoInv'
<1>1. minutes' \in Nat /\ day' \in Nat /\ day <= day'
    BY ClockTyped DEF NextDay, UndoInv, Typed
<1>2. QED
    BY <1>1, TimePasses DEF NextDay

-----------------------------------------------------------------------------
(* Undo and redo.                                                           *)

(* A step that can be undone or redone now.                                 *)
Ready(step) ==
    /\ step \in StepType /\ GoodStep(step, last_sync, clk)
    /\ \A r \in Undoable : UndoneTo(step.changes, r, rows[r], step.before[r])
    /\ step.changes # <<>> => \E k \in 1..Len(step.changes) : step.changes[k].type = "modified"

(* What undoing or redoing a step leaves, before its transaction ends.      *)
LEMMA PerformEffect ==
  ASSUME UndoInv, NEW step, Ready(step), NEW s, s = UndoAll(Opened, step.changes)
  PROVE  /\ s \in State /\ s.mod \in Nat /\ s.mod <= clk /\ s.queues \in {card_queues, NoQueues}
         /\ \A r \in Undoable : s.rows[r] = step.before[r]
         /\ Clean(s.rows, s.mod, last_sync)
         /\ s.active =>
                /\ Recorded(s) /\ GoodChanges(s.changes, rows, last_sync, clk + 1)
                /\ Len(s.changes) = Len(step.changes)
                /\ \A j \in 1..Len(step.changes) :
                       s.changes[j].type = step.changes[(Len(step.changes) - j) + 1].type
<1> DEFINE changes == step.changes
<1> DEFINE n == Len(changes)
<1>1. step \in StepType
    BY DEF Ready
<1>2. changes \in Seq(Change) /\ step.before \in [Undoable -> Row]
    BY <1>1 DEF StepType
<1>3. n \in Nat /\ (n - n) + 1 = 1
    BY <1>2
<1>4. UndoneNewest(Opened, s, changes, n)
    BY <1>2, OpenedState, UndoAllEffect
<1> HIDE DEF n, changes
<1>5. /\ s \in State /\ s.queues \in {card_queues, NoQueues}
      /\ \A x \in Cells : UndoneTo(changes, x, Value(Opened, x), Value(s, x))
    BY <1>3, <1>4, OpenedState DEF UndoneNewest, UndoneTo, n
<1>6. Timely(changes, clk)
    BY DEF Ready, GoodStep, GoodChanges, Timely, changes
<1>7. s.mod <= clk /\ (s.active => Timely(s.changes, clk))
    BY <1>4, <1>6, OpenedState, ClockTyped DEF UndoneNewest
<1>8. s.mod \in 0..MaxClock
    BY <1>5 DEF State
<1>9. ASSUME NEW r \in Undoable PROVE s.rows[r] = step.before[r]
    <2>1. UndoneTo(changes, r, rows[r], step.before[r])
        BY DEF Ready, changes
    <2>2. r # Time /\ r \in Cells /\ Value(Opened, r) = rows[r]
        BY OpenedState
    <2>3. UndoneTo(changes, r, rows[r], Value(s, r))
        BY <1>5, <2>2
    <2>4. Value(s, r) = step.before[r]
        BY <1>3, <2>1, <2>3, UndoneOnce DEF UndoneTo, n
    <2>5. QED
        BY <2>2, <2>4 DEF Value
<1>10. Clean(s.rows, s.mod, last_sync)
    <2>1. UndoneTo(changes, Time, mod, s.mod)
        BY <1>5, OpenedState DEF Cells, Value
    <2>2. CASE \E k \in 1..n : IsOldest(changes, 1, Time, k) /\ s.mod = changes[k].old
        <3>1. PICK k \in 1..n : IsOldest(changes, 1, Time, k) /\ s.mod = changes[k].old
            BY <2>2
        <3>2. Clean(step.before, s.mod, last_sync)
            BY <3>1 DEF Ready, GoodStep, GoodChanges, changes, n
        <3>3. QED
            BY <1>9, <3>2 DEF Clean
    <2>3. CASE (\A k \in 1..n : ~Sets(changes[k], Time)) /\ s.mod = mod
        <3>1. changes = <<>>
            BY <2>3 DEF Ready, Sets, changes, n
        <3>2. \A r \in Undoable : step.before[r] = rows[r]
            BY <3>1 DEF Ready, UndoneTo, UndoneFrom, changes
        <3>3. Clean(rows, mod, last_sync)
            BY DEF UndoInv
        <3>4. QED
            BY <1>9, <2>3, <3>2, <3>3 DEF Clean
    <2>4. QED
        BY <2>1, <2>2, <2>3 DEF UndoneTo, UndoneFrom, n
<1>11. ASSUME s.active
       PROVE  /\ Recorded(s) /\ Len(s.changes) = n
              /\ \A j \in 1..n : s.changes[j].type = changes[(n - j) + 1].type
    BY <1>4, <1>11, OpenedState DEF UndoneNewest, n
<1>12. ASSUME s.active PROVE GoodChanges(s.changes, rows, last_sync, clk + 1)
    <2>1. s.changes \in Seq(Change)
        BY <1>5 DEF State
    <2>2. ASSUME NEW k \in 1..Len(s.changes), s.changes[k].type = "modified"
          PROVE  s.changes[k].old <= clk + 1
        <3>1. s.changes[k] \in Change
            BY <2>1
        <3>2. s.changes[k].old \in 0..MaxClock
            BY <2>2, <3>1, ChangeKinds
        <3>3. s.changes[k].old <= clk
            BY <1>7, <1>12, <2>2 DEF Timely
        <3>4. QED
            BY <3>2, <3>3, ClockTyped, SMTT(40)
    <2>3. ASSUME NEW k \in 1..Len(s.changes), IsOldest(s.changes, 1, Time, k)
          PROVE  Clean(rows, s.changes[k].old, last_sync)
        <3>1. UndoneTo(s.changes, Time, s.mod, mod)
            BY <1>11, <1>12, OpenedState DEF Recorded, Cells, Value
        <3>2. Sets(s.changes[k], Time)
            BY <2>3 DEF IsOldest
        <3>3. PICK j \in 1..Len(s.changes) : IsOldest(s.changes, 1, Time, j) /\ mod = s.changes[j].old
            BY <3>1, <3>2 DEF UndoneTo, UndoneFrom
        <3>4. Len(s.changes) \in Nat
            BY <2>1
        <3>5. j = k
            BY <2>3, <3>3, <3>4, OneOldest
        <3>6. QED
            BY <3>3, <3>5 DEF UndoInv
    <2>4. QED
        BY <2>2, <2>3 DEF GoodChanges
<1>13. QED
    BY <1>5, <1>7, <1>8, <1>9, <1>10, <1>11, <1>12, UndoBounds DEF n, changes

(* The transaction of an undo or a redo ends.                               *)
LEMMA PerformKeeps ==
  ASSUME UndoInv, NEW s \in State, NEW kind, s.mod \in Nat, s.mod <= clk,
         s.queues \in {card_queues, NoQueues}, Clean(s.rows, s.mod, last_sync),
         clk < MaxClock, clk' = clk + 1, Store(s, QueuesAfter(kind, s)),
         panicked' \in BOOLEAN, counter' = counter + 1,
         UNCHANGED <<last_sync, minutes, day, syncs>>,
         UndoStack(undo_steps', s.rows, last_sync, clk + 1, counter + 1),
         RedoStack(redo_steps', s.rows, last_sync, clk + 1),
         Len(undo_steps') + Len(redo_steps') <= UNDO_LIMIT
  PROVE  UndoInv'
<1> DEFINE q == QueuesAfter(kind, s)
<1>1. rows' = s.rows /\ mod' = s.mod /\ card_queues' = q
    BY DEF Store
<1>2. q \in Queues /\ q.built <= clk /\ q.day <= day
    BY QueuesAfterTyped
<1> HIDE DEF q
<1>3. s.rows \in [Rows -> Row] /\ q.built \in Nat
    BY <1>2 DEF State, Queues
<1>4. Typed'
    <2>1. rows' \in [Rows -> Row] /\ card_queues' \in Queues
        BY <1>1, <1>2, <1>3
    <2>2. clk' \in 0..MaxClock /\ counter' \in Nat
        BY ClockTyped DEF UndoInv, Typed
    <2>3. mod' \in Nat /\ last_sync' \in Nat /\ minutes' \in Nat /\ day' \in Nat /\ syncs' \in Nat
        BY <1>1 DEF UndoInv, Typed
    <2>4. QED
        BY <2>1, <2>2, <2>3 DEF Typed
<1>8. clk \in Nat /\ last_sync \in Nat /\ last_sync <= clk /\ counter \in Nat /\ counter <= clk
    BY ClockTyped
<1>5. mod' <= clk' /\ last_sync' <= clk' /\ counter' <= clk' /\ q.built <= clk'
    BY <1>1, <1>2, <1>3, <1>8
<1>6. Bounded'
    BY <1>1, <1>2, <1>5 DEF Bounded
<1>7. QED
    BY <1>1, <1>4, <1>6 DEF UndoInv

LEMMA UndoKeeps ==
  ASSUME UndoInv, Undo
  PROVE  UndoInv'
<1> DEFINE step == Head(undo_steps)
<1> DEFINE rest == Tail(undo_steps)
<1> DEFINE s == UndoAll(Opened, step.changes)
<1> DEFINE inner == Step(step.kind, IF Coalesces(step.kind, s.changes, rest)
                                    THEN <<>> ELSE s.changes)
<1> DEFINE n == Len(step.changes)
<1>1. undo_steps # <<>> /\ Perform(step, rest, redo_steps, TRUE)
    BY DEF Undo
<1>2. /\ undo_steps \in Seq(StepType) /\ redo_steps \in Seq(StepType)
      /\ clk \in Nat /\ counter \in Nat /\ clk + 1 \in Nat /\ counter + 1 \in Nat
      /\ clk <= clk + 1 /\ counter <= counter + 1 /\ UNDO_LIMIT \in Nat
    BY ClockTyped, SMTT(40)
<1>3. /\ clk < MaxClock /\ clk' = clk + 1 /\ counter' = counter + 1
      /\ Store(s, QueuesAfter(step.kind, s)) /\ panicked' = ~s.active
      /\ undo_steps' = IF ~s.active THEN <<>> ELSE rest
      /\ redo_steps' = IF ~s.active THEN <<>>
                       ELSE IF HasChanges(inner) THEN Append(redo_steps, inner) ELSE redo_steps
      /\ UNCHANGED <<last_sync, minutes, day, syncs>>
    BY <1>1 DEF Perform, Tick
<1>4. UndoStack(undo_steps, rows, last_sync, clk, counter)
    BY DEF UndoInv
<1>5. /\ 1 \in 1..Len(undo_steps) /\ step = undo_steps[1] /\ step \in StepType
      /\ Len(rest) = Len(undo_steps) - 1
    BY <1>1, <1>2
<1>6. step.kind \in {"UpdateNote", "AnswerCard", "Custom"} /\ step.changes \in Seq(Change)
    BY <1>5 DEF StepType
<1>7. n \in Nat /\ (step.changes # <<>> => n \in 1..n) /\ (step.changes = <<>> => n = 0)
    BY <1>6
<1> HIDE DEF step, rest, n
<1>8. /\ GoodStep(step, last_sync, clk) /\ ModifiedLast(step.changes)
      /\ \A r \in Undoable : UndoneTo(step.changes, r, rows[r], step.before[r])
    BY <1>4, <1>5 DEF UndoStack, Above
<1>9. Ready(step)
    BY <1>5, <1>7, <1>8 DEF Ready, ModifiedLast, n
<1> HIDE DEF s
<1>10. /\ s \in State /\ s.mod \in Nat /\ s.mod <= clk /\ s.queues \in {card_queues, NoQueues}
       /\ \A r \in Undoable : s.rows[r] = step.before[r]
       /\ Clean(s.rows, s.mod, last_sync)
       /\ s.active =>
              /\ Recorded(s) /\ GoodChanges(s.changes, rows, last_sync, clk + 1)
              /\ Len(s.changes) = n
              /\ \A j \in 1..n : s.changes[j].type = step.changes[(n - j) + 1].type
    BY <1>9, PerformEffect DEF s, n
<1> HIDE DEF inner
<1>11. ASSUME s.active
       PROVE  /\ UndoStack(undo_steps', s.rows, last_sync, clk + 1, counter + 1)
              /\ RedoStack(redo_steps', s.rows, last_sync, clk + 1)
              /\ Len(undo_steps') + Len(redo_steps') <= UNDO_LIMIT
    <2>1. UndoStack(rest, s.rows, last_sync, clk, counter)
        BY <1>1, <1>2, <1>4, <1>10, UndoPopped DEF step, rest
    <2>2. \A r \in Undoable : s.rows[r] = s.rows[r]
        OBVIOUS
    <2>3. UndoStack(rest, s.rows, last_sync, clk + 1, counter + 1)
        BY <1>2, <2>1, <2>2, StacksKept
    <2>4. s.changes \in Seq(Change)
        BY <1>10 DEF State
    <2>5. ModifiedFirst(s.changes)
        <3>1. ASSUME s.changes # <<>> PROVE s.changes[1].type = "modified"
            <4>1. n # 0
                BY <1>10, <1>11, <2>4, <3>1
            <4>2. step.changes # <<>> /\ 1 \in 1..n /\ (n - 1) + 1 = n
                BY <1>7, <4>1
            <4>3. s.changes[1].type = step.changes[n].type
                BY <1>10, <1>11, <4>2
            <4>4. QED
                BY <1>8, <4>2, <4>3 DEF ModifiedLast, n
        <3>2. QED
            BY <3>1 DEF ModifiedFirst
    <2>6. RedoStack(IF HasChanges(inner) THEN Append(redo_steps, inner) ELSE redo_steps,
                    s.rows, last_sync, clk + 1)
        BY <1>3, <1>6, <1>10, <1>11, <2>5, StepForRedo DEF inner, rest
    <2>7. undo_steps' = rest
        BY <1>3, <1>11
    <2>8. redo_steps' = IF HasChanges(inner) THEN Append(redo_steps, inner) ELSE redo_steps
        BY <1>3, <1>11
    <2>9. Len(undo_steps') + Len(redo_steps') <= UNDO_LIMIT
        <3>1. Len(undo_steps) + Len(redo_steps) <= UNDO_LIMIT
            BY DEF UndoInv, Bounded
        <3>2. Len(Append(redo_steps, inner)) = Len(redo_steps) + 1
            BY <1>2
        <3>3. Len(redo_steps') \in {Len(redo_steps), Len(redo_steps) + 1}
            BY <2>8, <3>2
        <3>4. Len(undo_steps) \in Nat /\ Len(redo_steps) \in Nat
            BY <1>2
        <3>5. QED
            BY <1>2, <1>5, <2>7, <3>1, <3>3, <3>4
    <2>10. QED
        BY <2>3, <2>6, <2>7, <2>8, <2>9
<1>12. ASSUME ~s.active
       PROVE  /\ UndoStack(undo_steps', s.rows, last_sync, clk + 1, counter + 1)
              /\ RedoStack(redo_steps', s.rows, last_sync, clk + 1)
              /\ Len(undo_steps') + Len(redo_steps') <= UNDO_LIMIT
    <2>1. undo_steps' = <<>> /\ redo_steps' = <<>>
        BY <1>3, <1>12
    <2>2. Len(undo_steps') + Len(redo_steps') = 0
        BY <2>1
    <2>3. QED
        BY <1>2, <2>1, <2>2, EmptyStacks
<1>13. /\ UndoStack(undo_steps', s.rows, last_sync, clk + 1, counter + 1)
       /\ RedoStack(redo_steps', s.rows, last_sync, clk + 1)
       /\ Len(undo_steps') + Len(redo_steps') <= UNDO_LIMIT
    BY <1>11, <1>12
<1>14. panicked' \in BOOLEAN
    BY <1>3
<1>15. QED
    BY <1>3, <1>10, <1>13, <1>14, PerformKeeps

LEMMA RedoKeeps ==
  ASSUME UndoInv, Redo
  PROVE  UndoInv'
<1> DEFINE step == Last(redo_steps)
<1> DEFINE rest == Front(redo_steps)
<1> DEFINE s == UndoAll(Opened, step.changes)
<1> DEFINE inner == Step(step.kind, IF Coalesces(step.kind, s.changes, undo_steps)
                                    THEN <<>> ELSE s.changes)
<1> DEFINE n == Len(step.changes)
<1>1. redo_steps # <<>> /\ Perform(step, undo_steps, rest, FALSE)
    BY DEF Redo
<1>2. /\ undo_steps \in Seq(StepType) /\ redo_steps \in Seq(StepType)
      /\ clk \in Nat /\ counter \in Nat /\ clk + 1 \in Nat /\ counter + 1 \in Nat
      /\ clk <= clk + 1 /\ counter <= counter + 1 /\ UNDO_LIMIT \in Nat
    BY ClockTyped
<1>3. /\ clk < MaxClock /\ clk' = clk + 1 /\ counter' = counter + 1
      /\ Store(s, QueuesAfter(step.kind, s)) /\ panicked' = ~s.active
      /\ undo_steps' = IF ~s.active THEN <<>>
                       ELSE IF ~HasChanges(inner) THEN undo_steps ELSE Push(undo_steps, inner)
      /\ redo_steps' = IF ~s.active THEN <<>> ELSE rest
      /\ UNCHANGED <<last_sync, minutes, day, syncs>>
    BY <1>1 DEF Perform, Tick
<1>4. RedoStack(redo_steps, rows, last_sync, clk)
    BY DEF UndoInv
<1>5. /\ Len(redo_steps) \in 1..Len(redo_steps) /\ step = redo_steps[Len(redo_steps)]
      /\ step \in StepType
    BY <1>1, <1>2 DEF Last
<1>6. step.kind \in {"UpdateNote", "AnswerCard", "Custom"} /\ step.changes \in Seq(Change)
    BY <1>5 DEF StepType
<1>7. n \in Nat /\ (step.changes # <<>> => 1 \in 1..n) /\ (step.changes = <<>> => n = 0)
    BY <1>6
<1>16. Len(rest) = Len(redo_steps) - 1
    <2> DEFINE l == Len(redo_steps)
    <2>1. rest = SubSeq(redo_steps, 1, l - 1)
        BY DEF Front
    <2>2. l \in Nat \ {0} /\ \A i \in 1..(l-1) : redo_steps[i] \in StepType
        BY <1>2, <1>5
    <2> HIDE DEF rest, l
    <2>3. Len(SubSeq(redo_steps, 1, l - 1)) = l - 1
        BY <2>2
    <2>4. QED
        BY <2>1, <2>3 DEF l
<1> HIDE DEF step, rest, n
<1>8. /\ GoodStep(step, last_sync, clk) /\ ModifiedFirst(step.changes)
      /\ \A r \in Undoable : UndoneTo(step.changes, r, rows[r], step.before[r])
    BY <1>4, <1>5 DEF RedoStack, Below
<1>9. Ready(step)
    BY <1>5, <1>7, <1>8 DEF Ready, ModifiedFirst, n
<1> HIDE DEF s
<1>10. /\ s \in State /\ s.mod \in Nat /\ s.mod <= clk /\ s.queues \in {card_queues, NoQueues}
       /\ \A r \in Undoable : s.rows[r] = step.before[r]
       /\ Clean(s.rows, s.mod, last_sync)
       /\ s.active =>
              /\ Recorded(s) /\ GoodChanges(s.changes, rows, last_sync, clk + 1)
              /\ Len(s.changes) = n
              /\ \A j \in 1..n : s.changes[j].type = step.changes[(n - j) + 1].type
    BY <1>9, PerformEffect DEF s, n
<1> HIDE DEF inner
<1>11. ASSUME s.active
       PROVE  /\ UndoStack(undo_steps', s.rows, last_sync, clk + 1, counter + 1)
              /\ RedoStack(redo_steps', s.rows, last_sync, clk + 1)
              /\ Len(undo_steps') + Len(redo_steps') <= UNDO_LIMIT
    <2>1. RedoStack(rest, s.rows, last_sync, clk)
        BY <1>1, <1>2, <1>4, <1>10, RedoPopped DEF step, rest
    <2>2. \A r \in Undoable : s.rows[r] = s.rows[r]
        OBVIOUS
    <2>3. RedoStack(rest, s.rows, last_sync, clk + 1)
        BY <1>2, <2>1, <2>2, StacksKept
    <2>4. s.changes \in Seq(Change)
        BY <1>10 DEF State
    <2>5. ModifiedLast(s.changes)
        <3>1. ASSUME s.changes # <<>> PROVE s.changes[Len(s.changes)].type = "modified"
            <4>1. n # 0 /\ Len(s.changes) = n
                BY <1>10, <1>11, <2>4, <3>1
            <4>2. step.changes # <<>> /\ n \in 1..n /\ (n - n) + 1 = 1
                BY <1>7, <4>1
            <4>3. s.changes[n].type = step.changes[1].type
                BY <1>10, <1>11, <4>2
            <4>4. QED
                BY <1>8, <4>1, <4>2, <4>3 DEF ModifiedFirst
        <3>2. QED
            BY <3>1 DEF ModifiedLast
    <2>6. UndoStack(IF HasChanges(inner) THEN Push(undo_steps, inner) ELSE undo_steps,
                    s.rows, last_sync, clk + 1, counter + 1)
        BY <1>3, <1>6, <1>10, <1>11, <2>5, StepStacked DEF inner
    <2>7. redo_steps' = rest
        BY <1>3, <1>11
    <2>8. undo_steps' = IF HasChanges(inner) THEN Push(undo_steps, inner) ELSE undo_steps
        BY <1>3, <1>11
    <2>9. Len(undo_steps') + Len(redo_steps') <= UNDO_LIMIT
        <3>1. Len(undo_steps) + Len(redo_steps) <= UNDO_LIMIT
            BY DEF UndoInv, Bounded
        <3>2. (IF Coalesces(step.kind, s.changes, undo_steps) THEN <<>> ELSE s.changes) \in Seq(Change)
            BY <2>4
        <3>3. inner \in StepType
            BY <1>3, <1>6, <3>2, StepTyped DEF inner
        <3>4. /\ Len(Push(undo_steps, inner)) \in Nat
              /\ Len(Push(undo_steps, inner)) <= Len(undo_steps) + 1
            BY <1>2, <3>3, PushedSteps
        <3>5. Len(undo_steps) \in Nat /\ Len(redo_steps) \in Nat
            BY <1>2
        <3>6. Len(undo_steps') \in Nat /\ Len(undo_steps') <= Len(undo_steps) + 1
            BY <2>8, <3>4, <3>5
        <3>7. QED
            BY <1>2, <1>16, <2>7, <3>1, <3>5, <3>6
    <2>10. QED
        BY <2>3, <2>6, <2>7, <2>8, <2>9
<1>12. ASSUME ~s.active
       PROVE  /\ UndoStack(undo_steps', s.rows, last_sync, clk + 1, counter + 1)
              /\ RedoStack(redo_steps', s.rows, last_sync, clk + 1)
              /\ Len(undo_steps') + Len(redo_steps') <= UNDO_LIMIT
    <2>1. undo_steps' = <<>> /\ redo_steps' = <<>>
        BY <1>3, <1>12
    <2>2. Len(undo_steps') + Len(redo_steps') = 0
        BY <2>1
    <2>3. QED
        BY <1>2, <2>1, <2>2, EmptyStacks
<1>13. /\ UndoStack(undo_steps', s.rows, last_sync, clk + 1, counter + 1)
       /\ RedoStack(redo_steps', s.rows, last_sync, clk + 1)
       /\ Len(undo_steps') + Len(redo_steps') <= UNDO_LIMIT
    BY <1>11, <1>12
<1>14. panicked' \in BOOLEAN
    BY <1>3
<1>15. QED
    BY <1>3, <1>10, <1>13, <1>14, PerformKeeps

-----------------------------------------------------------------------------
(* The theorems.                                                            *)

LEMMA InitUndoInv == Init => UndoInv
<1> SUFFICES ASSUME Init PROVE UndoInv
    OBVIOUS
<1>1. [ed |-> 0, pending |-> FALSE] \in Row
    BY UndoBounds DEF Row
<1>2. NoQueues \in Queues /\ NoQueues.built = 0 /\ NoQueues.day = 0
    BY DEF NoQueues, Queues
<1>3. Typed
    <2>1. /\ rows = [r \in Rows |-> [ed |-> 0, pending |-> FALSE]]
          /\ mod = 0 /\ last_sync = 0 /\ counter = 0 /\ card_queues = NoQueues
          /\ clk = 0 /\ minutes = 0 /\ day = 1 /\ syncs = 0
        BY DEF Init
    <2>2. panicked \in BOOLEAN
        BY DEF Init
    <2>3. rows \in [Rows -> Row]
        BY <1>1, <2>1
    <2>4. clk \in 0..MaxClock
        BY <2>1, UndoBounds
    <2>5. QED
        BY <1>2, <2>1, <2>2, <2>3, <2>4 DEF Typed
<1>4. Bounded
    <2>1. Len(undo_steps) + Len(redo_steps) = 0
        BY DEF Init
    <2>2. QED
        BY <1>2, <2>1, UndoBounds DEF Init, Bounded
<1>5. Clean(rows, mod, last_sync)
    BY DEF Init, Clean, Undoable, Rows
<1>6. QED
    BY <1>3, <1>4, <1>5, EmptyStacks DEF Init, UndoInv

LEMMA NextUndoInv ==
  ASSUME UndoInv, [Next]_vars
  PROVE  UndoInv'
<1>1. CASE UNCHANGED vars
    BY <1>1 DEF vars, UndoInv, Typed, Bounded
<1>2. CASE Next
    BY <1>2, UpdateNoteKeeps, UpdateNoteNoUndoKeeps, UpdateNoteUnchangedKeeps, AnswerCardKeeps,
       SetDeckCollapsedKeeps, FailOperationKeeps, GetQueuesKeeps, AddCustomUndoStepKeeps,
       MergeUndoableOpsKeeps, UndoKeeps, RedoKeeps, SyncKeeps, RestartKeeps, NextMinuteKeeps,
       NextDayKeeps, Zenon DEF Next
<1>3. QED
    BY <1>1, <1>2

(* Whatever was done, undone, redone, coalesced and merged, the steps on    *)
(* the stacks are consistent with each other and with the rows.             *)
THEOREM UndoConsistent == Spec => []UndoInv
BY InitUndoInv, NextUndoInv, PTL DEF Spec

(* The rows, the times and the stacks have the types that TypeOK states.    *)
THEOREM UndoTypeCorrect == Spec => []TypeOK
<1>1. UndoInv => TypeOK
    <2> SUFFICES ASSUME UndoInv PROVE TypeOK
        OBVIOUS
    <2>1. ASSUME NEW step \in StepType PROVE IsStep(step)
        BY DEF StepType, IsStep
    <2>2. /\ \A i \in DOMAIN undo_steps : undo_steps[i] \in StepType
          /\ \A i \in DOMAIN redo_steps : redo_steps[i] \in StepType
        BY ClockTyped
    <2>3. Len(undo_steps) <= UNDO_LIMIT /\ Len(redo_steps) <= UNDO_LIMIT
        <3>1. Len(undo_steps) \in Nat /\ Len(redo_steps) \in Nat /\ UNDO_LIMIT \in Nat
            BY ClockTyped
        <3>2. Len(undo_steps) + Len(redo_steps) <= UNDO_LIMIT
            BY DEF UndoInv, Bounded
        <3>3. QED
            BY <3>1, <3>2
    <2>4. card_queues \in [built : 0..clk, day : 0..day]
        <3>1. card_queues \in [built : Nat, day : Nat] /\ card_queues.built <= clk /\ card_queues.day <= day
              /\ clk \in Nat /\ day \in Nat
            BY ClockTyped DEF Queues
        <3>2. QED
            BY <3>1
    <2>5. rows \in [Rows -> Row] /\ mod \in 0..clk /\ last_sync \in 0..clk
        BY ClockTyped
    <2>6. QED
        BY <2>1, <2>2, <2>3, <2>4, <2>5 DEF TypeOK
<1>2. QED
    BY <1>1, UndoConsistent, PTL

(* No two steps of the undo stack have the same counter, although a merge   *)
(* turns it back.                                                           *)
THEOREM CountersAreUnique == Spec => []CountersIdentifySteps
<1>1. UndoInv => CountersIdentifySteps
    <2> SUFFICES ASSUME UndoInv PROVE CountersIdentifySteps
        OBVIOUS
    <2>1. DOMAIN undo_steps = 1..Len(undo_steps)
        BY ClockTyped
    <2>2. QED
        BY <2>1 DEF UndoInv, UndoStack, CountersIdentifySteps
<1>2. QED
    BY <1>1, UndoConsistent, PTL

(* An undo that takes the collection back to the status "no changes" leaves *)
(* no note and no card that was edited since the last sync.                 *)
THEOREM EditsAreReported == Spec => []NoEditUnreported
<1>1. UndoInv => NoEditUnreported
    BY DEF UndoInv, Clean, NoEditUnreported, StatusIsNoChanges
<1>2. QED
    BY <1>1, UndoConsistent, PTL

AllUndone(t, steps) == FoldLeft(LAMBDA s, step : UndoAll(s, step.changes), t, steps)

LEMMA AllUndoneIsFold ==
  ASSUME NEW t, NEW steps
  PROVE  AllUndone(t, steps) = UndoingAll!Fold(t, steps)
BY Zenon DEF AllUndone, UndoingAll!Fold, FoldLeft, UndoingAll!FoldLeft,
             MapThenFoldSet, UndoingAll!MapThenFoldSet, Max, UndoingAll!Max

(* Undoing steps of which each begins where the one before leaves the rows  *)
(* gives the rows as they were when the last of them began.                 *)
LEMMA AllUndoneRestores ==
  ASSUME UndoInv, NEW steps \in Seq(StepType), steps # <<>>,
         \A i \in 1..Len(steps), r \in Undoable :
             UndoneTo(steps[i].changes, r, Above(steps, rows, i, r), steps[i].before[r])
  PROVE  Restores(steps[Len(steps)], AllUndone(Opened, steps))
<1> DEFINE n == Len(steps)
<1>1. n \in Nat \ {0} /\ DOMAIN steps = 1..n /\ \A i \in 1..n : steps[i] \in StepType
    OBVIOUS
<1>2. AllUndone(Opened, steps) = UndoingAll!Fold(Opened, steps)
    BY AllUndoneIsFold
<1> HIDE DEF n
<1>3. PICK v : /\ v[0] = Opened
               /\ \A k \in 1..n : v[k] = UndoAll(v[k-1], steps[k].changes)
               /\ v[n] = UndoingAll!Fold(Opened, steps)
    BY <1>1, UndoingAll!FoldTrace
<1> DEFINE Reached(k) == v[k] \in State /\ \A r \in Undoable : v[k].rows[r] = Above(steps, rows, k + 1, r)
<1> DEFINE H == {k \in 0..n : Reached(k)}
<1>4. 0 \in H
    BY <1>1, <1>3, OpenedState DEF Above
<1>5. ASSUME NEW k \in 0..(n-1), k \in H PROVE k + 1 \in H
    <2> DEFINE step == steps[k + 1]
    <2>1. k + 1 \in 1..n /\ (k + 1) - 1 = k /\ k + 1 \in 0..n /\ (k + 1) + 1 # 1
          /\ ((k + 1) + 1) - 1 = k + 1
        BY <1>1
    <2>2. v[k] \in State /\ \A r \in Undoable : v[k].rows[r] = Above(steps, rows, k + 1, r)
        BY <1>5
    <2>3. step \in StepType
        BY <1>1, <2>1
    <2>4. step.changes \in Seq(Change)
        BY <2>3 DEF StepType
    <2>5. v[k + 1] = UndoAll(v[k], step.changes)
        BY <1>3, <2>1
    <2>6. UndoneNewest(v[k], v[k + 1], step.changes, Len(step.changes))
        BY <2>2, <2>4, <2>5, UndoAllEffect
    <2>7. Len(step.changes) \in Nat /\ (Len(step.changes) - Len(step.changes)) + 1 = 1
        BY <2>4
    <2>8. /\ v[k + 1] \in State
          /\ \A x \in Cells : UndoneTo(step.changes, x, Value(v[k], x), Value(v[k + 1], x))
        BY <2>6, <2>7 DEF UndoneNewest, UndoneTo
    <2>9. ASSUME NEW r \in Undoable PROVE v[k + 1].rows[r] = step.before[r]
        <3>1. r # Time /\ r \in Cells
            BY OpenedState
        <3>2. UndoneTo(step.changes, r, v[k].rows[r], v[k + 1].rows[r])
            BY <2>8, <3>1 DEF Value
        <3>3. UndoneTo(step.changes, r, v[k].rows[r], step.before[r])
            BY <2>1, <2>2 DEF n
        <3>4. QED
            BY <2>7, <3>2, <3>3, UndoneOnce DEF UndoneTo
    <2>10. \A r \in Undoable : Above(steps, rows, (k + 1) + 1, r) = step.before[r]
        BY <2>1 DEF Above
    <2>11. QED
        BY <2>1, <2>8, <2>9, <2>10
<1>6. H = 0..n
    <2> HIDE DEF H
    <2>1. H \in SUBSET (0..n)
        BY DEF H
    <2>2. QED
        BY <1>1, <1>4, <1>5, <2>1, UndoingAll!Induct
<1>7. n \in H /\ n + 1 # 1 /\ (n + 1) - 1 = n
    BY <1>1, <1>6
<1>8. \A r \in Undoable : v[n].rows[r] = steps[n].before[r]
    BY <1>7 DEF Above
<1>9. QED
    BY <1>2, <1>3, <1>8 DEF Restores, n

(* Undoing i steps gives the notes and the card as they were when the i-th  *)
(* step from the top began, with their usns, for every i and every history. *)
THEOREM UndoGivesRowsBack == Spec => []UndoRestores
<1>1. UndoInv => UndoRestores
    <2> SUFFICES ASSUME UndoInv, NEW i \in DOMAIN undo_steps
                 PROVE  Restores(undo_steps[i], AllUndone(Opened, SubSeq(undo_steps, 1, i)))
        BY Zenon DEF UndoRestores, AllUndone
    <2> DEFINE sub == SubSeq(undo_steps, 1, i)
    <2>1. undo_steps \in Seq(StepType)
        BY ClockTyped
    <2>2. i \in 1..Len(undo_steps) /\ i \in Nat \ {0}
        BY <2>1
    <2>3. \A j \in 1..i : j \in 1..Len(undo_steps) /\ undo_steps[j] \in StepType
        BY <2>1, <2>2
    <2>4. sub \in Seq(StepType) /\ Len(sub) = i /\ \A j \in 1..i : sub[j] = undo_steps[j]
        BY <2>1, <2>2, <2>3
    <2> HIDE DEF sub
    <2>5. sub # <<>> /\ sub[Len(sub)] = undo_steps[i]
        BY <2>2, <2>4
    <2>6. ASSUME NEW j \in 1..i, NEW r \in Undoable
          PROVE  UndoneTo(sub[j].changes, r, Above(sub, rows, j, r), sub[j].before[r])
        <3>1. UndoneTo(undo_steps[j].changes, r, Above(undo_steps, rows, j, r), undo_steps[j].before[r])
            BY <2>3 DEF UndoInv, UndoStack
        <3>2. j # 1 => j - 1 \in 1..i
            BY <2>2
        <3>3. Above(sub, rows, j, r) = Above(undo_steps, rows, j, r)
            BY <2>4, <3>2 DEF Above
        <3>4. QED
            BY <2>4, <3>1, <3>3
    <2>7. Restores(sub[Len(sub)], AllUndone(Opened, sub))
        BY <2>4, <2>5, <2>6, AllUndoneRestores
    <2>8. QED
        BY <2>5, <2>7 DEF sub
<1>2. QED
    BY <1>1, UndoConsistent, PTL

(* Redoing i steps gives them as they were before the undo of the i-th.     *)
THEOREM RedoGivesRowsBack == Spec => []RedoRestores
<1>1. UndoInv => RedoRestores
    <2> SUFFICES ASSUME UndoInv, NEW i \in DOMAIN redo_steps
                 PROVE  Restores(redo_steps[i],
                                 AllUndone(Opened, Reverse(SubSeq(redo_steps, i, Len(redo_steps)))))
        BY Zenon DEF RedoRestores, AllUndone
    <2> DEFINE l == Len(redo_steps)
    <2> DEFINE sub == SubSeq(redo_steps, i, l)
    <2> DEFINE rev == Reverse(sub)
    <2> DEFINE n == (l - i) + 1
    <2>1. redo_steps \in Seq(StepType)
        BY ClockTyped
    <2>2. i \in 1..l /\ l \in Nat
        BY <2>1
    <2>3. n \in Nat \ {0} /\ \A j \in i..l : j \in 1..l /\ redo_steps[j] \in StepType
        BY <2>1, <2>2
    <2>4. sub \in Seq(StepType) /\ Len(sub) = n /\ \A j \in 1..n : sub[j] = redo_steps[(i + j) - 1]
        <3>1. \A j \in i..l : redo_steps[j] \in StepType
            BY <2>3
        <3> HIDE DEF l
        <3>2. /\ SubSeq(redo_steps, i, l) \in Seq(StepType) /\ Len(SubSeq(redo_steps, i, l)) = n
              /\ \A j \in 1..n : SubSeq(redo_steps, i, l)[j] = redo_steps[i + j - 1]
            BY <2>2, <3>1, SubSeqProperties
        <3>3. QED
            BY <3>2
    <2> HIDE DEF sub, l, n
    <2>5. /\ rev \in Seq(StepType) /\ Len(rev) = n
          /\ \A k \in 1..n : rev[k] = redo_steps[(l - k) + 1]
        <3>1. /\ \A k \in 1..n : (n - k) + 1 \in 1..n /\ (i + ((n - k) + 1)) - 1 = (l - k) + 1
            BY <2>2, <2>3 DEF n
        <3>2. rev = [k \in 1..n |-> sub[(n - k) + 1]]
            BY <2>4 DEF Reverse
        <3>3. \A k \in 1..n : sub[(n - k) + 1] \in StepType
            BY <2>3, <2>4, <3>1
        <3>4. \A k \in 1..n : rev[k] = redo_steps[(l - k) + 1]
            BY <2>4, <3>1, <3>2
        <3> HIDE DEF rev
        <3>5. rev \in Seq(StepType) /\ Len(rev) = n
            BY <2>3, <3>2, <3>3
        <3>6. QED
            BY <3>4, <3>5
    <2> HIDE DEF rev
    <2>6. rev # <<>> /\ rev[Len(rev)] = redo_steps[i]
        <3>1. n \in 1..n /\ (l - n) + 1 = i
            BY <2>2, <2>3 DEF n
        <3>2. QED
            BY <2>3, <2>5, <3>1
    <2>7. ASSUME NEW k \in 1..n, NEW r \in Undoable
          PROVE  UndoneTo(rev[k].changes, r, Above(rev, rows, k, r), rev[k].before[r])
        <3> DEFINE j == (l - k) + 1
        <3>1. j \in 1..l /\ rev[k] = redo_steps[j] /\ (j = l <=> k = 1)
            BY <2>2, <2>3, <2>5 DEF n
        <3>2. UndoneTo(redo_steps[j].changes, r, Below(redo_steps, rows, j, r), redo_steps[j].before[r])
            BY <3>1 DEF UndoInv, RedoStack, l
        <3>3. k # 1 => k - 1 \in 1..n /\ (l - (k - 1)) + 1 = j + 1
            BY <2>2, <2>3
        <3>4. k # 1 => rev[k - 1] = redo_steps[j + 1]
            BY <2>5, <3>3
        <3>5. Above(rev, rows, k, r) = Below(redo_steps, rows, j, r)
            BY <3>1, <3>4 DEF Above, Below, l
        <3>6. QED
            BY <3>1, <3>2, <3>5
    <2>8. Restores(rev[Len(rev)], AllUndone(Opened, rev))
        BY <2>5, <2>6, <2>7, AllUndoneRestores
    <2>9. QED
        BY <2>6, <2>8 DEF rev, sub, l
<1>2. QED
    BY <1>1, UndoConsistent, PTL

=============================================================================
