----------------------------- MODULE FoldFacts -----------------------------
(***************************************************************************)
(* What FoldLeft computes, one element after the other, for any operator   *)
(* op.  The proofs about the models' loops need it: the fold is defined by *)
(* CHOOSE of a function on sets of indices, and here it becomes a sequence *)
(* of intermediate results, about which one can argue by induction.        *)
(***************************************************************************)
EXTENDS SequencesExt, Integers, WellFoundedInduction, TLAPS

CONSTANT op(_, _)

(* The least element of a set of natural numbers, from which inductions    *)
(* are made.                                                               *)
LEMMA LeastElement ==
    ASSUME NEW T \in SUBSET Nat, T # {}
    PROVE  \E x \in T : \A y \in T : ~(y < x)
<1>1. IsWellFoundedOn(OpToRel(<, Nat), Nat)
    BY NatLessThanWellFounded
<1>2. \E x \in T : \A y \in T : ~(<<y, x>> \in OpToRel(<, Nat))
    BY <1>1, WFMin
<1>3. QED
    BY <1>2 DEF OpToRel

(* What holds of 0 and is handed on holds of every natural number.         *)
LEMMA Induct ==
    ASSUME NEW n \in Nat, NEW H \in SUBSET (0..n), 0 \in H,
           \A k \in 0..(n-1) : k \in H => k + 1 \in H
    PROVE  H = 0..n
<1> DEFINE T == (0..n) \ H
<1>1. CASE T = {}
    BY <1>1
<1>2. CASE T # {}
    <2>0. T \in SUBSET Nat
        OBVIOUS
    <2>1. PICK x \in T : \A y \in T : ~(y < x)
        <3> HIDE DEF T
        <3>1. QED
            BY <1>2, <2>0, LeastElement
    <2>2. x \in 1..n
        BY <2>1
    <2>3. x - 1 \in H
        BY <2>1, <2>2
    <2>4. x \in H
        BY <2>2, <2>3
    <2>5. QED
        BY <2>1, <2>4
<1>3. QED
    BY <1>1, <1>2

(* The greatest of numbers up to k + 1, among which is k + 1.              *)
LEMMA MaxOf ==
    ASSUME NEW k \in Nat, NEW s \in SUBSET (1..(k+1)), k+1 \in s
    PROVE  Max(s) = k+1
<1>1. k+1 \in s /\ \A y \in s : k+1 >= y
    OBVIOUS
<1>2. Max(s) \in s /\ \A y \in s : Max(s) >= y
    BY <1>1 DEF Max
<1>6. s \subseteq Int
    OBVIOUS
<1>7. Max(s) \in s
    BY <1>2
<1>3. Max(s) \in Int
    BY <1>7, <1>6, Zenon
<1>5. Max(s) >= k+1 /\ k+1 >= Max(s)
    BY <1>1, <1>2
<1>4. QED
    BY <1>3, <1>5

(* g is the function that the definition of FoldLeft chooses.              *)
Folds(g, base, seq, n) ==
    g = [s \in SUBSET (1..n) |->
            IF s = {} THEN base ELSE op(g[s \ {Max(s)}], seq[Max(s)])]

(* There is such a function.                                               *)
LEMMA FoldExists ==
    ASSUME NEW base, NEW seq, NEW n \in Nat
    PROVE  \E g : Folds(g, base, seq, n)
<1> DEFINE H == {k \in 0..n : \E g : Folds(g, base, seq, k)}
<1>1. 0 \in H
    <2> DEFINE g == [s \in SUBSET (1..0) |-> base]
    <2>1. 1..0 = {}
        OBVIOUS
    <2>2. Folds(g, base, seq, 0)
        BY <2>1 DEF Folds
    <2>3. QED
        BY <2>2
<1>2. ASSUME NEW k \in 0..(n-1), NEW h, Folds(h, base, seq, k)
      PROVE  k + 1 \in H
    <2> DEFINE g == [s \in SUBSET (1..(k+1)) |->
                        IF k+1 \in s THEN op(h[s \ {k+1}], seq[k+1]) ELSE h[s]]
    <2>1. \A s \in SUBSET (1..k) : g[s] = h[s]
        <3>1. SUBSET (1..k) \subseteq SUBSET (1..(k+1)) /\ k+1 \notin 1..k
            OBVIOUS
        <3>2. QED
            BY <3>1
    <2>2. ASSUME NEW s \in SUBSET (1..(k+1))
          PROVE  g[s] = IF s = {} THEN base ELSE op(g[s \ {Max(s)}], seq[Max(s)])
        <3>1. CASE k+1 \in s
            <4>1. Max(s) = k+1
                BY <3>1, MaxOf
            <4>2. s \ {k+1} \in SUBSET (1..k)
                OBVIOUS
            <4>3. g[s \ {k+1}] = h[s \ {k+1}]
                BY <2>1, <4>2
            <4>4. g[s] = op(h[s \ {k+1}], seq[k+1])
                BY <3>1
            <4>5. QED
                BY <3>1, <4>1, <4>3, <4>4
        <3>2. CASE k+1 \notin s
            <4>1. s \in SUBSET (1..k)
                BY <3>2
            <4>2. h[s] = IF s = {} THEN base ELSE op(h[s \ {Max(s)}], seq[Max(s)])
                BY <1>2, <4>1 DEF Folds
            <4>3. s \ {Max(s)} \in SUBSET (1..k)
                BY <4>1
            <4>4. g[s] = h[s] /\ g[s \ {Max(s)}] = h[s \ {Max(s)}]
                BY <2>1, <4>1, <4>3
            <4>5. QED
                BY <4>2, <4>4
        <3>3. QED
            BY <3>1, <3>2
    <2>3. Folds(g, base, seq, k+1)
        <3> DEFINE f == [s \in SUBSET (1..(k+1)) |->
                            IF s = {} THEN base ELSE op(g[s \ {Max(s)}], seq[Max(s)])]
        <3>1. g = f
            BY <2>2
        <3>2. QED
            BY <3>1 DEF Folds
    <2>4. QED
        BY <2>3
<1>3. H = 0..n
    <2>1. \A k \in 0..(n-1) : k \in H => k + 1 \in H
        BY <1>2
    <2> HIDE DEF H
    <2>3. H \in SUBSET (0..n)
        BY DEF H
    <2>2. QED
        BY <1>1, <2>1, <2>3, Induct
<1>4. QED
    BY <1>3

-----------------------------------------------------------------------------
Fold(base, seq) == FoldLeft(op, base, seq)

(* A fold over a sequence passes through v[0], v[1], ...: the base, and    *)
(* what op makes of each result and the next element.                      *)
LEMMA FoldTrace ==
    ASSUME NEW base, NEW seq, NEW n \in Nat, DOMAIN seq = 1..n
    PROVE  \E v : /\ v[0] = base
                  /\ \A k \in 1..n : v[k] = op(v[k-1], seq[k])
                  /\ v[n] = Fold(base, seq)
<1> DEFINE g == CHOOSE g : Folds(g, base, seq, n)
<1> DEFINE v == [k \in 0..n |-> g[1..k]]
<1>1. Folds(g, base, seq, n)
    BY FoldExists
<1>2. Fold(base, seq) = g[1..n]
    BY Zenon DEF Fold, FoldLeft, MapThenFoldSet, Folds
<1> HIDE DEF g
<1>3. v[0] = base
    BY <1>1 DEF Folds
<1>4. ASSUME NEW k \in 1..n PROVE v[k] = op(v[k-1], seq[k])
    <2>1. Max(1..k) = k
        <3>1. k-1 \in Nat /\ k = (k-1)+1 /\ 1..k \in SUBSET (1..((k-1)+1)) /\ k \in 1..k
            OBVIOUS
        <3>2. QED
            BY <3>1, MaxOf
    <2>2. (1..k) \ {k} = 1..(k-1)
        OBVIOUS
    <2>4. 1..k \in SUBSET (1..n) /\ k \in 1..k
        OBVIOUS
    <2>5. g[1..k] = op(g[(1..k) \ {Max(1..k)}], seq[Max(1..k)])
        BY <1>1, <2>4 DEF Folds
    <2>3. g[1..k] = op(g[1..(k-1)], seq[k])
        BY <2>1, <2>2, <2>5
    <2>6. v[k] = g[1..k] /\ v[k-1] = g[1..(k-1)]
        OBVIOUS
    <2>7. QED
        BY <2>3, <2>6
<1>5. v[n] = Fold(base, seq)
    BY <1>2
<1> HIDE DEF v
<1>6. QED
    BY <1>3, <1>4, <1>5
=============================================================================
