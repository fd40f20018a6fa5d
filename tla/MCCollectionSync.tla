-------------------------- MODULE MCCollectionSync --------------------------
(***************************************************************************)
(* CollectionSync for TLC: two devices that sync a few rows.               *)
(***************************************************************************)
EXTENDS CollectionSync, TLC

CONSTANTS a, b, card, card2, deck, log

(* Clocks that agree, and clocks that do not.                              *)
SyncedClocks == [e \in 0..MaxEdits |-> e]
SkewedClocks == [e \in 0..MaxEdits |-> IF e = 0 THEN 0 ELSE MaxEdits + 1 - e]

Symmetry == Permutations({a, b})
=============================================================================
