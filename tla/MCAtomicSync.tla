---------------------------- MODULE MCAtomicSync ----------------------------
(***************************************************************************)
(* AtomicSync for TLC: two devices that sync a card and a deck.            *)
(***************************************************************************)
EXTENDS AtomicSyncProofs, TLC

CONSTANTS a, b, card, deck

SyncedClocks == [e \in 0..MaxEdits |-> e]

Symmetry == Permutations({a, b})

OneUpload == Cardinality(uploads) <= 1
=============================================================================
