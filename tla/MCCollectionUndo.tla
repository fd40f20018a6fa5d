-------------------------- MODULE MCCollectionUndo --------------------------
(***************************************************************************)
(* CollectionUndo for TLC: one or two notes, a card and its deck.          *)
(***************************************************************************)
EXTENDS CollectionUndo, TLC

CONSTANTS n1, n2

(* A minute passes, or a day begins, or there is a sync.                   *)
OnePause == minutes + day + syncs <= 2
=============================================================================
