----------------------------- MODULE MCCardLife -----------------------------
(***************************************************************************)
(* CardLife for TLC: the cards of a note, two decks and a filtered deck.   *)
(***************************************************************************)
EXTENDS CardLife, TLC

CONSTANTS c1, c2, d1, d2, f

(* Two steps of ten minutes and an hour in one deck, one or none in the    *)
(* other.                                                                  *)
TwoDecksLearn == d1 :> <<10, 60>> @@ d2 :> <<30>>
TwoDecksRelearn == d1 :> <<10>> @@ d2 :> <<>>

Symmetry == Permutations(Cards)
=============================================================================
