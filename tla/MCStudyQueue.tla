---------------------------- MODULE MCStudyQueue ----------------------------
(* Instances of StudyQueue.                                                *)
EXTENDS StudyQueue, TLC

CONSTANTS r, n, p, q

(* r and n are of one note, p is a new card in a filtered deck.            *)
Notes        == r :> 1 @@ n :> 1 @@ p :> 2 @@ q :> 3
InEachQueue  == r :> "DayLearn" @@ n :> "New" @@ p :> "New" @@ q :> "Review"
ReviewAndNew == r :> "Review" @@ n :> "New" @@ p :> "New" @@ q :> "New"
BuryNew      == [c \in Cards |-> {"New"}]
BuryReviews  == [c \in Cards |-> {"Review"}]
=============================================================================
