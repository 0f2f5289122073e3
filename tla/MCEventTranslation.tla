------------------------- MODULE MCEventTranslation -------------------------
(* EventTranslation with interchangeable items and one turn of a subagent. *)
EXTENDS EventTranslation, TLC

ItemSymmetry == Permutations(Items)

TurnBound == [own |-> 2, child |-> 1]
=============================================================================
