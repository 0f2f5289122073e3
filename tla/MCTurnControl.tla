--------------------------- MODULE MCTurnControl ---------------------------
(* TurnControl on small instances. *)
EXTENDS TurnControl

CONSTANT c1   \* model value
=============================================================================
