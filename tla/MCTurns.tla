------------------------------ MODULE MCTurns ------------------------------
(* One client: the other inputs are typed. *)
EXTENDS TurnCompletion

CONSTANT c1
=============================================================================
