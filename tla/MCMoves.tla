------------------------------ MODULE MCMoves ------------------------------
(* One agent, one of each other party: the races are of two or three threads. *)
EXTENDS PaneMoves

CONSTANTS s1, k1, c1
=============================================================================
