------------------------------ MODULE MCLoops ------------------------------
(* Runs of one loop: every fire and every command finds a row to insert. *)
EXTENDS LoopRuns
=============================================================================
