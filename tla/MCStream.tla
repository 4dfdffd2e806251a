------------------------------ MODULE MCStream ------------------------------
(* Model values for the instances of EventStream.                          *)
EXTENDS EventStream

CONSTANTS p1, p2, w1, w2, c1
=============================================================================
