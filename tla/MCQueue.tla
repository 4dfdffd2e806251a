------------------------------ MODULE MCQueue ------------------------------
(* Four runs: two contend for one path, two for each provider. *)
EXTENDS PromoteLoop

CONSTANTS a1, a2, a3, a4, p1, p2, p3, claude, codex

MCPathOf == [a \in Agents |-> CASE a \in {a1, a2} -> p1 [] a = a3 -> p2 [] OTHER -> p3]
MCProviderOf == [a \in Agents |-> IF a \in {a1, a4} THEN claude ELSE codex]
MCProviderCap == [p \in Providers |-> IF p = claude THEN 1 ELSE 2]
=============================================================================
