------------------------------ MODULE MCSpawn ------------------------------
(* Two runs of one path and one slot: the second waits in the queue behind  *)
(* the first and may reuse its path once it has ended.                      *)
EXTENDS SpawnPipeline, TLC

CONSTANTS a1, a2, shared, claude, k1

MCPathOf == [a \in Agents |-> shared]
MCProviderOf == [a \in Agents |-> claude]
MCProviderCap == [q \in Providers |-> 1]
\* The agents are alike.
Alike == Permutations(Agents)
=============================================================================
