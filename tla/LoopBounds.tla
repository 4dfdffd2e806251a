----------------------------- MODULE LoopBounds -----------------------------
(* The definition of one loop, as its runs see it, and the bounds of a model. *)
EXTENDS Naturals

CONSTANTS
  MaxRuns,         \* bound on the run rows
  MaxConcurrency,  \* --max-concurrency
  Overlap,         \* --overlap: "queue" or "skip"
  MaxFires         \* bound on the fire times that come due

ASSUME RunsAssumption == MaxRuns \in Nat
ASSUME ConcurrencyAssumption == MaxConcurrency \in Nat \ {0}
ASSUME OverlapAssumption == Overlap \in {"queue", "skip"}
ASSUME FiresAssumption == MaxFires \in Nat

\* Run rows, numbered in the order they are created.
Runs == 1..MaxRuns

\* Fire times: the n-th that comes due is 2n, a manual run falls between two.
Dues == 0..(2 * MaxFires + 1)
=============================================================================
