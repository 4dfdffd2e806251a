---------------------------- MODULE PromoteLoop ----------------------------
(***************************************************************************)
(* promote_queued as it is written: one pass over the queued rows in       *)
(* queue_seq order with running counters, which stops at the global cap    *)
(* and skips a provider at its cap. AgentQueue says what that pass selects *)
(* (Batch); LoopSelectsBatch compares the two in every reachable queue.    *)
(***************************************************************************)
EXTENDS AgentQueue, FiniteSetsExt

\* SELECT ... WHERE status = 'queued' ORDER BY queue_seq ASC: what the order
\* has at position n.
Candidates(n) == {q \in Queued : queue_seq[q] = n}

\* Variant: the provider's running count is never advanced.
LoopStep_StaleUsed(acc, q) ==
  IF acc.global_used >= MaxConcurrency \/ acc.used[ProviderOf[q]] >= ProviderCap[ProviderOf[q]]
  THEN acc
  ELSE [acc EXCEPT !.global_used = @ + 1, !.promoted = @ \cup {q}]

\* One turn of the loop: break, continue, or promote q and count it.
LoopStep(acc, q) ==
  LET p == ProviderOf[q] IN
  IF acc.global_used >= MaxConcurrency \/ acc.used[p] >= ProviderCap[p]
  THEN acc
  ELSE [ global_used |-> acc.global_used + 1,
         used        |-> [acc.used EXCEPT ![p] = @ + 1],
         promoted    |-> acc.promoted \cup {q} ]

\* pass[n] is what the loop has counted after the positions below n.
promote_queued ==
  LET end == Max({0} \cup {queue_seq[q] + 1 : q \in Queued})
      pass[n \in 0 .. end] ==
        IF n = 0
        THEN [ global_used |-> Cardinality(Holders),
               used        |-> [p \in Providers |-> Cardinality(OfProvider(Holders, p))],
               promoted    |-> {} ]
        ELSE IF Candidates(n - 1) = {} THEN pass[n - 1]
        ELSE LoopStep(pass[n - 1], CHOOSE q \in Candidates(n - 1) : TRUE)
  IN pass[end].promoted

\* The pass promotes the batch the abstract queue defines, and no other set of
\* queued rows is a batch: the two descriptions of promotion agree.
LoopSelectsBatch == \A S \in SUBSET Queued : Batch(S) <=> S = promote_queued
=============================================================================
