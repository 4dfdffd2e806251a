------------------------------ MODULE RunSlots ------------------------------
(***************************************************************************)
(* What the store promises about the runs of one loop: every run asked for *)
(* is a row, at most max_concurrency rows hold a slot, scheduled fires at  *)
(* capacity fold into at most one waiting row (src/store/mod.rs, spec 6.2).*)
(* LoopRuns refines this module with the threads that run the loop.        *)
(***************************************************************************)
EXTENDS LoopBounds, FiniteSets

VARIABLES
  status,  \* loop_runs.status; "absent" before the row is inserted
  kind,    \* loop_runs.kind; "none" before the row is inserted
  due      \* loop_runs.due_at; 0 before the row is inserted

vars == <<status, kind, due>>

Active == {"running", "stopping"}

\* `ok` and `failed` are one status here: how the command exited.
Terminal == {"exited", "timeout", "stopped", "canceled"}

Status == Active \cup Terminal \cup {"absent", "pending"}

Kinds == {"scheduled", "manual"}

Holding == {r \in Runs : status[r] \in Active}

Full == Cardinality(Holding) >= MaxConcurrency

Pending == {r \in Runs : status[r] = "pending"}

Folding == {r \in Pending : kind[r] = "scheduled"}

\* The row the next insert creates.
Fresh(r) == status[r] = "absent" /\ \A q \in 1..(r - 1) : status[q] # "absent"

\* ORDER BY due_at, created_at LIMIT 1 over the waiting rows.
Oldest(r) ==
  /\ r \in Pending
  /\ \A q \in Pending : due[r] < due[q] \/ (due[r] = due[q] /\ r <= q)

Init ==
  /\ status = [r \in Runs |-> "absent"]
  /\ kind = [r \in Runs |-> "none"]
  /\ due = [r \in Runs |-> 0]

\* allocate_run inserts a row, holding a slot if one is free. A scheduled fire
\* at capacity inserts only when no other waits to fold into.
Allocate(r) ==
  /\ Fresh(r)
  /\ \E k \in Kinds, d \in Dues :
       /\ k = "scheduled" /\ Full => Overlap = "queue" /\ Folding = {}
       /\ kind' = [kind EXCEPT ![r] = k]
       /\ due' = [due EXCEPT ![r] = d]
  /\ status' = [status EXCEPT ![r] = IF Full THEN "pending" ELSE "running"]

\* allocate_run folds a scheduled fire into the waiting row, which keeps the
\* earlier of the two times.
Coalesce(r) ==
  /\ Full /\ Overlap = "queue" /\ r \in Folding
  /\ \E d \in Dues : d < due[r] /\ due' = [due EXCEPT ![r] = d]
  /\ UNCHANGED <<status, kind>>

\* claim_pending_run
Claim(r) ==
  /\ ~Full /\ Oldest(r)
  /\ status' = [status EXCEPT ![r] = "running"]
  /\ UNCHANGED <<kind, due>>

\* set_run_stopping, finish_run and cancel_pending_run, each guarded by the
\* statuses it may leave.
Move(r, from, to) ==
  /\ status[r] \in from
  /\ \E s \in to : status' = [status EXCEPT ![r] = s]
  /\ UNCHANGED <<kind, due>>

Next ==
  \E r \in Runs :
    \/ Allocate(r) \/ Coalesce(r) \/ Claim(r)
    \/ Move(r, {"running"}, {"stopping"})
    \/ Move(r, Active, Terminal \ {"canceled"})
    \/ Move(r, {"pending"}, {"canceled"})

Spec == Init /\ [][Next]_vars

-----------------------------------------------------------------------------
\* Every row has a known status, kind and fire time.
TypeOK ==
  /\ status \in [Runs -> Status]
  /\ kind \in [Runs -> Kinds \cup {"none"}]
  /\ due \in [Runs -> Nat]

\* The runs that hold a slot never exceed --max-concurrency.
SlotsRespected == Cardinality(Holding) <= MaxConcurrency

\* Whatever the fires and the promotions, at most one scheduled run waits.
OnePendingScheduled == Cardinality(Folding) <= 1

\* A run that has ended keeps the status it ended with.
TerminalIsFinal == [][\A r \in Runs : status[r] \in Terminal => status'[r] = status[r]]_vars
=============================================================================
