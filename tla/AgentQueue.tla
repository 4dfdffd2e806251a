----------------------------- MODULE AgentQueue -----------------------------
(***************************************************************************)
(* What the store promises about admission, whatever the threads above it  *)
(* do: one row per `agent run`, a unique path among rows not `ended`, and  *)
(* promotion of queued rows to `starting` in queue_seq order under a       *)
(* global and a per-provider cap (src/store/mod.rs, spec/spec.md 5.5).     *)
(* SpawnPipeline refines this module with the threads that drive a row.    *)
(***************************************************************************)
EXTENDS Naturals, FiniteSets

CONSTANTS
  Agents,          \* the `agent run` calls, one row each
  Paths, PathOf,   \* the path each run asks for
  Providers, ProviderOf,
  MaxConcurrency,  \* concurrency.max
  ProviderCap      \* concurrency.per_provider; concurrency.max where absent

ASSUME AgentsAssumption == IsFiniteSet(Agents)
ASSUME PathAssumption == PathOf \in [Agents -> Paths]
ASSUME ProviderAssumption == ProviderOf \in [Agents -> Providers]
ASSUME CapAssumption ==
  /\ MaxConcurrency \in Nat
  /\ ProviderCap \in [Providers -> Nat]

VARIABLES
  status,     \* agents.status; "absent" before the row is inserted
  queue_seq,  \* agents.queue_seq; 0 before the row is inserted
  regained    \* history: rows put back to a live status after ended or lost

vars == <<status, queue_seq, regained>>

\* The statuses of a row that holds a concurrency slot.
Held == {"starting", "working", "idle", "blocked", "parked"}

Status == Held \cup {"absent", "queued", "ended", "lost"}

Queued == {a \in Agents : status[a] = "queued"}

Holders == {a \in Agents : status[a] \in Held}

OfProvider(S, p) == {a \in S : ProviderOf[a] = p}

\* Variant: an index that also frees the paths of lost rows.
PathFree_IgnoringLost(a) ==
  \A b \in Agents \ {a} :
    PathOf[b] = PathOf[a] => status[b] \in {"absent", "ended", "lost"}

\* The partial unique index on path: no other row reserves a's path.
PathFree(a) ==
  \A b \in Agents \ {a} : PathOf[b] = PathOf[a] => status[b] \in {"absent", "ended"}

Init ==
  /\ status = [a \in Agents |-> "absent"]
  /\ queue_seq = [a \in Agents |-> 0]
  /\ regained = {}

-----------------------------------------------------------------------------
\* Variant: MAX(queue_seq) taken over the queued rows only.
LastInLine_AmongQueued(b) == \A c \in Queued : queue_seq[c] <= queue_seq[b]

\* b carries MAX(queue_seq) over every row the table holds.
LastInLine(b) == \A c \in Agents : queue_seq[c] <= queue_seq[b]

\* agent.run: the row goes in behind every row the table has ever held.
Enqueue(a) ==
  /\ status[a] = "absent"
  /\ PathFree(a)
  /\ \E b \in Agents :
       /\ LastInLine(b)
       /\ queue_seq' = [queue_seq EXCEPT ![a] = queue_seq[b] + 1]
  /\ status' = [status EXCEPT ![a] = "queued"]
  /\ UNCHANGED regained

\* Variant: newest first.
Earlier_Newest(S, q) == {s \in S : queue_seq[s] > queue_seq[q]}

Earlier(S, q) == {s \in S : queue_seq[s] < queue_seq[q]}

\* Variants: rows promoted earlier in the same pass are not counted; the
\* provider's cap is forgotten.
HasRoom_NotRecounted(q, S) ==
  /\ Cardinality(Holders) < MaxConcurrency
  /\ Cardinality(OfProvider(Holders, ProviderOf[q])) < ProviderCap[ProviderOf[q]]

HasRoom_GlobalOnly(q, S) ==
  Cardinality(Holders) + Cardinality(Earlier(S, q)) < MaxConcurrency

\* A queued row finds a slot once the rows of S ahead of it have taken theirs.
HasRoom(q, S) ==
  LET p == ProviderOf[q] IN
  /\ Cardinality(Holders) + Cardinality(Earlier(S, q)) < MaxConcurrency
  /\ Cardinality(OfProvider(Holders, p)) + Cardinality(OfProvider(Earlier(S, q), p))
       < ProviderCap[p]

\* Variant: one row per pass.
Batch_OneRow(S) == \E q \in Queued : S = {q} /\ HasRoom(q, {})

\* S is the set of rows one promotion transaction moves: exactly the queued
\* rows that find room behind the members of S ahead of them.
Batch(S) == \A q \in Queued : q \in S <=> HasRoom(q, S)

Promote ==
  \E S \in (SUBSET Queued) \ {{}} :
    /\ Batch(S)
    /\ status' = [a \in Agents |-> IF a \in S THEN "starting" ELSE status[a]]
    /\ UNCHANGED <<queue_seq, regained>>

\* A row that holds a slot moves to another slot-holding status.
Proceed(a) ==
  /\ status[a] \in Held
  /\ \E s \in Held : status' = [status EXCEPT ![a] = s]
  /\ UNCHANGED <<queue_seq, regained>>

\* A row gives up its slot or its place in the queue. transition_status does
\* not look at the row, so an ended row may be written lost (and the unique
\* index then asks for its path).
Leave(a) ==
  /\ status[a] # "absent"
  /\ \E s \in {"ended", "lost"} :
       /\ s = "lost" /\ status[a] = "ended" => PathFree(a)
       /\ status' = [status EXCEPT ![a] = s]
  /\ regained' = regained \ {a}
  /\ UNCHANGED queue_seq

\* Variant: a status the rest of the program does not know (statuses are strings).
Regain_Misspelt(a) ==
  /\ status[a] \in {"ended", "lost"}
  /\ status' = [status EXCEPT ![a] = "block"]
  /\ UNCHANGED <<queue_seq, regained>>

\* mark_blocked excludes only `blocked`, so a late write puts a row that has
\* left back among the slot holders without asking for a slot.
Regain(a) ==
  /\ status[a] \in {"ended", "lost"}
  /\ status[a] = "ended" => PathFree(a)
  /\ status' = [status EXCEPT ![a] = "blocked"]
  /\ regained' = regained \cup {a}
  /\ UNCHANGED queue_seq

Next ==
  \/ Promote
  \/ \E a \in Agents : Enqueue(a) \/ Proceed(a) \/ Leave(a) \/ Regain(a)

Spec == Init /\ [][Next]_vars

-----------------------------------------------------------------------------
\* Every row has a known status and a sequence number.
TypeOK ==
  /\ status \in [Agents -> Status]
  /\ queue_seq \in [Agents -> Nat]
  /\ regained \in SUBSET Agents

\* The global cap: rows admitted through the queue never hold more than
\* concurrency.max slots (a regained row took its slot from nobody).
CapRespected == Cardinality(Holders \ regained) <= MaxConcurrency

\* The same for each provider's cap.
ProviderCapRespected ==
  \A p \in Providers : Cardinality(OfProvider(Holders \ regained, p)) <= ProviderCap[p]

\* A path names at most one row that is not ended.
PathUnique ==
  \A a, b \in Agents :
    a # b /\ PathOf[a] = PathOf[b]
      => status[a] \in {"absent", "ended"} \/ status[b] \in {"absent", "ended"}

\* Queue positions are never shared, so "earlier" is a total order on rows.
SeqDistinct ==
  \A a, b \in Agents :
    a # b /\ queue_seq[a] = queue_seq[b] => status[a] = "absent" /\ status[b] = "absent"

\* Strict FIFO: a row is promoted over an earlier queued row only if the
\* earlier row's provider is full after the promotion.
NoQueueJumping ==
  [][\A a, b \in Agents :
       /\ status[a] = "queued" /\ status'[a] = "queued"
       /\ status[b] = "queued" /\ status'[b] = "starting"
       /\ queue_seq[a] < queue_seq[b]
       => LET p == ProviderOf[a]
          IN  Cardinality({c \in Agents : status'[c] \in Held /\ ProviderOf[c] = p})
                >= ProviderCap[p]]_vars

\* No slot is left free while a row could take it: a promotion that leaves
\* queued rows behind leaves each without a global or a provider slot.
NoSlotWasted ==
  [][Promote => \A a \in Agents : status'[a] = "queued" =>
       LET After == {c \in Agents : status'[c] \in Held}
       IN  \/ Cardinality(After) >= MaxConcurrency
           \/ Cardinality(OfProvider(After, ProviderOf[a])) >= ProviderCap[ProviderOf[a]]]_vars
=============================================================================
