-------------------------- MODULE AgentQueueProofs --------------------------
(***************************************************************************)
(* Proofs about AgentQueue, for any finite set of runs, any paths,         *)
(* providers and caps. The argument for the caps: promotion moves a set S, *)
(* each member of S found room behind the members ahead of it, and the     *)
(* last member of S has all the others ahead of it. Last, that the loop of *)
(* promote_queued (PromoteLoop) selects exactly the set that Batch allows. *)
(***************************************************************************)
EXTENDS PromoteLoop, FiniteSetTheorems, WellFoundedInduction, TLAPS

(* Every variable keeps its type. *)
THEOREM TypeCorrect == Spec => []TypeOK
<1>1. Init => TypeOK
  BY DEF Init, TypeOK, Status
<1>2. TypeOK /\ [Next]_vars => TypeOK'
  <2> SUFFICES ASSUME TypeOK, [Next]_vars PROVE TypeOK'
    OBVIOUS
  <2> USE DEF TypeOK, Status, Held
  <2>1. CASE Promote
    BY <2>1 DEF Promote
  <2>2. ASSUME NEW a \in Agents, Enqueue(a) PROVE TypeOK'
    BY <2>2 DEF Enqueue, LastInLine
  <2>3. ASSUME NEW a \in Agents, Proceed(a) PROVE TypeOK'
    BY <2>3 DEF Proceed
  <2>4. ASSUME NEW a \in Agents, Leave(a) PROVE TypeOK'
    BY <2>4 DEF Leave
  <2>5. ASSUME NEW a \in Agents, Regain(a) PROVE TypeOK'
    BY <2>5 DEF Regain
  <2>6. CASE UNCHANGED vars
    BY <2>6 DEF vars
  <2>7. QED
    BY <2>1, <2>2, <2>3, <2>4, <2>5, <2>6 DEF Next
<1>3. QED
  BY <1>1, <1>2, PTL DEF Spec

-----------------------------------------------------------------------------
(* A path names at most one row that is not ended: enqueue and the writes   *)
(* that bring a row back ask for the path, no other step takes one.         *)
THEOREM PathIsUnique == Spec => []PathUnique
<1>1. Init => PathUnique
  BY DEF Init, PathUnique
<1>2. TypeOK /\ PathUnique /\ [Next]_vars => PathUnique'
  <2> SUFFICES ASSUME TypeOK, PathUnique, [Next]_vars PROVE PathUnique'
    OBVIOUS
  <2> USE DEF TypeOK, PathUnique
  <2>1. CASE Promote
    BY <2>1 DEF Promote, Queued
  <2>2. ASSUME NEW a \in Agents, Enqueue(a) PROVE PathUnique'
    BY <2>2 DEF Enqueue, PathFree
  <2>3. ASSUME NEW a \in Agents, Proceed(a) PROVE PathUnique'
    BY <2>3 DEF Proceed, Held
  <2>4. ASSUME NEW a \in Agents, Leave(a) PROVE PathUnique'
    BY <2>4 DEF Leave, PathFree
  <2>5. ASSUME NEW a \in Agents, Regain(a) PROVE PathUnique'
    BY <2>5 DEF Regain, PathFree
  <2>6. CASE UNCHANGED vars
    BY <2>6 DEF vars
  <2>7. QED
    BY <2>1, <2>2, <2>3, <2>4, <2>5, <2>6 DEF Next
<1>3. QED
  BY <1>1, <1>2, TypeCorrect, PTL DEF Spec

(* Queue positions are distinct, so a batch has one last member. *)
THEOREM PositionsDistinct == Spec => []SeqDistinct
<1>1. Init => SeqDistinct
  BY DEF Init, SeqDistinct
<1>2. TypeOK /\ SeqDistinct /\ [Next]_vars => SeqDistinct'
  <2> SUFFICES ASSUME TypeOK, SeqDistinct, [Next]_vars PROVE SeqDistinct'
    OBVIOUS
  <2> USE DEF TypeOK, SeqDistinct
  <2>1. CASE Promote
    BY <2>1 DEF Promote, Queued
  <2>2. ASSUME NEW a \in Agents, Enqueue(a) PROVE SeqDistinct'
    BY <2>2 DEF Enqueue, LastInLine
  <2>3. ASSUME NEW a \in Agents, Proceed(a) PROVE SeqDistinct'
    BY <2>3 DEF Proceed, Held
  <2>4. ASSUME NEW a \in Agents, Leave(a) PROVE SeqDistinct'
    BY <2>4 DEF Leave
  <2>5. ASSUME NEW a \in Agents, Regain(a) PROVE SeqDistinct'
    BY <2>5 DEF Regain
  <2>6. CASE UNCHANGED vars
    BY <2>6 DEF vars
  <2>7. QED
    BY <2>1, <2>2, <2>3, <2>4, <2>5, <2>6 DEF Next
<1>3. QED
  BY <1>1, <1>2, TypeCorrect, PTL DEF Spec

-----------------------------------------------------------------------------
(* A nonempty set of rows has a member that no member is behind. *)
LEMMA LastMember ==
  ASSUME queue_seq \in [Agents -> Nat], NEW T \in SUBSET Agents, T # {}
  PROVE  \E l \in T : \A s \in T : queue_seq[s] <= queue_seq[l]
<1> DEFINE Behind(s) == {t \in T : queue_seq[t] >= queue_seq[s]}
<1> DEFINE D == {Behind(s) : s \in T}
<1>1. IsFiniteSet(T)
  BY AgentsAssumption, FS_Subset
<1>2. D \subseteq FiniteSubsetsOf(T) /\ D # {}
  <2>1. \A s \in T : Behind(s) \in SUBSET T
    OBVIOUS
  <2>2. FiniteSubsetsOf(T) = SUBSET T
    BY <1>1, FS_FiniteSubsetsOfFinite
  <2> HIDE DEF Behind
  <2> QED
    BY <2>1, <2>2
<1>3. \E x \in D : \A y \in D : <<y, x>> \notin StrictSubsetOrdering(T)
  <2> HIDE DEF D
  <2> QED
    BY <1>2, WFMin, FS_StrictSubsetOrderingWellFounded
<1>4. PICK l \in T : \A s \in T : <<Behind(s), Behind(l)>> \notin StrictSubsetOrdering(T)
  BY <1>3
<1>5. ASSUME NEW s \in T, queue_seq[s] > queue_seq[l] PROVE FALSE
  <2>1. Behind(s) \subseteq Behind(l) /\ l \in Behind(l) /\ l \notin Behind(s)
    BY <1>5
  <2>2. <<Behind(s), Behind(l)>> \in StrictSubsetOrdering(T)
    BY <2>1 DEF StrictSubsetOrdering
  <2> QED
    BY <2>2, <1>4
<1> QED
  BY <1>5

(* Admitting the rows of T one behind the other, each while n plus the rows *)
(* ahead of it is under a cap, ends at or under the cap.                    *)
LEMMA AdmissionBound ==
  ASSUME queue_seq \in [Agents -> Nat], NEW T \in SUBSET Agents, T # {},
         \A s, t \in T : s # t => queue_seq[s] # queue_seq[t],
         NEW n \in Nat, NEW cap \in Nat,
         \A q \in T : n + Cardinality(Earlier(T, q)) < cap
  PROVE  n + Cardinality(T) <= cap
<1>1. PICK l \in T : \A s \in T : queue_seq[s] <= queue_seq[l]
  BY LastMember
<1>2. T = Earlier(T, l) \cup {l} /\ l \notin Earlier(T, l)
  BY <1>1 DEF Earlier
<1>3. IsFiniteSet(Earlier(T, l))
  BY AgentsAssumption, FS_Subset DEF Earlier
<1>4. Cardinality(T) = Cardinality(Earlier(T, l)) + 1
  BY <1>2, <1>3, FS_AddElement
<1>5. Cardinality(Earlier(T, l)) \in Nat
  BY <1>3, FS_CardinalityType
<1> QED
  BY <1>4, <1>5

(* If Y is within a cap, and admitting T behind the larger X stays under it, *)
(* then Y with T, and any part of it, is within the cap.                     *)
LEMMA AdmissionKeepsCap ==
  ASSUME queue_seq \in [Agents -> Nat], NEW cap \in Nat,
         NEW X \in SUBSET Agents, NEW Y \in SUBSET X, Cardinality(Y) <= cap,
         NEW T \in SUBSET Agents,
         \A s, t \in T : s # t => queue_seq[s] # queue_seq[t],
         \A q \in T : Cardinality(X) + Cardinality(Earlier(T, q)) < cap,
         NEW Z \in SUBSET (Y \cup T)
  PROVE  Cardinality(Z) <= cap
<1>1. /\ IsFiniteSet(X) /\ IsFiniteSet(Y) /\ IsFiniteSet(T)
      /\ IsFiniteSet(Y \cap T) /\ IsFiniteSet(Y \cup T) /\ IsFiniteSet(Z)
  BY AgentsAssumption, FS_Subset
<1>2. /\ Cardinality(X) \in Nat /\ Cardinality(Y) \in Nat /\ Cardinality(T) \in Nat
      /\ Cardinality(Y \cap T) \in Nat /\ Cardinality(Y \cup T) \in Nat /\ Cardinality(Z) \in Nat
  BY <1>1, FS_CardinalityType
<1>3. Cardinality(Z) <= Cardinality(Y \cup T)
  BY <1>1, FS_Subset
<1>4. CASE T = {}
  BY <1>2, <1>3, <1>4
<1>5. CASE T # {}
  <2>1. Cardinality(X) + Cardinality(T) <= cap
    BY <1>2, <1>5, AdmissionBound
  <2>2. Cardinality(Y) <= Cardinality(X)
    BY <1>1, FS_Subset
  <2>3. Cardinality(Y \cup T) = Cardinality(Y) + Cardinality(T) - Cardinality(Y \cap T)
    BY <1>1, FS_Union
  <2> QED
    BY <1>2, <1>3, <2>1, <2>2, <2>3
<1> QED
  BY <1>4, <1>5

(* Fewer rows than a set within the cap. *)
LEMMA PartKeepsCap ==
  ASSUME NEW cap \in Nat, NEW Y \in SUBSET Agents, Cardinality(Y) <= cap, NEW Z \in SUBSET Y
  PROVE  Cardinality(Z) <= cap
<1>1. IsFiniteSet(Y) /\ IsFiniteSet(Z) /\ Cardinality(Z) <= Cardinality(Y)
  BY AgentsAssumption, FS_Subset
<1>2. Cardinality(Y) \in Nat /\ Cardinality(Z) \in Nat
  BY <1>1, FS_CardinalityType
<1> QED
  BY <1>1, <1>2

-----------------------------------------------------------------------------
(* What a promotion does to the slot holders, said once for both caps. *)
LEMMA PromotionBatch ==
  ASSUME TypeOK, SeqDistinct, Promote
  PROVE  \E S \in SUBSET Agents :
           /\ Batch(S) /\ S \subseteq Queued
           /\ (Holders \ regained)' \subseteq (Holders \ regained) \cup S
           /\ \A s, t \in S : s # t => queue_seq[s] # queue_seq[t]
           /\ status' = [a \in Agents |-> IF a \in S THEN "starting" ELSE status[a]]
<1>1. PICK S \in (SUBSET Queued) \ {{}} :
        /\ Batch(S)
        /\ status' = [a \in Agents |-> IF a \in S THEN "starting" ELSE status[a]]
        /\ regained' = regained
  BY DEF Promote
<1>2. S \in SUBSET Agents /\ S \subseteq Queued
  BY DEF Queued
<1>3. \A s, t \in S : s # t => queue_seq[s] # queue_seq[t]
  BY DEF SeqDistinct, Queued, TypeOK
<1>4. (Holders \ regained)' \subseteq (Holders \ regained) \cup S
  BY <1>1 DEF Holders
<1> QED
  BY <1>1, <1>2, <1>3, <1>4

(* Any other step leaves the admitted slot holders a part of what they were. *)
LEMMA OthersAdmitNobody ==
  ASSUME TypeOK, [Next]_vars, ~Promote
  PROVE  (Holders \ regained)' \subseteq Holders \ regained
<1> USE DEF TypeOK, Holders
<1>1. ASSUME NEW a \in Agents, Enqueue(a) PROVE (Holders \ regained)' \subseteq Holders \ regained
  BY <1>1 DEF Enqueue, Held
<1>2. ASSUME NEW a \in Agents, Proceed(a) PROVE (Holders \ regained)' \subseteq Holders \ regained
  BY <1>2 DEF Proceed, Held
<1>3. ASSUME NEW a \in Agents, Leave(a) PROVE (Holders \ regained)' \subseteq Holders \ regained
  BY <1>3 DEF Leave, Held
<1>4. ASSUME NEW a \in Agents, Regain(a) PROVE (Holders \ regained)' \subseteq Holders \ regained
  BY <1>4 DEF Regain, Held
<1>5. CASE UNCHANGED vars
  BY <1>5 DEF vars
<1> QED
  BY <1>1, <1>2, <1>3, <1>4, <1>5 DEF Next

(* The global cap: rows admitted by promotion never hold more than           *)
(* concurrency.max slots, whatever ends, loses or revives rows meanwhile.    *)
THEOREM GlobalCap == Spec => []CapRespected
<1>1. Init => CapRespected
  <2> SUFFICES ASSUME Init PROVE CapRespected
    OBVIOUS
  <2>1. Holders \ regained = {}
    BY DEF Init, Holders, Held
  <2> QED
    BY <2>1, FS_EmptySet, CapAssumption DEF CapRespected
<1>2. TypeOK /\ SeqDistinct /\ CapRespected /\ [Next]_vars => CapRespected'
  <2> SUFFICES ASSUME TypeOK, SeqDistinct, CapRespected, [Next]_vars PROVE CapRespected'
    OBVIOUS
  <2>1. CASE Promote
    <3>1. PICK S \in SUBSET Agents :
            /\ Batch(S) /\ S \subseteq Queued
            /\ (Holders \ regained)' \subseteq (Holders \ regained) \cup S
            /\ \A s, t \in S : s # t => queue_seq[s] # queue_seq[t]
      BY <2>1, PromotionBatch
    <3>2. \A q \in S : Cardinality(Holders) + Cardinality(Earlier(S, q)) < MaxConcurrency
      BY <3>1 DEF Batch, HasRoom
    <3> DEFINE Y == Holders \ regained
    <3>3. Holders \in SUBSET Agents /\ Y \in SUBSET Holders /\ Cardinality(Y) <= MaxConcurrency
      BY DEF Holders, CapRespected
    <3>4. Y' \in SUBSET (Y \cup S)
      BY <3>1
    <3>5. queue_seq \in [Agents -> Nat] /\ MaxConcurrency \in Nat
      BY CapAssumption DEF TypeOK
    <3>6. Cardinality(Y') <= MaxConcurrency
      <4> HIDE DEF Y
      <4> QED
        BY <3>1, <3>2, <3>3, <3>4, <3>5, AdmissionKeepsCap
    <3> QED
      BY <3>6 DEF CapRespected
  <2>2. CASE ~Promote
    BY <2>2, OthersAdmitNobody, PartKeepsCap, CapAssumption DEF CapRespected, Holders
  <2> QED
    BY <2>1, <2>2
<1> QED
  BY <1>1, <1>2, TypeCorrect, PositionsDistinct, PTL DEF Spec

(* Each provider's cap, by the same argument on its own rows. *)
THEOREM ProviderCaps == Spec => []ProviderCapRespected
<1>1. Init => ProviderCapRespected
  <2> SUFFICES ASSUME Init, NEW p \in Providers
               PROVE  Cardinality(OfProvider(Holders \ regained, p)) <= ProviderCap[p]
    BY DEF ProviderCapRespected
  <2>1. OfProvider(Holders \ regained, p) = {}
    BY DEF Init, Holders, Held, OfProvider
  <2> QED
    BY <2>1, FS_EmptySet, CapAssumption
<1>2. TypeOK /\ SeqDistinct /\ ProviderCapRespected /\ [Next]_vars => ProviderCapRespected'
  <2> SUFFICES ASSUME TypeOK, SeqDistinct, ProviderCapRespected, [Next]_vars,
                      NEW p \in Providers
               PROVE  Cardinality(OfProvider(Holders \ regained, p)') <= ProviderCap[p]
    BY DEF ProviderCapRespected
  <2> DEFINE X == OfProvider(Holders, p)
  <2> DEFINE Y == OfProvider(Holders \ regained, p)
  <2>1. X \in SUBSET Agents /\ Y \in SUBSET X /\ Cardinality(Y) <= ProviderCap[p]
    BY DEF Holders, OfProvider, ProviderCapRespected
  <2>2. CASE Promote
    <3>1. PICK S \in SUBSET Agents :
            /\ Batch(S) /\ S \subseteq Queued
            /\ (Holders \ regained)' \subseteq (Holders \ regained) \cup S
            /\ \A s, t \in S : s # t => queue_seq[s] # queue_seq[t]
      BY <2>2, PromotionBatch
    <3> DEFINE T == OfProvider(S, p)
    <3>2. \A q \in T : OfProvider(Earlier(S, q), p) = Earlier(T, q)
      BY DEF OfProvider, Earlier
    <3>3. \A q \in T : Cardinality(X) + Cardinality(Earlier(T, q)) < ProviderCap[p]
      BY <3>1, <3>2 DEF Batch, HasRoom, OfProvider
    <3>4. Y' \subseteq Y \cup T
      BY <3>1 DEF OfProvider
    <3>5. T \in SUBSET Agents /\ \A s, t \in T : s # t => queue_seq[s] # queue_seq[t]
      BY <3>1 DEF OfProvider
    <3> HIDE DEF X, Y, T
    <3> QED
      BY <2>1, <3>3, <3>4, <3>5, AdmissionKeepsCap, CapAssumption DEF TypeOK, Y
  <2>3. CASE ~Promote
    <3>1. Y' \subseteq Y
      BY <2>3, OthersAdmitNobody DEF OfProvider
    <3> QED
      BY <2>1, <3>1, PartKeepsCap, CapAssumption
  <2> QED
    BY <2>2, <2>3
<1> QED
  BY <1>1, <1>2, TypeCorrect, PositionsDistinct, PTL DEF Spec

-----------------------------------------------------------------------------
(* Two disjoint sets of rows within a third: their sizes add up to at most its. *)
LEMMA DisjointParts ==
  ASSUME NEW X \in SUBSET Agents, NEW Y \in SUBSET Agents, X \cap Y = {},
         NEW Z \in SUBSET Agents, X \cup Y \subseteq Z
  PROVE  Cardinality(X) + Cardinality(Y) <= Cardinality(Z)
<1>1. IsFiniteSet(X) /\ IsFiniteSet(Y) /\ IsFiniteSet(Z) /\ IsFiniteSet(X \cup Y)
  BY AgentsAssumption, FS_Subset
<1>2. Cardinality(X \cup Y) = Cardinality(X) + Cardinality(Y) - 0
  BY <1>1, FS_Union, FS_EmptySet
<1>3. Cardinality(X \cup Y) <= Cardinality(Z)
  BY <1>1, FS_Subset
<1>4. Cardinality(X) \in Nat /\ Cardinality(Y) \in Nat
  BY <1>1, FS_CardinalityType
<1> QED
  BY <1>2, <1>3, <1>4

(* A row left behind in the queue by a promotion that moved a later row is   *)
(* left behind because its provider is full, never for want of a global slot.*)
THEOREM StrictFIFO == Spec => NoQueueJumping
<1> DEFINE After(p) == {c \in Agents : status'[c] \in Held /\ ProviderOf[c] = p}
<1>1. ASSUME TypeOK, SeqDistinct, [Next]_vars, NEW a \in Agents, NEW b \in Agents,
             status[a] = "queued", status'[a] = "queued",
             status[b] = "queued", status'[b] = "starting",
             queue_seq[a] < queue_seq[b]
      PROVE  Cardinality(After(ProviderOf[a])) >= ProviderCap[ProviderOf[a]]
  <2>1. Promote
    BY <1>1 DEF TypeOK, Next, vars, Enqueue, Proceed, Leave, Regain, Held
  <2>2. PICK S \in SUBSET Agents :
          /\ Batch(S) /\ S \subseteq Queued
          /\ status' = [c \in Agents |-> IF c \in S THEN "starting" ELSE status[c]]
    BY <1>1, <2>1, PromotionBatch
  <2>3. b \in S /\ a \notin S /\ a \in Queued /\ b \in Queued
    BY <1>1, <2>2 DEF Queued
  <2> DEFINE p == ProviderOf[a]
  <2> DEFINE E == OfProvider(Earlier(S, a), p)
  <2>4. HasRoom(b, S) /\ ~HasRoom(a, S)
    BY <2>2, <2>3 DEF Batch
  <2>5. Cardinality(Earlier(S, a)) <= Cardinality(Earlier(S, b))
    <3>1. IsFiniteSet(Earlier(S, b)) /\ Earlier(S, a) \subseteq Earlier(S, b)
      BY <1>1, AgentsAssumption, FS_Subset DEF Earlier, TypeOK
    <3> QED
      BY <3>1, FS_Subset
  <2>6. /\ Cardinality(Holders) \in Nat
        /\ Cardinality(Earlier(S, a)) \in Nat /\ Cardinality(Earlier(S, b)) \in Nat
    <3>1. IsFiniteSet(Holders) /\ IsFiniteSet(Earlier(S, a)) /\ IsFiniteSet(Earlier(S, b))
      BY AgentsAssumption, FS_Subset DEF Holders, Earlier
    <3> QED
      BY <3>1, FS_CardinalityType
  <2>7. Cardinality(Holders) + Cardinality(Earlier(S, a)) < MaxConcurrency
    BY <2>4, <2>5, <2>6, CapAssumption DEF HasRoom
  <2>8. ~(Cardinality(OfProvider(Holders, p)) + Cardinality(E) < ProviderCap[p])
    BY <2>4, <2>7 DEF HasRoom
  <2>9. Cardinality(OfProvider(Holders, p)) + Cardinality(E) <= Cardinality(After(p))
    <3>1. /\ OfProvider(Holders, p) \in SUBSET Agents /\ E \in SUBSET Agents
          /\ After(p) \in SUBSET Agents
      BY DEF OfProvider, Holders, Earlier
    <3>2. OfProvider(Holders, p) \cap E = {}
      BY <2>2 DEF OfProvider, Holders, Earlier, Queued, Held
    <3>3. OfProvider(Holders, p) \cup E \subseteq After(p)
      BY <2>2 DEF OfProvider, Holders, Earlier, Held
    <3> HIDE DEF E, After, p
    <3> QED
      BY <3>1, <3>2, <3>3, DisjointParts
  <2>10. /\ Cardinality(OfProvider(Holders, p)) \in Nat /\ Cardinality(E) \in Nat
         /\ Cardinality(After(p)) \in Nat /\ ProviderCap[p] \in Nat
    <3>1. IsFiniteSet(OfProvider(Holders, p)) /\ IsFiniteSet(E) /\ IsFiniteSet(After(p))
      BY AgentsAssumption, FS_Subset DEF OfProvider, Holders, Earlier
    <3>2. ProviderCap[p] \in Nat
      BY CapAssumption, ProviderAssumption
    <3> HIDE DEF E, After, p
    <3> QED
      BY <3>1, <3>2, FS_CardinalityType
  <2> HIDE DEF E, After
  <2> QED
    BY <2>8, <2>9, <2>10
<1>2. TypeOK /\ SeqDistinct /\ [Next]_vars =>
        \A a, b \in Agents :
          /\ status[a] = "queued" /\ status'[a] = "queued"
          /\ status[b] = "queued" /\ status'[b] = "starting"
          /\ queue_seq[a] < queue_seq[b]
          => Cardinality(After(ProviderOf[a])) >= ProviderCap[ProviderOf[a]]
  BY <1>1
<1> QED
  BY <1>2, TypeCorrect, PositionsDistinct, PTL DEF Spec, NoQueueJumping

-----------------------------------------------------------------------------
(* What a row of a batch has left behind it found no room (store/mod.rs      *)
(* promote_queued: only `break` and `continue` skip a candidate), and the    *)
(* rows that took the room hold it afterwards.                               *)
THEOREM NoRoomLeft == Spec => NoSlotWasted
<1> DEFINE After == {c \in Agents : status'[c] \in Held}
<1>1. ASSUME TypeOK, SeqDistinct, Promote, NEW a \in Agents, status'[a] = "queued"
      PROVE  \/ Cardinality(After) >= MaxConcurrency
             \/ Cardinality(OfProvider(After, ProviderOf[a])) >= ProviderCap[ProviderOf[a]]
  <2>1. PICK S \in SUBSET Agents :
          /\ Batch(S) /\ S \subseteq Queued
          /\ status' = [c \in Agents |-> IF c \in S THEN "starting" ELSE status[c]]
    BY <1>1, PromotionBatch
  <2> DEFINE p == ProviderOf[a]
  <2> DEFINE E == Earlier(S, a)
  <2>2. a \in Queued /\ a \notin S
    BY <1>1, <2>1 DEF Queued
  <2>3. ~HasRoom(a, S)
    BY <2>1, <2>2 DEF Batch
  <2>4. /\ Holders \in SUBSET Agents /\ E \in SUBSET Agents /\ After \in SUBSET Agents
        /\ Holders \cap E = {} /\ Holders \cup E \subseteq After
    BY <2>1 DEF Holders, Earlier, Queued, Held
  <2>5. /\ OfProvider(Holders, p) \in SUBSET Agents /\ OfProvider(E, p) \in SUBSET Agents
        /\ OfProvider(After, p) \in SUBSET Agents
        /\ OfProvider(Holders, p) \cap OfProvider(E, p) = {}
        /\ OfProvider(Holders, p) \cup OfProvider(E, p) \subseteq OfProvider(After, p)
    <3> HIDE DEF After, E
    <3> QED BY <2>4 DEF OfProvider
  <2> HIDE DEF After, E, p
  <2>6. Cardinality(Holders) + Cardinality(E) <= Cardinality(After)
    BY <2>4, DisjointParts
  <2>7. Cardinality(OfProvider(Holders, p)) + Cardinality(OfProvider(E, p))
          <= Cardinality(OfProvider(After, p))
    BY <2>5, DisjointParts
  <2>8. /\ MaxConcurrency \in Nat /\ ProviderCap[p] \in Nat
    BY CapAssumption, ProviderAssumption DEF p
  <2>9. /\ Cardinality(Holders) \in Nat /\ Cardinality(E) \in Nat /\ Cardinality(After) \in Nat
        /\ Cardinality(OfProvider(Holders, p)) \in Nat /\ Cardinality(OfProvider(E, p)) \in Nat
        /\ Cardinality(OfProvider(After, p)) \in Nat
    BY <2>4, <2>5, AgentsAssumption, FS_Subset, FS_CardinalityType
  <2>10. ~(/\ Cardinality(Holders) + Cardinality(E) < MaxConcurrency
           /\ Cardinality(OfProvider(Holders, p)) + Cardinality(OfProvider(E, p)) < ProviderCap[p])
    BY <2>3 DEF HasRoom, p, E
  <2> QED
    BY <2>6, <2>7, <2>8, <2>9, <2>10 DEF p
<1>2. TypeOK /\ SeqDistinct /\ [Next]_vars =>
        (Promote => \A a \in Agents : status'[a] = "queued" =>
           \/ Cardinality(After) >= MaxConcurrency
           \/ Cardinality(OfProvider(After, ProviderOf[a])) >= ProviderCap[ProviderOf[a]])
  BY <1>1
<1> QED
  BY <1>2, TypeCorrect, PositionsDistinct, PTL DEF Spec, NoSlotWasted

-----------------------------------------------------------------------------
(* promote_queued's loop computes the batch.                                 *)

(* A set of numbers that holds 0 and the successor of each member holds all: *)
(* the least number outside would have its predecessor inside.               *)
LEMMA AllNumbers ==
  ASSUME NEW G, 0 \in G, \A n \in Nat : n \in G => n + 1 \in G
  PROVE  Nat \subseteq G
<1> DEFINE out == Nat \ G
<1> DEFINE less == {p \in Nat \X Nat : p[1] < p[2]}
<1> SUFFICES ASSUME out # {} PROVE FALSE
  OBVIOUS
<1>1. IsWellFoundedOn(less, Nat)
  <2>1. OpToRel(<, Nat) = less
    BY DEF OpToRel
  <2> QED BY <2>1, NatLessThanWellFounded
<1>2. PICK m \in out : \A y \in out : ~(<<y, m>> \in less)
  <2>1. out \subseteq Nat /\ out # {}
    OBVIOUS
  <2> HIDE DEF out, less
  <2> QED BY <1>1, <2>1, WFMin
<1>3. m \in Nat /\ m # 0 /\ m - 1 \in Nat /\ (m - 1) + 1 = m
  OBVIOUS
<1>4. m - 1 \in out
  BY <1>3
<1>5. <<m - 1, m>> \in less
  BY <1>3
<1> QED
  BY <1>2, <1>4, <1>5

(* The queued rows at positions below n. *)
Front(n) == {q \in Queued : queue_seq[q] < n}

(* No two sets of queued rows are batches: the first row by position that    *)
(* one has and the other has not would find the same rows ahead of it.       *)
LEMMA OneBatch ==
  ASSUME TypeOK, NEW S \in SUBSET Queued, NEW T \in SUBSET Queued, Batch(S), Batch(T)
  PROVE  S = T
<1> DEFINE G == {n \in Nat : S \cap Front(n) = T \cap Front(n)}
<1>1. S \subseteq Agents /\ T \subseteq Agents /\ \A q \in Queued : queue_seq[q] \in Nat
  BY DEF Queued, TypeOK
<1>2. 0 \in G
  BY <1>1 DEF Front
<1>3. ASSUME NEW n \in Nat, n \in G PROVE n + 1 \in G
  <2>1. ASSUME NEW q \in Queued, queue_seq[q] <= n PROVE Earlier(S, q) = Earlier(T, q)
    <3>1. Earlier(S, q) \subseteq Front(n) /\ Earlier(T, q) \subseteq Front(n)
      BY <1>1, <2>1 DEF Earlier, Front
    <3>2. S \cap Front(n) = T \cap Front(n)
      BY <1>3
    <3> QED BY <3>1, <3>2 DEF Earlier
  <2>2. \A q \in Queued : queue_seq[q] <= n => (q \in S <=> q \in T)
    BY <2>1 DEF Batch, HasRoom
  <2> QED BY <1>1, <2>2 DEF Front
<1>4. Nat \subseteq G
  <2> HIDE DEF G
  <2> QED BY <1>2, <1>3, AllNumbers
<1>5. ASSUME NEW q \in Queued PROVE q \in S <=> q \in T
  <2>1. queue_seq[q] + 1 \in G /\ q \in Front(queue_seq[q] + 1)
    BY <1>1, <1>4 DEF Front
  <2> QED BY <2>1
<1> QED
  BY <1>5

(* What the loop has counted after the positions below n, and whom it has    *)
(* promoted: S is a batch of those rows.                                     *)
Counted(acc, n) ==
  \E S \in SUBSET Front(n) :
    /\ acc = [ global_used |-> Cardinality(Holders) + Cardinality(S),
               used        |-> [p \in Providers |-> Cardinality(OfProvider(Holders, p))
                                                     + Cardinality(OfProvider(S, p))],
               promoted    |-> S ]
    /\ \A q \in Front(n) : q \in S <=> HasRoom(q, S)

(* One turn of the loop over the row at position n.                          *)
LEMMA StepCounts ==
  ASSUME TypeOK, SeqDistinct, NEW n \in Nat, NEW acc, Counted(acc, n),
         NEW q \in Queued, queue_seq[q] = n
  PROVE  Counted(LoopStep(acc, q), n + 1)
<1> DEFINE p == ProviderOf[q]
<1>1. PICK S \in SUBSET Front(n) :
        /\ acc = [ global_used |-> Cardinality(Holders) + Cardinality(S),
                   used        |-> [o \in Providers |-> Cardinality(OfProvider(Holders, o))
                                                         + Cardinality(OfProvider(S, o))],
                   promoted    |-> S ]
        /\ \A r \in Front(n) : r \in S <=> HasRoom(r, S)
  BY DEF Counted
<1>2. /\ q \in Agents /\ p \in Providers /\ S \subseteq Agents /\ Queued \subseteq Agents
      /\ \A r \in Agents : queue_seq[r] \in Nat
  BY ProviderAssumption DEF Front, Queued, TypeOK
<1>3. Front(n + 1) = Front(n) \cup {q} /\ q \notin Front(n)
  BY <1>2 DEF Front, SeqDistinct, Queued
<1>4. Earlier(S, q) = S /\ Earlier(S \cup {q}, q) = S
  BY <1>2 DEF Earlier, Front
<1>5. \A r \in Front(n) : Earlier(S \cup {q}, r) = Earlier(S, r)
  BY <1>2 DEF Earlier, Front
<1>6. \A r \in Front(n) : HasRoom(r, S \cup {q}) <=> HasRoom(r, S)
  BY <1>5 DEF HasRoom
<1>7. HasRoom(q, S) <=> ~(acc.global_used >= MaxConcurrency \/ acc.used[p] >= ProviderCap[p])
  <2>1. /\ acc.global_used = Cardinality(Holders) + Cardinality(S)
        /\ acc.used[p] = Cardinality(OfProvider(Holders, p)) + Cardinality(OfProvider(S, p))
    BY <1>1, <1>2
  <2>2. /\ Cardinality(Holders) \in Nat /\ Cardinality(S) \in Nat
        /\ Cardinality(OfProvider(Holders, p)) \in Nat /\ Cardinality(OfProvider(S, p)) \in Nat
    BY <1>2, AgentsAssumption, FS_Subset, FS_CardinalityType DEF OfProvider, Holders
  <2>3. MaxConcurrency \in Nat /\ ProviderCap[p] \in Nat
    BY <1>2, CapAssumption
  <2> HIDE DEF p
  <2> QED BY <1>4, <2>1, <2>2, <2>3 DEF HasRoom, p
<1>8. HasRoom(q, S \cup {q}) <=> HasRoom(q, S)
  BY <1>4 DEF HasRoom
<1>9. CASE ~HasRoom(q, S)
  <2>1. LoopStep(acc, q) = acc
    BY <1>7, <1>9 DEF LoopStep
  <2>2. S \in SUBSET Front(n + 1) /\ \A r \in Front(n + 1) : r \in S <=> HasRoom(r, S)
    BY <1>1, <1>3, <1>9
  <2> QED BY <1>1, <2>1, <2>2 DEF Counted
<1>10. CASE HasRoom(q, S)
  <2> DEFINE T == S \cup {q}
  <2>1. T \in SUBSET Front(n + 1) /\ \A r \in Front(n + 1) : r \in T <=> HasRoom(r, T)
    BY <1>1, <1>3, <1>6, <1>8, <1>10
  <2>2. IsFiniteSet(S) /\ q \notin S
    BY <1>2, <1>3, AgentsAssumption, FS_Subset
  <2>3. Cardinality(T) = Cardinality(S) + 1 /\ Cardinality(S) \in Nat
    BY <2>2, FS_AddElement, FS_CardinalityType
  <2>4. Cardinality(OfProvider(T, p)) = Cardinality(OfProvider(S, p)) + 1
    <3>1. OfProvider(T, p) = OfProvider(S, p) \cup {q} /\ q \notin OfProvider(S, p)
      BY <2>2 DEF OfProvider
    <3>2. IsFiniteSet(OfProvider(S, p))
      BY <2>2, FS_Subset DEF OfProvider
    <3> QED BY <3>1, <3>2, FS_AddElement
  <2>5. \A o \in Providers : o # p => OfProvider(T, o) = OfProvider(S, o)
    BY DEF OfProvider
  <2>6. Cardinality(Holders) \in Nat
        /\ \A o \in Providers : /\ Cardinality(OfProvider(Holders, o)) \in Nat
                                /\ Cardinality(OfProvider(S, o)) \in Nat
    BY <1>2, AgentsAssumption, FS_Subset, FS_CardinalityType DEF OfProvider, Holders
  <2>7. LoopStep(acc, q) = [ global_used |-> acc.global_used + 1,
                             used        |-> [acc.used EXCEPT ![p] = @ + 1],
                             promoted    |-> acc.promoted \cup {q} ]
    BY <1>7, <1>10 DEF LoopStep
  <2>8. acc.promoted \cup {q} = T /\ acc.global_used + 1 = Cardinality(Holders) + Cardinality(T)
    <3> HIDE DEF T
    <3>1. acc.promoted = S /\ acc.global_used = Cardinality(Holders) + Cardinality(S)
      BY <1>1
    <3>2. acc.promoted \cup {q} = T
      BY <3>1 DEF T
    <3> QED BY <2>3, <2>6, <3>1, <3>2
  <2>9. [acc.used EXCEPT ![p] = @ + 1]
          = [o \in Providers |-> Cardinality(OfProvider(Holders, o)) + Cardinality(OfProvider(T, o))]
    <3> HIDE DEF T, p
    <3>1. acc.used = [o \in Providers |-> Cardinality(OfProvider(Holders, o))
                                           + Cardinality(OfProvider(S, o))]
      BY <1>1
    <3> QED BY <1>2, <2>4, <2>5, <2>6, <3>1
  <2> HIDE DEF T, p
  <2> QED BY <2>1, <2>7, <2>8, <2>9 DEF Counted
<1> QED
  BY <1>9, <1>10

(* The loop ends with a batch of all queued rows.                            *)
LEMMA LoopPromotesBatch ==
  ASSUME TypeOK, SeqDistinct
  PROVE  promote_queued \in SUBSET Queued /\ Batch(promote_queued)
<1> DEFINE
  ends == {0} \cup {queue_seq[q] + 1 : q \in Queued}
  end == Max(ends)
  base == [ global_used |-> Cardinality(Holders),
            used        |-> [p \in Providers |-> Cardinality(OfProvider(Holders, p))],
            promoted    |-> {} ]
  turn(acc, n) == IF Candidates(n) = {} THEN acc
                  ELSE LoopStep(acc, CHOOSE q \in Candidates(n) : TRUE)
  table(f, m) == [n \in 0 .. m |-> IF n = 0 THEN base ELSE turn(f[n - 1], n - 1)]
  pass == CHOOSE f : f = table(f, end)
<1>1. promote_queued = pass[end].promoted
  BY DEF promote_queued
<1>2. /\ Queued \subseteq Agents /\ \A q \in Queued : queue_seq[q] \in Nat
  BY DEF Queued, TypeOK
<1>3. end \in Nat /\ Front(end) = Queued
  <2>1. \E m \in ends : \A k \in ends : m >= k
    <3>1. CASE Queued = {}
      BY <3>1
    <3>2. CASE Queued # {}
      <4>1. PICK l \in Queued : \A s \in Queued : queue_seq[s] <= queue_seq[l]
        BY <1>2, <3>2, LastMember DEF TypeOK
      <4> QED BY <1>2, <4>1
    <3> QED BY <3>1, <3>2
  <2>2. end \in ends /\ \A k \in ends : end >= k
    BY <2>1 DEF Max
  <2> HIDE DEF end
  <2> QED BY <1>2, <2>2 DEF Front
<1> HIDE DEF end, ends
<1>4. \E f : f = table(f, end)
  <2> DEFINE G == {m \in Nat : \E f : f = table(f, m)}
  <2>1. 0 \in G
    <3> DEFINE f == [n \in 0 .. 0 |-> base]
    <3>1. f = table(f, 0)
      <4> HIDE DEF base, turn
      <4> QED OBVIOUS
    <3> QED BY <3>1
  <2>2. ASSUME NEW m \in Nat, m \in G PROVE m + 1 \in G
    <3>1. PICK f : f = table(f, m)
      BY <2>2
    <3> DEFINE g == [n \in 0 .. m + 1 |-> IF n = m + 1 THEN turn(f[m], m) ELSE f[n]]
    <3> HIDE DEF base, turn
    <3>2. \A n \in 0 .. m : f[n] = IF n = 0 THEN base ELSE turn(f[n - 1], n - 1)
      BY <3>1
    <3>3. \A n \in 0 .. m + 1 : g[n] = IF n = 0 THEN base ELSE turn(g[n - 1], n - 1)
      BY <3>2
    <3>4. g = table(g, m + 1)
      <4>1. g = [n \in 0 .. m + 1 |-> g[n]]
        OBVIOUS
      <4> HIDE DEF g
      <4> QED BY <3>3, <4>1
    <3> HIDE DEF g, table
    <3> QED BY <3>4
  <2> HIDE DEF table
  <2>3. Nat \subseteq G
    <3> HIDE DEF G
    <3> QED BY <2>1, <2>2, AllNumbers
  <2> QED BY <1>3, <2>3
<1>5. pass = table(pass, end)
  <2> HIDE DEF table
  <2> QED BY <1>4
<1>6. \A n \in 0 .. end : pass[n] = IF n = 0 THEN base ELSE turn(pass[n - 1], n - 1)
  <2> HIDE DEF pass, base, turn
  <2> QED BY <1>5
<1> HIDE DEF pass, table
<1> DEFINE H == {n \in Nat : n <= end => Counted(pass[n], n)}
<1>7. 0 \in H
  <2>1. pass[0] = base
    <3> HIDE DEF base, turn
    <3> QED BY <1>3, <1>6
  <2>2. Front(0) = {}
    BY <1>2 DEF Front
  <2>3. Cardinality({}) = 0 /\ \A p \in Providers : OfProvider({}, p) = {}
    BY FS_EmptySet DEF OfProvider
  <2>4. IsFiniteSet(Holders) /\ \A p \in Providers : IsFiniteSet(OfProvider(Holders, p))
    BY AgentsAssumption, FS_Subset DEF Holders, OfProvider
  <2>5. Cardinality(Holders) \in Nat
        /\ \A p \in Providers : Cardinality(OfProvider(Holders, p)) \in Nat
    BY <2>4, FS_CardinalityType
  <2>6. base = [ global_used |-> Cardinality(Holders) + Cardinality({}),
                 used        |-> [p \in Providers |-> Cardinality(OfProvider(Holders, p))
                                                       + Cardinality(OfProvider({}, p))],
                 promoted    |-> {} ]
    <3>1. Cardinality(Holders) + Cardinality({}) = Cardinality(Holders)
      BY <2>3, <2>5
    <3>2. \A p \in Providers : Cardinality(OfProvider(Holders, p)) + Cardinality(OfProvider({}, p))
                                = Cardinality(OfProvider(Holders, p))
      BY <2>3, <2>5
    <3>3. [p \in Providers |-> Cardinality(OfProvider(Holders, p)) + Cardinality(OfProvider({}, p))]
            = [p \in Providers |-> Cardinality(OfProvider(Holders, p))]
      BY <3>2
    <3> QED BY <3>1, <3>3
  <2>7. Counted(base, 0)
    <3> HIDE DEF base
    <3> QED BY <2>2, <2>6 DEF Counted
  <2> HIDE DEF base
  <2> QED BY <2>1, <2>7
<1>8. ASSUME NEW n \in Nat, n \in H PROVE n + 1 \in H
  <2> SUFFICES ASSUME n + 1 <= end PROVE Counted(pass[n + 1], n + 1)
    OBVIOUS
  <2>1. Counted(pass[n], n)
    BY <1>3, <1>8
  <2>2. pass[n + 1] = turn(pass[n], n)
    <3> HIDE DEF turn, base
    <3> QED BY <1>3, <1>6
  <2>3. CASE Candidates(n) = {}
    <3>1. Front(n + 1) = Front(n)
      BY <1>2, <2>3 DEF Candidates, Front
    <3>2. pass[n + 1] = pass[n]
      BY <2>2, <2>3
    <3> QED BY <2>1, <3>1, <3>2 DEF Counted
  <2>4. CASE Candidates(n) # {}
    <3> DEFINE q == CHOOSE r \in Candidates(n) : TRUE
    <3>1. q \in Queued /\ queue_seq[q] = n
      BY <2>4 DEF Candidates
    <3>2. pass[n + 1] = LoopStep(pass[n], q)
      BY <2>2, <2>4
    <3> HIDE DEF q
    <3> QED BY <2>1, <3>1, <3>2, StepCounts
  <2> QED BY <2>3, <2>4
<1>9. Counted(pass[end], end)
  <2>1. Nat \subseteq H
    <3> HIDE DEF H
    <3> QED BY <1>7, <1>8, AllNumbers
  <2> QED BY <1>3, <2>1
<1>10. PICK S \in SUBSET Queued :
         /\ pass[end].promoted = S
         /\ \A q \in Queued : q \in S <=> HasRoom(q, S)
  BY <1>3, <1>9 DEF Counted
<1> QED
  BY <1>1, <1>10 DEF Batch

(* In every reachable queue the loop of promote_queued (store/mod.rs)        *)
(* promotes the one set that the abstract queue calls a batch.               *)
THEOREM LoopIsBatch == Spec => []LoopSelectsBatch
<1>1. TypeOK /\ SeqDistinct => LoopSelectsBatch
  BY LoopPromotesBatch, OneBatch DEF LoopSelectsBatch
<1> QED
  BY <1>1, TypeCorrect, PositionsDistinct, PTL
=============================================================================
