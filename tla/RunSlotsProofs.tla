--------------------------- MODULE RunSlotsProofs ---------------------------
(***************************************************************************)
(* For every bound on the rows, every set of fire times, every             *)
(* --max-concurrency and either --overlap: the slots of a loop are never   *)
(* overbooked, at most one scheduled run waits, and a run keeps the status *)
(* it ended with.                                                          *)
(***************************************************************************)
EXTENDS RunSlots, FiniteSetTheorems, TLAPS

\* The runs are finitely many.
LEMMA RunsFinite == IsFiniteSet(Runs)
  BY RunsAssumption, FS_Interval DEF Runs

\* Cases of a step, with what each leaves alone.
LEMMA TypePreserved == TypeOK /\ [Next]_vars => TypeOK'
<1> SUFFICES ASSUME TypeOK, [Next]_vars PROVE TypeOK'
  OBVIOUS
<1> USE DEF TypeOK, Status, Active, Terminal, Kinds
<1>1. ASSUME NEW r \in Runs, Allocate(r) PROVE TypeOK'
  BY <1>1, FiresAssumption DEF Dues, Allocate, Folding, Pending
<1>2. ASSUME NEW r \in Runs, Coalesce(r) PROVE TypeOK'
  BY <1>2, FiresAssumption DEF Dues, Coalesce
<1>3. ASSUME NEW r \in Runs, Claim(r) PROVE TypeOK'
  BY <1>3 DEF Claim
<1>4. ASSUME NEW r \in Runs, NEW from, NEW to \in SUBSET Status, Move(r, from, to) PROVE TypeOK'
  BY <1>4 DEF Move
<1>5. CASE UNCHANGED vars
  BY <1>5 DEF vars
<1> QED
  BY <1>1, <1>2, <1>3, <1>4, <1>5 DEF Next

\* Every reachable table has well-typed rows.
THEOREM RunsTypeCorrect == Spec => []TypeOK
<1>1. Init => TypeOK
  BY DEF Init, TypeOK, Status, Kinds
<1> QED
  BY <1>1, TypePreserved, PTL DEF Spec

-----------------------------------------------------------------------------
\* Adding one run to a set of fewer than MaxConcurrency keeps the cap.
LEMMA OneMore ==
  ASSUME NEW S \in SUBSET Runs, NEW T \in SUBSET Runs, NEW r \in Runs,
         Cardinality(S) < MaxConcurrency, T \subseteq S \cup {r}
  PROVE  Cardinality(T) <= MaxConcurrency
<1>1. IsFiniteSet(S) /\ IsFiniteSet(S \cup {r})
  BY RunsFinite, FS_Subset
<1>2. Cardinality(S \cup {r}) <= Cardinality(S) + 1
  BY <1>1, FS_AddElement, FS_CardinalityType
<1>3. Cardinality(T) <= Cardinality(S \cup {r}) /\ IsFiniteSet(T)
  BY <1>1, FS_Subset
<1> QED
  BY <1>1, <1>2, <1>3, FS_CardinalityType, ConcurrencyAssumption

\* A set of runs that does not grow keeps the cap.
LEMMA NoMore ==
  ASSUME NEW S \in SUBSET Runs, NEW T \in SUBSET S, NEW n \in Nat, Cardinality(S) <= n
  PROVE  Cardinality(T) <= n
<1>1. IsFiniteSet(S) /\ IsFiniteSet(T)
  BY RunsFinite, FS_Subset
<1>2. Cardinality(T) <= Cardinality(S)
  BY <1>1, FS_Subset
<1> QED
  BY <1>1, <1>2, FS_CardinalityType

\* A run takes a slot only through allocate_run or claim_pending_run, each in
\* a transaction that has counted the slots: the cap is inductive.
LEMMA SlotsPreserved == TypeOK /\ SlotsRespected /\ [Next]_vars => SlotsRespected'
<1> SUFFICES ASSUME TypeOK, SlotsRespected, [Next]_vars PROVE SlotsRespected'
  OBVIOUS
<1>1. Holding \in SUBSET Runs /\ Holding' \in SUBSET Runs
  BY DEF Holding
<1>2. ASSUME Holding' \subseteq Holding PROVE SlotsRespected'
  BY <1>1, <1>2, NoMore, ConcurrencyAssumption DEF SlotsRespected
<1>3. ASSUME NEW r \in Runs, ~Full, Holding' \subseteq Holding \cup {r} PROVE SlotsRespected'
  <2>1. Cardinality(Holding) < MaxConcurrency
    BY <1>1, <1>3, RunsFinite, FS_Subset, FS_CardinalityType, ConcurrencyAssumption DEF Full
  <2> QED
    BY <1>1, <1>3, <2>1, OneMore DEF SlotsRespected
<1>4. ASSUME NEW r \in Runs, Allocate(r) PROVE SlotsRespected'
  <2>1. CASE Full
    BY <2>1, <1>2, <1>4 DEF Allocate, Holding, Active, TypeOK
  <2>2. CASE ~Full
    BY <2>2, <1>3, <1>4 DEF Allocate, Holding, Active, TypeOK
  <2> QED
    BY <2>1, <2>2
<1>5. ASSUME NEW r \in Runs, Coalesce(r) PROVE SlotsRespected'
  BY <1>2, <1>5 DEF Coalesce, Holding
<1>6. ASSUME NEW r \in Runs, Claim(r) PROVE SlotsRespected'
  BY <1>3, <1>6 DEF Claim, Holding, TypeOK
<1>7. ASSUME NEW r \in Runs, Move(r, {"running"}, {"stopping"}) PROVE SlotsRespected'
  BY <1>2, <1>7 DEF Move, Holding, Active, TypeOK
<1>8. ASSUME NEW r \in Runs, Move(r, Active, Terminal \ {"canceled"}) PROVE SlotsRespected'
  BY <1>2, <1>8 DEF Move, Holding, Active, Terminal, TypeOK
<1>9. ASSUME NEW r \in Runs, Move(r, {"pending"}, {"canceled"}) PROVE SlotsRespected'
  BY <1>2, <1>9 DEF Move, Holding, Active, TypeOK
<1>10. CASE UNCHANGED vars
  BY <1>2, <1>10 DEF vars, Holding
<1> QED
  BY <1>4, <1>5, <1>6, <1>7, <1>8, <1>9, <1>10 DEF Next

\* The slots of a loop are never overbooked.
THEOREM SlotsNeverOverbooked == Spec => []SlotsRespected
<1>1. Init => SlotsRespected
  <2> SUFFICES ASSUME Init PROVE SlotsRespected
    OBVIOUS
  <2>1. Holding = {}
    BY DEF Init, Holding, Active
  <2> QED
    BY <2>1, FS_EmptySet, ConcurrencyAssumption DEF SlotsRespected
<1> QED
  BY <1>1, RunsTypeCorrect, SlotsPreserved, PTL DEF Spec

-----------------------------------------------------------------------------
\* At most one scheduled run waits, stated of pairs.
OneFolding == \A q, r \in Runs : q \in Folding /\ r \in Folding => q = r

\* A fire folds into the run that waits, so no second one comes.
LEMMA FoldingPreserved == TypeOK /\ OneFolding /\ [Next]_vars => OneFolding'
<1> SUFFICES ASSUME TypeOK, OneFolding, [Next]_vars PROVE OneFolding'
  OBVIOUS
<1>1. ASSUME Folding' \subseteq Folding PROVE OneFolding'
  BY <1>1 DEF OneFolding
<1>2. ASSUME NEW r \in Runs, Allocate(r) PROVE OneFolding'
  <2>1. CASE Folding = {}
    <3>1. Folding' \subseteq {r}
      BY <2>1, <1>2 DEF Allocate, Folding, Pending, TypeOK
    <3> QED
      BY <3>1 DEF OneFolding
  <2>2. CASE Folding # {}
    BY <2>2, <1>1, <1>2 DEF Allocate, Folding, Pending, Kinds, TypeOK
  <2> QED
    BY <2>1, <2>2
<1>3. ASSUME NEW r \in Runs, Coalesce(r) PROVE OneFolding'
  BY <1>1, <1>3 DEF Coalesce, Folding, Pending
<1>4. ASSUME NEW r \in Runs, Claim(r) PROVE OneFolding'
  BY <1>1, <1>4 DEF Claim, Folding, Pending, TypeOK
<1>5. ASSUME NEW r \in Runs, NEW from, NEW to, "pending" \notin to, Move(r, from, to)
      PROVE OneFolding'
  BY <1>1, <1>5 DEF Move, Folding, Pending, TypeOK
<1>6. CASE UNCHANGED vars
  BY <1>1, <1>6 DEF vars, Folding, Pending
<1> QED
  BY <1>2, <1>3, <1>4, <1>5, <1>6 DEF Next, Terminal

\* Whatever the fires and the promotions, at most one scheduled run waits.
THEOREM OneScheduledWaits == Spec => []OnePendingScheduled
<1>1. Init => OneFolding
  BY DEF Init, OneFolding, Folding, Pending
<1>2. OneFolding => OnePendingScheduled
  <2> SUFFICES ASSUME OneFolding, NEW r \in Folding PROVE OnePendingScheduled
    BY FS_EmptySet DEF OnePendingScheduled
  <2>1. Folding = {r}
    BY DEF OneFolding, Folding, Pending
  <2>2. Cardinality({r}) = 1
    BY FS_Singleton
  <2> QED
    BY <2>1, <2>2 DEF OnePendingScheduled
<1> QED
  BY <1>1, <1>2, RunsTypeCorrect, FoldingPreserved, PTL DEF Spec

-----------------------------------------------------------------------------
\* A run that has ended keeps the status it ended with.
THEOREM EndedRunsStay == Spec => TerminalIsFinal
<1>1. TypeOK /\ [Next]_vars
        => [\A r \in Runs : status[r] \in Terminal => status'[r] = status[r]]_vars
  <2> SUFFICES ASSUME TypeOK, Next, NEW q \in Runs, status[q] \in Terminal
               PROVE status'[q] = status[q]
    OBVIOUS
  <2> USE DEF TypeOK, Active, Terminal
  <2>1. ASSUME NEW r \in Runs, Allocate(r) PROVE status'[q] = status[q]
    BY <2>1 DEF Allocate, Fresh
  <2>2. ASSUME NEW r \in Runs, Coalesce(r) PROVE status'[q] = status[q]
    BY <2>2 DEF Coalesce
  <2>3. ASSUME NEW r \in Runs, Claim(r) PROVE status'[q] = status[q]
    BY <2>3 DEF Claim, Oldest, Pending
  <2>4. ASSUME NEW r \in Runs, NEW from \in SUBSET (Active \cup {"pending"}), NEW to,
               Move(r, from, to)
        PROVE status'[q] = status[q]
    BY <2>4 DEF Move
  <2> QED
    BY <2>1, <2>2, <2>3, <2>4 DEF Next
<1> QED
  BY <1>1, RunsTypeCorrect, PTL DEF Spec, TerminalIsFinal
=============================================================================
