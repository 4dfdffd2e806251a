------------------------ MODULE SpawnPipelineProofs ------------------------
(***************************************************************************)
(* Theorems of SpawnPipeline, for any set of runs, kill calls, caps and    *)
(* crashes, whether or not herdr fails: the shapes of the variables, the   *)
(* lock, the recorded panes, the panes accounted for, and that the threads *)
(* implement the store's admission promise (AgentQueue), whose caps and    *)
(* order they therefore keep.                                              *)
(***************************************************************************)
EXTENDS SpawnPipeline, TLAPS

Rows == [ status : Live \cup {"absent", "queued", "starting", "ended", "lost"},
          pane : BOOLEAN, cancel : BOOLEAN, reason : ExitReasons,
          queue_seq : Nat, regained : BOOLEAN ]

Works == [ pc : {"dequeue", "cancel", "close", "end"}, agent : Agents, why : ExitReasons,
           pane : BOOLEAN, lock : BOOLEAN ]

Recons == [ pc : {"lost", "vanished", "recover"}, snap : SUBSET Agents, todo : SUBSET Agents ]

-----------------------------------------------------------------------------
\* The rows are typed one by one.
LEMMA RowShape == TypeOK => row \in [Agents -> Rows] /\ \A a \in Agents : row[a] \in Rows
BY DEF TypeOK, Rows

\* end_agent, on one row.
LEMMA Ends ==
  ASSUME TypeOK, NEW a \in Agents, NEW why \in ExitReasons, End(a, why)
  PROVE  /\ row' \in [Agents -> Rows]
         /\ \A b \in Agents \ {a} : row'[b] = row[b]
         /\ row'[a].status = "ended" /\ ~row'[a].regained
         /\ row'[a].pane = row[a].pane /\ row'[a].cancel = row[a].cancel
         /\ row'[a].queue_seq = row[a].queue_seq
<1> DEFINE r == [row[a] EXCEPT !.status = "ended", !.reason = why, !.regained = FALSE]
<1>1. row \in [Agents -> Rows] /\ row[a] \in Rows
  BY DEF TypeOK, Rows
<1>2. /\ r \in Rows /\ r.status = "ended" /\ ~r.regained
      /\ r.pane = row[a].pane /\ r.cancel = row[a].cancel /\ r.queue_seq = row[a].queue_seq
  BY <1>1 DEF Rows
<1>3. row' = [row EXCEPT ![a] = r]
  BY DEF End
<1> HIDE DEF r
<1> QED
  BY <1>1, <1>2, <1>3

\* The other writes of a row.
LEMMA Writes ==
  ASSUME TypeOK, NEW a \in Agents, NEW r \in Rows, row' = [row EXCEPT ![a] = r]
  PROVE  /\ row' \in [Agents -> Rows]
         /\ row'[a] = r
         /\ \A b \in Agents \ {a} : row'[b] = row[b]
BY DEF TypeOK, Rows

\* transition_status, on one row.
LEMMA StatusSet ==
  ASSUME TypeOK, NEW a \in Agents,
         NEW s \in Live \cup {"absent", "queued", "starting", "ended", "lost"}, SetStatus(a, s)
  PROVE  /\ row' \in [Agents -> Rows]
         /\ \A b \in Agents \ {a} : row'[b] = row[b]
         /\ row'[a].status = s /\ row'[a].regained = row[a].regained
         /\ row'[a].pane = row[a].pane /\ row'[a].cancel = row[a].cancel
         /\ row'[a].queue_seq = row[a].queue_seq
<1> DEFINE r == [row[a] EXCEPT !.status = s]
<1>1. row[a] \in Rows
  BY DEF TypeOK, Rows
<1>2. /\ r \in Rows /\ r.status = s /\ r.regained = row[a].regained
      /\ r.pane = row[a].pane /\ r.cancel = row[a].cancel /\ r.queue_seq = row[a].queue_seq
  BY <1>1 DEF Rows
<1>3. row' = [row EXCEPT ![a] = r]
  BY DEF SetStatus
<1> HIDE DEF r
<1> QED
  BY <1>2, <1>3, Writes

\* One pipeline's step leaves the others where they are,
LEMMA PipeSteps1 ==
  ASSUME TypeOK, NEW a \in Agents, NEW step \in PipeSteps, PipeMoves(a, step)
  PROVE  /\ pipe' \in [Agents -> PipeSteps]
         /\ pipe'[a] = step
         /\ \A b \in Agents \ {a} : pipe'[b] = pipe[b]
BY DEF TypeOK, PipeMoves

Enders == {Idle, Done} \cup Works

\* and one row-ending thread's the others.
LEMMA EnderWrites ==
  ASSUME TypeOK, NEW t \in Threads, NEW w \in Enders, EnderGoes(t, w)
  PROVE  /\ ender' \in [Threads -> Enders]
         /\ ender'[t] = w
         /\ \A u \in Threads \ {t} : ender'[u] = ender[u]
BY DEF TypeOK, EnderGoes, Enders, Works

\* What a kill sets its thread to, from its one read of the row.
LEMMA KillWorks ==
  ASSUME TypeOK, NEW a \in Agents
  PROVE  /\ KillWork(a) \in Works \cup {Done}
         /\ KillWork(a) \in Works => /\ KillWork(a).agent = a /\ KillWork(a).pane = row[a].pane
                                    /\ KillWork(a).pc # "end" /\ row[a].status # "absent"
BY DEF TypeOK, KillWork, Work, Works, Done, ExitReasons, Live

-----------------------------------------------------------------------------
\* Types, one kind of step at a time.
LEMMA EnqueueType == ASSUME TypeOK, NEW a \in Agents, Enqueue(a) PROVE TypeOK'
<1>1. PICK b \in Agents : row' = [row EXCEPT ![a].status = "queued", ![a].queue_seq = row[b].queue_seq + 1]
  BY DEF Enqueue
<1>2. row' \in [Agents -> Rows]
  <2> DEFINE r == [row[a] EXCEPT !.status = "queued", !.queue_seq = row[b].queue_seq + 1]
  <2>1. r \in Rows
    <3>1. row[a] \in Rows
      BY RowShape
    <3>2. row[b].queue_seq + 1 \in Nat
      BY RowShape DEF Rows
    <3> QED
      BY <3>1, <3>2 DEF Rows
  <2>2. row' = [row EXCEPT ![a] = r]
    BY <1>1
  <2> HIDE DEF r
  <2> QED
    BY <2>1, <2>2, Writes
<1> QED
  BY <1>2 DEF Enqueue, TypeOK, Rows

LEMMA PromoteType == ASSUME TypeOK, Promote PROVE TypeOK'
<1>1. PICK S : /\ row' = [a \in Agents |->
                       IF a \in S THEN [row[a] EXCEPT !.status = "starting"] ELSE row[a]]
               /\ pipe' = [a \in Agents |-> IF a \in S THEN "launch" ELSE pipe[a]]
  BY DEF Promote
<1>2. row' \in [Agents -> Rows]
  BY <1>1 DEF TypeOK, Rows
<1>3. pipe' \in [Agents -> PipeSteps]
  BY <1>1 DEF TypeOK, PipeSteps
<1> QED
  BY <1>2, <1>3 DEF Promote, TypeOK, Rows

LEMMA PipelineType == ASSUME TypeOK, NEW a \in Agents, PipelineStep(a) PROVE TypeOK'
<1>1. PICK step \in PipeSteps : PipeMoves(a, step)
  BY DEF PipelineStep, CheckCancel, StartPane, LabelPane, PostStartRecheck, RecordLocation, BailCheck, Deliver,
         SendPrompt, ClosePipelinePane, FailRow, Bail, PipeGoes, PipeSteps
<1>2. pipe' \in [Agents -> PipeSteps] /\ UNCHANGED <<ender, recon, seen, server, crashes>>
  BY <1>1, PipeSteps1 DEF PipeMoves
<1>3. alive' \in SUBSET Agents /\ leaked' \in SUBSET Agents /\ labelled' \in SUBSET Agents
  BY DEF TypeOK, PipelineStep, CheckCancel, StartPane, LabelPane, PostStartRecheck, RecordLocation, BailCheck,
         Deliver, SendPrompt, ClosePipelinePane, FailRow, Bail, PipeGoes
<1>4. row' \in [Agents -> Rows]
  <2>1. \/ row' = row \/ RecordLocation(a) \/ End(a, "failed") \/ End(a, "canceled")
        \/ SetStatus(a, "working") \/ SetStatus(a, "idle")
    BY DEF PipelineStep, CheckCancel, StartPane, LabelPane, PostStartRecheck, BailCheck, Deliver, SendPrompt,
           ClosePipelinePane, FailRow, Bail
  <2>2. CASE RecordLocation(a)
    <3> DEFINE r == [row[a] EXCEPT !.pane = TRUE]
    <3>1. r \in Rows
      <4>1. row[a] \in Rows
        BY RowShape
      <4> QED
        BY <4>1 DEF Rows
    <3>2. row' = [row EXCEPT ![a] = r]
      BY <2>2 DEF RecordLocation
    <3> HIDE DEF r
    <3> QED
      BY <3>1, <3>2, Writes
  <2>3. CASE End(a, "failed") \/ End(a, "canceled")
    BY <2>3, Ends DEF ExitReasons
  <2>4. CASE SetStatus(a, "working") \/ SetStatus(a, "idle")
    BY <2>4, StatusSet DEF Live
  <2>5. CASE row' = row
    BY <2>5 DEF TypeOK, Rows
  <2> QED
    BY <2>1, <2>2, <2>3, <2>4, <2>5
<1> QED
  BY <1>2, <1>3, <1>4 DEF TypeOK, Rows

LEMMA EnderType == ASSUME TypeOK, NEW t \in Threads, EnderStep(t) PROVE TypeOK'
<1> DEFINE a == ender[t].agent
<1>1. ender[t] \in Works /\ a \in Agents /\ ender[t].why \in ExitReasons
  BY DEF TypeOK, EnderStep, KillDequeue, KillCancel, ClosePane, EndRow, Works, Idle, Done
<1>2. row' \in [Agents -> Rows]
  <2>1. \/ row' = row \/ End(a, "canceled") \/ End(a, ender[t].why)
        \/ row' = [row EXCEPT ![a].cancel = TRUE]
    BY DEF EnderStep, KillDequeue, KillCancel, ClosePane, EndRow
  <2>2. CASE row' = [row EXCEPT ![a].cancel = TRUE]
    <3> DEFINE r == [row[a] EXCEPT !.cancel = TRUE]
    <3>1. r \in Rows
      <4>1. row[a] \in Rows
        BY <1>1, RowShape
      <4> QED
        BY <4>1 DEF Rows
    <3>2. row' = [row EXCEPT ![a] = r]
      BY <2>2
    <3> HIDE DEF r, a
    <3> QED
      BY <1>1, <3>1, <3>2, Writes
  <2>3. CASE End(a, "canceled") \/ End(a, ender[t].why)
    BY <1>1, <2>3, Ends DEF ExitReasons
  <2>4. CASE row' = row
    BY <2>4, RowShape
  <2> QED
    BY <2>1, <2>2, <2>3, <2>4
<1>3. \E w \in Enders : EnderGoes(t, w)
  <2>1. CASE KillDequeue(t)
    BY <1>1, <2>1, KillWorks DEF KillDequeue, Enders
  <2>2. CASE KillCancel(t)
    BY <1>1, <2>2 DEF KillCancel, Enders, Works
  <2>3. CASE ClosePane(t)
    <3> DEFINE w == [ender[t] EXCEPT !.pc = "end", !.lock = ender[t].why # "canceled"]
    <3>1. w \in Works
      BY <1>1 DEF Works
    <3>2. EnderGoes(t, w)
      BY <2>3 DEF ClosePane
    <3> HIDE DEF w
    <3> QED
      BY <3>1, <3>2 DEF Enders
  <2>4. CASE EndRow(t)
    BY <2>4 DEF EndRow, Rest, Enders
  <2> QED
    BY <2>1, <2>2, <2>3, <2>4 DEF EnderStep
<1>4. ender' \in [Threads -> Enders] /\ UNCHANGED <<labelled, pipe, recon, seen, server, crashes>>
  BY <1>3, EnderWrites DEF EnderGoes
<1>5. alive' \in SUBSET Agents /\ leaked' \in SUBSET Agents
  BY DEF TypeOK, EnderStep, KillDequeue, KillCancel, ClosePane, EndRow
<1> QED
  BY <1>2, <1>4, <1>5 DEF TypeOK, Rows, Enders, Works

LEMMA ListenerType ==
  ASSUME TypeOK, NEW a \in Agents,
         TimeoutRead(a) \/ StuckRead(a) \/ \E t \in Killers : KillRead(t, a)
  PROVE  TypeOK'
<1>1. \E t \in Threads, w \in Enders : EnderGoes(t, w)
  <2>1. Work("close", a, "timeout", TRUE) \in Enders /\ Work("end", a, "failed", FALSE) \in Enders
    BY RowShape DEF Work, Enders, Works, ExitReasons, Rows
  <2>2. KillWork(a) \in Enders
    BY KillWorks DEF Enders
  <2> QED
    BY <2>1, <2>2 DEF TimeoutRead, StuckRead, KillRead, Threads
<1>2. ender' \in [Threads -> Enders] /\ UNCHANGED <<labelled, pipe, recon, seen, server, crashes>>
  BY <1>1, EnderWrites DEF EnderGoes
<1>3. UNCHANGED <<row, alive, leaked>>
  BY DEF TimeoutRead, StuckRead, KillRead
<1> QED
  BY <1>2, <1>3 DEF TypeOK, Enders, Works

\* A late write of the reconciler or the monitor.
LEMMA LateWrites ==
  ASSUME TypeOK, NEW a \in Agents, NEW s \in {"lost", "blocked"}, NEW g \in BOOLEAN,
         row' = [row EXCEPT ![a].status = s, ![a].regained = g]
  PROVE  /\ row' \in [Agents -> Rows]
         /\ \A b \in Agents \ {a} : row'[b] = row[b]
         /\ row'[a].status = s /\ row'[a].regained = g
         /\ row'[a].pane = row[a].pane /\ row'[a].cancel = row[a].cancel
         /\ row'[a].queue_seq = row[a].queue_seq
<1> DEFINE r == [row[a] EXCEPT !.status = s, !.regained = g]
<1>1. row[a] \in Rows
  BY RowShape
<1>2. /\ r \in Rows /\ r.status = s /\ r.regained = g
      /\ r.pane = row[a].pane /\ r.cancel = row[a].cancel /\ r.queue_seq = row[a].queue_seq
  BY <1>1 DEF Rows, Live
<1>3. row' = [row EXCEPT ![a] = r]
  OBVIOUS
<1> HIDE DEF r
<1> QED
  BY <1>2, <1>3, Writes

LEMMA ReconType == ASSUME TypeOK, ReconSnapshot \/ ReconStep PROVE TypeOK'
<1>1. CASE ReconSnapshot
  BY <1>1 DEF ReconSnapshot, ReconGoes, TypeOK
<1>2. CASE ReconListActive
  <2> DEFINE gone == {a \in Agents \ recon.snap : row[a].status \in Live /\ row[a].pane}
  <2>1. recon.snap \in SUBSET Agents
    BY <1>2 DEF ReconListActive, TypeOK, Idle
  <2>2. recon' \in {Idle, [pc |-> "vanished", snap |-> recon.snap, todo |-> gone]}
    BY <1>2 DEF ReconListActive, ReconGoes
  <2>3. recon' \in {Idle} \cup Recons
    BY <2>1, <2>2 DEF Recons
  <2> QED
    BY <1>2, <2>3 DEF ReconListActive, ReconGoes, TypeOK, Recons
<1>3. ASSUME NEW a \in Agents, ReconLostOne(a) \/ ReconVanishOne(a) PROVE TypeOK'
  <2>1. recon \in Recons
    BY <1>3 DEF ReconLostOne, ReconVanishOne, TypeOK, Recons, Idle
  <2>2. recon' \in {Idle} \cup Recons
    <3> DEFINE r == [recon EXCEPT !.todo = recon.todo \ {a}]
    <3>1. r \in Recons
      BY <2>1 DEF Recons
    <3>2. recon' \in {Idle, r}
      BY <1>3 DEF ReconLostOne, ReconVanishOne, ReconGoes
    <3> HIDE DEF r
    <3> QED
      BY <3>1, <3>2
  <2>3. row' \in [Agents -> Rows]
    <3>1. \/ row' = row \/ End(a, "lost")
          \/ row' = [row EXCEPT ![a].status = "lost", ![a].regained = FALSE]
      BY <1>3 DEF ReconLostOne, ReconVanishOne
    <3> QED
      BY <3>1, RowShape, Ends, LateWrites DEF ExitReasons
  <2> QED
    BY <1>3, <2>2, <2>3 DEF ReconLostOne, ReconVanishOne, ReconGoes, TypeOK, Rows, Recons
<1> QED
  BY <1>1, <1>2, <1>3 DEF ReconStep

LEMMA MonitorType ==
  ASSUME TypeOK, MonitorRead \/ \E a \in Agents : MonitorDrive(a)
  PROVE  TypeOK'
<1>1. CASE MonitorRead
  BY <1>1 DEF MonitorRead, TypeOK
<1>2. ASSUME NEW a \in Agents, MonitorDrive(a) PROVE TypeOK'
  <2>1. row' \in [Agents -> Rows]
    <3> DEFINE g == row[a].regained \/ row[a].status \in {"ended", "lost"}
    <3>1. row' = row \/ row' = [row EXCEPT ![a].status = "blocked", ![a].regained = g]
      BY <1>2 DEF MonitorDrive
    <3>2. g \in BOOLEAN
      OBVIOUS
    <3> HIDE DEF g
    <3> QED
      BY <3>1, <3>2, RowShape, LateWrites
  <2> QED
    BY <1>2, <2>1 DEF MonitorDrive, TypeOK, Rows
<1> QED
  BY <1>1, <1>2

LEMMA RestartType == ASSUME TypeOK, Crash \/ RestartStep PROVE TypeOK'
<1>1. CASE Crash
  <2>1. pipe' \in [Agents -> PipeSteps]
    BY <1>1 DEF Crash, PipeSteps
  <2>2. ender' \in [Threads -> {Idle, Done}]
    BY <1>1 DEF Crash, Rest
  <2>3. crashes' \in 0..MaxCrashes
    BY <1>1, FaultAssumption DEF Crash, TypeOK
  <2>4. alive' \in SUBSET Agents /\ leaked' \in SUBSET Agents
    BY <1>1 DEF Crash, TypeOK
  <2> QED
    BY <1>1, <2>1, <2>2, <2>3, <2>4 DEF Crash, TypeOK
<1>2. CASE Restart
  <2> DEFINE rows == {a \in Agents : row[a].status \in Live \cup {"queued", "starting"}}
  <2>1. recon' \in {[pc |-> "recover", snap |-> alive, todo |-> rows],
                    [pc |-> "recover", snap |-> {}, todo |-> {}],
                    [pc |-> "recover", snap |-> {}, todo |-> rows]}
    BY <1>2 DEF Restart
  <2>2. recon' \in Recons
    BY <2>1 DEF TypeOK, Recons
  <2> QED
    BY <1>2, <2>2 DEF Restart, TypeOK, Recons
<1>3. CASE Serve
  BY <1>3 DEF Serve, TypeOK
<1>4. ASSUME NEW a \in Agents, RecoverOne(a) PROVE TypeOK'
  <2>1. recon \in Recons
    BY <1>4 DEF RecoverOne, TypeOK, Recons, Idle
  <2>2. recon' \in Recons
    BY <1>4, <2>1 DEF RecoverOne, Recons
  <2>3. row' \in [Agents -> Rows]
    <3>1. \/ row' = row \/ End(a, "failed") \/ SetStatus(a, "working")
          \/ row' = [row EXCEPT ![a].status = "lost", ![a].regained = FALSE]
      BY <1>4 DEF RecoverOne
    <3> QED
      BY <3>1, RowShape, Ends, LateWrites, StatusSet DEF ExitReasons, Live
  <2>4. alive' \in SUBSET Agents /\ leaked' \in SUBSET Agents
    BY <1>4 DEF RecoverOne, TypeOK
  <2> QED
    BY <1>4, <2>2, <2>3, <2>4 DEF RecoverOne, TypeOK, Rows, Recons
<1> QED
  BY <1>1, <1>2, <1>3, <1>4 DEF RestartStep

\* Every variable keeps its shape, and a row its known statuses: the strings
\* the store writes are those its readers know.
THEOREM TypeCorrect == Spec => []TypeOK
<1>1. Init => TypeOK
  BY FaultAssumption DEF Init, TypeOK, ExitReasons, PipeSteps
<1>2. TypeOK /\ [Next]_vars => TypeOK'
  <2> SUFFICES ASSUME TypeOK, [Next]_vars PROVE TypeOK'
    OBVIOUS
  <2>1. ASSUME NEW a \in Agents, PaneDies(a) PROVE TypeOK'
    BY <2>1 DEF PaneDies, TypeOK
  <2>2. CASE UNCHANGED vars
    BY <2>2 DEF vars, TypeOK
  <2> QED
    BY <2>1, <2>2, EnqueueType, PromoteType, PipelineType, EnderType, ListenerType, ReconType,
       MonitorType, RestartType DEF Next
<1> QED
  BY <1>1, <1>2, PTL DEF Spec

-----------------------------------------------------------------------------
\* A thread that is closing a's pane or about to end a's row.
Watched(a) ==
  \E t \in Threads : ender[t] \in Works /\ ender[t].agent = a /\ ender[t].pc \in {"close", "end"}

\* What the row of a tells of its pane and its pipeline, and the other way round.
AgentOK(a) ==
  /\ row[a].status \in {"absent", "queued"} => a \notin alive /\ ~row[a].pane /\ pipe[a] = "none"
  /\ row[a].status \in Live \cup {"lost"} => row[a].pane
  /\ pipe[a] \in {"launch", "calling"} => a \notin alive
  /\ pipe[a] \in {"launch", "calling", "naming", "started", "record"} => ~row[a].pane
  /\ pipe[a] \in {"recorded", "deliver", "void", "sending"} => row[a].pane
  /\ pipe[a] = "failing" => row[a].pane \/ a \notin alive \/ a \in leaked
  /\ pipe[a] \in {"fail", "bail"} => a \notin alive \/ a \in leaked
  /\ a \in alive /\ row[a].status = "ended" => a \in leaked \/ Obliged(a) \/ Watched(a)

\* What a row-ending thread's copy still tells of the row and its pane.
ThreadOK(t) ==
  ender[t] \in Works =>
    /\ row[ender[t].agent].status # "absent"
    /\ ender[t].pane => row[ender[t].agent].pane
    /\ ender[t].pc = "end" /\ ender[t].pane =>
         ender[t].agent \notin alive \/ ender[t].agent \in leaked

\* The same of the lists that the reconciler and the monitor work from.
ReconOK ==
  recon # Idle => \A a \in recon.todo :
    /\ recon.pc \in {"lost", "vanished"} => row[a].pane
    /\ recon.pc = "lost" => a \notin alive
    /\ recon.pc = "recover" => row[a].status \in Live \cup {"queued", "starting"}

MonitorOK == \A a \in seen : row[a].pane

\* The threads run only while the server is up, the repair only before; its
\* list shows every live pane unless herdr failed.
ServerOK ==
  /\ server # "up" => /\ \A a \in Agents : pipe[a] = "none"
                      /\ \A t \in Threads : ender[t] \notin Works
                      /\ seen = {}
  /\ server = "up" => recon = Idle \/ recon.pc # "recover"
  /\ server = "down" => recon = Idle
  /\ server = "recovering" =>
       recon # Idle /\ recon.pc = "recover" /\ (~HerdrFails => alive \subseteq recon.snap)

IndInv ==
  /\ TypeOK /\ ReconOK /\ MonitorOK /\ ServerOK
  /\ \A a \in Agents : AgentOK(a)
  /\ \A t \in Threads : ThreadOK(t)

\* A thread closing a pane without having to wait for the move lock holds it
\* already, or never takes it (the kill of a starting row).
LockOK ==
  \A t \in Threads : ender[t] \in Works =>
    /\ ender[t].pc = "cancel" => ender[t].why = "canceled"
    /\ ender[t].pc = "close" => ender[t].why \in {"killed", "lost", "canceled"} \/ ender[t].lock

-----------------------------------------------------------------------------
\* No step takes a row or a recorded pane back, or forgets a leaked one; a pane
\* comes alive only for a row that has none recorded.
Forward ==
  /\ \A b \in Agents : /\ row[b].status # "absent" => row'[b].status # "absent"
                       /\ row[b].pane => row'[b].pane
  /\ leaked \subseteq leaked'
  /\ \A b \in alive' : b \in alive \/ ~row[b].pane

\* The agents a step passes by.
PassesBy(b) ==
  /\ row'[b] = row[b] /\ pipe'[b] = pipe[b]
  /\ b \in alive' => b \in alive
  /\ Watched(b) => Watched(b)'

\* A step that passes an agent by keeps what is known of it.
LEMMA AgentKept ==
  ASSUME NEW b \in Agents, AgentOK(b), PassesBy(b), leaked \subseteq leaked'
  PROVE  AgentOK(b)'
BY DEF AgentOK, PassesBy, Obliged

\* What the threads and the lists rely on lasts through such steps.
LEMMA ThreadKept ==
  ASSUME IndInv, Forward, NEW t \in Threads, ender'[t] = ender[t]
  PROVE  ThreadOK(t)'
BY DEF IndInv, ThreadOK, Forward, Works

\* A step that only moves rows forward keeps what the old lists are worth.
LEMMA ListsKept ==
  ASSUME IndInv, Forward
  PROVE  /\ seen' \subseteq seen => MonitorOK'
         /\ recon' = recon /\ (recon = Idle \/ recon.pc # "recover" \/ row' = row) => ReconOK'
<1>1. seen' \subseteq seen => MonitorOK'
  BY DEF IndInv, TypeOK, Forward, MonitorOK
<1>2. recon # Idle => recon.todo \in SUBSET Agents
  BY DEF IndInv, TypeOK
<1>3. recon' = recon /\ (recon = Idle \/ recon.pc # "recover" \/ row' = row) => ReconOK'
  BY <1>2 DEF IndInv, Forward, ReconOK
<1> QED
  BY <1>1, <1>3

\* A step of a pipeline on its own agent.
LEMMA PipeKeeps ==
  ASSUME IndInv, TypeOK', NEW a \in Agents, NEW step \in PipeSteps, PipeMoves(a, step),
         server = "up", Forward, \A b \in Agents \ {a} : row'[b] = row[b],
         alive' \subseteq alive \cup {a},
         Watched(a)' = Watched(a) /\ pipe'[a] = step => AgentOK(a)'
  PROVE  IndInv'
<1>1. pipe'[a] = step /\ \A b \in Agents \ {a} : pipe'[b] = pipe[b]
  BY PipeSteps1 DEF IndInv
<1>2. UNCHANGED <<ender, recon, seen, server>>
  BY DEF PipeMoves
<1>3. ASSUME NEW b \in Agents PROVE Watched(b)' = Watched(b)
  BY <1>2 DEF Watched
<1>4. ASSUME NEW b \in Agents PROVE AgentOK(b)'
  <2>1. CASE b = a
    BY <1>1, <1>3, <2>1
  <2>2. CASE b # a
    <3>1. PassesBy(b)
      BY <1>1, <1>3, <2>2 DEF PassesBy
    <3> QED
      BY <3>1, AgentKept DEF IndInv, Forward
  <2> QED
    BY <2>1, <2>2
<1>5. \A t \in Threads : ThreadOK(t)'
  BY <1>2, ThreadKept
<1>6. recon = Idle \/ recon.pc # "recover"
  BY DEF IndInv, ServerOK
<1>7. ReconOK' /\ MonitorOK'
  BY <1>2, <1>6, ListsKept
<1>8. ServerOK'
  BY <1>2, <1>6 DEF ServerOK
<1> QED
  BY <1>4, <1>5, <1>7, <1>8 DEF IndInv

\* The actions. The pipelines' steps.
LEMMA PipelineKeeps ==
  ASSUME IndInv, NEW a \in Agents, PipelineStep(a)
  PROVE  IndInv'
<1>1. TypeOK /\ TypeOK' /\ AgentOK(a) /\ row[a] \in Rows
  BY PipelineType, RowShape DEF IndInv
\* The row stays: pipeline steps that only look, call herdr or go on.
<1>2. ASSUME NEW step \in PipeSteps, PipeMoves(a, step), server = "up", row' = row,
             alive' \subseteq alive \cup {a}, leaked \subseteq leaked',
             a \in alive' => a \in alive \/ ~row[a].pane,
             Watched(a)' = Watched(a) /\ pipe'[a] = step => AgentOK(a)'
      PROVE  IndInv'
  <2>1. Forward
    BY <1>2 DEF Forward
  <2> QED
    BY <1>1, <1>2, <2>1, PipeKeeps
\* The row changes and the panes stay.
<1>3. ASSUME NEW step \in PipeSteps, PipeMoves(a, step), server = "up",
             row' \in [Agents -> Rows], \A b \in Agents \ {a} : row'[b] = row[b],
             row'[a].status # "absent", row[a].pane => row'[a].pane,
             UNCHANGED <<alive, leaked>>,
             Watched(a)' = Watched(a) /\ pipe'[a] = step => AgentOK(a)'
      PROVE  IndInv'
  <2>1. Forward
    BY <1>3 DEF Forward
  <2> QED
    BY <1>1, <1>3, <2>1, PipeKeeps
<1> USE DEF AgentOK, Obliged, PipeAt, PipeGoes
<1>4. CASE CheckCancel(a)
  <2>1. PICK step \in {"bail", "calling"} : PipeGoes(a, step)
    BY <1>4 DEF CheckCancel
  <2>2. UNCHANGED <<row, alive, leaked>> /\ server = "up" /\ pipe[a] = "launch"
    BY <1>4 DEF CheckCancel
  <2>3. Watched(a)' = Watched(a) /\ pipe'[a] = step => AgentOK(a)'
    BY <1>1, <2>1, <2>2 DEF Live
  <2> QED
    BY <1>2, <2>1, <2>2, <2>3 DEF PipeSteps
<1>5. CASE StartPane(a)
  <2>1. row' = row /\ server = "up" /\ pipe[a] = "calling"
    BY <1>5 DEF StartPane
  <2>2. CASE PipeGoes(a, "naming") /\ alive' = alive \cup {a} /\ leaked' = leaked
    <3>1. Watched(a)' = Watched(a) /\ pipe'[a] = "naming" => AgentOK(a)'
      BY <1>1, <2>1, <2>2 DEF Live
    <3> QED
      BY <1>1, <1>2, <2>1, <2>2, <3>1 DEF PipeSteps
  <2>3. CASE PipeGoes(a, "failing") /\ alive' = alive /\ leaked' = leaked
    <3>1. Watched(a)' = Watched(a) /\ pipe'[a] = "failing" => AgentOK(a)'
      BY <1>1, <2>1, <2>3 DEF Live
    <3> QED
      BY <1>1, <1>2, <2>1, <2>3, <3>1 DEF PipeSteps
  <2>4. CASE PipeGoes(a, "failing") /\ alive' = alive \cup {a} /\ leaked' = leaked \cup {a}
    <3>1. Watched(a)' = Watched(a) /\ pipe'[a] = "failing" => AgentOK(a)'
      BY <1>1, <2>1, <2>4 DEF Live
    <3> QED
      BY <1>1, <1>2, <2>1, <2>4, <3>1 DEF PipeSteps
  <2> QED
    BY <1>5, <2>2, <2>3, <2>4 DEF StartPane
<1>13. CASE LabelPane(a)
  <2>1. /\ PipeMoves(a, "started") /\ UNCHANGED <<row, alive, leaked>>
        /\ server = "up" /\ pipe[a] = "naming"
    BY <1>13 DEF LabelPane
  <2>2. Watched(a)' = Watched(a) /\ pipe'[a] = "started" => AgentOK(a)'
    BY <1>1, <2>1 DEF Live
  <2> QED
    BY <1>2, <2>1, <2>2 DEF PipeSteps
<1>6. CASE PostStartRecheck(a)
  <2>1. row' = row /\ server = "up" /\ pipe[a] = "started"
    BY <1>6 DEF PostStartRecheck
  <2>2. CASE row[a].status = "starting" /\ ~row[a].cancel
    <3>1. PipeGoes(a, "record") /\ UNCHANGED <<alive, leaked>>
      BY <1>6, <2>2 DEF PostStartRecheck
    <3>2. Watched(a)' = Watched(a) /\ pipe'[a] = "record" => AgentOK(a)'
      BY <1>1, <2>1, <2>2, <3>1 DEF Live
    <3> QED
      BY <1>1, <1>2, <2>1, <3>1, <3>2 DEF PipeSteps
  <2>3. CASE ~(row[a].status = "starting" /\ ~row[a].cancel)
    <3>1. /\ PipeGoes(a, "bail")
          /\ \/ alive' = alive \ {a} /\ leaked' = leaked
             \/ alive' = alive /\ leaked' = leaked \cup ({a} \cap alive)
      BY <1>6, <2>3 DEF PostStartRecheck
    <3>2. Watched(a)' = Watched(a) /\ pipe'[a] = "bail" => AgentOK(a)'
      BY <1>1, <2>1, <3>1 DEF Live
    <3> QED
      BY <1>1, <1>2, <2>1, <3>1, <3>2 DEF PipeSteps
  <2> QED
    BY <2>2, <2>3
<1>7. CASE RecordLocation(a)
  <2>1. /\ PipeGoes(a, "recorded") /\ server = "up" /\ pipe[a] = "record"
        /\ UNCHANGED <<alive, leaked>>
    BY <1>7 DEF RecordLocation
  <2>2. /\ row' \in [Agents -> Rows] /\ \A b \in Agents \ {a} : row'[b] = row[b]
        /\ row'[a].status = row[a].status /\ row'[a].pane /\ row'[a].cancel = row[a].cancel
    <3> DEFINE r == [row[a] EXCEPT !.pane = TRUE]
    <3>1. r \in Rows /\ r.status = row[a].status /\ r.pane /\ r.cancel = row[a].cancel
      BY <1>1 DEF Rows
    <3>2. row' = [row EXCEPT ![a] = r]
      BY <1>7 DEF RecordLocation
    <3> HIDE DEF r
    <3> QED
      BY <1>1, <3>1, <3>2, Writes
  <2>3. Watched(a)' = Watched(a) /\ pipe'[a] = "recorded" => AgentOK(a)'
    BY <1>1, <2>1, <2>2 DEF Live
  <2>4. row[a].status # "absent"
    BY <1>1, <2>1
  <2> QED
    BY <1>1, <1>3, <2>1, <2>2, <2>3, <2>4 DEF PipeSteps
<1>8. CASE BailCheck(a)
  <2>1. row' = row /\ server = "up" /\ pipe[a] \in {"recorded", "void"}
    BY <1>8 DEF BailCheck
  <2>2. CASE row[a].cancel
    <3>1. /\ PipeGoes(a, "bail")
          /\ \/ alive' = alive \ {a} /\ leaked' = leaked
             \/ alive' = alive /\ leaked' = leaked \cup ({a} \cap alive)
      BY <1>8, <2>2 DEF BailCheck
    <3>2. Watched(a)' = Watched(a) /\ pipe'[a] = "bail" => AgentOK(a)'
      BY <1>1, <2>1, <3>1 DEF Live
    <3> QED
      BY <1>1, <1>2, <2>1, <3>1, <3>2 DEF PipeSteps
  <2>3. CASE ~row[a].cancel
    <3>1. PICK step \in {"none", "deliver"} : PipeGoes(a, step)
      BY <1>8, <2>3 DEF BailCheck
    <3>2. UNCHANGED <<alive, leaked>>
      BY <1>8, <2>3 DEF BailCheck
    <3>3. Watched(a)' = Watched(a) /\ pipe'[a] = step => AgentOK(a)'
      BY <1>1, <2>1, <2>3, <3>1, <3>2 DEF Live
    <3> QED
      BY <1>1, <1>2, <2>1, <3>1, <3>2, <3>3 DEF PipeSteps
  <2> QED
    BY <2>2, <2>3
<1>9. CASE Deliver(a)
  <2>1. server = "up" /\ pipe[a] = "deliver" /\ UNCHANGED <<alive, leaked>>
    BY <1>9 DEF Deliver
  <2>2. CASE PipeGoes(a, "void") /\ row' = row
    <3>1. Watched(a)' = Watched(a) /\ pipe'[a] = "void" => AgentOK(a)'
      BY <1>1, <2>1, <2>2 DEF Live
    <3> QED
      BY <1>1, <1>2, <2>1, <2>2, <3>1 DEF PipeSteps
  <2>3. ASSUME NEW step \in {"sending", "none"}, NEW s \in {"working", "idle"},
               PipeGoes(a, step), SetStatus(a, s)
        PROVE  IndInv'
    <3>1. /\ row' \in [Agents -> Rows] /\ \A b \in Agents \ {a} : row'[b] = row[b]
          /\ row'[a].status = s /\ row'[a].pane = row[a].pane /\ row'[a].cancel = row[a].cancel
      BY <1>1, <2>3, StatusSet DEF Live
    <3>2. Watched(a)' = Watched(a) /\ pipe'[a] = step => AgentOK(a)'
      BY <1>1, <2>1, <2>3, <3>1 DEF Live
    <3> QED
      BY <1>1, <1>3, <2>1, <2>3, <3>1, <3>2 DEF PipeSteps
  <2> QED
    BY <1>9, <2>2, <2>3 DEF Deliver
<1>10. CASE SendPrompt(a)
  <2>1. PICK step \in {"none", "failing"} : PipeGoes(a, step)
    BY <1>10 DEF SendPrompt
  <2>2. UNCHANGED <<row, alive, leaked>> /\ server = "up" /\ pipe[a] = "sending"
    BY <1>10 DEF SendPrompt
  <2>3. Watched(a)' = Watched(a) /\ pipe'[a] = step => AgentOK(a)'
    BY <1>1, <2>1, <2>2 DEF Live
  <2> QED
    BY <1>1, <1>2, <2>1, <2>2, <2>3 DEF PipeSteps
<1>11. CASE ClosePipelinePane(a)
  <2>1. row' = row /\ server = "up" /\ pipe[a] = "failing"
    BY <1>11 DEF ClosePipelinePane
  <2>2. CASE row[a].cancel
    <3>1. PipeGoes(a, "none") /\ UNCHANGED <<alive, leaked>>
      BY <1>11, <2>2 DEF ClosePipelinePane
    <3>2. Watched(a)' = Watched(a) /\ pipe'[a] = "none" => AgentOK(a)'
      BY <1>1, <2>1, <2>2, <3>1 DEF Live
    <3> QED
      BY <1>1, <1>2, <2>1, <3>1, <3>2 DEF PipeSteps
  <2>3. CASE ~row[a].cancel
    <3>1. /\ PipeGoes(a, "fail")
          /\ \/ alive' = (IF row[a].pane THEN alive \ {a} ELSE alive) /\ leaked' = leaked
             \/ alive' = alive /\ leaked' = leaked \cup ({a} \cap alive)
      BY <1>11, <2>3 DEF ClosePipelinePane
    <3>2. Watched(a)' = Watched(a) /\ pipe'[a] = "fail" => AgentOK(a)'
      BY <1>1, <2>1, <3>1 DEF Live
    <3> QED
      BY <1>1, <1>2, <2>1, <3>1, <3>2 DEF PipeSteps
  <2> QED
    BY <2>2, <2>3
<1>12. CASE FailRow(a) \/ Bail(a)
  <2>1. /\ PipeGoes(a, "none") /\ server = "up" /\ pipe[a] \in {"fail", "bail"}
        /\ UNCHANGED <<alive, leaked>>
    BY <1>12 DEF FailRow, Bail
  <2>2. CASE row' = row
    <3>1. Watched(a)' = Watched(a) /\ pipe'[a] = "none" => AgentOK(a)'
      BY <1>1, <2>1, <2>2 DEF Live
    <3> QED
      BY <1>1, <1>2, <2>1, <2>2, <3>1 DEF PipeSteps
  <2>3. CASE End(a, "failed") \/ End(a, "canceled")
    <3>1. /\ row' \in [Agents -> Rows] /\ \A b \in Agents \ {a} : row'[b] = row[b]
          /\ row'[a].status = "ended" /\ row'[a].pane = row[a].pane
      BY <1>1, <2>3, Ends DEF ExitReasons
    <3>2. Watched(a)' = Watched(a) /\ pipe'[a] = "none" => AgentOK(a)'
      BY <1>1, <2>1, <3>1 DEF Live
    <3> QED
      BY <1>1, <1>3, <2>1, <3>1, <3>2 DEF PipeSteps
  <2> QED
    BY <1>12, <2>2, <2>3 DEF FailRow, Bail
<1> QED
  BY <1>4, <1>5, <1>6, <1>7, <1>8, <1>9, <1>10, <1>11, <1>12, <1>13 DEF PipelineStep

-----------------------------------------------------------------------------
\* A step of a row-ending thread t on the agent a it is at work on.
LEMMA EnderKeeps ==
  ASSUME IndInv, TypeOK', NEW a \in Agents, NEW t \in Threads, NEW w \in Enders, EnderGoes(t, w),
         server = "up", ender[t] \in Works => ender[t].agent = a,
         Forward, \A b \in Agents \ {a} : row'[b] = row[b], alive' \subseteq alive,
         w \in Works => /\ w.agent = a /\ row'[a].status # "absent"
                        /\ w.pane => row'[a].pane
                        /\ w.pc = "end" /\ w.pane => a \notin alive' \/ a \in leaked',
         /\ w \in Works /\ w.pc \in {"close", "end"} => Watched(a)'
         /\ (ender[t] \in Works => ender[t].pc \notin {"close", "end"}) => (Watched(a) => Watched(a)')
         /\ pipe'[a] = pipe[a]
         => AgentOK(a)'
  PROVE  IndInv'
<1>1. ender'[t] = w /\ \A u \in Threads \ {t} : ender'[u] = ender[u]
  BY EnderWrites DEF IndInv
<1>2. UNCHANGED <<pipe, recon, seen, server>>
  BY DEF EnderGoes
<1>3. ASSUME NEW b \in Agents \ {a}, Watched(b) PROVE Watched(b)'
  <2>1. PICK u \in Threads : ender[u] \in Works /\ ender[u].agent = b /\ ender[u].pc \in {"close", "end"}
    BY <1>3 DEF Watched
  <2>2. ender'[u] = ender[u]
    BY <1>1, <2>1
  <2> QED
    BY <2>1, <2>2 DEF Watched
<1>4. w \in Works /\ w.pc \in {"close", "end"} => Watched(a)'
  BY <1>1 DEF Watched
<1>5. (ender[t] \in Works => ender[t].pc \notin {"close", "end"}) => (Watched(a) => Watched(a)')
  <2> SUFFICES ASSUME ender[t] \in Works => ender[t].pc \notin {"close", "end"}, Watched(a)
               PROVE  Watched(a)'
    OBVIOUS
  <2>1. PICK u \in Threads : ender[u] \in Works /\ ender[u].agent = a /\ ender[u].pc \in {"close", "end"}
    BY DEF Watched
  <2>2. ender'[u] = ender[u]
    BY <1>1, <2>1
  <2> QED
    BY <2>1, <2>2 DEF Watched
<1>6. ASSUME NEW b \in Agents PROVE AgentOK(b)'
  <2>1. CASE b = a
    BY <1>2, <1>4, <1>5, <2>1
  <2>2. CASE b # a
    <3>1. PassesBy(b)
      BY <1>2, <1>3, <2>2 DEF PassesBy
    <3> QED
      BY <3>1, AgentKept DEF IndInv, Forward
  <2> QED
    BY <2>1, <2>2
<1>7. ASSUME NEW u \in Threads PROVE ThreadOK(u)'
  <2>1. CASE u = t
    BY <1>1, <2>1 DEF ThreadOK
  <2>2. CASE u # t
    BY <1>1, <2>2, ThreadKept
  <2> QED
    BY <2>1, <2>2
<1>8. recon = Idle \/ recon.pc # "recover"
  BY DEF IndInv, ServerOK
<1>9. ReconOK' /\ MonitorOK'
  BY <1>2, <1>8, ListsKept
<1>10. ServerOK'
  BY <1>2, <1>8 DEF ServerOK
<1> QED
  BY <1>6, <1>7, <1>9, <1>10 DEF IndInv

\* A thread at rest is not at work.
LEMMA NoWorks == Idle \notin Works /\ Done \notin Works
BY DEF Idle, Done, Works

\* The reads that start such a thread's work.
LEMMA ReadsKeep ==
  ASSUME IndInv, NEW a \in Agents,
         TimeoutRead(a) \/ StuckRead(a) \/ \E t \in Killers : KillRead(t, a)
  PROVE  IndInv'
<1>1. TypeOK /\ TypeOK' /\ AgentOK(a)
  BY ListenerType DEF IndInv
<1>2. UNCHANGED <<row, alive, leaked>> /\ server = "up"
  BY DEF TimeoutRead, StuckRead, KillRead
<1>3. \E t \in Threads, w \in Enders :
        /\ EnderGoes(t, w) /\ ender[t] = Idle
        /\ w \in Works => /\ w.agent = a /\ row[a].status # "absent"
                          /\ w.pane = row[a].pane
                          /\ w.pc = "end" => ~w.pane
  <2>1. CASE TimeoutRead(a)
    <3> DEFINE w == Work("close", a, "timeout", TRUE)
    <3>1. w \in Works /\ w.agent = a /\ w.pane = row[a].pane /\ w.pc = "close"
      BY RowShape DEF IndInv, Work, Works, ExitReasons, Rows
    <3>2. EnderGoes("gc", w) /\ ender["gc"] = Idle /\ row[a].status # "absent"
      BY <2>1 DEF TimeoutRead
    <3> HIDE DEF w
    <3> QED
      BY <3>1, <3>2 DEF Threads, Enders
  <2>2. CASE StuckRead(a)
    <3> DEFINE w == Work("end", a, "failed", FALSE)
    <3>1. w \in Works /\ w.agent = a /\ w.pane = row[a].pane
      BY RowShape DEF IndInv, Work, Works, ExitReasons, Rows
    <3>2. EnderGoes("queue", w) /\ ender["queue"] = Idle /\ row[a].status # "absent" /\ ~row[a].pane
      BY <2>2 DEF StuckRead
    <3> HIDE DEF w
    <3> QED
      BY <3>1, <3>2 DEF Threads, Enders
  <2>3. ASSUME NEW t \in Killers, KillRead(t, a)
        PROVE  \E w \in Enders :
                 /\ EnderGoes(t, w) /\ ender[t] = Idle
                 /\ w \in Works => /\ w.agent = a /\ row[a].status # "absent"
                                   /\ w.pane = row[a].pane
                                   /\ w.pc = "end" => ~w.pane
    <3>1. KillWork(a) \in Enders
      BY <1>1, KillWorks DEF Enders
    <3> QED
      BY <1>1, <2>3, <3>1, KillWorks DEF KillRead
  <2> QED
    BY <2>1, <2>2, <2>3 DEF Threads
<1>4. PICK t \in Threads, w \in Enders :
        /\ EnderGoes(t, w) /\ ender[t] = Idle
        /\ w \in Works => /\ w.agent = a /\ row[a].status # "absent"
                          /\ w.pane = row[a].pane
                          /\ w.pc = "end" => ~w.pane
  BY <1>3
<1>5. Forward
  BY <1>2 DEF Forward
<1>6. ender[t] \notin Works
  BY <1>4, NoWorks
<1>7. (Watched(a) => Watched(a)') /\ pipe'[a] = pipe[a] => AgentOK(a)'
  BY <1>1, <1>2 DEF AgentOK, Obliged
<1> QED
  BY <1>1, <1>2, <1>4, <1>5, <1>6, <1>7, EnderKeeps

\* The steps of kills, timeouts and stuck-starts.
LEMMA EndersKeep ==
  ASSUME IndInv, NEW t \in Threads, EnderStep(t)
  PROVE  IndInv'
<1> DEFINE a == ender[t].agent
<1>1. /\ ender[t] \in Works /\ a \in Agents /\ TypeOK /\ TypeOK' /\ ender[t].why \in ExitReasons
      /\ ender[t].pane \in BOOLEAN
  <2>1. TypeOK /\ TypeOK'
    BY EnderType DEF IndInv
  <2>2. ender[t] \in Works
    BY <2>1 DEF TypeOK, EnderStep, KillDequeue, KillCancel, ClosePane, EndRow, Works, Idle, Done
  <2> QED
    BY <2>1, <2>2 DEF Works
<1>2. server = "up" /\ AgentOK(a) /\ ThreadOK(t)
  BY <1>1 DEF IndInv, ServerOK
<1> HIDE DEF a
<1>3. PICK c \in Agents : c = a
  BY <1>1
<1>4. /\ row[c].status # "absent" /\ ender[t].agent = c /\ AgentOK(c)
      /\ ender[t].pane => row[c].pane
      /\ ender[t].pc = "end" /\ ender[t].pane => c \notin alive \/ c \in leaked
  BY <1>1, <1>2, <1>3 DEF ThreadOK, a
<1>5. CASE KillDequeue(t) /\ row[c].status = "queued"
  <2>1. End(c, "canceled") /\ EnderGoes(t, Done) /\ UNCHANGED <<alive, leaked>> /\ ender[t].pc = "dequeue"
    BY <1>4, <1>5 DEF KillDequeue
  <2>2. /\ \A b \in Agents \ {c} : row'[b] = row[b]
        /\ row'[c].status = "ended" /\ row'[c].pane = row[c].pane
    BY <1>1, <2>1, Ends DEF ExitReasons
  <2>3. Forward
    BY <2>1, <2>2 DEF Forward
  <2>4. pipe'[c] = pipe[c] => AgentOK(c)'
    BY <1>4, <1>5, <2>1, <2>2 DEF AgentOK, Live
  <2> QED
    BY <1>1, <1>2, <1>4, <2>1, <2>2, <2>3, <2>4, NoWorks, EnderKeeps DEF Enders
<1>6. CASE KillDequeue(t) /\ row[c].status # "queued"
  <2>1. UNCHANGED <<row, alive, leaked>> /\ EnderGoes(t, KillWork(c)) /\ ender[t].pc = "dequeue"
    BY <1>4, <1>6 DEF KillDequeue
  <2>2. PICK w \in Enders : /\ EnderGoes(t, w)
                            /\ w \in Works => w.agent = c /\ w.pane = row[c].pane /\ w.pc # "end"
    <3>1. KillWork(c) \in Enders
      BY <1>1, KillWorks DEF Enders
    <3> QED
      BY <1>1, <2>1, <3>1, KillWorks
  <2>3. Forward
    BY <2>1 DEF Forward
  <2>4. (Watched(c) => Watched(c)') /\ pipe'[c] = pipe[c] => AgentOK(c)'
    BY <1>4, <2>1 DEF AgentOK, Obliged
  <2> QED
    BY <1>1, <1>2, <1>4, <2>1, <2>2, <2>3, <2>4, EnderKeeps
<1>7. CASE KillCancel(t)
  <2>1. UNCHANGED <<alive, leaked>> /\ ender[t].pc = "cancel"
    BY <1>7 DEF KillCancel
  <2>2. PICK w \in Works : EnderGoes(t, w) /\ w.pc = "close" /\ w.agent = c /\ w.pane = ender[t].pane
    <3> DEFINE w == [ender[t] EXCEPT !.pc = "close"]
    <3>1. w \in Works /\ w.pc = "close" /\ w.agent = c /\ w.pane = ender[t].pane
      BY <1>1, <1>4 DEF Works
    <3>2. EnderGoes(t, w)
      BY <1>7 DEF KillCancel
    <3> HIDE DEF w
    <3> QED
      BY <3>1, <3>2
  <2>3. /\ \A b \in Agents \ {c} : row'[b] = row[b]
        /\ row'[c].status = row[c].status /\ row'[c].pane = row[c].pane
    <3> DEFINE r == [row[c] EXCEPT !.cancel = TRUE]
    <3>1. r \in Rows /\ r.status = row[c].status /\ r.pane = row[c].pane
      <4>1. row[c] \in Rows
        BY <1>1, RowShape
      <4> QED
        BY <4>1 DEF Rows
    <3>2. row' = [row EXCEPT ![c] = r]
      BY <1>4, <1>7 DEF KillCancel
    <3> HIDE DEF r
    <3> QED
      BY <1>1, <3>1, <3>2, Writes
  <2>4. Forward
    BY <2>1, <2>3 DEF Forward
  <2>5. Watched(c)' /\ pipe'[c] = pipe[c] => AgentOK(c)'
    BY <1>4, <2>1, <2>3 DEF AgentOK
  <2> QED
    BY <1>1, <1>2, <1>4, <2>1, <2>2, <2>3, <2>4, <2>5, EnderKeeps DEF Enders
<1>8. CASE ClosePane(t)
  <2>1. /\ row' = row /\ ender[t].pc = "close"
        /\ \/ alive' = (IF ender[t].pane THEN alive \ {c} ELSE alive) /\ leaked' = leaked
           \/ alive' = alive /\ leaked' = leaked \cup ({c} \cap alive)
    BY <1>4, <1>8 DEF ClosePane
  <2>2. PICK w \in Works : EnderGoes(t, w) /\ w.pc = "end" /\ w.agent = c /\ w.pane = ender[t].pane
    <3> DEFINE w == [ender[t] EXCEPT !.pc = "end", !.lock = ender[t].why # "canceled"]
    <3>1. w \in Works /\ w.pc = "end" /\ w.agent = c /\ w.pane = ender[t].pane
      BY <1>1, <1>4 DEF Works
    <3>2. EnderGoes(t, w)
      BY <1>8 DEF ClosePane
    <3> HIDE DEF w
    <3> QED
      BY <3>1, <3>2
  <2>3. Forward
    BY <2>1 DEF Forward
  <2>4. Watched(c)' /\ pipe'[c] = pipe[c] => AgentOK(c)'
    BY <1>4, <2>1 DEF AgentOK
  <2>5. w.pane => c \notin alive' \/ c \in leaked'
    BY <2>1, <2>2
  <2> QED
    BY <1>1, <1>2, <1>4, <2>1, <2>2, <2>3, <2>4, <2>5, EnderKeeps DEF Enders
<1>9. CASE EndRow(t)
  <2>1. /\ End(c, ender[t].why) /\ EnderGoes(t, Rest(t)) /\ alive' = alive
        /\ leaked' = IF ender[t].pane \/ Obliged(c) \/ pipe[c] \in {"naming", "started"}
                     THEN leaked ELSE leaked \cup ({c} \cap alive)
        /\ ender[t].pc = "end"
    BY <1>4, <1>9 DEF EndRow
  <2>2. PICK w \in Enders : EnderGoes(t, w) /\ w \notin Works
    BY <2>1, NoWorks DEF Rest, Enders
  <2>3. /\ \A b \in Agents \ {c} : row'[b] = row[b]
        /\ row'[c].status = "ended" /\ row'[c].pane = row[c].pane /\ row'[c].cancel = row[c].cancel
    BY <1>1, <2>1, Ends
  <2>4. Forward
    BY <2>1, <2>3 DEF Forward
  <2>5. pipe'[c] = pipe[c] => AgentOK(c)'
    BY <1>4, <2>1, <2>3 DEF AgentOK, Obliged, Live
  <2> QED
    BY <1>1, <1>2, <1>4, <2>1, <2>2, <2>3, <2>4, <2>5, EnderKeeps
<1> QED
  BY <1>5, <1>6, <1>7, <1>8, <1>9 DEF EnderStep

-----------------------------------------------------------------------------
\* A step of neither: no thread's work changes.
LEMMA StepKeeps ==
  ASSUME IndInv, TypeOK', Forward, ender' = ender,
         \A b \in Agents : PassesBy(b) \/ AgentOK(b)',
         ReconOK', MonitorOK', ServerOK'
  PROVE  IndInv'
<1>1. ASSUME NEW b \in Agents PROVE AgentOK(b)'
  BY AgentKept DEF IndInv, Forward
<1>2. ASSUME NEW t \in Threads PROVE ThreadOK(t)'
  BY ThreadKept
<1> QED
  BY <1>1, <1>2 DEF IndInv

\* Who watches an agent depends on these threads only.
LEMMA WatchedSame == ASSUME ender' = ender, NEW b PROVE Watched(b)' = Watched(b)
BY DEF Watched

\* A new row, and a promotion.
LEMMA AdmissionKeeps ==
  ASSUME IndInv, Promote \/ \E a \in Agents : Enqueue(a)
  PROVE  IndInv'
<1>1. TypeOK /\ TypeOK'
  BY EnqueueType, PromoteType DEF IndInv
<1>2. UNCHANGED <<alive, ender, recon, seen, server, leaked>> /\ server = "up"
  BY DEF Promote, Enqueue
<1>3. recon = Idle \/ recon.pc # "recover"
  BY <1>2 DEF IndInv, ServerOK
<1>4. ServerOK'
  BY <1>2, <1>3 DEF ServerOK
<1>5. ASSUME NEW a \in Agents, Enqueue(a) PROVE IndInv'
  <2>1. PICK b \in Agents :
          row' = [row EXCEPT ![a].status = "queued", ![a].queue_seq = row[b].queue_seq + 1]
    BY <1>5 DEF Enqueue
  <2>2. row[a].status = "absent" /\ pipe' = pipe
    BY <1>5 DEF Enqueue
  <2>3. /\ \A c \in Agents \ {a} : row'[c] = row[c]
        /\ row'[a].status = "queued" /\ row'[a].pane = row[a].pane /\ row'[a].cancel = row[a].cancel
    <3> DEFINE r == [row[a] EXCEPT !.status = "queued", !.queue_seq = row[b].queue_seq + 1]
    <3>1. row[a] \in Rows /\ row[b].queue_seq + 1 \in Nat
      BY <1>1, RowShape DEF Rows
    <3>2. r \in Rows /\ r.status = "queued" /\ r.pane = row[a].pane /\ r.cancel = row[a].cancel
      BY <3>1 DEF Rows
    <3>3. row' = [row EXCEPT ![a] = r]
      BY <2>1
    <3> HIDE DEF r
    <3> QED
      BY <1>1, <3>2, <3>3, Writes
  <2>4. Forward
    BY <1>2, <2>2, <2>3 DEF Forward
  <2>5. AgentOK(a)'
    BY <1>2, <2>2, <2>3 DEF IndInv, AgentOK, Live
  <2>6. \A c \in Agents \ {a} : PassesBy(c)
    BY <1>2, <2>2, <2>3, WatchedSame DEF PassesBy
  <2> QED
    BY <1>1, <1>2, <1>3, <1>4, <2>4, <2>5, <2>6, ListsKept, StepKeeps
<1>6. CASE Promote
  <2>1. PICK S \in SUBSET Queue!Queued :
          /\ row' = [b \in Agents |->
               IF b \in S THEN [row[b] EXCEPT !.status = "starting"] ELSE row[b]]
          /\ pipe' = [b \in Agents |-> IF b \in S THEN "launch" ELSE pipe[b]]
    BY <1>6 DEF Promote
  <2>2. \A b \in S : b \in Agents /\ row[b].status = "queued"
    BY <2>1 DEF Queue!Queued
  <2>3. \A b \in Agents \ S : row'[b] = row[b] /\ pipe'[b] = pipe[b]
    BY <2>1, <1>1 DEF TypeOK
  <2>4. ASSUME NEW b \in S
        PROVE  /\ row'[b].status = "starting" /\ row'[b].pane = row[b].pane
               /\ row'[b].cancel = row[b].cancel /\ pipe'[b] = "launch"
    <3>1. row[b] \in Rows
      BY <1>1, <2>2, RowShape
    <3> QED
      BY <2>1, <2>2, <3>1 DEF Rows
  <2>5. Forward
    <3>1. ASSUME NEW b \in Agents
          PROVE  /\ row[b].status # "absent" => row'[b].status # "absent"
                 /\ row[b].pane => row'[b].pane
      <4>1. CASE b \in S
        BY <2>4, <4>1
      <4>2. CASE b \notin S
        BY <2>3, <4>2
      <4> QED
        BY <4>1, <4>2
    <3> QED
      BY <1>2, <3>1 DEF Forward
  <2>6. ASSUME NEW b \in S PROVE AgentOK(b)'
    <3>1. b \in Agents /\ AgentOK(b)
      BY <2>2 DEF IndInv
    <3> QED
      BY <1>2, <2>2, <2>4, <3>1 DEF AgentOK, Live
  <2>7. \A b \in Agents \ S : PassesBy(b)
    BY <1>2, <2>3, WatchedSame DEF PassesBy
  <2> QED
    BY <1>1, <1>2, <1>3, <1>4, <2>5, <2>6, <2>7, ListsKept, StepKeeps
<1> QED
  BY <1>5, <1>6

\* The reconciler's writes, from a list that may be old.
LEMMA ReconKeeps ==
  ASSUME IndInv, ReconSnapshot \/ ReconStep
  PROVE  IndInv'
<1>1. TypeOK /\ TypeOK'
  BY ReconType DEF IndInv
<1>2. UNCHANGED <<alive, pipe, ender, seen, server, leaked>>
  BY DEF ReconSnapshot, ReconStep, ReconListActive, ReconLostOne, ReconVanishOne, ReconGoes
<1>3. server = "up"
  <2>1. server = "up" \/ recon.pc \in {"lost", "vanished"}
    BY DEF ReconSnapshot, ReconStep, ReconListActive, ReconLostOne, ReconVanishOne
  <2>2. Idle.pc = "idle"
    BY DEF Idle
  <2> QED
    BY <1>1, <2>1, <2>2 DEF IndInv, ServerOK, TypeOK
<1>4. CASE ReconSnapshot \/ ReconListActive
  <2>1. row' = row
    BY <1>4 DEF ReconSnapshot, ReconListActive
  <2>2. Forward /\ \A b \in Agents : PassesBy(b)
    BY <1>2, <2>1, WatchedSame DEF Forward, PassesBy
  <2>3. CASE ReconSnapshot
    <3>1. recon' = [pc |-> "lost", snap |-> alive, todo |-> {b \in Agents \ alive : row[b].status = "lost"}]
      BY <2>3 DEF ReconSnapshot, ReconGoes
    <3>2. ReconOK'
      BY <1>2, <2>1, <3>1 DEF IndInv, AgentOK, ReconOK
    <3>3. ServerOK'
      BY <1>2, <1>3, <3>1 DEF ServerOK
    <3> QED
      BY <1>1, <1>2, <2>2, <3>2, <3>3, ListsKept, StepKeeps
  <2>4. CASE ReconListActive
    <3> DEFINE gone == {b \in Agents \ recon.snap : row[b].status \in Live /\ row[b].pane}
    <3>1. recon' = Idle \/ recon' = [pc |-> "vanished", snap |-> recon.snap, todo |-> gone]
      BY <2>4 DEF ReconListActive, ReconGoes
    <3>2. ReconOK'
      BY <1>2, <2>1, <3>1 DEF ReconOK
    <3>3. ServerOK'
      BY <1>2, <1>3, <3>1 DEF ServerOK
    <3> QED
      BY <1>1, <1>2, <2>2, <3>2, <3>3, ListsKept, StepKeeps
  <2> QED
    BY <1>4, <2>3, <2>4
<1>5. ASSUME NEW a \in Agents, ReconLostOne(a) \/ ReconVanishOne(a) PROVE IndInv'
  <2>1. recon \in Recons /\ a \in recon.todo /\ recon.pc \in {"lost", "vanished"} /\ recon # Idle
    BY <1>1, <1>5 DEF ReconLostOne, ReconVanishOne, TypeOK, Recons, Idle
  <2>2. row[a].pane /\ AgentOK(a) /\ (recon.pc = "lost" => a \notin alive)
    BY <2>1 DEF IndInv, ReconOK
  <2>3. /\ \A b \in Agents \ {a} : row'[b] = row[b]
        /\ row'[a] = row[a] \/ row'[a].status \in {"ended", "lost"}
        /\ row'[a].pane = row[a].pane /\ row'[a].cancel = row[a].cancel
    <3>1. \/ row' = row \/ End(a, "lost")
          \/ row' = [row EXCEPT ![a].status = "lost", ![a].regained = FALSE]
      BY <1>5 DEF ReconLostOne, ReconVanishOne
    <3> QED
      BY <1>1, <3>1, Ends, LateWrites DEF ExitReasons
  <2>4. row'[a].status = "ended" => row'[a] = row[a] \/ recon.pc = "lost"
    <3>1. CASE ReconLostOne(a)
      BY <3>1 DEF ReconLostOne
    <3>2. CASE ReconVanishOne(a)
      <4>1. row' = row \/ row' = [row EXCEPT ![a].status = "lost", ![a].regained = FALSE]
        BY <3>2 DEF ReconVanishOne
      <4> QED
        BY <1>1, <4>1, LateWrites
    <3> QED
      BY <1>5, <3>1, <3>2
  <2>5. Forward
    <3>1. row[a].status # "absent" => row'[a].status # "absent"
      BY <2>3
    <3> QED
      BY <1>2, <2>3, <3>1 DEF Forward
  <2>6. Watched(a)' = Watched(a)
    BY <1>2, WatchedSame
  <2>7. AgentOK(a)'
    <3>1. CASE row'[a] = row[a]
      BY <1>2, <2>2, <2>6, <3>1 DEF AgentOK, Obliged
    <3>2. CASE row'[a] # row[a]
      BY <1>2, <2>2, <2>3, <2>4, <2>6, <3>2 DEF AgentOK, Obliged, Live
    <3> QED
      BY <3>1, <3>2
  <2>8. \A b \in Agents \ {a} : PassesBy(b)
    BY <1>2, <2>3, WatchedSame DEF PassesBy
  <2>9. PICK r \in Recons : /\ recon' = Idle \/ recon' = r
                            /\ r.pc = recon.pc /\ r.todo \subseteq recon.todo
    <3> DEFINE r == [recon EXCEPT !.todo = recon.todo \ {a}]
    <3>1. r \in Recons /\ r.pc = recon.pc /\ r.todo \subseteq recon.todo
      BY <2>1 DEF Recons
    <3>2. recon' = Idle \/ recon' = r
      BY <1>5 DEF ReconLostOne, ReconVanishOne, ReconGoes
    <3> HIDE DEF r
    <3> QED
      BY <3>1, <3>2
  <2>10. ReconOK'
    <3>1. recon.todo \subseteq Agents
      BY <2>1 DEF Recons
    <3> QED
      BY <1>2, <2>1, <2>5, <2>9, <3>1 DEF IndInv, ReconOK, Forward
  <2>11. ServerOK'
    BY <1>2, <1>3, <2>1, <2>9 DEF ServerOK
  <2> QED
    BY <1>1, <1>2, <2>5, <2>7, <2>8, <2>10, <2>11, ListsKept, StepKeeps
<1> QED
  BY <1>4, <1>5 DEF ReconStep

\* The monitor's late write, and a terminal that dies.
LEMMA MonitorKeeps ==
  ASSUME IndInv, MonitorRead \/ \E a \in Agents : MonitorDrive(a) \/ PaneDies(a)
  PROVE  IndInv'
<1>1. TypeOK
  BY DEF IndInv
<1>2. UNCHANGED <<pipe, ender, recon, server, leaked>> /\ alive' \subseteq alive
  BY DEF MonitorRead, MonitorDrive, PaneDies
<1>3. CASE MonitorRead \/ \E a \in Agents : PaneDies(a)
  <2>1. row' = row
    BY <1>3 DEF MonitorRead, PaneDies
  <2>2. TypeOK'
    BY <1>3, MonitorType DEF IndInv, PaneDies, TypeOK
  <2>3. Forward /\ \A b \in Agents : PassesBy(b)
    BY <1>2, <2>1, WatchedSame DEF Forward, PassesBy
  <2>4. MonitorOK'
    BY <1>3, <2>1 DEF IndInv, MonitorOK, MonitorRead, PaneDies
  <2>5. ServerOK'
    BY <1>2, <1>3 DEF IndInv, ServerOK, MonitorRead, PaneDies
  <2> QED
    BY <1>2, <2>1, <2>2, <2>3, <2>4, <2>5, ListsKept, StepKeeps
<1>4. ASSUME NEW a \in Agents, MonitorDrive(a) PROVE IndInv'
  <2>1. TypeOK' /\ a \in seen /\ seen' \subseteq seen /\ alive' = alive
    BY <1>1, <1>4, MonitorType DEF MonitorDrive
  <2>2. row[a].pane /\ AgentOK(a) /\ server = "up"
    BY <1>1, <2>1 DEF IndInv, MonitorOK, ServerOK
  <2>3. /\ \A b \in Agents \ {a} : row'[b] = row[b]
        /\ row'[a] = row[a] \/ row'[a].status = "blocked"
        /\ row'[a].pane = row[a].pane /\ row'[a].cancel = row[a].cancel
    <3> DEFINE g == row[a].regained \/ row[a].status \in {"ended", "lost"}
    <3>1. row' = row \/ row' = [row EXCEPT ![a].status = "blocked", ![a].regained = g]
      BY <1>4 DEF MonitorDrive
    <3>2. g \in BOOLEAN
      OBVIOUS
    <3> HIDE DEF g
    <3> QED
      BY <1>1, <3>1, <3>2, LateWrites
  <2>4. Forward
    BY <2>1, <2>3, <1>2 DEF Forward
  <2>5. AgentOK(a)'
    <3>1. Watched(a)' = Watched(a)
      BY <1>2, WatchedSame
    <3>2. CASE row'[a] = row[a]
      BY <1>2, <2>1, <2>2, <3>1, <3>2 DEF AgentOK, Obliged
    <3>3. CASE row'[a].status = "blocked"
      BY <1>2, <2>1, <2>2, <2>3, <3>3 DEF AgentOK, Live
    <3> QED
      BY <2>3, <3>2, <3>3
  <2>6. \A b \in Agents \ {a} : PassesBy(b)
    BY <1>2, <2>1, <2>3, WatchedSame DEF PassesBy
  <2>7. ServerOK'
    BY <1>2, <2>2 DEF IndInv, ServerOK
  <2>8. recon = Idle \/ recon.pc # "recover"
    BY <2>2 DEF IndInv, ServerOK
  <2> QED
    BY <1>2, <2>1, <2>4, <2>5, <2>6, <2>7, <2>8, ListsKept, StepKeeps
<1> QED
  BY <1>3, <1>4

\* A crash ends all threads; the terminals nobody owns any more are leaked.
LEMMA CrashKeeps == ASSUME IndInv, Crash PROVE IndInv'
<1>1. TypeOK' /\ row' = row /\ server' = "down" /\ recon' = Idle /\ seen' = {}
  BY RestartType DEF IndInv, Crash
<1>2. \A b \in Agents : pipe'[b] = "none"
  BY DEF Crash
<1>3. \A t \in Threads : ender'[t] \notin Works
  BY NoWorks DEF Crash, Rest
<1>4. /\ \A b \in alive' : b \in alive \/ (b \in Agents /\ pipe[b] = "calling")
      /\ leaked \subseteq leaked'
      /\ \A b \in alive' : row[b].status = "ended" => b \in leaked'
  BY DEF Crash
<1>5. ASSUME NEW b \in Agents PROVE AgentOK(b)'
  <2>1. AgentOK(b)
    BY DEF IndInv
  <2> QED
    BY <1>1, <1>2, <1>4, <2>1 DEF AgentOK
<1>6. \A t \in Threads : ThreadOK(t)'
  BY <1>3 DEF ThreadOK
<1>7. ReconOK' /\ MonitorOK' /\ ServerOK'
  BY <1>1, <1>2, <1>3 DEF ReconOK, MonitorOK, ServerOK
<1> QED
  BY <1>1, <1>5, <1>6, <1>7 DEF IndInv

\* The restart repair.
LEMMA RestartKeeps == ASSUME IndInv, RestartStep PROVE IndInv'
<1>1. TypeOK /\ TypeOK'
  BY RestartType DEF IndInv
<1>2. server \in {"down", "recovering"} /\ UNCHANGED <<pipe, ender, seen>>
  <2>1. CASE Restart \/ Serve
    BY <2>1 DEF Restart, Serve
  <2>2. ASSUME NEW a \in Agents, RecoverOne(a) PROVE server \in {"down", "recovering"}
    <3>1. recon.pc = "recover" /\ recon # Idle
      BY <2>2 DEF RecoverOne, Idle
    <3> QED
      BY <1>1, <3>1 DEF IndInv, ServerOK, TypeOK
  <2>3. ASSUME NEW a \in Agents, RecoverOne(a) PROVE UNCHANGED <<pipe, ender, seen>>
    BY <2>3 DEF RecoverOne
  <2> QED
    BY <2>1, <2>2, <2>3 DEF RestartStep
<1>3. /\ \A b \in Agents : pipe[b] = "none"
      /\ \A t \in Threads : ender[t] \notin Works
      /\ seen = {}
  BY <1>2 DEF IndInv, ServerOK
<1>4. CASE Restart \/ Serve
  <2>1. UNCHANGED <<row, alive, leaked>>
    BY <1>4 DEF Restart, Serve
  <2>2. Forward /\ \A b \in Agents : PassesBy(b)
    BY <1>2, <2>1, WatchedSame DEF Forward, PassesBy
  <2>3. CASE Restart
    <3> DEFINE rows == {b \in Agents : row[b].status \in Live \cup {"queued", "starting"}}
    <3>1. PICK todo \in {rows, {}} :
            \/ recon' = [pc |-> "recover", snap |-> alive, todo |-> todo]
            \/ HerdrFails /\ recon' = [pc |-> "recover", snap |-> {}, todo |-> todo]
      BY <2>3 DEF Restart
    <3>2. server' = "recovering" /\ recon' # Idle /\ recon'.pc = "recover" /\ recon'.todo = todo
      BY <2>3, <3>1 DEF Restart, Idle
    <3>3. ReconOK'
      BY <2>1, <3>1, <3>2 DEF ReconOK
    <3>4. ~HerdrFails => alive' \subseteq recon'.snap
      BY <2>1, <3>1
    <3>5. ServerOK'
      BY <1>2, <1>3, <3>2, <3>4 DEF ServerOK
    <3> QED
      BY <1>1, <1>2, <2>2, <3>3, <3>5, ListsKept, StepKeeps
  <2>4. CASE Serve
    <3>1. server' = "up" /\ recon' = Idle
      BY <2>4 DEF Serve
    <3>2. ReconOK' /\ ServerOK'
      BY <3>1 DEF ReconOK, ServerOK
    <3> QED
      BY <1>1, <1>2, <2>2, <3>2, ListsKept, StepKeeps
  <2> QED
    BY <1>4, <2>3, <2>4
<1>5. ASSUME NEW a \in Agents, RecoverOne(a) PROVE IndInv'
  <2>1. /\ recon # Idle /\ recon \in Recons /\ a \in recon.todo /\ recon.pc = "recover"
        /\ server' = server
    BY <1>1, <1>5 DEF RecoverOne, TypeOK, Recons, Idle
  <2>15. PICK closed \in SUBSET Orphans(a) :
           /\ closed = Orphans(a) \/ HerdrFails
           /\ alive' = IF row[a].pane THEN alive ELSE alive \ closed
    BY <1>5 DEF RecoverOne
  <2>2. server = "recovering" /\ (~HerdrFails => alive \subseteq recon.snap)
    BY <1>2, <2>1 DEF IndInv, ServerOK
  <2>3. AgentOK(a) /\ row[a].status \in Live \cup {"queued", "starting"}
    BY <2>1 DEF IndInv, ReconOK
  <2>4. leaked' = IF row'[a].status = "ended" /\ (HerdrFails \/ a \notin labelled)
                  THEN leaked \cup ({a} \cap alive') ELSE leaked
    BY <1>5 DEF RecoverOne
  <2>5. \/ row[a].pane /\ row' = row
        \/ row[a].pane /\ SetStatus(a, "working")
        \/ row[a].pane /\ row' = [row EXCEPT ![a].status = "lost", ![a].regained = FALSE]
        \/ End(a, "failed") /\ (a \notin recon.snap \/ ~row[a].pane)
    BY <1>5 DEF RecoverOne
  <2>6. /\ \A b \in Agents \ {a} : row'[b] = row[b]
        /\ row'[a].pane = row[a].pane
        /\ \/ row'[a] = row[a]
           \/ row'[a].status \in {"working", "lost"} /\ row[a].pane
           \/ row'[a].status = "ended" /\ (a \notin recon.snap \/ ~row[a].pane)
    <3>1. CASE row[a].pane /\ row' = row
      BY <3>1
    <3>2. CASE row[a].pane /\ SetStatus(a, "working")
      BY <1>1, <3>2, StatusSet DEF Live
    <3>3. CASE row[a].pane /\ row' = [row EXCEPT ![a].status = "lost", ![a].regained = FALSE]
      BY <1>1, <3>3, LateWrites
    <3>4. CASE End(a, "failed") /\ (a \notin recon.snap \/ ~row[a].pane)
      BY <1>1, <3>4, Ends DEF ExitReasons
    <3> QED
      BY <2>5, <3>1, <3>2, <3>3, <3>4
  <2>7. alive' \subseteq alive
    BY <2>15
  <2>8. Forward
    <3>1. row'[a].status # "absent"
      BY <2>3, <2>6 DEF Live
    <3> QED
      BY <2>4, <2>6, <2>7, <3>1 DEF Forward
  <2>9. row'[a].status = "ended" /\ a \in alive' => a \in leaked'
    <3> SUFFICES ASSUME row'[a].status = "ended", a \in alive' PROVE a \in leaked'
      OBVIOUS
    <3>1. CASE HerdrFails \/ a \notin labelled
      BY <2>4, <3>1
    <3>2. CASE ~HerdrFails /\ a \in labelled
      <4>1. a \in recon.snap
        BY <2>2, <2>7, <3>2
      <4>2. ~row[a].pane
        BY <2>3, <2>6, <4>1 DEF Live
      <4>3. a \in Orphans(a)
        BY <3>2, <4>1 DEF Orphans
      <4> QED
        BY <2>15, <3>2, <4>2, <4>3
    <3> QED
      BY <3>1, <3>2
  <2>10. AgentOK(a)'
    BY <1>2, <1>3, <2>3, <2>6, <2>7, <2>9 DEF AgentOK, Live
  <2>11. \A b \in Agents \ {a} : PassesBy(b)
    BY <1>2, <2>6, <2>7, WatchedSame, <1>5 DEF PassesBy, RecoverOne
  <2>12. /\ recon' # Idle /\ recon'.pc = "recover" /\ recon'.snap = recon.snap
         /\ recon'.todo = recon.todo \ {a}
    <3> DEFINE r == [recon EXCEPT !.todo = recon.todo \ {a}]
    <3>1. r.pc = "recover" /\ r.snap = recon.snap /\ r.todo = recon.todo \ {a}
      BY <2>1 DEF Recons
    <3>2. recon' = r
      BY <1>5 DEF RecoverOne
    <3> HIDE DEF r
    <3> QED
      BY <3>1, <3>2 DEF Idle
  <2>13. ReconOK'
    <3>1. recon.todo \subseteq Agents
      BY <2>1 DEF Recons
    <3> QED
      BY <2>1, <2>6, <2>12, <3>1 DEF IndInv, ReconOK
  <2>14. ServerOK'
    BY <1>2, <1>3, <2>1, <2>2, <2>7, <2>12 DEF ServerOK
  <2> QED
    BY <1>1, <1>2, <2>8, <2>10, <2>11, <2>13, <2>14, ListsKept, StepKeeps
<1> QED
  BY <1>4, <1>5 DEF RestartStep

-----------------------------------------------------------------------------
\* The rows, the panes and the threads' copies of them agree, whatever the
\* interleaving, the crashes and the calls herdr does not answer.
THEOREM RowsAndPanesAgree == Spec => []IndInv
<1>1. Init => IndInv
  <2> SUFFICES ASSUME Init PROVE IndInv
    OBVIOUS
  <2>1. TypeOK
    BY FaultAssumption DEF Init, TypeOK, ExitReasons, PipeSteps
  <2>2. \A a \in Agents : AgentOK(a)
    BY DEF Init, AgentOK, Live
  <2>3. \A t \in Threads : ThreadOK(t)
    BY NoWorks DEF Init, ThreadOK
  <2>4. ReconOK /\ MonitorOK /\ ServerOK
    BY DEF Init, ReconOK, MonitorOK, ServerOK
  <2> QED
    BY <2>1, <2>2, <2>3, <2>4 DEF IndInv
<1>2. IndInv /\ [Next]_vars => IndInv'
  <2> SUFFICES ASSUME IndInv, [Next]_vars PROVE IndInv'
    OBVIOUS
  <2>1. CASE UNCHANGED vars
    <3>1. \A a \in Agents : AgentOK(a)'
      BY <2>1 DEF vars, IndInv, AgentOK, Obliged, Watched
    <3>2. \A t \in Threads : ThreadOK(t)'
      BY <2>1 DEF vars, IndInv, ThreadOK
    <3>3. TypeOK' /\ ReconOK' /\ MonitorOK' /\ ServerOK'
      BY <2>1 DEF vars, IndInv, TypeOK, ReconOK, MonitorOK, ServerOK
    <3> QED
      BY <3>1, <3>2, <3>3 DEF IndInv
  <2> QED
    BY <2>1, AdmissionKeeps, PipelineKeeps, EndersKeep, ReadsKeep, ReconKeeps, MonitorKeeps,
       CrashKeeps, RestartKeeps DEF Next
<1> QED
  BY <1>1, <1>2, PTL DEF Spec

\* A row past `starting` that holds a slot names its terminal: the repair and
\* a later kill can reach it.
THEOREM LiveRowsHavePanes == Spec => []LiveRowHasPane
<1>1. IndInv => LiveRowHasPane
  BY DEF IndInv, AgentOK, LiveRowHasPane
<1> QED
  BY <1>1, RowsAndPanesAgree, PTL

\* A live terminal of an ended row is somebody's: the pipeline's, a row-ending
\* thread's, or one of the named windows'.
THEOREM LivePanesAccounted == Spec => []LivePaneAccounted
<1>1. ASSUME IndInv, NEW a \in alive, row[a].status = "ended", Watched(a)
      PROVE  \E t \in Busy : ender[t].agent = a
  BY <1>1, NoWorks DEF Watched, Busy
<1>2. IndInv => LivePaneAccounted
  BY <1>1 DEF IndInv, TypeOK, AgentOK, LivePaneAccounted
<1> QED
  BY <1>2, RowsAndPanesAgree, PTL

-----------------------------------------------------------------------------
\* The threads at work.
LEMMA BusyWorks == ASSUME TypeOK, NEW t \in Threads PROVE t \in Busy <=> ender[t] \in Works
BY NoWorks DEF TypeOK, Busy, Works

Locks(t, a) == ender[t] \in Works /\ ender[t].lock /\ ender[t].agent = a

LockInv ==
  /\ TypeOK /\ LockOK
  /\ \A t, u \in Threads, a \in Agents : Locks(t, a) /\ Locks(u, a) => t = u

\* One holder per lock is what the move lock promises.
LEMMA LockInvExcludes == LockInv => MoveLockExclusive
<1> SUFFICES ASSUME LockInv, NEW t \in Busy, NEW u \in Busy, t # u,
                    ender[t].lock, ender[u].lock, ender[t].agent = ender[u].agent
             PROVE  FALSE
  BY DEF MoveLockExclusive
<1>1. t \in Threads /\ u \in Threads /\ ender[t] \in Works /\ ender[u] \in Works
  BY BusyWorks DEF LockInv, Busy
<1>2. ender[t].agent \in Agents
  BY <1>1 DEF Works
<1>3. Locks(t, ender[t].agent) /\ Locks(u, ender[t].agent)
  BY <1>1 DEF Locks
<1> QED
  BY <1>1, <1>2, <1>3 DEF LockInv

\* A thread takes the lock of a only where it finds it free, or keeps its own.
LEMMA LockTaken ==
  ASSUME LockInv, TypeOK', NEW t \in Threads, NEW w \in Enders, EnderGoes(t, w),
         w \in Works => /\ w.pc = "cancel" => w.why = "canceled"
                        /\ w.pc = "close" => w.why \in {"killed", "lost", "canceled"} \/ w.lock
                        /\ w.lock => LockFree(w.agent) \/ Locks(t, w.agent)
  PROVE  LockInv'
<1>1. ender'[t] = w /\ \A u \in Threads \ {t} : ender'[u] = ender[u]
  BY EnderWrites DEF LockInv
<1>2. LockOK'
  BY <1>1 DEF LockInv, LockOK
<1>3. ASSUME NEW u \in Threads \ {t}, NEW a \in Agents, Locks(u, a)', Locks(t, a)'
      PROVE  FALSE
  <2>1. Locks(u, a) /\ w \in Works /\ w.lock /\ w.agent = a
    BY <1>1, <1>3 DEF Locks
  <2>2. u \in Busy
    BY <2>1, BusyWorks DEF LockInv, Locks
  <2>3. ~LockFree(a)
    BY <2>1, <2>2 DEF LockFree, Locks
  <2>4. Locks(t, a)
    BY <2>1, <2>3
  <2> QED
    BY <2>1, <2>4 DEF LockInv
<1>4. ASSUME NEW u \in Threads \ {t}, NEW v \in Threads \ {t}, NEW a \in Agents,
             Locks(u, a)', Locks(v, a)'
      PROVE  u = v
  <2>1. Locks(u, a) /\ Locks(v, a)
    BY <1>1, <1>4 DEF Locks
  <2> QED
    BY <2>1 DEF LockInv
<1> QED
  BY <1>2, <1>3, <1>4 DEF LockInv

\* Steps of other threads keep the locks.
LEMMA LockKept == ASSUME LockInv, TypeOK', ender' = ender PROVE LockInv'
BY DEF LockInv, LockOK, Locks

\* A kill starts without the lock.
LEMMA KillWorkLock ==
  ASSUME TypeOK, NEW a \in Agents, KillWork(a) \in Works
  PROVE  /\ KillWork(a).why \in {"canceled", "killed", "lost"} /\ ~KillWork(a).lock
         /\ KillWork(a).pc = "cancel" => KillWork(a).why = "canceled"
BY NoWorks DEF KillWork, Work, Live, TypeOK

\* Two threads never work on one agent under its move lock: the sweep takes it
\* before it reads the row again, a kill of a live or lost row waits for it.
THEOREM MoveLockExcludes == Spec => []MoveLockExclusive
<1>1. Init => LockInv
  BY NoWorks, FaultAssumption DEF Init, LockInv, LockOK, Locks, TypeOK, ExitReasons, PipeSteps
<1>2. LockInv /\ TypeOK' /\ [Next]_vars => LockInv'
  <2> SUFFICES ASSUME LockInv, TypeOK', [Next]_vars PROVE LockInv'
    OBVIOUS
  <2>1. TypeOK
    BY DEF LockInv
  <2>2. CASE \E a \in Agents : TimeoutRead(a) \/ StuckRead(a)
    <3>1. PICK a \in Agents : TimeoutRead(a) \/ StuckRead(a)
      BY <2>2
    <3>2. CASE TimeoutRead(a)
      <4> DEFINE w == Work("close", a, "timeout", TRUE)
      <4>1. w \in Works /\ w.lock /\ w.agent = a /\ w.pc = "close"
        BY <2>1, RowShape DEF Work, Works, ExitReasons, Rows
      <4>2. EnderGoes("gc", w) /\ LockFree(a)
        BY <3>2 DEF TimeoutRead
      <4> HIDE DEF w
      <4> QED
        BY <4>1, <4>2, LockTaken DEF Threads, Enders
    <3>3. CASE StuckRead(a)
      <4> DEFINE w == Work("end", a, "failed", FALSE)
      <4>1. w \in Works /\ ~w.lock /\ w.pc = "end"
        BY <2>1, RowShape DEF Work, Works, ExitReasons, Rows
      <4>2. EnderGoes("queue", w)
        BY <3>3 DEF StuckRead
      <4> HIDE DEF w
      <4> QED
        BY <4>1, <4>2, LockTaken DEF Threads, Enders
    <3> QED
      BY <3>1, <3>2, <3>3
  <2>3. ASSUME NEW t \in Threads, NEW a \in Agents, EnderGoes(t, KillWork(a)) PROVE LockInv'
    <3>1. PICK w \in Enders : /\ EnderGoes(t, w)
                              /\ w \in Works => /\ w.why \in {"canceled", "killed", "lost"} /\ ~w.lock
                                                /\ w.pc = "cancel" => w.why = "canceled"
      <4>1. KillWork(a) \in Enders
        BY <2>1, KillWorks DEF Enders
      <4> QED
        BY <2>1, <2>3, <4>1, KillWorkLock
    <3> QED
      BY <3>1, LockTaken
  <2>4. ASSUME NEW t \in Threads, EnderStep(t) PROVE LockInv'
    <3>1. ender[t] \in Works
      BY <2>1, <2>4 DEF TypeOK, EnderStep, KillDequeue, KillCancel, ClosePane, EndRow, Works, Idle, Done
    <3>2. /\ ender[t].agent \in Agents
          /\ ender[t].pc = "cancel" => ender[t].why = "canceled"
          /\ ender[t].pc = "close" =>
               ender[t].why \in {"killed", "lost", "canceled"} \/ ender[t].lock
      BY <3>1 DEF LockInv, LockOK, Works
    <3>3. CASE KillDequeue(t)
      <4>1. EnderGoes(t, Done) \/ EnderGoes(t, KillWork(ender[t].agent))
        BY <3>3 DEF KillDequeue
      <4>2. CASE EnderGoes(t, Done)
        BY <4>2, NoWorks, LockTaken DEF Enders
      <4> QED
        BY <2>3, <3>2, <4>1, <4>2
    <3>4. CASE KillCancel(t)
      <4> DEFINE w == [ender[t] EXCEPT !.pc = "close"]
      <4>1. w \in Works /\ w.why = ender[t].why /\ w.agent = ender[t].agent /\ w.lock = ender[t].lock
            /\ w.pc = "close"
        BY <3>1 DEF Works
      <4>2. EnderGoes(t, w) /\ ender[t].pc = "cancel"
        BY <3>4 DEF KillCancel
      <4> HIDE DEF w
      <4>3. w.lock => Locks(t, w.agent)
        BY <3>1, <4>1 DEF Locks
      <4> QED
        BY <3>2, <4>1, <4>2, <4>3, LockTaken DEF Enders
    <3>5. CASE ClosePane(t)
      <4> DEFINE w == [ender[t] EXCEPT !.pc = "end", !.lock = ender[t].why # "canceled"]
      <4>1. w \in Works /\ w.agent = ender[t].agent /\ w.pc = "end" /\ w.lock = (ender[t].why # "canceled")
        BY <3>1 DEF Works
      <4>2. /\ EnderGoes(t, w) /\ ender[t].pc = "close"
            /\ ender[t].why \in {"killed", "lost"} => LockFree(ender[t].agent)
        BY <3>5 DEF ClosePane
      <4> HIDE DEF w
      <4>3. w.lock => LockFree(w.agent) \/ Locks(t, w.agent)
        BY <3>1, <3>2, <4>1, <4>2 DEF Locks
      <4> QED
        BY <4>1, <4>2, <4>3, LockTaken DEF Enders
    <3>6. CASE EndRow(t)
      <4>1. EnderGoes(t, Idle) \/ EnderGoes(t, Done)
        BY <3>6 DEF EndRow, Rest
      <4> QED
        BY <4>1, NoWorks, LockTaken DEF Enders
    <3> QED
      BY <2>4, <3>3, <3>4, <3>5, <3>6 DEF EnderStep
  <2>5. CASE Crash
    <3>1. \A t \in Threads : ender'[t] \notin Works
      BY <2>5, NoWorks DEF Crash, Rest
    <3> QED
      BY <3>1 DEF LockInv, LockOK, Locks
  <2>6. CASE ender' = ender
    BY <2>6, LockKept
  <2>7. ASSUME NEW a \in Agents, PipelineStep(a) PROVE ender' = ender
    BY <2>7 DEF PipelineStep, CheckCancel, StartPane, LabelPane, PostStartRecheck, RecordLocation, BailCheck,
                Deliver, SendPrompt, ClosePipelinePane, FailRow, Bail, PipeGoes, PipeMoves
  <2>8. ASSUME NEW t \in Killers, NEW a \in Agents, KillRead(t, a) PROVE LockInv'
    BY <2>3, <2>8 DEF KillRead, Threads
  <2> QED
    BY <2>2, <2>4, <2>5, <2>6, <2>7, <2>8
       DEF Next, vars, Promote, ReconSnapshot, ReconStep, ReconListActive, ReconLostOne,
           ReconVanishOne, ReconGoes, MonitorRead, RestartStep, Restart, RecoverOne, Serve,
           Enqueue, MonitorDrive, PaneDies
<1> QED
  BY <1>1, <1>2, TypeCorrect, LockInvExcludes, PTL DEF Spec

-----------------------------------------------------------------------------
\* The refinement of AgentQueue: what a step of the threads is to the store.
St == [a \in Agents |-> row[a].status]

Seq == [a \in Agents |-> row[a].queue_seq]

Back == {a \in Agents : row[a].regained}

\* The refinement. A write of one row, as AgentQueue sees it.
LEMMA Projections ==
  ASSUME NEW a \in Agents, \A b \in Agents \ {a} : row'[b] = row[b]
  PROVE  /\ St' = [St EXCEPT ![a] = row'[a].status]
         /\ row'[a].queue_seq = row[a].queue_seq => Seq' = Seq
         /\ row'[a].regained => Back' = Back \cup {a}
         /\ ~row'[a].regained => Back' = Back \ {a}
         /\ row'[a].regained = row[a].regained => Back' = Back
<1>1. St' = [St EXCEPT ![a] = row'[a].status]
  BY DEF St
<1>2. row'[a].queue_seq = row[a].queue_seq => Seq' = Seq
  BY DEF Seq
<1>3. /\ row'[a].regained => Back' = Back \cup {a}
      /\ ~row'[a].regained => Back' = Back \ {a}
      /\ row'[a].regained = row[a].regained => Back' = Back
  BY DEF Back
<1> QED
  BY <1>1, <1>2, <1>3

\* A write it does not see.
LEMMA ToStutter ==
  ASSUME \A b \in Agents : /\ row'[b].status = row[b].status
                           /\ row'[b].queue_seq = row[b].queue_seq
                           /\ row'[b].regained = row[b].regained
  PROVE  UNCHANGED Queue!vars
<1>1. St' = St /\ Seq' = Seq
  BY DEF St, Seq
<1>2. Back' = Back
  BY DEF Back
<1> QED
  BY <1>1, <1>2 DEF Queue!vars, St, Seq, Back

\* A row that goes on holding its slot.
LEMMA ToProceed ==
  ASSUME NEW a \in Agents, \A b \in Agents \ {a} : row'[b] = row[b],
         row[a].status \in Queue!Held, row'[a].status \in Queue!Held,
         row'[a].queue_seq = row[a].queue_seq, row'[a].regained = row[a].regained
  PROVE  Queue!Proceed(a)
<1>1. St' = [St EXCEPT ![a] = row'[a].status] /\ Seq' = Seq
  BY Projections
<1>2. Back' = Back
  BY Projections
<1>3. St[a] \in Queue!Held
  BY DEF St
<1> QED
  BY <1>1, <1>2, <1>3 DEF Queue!Proceed, St, Seq, Back

\* A row that gives its slot up.
LEMMA ToLeave ==
  ASSUME NEW a \in Agents, \A b \in Agents \ {a} : row'[b] = row[b],
         row[a].status # "absent", row'[a].status \in {"ended", "lost"},
         row'[a].status = "lost" => MayBeActive(a),
         row'[a].queue_seq = row[a].queue_seq, ~row'[a].regained
  PROVE  Queue!Leave(a)
<1>1. St' = [St EXCEPT ![a] = row'[a].status] /\ Seq' = Seq
  BY Projections
<1>2. Back' = Back \ {a}
  BY Projections
<1>3. St[a] # "absent" /\ (row'[a].status = "lost" /\ St[a] = "ended" => Queue!PathFree(a))
  BY DEF St, MayBeActive
<1> QED
  BY <1>1, <1>2, <1>3 DEF Queue!Leave, St, Seq, Back

\* A late write that brings an ended row back.
LEMMA ToRegain ==
  ASSUME NEW a \in Agents, \A b \in Agents \ {a} : row'[b] = row[b],
         row[a].status \in {"ended", "lost"}, row'[a].status = "blocked", MayBeActive(a),
         row'[a].queue_seq = row[a].queue_seq, row'[a].regained
  PROVE  Queue!Regain(a)
<1>1. St' = [St EXCEPT ![a] = "blocked"] /\ Seq' = Seq
  BY Projections
<1>2. Back' = Back \cup {a}
  BY Projections
<1>3. St[a] \in {"ended", "lost"} /\ (St[a] = "ended" => Queue!PathFree(a))
  BY DEF St, MayBeActive
<1> QED
  BY <1>1, <1>2, <1>3 DEF Queue!Regain, St, Seq, Back

\* end_agent gives the slot up.
LEMMA EndLeaves ==
  ASSUME TypeOK, NEW a \in Agents, NEW why \in ExitReasons, End(a, why), row[a].status # "absent"
  PROVE  Queue!Leave(a)
BY Ends, ToLeave

\* An insert goes to the end of the line.
LEMMA ToEnqueue == ASSUME TypeOK, NEW a \in Agents, Enqueue(a) PROVE Queue!Enqueue(a)
<1>1. PICK b \in Agents :
        /\ Queue!LastInLine(b)
        /\ row' = [row EXCEPT ![a].status = "queued", ![a].queue_seq = row[b].queue_seq + 1]
  BY DEF Enqueue
<1>2. /\ \A c \in Agents \ {a} : row'[c] = row[c]
      /\ row'[a].status = "queued" /\ row'[a].queue_seq = row[b].queue_seq + 1
      /\ row'[a].regained = row[a].regained
  <2> DEFINE r == [row[a] EXCEPT !.status = "queued", !.queue_seq = row[b].queue_seq + 1]
  <2>1. row[a] \in Rows /\ row[b].queue_seq + 1 \in Nat
    BY RowShape DEF Rows
  <2>2. /\ r \in Rows /\ r.status = "queued" /\ r.queue_seq = row[b].queue_seq + 1
        /\ r.regained = row[a].regained
    BY <2>1 DEF Rows
  <2>3. row' = [row EXCEPT ![a] = r]
    BY <1>1
  <2> HIDE DEF r
  <2> QED
    BY <2>2, <2>3, Writes
<1>3. St' = [St EXCEPT ![a] = "queued"]
  BY <1>2, Projections
<1>4. Back' = Back
  BY <1>2, Projections
<1>5. Seq' = [Seq EXCEPT ![a] = Seq[b] + 1]
  BY <1>2 DEF Seq
<1>6. St[a] = "absent" /\ Queue!PathFree(a)
  BY DEF Enqueue, St
<1> QED
  BY <1>1, <1>3, <1>4, <1>5, <1>6 DEF Queue!Enqueue, St, Seq, Back

\* A promotion moves one batch.
LEMMA ToPromote == ASSUME TypeOK, Promote PROVE Queue!Promote
<1>1. PICK S \in (SUBSET Queue!Queued) \ {{}} :
        /\ Queue!Batch(S)
        /\ row' = [b \in Agents |-> IF b \in S THEN [row[b] EXCEPT !.status = "starting"] ELSE row[b]]
  BY DEF Promote
<1>2. ASSUME NEW b \in Agents
      PROVE  /\ row'[b].status = IF b \in S THEN "starting" ELSE row[b].status
             /\ row'[b].queue_seq = row[b].queue_seq
             /\ row'[b].regained = row[b].regained
  <2>1. row[b] \in Rows
    BY RowShape
  <2> QED
    BY <1>1, <2>1 DEF Rows
<1>3. St' = [a \in Agents |-> IF a \in S THEN "starting" ELSE St[a]]
  BY <1>2 DEF St
<1>4. Seq' = Seq
  BY <1>2 DEF Seq
<1>5. Back' = Back
  BY <1>2 DEF Back
<1> QED
  BY <1>1, <1>3, <1>4, <1>5 DEF Queue!Promote, St, Seq, Back

\* Every status past the queue holds a slot.
LEMMA HeldStatuses == Live \cup {"starting"} \subseteq Queue!Held
BY DEF Live, Queue!Held

\* The pipelines,
LEMMA PipelineMaps ==
  ASSUME IndInv, NEW a \in Agents, PipelineStep(a)
  PROVE  Queue!Proceed(a) \/ Queue!Leave(a) \/ UNCHANGED Queue!vars
<1>1. TypeOK /\ AgentOK(a) /\ row[a] \in Rows
  BY RowShape DEF IndInv
<1>2. pipe[a] # "none"
  BY DEF PipelineStep, CheckCancel, StartPane, LabelPane, PostStartRecheck, RecordLocation, BailCheck, Deliver,
         SendPrompt, ClosePipelinePane, FailRow, Bail, PipeAt
<1>3. row[a].status \notin {"absent", "queued"}
  BY <1>1, <1>2 DEF AgentOK
<1>4. \/ row' = row \/ row' = [row EXCEPT ![a].pane = TRUE]
      \/ End(a, "failed") \/ End(a, "canceled") \/ Deliver(a)
  BY DEF PipelineStep, CheckCancel, StartPane, LabelPane, PostStartRecheck, RecordLocation, BailCheck, SendPrompt,
         ClosePipelinePane, FailRow, Bail
<1>5. CASE row' = row
  BY <1>5, ToStutter
<1>6. CASE row' = [row EXCEPT ![a].pane = TRUE]
  <2> DEFINE r == [row[a] EXCEPT !.pane = TRUE]
  <2>1. /\ r \in Rows /\ r.status = row[a].status /\ r.queue_seq = row[a].queue_seq
        /\ r.regained = row[a].regained
    BY <1>1 DEF Rows
  <2>2. row' = [row EXCEPT ![a] = r]
    BY <1>6
  <2> HIDE DEF r
  <2> QED
    BY <1>1, <2>1, <2>2, Writes, ToStutter
<1>7. CASE End(a, "failed") \/ End(a, "canceled")
  BY <1>1, <1>3, <1>7, EndLeaves DEF ExitReasons
<1>8. CASE Deliver(a)
  <2>1. \/ row' = row
        \/ SetStatus(a, "working") /\ row[a].status \notin {"ended", "lost"}
        \/ SetStatus(a, "idle") /\ row[a].status = "starting"
    BY <1>8 DEF Deliver
  <2>2. ASSUME NEW s \in {"working", "idle"}, SetStatus(a, s), row[a].status \notin {"ended", "lost"}
        PROVE  Queue!Proceed(a)
    <3>1. row[a].status \in Queue!Held /\ s \in Queue!Held
      BY <1>1, <1>3, <2>2, HeldStatuses DEF Rows, Live
    <3> QED
      BY <1>1, <2>2, <3>1, StatusSet, ToProceed DEF Live
  <2> QED
    BY <1>5, <2>1, <2>2
<1> QED
  BY <1>4, <1>5, <1>6, <1>7, <1>8

\* the row-ending threads,
LEMMA EnderMaps ==
  ASSUME IndInv, NEW t \in Threads, EnderStep(t)
  PROVE  (\E a \in Agents : Queue!Leave(a)) \/ UNCHANGED Queue!vars
<1> DEFINE a == ender[t].agent
<1>1. TypeOK /\ ender[t] \in Works /\ a \in Agents /\ ender[t].why \in ExitReasons
  BY DEF IndInv, TypeOK, EnderStep, KillDequeue, KillCancel, ClosePane, EndRow, Works, Idle, Done
<1>2. row[a].status # "absent" /\ row[a] \in Rows
  BY <1>1, RowShape DEF IndInv, ThreadOK
<1>3. \/ row' = row \/ row' = [row EXCEPT ![a].cancel = TRUE]
      \/ End(a, "canceled") \/ End(a, ender[t].why)
  BY DEF EnderStep, KillDequeue, KillCancel, ClosePane, EndRow
<1> HIDE DEF a
<1>4. CASE row' = row
  BY <1>4, ToStutter
<1>5. CASE row' = [row EXCEPT ![a].cancel = TRUE]
  <2> DEFINE r == [row[a] EXCEPT !.cancel = TRUE]
  <2>1. /\ r \in Rows /\ r.status = row[a].status /\ r.queue_seq = row[a].queue_seq
        /\ r.regained = row[a].regained
    BY <1>2 DEF Rows
  <2>2. row' = [row EXCEPT ![a] = r]
    BY <1>5
  <2> HIDE DEF r
  <2> QED
    BY <1>1, <2>1, <2>2, Writes, ToStutter
<1>6. CASE End(a, "canceled") \/ End(a, ender[t].why)
  BY <1>1, <1>2, <1>6, EndLeaves DEF ExitReasons
<1> QED
  BY <1>3, <1>4, <1>5, <1>6

\* and the writers from old copies take steps of AgentQueue.
LEMMA LateMaps ==
  ASSUME IndInv, NEW a \in Agents,
         ReconLostOne(a) \/ ReconVanishOne(a) \/ MonitorDrive(a) \/ RecoverOne(a)
  PROVE  Queue!Proceed(a) \/ Queue!Leave(a) \/ Queue!Regain(a) \/ UNCHANGED Queue!vars
<1>1. TypeOK /\ AgentOK(a) /\ row[a] \in Rows
  BY RowShape DEF IndInv
<1>2. CASE row' = row
  BY <1>2, ToStutter
<1>3. CASE ReconLostOne(a) \/ ReconVanishOne(a)
  <2>1. recon # Idle /\ recon.pc \in {"lost", "vanished"} /\ a \in recon.todo
    BY <1>3 DEF ReconLostOne, ReconVanishOne, Idle
  <2>2. row[a].status # "absent"
    BY <1>1, <2>1 DEF IndInv, ReconOK, AgentOK
  <2>3. CASE End(a, "lost")
    BY <1>1, <2>2, <2>3, EndLeaves DEF ExitReasons
  <2>4. CASE MayBeActive(a) /\ row' = [row EXCEPT ![a].status = "lost", ![a].regained = FALSE]
    BY <1>1, <2>2, <2>4, LateWrites, ToLeave
  <2> QED
    BY <1>2, <1>3, <2>3, <2>4 DEF ReconLostOne, ReconVanishOne
<1>4. CASE MonitorDrive(a)
  <2> DEFINE g == row[a].regained \/ row[a].status \in {"ended", "lost"}
  <2>1. row[a].status \notin {"absent", "queued"}
    BY <1>1, <1>4 DEF IndInv, MonitorOK, MonitorDrive, AgentOK
  <2>2. \/ row' = row
        \/ MayBeActive(a) /\ row' = [row EXCEPT ![a].status = "blocked", ![a].regained = g]
    BY <1>4 DEF MonitorDrive
  <2>3. g \in BOOLEAN
    OBVIOUS
  <2>4. /\ row[a].status \in {"ended", "lost"} => g
        /\ row[a].status \notin {"ended", "lost"} => g = row[a].regained
    BY <1>1 DEF Rows
  <2> HIDE DEF g
  <2>5. CASE MayBeActive(a) /\ row' = [row EXCEPT ![a].status = "blocked", ![a].regained = g]
    <3>1. /\ \A b \in Agents \ {a} : row'[b] = row[b]
          /\ row'[a].status = "blocked" /\ row'[a].regained = g
          /\ row'[a].queue_seq = row[a].queue_seq
      BY <1>1, <2>3, <2>5, LateWrites
    <3>2. CASE row[a].status \in {"ended", "lost"}
      BY <2>4, <2>5, <3>1, <3>2, ToRegain
    <3>3. CASE row[a].status \notin {"ended", "lost"}
      <4>1. row[a].status \in Queue!Held /\ row'[a].status \in Queue!Held
        BY <1>1, <2>1, <3>1, <3>3, HeldStatuses DEF Rows, Live
      <4>2. row'[a].regained = row[a].regained
        BY <2>4, <3>1, <3>3
      <4> QED
        BY <3>1, <4>1, <4>2, ToProceed
    <3> QED
      BY <3>2, <3>3
  <2> QED
    BY <1>2, <2>2, <2>5
<1>5. CASE RecoverOne(a)
  <2>1. row[a].status \in Live \cup {"queued", "starting"}
    <3>1. recon # Idle /\ recon.pc = "recover" /\ a \in recon.todo
      BY <1>5 DEF RecoverOne, Idle
    <3> QED
      BY <3>1 DEF IndInv, ReconOK
  <2>2. row[a].status # "absent" /\ MayBeActive(a)
    BY <2>1 DEF MayBeActive, Live
  <2>3. \/ row' = row \/ End(a, "failed")
        \/ row[a].status = "starting" /\ SetStatus(a, "working")
        \/ row' = [row EXCEPT ![a].status = "lost", ![a].regained = FALSE]
    BY <1>5 DEF RecoverOne
  <2>4. CASE End(a, "failed")
    BY <1>1, <2>2, <2>4, EndLeaves DEF ExitReasons
  <2>5. CASE row[a].status = "starting" /\ SetStatus(a, "working")
    <3>1. row[a].status \in Queue!Held /\ "working" \in Queue!Held
      BY <2>5 DEF Queue!Held
    <3> QED
      BY <1>1, <2>5, <3>1, StatusSet, ToProceed DEF Live
  <2>6. CASE row' = [row EXCEPT ![a].status = "lost", ![a].regained = FALSE]
    BY <1>1, <2>2, <2>6, LateWrites, ToLeave
  <2> QED
    BY <1>2, <2>3, <2>4, <2>5, <2>6
<1> QED
  BY <1>3, <1>4, <1>5

\* Whatever the threads, the crashes and the restart repair do to the agents
\* table, it is a behaviour of the store's admission promise: so the caps, the
\* unique paths and the order of the queue, theorems of AgentQueue, are theirs.
THEOREM ThreadsKeepAdmission == Spec => ImplementsQueue
<1>1. Init => Queue!Init
  <2> SUFFICES ASSUME Init PROVE Queue!Init
    OBVIOUS
  <2>1. St = [a \in Agents |-> "absent"] /\ Seq = [a \in Agents |-> 0]
    BY DEF Init, St, Seq
  <2>2. Back = {}
    BY DEF Init, Back
  <2> QED
    BY <2>1, <2>2 DEF Queue!Init, St, Seq, Back
<1>2. IndInv /\ [Next]_vars => [Queue!Next]_(Queue!vars)
  <2> SUFFICES ASSUME IndInv, [Next]_vars PROVE Queue!Next \/ UNCHANGED Queue!vars
    OBVIOUS
  <2>1. TypeOK
    BY DEF IndInv
  <2>2. CASE row' = row
    BY <2>2, ToStutter
  <2>3. ASSUME NEW a \in Agents, Enqueue(a) PROVE Queue!Next
    BY <2>1, <2>3, ToEnqueue DEF Queue!Next
  <2>4. CASE Promote
    BY <2>1, <2>4, ToPromote DEF Queue!Next
  <2>5. ASSUME NEW a \in Agents, PipelineStep(a) PROVE Queue!Next \/ UNCHANGED Queue!vars
    BY <2>5, PipelineMaps DEF Queue!Next
  <2>6. ASSUME NEW t \in Threads, EnderStep(t) PROVE Queue!Next \/ UNCHANGED Queue!vars
    BY <2>6, EnderMaps DEF Queue!Next
  <2>7. ASSUME NEW a \in Agents,
               ReconLostOne(a) \/ ReconVanishOne(a) \/ MonitorDrive(a) \/ RecoverOne(a)
        PROVE  Queue!Next \/ UNCHANGED Queue!vars
    BY <2>7, LateMaps DEF Queue!Next
  <2> QED
    BY <2>2, <2>3, <2>4, <2>5, <2>6, <2>7
       DEF Next, vars, ReconSnapshot, ReconStep, ReconListActive, MonitorRead, Crash, RestartStep,
           Restart, Serve, PaneDies, TimeoutRead, StuckRead, KillRead
<1> QED
  BY <1>1, <1>2, RowsAndPanesAgree, PTL DEF Spec, ImplementsQueue, Queue!Spec

-----------------------------------------------------------------------------
(* What AgentQueueProofs proves of the queue, instantiated with the table of *)
(* the threads.                                                              *)
Store == INSTANCE AgentQueueProofs WITH
  status    <- [a \in Agents |-> row[a].status],
  queue_seq <- [a \in Agents |-> row[a].queue_seq],
  regained  <- {a \in Agents : row[a].regained}

(* The two instances of AgentQueue have equal definitions. *)
LEMMA SameHelpers ==
  /\ \A S : Queue!Cardinality(S) = Store!Cardinality(S)
  /\ Queue!Holders = Store!Holders /\ Queue!Queued = Store!Queued
  /\ \A S, p : Queue!OfProvider(S, p) = Store!OfProvider(S, p)
  /\ \A S, q : Queue!Earlier(S, q) = Store!Earlier(S, q)
  /\ \A a \in Agents : Queue!PathFree(a) <=> Store!PathFree(a)
<1>1. \A S : Queue!Cardinality(S) = Store!Cardinality(S)
  BY DEF Queue!Cardinality, Store!Cardinality
<1>2. Queue!Holders = Store!Holders /\ Queue!Queued = Store!Queued
  BY DEF Queue!Holders, Store!Holders, Queue!Held, Store!Held, Queue!Queued, Store!Queued
<1>3. \A S, p : Queue!OfProvider(S, p) = Store!OfProvider(S, p)
  BY DEF Queue!OfProvider, Store!OfProvider
<1>4. \A S, q : Queue!Earlier(S, q) = Store!Earlier(S, q)
  BY DEF Queue!Earlier, Store!Earlier
<1>5. \A a \in Agents : Queue!PathFree(a) <=> Store!PathFree(a)
  BY DEF Queue!PathFree, Store!PathFree
<1> QED BY <1>1, <1>2, <1>3, <1>4, <1>5

(* So are their batches. *)
LEMMA SameBatch == \A S : Queue!Batch(S) <=> Store!Batch(S)
<1>1. \A S, q : Queue!HasRoom(q, S) <=> Store!HasRoom(q, S)
  BY SameHelpers DEF Queue!HasRoom, Store!HasRoom
<1> QED BY <1>1, SameHelpers DEF Queue!Batch, Store!Batch

(* A promotion of one is a promotion of the other. *)
LEMMA SamePromote == Queue!Promote <=> Store!Promote
BY SameBatch, SameHelpers DEF Queue!Promote, Store!Promote

(* Every behaviour of the first is one of the second. *)
LEMMA SameSpec == Queue!Spec => Store!Spec
<1>1. Queue!Init => Store!Init
  BY DEF Queue!Init, Store!Init
<1>2. ASSUME [Queue!Next]_(Queue!vars) PROVE [Store!Next]_(Store!vars)
  <2>1. CASE Queue!Promote
    BY <2>1, SamePromote DEF Store!Next
  <2>2. ASSUME NEW a \in Agents, Queue!Enqueue(a) PROVE Store!Enqueue(a)
    <3>1. \A b : Queue!LastInLine(b) <=> Store!LastInLine(b)
      BY DEF Queue!LastInLine, Store!LastInLine
    <3> QED BY <2>2, <3>1, SameHelpers DEF Queue!Enqueue, Store!Enqueue
  <2>3. ASSUME NEW a \in Agents, Queue!Proceed(a) PROVE Store!Proceed(a)
    BY <2>3 DEF Queue!Proceed, Store!Proceed, Queue!Held, Store!Held
  <2>4. ASSUME NEW a \in Agents, Queue!Leave(a) PROVE Store!Leave(a)
    BY <2>4, SameHelpers DEF Queue!Leave, Store!Leave
  <2>5. ASSUME NEW a \in Agents, Queue!Regain(a) PROVE Store!Regain(a)
    BY <2>5, SameHelpers DEF Queue!Regain, Store!Regain
  <2>6. CASE UNCHANGED Queue!vars
    BY <2>6 DEF Queue!vars, Store!vars
  <2> QED BY <1>2, <2>1, <2>2, <2>3, <2>4, <2>5, <2>6 DEF Queue!Next, Store!Next
<1> QED BY <1>1, <1>2, PTL DEF Queue!Spec, Store!Spec

(* The assumption on Agents, in the words of the instance. *)
LEMMA StoreFinite == Store!IsFiniteSet(Agents)
BY QueueAssumption DEF IsFiniteSet, Store!IsFiniteSet

(* Whatever the pipelines, kills, sweeps, late writes, crashes and restarts  *)
(* do to the rows, those admitted by promote_queued stay within both caps,   *)
(* and a path is reserved by one row (engine.rs, gc.rs, completion.rs).      *)
THEOREM ThreadsKeepCaps ==
  Spec => [](Queue!CapRespected /\ Queue!ProviderCapRespected /\ Queue!PathUnique)
<1>1. Store!Spec => []Store!CapRespected
  BY StoreFinite, QueueAssumption, Store!GlobalCap
<1>2. Store!Spec => []Store!ProviderCapRespected
  BY StoreFinite, QueueAssumption, Store!ProviderCaps
<1>3. Store!Spec => []Store!PathUnique
  BY StoreFinite, QueueAssumption, Store!PathIsUnique
<1>4. Store!CapRespected => Queue!CapRespected
  BY SameHelpers DEF Store!CapRespected, Queue!CapRespected
<1>5. Store!ProviderCapRespected => Queue!ProviderCapRespected
  BY SameHelpers DEF Store!ProviderCapRespected, Queue!ProviderCapRespected
<1>6. Store!PathUnique => Queue!PathUnique
  BY DEF Store!PathUnique, Queue!PathUnique
<1> QED
  BY <1>1, <1>2, <1>3, <1>4, <1>5, <1>6, SameSpec, ThreadsKeepAdmission, PTL DEF ImplementsQueue

(* No thread lets a row overtake an earlier one whose provider has room, and *)
(* no promotion leaves a free slot to nobody (engine.rs, store/mod.rs).      *)
THEOREM ThreadsKeepOrder == Spec => Queue!NoQueueJumping /\ Queue!NoSlotWasted
<1>1. Store!Spec => Store!NoQueueJumping
  BY StoreFinite, QueueAssumption, Store!StrictFIFO
<1>2. Store!Spec => Store!NoSlotWasted
  BY StoreFinite, QueueAssumption, Store!NoRoomLeft
<1>3. Store!NoQueueJumping => Queue!NoQueueJumping
  BY PTL DEF Store!NoQueueJumping, Queue!NoQueueJumping, Store!Held, Queue!Held,
             Store!vars, Queue!vars, Store!Cardinality, Queue!Cardinality
<1>4. Store!NoSlotWasted => Queue!NoSlotWasted
  BY PTL DEF Store!NoSlotWasted, Queue!NoSlotWasted, Store!Held, Queue!Held,
             Store!vars, Queue!vars, Store!Cardinality, Queue!Cardinality,
             Store!OfProvider, Queue!OfProvider, Store!Promote, Queue!Promote,
             Store!Batch, Queue!Batch, Store!HasRoom, Queue!HasRoom, Store!Earlier, Queue!Earlier,
             Store!Queued, Queue!Queued, Store!Holders, Queue!Holders
<1> QED
  BY <1>1, <1>2, <1>3, <1>4, SameSpec, ThreadsKeepAdmission, PTL DEF ImplementsQueue
=============================================================================
