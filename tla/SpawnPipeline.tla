--------------------------- MODULE SpawnPipeline ---------------------------
(***************************************************************************)
(* The life of an agent row between `agent run` and a live pane, with      *)
(* every thread that can end it: the pipeline thread of each promoted      *)
(* agent, `agent kill` handlers, the timeout sweep and the periodic        *)
(* reconciler of the GC thread, the stuck-start guard of the queue worker, *)
(* the completion monitor's late writes, and a crash of the server with    *)
(* reconcile_on_start (src/server/engine.rs, gc.rs, completion.rs).        *)
(*                                                                         *)
(* A step is one store transaction, with the herdr call that follows it    *)
(* when the transaction only read: a crash between the two is the crash    *)
(* before both. Parking and moves are left to the move protocol, so no row *)
(* is `parked` here and the monitor writes only what reaches a row that    *)
(* has left the live statuses (mark_blocked).                              *)
(***************************************************************************)
EXTENDS Naturals, FiniteSets

CONSTANTS
  Agents, Paths, PathOf, Providers, ProviderOf, MaxConcurrency, ProviderCap,
  Prompted,    \* agents launched with a first prompt
  Deadlined,   \* agents launched with --timeout
  Killers,     \* the `agent kill` calls, each served by a connection thread
  HerdrFails,  \* TRUE: herdr may be unreachable for any single call
  MaxCrashes   \* bound on server crashes

\* What AgentQueue assumes of the same constants.
ASSUME QueueAssumption ==
  /\ IsFiniteSet(Agents)
  /\ PathOf \in [Agents -> Paths] /\ ProviderOf \in [Agents -> Providers]
  /\ MaxConcurrency \in Nat /\ ProviderCap \in [Providers -> Nat]
ASSUME LaunchAssumption == Prompted \subseteq Agents /\ Deadlined \subseteq Agents
ASSUME ThreadAssumption == Killers \cap {"gc", "queue"} = {}
ASSUME FaultAssumption == HerdrFails \in BOOLEAN /\ MaxCrashes \in Nat

VARIABLES
  row,      \* the agents table
  alive,    \* agents whose terminal is live in herdr
  labelled, \* agents whose pane carries the agent's path as its label
  pipe,     \* where each agent's pipeline thread stands; "none": no thread
  ender,    \* what each row-ending thread is in the middle of
  recon,    \* the reconciler: the pane list it took and the rows left to judge
  seen,     \* the monitor's tick: rows of its snapshot not yet driven
  server,   \* "up", "down" or "recovering"
  crashes,  \* crashes so far
  leaked    \* history: panes left live by a step that could not find or close them

vars == <<row, alive, labelled, pipe, ender, recon, seen, server, crashes, leaked>>

Threads == Killers \cup {"gc", "queue"}

Queue == INSTANCE AgentQueue WITH
  status    <- [a \in Agents |-> row[a].status],
  queue_seq <- [a \in Agents |-> row[a].queue_seq],
  regained  <- {a \in Agents : row[a].regained}

Live == {"working", "idle", "blocked"}

ExitReasons == {"none", "failed", "canceled", "killed", "timeout", "lost"}

PipeSteps == {"none", "launch", "calling", "naming", "started", "record",
              "recorded", "deliver", "void", "sending", "failing", "fail", "bail"}

Idle == [pc |-> "idle"]

Done == [pc |-> "done"]   \* a kill call that has answered

Init ==
  /\ row = [a \in Agents |->
       [ status |-> "absent", pane |-> FALSE, cancel |-> FALSE,
         reason |-> "none", queue_seq |-> 0, regained |-> FALSE ]]
  /\ alive = {} /\ labelled = {}
  /\ pipe = [a \in Agents |-> "none"]
  /\ ender = [t \in Threads |-> Idle]
  /\ recon = Idle
  /\ seen = {}
  /\ server = "up"
  /\ crashes = 0
  /\ leaked = {}

SetStatus(a, s) == row' = [row EXCEPT ![a].status = s]

\* transition_status(.., "ended", why) and end_if_status: the reason of the last caller stays.
End(a, why) ==
  row' = [row EXCEPT ![a].status = "ended", ![a].reason = why, ![a].regained = FALSE]

\* The pipeline of a is still going to close a's pane.
Obliged(a) ==
  \/ pipe[a] \in {"naming", "started"} /\ (row[a].cancel \/ row[a].status # "starting")
  \/ pipe[a] \in {"record", "recorded", "deliver", "void"} /\ row[a].cancel
  \/ pipe[a] = "failing" /\ ~row[a].cancel /\ row[a].pane

-----------------------------------------------------------------------------
\* Admission: agent.run inserts the row, the queue worker promotes and forks a
\* pipeline thread per promoted row.
Enqueue(a) ==
  /\ server = "up"
  /\ row[a].status = "absent"
  /\ Queue!PathFree(a)
  /\ \E b \in Agents :
       /\ Queue!LastInLine(b)
       /\ row' = [row EXCEPT ![a].status = "queued",
                             ![a].queue_seq = row[b].queue_seq + 1]
  /\ UNCHANGED <<alive, labelled, pipe, ender, recon, seen, server, crashes, leaked>>

Promote ==
  /\ server = "up" /\ ender["queue"] = Idle
  /\ \E S \in (SUBSET Queue!Queued) \ {{}} :
       /\ Queue!Batch(S)
       /\ row' = [a \in Agents |->
            IF a \in S THEN [row[a] EXCEPT !.status = "starting"] ELSE row[a]]
       /\ pipe' = [a \in Agents |-> IF a \in S THEN "launch" ELSE pipe[a]]
  /\ UNCHANGED <<alive, labelled, ender, recon, seen, server, crashes, leaked>>

-----------------------------------------------------------------------------
\* The spawn pipeline (pipeline_inner, run_pipeline).
PipeAt(a, step) == server = "up" /\ pipe[a] = step

PipeMoves(a, step) ==
  /\ pipe' = [pipe EXCEPT ![a] = step]
  /\ UNCHANGED <<ender, recon, seen, server, crashes>>

PipeGoes(a, step) == PipeMoves(a, step) /\ UNCHANGED labelled

CheckCancel(a) ==
  /\ PipeAt(a, "launch")
  /\ PipeGoes(a, IF row[a].cancel THEN "bail" ELSE "calling")
  /\ UNCHANGED <<row, alive, leaked>>

\* agent.start answers with a pane, or with an error: then agent_start closes the
\* tab it made, once, and herdr may fail that call too while the provider runs.
StartPane(a) ==
  /\ PipeAt(a, "calling")
  /\ \/ PipeGoes(a, "naming") /\ alive' = alive \cup {a} /\ UNCHANGED leaked
     \/ PipeGoes(a, "failing") /\ UNCHANGED <<alive, leaked>>
     \/ /\ HerdrFails
        /\ PipeGoes(a, "failing")
        /\ alive' = alive \cup {a} /\ leaked' = leaked \cup {a}
  /\ UNCHANGED row

\* The label is a call of its own, and its failure is ignored.
LabelPane(a) ==
  /\ PipeAt(a, "naming")
  /\ PipeMoves(a, "started")
  /\ labelled' = labelled \cup {a} \/ (HerdrFails /\ UNCHANGED labelled)
  /\ UNCHANGED <<row, alive, leaked>>

\* Variants: the location is never recorded; a pane whose row is gone is left.
PostStartRecheck_Unrecorded(a) ==
  /\ PipeAt(a, "started")
  /\ PipeGoes(a, IF row[a].status = "starting" THEN "recorded" ELSE "bail")
  /\ UNCHANGED <<row, alive, leaked>>

PostStartRecheck_JustStop(a) ==
  /\ PipeAt(a, "started")
  /\ PipeGoes(a, IF row[a].status = "starting" /\ ~row[a].cancel THEN "record" ELSE "bail")
  /\ UNCHANGED <<row, alive, leaked>>

\* The row may have been ended or cancelled while agent.start ran.
PostStartRecheck(a) ==
  /\ PipeAt(a, "started")
  /\ IF row[a].status = "starting" /\ ~row[a].cancel
     THEN PipeGoes(a, "record") /\ UNCHANGED <<alive, leaked>>
     ELSE /\ PipeGoes(a, "bail")
          /\ \/ alive' = alive \ {a} /\ UNCHANGED leaked
             \/ HerdrFails /\ UNCHANGED alive /\ leaked' = leaked \cup ({a} \cap alive)
  /\ UNCHANGED row

RecordLocation(a) ==
  /\ PipeAt(a, "record")
  /\ row' = [row EXCEPT ![a].pane = TRUE]
  /\ PipeGoes(a, "recorded")
  /\ UNCHANGED <<alive, leaked>>

\* bail_if_cancelled with the pane at hand: before the delivery, and again
\* after a delivery that found the row gone.
BailCheck(a) ==
  /\ \/ PipeAt(a, "recorded") \/ PipeAt(a, "void")
  /\ IF row[a].cancel
     THEN /\ PipeGoes(a, "bail")
          /\ \/ alive' = alive \ {a} /\ UNCHANGED leaked
             \/ HerdrFails /\ UNCHANGED alive /\ leaked' = leaked \cup ({a} \cap alive)
     ELSE /\ PipeGoes(a, IF pipe[a] = "void" THEN "none" ELSE "deliver")
          /\ UNCHANGED <<alive, leaked>>
  /\ UNCHANGED row

\* Variant: settle_primed_idle without its guard on `starting`.
Deliver_Unguarded(a) ==
  /\ PipeAt(a, "deliver")
  /\ PipeGoes(a, IF a \in Prompted THEN "sending" ELSE "none")
  /\ SetStatus(a, IF a \in Prompted THEN "working" ELSE "idle")
  /\ UNCHANGED <<alive, leaked>>

\* deliver_input opens turn 1 unless the row is gone; without a prompt,
\* settle_primed_idle settles a row that is still starting.
Deliver(a) ==
  /\ PipeAt(a, "deliver")
  /\ IF a \in Prompted
     THEN IF row[a].status \in {"ended", "lost"}
          THEN PipeGoes(a, "void") /\ UNCHANGED row
          ELSE PipeGoes(a, "sending") /\ SetStatus(a, "working")
     ELSE IF row[a].status # "starting"
          THEN PipeGoes(a, "void") /\ UNCHANGED row
          ELSE PipeGoes(a, "none") /\ SetStatus(a, "idle")
  /\ UNCHANGED <<alive, leaked>>

\* deliver_prompt: the mandatory send_text and send_keys need a live pane.
SendPrompt(a) ==
  /\ PipeAt(a, "sending")
  /\ \/ a \in alive /\ PipeGoes(a, "none")
     \/ (HerdrFails \/ a \notin alive) /\ PipeGoes(a, "failing")
  /\ UNCHANGED <<row, alive, leaked>>

\* run_pipeline on an error that is not a cancellation: close the recorded
\* pane, then fail the row.
ClosePipelinePane(a) ==
  /\ PipeAt(a, "failing")
  /\ IF row[a].cancel
     THEN PipeGoes(a, "none") /\ UNCHANGED <<alive, leaked>>
     ELSE /\ PipeGoes(a, "fail")
          /\ \/ /\ alive' = IF row[a].pane THEN alive \ {a} ELSE alive
                /\ UNCHANGED leaked
             \/ /\ HerdrFails /\ row[a].pane
                /\ UNCHANGED alive
                /\ leaked' = leaked \cup ({a} \cap alive)
  /\ UNCHANGED row

FailRow(a) ==
  /\ PipeAt(a, "fail")
  /\ End(a, "failed")
  /\ PipeGoes(a, "none")
  /\ UNCHANGED <<alive, leaked>>

\* Variant: a reason spelt in a way no reader of exit_reason knows.
Bail_Misspelt(a) ==
  /\ PipeAt(a, "bail")
  /\ IF row[a].cancel THEN End(a, "cancelled") ELSE UNCHANGED row
  /\ PipeGoes(a, "none")
  /\ UNCHANGED <<alive, leaked>>

\* The end of bail_if_cancelled; a recheck that found the row ended but not
\* cancelled has nothing left to do.
Bail(a) ==
  /\ PipeAt(a, "bail")
  /\ IF row[a].cancel THEN End(a, "canceled") ELSE UNCHANGED row
  /\ PipeGoes(a, "none")
  /\ UNCHANGED <<alive, leaked>>

PipelineStep(a) ==
  \/ CheckCancel(a) \/ StartPane(a) \/ LabelPane(a) \/ PostStartRecheck(a)
  \/ RecordLocation(a) \/ BailCheck(a) \/ Deliver(a) \/ SendPrompt(a) \/ ClosePipelinePane(a)
  \/ FailRow(a) \/ Bail(a)

-----------------------------------------------------------------------------
\* Threads that end rows. Each holds a copy of the row it read (`pane`: did the
\* copy show one) and works from that copy. `lock` is the per-agent move lock.
Work(step, a, why, lock) ==
  [pc |-> step, agent |-> a, why |-> why, pane |-> row[a].pane, lock |-> lock]

\* Threads in the middle of ending a row.
Busy == {t \in Threads : ender[t] \notin {Idle, Done}}

Rest(t) == IF t \in Killers THEN Done ELSE Idle

\* Variant: nobody waits for the move lock.
LockFree_Always(a) == TRUE

LockFree(a) ==
  \A t \in Busy : ~(ender[t].agent = a /\ ender[t].lock)

EnderGoes(t, work) ==
  /\ ender' = [ender EXCEPT ![t] = work]
  /\ UNCHANGED <<labelled, pipe, recon, seen, server, crashes>>

\* handle_agent_kill's re-read at action time chooses the path by status.
KillWork(a) ==
  CASE row[a].status = "queued"   -> Work("dequeue", a, "canceled", FALSE)
    [] row[a].status = "starting" -> Work("cancel", a, "canceled", FALSE)
    [] row[a].status = "lost"     -> Work("close", a, "lost", FALSE)
    [] row[a].status \in Live     -> Work("close", a, "killed", FALSE)
    [] OTHER                      -> Done

KillRead(t, a) ==
  /\ server = "up" /\ ender[t] = Idle
  /\ row[a].status # "absent" /\ KillWork(a) # Done
  /\ EnderGoes(t, KillWork(a))
  /\ UNCHANGED <<row, alive, leaked>>

\* Variant: the dequeue that trusts its first read.
KillDequeue_Unguarded(t) ==
  /\ ender[t].pc = "dequeue"
  /\ End(ender[t].agent, "canceled") /\ EnderGoes(t, Done)
  /\ UNCHANGED <<alive, leaked>>

\* Dequeue only while still queued; a row promoted meanwhile is read again and
\* killed as a live one.
KillDequeue(t) ==
  /\ ender[t].pc = "dequeue"
  /\ LET a == ender[t].agent IN
     IF row[a].status = "queued"
     THEN End(a, "canceled") /\ EnderGoes(t, Done)
     ELSE UNCHANGED row /\ EnderGoes(t, KillWork(a))
  /\ UNCHANGED <<alive, leaked>>

KillCancel(t) ==
  /\ ender[t].pc = "cancel"
  /\ row' = [row EXCEPT ![ender[t].agent].cancel = TRUE]
  /\ EnderGoes(t, [ender[t] EXCEPT !.pc = "close"])
  /\ UNCHANGED <<alive, leaked>>

\* Close the pane the copy shows. The kill of a live row first waits for the
\* move lock (the sweep already holds it, a spawn is cancelled without it).
ClosePane(t) ==
  /\ ender[t].pc = "close"
  /\ LET e == ender[t]
         a == e.agent
     IN  /\ e.why \in {"killed", "lost"} => LockFree(a)
         /\ EnderGoes(t, [e EXCEPT !.pc = "end", !.lock = e.why # "canceled"])
         /\ \/ /\ alive' = IF e.pane THEN alive \ {a} ELSE alive
               /\ UNCHANGED leaked
            \/ /\ HerdrFails /\ e.pane
               /\ UNCHANGED alive
               /\ leaked' = leaked \cup ({a} \cap alive)
  /\ UNCHANGED row

\* end_agent. The pane is left to nobody if the copy showed none and the
\* pipeline is past its last look at the row.
EndRow(t) ==
  /\ ender[t].pc = "end"
  /\ LET a == ender[t].agent IN
     /\ End(a, ender[t].why)
     /\ leaked' = IF ender[t].pane \/ Obliged(a) \/ pipe[a] \in {"naming", "started"}
                  THEN leaked ELSE leaked \cup ({a} \cap alive)
  /\ EnderGoes(t, Rest(t))
  /\ UNCHANGED alive

\* timeout_sweep: take the lock, read the row again, close by the copy's pane.
TimeoutRead(a) ==
  /\ server = "up" /\ ender["gc"] = Idle /\ recon = Idle
  /\ a \in Deadlined /\ LockFree(a)
  /\ row[a].status \notin {"absent", "ended", "lost"}
  /\ EnderGoes("gc", Work("close", a, "timeout", TRUE))
  /\ UNCHANGED <<row, alive, leaked>>

\* Variant: the guard that looks for starting rows with a pane.
StuckRead_Flipped(a) ==
  /\ server = "up" /\ ender["queue"] = Idle
  /\ row[a].status = "starting" /\ row[a].pane
  /\ EnderGoes("queue", Work("end", a, "failed", FALSE))
  /\ UNCHANGED <<row, alive, leaked>>

\* stuck_start_sweep lists rows starting without a pane and ends each later.
StuckRead(a) ==
  /\ server = "up" /\ ender["queue"] = Idle
  /\ row[a].status = "starting" /\ ~row[a].pane
  /\ EnderGoes("queue", Work("end", a, "failed", FALSE))
  /\ UNCHANGED <<row, alive, leaked>>

EnderStep(t) == KillDequeue(t) \/ KillCancel(t) \/ ClosePane(t) \/ EndRow(t)

-----------------------------------------------------------------------------
\* The unique index lets row a be written to a status other than `ended`.
MayBeActive(a) == row[a].status = "ended" => Queue!PathFree(a)

\* periodic_reconcile: one pane list, then the lost rows, then the live rows
\* it does not show. Nothing is read again before a row is written.
ReconGoes(r) ==
  /\ recon' = r
  /\ UNCHANGED <<alive, labelled, pipe, ender, seen, server, crashes, leaked>>

ReconSnapshot ==
  /\ server = "up" /\ ender["gc"] = Idle /\ recon = Idle
  /\ ReconGoes([pc |-> "lost", snap |-> alive,
                todo |-> {a \in Agents \ alive : row[a].status = "lost"}])
  /\ UNCHANGED row

ReconLostOne(a) ==
  /\ recon.pc = "lost" /\ a \in recon.todo
  /\ End(a, "lost")
  /\ ReconGoes([recon EXCEPT !.todo = @ \ {a}])

ReconListActive ==
  /\ recon.pc = "lost" /\ recon.todo = {}
  /\ LET gone == {a \in Agents \ recon.snap : row[a].status \in Live /\ row[a].pane}
     IN  ReconGoes(IF gone = {} THEN Idle
                   ELSE [pc |-> "vanished", snap |-> recon.snap, todo |-> gone])
  /\ UNCHANGED row

\* transition_status(.., "lost") is not guarded: it may meet a row that has
\* ended since, and is refused only when the path has a new owner.
ReconVanishOne(a) ==
  /\ recon.pc = "vanished" /\ a \in recon.todo
  /\ IF MayBeActive(a)
     THEN row' = [row EXCEPT ![a].status = "lost", ![a].regained = FALSE]
     ELSE UNCHANGED row
  /\ ReconGoes(IF recon.todo = {a} THEN Idle ELSE [recon EXCEPT !.todo = @ \ {a}])

ReconStep == ReconListActive \/ \E a \in Agents : ReconLostOne(a) \/ ReconVanishOne(a)

-----------------------------------------------------------------------------
\* completion_tick: a snapshot of the live rows herdr reports, driven one by
\* one; mark_blocked writes any row that is not already blocked.
MonitorRead ==
  /\ server = "up" /\ seen = {}
  /\ seen' = {a \in alive : row[a].status \in Live /\ row[a].pane}
  /\ UNCHANGED <<row, alive, labelled, pipe, ender, recon, server, crashes, leaked>>

MonitorDrive(a) ==
  /\ a \in seen
  /\ seen' = seen \ {a}
  /\ \/ /\ row[a].status # "blocked"
        /\ MayBeActive(a)
        /\ row' = [row EXCEPT ![a].status = "blocked",
                              ![a].regained = @ \/ row[a].status \in {"ended", "lost"}]
     \/ UNCHANGED row
  /\ UNCHANGED <<alive, labelled, pipe, ender, recon, server, crashes, leaked>>

-----------------------------------------------------------------------------
\* A provider exits and its terminal with it.
PaneDies(a) ==
  /\ a \in alive
  /\ alive' = alive \ {a}
  /\ UNCHANGED <<row, labelled, pipe, ender, recon, seen, server, crashes, leaked>>

\* The threads are gone; herdr may still complete an agent.start in flight, whose
\* pane nobody labels. Ended rows are not reconciled again: their live panes stay.
Crash ==
  /\ server # "down" /\ crashes < MaxCrashes
  /\ \E late \in SUBSET {a \in Agents : pipe[a] = "calling"} :
       /\ alive' = alive \cup late
       /\ leaked' = leaked \cup {a \in alive' : row[a].status = "ended"}
  /\ pipe' = [a \in Agents |-> "none"]
  /\ ender' = [t \in Threads |-> IF ender[t] = Idle THEN Idle ELSE Rest(t)]
  /\ recon' = Idle /\ seen' = {}
  /\ server' = "down" /\ crashes' = crashes + 1
  /\ UNCHANGED <<row, labelled>>

\* reconcile_on_start lists the rows and the panes once. No driver: the rows
\* are left as they are; a failed pane list reads as an empty one.
Restart ==
  /\ server = "down"
  /\ LET rows == {a \in Agents : row[a].status \in Live \cup {"queued", "starting"}} IN
     recon' \in {[pc |-> "recover", snap |-> alive, todo |-> rows]} \cup
       (IF HerdrFails THEN {[pc |-> "recover", snap |-> {}, todo |-> {}],
                            [pc |-> "recover", snap |-> {}, todo |-> rows]} ELSE {})
  /\ server' = "recovering"
  /\ UNCHANGED <<row, alive, labelled, pipe, ender, seen, crashes, leaked>>

\* Variant: the restart leaves the panes of an unrecorded spawn alone.
Orphans_Ignored(a) == {}

\* The listed panes that carry a's label.
Orphans(a) == {b \in recon.snap \cap labelled : PathOf[b] = PathOf[a]}

\* reconcile_agent. A row with no pane recorded, `queued` ones included, is failed
\* after one close of each listed pane that carries its label; a pane herdr did
\* not list or close, or that never got its label, is left live.
RecoverOne(a) ==
  /\ recon.pc = "recover" /\ a \in recon.todo
  /\ \E closed \in SUBSET Orphans(a) :
       /\ closed = Orphans(a) \/ HerdrFails
       /\ alive' = IF row[a].pane THEN alive ELSE alive \ closed
  /\ LET starting == row[a].status = "starting" IN
     CASE row[a].pane /\ a \in recon.snap ->
            IF starting THEN SetStatus(a, "working") ELSE UNCHANGED row
       [] row[a].pane /\ a \notin recon.snap /\ ~starting ->
            row' = [row EXCEPT ![a].status = "lost", ![a].regained = FALSE]
       [] OTHER -> End(a, "failed")
  /\ leaked' = IF row'[a].status = "ended" /\ (HerdrFails \/ a \notin labelled)
               THEN leaked \cup ({a} \cap alive') ELSE leaked
  /\ recon' = [recon EXCEPT !.todo = @ \ {a}]
  /\ UNCHANGED <<labelled, pipe, ender, seen, server, crashes>>

\* The queue worker, monitor, GC engine and accept loop start only now.
Serve ==
  /\ server = "recovering" /\ recon.todo = {}
  /\ server' = "up" /\ recon' = Idle
  /\ UNCHANGED <<row, alive, labelled, pipe, ender, seen, crashes, leaked>>

RestartStep == Restart \/ Serve \/ \E a \in Agents : RecoverOne(a)

-----------------------------------------------------------------------------
Next ==
  \/ Promote \/ ReconSnapshot \/ ReconStep \/ MonitorRead \/ Crash \/ RestartStep
  \/ \E a \in Agents :
       \/ Enqueue(a) \/ PipelineStep(a) \/ MonitorDrive(a) \/ PaneDies(a)
       \/ TimeoutRead(a) \/ StuckRead(a)
       \/ \E t \in Killers : KillRead(t, a)
  \/ \E t \in Threads : EnderStep(t)

Spec == Init /\ [][Next]_vars

\* Threads run: every herdr call returns (the driver's I/O timeouts), a row-
\* ending thread finishes, the server is restarted, and the queue worker's
\* sweep comes round again and again.
Fairness ==
  /\ \A a \in Agents : WF_vars(PipelineStep(a)) /\ SF_vars(StuckRead(a))
  /\ \A t \in Threads : WF_vars(EnderStep(t))
  /\ WF_vars(RestartStep)

FairSpec == Spec /\ Fairness

-----------------------------------------------------------------------------
\* Every variable keeps its shape, and a row its known statuses.
TypeOK ==
  /\ row \in [Agents -> [ status : Live \cup {"absent", "queued", "starting", "ended", "lost"},
                          pane : BOOLEAN, cancel : BOOLEAN, reason : ExitReasons,
                          queue_seq : Nat, regained : BOOLEAN ]]
  /\ alive \in SUBSET Agents /\ labelled \in SUBSET Agents
  /\ pipe \in [Agents -> PipeSteps]
  /\ ender \in [Threads -> {Idle, Done} \cup
       [ pc : {"dequeue", "cancel", "close", "end"}, agent : Agents, why : ExitReasons,
         pane : BOOLEAN, lock : BOOLEAN ]]
  /\ recon \in {Idle} \cup
       [ pc : {"lost", "vanished", "recover"}, snap : SUBSET Agents, todo : SUBSET Agents ]
  /\ seen \in SUBSET Agents
  /\ server \in {"up", "down", "recovering"}
  /\ crashes \in 0..MaxCrashes
  /\ leaked \in SUBSET Agents

\* Whatever the interleaving, a live terminal belongs to a row that is not
\* ended, or to a thread that is still at work on the agent and will close it,
\* or to one of the named windows: a close herdr did not answer, a row ended
\* from a copy that showed no pane, a crash after the row had ended, a restart
\* that fails a row whose pane has no label.
LivePaneAccounted ==
  \A a \in alive : row[a].status = "ended" =>
    \/ a \in leaked \/ Obliged(a)
    \/ \E t \in Busy : ender[t].agent = a

\* A slot-holding row past `starting` names its terminal, so the reconciler
\* and a later kill can reach it.
LiveRowHasPane == \A a \in Agents : row[a].status \in Live => row[a].pane

\* Two threads never work on one agent under its move lock.
MoveLockExclusive ==
  \A t, u \in Busy : t # u =>
    ~(ender[t].lock /\ ender[u].lock /\ ender[t].agent = ender[u].agent)

\* The threads and the restart repair implement the store's admission promise.
ImplementsQueue == Queue!Spec

\* A starting row whose pane is recorded and whose pipeline died with the
\* server: only the restart repair looks at it, and it skips all rows when
\* herdr is unreachable.
Stranded(a) ==
  server = "up" /\ row[a].status = "starting" /\ row[a].pane /\ pipe[a] = "none"

\* No row stays `starting` for ever: its pipeline, a kill, the stuck-start guard
\* or the restart repair releases the slot, unless the row is stranded.
StartingSettlesOrStranded ==
  \A a \in Agents : row[a].status = "starting" ~> (row[a].status # "starting" \/ Stranded(a))

\* A pane the pipeline owes a close is closed, or its row is not ended after all.
OwedPaneCloses ==
  \A a \in Agents : (row[a].status = "ended" /\ a \in alive)
    ~> (row[a].status # "ended" \/ a \notin alive \/ a \in leaked)

-----------------------------------------------------------------------------
\* What the documentation says and the code does not keep (an expected violation).

\* spec/spec.md 5.6: a `queued` row is accepted and durable. A restart repairs
\* rows that were mid-spawn; it should leave a row still waiting in the queue.
QueuedSurvivesRestart ==
  [][server = "recovering" =>
       \A a \in Agents : row[a].status = "queued" => row'[a].status = "queued"]_vars
=============================================================================
