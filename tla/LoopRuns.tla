------------------------------ MODULE LoopRuns ------------------------------
(***************************************************************************)
(* One loop definition and its runs: the scheduler tick, the threads that  *)
(* watch and stop a run's process, the `orcr loop` commands, and a crash   *)
(* of the server with recover_loops_on_start (src/server/loops.rs).        *)
(*                                                                         *)
(* A step is one hold of the store lock, with the signal or process call   *)
(* that follows a read. A process may exit at any time, which stands for   *)
(* the effect of SIGTERM too. The clock counts the fire times that have    *)
(* come due; a manual run falls between two of them.                       *)
(***************************************************************************)
EXTENDS LoopBounds, FiniteSets, FiniteSetsExt

CONSTANTS
  Cadences,    \* the cadence kinds to consider: "once", "cron"
  TimeLimit,   \* TRUE: the loop has --timeout
  Clients,     \* each serves one `orcr loop` command
  Commands,    \* the commands the clients may send
  MaxCrashes   \* bound on server crashes

ASSUME CadenceAssumption == Cadences \subseteq {"once", "cron"} /\ TimeLimit \in BOOLEAN
ASSUME ClientsAssumption == Clients \in Nat
ASSUME CommandsAssumption ==
  Commands \subseteq {"start", "stop", "rm", "kill_active", "pause", "resume"}
ASSUME CrashesAssumption == MaxCrashes \in Nat

VARIABLES
  def,      \* the loops row; next_fire_at is "none", "later" or "due"
  clock,    \* fire times that have come due
  run,      \* the loop_runs table
  proc,     \* the process group leader of each run: "none", "alive" or "dead"
  agents,   \* one agent under <loop>/<run>: "none", "live" or "gone"
  job,      \* what each thread is in the middle of
  server,   \* "up", "down" or "recovering"
  crashes,  \* crashes so far
  removed,  \* history: the definition has been ended
  left      \* history: runs whose process or agents a step left to nobody

vars == <<def, clock, run, proc, agents, job, server, crashes, removed, left>>

Slots == INSTANCE RunSlots WITH
  status <- [r \in Runs |-> run[r].status],
  kind   <- [r \in Runs |-> run[r].kind],
  due    <- [r \in Runs |-> run[r].due]

\* The tick and main threads, the clients' connections, and per run its
\* monitor and the stop thread that a timeout or the recovery dispatches.
Tick == <<"tick", 0>>
Main == <<"main", 0>>
Mon(r) == <<"mon", r>>
Stop(r) == <<"stop", r>>
Cli == {<<"cli", c>> : c \in 1..Clients}

Threads == {Tick, Main} \cup ({"mon", "stop"} \X Runs) \cup Cli

Steps == { "idle", "done", "fire", "spawn", "record", "fail", "promote", "wait", "exit", "poll",
           "barrier", "kill", "glob", "finish", "next", "cancel", "remove", "pause", "resume",
           "recover", "rglob", "serve" }

\* A thread at work: its step, its run, the fire time and the status it carries,
\* the runs still to visit and what follows them.
Job(pc, r) ==
  [pc |-> pc, run |-> r, at |-> 0, why |-> "stopped", todo |-> {}, then |-> "rest"]

Idle == Job("idle", 0)
Done == Job("done", 0)

Rest(t) == IF t \in Cli THEN Done ELSE Idle

At(t, pc) == job[t].pc = pc

Init ==
  /\ \E c \in Cadences : def = [status |-> "active", cadence |-> c, next |-> "later"]
  /\ clock = 0
  /\ run = [r \in Runs |-> [status |-> "absent", kind |-> "none", due |-> 0, pid |-> FALSE]]
  /\ proc = [r \in Runs |-> "none"]
  /\ agents = [r \in Runs |-> "none"]
  /\ job = [t \in Threads |-> Idle]
  /\ server = "up" /\ crashes = 0
  /\ removed = FALSE /\ left = {}

Goes(t, j) == job' = [job EXCEPT ![t] = j]

To(t, pc) == Goes(t, [job[t] EXCEPT !.pc = pc])

\* A step that changes the thread and at most the run rows.
Quiet == UNCHANGED <<def, clock, proc, agents, server, crashes, removed, left>>

SetRun(r, s) == run' = [run EXCEPT ![r].status = s]

\* What is left of a thread's work j once it is done with a run.
Onward(t, j) ==
  IF j.todo # {} THEN [j EXCEPT !.pc = "next"]
  ELSE IF j.then = "rest" THEN Rest(t) ELSE Job(j.then, 0)

After(t) == Onward(t, job[t])

\* Variant: the reason is written as the status.
EndDef_Removed == def' = [def EXCEPT !.status = "removed", !.next = "none"] /\ removed' = TRUE

EndDef == def' = [def EXCEPT !.status = "ended", !.next = "none"] /\ removed' = TRUE

-----------------------------------------------------------------------------
\* Firing.
ComeDue ==
  /\ def.next = "later" /\ clock < MaxFires
  /\ def' = [def EXCEPT !.next = "due"] /\ clock' = clock + 1
  /\ UNCHANGED <<run, proc, agents, job, server, crashes, removed, left>>

\* fire_due_loops holds a copy of the row; its due_at is the time that came due.
TickFire ==
  /\ server = "up" /\ At(Tick, "idle")
  /\ def.status = "active" /\ def.next = "due"
  /\ Goes(Tick, [Job("fire", 0) EXCEPT !.at = 2 * clock])
  /\ Quiet /\ UNCHANGED run

\* allocate_run, one transaction with the schedule's advance. The definition's
\* status is not looked at again.
Insert(r, t, k, d) ==
  /\ run' = [run EXCEPT ![r] = [ status |-> IF Slots!Full THEN "pending" ELSE "running",
                                 kind |-> k, due |-> d, pid |-> FALSE ]]
  /\ Goes(t, IF Slots!Full THEN Rest(t) ELSE Job("spawn", r))

Fold(t, d) ==
  /\ \E r \in Slots!Folding :
       run' = [run EXCEPT ![r].due = IF d < @ THEN d ELSE @]
  /\ Goes(t, Rest(t))

\* Variant: a once loop is rescheduled like the others.
Advance_Again == def' = [def EXCEPT !.next = "later"] /\ UNCHANGED removed

Advance ==
  IF def.cadence = "once" THEN EndDef
  ELSE def' = [def EXCEPT !.next = "later"] /\ UNCHANGED removed

FireScheduled ==
  /\ At(Tick, "fire")
  /\ LET d == job[Tick].at IN
     IF Slots!Full /\ Overlap = "skip" THEN Goes(Tick, Idle) /\ UNCHANGED run
     ELSE IF Slots!Full /\ Slots!Folding # {} THEN Fold(Tick, d)
     ELSE \E r \in Runs : Slots!Fresh(r) /\ Insert(r, Tick, "scheduled", d)
  /\ Advance
  /\ UNCHANGED <<clock, proc, agents, server, crashes, left>>

FireManual(t) ==
  /\ At(t, "fire") /\ t # Tick
  /\ \E r \in Runs : Slots!Fresh(r) /\ Insert(r, t, "manual", 2 * clock + 1)
  /\ Quiet

-----------------------------------------------------------------------------
\* spawn_run, for a run whose slot the thread has reserved.
Spawn(t) ==
  /\ At(t, "spawn")
  /\ \/ To(t, "record") /\ proc' = [proc EXCEPT ![job[t].run] = "alive"]
     \/ To(t, "fail") /\ UNCHANGED proc
  /\ UNCHANGED <<def, clock, run, agents, server, crashes, removed, left>>

\* Variant: a child whose run is over is left to itself.
Record_Unguarded(t) ==
  /\ At(t, "record")
  /\ LET r == job[t].run IN
     IF run[r].status \in Slots!Active
     THEN /\ run' = [run EXCEPT ![r].pid = TRUE]
          /\ job' = [job EXCEPT ![t] = After(t), ![Mon(r)] = Job("wait", r)]
     ELSE Goes(t, After(t)) /\ UNCHANGED run
  /\ UNCHANGED <<def, clock, proc, agents, server, crashes, removed, left>>

\* record_run_start: the identity is written while the run holds its slot, and
\* its monitor starts; otherwise the child is killed.
Record(t) ==
  /\ At(t, "record")
  /\ LET r == job[t].run IN
     IF run[r].status \in Slots!Active
     THEN /\ run' = [run EXCEPT ![r].pid = TRUE]
          /\ job' = [job EXCEPT ![t] = After(t), ![Mon(r)] = Job("wait", r)]
          /\ UNCHANGED proc
     ELSE /\ proc' = [proc EXCEPT ![r] = "dead"]
          /\ Goes(t, After(t)) /\ UNCHANGED run
  /\ UNCHANGED <<def, clock, agents, server, crashes, removed, left>>

\* Variant: the last finalizer wins.
FinishRun_Unguarded(r, s) == SetRun(r, s)

\* finish_run takes a run that still holds its slot.
FinishRun(r, s) == IF run[r].status \in Slots!Active THEN SetRun(r, s) ELSE UNCHANGED run

FailSpawn(t) ==
  /\ At(t, "fail")
  /\ FinishRun(job[t].run, "exited")
  /\ To(t, "promote") /\ Quiet

\* Variant: the run is picked and only marked once it has started.
Promote_Unreserved(t) ==
  /\ At(t, "promote")
  /\ IF def.status = "active" /\ ~Slots!Full /\ Slots!Pending # {}
     THEN \E r \in Runs : Slots!Oldest(r) /\ Goes(t, [job[t] EXCEPT !.pc = "spawn", !.run = r])
     ELSE Goes(t, After(t))
  /\ Quiet /\ UNCHANGED run

\* promote_pending: claim the oldest waiting run of an active loop.
Promote(t) ==
  /\ At(t, "promote")
  /\ IF def.status = "active" /\ ~Slots!Full /\ Slots!Pending # {}
     THEN \E r \in Runs :
            /\ Slots!Oldest(r)
            /\ SetRun(r, "running")
            /\ Goes(t, [job[t] EXCEPT !.pc = "spawn", !.run = r])
     ELSE UNCHANGED run /\ Goes(t, After(t))
  /\ Quiet

\* finalize_on_exit reads the row first and leaves a stopping run to its stop.
MonRead(r) ==
  /\ At(Mon(r), "wait") /\ proc[r] = "dead"
  /\ CASE run[r].status = "running"  -> To(Mon(r), "exit")
       [] run[r].status = "stopping" -> Goes(Mon(r), Idle)
       [] OTHER                      -> To(Mon(r), "promote")
  /\ Quiet /\ UNCHANGED run

\* The poll monitor of a run that outlived a server finishes a stopping run too.
PollRead(r) ==
  /\ At(Mon(r), "poll") /\ proc[r] = "dead"
  /\ CASE run[r].status = "running"  -> To(Mon(r), "exit")
       [] run[r].status = "stopping" -> To(Mon(r), "finish")
       [] OTHER                      -> To(Mon(r), "promote")
  /\ Quiet /\ UNCHANGED run

\* Variant: the exit frees the slot and nobody is told.
Exit_NoPromote(r) ==
  /\ At(Mon(r), "exit")
  /\ FinishRun(r, "exited")
  /\ Goes(Mon(r), Idle) /\ Quiet

Exit(r) ==
  /\ At(Mon(r), "exit")
  /\ FinishRun(r, "exited")
  /\ To(Mon(r), "promote") /\ Quiet

-----------------------------------------------------------------------------
\* Stopping.

\* enforce_run_timeouts lists the runs past their deadline and takes them one by one.
TickTimeout(r) ==
  /\ server = "up" /\ At(Tick, "idle")
  /\ TimeLimit /\ run[r].status = "running" /\ run[r].pid
  /\ Goes(Tick, [Job("barrier", r) EXCEPT !.why = "timeout"])
  /\ Quiet /\ UNCHANGED run

\* Variant: a stop without its barrier.
Barrier_Skipped(t) ==
  /\ At(t, "barrier")
  /\ LET r == job[t].run
         stop == [job[t] EXCEPT !.pc = "kill"]
     IN  job' = IF t = Tick THEN [job EXCEPT ![t] = Idle, ![Stop(r)] = stop]
               ELSE [job EXCEPT ![t] = stop]
  /\ Quiet /\ UNCHANGED run

\* enter_stop_barrier; the tick hands the rest of the stop to a thread.
Barrier(t) ==
  /\ At(t, "barrier")
  /\ LET r == job[t].run
         stop == [job[t] EXCEPT !.pc = "kill"]
     IN  /\ IF run[r].status = "running" THEN SetRun(r, "stopping") ELSE UNCHANGED run
         /\ job' = IF t = Tick THEN [job EXCEPT ![t] = Idle, ![Stop(r)] = stop]
                   ELSE [job EXCEPT ![t] = stop]
  /\ Quiet

\* finish_stop reads the row again and kills the group of a recorded leader.
Kill(t) ==
  /\ At(t, "kill")
  /\ LET r == job[t].run IN
     proc' = [proc EXCEPT ![r] = IF run[r].pid /\ @ = "alive" THEN "dead" ELSE @]
  /\ To(t, "glob")
  /\ UNCHANGED <<def, clock, run, agents, server, crashes, removed, left>>

\* glob_kill_run_agents: kill, and look again until nothing matches. With one agent
\* to a run the hundred rounds are never used up; a kill ends the row whatever herdr
\* answers, and what a round finds and does not kill another thread has ended.
Glob(t) ==
  /\ At(t, "glob") \/ At(t, "rglob")
  /\ LET r == job[t].run IN
     IF agents[r] = "live"
     THEN agents' = [agents EXCEPT ![r] = "gone"] /\ UNCHANGED job
     ELSE To(t, IF At(t, "glob") THEN "finish" ELSE "recover") /\ UNCHANGED agents
  /\ UNCHANGED <<def, clock, run, proc, server, crashes, removed, left>>

\* A leader recorded since Kill read the row is left running.
Finish(t) ==
  /\ At(t, "finish")
  /\ LET r == job[t].run IN
     /\ FinishRun(r, job[t].why)
     /\ left' = IF run[r].status \in Slots!Active /\ run[r].pid /\ proc[r] = "alive"
                THEN left \cup {r} ELSE left
  /\ To(t, "promote")
  /\ UNCHANGED <<def, clock, proc, agents, server, crashes, removed>>

-----------------------------------------------------------------------------
\* The `orcr loop` commands. Each reads the definition, and lists the runs, first.
Unfinished == Slots!Pending \cup Slots!Holding

Visit(t, todo, then) == Onward(t, [Job("next", 0) EXCEPT !.todo = todo, !.then = then])

Command(t, c) ==
  CASE c = "start"       -> {Job("fire", 0)}
    [] c = "stop"        -> {Visit(t, S, "rest") : S \in {Unfinished} \cup {{r} : r \in Unfinished}}
    [] c = "rm"          -> {Visit(t, Slots!Pending, "remove")}
    [] c = "kill_active" -> {Visit(t, Unfinished, "remove")}
    [] OTHER             -> {Job(c, 0)}

CliRead(t) ==
  /\ server = "up" /\ At(t, "idle")
  /\ \E c \in Commands :
       /\ c # "stop" => def.status # "ended"
       /\ \E j \in Command(t, c) : Goes(t, j)
  /\ Quiet /\ UNCHANGED run

\* stop_or_cancel_run, on the row as it is now: the oldest listed run first.
NextRun(t) ==
  /\ At(t, "next")
  /\ LET r == Min(job[t].todo)
         j == [job[t] EXCEPT !.run = r, !.todo = @ \ {r}]
     IN  Goes(t, CASE run[r].status \in Slots!Active -> [j EXCEPT !.pc = "barrier"]
                   [] run[r].status = "pending"      -> [j EXCEPT !.pc = "cancel"]
                   [] OTHER                          -> Onward(t, j))
  /\ Quiet /\ UNCHANGED run

\* cancel_pending_run; a run promoted meanwhile is stopped as a running one.
Cancel(t) ==
  /\ At(t, "cancel")
  /\ LET r == job[t].run IN
     IF run[r].status = "pending"
     THEN SetRun(r, "canceled") /\ Goes(t, After(t))
     ELSE /\ UNCHANGED run
          /\ IF run[r].status \in Slots!Active THEN To(t, "barrier") ELSE Goes(t, After(t))
  /\ Quiet

Remove(t) ==
  /\ At(t, "remove")
  /\ EndDef
  /\ Goes(t, Rest(t))
  /\ UNCHANGED <<clock, run, proc, agents, server, crashes, left>>

\* set_loop_status writes whatever the row has become since it was read; a
\* resume of a cron loop computes its next fire anew and promotes.
SetPaused(t) ==
  /\ \/ /\ At(t, "pause")
        /\ def' = [def EXCEPT !.status = "paused"]
        /\ Goes(t, Rest(t))
     \/ /\ At(t, "resume")
        /\ def' = [def EXCEPT !.status = "active",
                              !.next = IF def.cadence = "cron" THEN "later" ELSE @]
        /\ To(t, "promote")
  /\ UNCHANGED <<clock, run, proc, agents, server, crashes, removed, left>>

-----------------------------------------------------------------------------
\* A process of the run calls `agent run`: check_loop_namespace and the insert
\* are one step. The names of ended loops are not protected.
Admit(r) ==
  /\ server = "up" /\ proc[r] # "none" /\ agents[r] = "none"
  /\ def.status # "ended" => run[r].status = "running"
  /\ agents' = [agents EXCEPT ![r] = "live"]
  /\ UNCHANGED <<def, clock, run, proc, job, server, crashes, removed, left>>

\* The command exits by itself or by a signal.
ProcExits(r) ==
  /\ proc[r] = "alive"
  /\ proc' = [proc EXCEPT ![r] = "dead"]
  /\ UNCHANGED <<def, clock, run, agents, job, server, crashes, removed, left>>

\* The threads are gone; the process groups live on. A process whose identity
\* is not recorded yet, and the agents of a run already finished, are forgotten.
Crash ==
  /\ server # "down" /\ crashes < MaxCrashes
  /\ server' = "down" /\ crashes' = crashes + 1
  /\ job' = [t \in Threads |-> IF job[t] = Idle THEN Idle ELSE Rest(t)]
  /\ left' = left \cup {r \in Runs :
       \/ proc[r] = "alive" /\ ~run[r].pid
       \/ agents[r] = "live" /\ run[r].status \in {"stopped", "timeout"}}
  /\ UNCHANGED <<def, clock, run, proc, agents, removed>>

\* recover_loops_on_start, before the scheduler and the accept loop start.
Restart ==
  /\ server = "down"
  /\ server' = "recovering"
  /\ Goes(Main, [Job("recover", 0) EXCEPT !.todo = Slots!Holding])
  /\ UNCHANGED <<def, clock, run, proc, agents, crashes, removed, left>>

\* Variant: a live leader is only watched, whatever its row says.
Recover_WatchesAll ==
  /\ At(Main, "recover") /\ job[Main].todo # {}
  /\ LET r == Min(job[Main].todo)
         rest == [job[Main] EXCEPT !.todo = @ \ {r}, !.run = r]
     IN  IF run[r].pid /\ proc[r] = "alive"
         THEN /\ job' = [job EXCEPT ![Main] = rest, ![Mon(r)] = Job("poll", r)]
              /\ UNCHANGED run
         ELSE /\ FinishRun(r, IF run[r].status = "stopping" THEN "stopped" ELSE "exited")
              /\ Goes(Main, [rest EXCEPT !.pc = "rglob"])
  /\ Quiet

\* Variant: a dead run is closed out and its agents are forgotten.
Recover_NoGlob ==
  /\ At(Main, "recover") /\ job[Main].todo # {}
  /\ LET r == Min(job[Main].todo)
         rest == [job[Main] EXCEPT !.todo = @ \ {r}, !.run = r]
         stopping == run[r].status = "stopping"
     IN  IF run[r].pid /\ proc[r] = "alive"
         THEN /\ job' = [job EXCEPT ![Main] = rest,
                           ![IF stopping THEN Stop(r) ELSE Mon(r)] =
                             Job(IF stopping THEN "kill" ELSE "poll", r)]
              /\ UNCHANGED run
         ELSE /\ FinishRun(r, IF stopping THEN "stopped" ELSE "exited")
              /\ Goes(Main, rest)
  /\ Quiet

\* One active run: a live leader is watched or its stop driven again, a dead
\* one is closed out and its agents killed.
Recover ==
  /\ At(Main, "recover") /\ job[Main].todo # {}
  /\ LET r == Min(job[Main].todo)
         rest == [job[Main] EXCEPT !.todo = @ \ {r}, !.run = r]
         stopping == run[r].status = "stopping"
     IN  IF run[r].pid /\ proc[r] = "alive"
         THEN /\ job' = [job EXCEPT ![Main] = rest,
                           ![IF stopping THEN Stop(r) ELSE Mon(r)] =
                             Job(IF stopping THEN "kill" ELSE "poll", r)]
              /\ UNCHANGED run
         ELSE /\ FinishRun(r, IF stopping THEN "stopped" ELSE "exited")
              /\ Goes(Main, [rest EXCEPT !.pc = "rglob"])
  /\ Quiet

\* A fire missed while down is skipped, then one waiting run is promoted.
\* An ended loop is left as it is.
Reschedule ==
  /\ At(Main, "recover") /\ job[Main].todo = {}
  /\ IF def.status = "ended" \/ def.next # "due" THEN UNCHANGED <<def, removed>> ELSE Advance
  /\ Goes(Main, IF def.status = "active"
                THEN [Job("promote", 0) EXCEPT !.then = "serve"] ELSE Job("serve", 0))
  /\ UNCHANGED <<clock, run, proc, agents, server, crashes, left>>

Serve ==
  /\ At(Main, "serve")
  /\ server' = "up" /\ Goes(Main, Idle)
  /\ UNCHANGED <<def, clock, run, proc, agents, crashes, removed, left>>

-----------------------------------------------------------------------------
ThreadStep(t) ==
  \/ FireManual(t) \/ Spawn(t) \/ Record(t) \/ FailSpawn(t) \/ Promote(t)
  \/ Barrier(t) \/ Kill(t) \/ Glob(t) \/ Finish(t)
  \/ NextRun(t) \/ Cancel(t) \/ Remove(t) \/ SetPaused(t)
  \/ t = Tick /\ FireScheduled
  \/ t = Main /\ (Recover \/ Reschedule \/ Serve)
  \/ \E r \in Runs : t = Mon(r) /\ (MonRead(r) \/ PollRead(r) \/ Exit(r))

Next ==
  \/ ComeDue \/ TickFire \/ Crash \/ Restart
  \/ \E t \in Threads : ThreadStep(t)
  \/ \E t \in Cli : CliRead(t)
  \/ \E r \in Runs : TickTimeout(r) \/ Admit(r) \/ ProcExits(r)

Spec == Init /\ [][Next]_vars

\* Threads run and a server that went down is started again. Nothing is assumed
\* of the commands: a process may run for ever.
Fairness == WF_vars(Restart) /\ \A t \in Threads : WF_vars(ThreadStep(t))

FairSpec == Spec /\ Fairness

-----------------------------------------------------------------------------
\* Every variable keeps its shape, and a run its known statuses.
TypeOK ==
  /\ def \in [ status : {"active", "paused", "ended"}, cadence : Cadences,
               next : {"none", "later", "due"} ]
  /\ clock \in 0..MaxFires
  /\ run \in [Runs -> [ status : Slots!Status, kind : Slots!Kinds \cup {"none"},
                        due : Dues, pid : BOOLEAN ]]
  /\ proc \in [Runs -> {"none", "alive", "dead"}]
  /\ agents \in [Runs -> {"none", "live", "gone"}]
  /\ job \in [Threads -> [ pc : Steps, run : 0..MaxRuns, at : Dues,
                           why : {"stopped", "timeout"}, todo : SUBSET Runs,
                           then : {"rest", "remove", "serve"} ]]
  /\ server \in {"up", "down", "recovering"}
  /\ crashes \in 0..MaxCrashes
  /\ removed \in BOOLEAN
  /\ left \in SUBSET Runs

\* The threads implement the store's promise about slots and waiting runs.
ImplementsSlots == Slots!Spec

\* A run is started by one thread, once, whoever reserved its slot.
SpawnedOnce ==
  \A t, u \in Threads :
    job[t].pc \in {"spawn", "record"} /\ job[u].pc \in {"spawn", "record"}
      /\ job[t].run = job[u].run
      => t = u /\ (At(t, "spawn") => proc[job[t].run] = "none")

\* A live process belongs to a run that holds a slot, or to a thread that has
\* yet to record it, or it was left in a named window: recorded between the
\* stop's last read and its end, or started and not recorded at a crash.
ProcessAccounted ==
  \A r \in Runs : proc[r] = "alive" =>
    \/ run[r].status \in Slots!Active \/ r \in left
    \/ \E t \in Threads : At(t, "record") /\ job[t].run = r

\* When a stop is over, no agent of the run is left, provided the definition
\* stood all along (an ended loop's name is open) and no crash cut in.
StoppedRunIsEmpty ==
  \A r \in Runs :
    run[r].status \in {"stopped", "timeout"} /\ agents[r] = "live" =>
      \/ removed \/ r \in left
      \/ \E t \in Threads : job[t].run = r /\ job[t].pc \in {"kill", "glob", "rglob"}

\* Nobody is at work: every thread rests or waits for a live process.
AtRest ==
  /\ server = "up"
  /\ \A t \in Threads :
       job[t].pc \in {"idle", "done"}
         \/ (job[t].pc \in {"wait", "poll"} /\ proc[job[t].run] = "alive")

\* With one slot, no run of an active loop waits while the slot is free.
NoIdleSlot == AtRest /\ def.status = "active" /\ ~Slots!Full => Slots!Pending = {}

\* A once loop fires at most once, whatever crashes and restarts.
FiresOnce ==
  def.cadence = "once" => Cardinality({r \in Runs : run[r].kind = "scheduled"}) <= 1

\* A stop that has begun ends, across crashes: the slot comes back.
StopEnds == \A r \in Runs : run[r].status = "stopping" ~> run[r].status \in Slots!Terminal
=============================================================================
