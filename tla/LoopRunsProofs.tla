--------------------------- MODULE LoopRunsProofs ---------------------------
(***************************************************************************)
(* Theorems of LoopRuns, for any number of runs, clients, fires and        *)
(* crashes, either --overlap, with or without --timeout. The threads       *)
(* implement the slots of RunSlots, whose promises they therefore keep.    *)
(***************************************************************************)
EXTENDS LoopRuns, FiniteSetTheorems, WellFoundedInduction, TLAPS

Defs == [ status : {"active", "paused", "ended"}, cadence : Cadences,
          next : {"none", "later", "due"} ]

Rows == [ status : Slots!Status, kind : Slots!Kinds \cup {"none"}, due : Dues, pid : BOOLEAN ]

Jobs == [ pc : Steps, run : 0..MaxRuns, at : Dues, why : {"stopped", "timeout"},
          todo : SUBSET Runs, then : {"rest", "remove", "serve"} ]

\* The steps that name a run.
RunSteps == { "spawn", "record", "fail", "wait", "exit", "poll", "barrier", "kill", "glob",
              "finish", "cancel", "rglob" }

\* A run nobody has started, and one nobody will stop any more.
Early == {"absent", "pending"}

\* t has reserved the slot of r and has yet to start it or to give it up.
Reserves(t, r) == job[t].pc \in {"spawn", "record", "fail"} /\ job[t].run = r

\* t is still going to kill what is left of r.
Clears(t, r) == job[t].pc \in {"kill", "glob", "rglob"} /\ job[t].run = r

JobOK(t) ==
  LET j == job[t]
      r == job[t].run
  IN  /\ j.pc \in RunSteps => r \in Runs
      /\ j.pc = "next" => j.todo # {}
      /\ j.pc \in {"spawn", "record", "fail"} => run[r].status \notin Early /\ ~run[r].pid
      /\ j.pc \in {"spawn", "fail"} => proc[r] = "none"
      /\ j.pc = "barrier" => run[r].status \notin Early
      /\ j.pc \in {"kill", "glob", "rglob", "finish"} =>
           run[r].status \notin Early \cup {"running"}

\* The rows, the processes and the two threads a run may have.
Watch(r) ==
  /\ run[r].status \in Early => proc[r] = "none" /\ ~run[r].pid
  /\ job[Mon(r)] # Idle => run[r].pid
  /\ job[Mon(r)].pc \in {"wait", "poll"} => job[Mon(r)].run = r
  /\ At(Mon(r), "exit") => proc[r] = "dead"
  /\ job[Stop(r)] # Idle => run[r].status \notin Early \cup {"running"}

Placed(r) ==
  proc[r] = "alive" =>
    \/ run[r].status \in Slots!Active /\ run[r].pid
    \/ r \in left
    \/ \E t \in Threads : At(t, "record") /\ job[t].run = r

Emptied(r) ==
  agents[r] = "live" =>
    \/ removed \/ r \in left
    \/ \E t \in Threads : Clears(t, r)
    \/ /\ run[r].status \notin {"stopped", "timeout"}
       /\ \A t \in Threads : ~(At(t, "finish") /\ job[t].run = r)
       /\ run[r].status = "stopping" =>
            server = "down" \/ (server = "recovering" /\ r \in job[Main].todo)

Unique == \A t, u \in Threads, r \in Runs : Reserves(t, r) /\ Reserves(u, r) => t = u

TickOK ==
  /\ job[Tick].todo = {} /\ ~At(Tick, "cancel")
  /\ At(Tick, "barrier") => job[Stop(job[Tick].run)] = Idle

ServerOK ==
  /\ server = "down" => \A t \in Threads : job[t] = Idle \/ (t \in Cli /\ job[t] = Done)
  /\ server # "recovering" => job[Main] = Idle
  /\ server = "recovering" =>
       /\ job[Tick] = Idle
       /\ \A r \in job[Main].todo :
            /\ run[r].status \notin Early
            /\ job[Mon(r)] = Idle /\ job[Stop(r)] = Idle
            /\ \A t \in Threads : ~Reserves(t, r)
  /\ job[Main].todo # {} => job[Main].pc \in {"recover", "rglob"}

DefOK ==
  /\ def.status = "ended" => removed
  /\ def.cadence = "once" =>
       \A r \in Runs : run[r].kind = "scheduled" =>
         /\ def.next = "none" /\ ~At(Tick, "fire")
         /\ \A s \in Runs : run[s].kind = "scheduled" => s = r

IndInv ==
  /\ TypeOK /\ Unique /\ TickOK /\ ServerOK /\ DefOK
  /\ \A t \in Threads : JobOK(t)
  /\ \A r \in Runs : Watch(r) /\ Placed(r) /\ Emptied(r)

-----------------------------------------------------------------------------
\* The least run of a non-empty set is one of its members.
LEMMA MinIn == ASSUME NEW S \in SUBSET Runs, S # {} PROVE Min(S) \in S
<1> DEFINE less == {p \in Nat \X Nat : p[1] < p[2]}
<1>1. IsWellFoundedOn(less, Nat)
  <2>1. OpToRel(<, Nat) = less
    BY DEF OpToRel
  <2> QED
    BY <2>1, NatLessThanWellFounded
<1>2. S \subseteq Nat
  BY RunsAssumption DEF Runs
<1>3. PICK x \in S : \A y \in S : ~(<<y, x>> \in less)
  BY <1>1, <1>2, WFMin
<1>4. ASSUME NEW y \in S PROVE x <= y
  <2>1. x \in Nat /\ y \in Nat /\ <<y, x>> \notin less
    BY <1>2, <1>3
  <2>2. y < x => <<y, x>> \in less
    BY <2>1
  <2> QED
    BY <2>1, <2>2
<1> QED
  BY <1>3, <1>4 DEF Min

\* The sets the abstract specification calls by the same names.
LEMMA SlotNames ==
  /\ Slots!Runs = Runs /\ Slots!Dues = Dues
  /\ Slots!Pending = {r \in Runs : run[r].status = "pending"}
  /\ Slots!Holding = {r \in Runs : run[r].status \in Slots!Active}
  /\ Slots!Folding = {r \in Runs : run[r].status = "pending" /\ run[r].kind = "scheduled"}
BY DEF Slots!Runs, Slots!Dues, Runs, Dues, Slots!Pending, Slots!Holding, Slots!Folding

\* The threads are told apart by their names.
LEMMA ThreadKinds ==
  /\ Tick \in Threads /\ Main \in Threads /\ Cli \subseteq Threads
  /\ \A r \in Runs : Mon(r) \in Threads /\ Stop(r) \in Threads
  /\ Tick # Main /\ Tick \notin Cli /\ Main \notin Cli
  /\ \A r \in Runs : /\ Mon(r) \notin Cli \cup {Tick, Main}
                     /\ Stop(r) \notin Cli \cup {Tick, Main}
  /\ \A r, q \in Runs : /\ Mon(r) # Stop(q)
                        /\ r # q => Mon(r) # Mon(q) /\ Stop(r) # Stop(q)
BY DEF Threads, Tick, Main, Cli, Mon, Stop

\* What the type invariant says of one row and one thread.
LEMMA Shapes ==
  ASSUME TypeOK
  PROVE  /\ def \in Defs /\ run \in [Runs -> Rows] /\ job \in [Threads -> Jobs]
         /\ \A r \in Runs : run[r] \in Rows
         /\ \A t \in Threads : job[t] \in Jobs
BY DEF TypeOK, Defs, Rows, Jobs

\* Fire times are natural numbers, those of the clock among them.
LEMMA DueTimes ==
  /\ 0 \in Dues
  /\ TypeOK => 2 * clock \in Dues /\ 2 * clock + 1 \in Dues
BY FiresAssumption DEF Dues, TypeOK

\* A fresh job has the fields it was given.
LEMMA NewJob ==
  ASSUME NEW pc \in Steps, NEW r \in 0..MaxRuns
  PROVE  /\ Job(pc, r) \in Jobs
         /\ Job(pc, r).pc = pc /\ Job(pc, r).run = r /\ Job(pc, r).todo = {}
         /\ Job(pc, r).then = "rest"
BY DueTimes DEF Job, Jobs

LEMMA RunNumbers == 0 \in 0..MaxRuns /\ Runs \subseteq 0..MaxRuns
BY RunsAssumption DEF Runs

\* A resting thread, and one that has finished.
LEMMA IdleJobs ==
  /\ Idle \in Jobs /\ Done \in Jobs
  /\ Idle.pc = "idle" /\ Idle.todo = {} /\ Done.pc = "done" /\ Done.todo = {}
BY NewJob, RunNumbers DEF Idle, Done, Steps

\* A thread that goes on to its next step, its run and lists as they were.
LEMMA StepJob ==
  ASSUME TypeOK, NEW t \in Threads, NEW pc \in Steps, To(t, pc)
  PROVE  \E j \in Jobs : /\ Goes(t, j)
                         /\ j.pc = pc /\ j.run = job[t].run /\ j.why = job[t].why
                         /\ j.todo = job[t].todo /\ j.then = job[t].then
<1> DEFINE j == [job[t] EXCEPT !.pc = pc]
<1>1. job[t] \in Jobs
  BY Shapes
<1>2. /\ j \in Jobs /\ j.pc = pc /\ j.run = job[t].run /\ j.why = job[t].why
      /\ j.todo = job[t].todo /\ j.then = job[t].then
  BY <1>1 DEF Jobs
<1>3. Goes(t, j)
  BY DEF To
<1> HIDE DEF j
<1> QED
  BY <1>2, <1>3

\* Where a thread goes once it is done with a run.
OnwardSteps == {"next", "idle", "done", "remove", "serve"}

\* What a thread does after a step: the next run of its list, or the end of its work.
LEMMA OnwardJob ==
  ASSUME NEW t \in Threads, NEW j \in Jobs
  PROVE  \E k \in Jobs : /\ k = Onward(t, j) /\ k.pc \in OnwardSteps
                         /\ k.pc = "next" => k.todo # {}
                         /\ k.todo = j.todo
<1>1. CASE j.todo # {}
  <2> DEFINE k == [j EXCEPT !.pc = "next"]
  <2>1. k \in Jobs /\ k.pc = "next" /\ k.todo = j.todo
    BY DEF Jobs, Steps
  <2>2. k = Onward(t, j)
    BY <1>1 DEF Onward
  <2> HIDE DEF k
  <2> QED
    BY <1>1, <2>1, <2>2 DEF OnwardSteps
<1>2. CASE j.todo = {} /\ j.then = "rest"
  <2>1. Onward(t, j) \in {Idle, Done}
    BY <1>2 DEF Onward, Rest
  <2> QED
    BY <1>2, <2>1, IdleJobs DEF OnwardSteps
<1>3. CASE j.todo = {} /\ j.then # "rest"
  <2>1. Onward(t, j) = Job(j.then, 0) /\ j.then \in {"remove", "serve"}
    BY <1>3 DEF Onward, Jobs
  <2>2. j.then \in Steps /\ 0 \in 0..MaxRuns
    BY <2>1, RunNumbers DEF Steps
  <2>3. /\ Job(j.then, 0) \in Jobs /\ Job(j.then, 0).pc = j.then /\ Job(j.then, 0).todo = {}
    BY <2>2, NewJob
  <2> QED
    BY <1>3, <2>1, <2>3 DEF OnwardSteps
<1> QED
  BY <1>1, <1>2, <1>3

\* What a thread does once it has promoted.
LEMMA AfterJob ==
  ASSUME TypeOK, NEW t \in Threads
  PROVE  \E k \in Jobs : /\ k = After(t) /\ k.pc \in OnwardSteps
                         /\ k.pc = "next" => k.todo # {}
                         /\ k.todo = job[t].todo
BY OnwardJob, Shapes DEF After

\* One thread's step leaves the others where they are.
LEMMA Turn ==
  ASSUME TypeOK, NEW t \in Threads, NEW j \in Jobs, Goes(t, j)
  PROVE  /\ job' \in [Threads -> Jobs]
         /\ job'[t] = j
         /\ \A u \in Threads \ {t} : job'[u] = job[u]
BY Shapes DEF Goes

\* A write of one field of a run's row; a write at no run changes nothing.
LEMMA StatusWrite ==
  ASSUME TypeOK, NEW r, NEW s \in Slots!Status, SetRun(r, s)
  PROVE  /\ run' \in [Runs -> Rows]
         /\ r \notin Runs => run' = run
         /\ \A q \in Runs \ {r} : run'[q] = run[q]
         /\ r \in Runs => /\ run'[r].status = s /\ run'[r].pid = run[r].pid
                          /\ run'[r].kind = run[r].kind /\ run'[r].due = run[r].due
<1>1. CASE r \notin Runs
  BY <1>1, Shapes DEF SetRun
<1>2. CASE r \in Runs
  <2> DEFINE x == [run[r] EXCEPT !.status = s]
  <2>1. run[r] \in Rows /\ run \in [Runs -> Rows]
    BY <1>2, Shapes
  <2>2. x \in Rows /\ x.status = s /\ x.pid = run[r].pid /\ x.kind = run[r].kind /\ x.due = run[r].due
    BY <2>1 DEF Rows
  <2>3. run' = [run EXCEPT ![r] = x]
    BY DEF SetRun
  <2> HIDE DEF x
  <2> QED
    BY <1>2, <2>1, <2>2, <2>3
<1> QED
  BY <1>1, <1>2

\* record_run_start writes the process of one row.
LEMMA PidWrite ==
  ASSUME TypeOK, NEW r \in Runs, run' = [run EXCEPT ![r].pid = TRUE]
  PROVE  /\ run' \in [Runs -> Rows]
         /\ \A q \in Runs \ {r} : run'[q] = run[q]
         /\ run'[r].status = run[r].status /\ run'[r].pid
         /\ run'[r].kind = run[r].kind /\ run'[r].due = run[r].due
<1> DEFINE x == [run[r] EXCEPT !.pid = TRUE]
<1>1. run[r] \in Rows /\ run \in [Runs -> Rows]
  BY Shapes
<1>2. /\ x \in Rows /\ x.status = run[r].status /\ x.pid
      /\ x.kind = run[r].kind /\ x.due = run[r].due
  BY <1>1 DEF Rows
<1>3. run' = [run EXCEPT ![r] = x]
  OBVIOUS
<1> HIDE DEF x
<1> QED
  BY <1>1, <1>2, <1>3

\* A folded fire moves the due time of one row.
LEMMA DueWrite ==
  ASSUME TypeOK, NEW r \in Runs, NEW d \in Dues, run' = [run EXCEPT ![r].due = d]
  PROVE  /\ run' \in [Runs -> Rows]
         /\ \A q \in Runs \ {r} : run'[q] = run[q]
         /\ run'[r].status = run[r].status /\ run'[r].pid = run[r].pid
         /\ run'[r].kind = run[r].kind /\ run'[r].due = d
<1> DEFINE x == [run[r] EXCEPT !.due = d]
<1>1. run[r] \in Rows /\ run \in [Runs -> Rows]
  BY Shapes
<1>2. /\ x \in Rows /\ x.status = run[r].status /\ x.pid = run[r].pid
      /\ x.kind = run[r].kind /\ x.due = d
  BY <1>1 DEF Rows
<1>3. run' = [run EXCEPT ![r] = x]
  OBVIOUS
<1> HIDE DEF x
<1> QED
  BY <1>1, <1>2, <1>3

-----------------------------------------------------------------------------
\* A step is about at most one run q (0: none), taken by a thread t that goes
\* on with the work j; it may start a thread x of q with the work k.
\* What it leaves alone, and what it never takes back.
Elsewhere(q) ==
  /\ \A r \in Runs \ {q} : run'[r] = run[r] /\ proc'[r] = proc[r] /\ agents'[r] = agents[r]
  /\ left \subseteq left' /\ (removed => removed')
  /\ UNCHANGED <<clock, server, crashes>>

OnwardRun(t, q) ==
  q \in Runs =>
    /\ run[q].status \notin Early => run'[q].status \notin Early
    /\ run[q].status \notin Early \cup {"running"} => run'[q].status \notin Early \cup {"running"}
    /\ run[q].pid => run'[q].pid
    /\ proc[q] = "dead" => proc'[q] = "dead"
    /\ \/ Reserves(t, q)
       \/ (run'[q].pid => run[q].pid) /\ (proc[q] = "none" => proc'[q] = "none")

\* How the thread itself goes on.
OnwardThread(t, j, q) ==
  /\ job[t].pc \notin {"idle", "done"} \/ (server = "up" /\ t \in {Tick} \cup Cli)
  /\ job[t].pc \in {"spawn", "record", "fail", "kill", "glob", "rglob"} => job[t].run = q
  /\ j.pc \in {"spawn", "record", "fail"} =>
       j.run = q /\ (Reserves(t, q) \/ run[q].status \in Early)
  /\ j.pc \notin {"wait", "poll"}
  /\ j.pc = "exit" => t = Mon(q) /\ proc'[q] = "dead"
  /\ j.pc = "finish" => j.run = q
  /\ t = Tick => /\ j.todo = {} /\ j.pc # "cancel"
                 /\ j.pc = "barrier" => job[Stop(j.run)] = Idle
  /\ t = Main => /\ job[Main].todo \ {q} \subseteq j.todo /\ j.todo \subseteq job[Main].todo
                 /\ j.todo # {} => j.pc \in {"recover", "rglob"}

\* The thread it starts was at rest.
Starts(t, x, k, q) ==
  x # t =>
    /\ q \in Runs /\ job[x] = Idle /\ k.run = q /\ q \notin job'[Main].todo
    /\ \/ x = Mon(q) /\ k.pc \in {"wait", "poll"} /\ run'[q].pid
       \/ x = Stop(q) /\ k.pc = "kill" /\ run'[q].status \notin Early \cup {"running"}
    /\ x = Stop(q) => server # "up" \/ (t = Tick /\ job'[Tick].pc # "barrier")

Moves(t, j, x, k) ==
  /\ job' \in [Threads -> Jobs]
  /\ job'[t] = j /\ (x # t => job'[x] = k)
  /\ \A u \in Threads \ {t, x} : job'[u] = job[u]

Typed ==
  /\ run' \in [Runs -> Rows]
  /\ proc' \in [Runs -> {"none", "alive", "dead"}]
  /\ agents' \in [Runs -> {"none", "live", "gone"}]
  /\ def' \in Defs /\ removed' \in BOOLEAN /\ left' \in SUBSET Runs

\* The step lemma: a thread's step that fits its own run keeps the whole invariant. The
\* actions below only show its hypotheses.
LEMMA TurnKeeps ==
  ASSUME IndInv, NEW t \in Threads, NEW j \in Jobs, NEW x \in Threads, NEW k \in Jobs,
         NEW q \in 0..MaxRuns,
         Typed, Moves(t, j, x, k), Elsewhere(q), OnwardRun(t, q), OnwardThread(t, j, q),
         Starts(t, x, k, q), JobOK(t)', DefOK', q \in Runs => Placed(q)' /\ Emptied(q)'
  PROVE  IndInv'
<1> USE ThreadKinds, IdleJobs
<1>1. TypeOK'
  BY DEF Typed, Moves, Elsewhere, IndInv, TypeOK, Rows, Jobs, Defs
<1>2. job[t] # Idle \/ (server = "up" /\ t \in {Tick} \cup Cli)
  BY DEF OnwardThread
<1>3. ASSUME NEW u \in Threads PROVE JobOK(u)'
  <2>1. CASE u = t
    BY <2>1
  <2>2. CASE u = x /\ x # t
    BY <2>2 DEF Starts, Moves, JobOK, RunSteps
  <2>3. CASE u \notin {t, x}
    <3>1. JobOK(u) /\ job'[u] = job[u]
      BY <2>3 DEF IndInv, Moves
    <3>2. CASE job[u].run # q
      BY <3>1, <3>2 DEF JobOK, Elsewhere, RunSteps
    <3>3. CASE job[u].run = q
      <4>1. ASSUME Reserves(u, q), q \in Runs PROVE ~Reserves(t, q)
        BY <2>3, <4>1 DEF IndInv, Unique
      <4> QED
        BY <3>1, <3>3, <4>1 DEF JobOK, OnwardRun, Reserves, RunSteps
    <3> QED
      BY <3>2, <3>3
  <2> QED
    BY <2>1, <2>2, <2>3
<1>4. ASSUME NEW r \in Runs PROVE Watch(r)'
  <2>1. Watch(r)
    BY DEF IndInv
  <2>2. run'[r].status \in Early => proc'[r] = "none" /\ ~run'[r].pid
    <3>1. CASE r # q
      BY <2>1, <3>1 DEF Watch, Elsewhere
    <3>2. CASE r = q
      <4>1. Reserves(t, q) => run[q].status \notin Early
        BY DEF IndInv, JobOK, Reserves
      <4> QED
        BY <2>1, <3>2, <4>1 DEF Watch, OnwardRun
    <3> QED
      BY <3>1, <3>2
  <2>3. /\ run[r].pid => run'[r].pid
        /\ proc[r] = "dead" => proc'[r] = "dead"
        /\ run[r].status \notin Early \cup {"running"} => run'[r].status \notin Early \cup {"running"}
    BY DEF Elsewhere, OnwardRun
  <2>4. job'[Mon(r)] # Idle => run'[r].pid
    <3>1. CASE Mon(r) = t
      BY <1>2, <2>1, <2>3, <3>1 DEF Watch
    <3>2. CASE Mon(r) = x /\ x # t
      BY <3>2 DEF Starts
    <3>3. CASE Mon(r) \notin {t, x}
      BY <2>1, <2>3, <3>3 DEF Watch, Moves
    <3> QED
      BY <3>1, <3>2, <3>3
  <2>5. job'[Mon(r)].pc = "exit" => proc'[r] = "dead"
    <3>1. CASE Mon(r) = t
      <4>1. j.pc = "exit" => q \in Runs /\ r = q
        <5>1. q # 0 => q \in Runs
          BY RunsAssumption DEF Runs
        <5>2. q = 0 => Mon(q) # Mon(r)
          BY RunsAssumption DEF Runs, Mon
        <5> QED
          BY <3>1, <5>1, <5>2 DEF OnwardThread
      <4> QED
        BY <3>1, <4>1 DEF OnwardThread, Moves
    <3>2. CASE Mon(r) = x /\ x # t
      BY <3>2 DEF Starts, Moves
    <3>3. CASE Mon(r) \notin {t, x}
      BY <2>1, <2>3, <3>3 DEF Watch, Moves, At
    <3> QED
      BY <3>1, <3>2, <3>3
  <2>5a. job'[Mon(r)].pc \in {"wait", "poll"} => job'[Mon(r)].run = r
    <3>1. CASE Mon(r) = t
      BY <3>1 DEF OnwardThread, Moves
    <3>2. CASE Mon(r) = x /\ x # t
      BY <3>2 DEF Starts, Moves
    <3>3. CASE Mon(r) \notin {t, x}
      BY <2>1, <3>3 DEF Watch, Moves
    <3> QED
      BY <3>1, <3>2, <3>3
  <2>6. job'[Stop(r)] # Idle => run'[r].status \notin Early \cup {"running"}
    <3>1. CASE Stop(r) = t
      BY <1>2, <2>1, <2>3, <3>1 DEF Watch
    <3>2. CASE Stop(r) = x /\ x # t
      BY <3>2 DEF Starts
    <3>3. CASE Stop(r) \notin {t, x}
      BY <2>1, <2>3, <3>3 DEF Watch, Moves
    <3> QED
      BY <3>1, <3>2, <3>3
  <2> QED
    BY <2>2, <2>4, <2>5, <2>5a, <2>6 DEF Watch, At
<1>5. ASSUME NEW r \in Runs \ {q} PROVE Placed(r)'
  <2>1. Placed(r) /\ run'[r] = run[r] /\ proc'[r] = proc[r] /\ left \subseteq left'
    BY DEF IndInv, Elsewhere
  <2>2. ASSUME NEW u \in Threads, job[u].pc = "record", job[u].run = r PROVE job'[u] = job[u]
    BY <2>2 DEF OnwardThread, Starts, Moves
  <2> QED
    BY <2>1, <2>2 DEF Placed, At
<1>6. ASSUME NEW r \in Runs \ {q} PROVE Emptied(r)'
  <2>1. /\ Emptied(r) /\ run'[r] = run[r] /\ agents'[r] = agents[r] /\ left \subseteq left'
        /\ (removed => removed') /\ server' = server
    BY DEF IndInv, Elsewhere
  <2>2. ASSUME NEW u \in Threads, Clears(u, r) PROVE Clears(u, r)'
    <3>1. job'[u] = job[u]
      BY <2>2 DEF OnwardThread, Starts, Moves, Clears
    <3> QED
      BY <2>2, <3>1 DEF Clears
  <2>3. ASSUME NEW u \in Threads, job'[u].pc = "finish", job'[u].run = r
        PROVE  job[u].pc = "finish" /\ job[u].run = r
    BY <2>3 DEF OnwardThread, Starts, Moves
  <2>4. r \in job[Main].todo => r \in job'[Main].todo
    BY DEF OnwardThread, Starts, Moves
  <2> QED
    BY <2>1, <2>2, <2>3, <2>4 DEF Emptied, At
<1>7. Unique'
  <2>1. ASSUME NEW u \in Threads \ {t}, NEW r \in Runs, Reserves(u, r)'
        PROVE  Reserves(u, r) /\ ~Reserves(t, r)'
    <3>1. Reserves(u, r)
      BY <2>1 DEF Starts, Moves, Reserves
    <3>2. run[r].status \notin Early
      BY <3>1 DEF IndInv, JobOK, Reserves
    <3>3. ~Reserves(t, r)
      BY <3>1 DEF IndInv, Unique
    <3>4. ~Reserves(t, r)'
      BY <3>2, <3>3 DEF OnwardThread, Moves, Reserves
    <3> QED
      BY <3>1, <3>4
  <2> QED
    BY <2>1 DEF IndInv, Unique
<1>8. TickOK'
  <2>0. job'[Tick].todo = {} /\ job'[Tick].pc # "cancel"
    BY DEF IndInv, TickOK, At, OnwardThread, Starts, Moves
  <2> SUFFICES ASSUME job'[Tick].pc = "barrier" PROVE job'[Stop(job'[Tick].run)] = Idle
    BY <2>0 DEF TickOK, At
  <2> DEFINE r == job'[Tick].run
  <2>1. r \in Runs /\ job[Stop(r)] = Idle
    <3>1. CASE t = Tick
      BY <1>3, <3>1 DEF OnwardThread, Moves, JobOK, RunSteps
    <3>2. CASE t # Tick
      <4>1. job'[Tick] = job[Tick]
        BY <3>2 DEF Starts, Moves
      <4> QED
        BY <4>1 DEF IndInv, TickOK, At, JobOK, RunSteps
    <3> QED
      BY <3>1, <3>2
  <2>2. Stop(r) # t
    BY <1>2, <2>1
  <2>3. Stop(r) # x \/ x = t
    <3>1. CASE server = "up"
      BY <2>1, <3>1 DEF Starts
    <3>2. CASE server # "up"
      <4>1. job[Tick] = Idle
        BY <3>2 DEF IndInv, TypeOK, ServerOK
      <4>2. job'[Tick] = Idle
        BY <1>2, <3>2, <4>1 DEF Starts, Moves
      <4> QED
        BY <4>2
    <3> QED
      BY <3>1, <3>2
  <2> HIDE DEF r
  <2>4. job'[Stop(r)] = Idle
    BY <2>1, <2>2, <2>3 DEF Moves
  <2> QED
    BY <2>4 DEF r
<1>9. ServerOK'
  <2>1. server' = server /\ server \in {"up", "recovering"}
    <3>1. server # "down"
      BY DEF IndInv, ServerOK, OnwardThread
    <3> QED
      BY <3>1 DEF IndInv, TypeOK, Elsewhere
  <2>2. server # "recovering" => job'[Main] = Idle
    BY <1>2, <2>1 DEF IndInv, ServerOK, Starts, Moves
  <2>3. job'[Main].todo # {} => job'[Main].pc \in {"recover", "rglob"}
    BY DEF IndInv, ServerOK, OnwardThread, Starts, Moves
  <2>4. job'[Main].todo \subseteq job[Main].todo
    BY DEF OnwardThread, Starts, Moves
  <2>5. ASSUME server = "recovering"
        PROVE  /\ job'[Tick] = Idle
               /\ \A r \in job'[Main].todo :
                    /\ run'[r].status \notin Early
                    /\ job'[Mon(r)] = Idle /\ job'[Stop(r)] = Idle
                    /\ \A u \in Threads : ~Reserves(u, r)'
    <3>1. job'[Tick] = Idle
      BY <1>2, <2>5 DEF IndInv, ServerOK, Starts, Moves
    <3>2. ASSUME NEW r \in job'[Main].todo
          PROVE  /\ run'[r].status \notin Early
                 /\ job'[Mon(r)] = Idle /\ job'[Stop(r)] = Idle
                 /\ \A u \in Threads : ~Reserves(u, r)'
      <4>1. /\ r \in Runs /\ run[r].status \notin Early
            /\ job[Mon(r)] = Idle /\ job[Stop(r)] = Idle
            /\ \A u \in Threads : ~Reserves(u, r)
        <5>1. job[Main] \in Jobs
          BY Shapes DEF IndInv
        <5> QED
          BY <2>4, <2>5, <5>1 DEF IndInv, ServerOK, Jobs
      <4>2. run'[r].status \notin Early
        BY <4>1 DEF Elsewhere, OnwardRun
      <4>3. Mon(r) # t /\ Stop(r) # t
        BY <1>2, <2>5, <4>1
      <4>4. x # t => Mon(r) # x /\ Stop(r) # x
        BY <4>1 DEF Starts
      <4>5. job'[Mon(r)] = Idle /\ job'[Stop(r)] = Idle
        BY <4>1, <4>3, <4>4 DEF Moves
      <4>6. ASSUME NEW u \in Threads PROVE ~Reserves(u, r)'
        BY <4>1 DEF OnwardThread, Starts, Moves, Reserves
      <4> QED
        BY <4>2, <4>5, <4>6
    <3> QED
      BY <3>1, <3>2
  <2> QED
    BY <2>1, <2>2, <2>3, <2>5 DEF ServerOK, Reserves
<1> QED
  BY <1>1, <1>3, <1>4, <1>5, <1>6, <1>7, <1>8, <1>9 DEF IndInv

-----------------------------------------------------------------------------
\* A step that leaves the definition alone keeps what is known of it.
LEMMA DefKept ==
  ASSUME IndInv, UNCHANGED <<def, removed>>,
         \A r \in Runs : run'[r].kind = "scheduled" => run[r].kind = "scheduled",
         job'[Tick].pc = "fire" => job[Tick].pc = "fire"
  PROVE  DefOK'
BY DEF IndInv, DefOK, At

\* A run's process stays accounted for by whatever accounted for it.
LEMMA PlacedKept ==
  ASSUME IndInv, NEW t \in Threads, NEW j, NEW x \in Threads, NEW k, Moves(t, j, x, k),
         x # t => job[x] = Idle, NEW q \in Runs, left \subseteq left',
         proc'[q] = "alive" => proc[q] = "alive",
         run[q].status \in Slots!Active => run'[q].status \in Slots!Active,
         run[q].pid => run'[q].pid,
         ~(job[t].pc = "record" /\ job[t].run = q)
  PROVE  Placed(q)'
<1>1. ASSUME NEW u \in Threads, job[u].pc = "record", job[u].run = q PROVE job'[u] = job[u]
  BY <1>1, IdleJobs DEF Moves
<1> QED
  BY <1>1 DEF IndInv, Placed, At

\* A run's agents stay accounted for by whatever accounted for them.
LEMMA EmptiedKept ==
  ASSUME IndInv, NEW t \in Threads, NEW j, NEW x \in Threads, NEW k, Moves(t, j, x, k),
         x # t => job[x] = Idle /\ k.pc # "finish" /\ x # Main,
         NEW q \in Runs, left \subseteq left', removed => removed',
         UNCHANGED server, agents'[q] = "live" => agents[q] = "live",
         run'[q].status \in {"stopping", "stopped", "timeout"} => run'[q].status = run[q].status,
         Clears(t, q) => Clears(t, q)', ~(j.pc = "finish" /\ j.run = q),
         t = Main /\ run'[q].status = "stopping" /\ q \in job[Main].todo => q \in j.todo
  PROVE  Emptied(q)'
<1>1. ASSUME NEW u \in Threads, Clears(u, q) PROVE Clears(u, q)'
  BY <1>1, IdleJobs DEF Moves, Clears
<1>2. ASSUME NEW u \in Threads, job'[u].pc = "finish", job'[u].run = q
      PROVE  job[u].pc = "finish" /\ job[u].run = q
  BY <1>2 DEF Moves
<1>3. run'[q].status = "stopping" /\ q \in job[Main].todo => q \in job'[Main].todo
  BY ThreadKinds DEF Moves
<1> QED
  BY <1>1, <1>2, <1>3 DEF IndInv, Emptied, At

\* A thread in the middle of something goes on with it; only the restart's
\* main thread, in its recovery, shortens a list that others look at.
LEMMA GoingOn ==
  ASSUME IndInv, NEW t \in Threads, NEW j \in Jobs, NEW q,
         job[t].pc \notin {"idle", "done", "recover", "rglob"}, j.todo \subseteq job[t].todo,
         job[t].pc \in {"spawn", "record", "fail", "kill", "glob"} => job[t].run = q,
         j.pc \in {"spawn", "record", "fail"} =>
           j.run = q /\ (Reserves(t, q) \/ run[q].status \in Early),
         j.pc = "exit" => t = Mon(q) /\ proc'[q] = "dead", j.pc \notin {"wait", "poll"},
         j.pc = "finish" => j.run = q,
         t = Tick => j.pc \notin {"cancel", "barrier"}
  PROVE  OnwardThread(t, j, q)
<1>1. t = Main => job[Main].todo = {}
  BY DEF IndInv, ServerOK
<1>2. t = Tick => j.todo = {}
  BY DEF IndInv, TickOK
<1> QED
  BY <1>1, <1>2, ThreadKinds DEF OnwardThread

\* A turn that writes only the thread.
LEMMA QuietKeeps ==
  ASSUME IndInv, NEW t \in Threads, NEW j \in Jobs, NEW q \in 0..MaxRuns, Goes(t, j),
         Quiet, UNCHANGED run, OnwardThread(t, j, q), JobOK(t)',
         job[t].pc \notin {"record", "kill", "glob", "rglob", "recover"}, j.pc # "finish",
         t = Tick => j.pc # "fire"
  PROVE  IndInv'
<1>1. TypeOK /\ Typed
  BY DEF IndInv, TypeOK, Typed, Quiet, Rows, Defs
<1>2. Moves(t, j, t, j)
  BY <1>1, Turn DEF Moves
<1>3. Elsewhere(q) /\ OnwardRun(t, q) /\ Starts(t, t, j, q)
  BY DEF Quiet, Elsewhere, OnwardRun, Starts
<1>4. DefOK'
  BY <1>2, ThreadKinds, DefKept DEF Quiet, Moves
<1>5. ASSUME q \in Runs PROVE Placed(q)' /\ Emptied(q)'
  <2>1. Placed(q)'
    BY <1>2, <1>5, PlacedKept DEF Quiet
  <2>2. t = Main /\ q \in job[Main].todo => q \in j.todo
    BY IdleJobs DEF IndInv, ServerOK
  <2>3. Emptied(q)'
    BY <1>2, <1>5, <2>2, EmptiedKept DEF Quiet, Clears
  <2> QED
    BY <2>1, <2>3
<1> QED
  BY <1>1, <1>2, <1>3, <1>4, <1>5, TurnKeeps

-----------------------------------------------------------------------------
\* Turns that only read the run rows and go on.
LEMMA Fields ==
  ASSUME IndInv, NEW t \in Threads
  PROVE  /\ TypeOK /\ job[t] \in Jobs /\ JobOK(t)
         /\ job[t].run \in 0..MaxRuns /\ job[t].todo \subseteq Runs /\ job[t].why \in {"stopped", "timeout"}
         /\ job[t].at \in Dues
         /\ job[t].pc \in RunSteps => job[t].run \in Runs
BY Shapes DEF IndInv, JobOK, Jobs

\* The actions. The monitors' reads.
LEMMA MonitorsKeep ==
  ASSUME IndInv, NEW r \in Runs, MonRead(r) \/ (PollRead(r) /\ run[r].status # "stopping")
  PROVE  IndInv'
<1> DEFINE t == Mon(r)
<1>1. t \in Threads /\ t \notin {Tick, Main} /\ TypeOK /\ r \in 0..MaxRuns
  BY ThreadKinds, RunNumbers DEF IndInv
<1>2. /\ job[t].pc \in {"wait", "poll"} /\ proc[r] = "dead" /\ Quiet /\ run' = run
      /\ To(t, "exit") \/ To(t, "promote") \/ Goes(t, Idle)
  BY DEF MonRead, PollRead, At
<1> HIDE DEF t
<1>3. /\ job[t].run \in Runs
  BY <1>1, <1>2, Fields DEF RunSteps
<1>4. PICK j \in Jobs : /\ Goes(t, j) /\ j.pc \in {"exit", "promote", "idle"} /\ j.todo \subseteq job[t].todo
                        /\ j.pc = "exit" => j.run = job[t].run
  BY <1>1, <1>2, StepJob, IdleJobs DEF Steps
<1>5. job'[t] = j
  BY <1>1, <1>4, Turn
<1>6. JobOK(t)'
  BY <1>3, <1>4, <1>5 DEF JobOK, RunSteps
<1>7. OnwardThread(t, j, r)
  <2>1. proc'[r] = "dead" /\ t = Mon(r)
    BY <1>2 DEF Quiet, t
  <2> QED
    BY <1>1, <1>2, <1>4, <2>1, GoingOn
<1> QED
  BY <1>1, <1>2, <1>4, <1>6, <1>7, QuietKeeps

\* A thread done with its run goes on to the next, to what follows, or rests.
LEMMA OnwardKeeps ==
  ASSUME IndInv, NEW t \in Threads, NEW j \in Jobs, Goes(t, j), Quiet, UNCHANGED run,
         job[t].pc \notin {"idle", "done", "recover", "rglob", "record", "kill", "glob"},
         j.pc \in OnwardSteps, j.pc = "next" => j.todo # {}, j.todo \subseteq job[t].todo
  PROVE  IndInv'
<1>1. TypeOK /\ job'[t] = j /\ 0 \in 0..MaxRuns
  BY Turn, RunNumbers DEF IndInv
<1>2. JobOK(t)'
  BY <1>1 DEF JobOK, OnwardSteps, RunSteps
<1>3. job[t].pc \in {"spawn", "fail"} => job[t].run \in Runs
  BY Fields DEF RunSteps
<1>4. job[t].run \in 0..MaxRuns
  BY Fields
<1>5. OnwardThread(t, j, job[t].run)
  BY GoingOn DEF OnwardSteps
<1> QED
  BY <1>2, <1>4, <1>5, QuietKeeps DEF OnwardSteps

LEMMA NextRunKeeps == ASSUME IndInv, NEW t \in Threads, NextRun(t) PROVE IndInv'
<1> DEFINE r == Min(job[t].todo)
           j == [job[t] EXCEPT !.run = r, !.todo = @ \ {r}]
<1>1. /\ TypeOK /\ job[t] \in Jobs /\ job[t].pc = "next" /\ job[t].todo # {}
      /\ job[t].todo \subseteq Runs
  BY Fields DEF NextRun, At, JobOK
<1>2. r \in Runs /\ r \in 0..MaxRuns
  BY <1>1, MinIn, RunNumbers
<1>3. /\ j \in Jobs /\ j.run = r /\ j.todo = job[t].todo \ {r}
  <2> HIDE DEF r
  <2> QED
    BY <1>1, <1>2 DEF Jobs
<1>4. t # Tick /\ t # Main
  BY <1>1 DEF IndInv, TickOK, ServerOK
<1>5. Quiet /\ run' = run
  BY DEF NextRun
<1>6. CASE run[r].status \in Slots!Active \cup {"pending"}
  <2>1. PICK pc \in {"barrier", "cancel"} :
          Goes(t, [j EXCEPT !.pc = pc]) /\ (pc = "barrier" => run[r].status \in Slots!Active)
    BY <1>6 DEF NextRun
  <2> DEFINE k == [j EXCEPT !.pc = pc]
  <2>2. k \in Jobs /\ k.pc = pc /\ k.run = r /\ k.todo = job[t].todo \ {r}
    <3> HIDE DEF j, r
    <3> QED
      BY <1>3, <2>1 DEF Jobs, Steps
  <2>3. Goes(t, k)
    BY <2>1
  <2> HIDE DEF k, j, r
  <2>4. job'[t] = k
    BY <1>1, <2>2, <2>3, Turn
  <2>5. JobOK(t)'
    BY <1>2, <1>5, <2>1, <2>2, <2>4 DEF JobOK, RunSteps, Early, Slots!Active
  <2>6. OnwardThread(t, k, r)
    BY <1>1, <1>4, <2>1, <2>2, GoingOn
  <2> QED
    BY <1>1, <1>2, <1>4, <1>5, <2>1, <2>2, <2>3, <2>5, <2>6, QuietKeeps
<1>7. CASE run[r].status \notin Slots!Active \cup {"pending"}
  <2>1. Goes(t, Onward(t, j))
    BY <1>7 DEF NextRun
  <2> HIDE DEF j
  <2>2. PICK k \in Jobs : /\ k = Onward(t, j) /\ k.pc \in OnwardSteps
                          /\ k.pc = "next" => k.todo # {}
                          /\ k.todo = j.todo
    BY <1>3, OnwardJob
  <2> QED
    BY <1>1, <1>3, <1>5, <2>1, <2>2, OnwardKeeps
<1> QED
  BY <1>6, <1>7

\* The reads that start a thread's work while the server is up.
LEMMA UpKeeps ==
  ASSUME IndInv, NEW t \in {Tick} \cup Cli, NEW j \in Jobs, NEW q \in 0..MaxRuns, Goes(t, j),
         Quiet, UNCHANGED run, job[t].pc = "idle", server = "up",
         \/ j.pc \in OnwardSteps \cup {"fire", "pause", "resume"} /\ (j.pc = "next" => j.todo # {})
            /\ t # Tick
         \/ j.pc = "barrier" /\ j.run \in Runs /\ j.todo = {} /\ run[j.run].status = "running"
  PROVE  IndInv'
<1>1. t \in Threads /\ TypeOK /\ t # Main
  BY ThreadKinds DEF IndInv
<1>2. job'[t] = j
  BY <1>1, Turn
<1>3. JobOK(t)'
  BY <1>2 DEF Quiet, JobOK, RunSteps, OnwardSteps, Early
<1>4. j.pc = "barrier" => job[Stop(j.run)] = Idle
  BY DEF IndInv, Watch, OnwardSteps
<1>5. OnwardThread(t, j, q)
  BY <1>1, <1>4 DEF OnwardThread, OnwardSteps
<1> QED
  BY <1>1, <1>3, <1>5, QuietKeeps DEF OnwardSteps

LEMMA TickTimeoutKeeps == ASSUME IndInv, NEW r \in Runs, TickTimeout(r) PROVE IndInv'
<1> DEFINE j == [Job("barrier", r) EXCEPT !.why = "timeout"]
<1>1. r \in 0..MaxRuns /\ "barrier" \in Steps
  BY RunNumbers DEF Steps
<1>2. j \in Jobs /\ j.pc = "barrier" /\ j.run = r /\ j.todo = {}
  BY <1>1, NewJob DEF Jobs
<1>3. /\ Goes(Tick, j) /\ Quiet /\ run' = run /\ job[Tick].pc = "idle" /\ server = "up"
      /\ run[r].status = "running"
  BY DEF TickTimeout, At
<1> HIDE DEF j
<1> QED
  BY <1>1, <1>2, <1>3, UpKeeps

\* What a command is to do: its list, and what follows it.
LEMMA Visits ==
  ASSUME NEW t \in Threads, NEW S \in SUBSET Runs, NEW then \in {"rest", "remove"}
  PROVE  \E j \in Jobs : /\ j = Visit(t, S, then) /\ j.pc \in OnwardSteps
                         /\ j.pc = "next" => j.todo # {}
<1> DEFINE k == [Job("next", 0) EXCEPT !.todo = S, !.then = then]
<1>1. Job("next", 0) \in Jobs
  BY NewJob, RunNumbers DEF Steps
<1>2. k \in Jobs
  BY <1>1 DEF Jobs
<1>3. Visit(t, S, then) = Onward(t, k)
  BY DEF Visit
<1> HIDE DEF k
<1> QED
  BY <1>2, <1>3, OnwardJob

\* What a command sets its thread to.
LEMMA CommandJobs ==
  ASSUME NEW t \in Threads, NEW c \in Commands, NEW j \in Command(t, c)
  PROVE  /\ j \in Jobs /\ j.pc \in OnwardSteps \cup {"fire", "pause", "resume"}
         /\ j.pc = "next" => j.todo # {}
<1>1. Unfinished \in SUBSET Runs /\ Slots!Pending \in SUBSET Runs
  BY SlotNames DEF Unfinished
<1>2. CASE c \in {"start", "pause", "resume"}
  <2>1. PICK pc \in {"fire", "pause", "resume"} : j = Job(pc, 0)
    <3>1. CASE c = "start"
      BY <3>1 DEF Command
    <3>2. CASE c \in {"pause", "resume"}
      <4>1. c \notin {"start", "stop", "rm", "kill_active"}
        BY <3>2
      <4>2. Command(t, c) = {Job(c, 0)}
        BY <4>1 DEF Command
      <4> QED
        BY <3>2, <4>2
    <3> QED
      BY <1>2, <3>1, <3>2
  <2>2. pc \in Steps /\ 0 \in 0..MaxRuns
    BY RunNumbers DEF Steps
  <2>3. j \in Jobs /\ j.pc = pc
    BY <2>1, <2>2, NewJob
  <2> QED
    BY <2>3
<1>3. CASE c \in {"stop", "rm", "kill_active"}
  <2>1. \E S \in SUBSET Runs, then \in {"rest", "remove"} : j = Visit(t, S, then)
    <3>1. CASE c = "stop"
      BY <1>1, <3>1 DEF Command
    <3>2. CASE c = "rm"
      BY <1>1, <3>2 DEF Command
    <3>3. CASE c = "kill_active"
      BY <1>1, <3>3 DEF Command
    <3> QED
      BY <1>3, <3>1, <3>2, <3>3
  <2> QED
    BY <2>1, Visits
<1> QED
  BY <1>2, <1>3, CommandsAssumption

LEMMA CliReadKeeps == ASSUME IndInv, NEW t \in Cli, CliRead(t) PROVE IndInv'
<1>0. PICK c \in Commands : \E j \in Command(t, c) : Goes(t, j)
  BY DEF CliRead
<1>1. PICK j \in Command(t, c) : Goes(t, j)
  BY <1>0
<1>2. t \in Threads /\ t # Tick /\ 0 \in 0..MaxRuns
  BY ThreadKinds, RunNumbers
<1> QED
  BY <1>1, <1>2, CommandJobs, UpKeeps DEF CliRead, At

-----------------------------------------------------------------------------
\* Starting a run, from the reserved slot to the monitor.
LEMMA NotListed ==
  ASSUME IndInv, NEW t \in Threads, NEW r, Reserves(t, r)
  PROVE  r \notin job[Main].todo /\ job[t] # Idle
<1>1. job[t] # Idle
  BY IdleJobs DEF Reserves
<1>2. job[Main].todo # {} => server = "recovering"
  BY IdleJobs DEF IndInv, ServerOK
<1> QED
  BY <1>1, <1>2 DEF IndInv, ServerOK

\* A turn of one thread about the run it names, which leaves the definition.
LEMMA RunTurnKeeps ==
  ASSUME IndInv, NEW t \in Threads, NEW j \in Jobs, NEW q \in Runs, Goes(t, j),
         run' \in [Runs -> Rows], proc' \in [Runs -> {"none", "alive", "dead"}],
         agents' \in [Runs -> {"none", "live", "gone"}], left' \in SUBSET Runs,
         UNCHANGED <<def, removed>>, Elsewhere(q), OnwardRun(t, q), OnwardThread(t, j, q),
         run'[q].kind = "scheduled" => run[q].kind = "scheduled", j.pc # "fire",
         JobOK(t)', Placed(q)', Emptied(q)'
  PROVE  IndInv'
<1>1. TypeOK /\ q \in 0..MaxRuns
  BY RunNumbers DEF IndInv
<1>2. Moves(t, j, t, j) /\ Starts(t, t, j, q)
  BY <1>1, Turn DEF Moves, Starts
<1>3. Typed
  BY <1>1 DEF TypeOK, Typed, Defs
<1>4. DefOK'
  <2>1. \A r \in Runs : run'[r].kind = "scheduled" => run[r].kind = "scheduled"
    BY DEF Elsewhere
  <2>2. job'[Tick].pc = "fire" => job[Tick].pc = "fire"
    BY <1>2, ThreadKinds DEF Moves
  <2> QED
    BY <2>1, <2>2, DefKept
<1> QED
  BY <1>1, <1>2, <1>3, <1>4, TurnKeeps

LEMMA SpawnKeeps == ASSUME IndInv, NEW t \in Threads, Spawn(t) PROVE IndInv'
<1>0. PICK r \in Runs : r = job[t].run
  BY Fields DEF Spawn, At, RunSteps
<1>1. /\ TypeOK /\ JobOK(t) /\ job[t].pc = "spawn" /\ r = job[t].run /\ job[t].todo \subseteq Runs
      /\ run[r].status \notin Early /\ ~run[r].pid /\ proc[r] = "none" /\ Reserves(t, r)
  BY <1>0, Fields DEF Spawn, At, JobOK, Reserves
<1>2. UNCHANGED <<def, clock, run, agents, server, crashes, removed, left>>
  BY DEF Spawn
<1>3. PICK pc \in {"record", "fail"} :
        /\ To(t, pc) /\ proc' = IF pc = "record" THEN [proc EXCEPT ![r] = "alive"] ELSE proc
  BY <1>0 DEF Spawn
<1>4. PICK j \in Jobs : Goes(t, j) /\ j.pc = pc /\ j.run = r /\ j.todo = job[t].todo
  BY <1>1, <1>3, StepJob DEF Steps
<1>5. /\ run' \in [Runs -> Rows] /\ proc' \in [Runs -> {"none", "alive", "dead"}]
      /\ agents' \in [Runs -> {"none", "live", "gone"}] /\ left' \in SUBSET Runs
      /\ proc'[r] = IF pc = "record" THEN "alive" ELSE "none"
      /\ \A q \in Runs \ {r} : proc'[q] = proc[q]
  BY <1>1, <1>2, <1>3, Shapes DEF TypeOK
<1>6. Moves(t, j, t, j)
  BY <1>1, <1>4, Turn DEF Moves
<1>7. Elsewhere(r) /\ OnwardRun(t, r)
  BY <1>1, <1>2, <1>5 DEF Elsewhere, OnwardRun
<1>8. OnwardThread(t, j, r)
  BY <1>1, <1>4, GoingOn
<1>9. JobOK(t)'
  BY <1>1, <1>2, <1>4, <1>5, <1>6 DEF JobOK, Moves, RunSteps
<1>10. Placed(r)'
  BY <1>1, <1>4, <1>5, <1>6 DEF Placed, At, Moves
<1>11. Emptied(r)'
  BY <1>1, <1>2, <1>4, <1>6, EmptiedKept DEF Clears
<1> QED
  BY <1>1, <1>2, <1>4, <1>5, <1>7, <1>8, <1>9, <1>10, <1>11, RunTurnKeeps

LEMMA RecordKeeps == ASSUME IndInv, NEW t \in Threads, Record(t) PROVE IndInv'
<1>0. PICK r \in Runs : r = job[t].run
  BY Fields DEF Record, At, RunSteps
<1>1. /\ TypeOK /\ JobOK(t) /\ job[t].pc = "record" /\ r = job[t].run /\ job[t].todo \subseteq Runs
      /\ run[r].status \notin Early /\ ~run[r].pid /\ Reserves(t, r) /\ r \in 0..MaxRuns
  BY <1>0, Fields, RunNumbers DEF Record, At, JobOK, Reserves
<1>2. UNCHANGED <<def, clock, agents, server, crashes, removed, left>>
  BY DEF Record
<1>3. PICK j \in Jobs : /\ j = After(t) /\ j.pc \in OnwardSteps
                        /\ j.pc = "next" => j.todo # {}
                        /\ j.todo = job[t].todo
  BY <1>1, AfterJob
<1>4. OnwardThread(t, j, r)
  BY <1>1, <1>3, GoingOn DEF OnwardSteps
<1>5. CASE run[r].status \in Slots!Active
  <2> DEFINE k == Job("wait", r)
  <2>1. /\ run' = [run EXCEPT ![r].pid = TRUE] /\ proc' = proc
        /\ job' = [job EXCEPT ![t] = j, ![Mon(r)] = k]
    BY <1>0, <1>3, <1>5 DEF Record
  <2>2. k \in Jobs /\ k.pc = "wait" /\ k.run = r
    BY <1>1, NewJob DEF Steps
  <2>3. job[Mon(r)] = Idle /\ Mon(r) \in Threads /\ Mon(r) # Main /\ Mon(r) # Tick
    BY <1>1, ThreadKinds DEF IndInv, Watch
  <2>4. t # Mon(r) /\ r \notin job[Main].todo
    BY <1>1, <2>3, NotListed
  <2> HIDE DEF k
  <2>5. Moves(t, j, Mon(r), k)
    BY <1>1, <2>1, <2>2, <2>3, <2>4, Shapes DEF Moves
  <2>6. /\ run' \in [Runs -> Rows] /\ run'[r].pid /\ run'[r].status = run[r].status
        /\ run'[r].kind = run[r].kind /\ \A q \in Runs \ {r} : run'[q] = run[q]
    BY <1>1, <2>1, PidWrite
  <2>7. Typed
    BY <1>1, <1>2, <2>1, <2>6 DEF Typed, TypeOK, Defs
  <2>8. Elsewhere(r) /\ OnwardRun(t, r)
    BY <1>1, <1>2, <2>1, <2>6 DEF Elsewhere, OnwardRun
  <2>9. r \notin job'[Main].todo
    BY <1>3, <2>3, <2>4, <2>5, ThreadKinds DEF Moves
  <2>10. Mon(r) # Stop(r)
    BY <1>1, ThreadKinds
  <2>11. Starts(t, Mon(r), k, r)
    BY <1>1, <2>2, <2>3, <2>6, <2>9, <2>10 DEF Starts
  <2>12. JobOK(t)'
    BY <1>3, <2>5 DEF JobOK, Moves, OnwardSteps, RunSteps
  <2>13. DefOK'
    <3>1. \A q \in Runs : run'[q].kind = "scheduled" => run[q].kind = "scheduled"
      BY <2>6
    <3>2. job'[Tick].pc = "fire" => job[Tick].pc = "fire"
      BY <1>3, <2>3, <2>5, ThreadKinds DEF Moves, OnwardSteps
    <3> QED
      BY <1>2, <3>1, <3>2, DefKept
  <2>14. Placed(r)'
    BY <1>5, <2>6 DEF Placed
  <2>15. ~Clears(t, r) /\ j.pc # "finish"
    BY <1>1, <1>3 DEF Clears, OnwardSteps
  <2>16. Emptied(r)'
    BY <1>1, <1>2, <1>3, <2>2, <2>3, <2>5, <2>6, <2>15, EmptiedKept
  <2> QED
    BY <1>1, <1>4, <2>2, <2>3, <2>5, <2>7, <2>8, <2>11, <2>12, <2>13, <2>14, <2>16, TurnKeeps
<1>6. CASE run[r].status \notin Slots!Active
  <2>1. proc' = [proc EXCEPT ![r] = "dead"] /\ Goes(t, j) /\ run' = run
    BY <1>0, <1>3, <1>6 DEF Record
  <2>2. /\ run' \in [Runs -> Rows] /\ proc' \in [Runs -> {"none", "alive", "dead"}]
        /\ agents' \in [Runs -> {"none", "live", "gone"}] /\ left' \in SUBSET Runs
        /\ proc'[r] = "dead" /\ \A q \in Runs \ {r} : proc'[q] = proc[q]
    BY <1>1, <1>2, <2>1, Shapes DEF TypeOK
  <2>3. Moves(t, j, t, j)
    BY <1>1, <2>1, Turn DEF Moves
  <2>4. Elsewhere(r) /\ OnwardRun(t, r)
    BY <1>1, <1>2, <2>1, <2>2 DEF Elsewhere, OnwardRun
  <2>5. JobOK(t)'
    BY <1>3, <2>3 DEF JobOK, Moves, OnwardSteps, RunSteps
  <2>6. Placed(r)'
    BY <2>2 DEF Placed
  <2>7. ~Clears(t, r) /\ j.pc \notin {"finish", "fire"}
    BY <1>1, <1>3 DEF Clears, OnwardSteps
  <2>8. Emptied(r)'
    BY <1>1, <1>2, <1>3, <2>1, <2>3, <2>7, EmptiedKept
  <2> QED
    BY <1>1, <1>2, <1>4, <2>1, <2>2, <2>4, <2>5, <2>6, <2>7, <2>8, RunTurnKeeps
<1> QED
  BY <1>5, <1>6

-----------------------------------------------------------------------------
\* Ends of a run.
LEMMA FinishWrite ==
  ASSUME TypeOK, NEW r \in Runs, NEW s \in Slots!Terminal, FinishRun(r, s)
  PROVE  /\ run' \in [Runs -> Rows]
         /\ \A q \in Runs \ {r} : run'[q] = run[q]
         /\ run'[r].status = IF run[r].status \in Slots!Active THEN s ELSE run[r].status
         /\ run'[r].kind = run[r].kind /\ run'[r].pid = run[r].pid /\ run'[r].due = run[r].due
<1>1. s \in Slots!Status
  BY DEF Slots!Status
<1>2. CASE run[r].status \in Slots!Active
  BY <1>1, <1>2, StatusWrite DEF FinishRun
<1>3. CASE run[r].status \notin Slots!Active
  BY <1>3, Shapes DEF FinishRun
<1> QED
  BY <1>2, <1>3

\* The statuses a run ends with.
LEMMA Ends ==
  /\ Slots!Terminal \cap (Early \cup {"running", "stopping"}) = {}
  /\ {"exited", "timeout", "stopped", "canceled"} \subseteq Slots!Terminal
  /\ Slots!Active = {"running", "stopping"}
BY DEF Slots!Terminal, Slots!Active, Early

LEMMA FailSpawnKeeps == ASSUME IndInv, NEW t \in Threads, FailSpawn(t) PROVE IndInv'
<1>0. PICK r \in Runs : r = job[t].run
  BY Fields DEF FailSpawn, At, RunSteps
<1>1. /\ TypeOK /\ job[t].pc = "fail" /\ r = job[t].run /\ job[t].todo \subseteq Runs
      /\ run[r].status \notin Early /\ proc[r] = "none" /\ Reserves(t, r)
  BY <1>0, Fields DEF FailSpawn, At, JobOK, Reserves
<1>2. Quiet /\ FinishRun(r, "exited") /\ To(t, "promote")
  BY <1>0 DEF FailSpawn
<1>3. PICK j \in Jobs : Goes(t, j) /\ j.pc = "promote" /\ j.run = r /\ j.todo = job[t].todo
  BY <1>1, <1>2, StepJob DEF Steps
<1>4. /\ run' \in [Runs -> Rows] /\ \A q \in Runs \ {r} : run'[q] = run[q]
      /\ run'[r].status = IF run[r].status \in Slots!Active THEN "exited" ELSE run[r].status
      /\ run'[r].kind = run[r].kind /\ run'[r].pid = run[r].pid
  BY <1>1, <1>2, FinishWrite, Ends
<1>5. /\ proc' \in [Runs -> {"none", "alive", "dead"}]
      /\ agents' \in [Runs -> {"none", "live", "gone"}] /\ left' \in SUBSET Runs
  BY <1>1, <1>2 DEF Quiet, TypeOK
<1>6. Moves(t, j, t, j)
  BY <1>1, <1>3, Turn DEF Moves
<1>7. Elsewhere(r) /\ OnwardRun(t, r)
  BY <1>1, <1>2, <1>4, Ends DEF Quiet, Elsewhere, OnwardRun, Early
<1>8. OnwardThread(t, j, r)
  BY <1>1, <1>3, GoingOn
<1>9. JobOK(t)'
  BY <1>3, <1>6 DEF JobOK, Moves, RunSteps
<1>10. Placed(r)'
  BY <1>1, <1>2 DEF Quiet, Placed
<1>11. ~Clears(t, r)
  BY <1>1 DEF Clears
<1>12. Emptied(r)'
  BY <1>1, <1>2, <1>3, <1>4, <1>6, <1>11, Ends, EmptiedKept DEF Quiet
<1> QED
  BY <1>1, <1>2, <1>3, <1>4, <1>5, <1>7, <1>8, <1>9, <1>10, <1>12, RunTurnKeeps DEF Quiet

LEMMA ExitKeeps == ASSUME IndInv, NEW r \in Runs, Exit(r) PROVE IndInv'
<1> DEFINE t == Mon(r)
<1>1. /\ TypeOK /\ job[t].pc = "exit" /\ t \in Threads /\ job[t].todo \subseteq Runs
      /\ proc[r] = "dead" /\ run[r].pid /\ t \notin {Tick, Main}
  BY Fields, ThreadKinds, IdleJobs DEF Exit, At, IndInv, Watch
<1>2. Quiet /\ FinishRun(r, "exited") /\ To(t, "promote")
  BY DEF Exit
<1> HIDE DEF t
<1>3. PICK j \in Jobs : Goes(t, j) /\ j.pc = "promote" /\ j.todo = job[t].todo
  BY <1>1, <1>2, StepJob DEF Steps
<1>4. /\ run' \in [Runs -> Rows] /\ \A q \in Runs \ {r} : run'[q] = run[q]
      /\ run'[r].status = IF run[r].status \in Slots!Active THEN "exited" ELSE run[r].status
      /\ run'[r].kind = run[r].kind /\ run'[r].pid = run[r].pid
  BY <1>1, <1>2, FinishWrite, Ends
<1>5. /\ proc' \in [Runs -> {"none", "alive", "dead"}]
      /\ agents' \in [Runs -> {"none", "live", "gone"}] /\ left' \in SUBSET Runs
  BY <1>1, <1>2 DEF Quiet, TypeOK
<1>6. Moves(t, j, t, j)
  BY <1>1, <1>3, Turn DEF Moves
<1>7. Elsewhere(r) /\ OnwardRun(t, r)
  BY <1>1, <1>2, <1>4, Ends DEF Quiet, Elsewhere, OnwardRun, Early
<1>8. OnwardThread(t, j, r)
  BY <1>1, <1>3, GoingOn
<1>9. JobOK(t)'
  BY <1>3, <1>6 DEF JobOK, Moves, RunSteps
<1>10. Placed(r)'
  BY <1>1, <1>2 DEF Quiet, Placed
<1>11. ~Clears(t, r)
  BY <1>1 DEF Clears
<1>12. Emptied(r)'
  BY <1>1, <1>2, <1>3, <1>4, <1>6, <1>11, Ends, EmptiedKept DEF Quiet
<1> QED
  BY <1>1, <1>2, <1>3, <1>4, <1>5, <1>7, <1>8, <1>9, <1>10, <1>12, RunTurnKeeps DEF Quiet

LEMMA PromoteKeeps == ASSUME IndInv, NEW t \in Threads, Promote(t) PROVE IndInv'
<1>1. /\ TypeOK /\ job[t] \in Jobs /\ job[t].pc = "promote" /\ Quiet /\ job[t].todo \subseteq Runs
  BY Fields DEF Promote, At
<1>2. CASE def.status = "active" /\ ~Slots!Full /\ Slots!Pending # {}
  <2>1. PICK r \in Runs : /\ Slots!Oldest(r) /\ SetRun(r, "running")
                          /\ Goes(t, [job[t] EXCEPT !.pc = "spawn", !.run = r])
    BY <1>2 DEF Promote
  <2>2. run[r].status = "pending"
    BY <2>1, SlotNames DEF Slots!Oldest
  <2> DEFINE w == [job[t] EXCEPT !.pc = "spawn", !.run = r]
  <2>3. w \in Jobs /\ w.pc = "spawn" /\ w.run = r /\ w.todo = job[t].todo
    BY <1>1, RunNumbers DEF Jobs, Steps
  <2>4. Goes(t, w)
    BY <2>1
  <2> HIDE DEF w
  <2>5. PICK j \in Jobs : Goes(t, j) /\ j.pc = "spawn" /\ j.run = r /\ j.todo = job[t].todo
    BY <2>3, <2>4
  <2>6. /\ run' \in [Runs -> Rows] /\ \A q \in Runs \ {r} : run'[q] = run[q]
        /\ run'[r].status = "running"
        /\ run'[r].kind = run[r].kind /\ run'[r].pid = run[r].pid
    BY <1>1, <2>1, StatusWrite DEF Slots!Status, Slots!Active
  <2>7. proc[r] = "none" /\ ~run[r].pid
    BY <2>2 DEF IndInv, Watch, Early
  <2>8. /\ proc' \in [Runs -> {"none", "alive", "dead"}]
        /\ agents' \in [Runs -> {"none", "live", "gone"}] /\ left' \in SUBSET Runs
    BY <1>1 DEF Quiet, TypeOK
  <2>9. Moves(t, j, t, j)
    BY <1>1, <2>5, Turn DEF Moves
  <2>10. Elsewhere(r) /\ OnwardRun(t, r)
    BY <1>1, <2>2, <2>6 DEF Quiet, Elsewhere, OnwardRun, Early
  <2>11. OnwardThread(t, j, r)
    BY <1>1, <2>2, <2>5, GoingOn DEF Early
  <2>12. JobOK(t)'
    BY <1>1, <2>5, <2>6, <2>7, <2>9 DEF Quiet, JobOK, Moves, RunSteps, Early
  <2>13. Placed(r)'
    BY <1>1, <2>7 DEF Quiet, Placed
  <2>14. ~Clears(t, r)
    BY <1>1 DEF Clears
  <2>15. Emptied(r)'
    BY <1>1, <2>5, <2>6, <2>9, <2>14, EmptiedKept DEF Quiet
  <2> QED
    BY <1>1, <2>5, <2>6, <2>8, <2>10, <2>11, <2>12, <2>13, <2>15, RunTurnKeeps DEF Quiet
<1>3. CASE ~(def.status = "active" /\ ~Slots!Full /\ Slots!Pending # {})
  <2>1. run' = run /\ Goes(t, After(t))
    BY <1>3 DEF Promote
  <2>2. PICK j \in Jobs : /\ j = After(t) /\ j.pc \in OnwardSteps
                          /\ j.pc = "next" => j.todo # {}
                          /\ j.todo = job[t].todo
    BY <1>1, AfterJob
  <2> QED
    BY <1>1, <2>1, <2>2, OnwardKeeps
<1> QED
  BY <1>2, <1>3

\* The poll monitor of a stopping run whose process died ends the stop itself.
LEMMA PollStopKeeps ==
  ASSUME IndInv, NEW r \in Runs, PollRead(r), run[r].status = "stopping" PROVE IndInv'
<1> DEFINE t == Mon(r)
<1>1. /\ TypeOK /\ job[t].pc = "poll" /\ t \in Threads /\ t \notin {Tick, Main}
      /\ proc[r] = "dead" /\ run[r].pid /\ job[t].run = r /\ job[t].todo \subseteq Runs
  BY Fields, ThreadKinds, IdleJobs DEF PollRead, At, IndInv, Watch
<1>2. Quiet /\ run' = run /\ To(t, "finish")
  BY DEF PollRead
<1>3. server # "down" /\ (server = "recovering" => r \notin job[Main].todo)
  BY <1>1, ThreadKinds, IdleJobs DEF IndInv, ServerOK
<1> HIDE DEF t
<1>4. PICK j \in Jobs : Goes(t, j) /\ j.pc = "finish" /\ j.run = r /\ j.todo = job[t].todo
  BY <1>1, <1>2, StepJob DEF Steps
<1>5. /\ run' \in [Runs -> Rows]
      /\ proc' \in [Runs -> {"none", "alive", "dead"}]
      /\ agents' \in [Runs -> {"none", "live", "gone"}] /\ left' \in SUBSET Runs
  BY <1>1, <1>2, Shapes DEF Quiet, TypeOK
<1>6. Moves(t, j, t, j)
  BY <1>1, <1>4, Turn DEF Moves
<1>7. Elsewhere(r) /\ OnwardRun(t, r)
  BY <1>2 DEF Quiet, Elsewhere, OnwardRun
<1>8. OnwardThread(t, j, r)
  BY <1>1, <1>4, GoingOn
<1>9. JobOK(t)'
  BY <1>2, <1>4, <1>6 DEF JobOK, Moves, RunSteps, Early
<1>10. Placed(r)'
  BY <1>1, <1>2 DEF Quiet, Placed
<1>11. Emptied(r)'
  <2>1. ASSUME NEW u \in Threads, Clears(u, r) PROVE Clears(u, r)'
    BY <1>1, <1>6, <2>1 DEF Moves, Clears
  <2> QED
    BY <1>2, <1>3, <2>1 DEF Quiet, IndInv, Emptied
<1> QED
  BY <1>1, <1>2, <1>4, <1>5, <1>7, <1>8, <1>9, <1>10, <1>11, RunTurnKeeps DEF Quiet

-----------------------------------------------------------------------------
\* Stopping.
LEMMA BarrierKeeps == ASSUME IndInv, NEW t \in Threads, Barrier(t) PROVE IndInv'
<1>0. PICK r \in Runs : r = job[t].run
  BY Fields DEF Barrier, At, RunSteps
<1>1. /\ TypeOK /\ job[t] \in Jobs /\ job[t].pc = "barrier" /\ r = job[t].run /\ r \in 0..MaxRuns
      /\ job[t].todo \subseteq Runs /\ run[r].status \notin Early
  BY <1>0, Fields, RunNumbers DEF Barrier, At, JobOK
<1>2. /\ Quiet
      /\ IF run[r].status = "running" THEN SetRun(r, "stopping") ELSE UNCHANGED run
  BY <1>0 DEF Barrier
<1>3. /\ run' \in [Runs -> Rows] /\ \A q \in Runs \ {r} : run'[q] = run[q]
      /\ run'[r].status = IF run[r].status = "running" THEN "stopping" ELSE run[r].status
      /\ run'[r].kind = run[r].kind /\ run'[r].pid = run[r].pid
  <2>1. CASE run[r].status = "running"
    BY <1>1, <1>2, <2>1, StatusWrite DEF Slots!Status, Slots!Active
  <2>2. CASE run[r].status # "running"
    BY <1>1, <1>2, <2>2, Shapes
  <2> QED
    BY <2>1, <2>2
<1>4. /\ proc' \in [Runs -> {"none", "alive", "dead"}]
      /\ agents' \in [Runs -> {"none", "live", "gone"}] /\ left' \in SUBSET Runs
  BY <1>1, <1>2 DEF Quiet, TypeOK
<1>5. Elsewhere(r) /\ OnwardRun(t, r)
  BY <1>1, <1>2, <1>3 DEF Quiet, Elsewhere, OnwardRun, Early
<1>6. run'[r].status \notin Early \cup {"running"}
  BY <1>1, <1>3 DEF Early
<1> DEFINE w == [job[t] EXCEPT !.pc = "kill"]
<1>7. w \in Jobs /\ w.pc = "kill" /\ w.run = r /\ w.todo = job[t].todo
  BY <1>1 DEF Jobs, Steps
<1>8. job' = IF t = Tick THEN [job EXCEPT ![t] = Idle, ![Stop(r)] = w] ELSE [job EXCEPT ![t] = w]
  BY <1>1 DEF Barrier
<1> HIDE DEF w
<1>9. PICK k \in Jobs : k = w
  BY <1>7
<1>10. CASE t = Tick
  <2>1. /\ Stop(r) \in Threads /\ Stop(r) \notin {Tick, Main} /\ Stop(r) # Mon(r)
        /\ job[Stop(r)] = Idle
    BY <1>1, <1>10, ThreadKinds DEF IndInv, TickOK, At
  <2>2. Moves(t, Idle, Stop(r), k)
    BY <1>1, <1>7, <1>8, <1>9, <1>10, <2>1, Shapes, IdleJobs DEF Moves
  <2>3. server = "up" /\ job[Main] = Idle
    <3>1. job[Tick] # Idle
      BY <1>1, <1>10, IdleJobs
    <3> QED
      BY <3>1, ThreadKinds DEF IndInv, ServerOK, TypeOK
  <2>4. r \notin job'[Main].todo /\ job'[Tick].pc # "barrier"
    BY <1>10, <2>1, <2>2, <2>3, ThreadKinds, IdleJobs DEF Moves
  <2>5. Starts(t, Stop(r), k, r)
    BY <1>6, <1>7, <1>9, <1>10, <2>1, <2>4 DEF Starts
  <2>6. OnwardThread(t, Idle, r)
    BY <1>1, <1>10, GoingOn, IdleJobs
  <2>7. Typed
    BY <1>1, <1>2, <1>3, <1>4 DEF Quiet, Typed, TypeOK, Defs
  <2>8. JobOK(t)'
    BY <2>2, IdleJobs DEF JobOK, Moves, RunSteps
  <2>9. DefOK'
    <3>1. \A q \in Runs : run'[q].kind = "scheduled" => run[q].kind = "scheduled"
      BY <1>3
    <3>2. job'[Tick].pc # "fire"
      BY <1>10, <2>2, IdleJobs DEF Moves
    <3> QED
      BY <1>2, <3>1, <3>2, DefKept DEF Quiet
  <2>10. Placed(r)'
    BY <1>1, <1>2, <1>3, <2>1, <2>2, IdleJobs, PlacedKept DEF Quiet, Slots!Active
  <2>11. Emptied(r)'
    <3>1. Clears(Stop(r), r)'
      BY <1>7, <1>9, <1>10, <2>1, <2>2 DEF Moves, Clears
    <3> QED
      BY <2>1, <3>1 DEF Emptied
  <2> QED
    BY <1>1, <1>5, <2>1, <2>2, <2>5, <2>6, <2>7, <2>8, <2>9, <2>10, <2>11, IdleJobs, TurnKeeps
<1>11. CASE t # Tick
  <2>1. Goes(t, k)
    BY <1>8, <1>9, <1>11 DEF Goes
  <2>2. Moves(t, k, t, k)
    BY <1>1, <2>1, Turn DEF Moves
  <2>3. OnwardThread(t, k, r)
    BY <1>1, <1>7, <1>9, <1>11, GoingOn
  <2>4. JobOK(t)'
    BY <1>1, <1>6, <1>7, <1>9, <2>2 DEF JobOK, Moves, RunSteps
  <2>5. Placed(r)'
    BY <1>1, <1>2, <1>3, <2>2, PlacedKept DEF Quiet, Slots!Active
  <2>6. Emptied(r)'
    <3>1. Clears(t, r)'
      BY <1>7, <1>9, <2>2 DEF Moves, Clears
    <3> QED
      BY <3>1 DEF Emptied
  <2> QED
    BY <1>1, <1>2, <1>3, <1>4, <1>5, <1>7, <1>9, <2>1, <2>3, <2>4, <2>5, <2>6, RunTurnKeeps DEF Quiet
<1> QED
  BY <1>10, <1>11

LEMMA KillKeeps == ASSUME IndInv, NEW t \in Threads, Kill(t) PROVE IndInv'
<1>0. PICK r \in Runs : r = job[t].run
  BY Fields DEF Kill, At, RunSteps
<1>1. /\ TypeOK /\ job[t].pc = "kill" /\ r = job[t].run /\ job[t].todo \subseteq Runs
      /\ run[r].status \notin Early \cup {"running"}
  BY <1>0, Fields DEF Kill, At, JobOK
<1>2. /\ UNCHANGED <<def, clock, run, agents, server, crashes, removed, left>> /\ To(t, "glob")
      /\ proc' = [proc EXCEPT ![r] = IF run[r].pid /\ @ = "alive" THEN "dead" ELSE @]
  BY <1>0 DEF Kill
<1>3. PICK j \in Jobs : Goes(t, j) /\ j.pc = "glob" /\ j.run = r /\ j.todo = job[t].todo
  BY <1>1, <1>2, StepJob DEF Steps
<1>4. /\ proc' \in [Runs -> {"none", "alive", "dead"}]
      /\ proc'[r] = IF run[r].pid /\ proc[r] = "alive" THEN "dead" ELSE proc[r]
      /\ \A q \in Runs \ {r} : proc'[q] = proc[q]
  <2>1. proc \in [Runs -> {"none", "alive", "dead"}]
    BY <1>1 DEF TypeOK
  <2>2. CASE run[r].pid /\ proc[r] = "alive"
    BY <1>2, <2>1, <2>2
  <2>3. CASE ~(run[r].pid /\ proc[r] = "alive")
    BY <1>2, <2>1, <2>3
  <2> QED
    BY <2>2, <2>3
<1>5. /\ run' \in [Runs -> Rows]
      /\ agents' \in [Runs -> {"none", "live", "gone"}] /\ left' \in SUBSET Runs
  BY <1>1, <1>2, Shapes DEF TypeOK
<1>6. Moves(t, j, t, j)
  BY <1>1, <1>3, Turn DEF Moves
<1>7. Elsewhere(r) /\ OnwardRun(t, r)
  BY <1>2, <1>4 DEF Elsewhere, OnwardRun
<1>8. OnwardThread(t, j, r)
  BY <1>1, <1>3, GoingOn
<1>9. JobOK(t)'
  BY <1>1, <1>2, <1>3, <1>6 DEF JobOK, Moves, RunSteps
<1>10. Placed(r)'
  BY <1>1, <1>2, <1>4, <1>6, PlacedKept
<1>11. Emptied(r)'
  <2>1. Clears(t, r)'
    BY <1>3, <1>6 DEF Moves, Clears
  <2> QED
    BY <2>1 DEF Emptied
<1> QED
  BY <1>2, <1>3, <1>4, <1>5, <1>7, <1>8, <1>9, <1>10, <1>11, RunTurnKeeps

LEMMA GlobKeeps == ASSUME IndInv, NEW t \in Threads, Glob(t) PROVE IndInv'
<1>0. PICK r \in Runs : r = job[t].run
  BY Fields DEF Glob, At, RunSteps
<1>1. /\ TypeOK /\ job[t] \in Jobs /\ job[t].pc \in {"glob", "rglob"} /\ r = job[t].run
      /\ job[t].todo \subseteq Runs /\ run[r].status \notin Early \cup {"running"}
  BY <1>0, Fields DEF Glob, At, JobOK
<1>2. UNCHANGED <<def, clock, run, proc, server, crashes, removed, left>>
  BY DEF Glob
<1>3. PICK j \in Jobs :
        /\ Goes(t, j) /\ j.run = r /\ j.todo = job[t].todo /\ agents'[r] # "live"
        /\ agents' \in [Runs -> {"none", "live", "gone"}]
        /\ \A q \in Runs \ {r} : agents'[q] = agents[q]
        /\ \/ j.pc = job[t].pc
           \/ job[t].pc = "glob" /\ j.pc = "finish"
           \/ job[t].pc = "rglob" /\ j.pc = "recover"
  <2>0. agents \in [Runs -> {"none", "live", "gone"}] /\ job \in [Threads -> Jobs]
    BY <1>1, Shapes DEF TypeOK
  <2>1. CASE agents[r] = "live"
    <3>1. agents' = [agents EXCEPT ![r] = "gone"] /\ Goes(t, job[t])
      BY <1>0, <2>0, <2>1 DEF Glob, Goes
    <3> QED
      BY <1>1, <2>0, <3>1
  <2>2. CASE agents[r] # "live"
    <3>1. agents' = agents
      BY <1>0, <2>2 DEF Glob
    <3>2. PICK pc \in {"finish", "recover"} :
            To(t, pc) /\ pc = (IF job[t].pc = "glob" THEN "finish" ELSE "recover")
      BY <1>0, <2>2 DEF Glob, At
    <3>3. PICK j \in Jobs : Goes(t, j) /\ j.pc = pc /\ j.run = r /\ j.todo = job[t].todo
      BY <1>1, <3>2, StepJob DEF Steps
    <3> QED
      BY <1>1, <2>0, <2>2, <3>1, <3>2, <3>3
  <2> QED
    BY <2>1, <2>2
<1>4. /\ run' \in [Runs -> Rows] /\ proc' \in [Runs -> {"none", "alive", "dead"}]
      /\ left' \in SUBSET Runs
  BY <1>1, <1>2, Shapes DEF TypeOK
<1>5. Moves(t, j, t, j)
  BY <1>1, <1>3, Turn DEF Moves
<1>6. Elsewhere(r) /\ OnwardRun(t, r)
  BY <1>2, <1>3 DEF Elsewhere, OnwardRun
<1>7. OnwardThread(t, j, r)
  BY <1>1, <1>3, ThreadKinds DEF OnwardThread, IndInv, ServerOK, TickOK
<1>8. JobOK(t)'
  BY <1>1, <1>2, <1>3, <1>5 DEF JobOK, Moves, RunSteps
<1>9. Placed(r)'
  BY <1>1, <1>2, <1>5, PlacedKept
<1>10. Emptied(r)'
  BY <1>3 DEF Emptied
<1> QED
  BY <1>1, <1>2, <1>3, <1>4, <1>6, <1>7, <1>8, <1>9, <1>10, RunTurnKeeps

LEMMA FinishKeeps == ASSUME IndInv, NEW t \in Threads, Finish(t) PROVE IndInv'
<1>0. PICK r \in Runs : r = job[t].run
  BY Fields DEF Finish, At, RunSteps
<1>1. /\ TypeOK /\ job[t].pc = "finish" /\ r = job[t].run /\ job[t].todo \subseteq Runs
      /\ run[r].status \notin Early \cup {"running"} /\ job[t].why \in Slots!Terminal
  BY <1>0, Fields, Ends DEF Finish, At, JobOK
<1>2. /\ UNCHANGED <<def, clock, proc, agents, server, crashes, removed>> /\ To(t, "promote")
      /\ FinishRun(r, job[t].why)
      /\ left' = IF run[r].status \in Slots!Active /\ run[r].pid /\ proc[r] = "alive"
                 THEN left \cup {r} ELSE left
  BY <1>0 DEF Finish
<1>3. PICK j \in Jobs : Goes(t, j) /\ j.pc = "promote" /\ j.run = r /\ j.todo = job[t].todo
  BY <1>1, <1>2, StepJob DEF Steps
<1>4. PICK s \in Slots!Terminal : s = job[t].why
  BY <1>1
<1>5. /\ run' \in [Runs -> Rows] /\ \A q \in Runs \ {r} : run'[q] = run[q]
      /\ run'[r].status = IF run[r].status \in Slots!Active THEN s ELSE run[r].status
      /\ run'[r].kind = run[r].kind /\ run'[r].pid = run[r].pid
  BY <1>1, <1>2, <1>4, FinishWrite
<1>6. /\ proc' \in [Runs -> {"none", "alive", "dead"}]
      /\ agents' \in [Runs -> {"none", "live", "gone"}]
      /\ left' \in SUBSET Runs /\ left \subseteq left'
  BY <1>1, <1>2 DEF TypeOK
<1>7. Moves(t, j, t, j)
  BY <1>1, <1>3, Turn DEF Moves
<1>8. Elsewhere(r) /\ OnwardRun(t, r)
  BY <1>1, <1>2, <1>4, <1>5, <1>6, Ends DEF Elsewhere, OnwardRun
<1>9. OnwardThread(t, j, r)
  BY <1>1, <1>3, GoingOn
<1>10. JobOK(t)'
  BY <1>3, <1>7 DEF JobOK, Moves, RunSteps
<1>11. ASSUME NEW u \in Threads, job[u].pc \in {"record", "kill", "glob", "rglob"}
       PROVE  job'[u] = job[u]
  BY <1>1, <1>7, <1>11 DEF Moves
<1>12. Placed(r)'
  <2>1. Placed(r)
    BY DEF IndInv
  <2> QED
    BY <1>2, <1>6, <1>11, <2>1 DEF Placed, At
<1>13. Emptied(r)'
  <2>1. Emptied(r)
    BY DEF IndInv
  <2>2. ASSUME NEW u \in Threads, Clears(u, r) PROVE Clears(u, r)'
    BY <1>11, <2>2 DEF Clears
  <2> QED
    BY <1>1, <1>2, <1>6, <2>1, <2>2 DEF Emptied, At
<1> QED
  BY <1>2, <1>3, <1>5, <1>6, <1>8, <1>9, <1>10, <1>12, <1>13, RunTurnKeeps

LEMMA CancelKeeps == ASSUME IndInv, NEW t \in Threads, Cancel(t) PROVE IndInv'
<1>0. PICK r \in Runs : r = job[t].run
  BY Fields DEF Cancel, At, RunSteps
<1>1. /\ TypeOK /\ job[t].pc = "cancel" /\ r = job[t].run /\ job[t].todo \subseteq Runs /\ Quiet
      /\ r \in 0..MaxRuns
  BY <1>0, Fields, RunNumbers DEF Cancel, At
<1>2. PICK k \in Jobs : /\ k = After(t) /\ k.pc \in OnwardSteps
                        /\ k.pc = "next" => k.todo # {}
                        /\ k.todo = job[t].todo
  BY <1>1, AfterJob
<1>3. CASE run[r].status = "pending"
  <2>1. SetRun(r, "canceled") /\ Goes(t, k)
    BY <1>0, <1>2, <1>3 DEF Cancel
  <2>2. /\ run' \in [Runs -> Rows] /\ \A q \in Runs \ {r} : run'[q] = run[q]
        /\ run'[r].status = "canceled"
        /\ run'[r].kind = run[r].kind /\ run'[r].pid = run[r].pid
    BY <1>1, <2>1, StatusWrite DEF Slots!Status, Slots!Terminal
  <2>3. proc[r] = "none"
    BY <1>3 DEF IndInv, Watch, Early
  <2>4. /\ proc' \in [Runs -> {"none", "alive", "dead"}]
        /\ agents' \in [Runs -> {"none", "live", "gone"}] /\ left' \in SUBSET Runs
    BY <1>1 DEF Quiet, TypeOK
  <2>5. Moves(t, k, t, k)
    BY <1>1, <2>1, Turn DEF Moves
  <2>6. Elsewhere(r) /\ OnwardRun(t, r)
    BY <1>1, <1>3, <2>2 DEF Quiet, Elsewhere, OnwardRun, Early
  <2>7. OnwardThread(t, k, r)
    BY <1>1, <1>2, GoingOn DEF OnwardSteps
  <2>8. JobOK(t)'
    BY <1>2, <2>5 DEF JobOK, Moves, RunSteps, OnwardSteps
  <2>9. Placed(r)'
    BY <1>1, <2>3 DEF Quiet, Placed
  <2>10. ~Clears(t, r) /\ k.pc \notin {"finish", "fire"}
    BY <1>1, <1>2 DEF Clears, OnwardSteps
  <2>11. Emptied(r)'
    BY <1>1, <1>2, <2>2, <2>5, <2>10, EmptiedKept DEF Quiet
  <2> QED
    BY <1>1, <2>1, <2>2, <2>4, <2>6, <2>7, <2>8, <2>9, <2>10, <2>11, RunTurnKeeps DEF Quiet
<1>4. CASE run[r].status \in Slots!Active
  <2>1. run' = run /\ To(t, "barrier")
    BY <1>0, <1>4, Ends DEF Cancel
  <2>2. PICK j \in Jobs : Goes(t, j) /\ j.pc = "barrier" /\ j.run = r /\ j.todo = job[t].todo
    BY <1>1, <2>1, StepJob DEF Steps
  <2>3. job'[t] = j
    BY <1>1, <2>2, Turn
  <2>4. JobOK(t)'
    BY <1>4, <2>1, <2>2, <2>3, Ends DEF JobOK, RunSteps, Early
  <2>5. OnwardThread(t, j, r)
    BY <1>1, <2>2, GoingOn DEF IndInv, TickOK, At
  <2> QED
    BY <1>1, <2>1, <2>2, <2>4, <2>5, QuietKeeps
<1>5. CASE run[r].status \notin Slots!Active \cup {"pending"}
  <2>1. run' = run /\ Goes(t, k)
    BY <1>0, <1>2, <1>5 DEF Cancel
  <2> QED
    BY <1>1, <1>2, <2>1, OnwardKeeps
<1> QED
  BY <1>3, <1>4, <1>5

-----------------------------------------------------------------------------
\* The definition: commands and fires.
LEMMA Rests ==
  ASSUME NEW t \in Threads
  PROVE  /\ Rest(t) \in Jobs /\ Rest(t).pc \in {"idle", "done"} /\ Rest(t).todo = {}
         /\ t \notin Cli => Rest(t) = Idle
BY IdleJobs DEF Rest

\* A turn that writes only the thread and the definition.
LEMMA DefTurnKeeps ==
  ASSUME IndInv, NEW t \in Threads, NEW j \in Jobs, Goes(t, j),
         UNCHANGED <<clock, run, proc, agents, server, crashes, left>>,
         def' \in Defs, removed' \in BOOLEAN, removed => removed', DefOK',
         OnwardThread(t, j, 0), JobOK(t)'
  PROVE  IndInv'
<1>1. TypeOK /\ 0 \in 0..MaxRuns /\ 0 \notin Runs
  BY RunNumbers DEF IndInv, Runs
<1>2. Moves(t, j, t, j) /\ Starts(t, t, j, 0)
  BY <1>1, Turn DEF Moves, Starts
<1>3. Typed
  BY <1>1, Shapes DEF TypeOK, Typed
<1>4. Elsewhere(0) /\ OnwardRun(t, 0)
  BY <1>1 DEF Elsewhere, OnwardRun
<1> QED
  BY <1>1, <1>2, <1>3, <1>4, TurnKeeps

LEMMA RemoveKeeps == ASSUME IndInv, NEW t \in Threads, Remove(t) PROVE IndInv'
<1> DEFINE w == [def EXCEPT !.status = "ended", !.next = "none"]
<1>1. TypeOK /\ job[t].pc = "remove" /\ def \in Defs
  BY Shapes DEF Remove, At, IndInv
<1>2. UNCHANGED <<clock, run, proc, agents, server, crashes, left>> /\ removed' = TRUE /\ def' = w
  BY DEF Remove, EndDef
<1>3. w \in Defs /\ w.status = "ended" /\ w.next = "none" /\ w.cadence = def.cadence
  BY <1>1 DEF Defs
<1> HIDE DEF w
<1>4. PICK j \in Jobs : Goes(t, j) /\ j.pc \in {"idle", "done"} /\ j.todo = {}
  BY Rests DEF Remove
<1>5. Moves(t, j, t, j)
  BY <1>1, <1>4, Turn DEF Moves
<1>6. OnwardThread(t, j, 0)
  BY <1>1, <1>4, GoingOn
<1>7. JobOK(t)'
  BY <1>4, <1>5 DEF JobOK, Moves, RunSteps
<1>8. job'[Tick].pc = "fire" => job[Tick].pc = "fire"
  BY <1>4, <1>5, ThreadKinds DEF Moves
<1>9. DefOK'
  BY <1>2, <1>3, <1>8 DEF IndInv, DefOK, At
<1> QED
  BY <1>2, <1>3, <1>4, <1>6, <1>7, <1>9, DefTurnKeeps

LEMMA SetPausedKeeps == ASSUME IndInv, NEW t \in Threads, SetPaused(t) PROVE IndInv'
<1>1. /\ TypeOK /\ job[t].pc \in {"pause", "resume"} /\ def \in Defs
      /\ UNCHANGED <<clock, run, proc, agents, server, crashes, removed, left>>
  BY Shapes DEF SetPaused, At, IndInv
<1>2. PICK j \in Jobs : Goes(t, j) /\ j.pc \in {"idle", "done", "promote"} /\ j.todo \subseteq job[t].todo
  <2>1. Goes(t, Rest(t)) \/ To(t, "promote")
    BY DEF SetPaused
  <2>2. CASE Goes(t, Rest(t))
    BY <2>2, Rests
  <2>3. CASE To(t, "promote")
    BY <1>1, <2>3, StepJob DEF Steps
  <2> QED
    BY <2>1, <2>2, <2>3
<1>3. /\ def' \in Defs /\ def'.status # "ended" /\ def'.cadence = def.cadence
      /\ def.cadence = "once" => def'.next = def.next
  <2>1. CASE def' = [def EXCEPT !.status = "paused"]
    BY <1>1, <2>1 DEF Defs
  <2>2. CASE def' = [def EXCEPT !.status = "active",
                                !.next = IF def.cadence = "cron" THEN "later" ELSE @]
    BY <1>1, <2>2 DEF Defs
  <2> QED
    BY <2>1, <2>2 DEF SetPaused
<1>4. Moves(t, j, t, j)
  BY <1>1, <1>2, Turn DEF Moves
<1>5. OnwardThread(t, j, 0)
  BY <1>1, <1>2, GoingOn
<1>6. JobOK(t)'
  BY <1>2, <1>4 DEF JobOK, Moves, RunSteps
<1>7. job'[Tick].pc = "fire" => job[Tick].pc = "fire"
  BY <1>2, <1>4, ThreadKinds DEF Moves
<1>8. DefOK'
  BY <1>1, <1>3, <1>7 DEF IndInv, DefOK, At
<1>9. removed' = removed /\ removed \in BOOLEAN
  BY <1>1 DEF TypeOK
<1> QED
  BY <1>1, <1>2, <1>3, <1>5, <1>6, <1>8, <1>9, DefTurnKeeps

\* The tick holds a fire that came due: a once loop has not fired before.
LEMMA TickFireKeeps == ASSUME IndInv, TickFire PROVE IndInv'
<1> DEFINE j == [Job("fire", 0) EXCEPT !.at = 2 * clock]
<1>1. TypeOK /\ Job("fire", 0) \in Jobs /\ Job("fire", 0).pc = "fire" /\ Job("fire", 0).todo = {}
  BY NewJob, RunNumbers DEF IndInv, Steps
<1>2. j \in Jobs /\ j.pc = "fire" /\ j.todo = {}
  BY <1>1, DueTimes DEF Jobs
<1>3. Goes(Tick, j) /\ Quiet /\ run' = run /\ server = "up" /\ def.next = "due" /\ Tick \in Threads
      /\ job[Tick].pc = "idle"
  BY ThreadKinds DEF TickFire, At
<1> HIDE DEF j
<1>4. job'[Tick] = j
  BY <1>1, <1>2, <1>3, Turn
<1>5. OnwardThread(Tick, j, 0)
  BY <1>2, <1>3, ThreadKinds DEF OnwardThread
<1>6. JobOK(Tick)'
  BY <1>2, <1>4 DEF JobOK, RunSteps
<1>7. DefOK'
  BY <1>3 DEF Quiet, IndInv, DefOK
<1> QED
  BY <1>1, <1>2, <1>3, <1>5, <1>6, <1>7, DefTurnKeeps, Shapes DEF Quiet, TypeOK

\* A row inserted at capacity waits; otherwise the thread starts it.
LEMMA InsertRow ==
  ASSUME IndInv, NEW t \in Threads, NEW r \in Runs, NEW kind \in Slots!Kinds, NEW d \in Dues,
         Slots!Fresh(r), Insert(r, t, kind, d)
  PROVE  /\ run' \in [Runs -> Rows] /\ \A q \in Runs \ {r} : run'[q] = run[q]
         /\ run'[r].kind = kind /\ run'[r].due = d /\ ~run'[r].pid
         /\ run'[r].status = IF Slots!Full THEN "pending" ELSE "running"
         /\ run[r].status = "absent" /\ ~run[r].pid /\ proc[r] = "none"
         /\ \E j \in Jobs : /\ Goes(t, j) /\ j.todo = {}
                            /\ IF Slots!Full THEN j = Rest(t) ELSE j.pc = "spawn" /\ j.run = r
<1> DEFINE x == [ status |-> IF Slots!Full THEN "pending" ELSE "running",
                  kind |-> kind, due |-> d, pid |-> FALSE ]
<1>1. x \in Rows /\ x.kind = kind /\ x.due = d /\ ~x.pid
      /\ x.status = IF Slots!Full THEN "pending" ELSE "running"
  BY DEF Rows, Slots!Status, Slots!Active
<1>2. run' = [run EXCEPT ![r] = x]
  BY DEF Insert
<1> HIDE DEF x
<1>3. run[r].status = "absent"
  BY DEF Slots!Fresh
<1>4. ~run[r].pid /\ proc[r] = "none"
  BY <1>3 DEF IndInv, Watch, Early
<1>5. \E j \in Jobs : /\ Goes(t, j) /\ j.todo = {}
                      /\ IF Slots!Full THEN j = Rest(t) ELSE j.pc = "spawn" /\ j.run = r
  <2>1. CASE Slots!Full
    BY <2>1, Rests DEF Insert
  <2>2. CASE ~Slots!Full
    <3>1. /\ Job("spawn", r) \in Jobs /\ Job("spawn", r).pc = "spawn" /\ Job("spawn", r).run = r
          /\ Job("spawn", r).todo = {}
      BY NewJob, RunNumbers DEF Steps
    <3>2. Goes(t, Job("spawn", r))
      BY <2>2 DEF Insert
    <3> QED
      BY <2>2, <3>1, <3>2
  <2> QED
    BY <2>1, <2>2
<1> QED
  BY <1>1, <1>2, <1>3, <1>4, <1>5, Shapes DEF IndInv

LEMMA FireManualKeeps == ASSUME IndInv, NEW t \in Threads, FireManual(t) PROVE IndInv'
<1>1. TypeOK /\ job[t].pc = "fire" /\ t # Tick /\ Quiet
  BY DEF IndInv, FireManual, At
<1>2. PICK r \in Runs : Slots!Fresh(r) /\ Insert(r, t, "manual", 2 * clock + 1)
  BY DEF FireManual
<1>3. PICK d \in Dues : d = 2 * clock + 1
  BY <1>1, DueTimes
<1>4. "manual" \in Slots!Kinds
  BY DEF Slots!Kinds
<1>5. /\ run' \in [Runs -> Rows] /\ \A q \in Runs \ {r} : run'[q] = run[q]
      /\ run'[r].kind = "manual" /\ ~run'[r].pid
      /\ run'[r].status = IF Slots!Full THEN "pending" ELSE "running"
      /\ run[r].status = "absent" /\ ~run[r].pid /\ proc[r] = "none"
      /\ \E j \in Jobs : /\ Goes(t, j) /\ j.todo = {}
                         /\ IF Slots!Full THEN j = Rest(t) ELSE j.pc = "spawn" /\ j.run = r
  BY <1>2, <1>3, <1>4, InsertRow
<1>6. PICK j \in Jobs :
        /\ Goes(t, j) /\ j.todo = {}
        /\ j.pc \in {"idle", "done"} \/ (run'[r].status = "running" /\ j.pc = "spawn" /\ j.run = r)
  BY <1>5, Rests
<1>7. /\ proc' \in [Runs -> {"none", "alive", "dead"}]
      /\ agents' \in [Runs -> {"none", "live", "gone"}] /\ left' \in SUBSET Runs
  BY <1>1 DEF Quiet, TypeOK
<1>8. Moves(t, j, t, j)
  BY <1>1, <1>6, Turn DEF Moves
<1>9. Elsewhere(r) /\ OnwardRun(t, r)
  BY <1>1, <1>5 DEF Quiet, Elsewhere, OnwardRun, Early
<1>10. OnwardThread(t, j, r)
  BY <1>1, <1>5, <1>6, GoingOn DEF Early
<1>11. JobOK(t)'
  BY <1>1, <1>5, <1>6, <1>8 DEF Quiet, JobOK, Moves, RunSteps, Early
<1>12. Placed(r)'
  BY <1>1, <1>5 DEF Quiet, Placed
<1>13. ~Clears(t, r) /\ j.pc \notin {"finish", "fire"}
  BY <1>1, <1>6 DEF Clears
<1>14. t # Main \/ job[Main].todo = {}
  BY <1>1 DEF IndInv, ServerOK
<1>15. run'[r].status \notin {"stopping", "stopped", "timeout"}
  BY <1>5
<1>16. Emptied(r)'
  BY <1>1, <1>8, <1>13, <1>15, EmptiedKept DEF Quiet
<1> QED
  BY <1>1, <1>5, <1>6, <1>7, <1>9, <1>10, <1>11, <1>12, <1>13, <1>16, RunTurnKeeps DEF Quiet

\* The schedule moves on with the fire; a once loop ends with its first.
LEMMA AdvanceDef ==
  ASSUME TypeOK, Advance
  PROVE  /\ def' \in Defs /\ removed' \in BOOLEAN /\ (removed => removed')
         /\ def'.cadence = def.cadence
         /\ def'.status = "ended" => removed' \/ def.status = "ended"
         /\ def.cadence = "once" => def'.next = "none"
         /\ def.cadence # "once" => def'.next = "later"
<1>1. def \in Defs /\ removed \in BOOLEAN
  BY Shapes DEF TypeOK
<1>2. CASE def.cadence = "once"
  <2>1. def' = [def EXCEPT !.status = "ended", !.next = "none"] /\ removed' = TRUE
    BY <1>2 DEF Advance, EndDef
  <2> QED
    BY <1>1, <1>2, <2>1 DEF Defs
<1>3. CASE def.cadence # "once"
  <2>1. def' = [def EXCEPT !.next = "later"] /\ removed' = removed
    BY <1>3 DEF Advance
  <2> QED
    BY <1>1, <1>3, <2>1 DEF Defs
<1> QED
  BY <1>2, <1>3

\* After a fire the schedule has moved on, and a once loop is over.
LEMMA FiredDef ==
  ASSUME IndInv, At(Tick, "fire"), Advance, job'[Tick].pc # "fire", NEW q,
         \A r \in Runs \ {q} : run'[r].kind = "scheduled" => run[r].kind = "scheduled"
  PROVE  DefOK'
<1>1. TypeOK
  BY DEF IndInv
<1>2. /\ def'.cadence = def.cadence
      /\ def'.status = "ended" => removed' \/ def.status = "ended"
      /\ def.cadence = "once" => def'.next = "none"
      /\ removed => removed'
  BY <1>1, AdvanceDef
<1>3. ASSUME def.cadence = "once", NEW r \in Runs \ {q} PROVE run'[r].kind # "scheduled"
  BY <1>3 DEF IndInv, DefOK
<1> QED
  BY <1>2, <1>3 DEF IndInv, DefOK, At

\* A fire that folds into a waiting row or inserts one.
LEMMA FireTurnKeeps ==
  ASSUME IndInv, At(Tick, "fire"), Advance, NEW j \in Jobs, NEW q \in Runs, Goes(Tick, j),
         j.todo = {}, run' \in [Runs -> Rows], \A r \in Runs \ {q} : run'[r] = run[r],
         UNCHANGED <<clock, proc, agents, server, crashes, left>>,
         run[q].status \in Early, run'[q].status \in {"pending", "running"}, ~run'[q].pid,
         \/ j.pc = "idle"
         \/ j.pc = "spawn" /\ j.run = q /\ run'[q].status = "running"
  PROVE  IndInv'
<1>1. TypeOK /\ q \in 0..MaxRuns /\ Tick \in Threads /\ job[Tick].pc = "fire"
  BY ThreadKinds, RunNumbers DEF IndInv, At
<1>2. proc[q] = "none" /\ ~run[q].pid
  BY DEF IndInv, Watch
<1>3. def' \in Defs /\ removed' \in BOOLEAN
  BY <1>1, AdvanceDef
<1>4. Moves(Tick, j, Tick, j) /\ Starts(Tick, Tick, j, q)
  BY <1>1, Turn DEF Moves, Starts
<1>5. Typed
  BY <1>1, <1>3 DEF TypeOK, Typed
<1>6. Elsewhere(q) /\ OnwardRun(Tick, q)
  <2>1. removed => removed'
    BY <1>1, AdvanceDef
  <2> QED
    BY <1>2, <2>1 DEF Elsewhere, OnwardRun, Early
<1>7. OnwardThread(Tick, j, q)
  BY <1>1, GoingOn
<1>8. JobOK(Tick)'
  BY <1>2, <1>4 DEF JobOK, Moves, RunSteps, Early
<1>9. DefOK'
  BY <1>4, FiredDef DEF Moves
<1>10. Placed(q)'
  BY <1>2 DEF Placed
<1>11. ~Clears(Tick, q) /\ j.pc # "finish" /\ Tick # Main
  BY <1>1, ThreadKinds DEF Clears
<1>12. Emptied(q)'
  <2>1. removed => removed'
    BY <1>1, AdvanceDef
  <2> QED
    BY <1>1, <1>4, <1>11, <2>1, EmptiedKept
<1> QED
  BY <1>1, <1>4, <1>5, <1>6, <1>7, <1>8, <1>9, <1>10, <1>12, TurnKeeps

LEMMA FireScheduledKeeps == ASSUME IndInv, FireScheduled PROVE IndInv'
<1>1. /\ TypeOK /\ At(Tick, "fire") /\ Tick \in Threads /\ Advance /\ job[Tick].pc = "fire"
      /\ UNCHANGED <<clock, proc, agents, server, crashes, left>>
      /\ Rest(Tick) = Idle /\ Idle \in Jobs /\ Idle.pc = "idle" /\ Idle.todo = {}
  BY ThreadKinds, Rests, IdleJobs DEF IndInv, FireScheduled, At
<1>2. PICK d \in Dues : d = job[Tick].at
  BY <1>1, Fields
<1>3. CASE Slots!Full /\ Overlap = "skip"
  <2>1. Goes(Tick, Idle) /\ run' = run
    BY <1>3 DEF FireScheduled
  <2>2. Moves(Tick, Idle, Tick, Idle)
    BY <1>1, <2>1, Turn DEF Moves
  <2>3. OnwardThread(Tick, Idle, 0)
    BY <1>1, GoingOn
  <2>4. JobOK(Tick)'
    BY <1>1, <2>2 DEF JobOK, Moves, RunSteps
  <2>5. job'[Tick].pc # "fire"
    BY <1>1, <2>2 DEF Moves
  <2>6. \A r \in Runs \ {0} : run'[r].kind = "scheduled" => run[r].kind = "scheduled"
    BY <2>1
  <2>7. DefOK'
    BY <1>1, <2>5, <2>6, FiredDef
  <2>8. def' \in Defs /\ removed' \in BOOLEAN
    BY <1>1, AdvanceDef
  <2>9. removed => removed'
    BY <1>1, AdvanceDef
  <2> QED
    BY <1>1, <2>1, <2>3, <2>4, <2>7, <2>8, <2>9, DefTurnKeeps
<1>4. CASE Slots!Full /\ Overlap # "skip" /\ Slots!Folding # {}
  <2>1. Fold(Tick, d)
    BY <1>2, <1>4 DEF FireScheduled
  <2>2. PICK r \in Slots!Folding : run' = [run EXCEPT ![r].due = IF d < @ THEN d ELSE @]
    BY <2>1 DEF Fold
  <2>3. r \in Runs /\ run[r].status = "pending"
    BY SlotNames
  <2>4. run[r].due \in Dues
    BY <1>1, <2>3, Shapes DEF Rows
  <2>5. PICK e \in Dues : run' = [run EXCEPT ![r].due = e]
    <3>1. CASE d < run[r].due
      BY <2>2, <3>1
    <3>2. CASE ~(d < run[r].due)
      BY <2>2, <2>4, <3>2
    <3> QED
      BY <3>1, <3>2
  <2>6. /\ run' \in [Runs -> Rows] /\ \A q \in Runs \ {r} : run'[q] = run[q]
        /\ run'[r].status = run[r].status /\ run'[r].pid = run[r].pid
    BY <1>1, <2>3, <2>5, DueWrite
  <2>7. Goes(Tick, Idle)
    BY <1>1, <2>1 DEF Fold
  <2>8. run[r].status \in Early /\ run'[r].status \in {"pending", "running"} /\ ~run'[r].pid
    BY <2>3, <2>6 DEF IndInv, Watch, Early
  <2> QED
    BY <1>1, <2>3, <2>6, <2>7, <2>8, FireTurnKeeps
<1>5. CASE ~(Slots!Full /\ Overlap = "skip") /\ ~(Slots!Full /\ Overlap # "skip" /\ Slots!Folding # {})
  <2>1. PICK r \in Runs : Slots!Fresh(r) /\ Insert(r, Tick, "scheduled", d)
    BY <1>2, <1>5 DEF FireScheduled
  <2>2. "scheduled" \in Slots!Kinds
    BY DEF Slots!Kinds
  <2>3. /\ run' \in [Runs -> Rows] /\ \A q \in Runs \ {r} : run'[q] = run[q]
        /\ ~run'[r].pid
        /\ run'[r].status = IF Slots!Full THEN "pending" ELSE "running"
        /\ run[r].status = "absent"
        /\ \E j \in Jobs : /\ Goes(Tick, j) /\ j.todo = {}
                           /\ IF Slots!Full THEN j = Rest(Tick) ELSE j.pc = "spawn" /\ j.run = r
    BY <1>1, <2>1, <2>2, InsertRow
  <2>4. PICK j \in Jobs :
          /\ Goes(Tick, j) /\ j.todo = {}
          /\ j.pc = "idle" \/ (j.pc = "spawn" /\ j.run = r /\ run'[r].status = "running")
    BY <1>1, <2>3
  <2>5. run[r].status \in Early /\ run'[r].status \in {"pending", "running"}
    BY <2>3 DEF Early
  <2> QED
    BY <1>1, <2>3, <2>4, <2>5, FireTurnKeeps
<1> QED
  BY <1>3, <1>4, <1>5

-----------------------------------------------------------------------------
\* The restart's main thread.
LEMMA Recovering ==
  ASSUME IndInv, job[Main].pc \notin {"idle", "done"}
  PROVE  /\ server = "recovering" /\ job[Tick] = Idle
         /\ \A r \in job[Main].todo :
              /\ r \in Runs /\ run[r].status \notin Early
              /\ job[Mon(r)] = Idle /\ job[Stop(r)] = Idle
              /\ \A t \in Threads : ~Reserves(t, r)
<1>1. job[Main] # Idle /\ job[Main] \in Jobs
  BY IdleJobs, ThreadKinds, Fields
<1>2. job[Main].todo \subseteq Runs
  BY <1>1 DEF Jobs
<1> QED
  BY <1>1, <1>2 DEF IndInv, ServerOK

LEMMA RecoverKeeps == ASSUME IndInv, Recover PROVE IndInv'
<1>1. /\ TypeOK /\ job[Main].pc = "recover" /\ job[Main].todo # {} /\ Quiet
      /\ Main \in Threads /\ job[Main] \in Jobs /\ job[Main].todo \subseteq Runs
  BY Fields, ThreadKinds DEF Recover, At, IndInv
<1>2. PICK r \in Runs : r = Min(job[Main].todo)
  BY <1>1, MinIn
<1>3. r \in job[Main].todo /\ r \in 0..MaxRuns
  BY <1>1, <1>2, MinIn, RunNumbers
<1>4. /\ server = "recovering" /\ run[r].status \notin Early
      /\ job[Mon(r)] = Idle /\ job[Stop(r)] = Idle /\ \A t \in Threads : ~Reserves(t, r)
  BY <1>1, <1>3, Recovering
<1> DEFINE w == [job[Main] EXCEPT !.todo = @ \ {r}, !.run = r]
<1>5. w \in Jobs /\ w.pc = "recover" /\ w.todo = job[Main].todo \ {r} /\ w.run = r
  BY <1>1, <1>3 DEF Jobs
<1>6. /\ proc' \in [Runs -> {"none", "alive", "dead"}]
      /\ agents' \in [Runs -> {"none", "live", "gone"}] /\ left' \in SUBSET Runs
  BY <1>1 DEF Quiet, TypeOK
<1>7. CASE run[r].pid /\ proc[r] = "alive"
  <2>1. /\ run' = run
        /\ job' = [job EXCEPT ![Main] = w,
                     ![IF run[r].status = "stopping" THEN Stop(r) ELSE Mon(r)] =
                       Job(IF run[r].status = "stopping" THEN "kill" ELSE "poll", r)]
    BY <1>2, <1>7 DEF Recover
  <2>2. PICK j \in Jobs : j = w
    BY <1>5
  <2> HIDE DEF w
  <2>3. PICK x \in {Stop(r), Mon(r)}, pc \in {"kill", "poll"} :
          /\ job' = [job EXCEPT ![Main] = j, ![x] = Job(pc, r)]
          /\ \/ run[r].status = "stopping" /\ x = Stop(r) /\ pc = "kill"
             \/ run[r].status # "stopping" /\ x = Mon(r) /\ pc = "poll"
    BY <2>1, <2>2
  <2>4. PICK k \in Jobs : k = Job(pc, r) /\ k.pc = pc /\ k.run = r
    BY <1>3, NewJob DEF Steps
  <2>5. /\ x \in Threads /\ x \notin {Main, Tick} /\ job[x] = Idle /\ Mon(r) # Stop(r)
    BY <1>4, ThreadKinds
  <2>6. Moves(Main, j, x, k)
    BY <1>1, <2>3, <2>4, <2>5, Shapes DEF Moves
  <2>7. Elsewhere(r) /\ OnwardRun(Main, r)
    BY <1>1, <2>1 DEF Quiet, Elsewhere, OnwardRun
  <2>8. OnwardThread(Main, j, r)
    BY <1>1, <1>5, <2>2, ThreadKinds DEF OnwardThread
  <2>9. r \notin job'[Main].todo
    BY <1>5, <2>2, <2>6 DEF Moves
  <2>10. Starts(Main, x, k, r)
    <3>1. run'[r].pid /\ run'[r].status = run[r].status
      BY <1>7, <2>1
    <3>2. CASE run[r].status = "stopping"
      <4>1. x = Stop(r) /\ k.pc = "kill" /\ run'[r].status \notin Early \cup {"running"}
        BY <2>3, <2>4, <3>1, <3>2 DEF Early
      <4> QED
        BY <1>4, <2>4, <2>5, <2>9, <4>1 DEF Starts
    <3>3. CASE run[r].status # "stopping"
      <4>1. x = Mon(r) /\ k.pc = "poll"
        BY <2>3, <2>4, <3>3
      <4> QED
        BY <1>4, <2>4, <2>5, <2>9, <3>1, <4>1 DEF Starts
    <3> QED
      BY <3>2, <3>3
  <2>11. Typed
    BY <1>1, <1>6, <2>1, Shapes DEF Quiet, Typed, TypeOK
  <2>12. JobOK(Main)'
    BY <1>5, <2>2, <2>6 DEF JobOK, Moves, RunSteps
  <2>13. DefOK'
    <3>1. job'[Tick].pc = "fire" => job[Tick].pc = "fire"
      BY <2>5, <2>6, ThreadKinds DEF Moves
    <3> QED
      BY <1>1, <2>1, <3>1, DefKept DEF Quiet
  <2>14. Placed(r)'
    BY <1>1, <2>1, <2>5, <2>6, PlacedKept DEF Quiet
  <2>15. Emptied(r)'
    <3>1. CASE run[r].status = "stopping"
      <4>1. Clears(x, r)'
        BY <2>3, <2>4, <2>5, <2>6, <3>1 DEF Clears, Moves
      <4> QED
        BY <2>5, <4>1 DEF Emptied
    <3>2. CASE run[r].status # "stopping"
      <4>1. ~Clears(Main, r) /\ j.pc # "finish" /\ k.pc # "finish"
        BY <1>1, <1>5, <2>2, <2>4 DEF Clears
      <4>2. run'[r].status # "stopping" /\ run'[r].status = run[r].status
        BY <2>1, <3>2
      <4> QED
        BY <1>1, <2>5, <2>6, <4>1, <4>2, EmptiedKept DEF Quiet
    <3> QED
      BY <3>1, <3>2
  <2> QED
    BY <1>1, <1>3, <2>5, <2>6, <2>7, <2>8, <2>10, <2>11, <2>12, <2>13, <2>14, <2>15, TurnKeeps
<1>8. CASE ~(run[r].pid /\ proc[r] = "alive")
  <2>1. /\ FinishRun(r, IF run[r].status = "stopping" THEN "stopped" ELSE "exited")
        /\ Goes(Main, [w EXCEPT !.pc = "rglob"])
    BY <1>2, <1>8 DEF Recover
  <2> DEFINE v == [w EXCEPT !.pc = "rglob"]
  <2>2. Goes(Main, v)
    BY <2>1
  <2>3. v \in Jobs /\ v.pc = "rglob" /\ v.todo = job[Main].todo \ {r} /\ v.run = r
    <3> HIDE DEF w
    <3> QED
      BY <1>5 DEF Jobs, Steps
  <2> HIDE DEF v, w
  <2>4. PICK j \in Jobs : Goes(Main, j) /\ j.pc = "rglob" /\ j.todo = job[Main].todo \ {r} /\ j.run = r
    BY <2>2, <2>3
  <2>5. PICK s \in Slots!Terminal : FinishRun(r, s)
    BY <2>1, Ends
  <2>6. /\ run' \in [Runs -> Rows] /\ \A q \in Runs \ {r} : run'[q] = run[q]
        /\ run'[r].status = IF run[r].status \in Slots!Active THEN s ELSE run[r].status
        /\ run'[r].kind = run[r].kind /\ run'[r].pid = run[r].pid
    BY <1>1, <2>5, FinishWrite
  <2>7. run'[r].status \notin Early \cup {"running"}
    BY <1>4, <2>6, Ends
  <2>8. Moves(Main, j, Main, j)
    BY <1>1, <2>4, Turn DEF Moves
  <2>9. Elsewhere(r) /\ OnwardRun(Main, r)
    BY <1>1, <2>6, <2>7 DEF Quiet, Elsewhere, OnwardRun
  <2>10. OnwardThread(Main, j, r)
    BY <1>1, <2>4, ThreadKinds DEF OnwardThread
  <2>11. JobOK(Main)'
    BY <2>4, <2>7, <2>8 DEF JobOK, Moves, RunSteps
  <2>12. Placed(r)'
    <3>1. ASSUME NEW u \in Threads, job[u].pc = "record" PROVE job'[u] = job[u]
      BY <1>1, <2>8, <3>1 DEF Moves
    <3>2. Placed(r)
      BY DEF IndInv
    <3> QED
      BY <1>1, <1>8, <3>1, <3>2 DEF Quiet, Placed, At
  <2>13. Emptied(r)'
    <3>1. Clears(Main, r)'
      BY <2>4, <2>8 DEF Moves, Clears
    <3> QED
      BY <1>1, <3>1 DEF Emptied
  <2> QED
    BY <1>1, <1>6, <2>4, <2>6, <2>9, <2>10, <2>11, <2>12, <2>13, RunTurnKeeps DEF Quiet
<1> QED
  BY <1>7, <1>8

LEMMA RescheduleKeeps == ASSUME IndInv, Reschedule PROVE IndInv'
<1>1. /\ TypeOK /\ job[Main].pc = "recover" /\ job[Main].todo = {} /\ Main \in Threads
      /\ UNCHANGED <<clock, run, proc, agents, server, crashes, left>>
      /\ Main # Tick /\ Main \notin Cli /\ Tick \in Threads
  BY ThreadKinds DEF Reschedule, At, IndInv
<1>2. job[Tick] = Idle
  BY <1>1, Recovering
<1>3. PICK j \in Jobs : Goes(Main, j) /\ j.pc \in {"promote", "serve"} /\ j.todo = {}
  <2> DEFINE w == [Job("promote", 0) EXCEPT !.then = "serve"]
  <2>1. /\ Job("promote", 0) \in Jobs /\ Job("promote", 0).pc = "promote" /\ Job("promote", 0).todo = {}
        /\ Job("serve", 0) \in Jobs /\ Job("serve", 0).pc = "serve" /\ Job("serve", 0).todo = {}
    BY NewJob, RunNumbers DEF Steps
  <2>2. w \in Jobs /\ w.pc = "promote" /\ w.todo = {}
    BY <2>1 DEF Jobs
  <2>3. Goes(Main, w) \/ Goes(Main, Job("serve", 0))
    BY DEF Reschedule
  <2> HIDE DEF w
  <2> QED
    BY <2>1, <2>2, <2>3
<1>4. Moves(Main, j, Main, j)
  BY <1>1, <1>3, Turn DEF Moves
<1>5. OnwardThread(Main, j, 0)
  BY <1>1, <1>3 DEF OnwardThread
<1>6. JobOK(Main)'
  BY <1>3, <1>4 DEF JobOK, Moves, RunSteps
<1>7. job'[Tick] = Idle
  BY <1>1, <1>2, <1>4 DEF Moves
<1>8. (def' \in Defs /\ removed' \in BOOLEAN) /\ (removed => removed') /\ DefOK'
  <2>1. CASE def.status = "ended" \/ def.next # "due"
    <3>1. def' = def /\ removed' = removed
      BY <2>1 DEF Reschedule
    <3>2. def' \in Defs /\ removed' \in BOOLEAN
      BY <1>1, <3>1, Shapes DEF TypeOK
    <3>3. DefOK'
      <4>1. \A r \in Runs : run'[r].kind = "scheduled" => run[r].kind = "scheduled"
        BY <1>1
      <4>2. job'[Tick].pc = "fire" => job[Tick].pc = "fire"
        BY <1>2, <1>7
      <4> QED
        BY <3>1, <4>1, <4>2, DefKept
    <3> QED
      BY <3>1, <3>2, <3>3
  <2>2. CASE ~(def.status = "ended" \/ def.next # "due")
    <3>1. Advance
      BY <2>2 DEF Reschedule
    <3>2. def' \in Defs /\ removed' \in BOOLEAN /\ (removed => removed')
      BY <1>1, <3>1, AdvanceDef
    <3>3. /\ def'.cadence = def.cadence
          /\ def'.status = "ended" => removed' \/ def.status = "ended"
          /\ def.cadence = "once" => def'.next = "none"
      BY <1>1, <3>1, AdvanceDef
    <3>4. DefOK'
      BY <1>1, <1>7, <3>2, <3>3, IdleJobs DEF IndInv, DefOK, At
    <3> QED
      BY <3>2, <3>4
  <2> QED
    BY <2>1, <2>2
<1> QED
  BY <1>1, <1>3, <1>5, <1>6, <1>8, DefTurnKeeps

LEMMA ServeKeeps == ASSUME IndInv, Serve PROVE IndInv'
<1>1. /\ TypeOK /\ job[Main].pc = "serve" /\ Main \in Threads /\ Idle \in Jobs
      /\ UNCHANGED <<def, clock, run, proc, agents, crashes, removed, left>>
      /\ server' = "up" /\ Goes(Main, Idle)
      /\ Idle.pc = "idle" /\ Idle.todo = {}
  BY ThreadKinds, IdleJobs DEF Serve, At, IndInv
<1>2. Moves(Main, Idle, Main, Idle)
  BY <1>1, Turn DEF Moves
<1>3. job[Main].todo = {} /\ server = "recovering" /\ job[Tick] = Idle
  <2>1. job[Main].todo = {}
    BY <1>1 DEF IndInv, ServerOK
  <2> QED
    BY <1>1, <2>1, Recovering
<1>4. \A u \in Threads \ {Main} : job'[u] = job[u]
  BY <1>2 DEF Moves
<1>5. job'[Main] = Idle /\ job' \in [Threads -> Jobs]
  BY <1>2 DEF Moves
<1>6. TypeOK'
  BY <1>1, <1>5 DEF TypeOK, Jobs
<1>7. \A t \in Threads : JobOK(t)'
  BY <1>1, <1>4, <1>5 DEF IndInv, JobOK, RunSteps
<1>8. Unique'
  BY <1>1, <1>4, <1>5 DEF IndInv, Unique, Reserves
<1>9. TickOK' /\ DefOK'
  BY <1>1, <1>3, <1>4, ThreadKinds DEF IndInv, TickOK, DefOK, At
<1>10. ServerOK'
  BY <1>1, <1>5 DEF ServerOK
<1>11. ASSUME NEW r \in Runs PROVE Watch(r)' /\ Placed(r)' /\ Emptied(r)'
  <2>1. Watch(r) /\ Placed(r) /\ Emptied(r)
    BY DEF IndInv
  <2>2. job'[Mon(r)] = job[Mon(r)] /\ job'[Stop(r)] = job[Stop(r)]
    BY <1>4, ThreadKinds
  <2>3. Watch(r)'
    BY <1>1, <2>1, <2>2 DEF Watch, At
  <2>4. Placed(r)'
    BY <1>1, <1>4, <2>1 DEF Placed, At
  <2>5. ASSUME NEW u \in Threads, Clears(u, r) PROVE Clears(u, r)'
    BY <1>1, <1>4, <2>5 DEF Clears
  <2>6. Emptied(r)'
    BY <1>1, <1>3, <1>4, <1>5, <2>1, <2>5 DEF Emptied, At
  <2> QED
    BY <2>3, <2>4, <2>6
<1> QED
  BY <1>6, <1>7, <1>8, <1>9, <1>10, <1>11 DEF IndInv

\* A server that is down has no thread at work.
LEMMA RestartKeeps == ASSUME IndInv, Restart PROVE IndInv'
<1> DEFINE w == [Job("recover", 0) EXCEPT !.todo = Slots!Holding]
<1>1. /\ TypeOK /\ server = "down" /\ server' = "recovering" /\ Goes(Main, w)
      /\ UNCHANGED <<def, clock, run, proc, agents, crashes, removed, left>>
      /\ Main \in Threads /\ Main # Tick /\ Main \notin Cli /\ Tick \in Threads /\ Tick \notin Cli
  BY ThreadKinds DEF Restart, IndInv
<1>2. /\ Job("recover", 0) \in Jobs /\ Job("recover", 0).pc = "recover"
  BY NewJob, RunNumbers DEF Steps
<1>3. w \in Jobs /\ w.pc = "recover" /\ w.todo = {r \in Runs : run[r].status \in Slots!Active}
  <2>1. Slots!Holding \in SUBSET Runs
    BY SlotNames
  <2> QED
    BY <1>2, <2>1, SlotNames DEF Jobs
<1> HIDE DEF w
<1>4. PICK j \in Jobs : j = w
  BY <1>3
<1>5. Moves(Main, j, Main, j)
  BY <1>1, <1>4, Turn DEF Moves
<1>6. ASSUME NEW t \in Threads PROVE job[t].pc \in {"idle", "done"} /\ (t \notin Cli => job[t] = Idle)
  BY <1>1, <1>6, IdleJobs DEF IndInv, ServerOK
<1>7. job'[Main] = j /\ job' \in [Threads -> Jobs] /\ \A u \in Threads \ {Main} : job'[u] = job[u]
  BY <1>5 DEF Moves
<1>8. \A t \in Threads : job'[t].pc \in {"idle", "done", "recover"}
  BY <1>3, <1>4, <1>6, <1>7
<1>9. TypeOK'
  BY <1>1, <1>7 DEF TypeOK, Jobs
<1>10. \A t \in Threads : JobOK(t)'
  BY <1>8 DEF JobOK, RunSteps
<1>11. Unique'
  BY <1>8 DEF Unique, Reserves
<1>12. TickOK' /\ DefOK'
  BY <1>1, <1>6, <1>7, IdleJobs DEF IndInv, TickOK, DefOK, At
<1>13. ServerOK'
  <2>1. ASSUME NEW r \in job'[Main].todo
        PROVE  /\ run'[r].status \notin Early
               /\ job'[Mon(r)] = Idle /\ job'[Stop(r)] = Idle
               /\ \A t \in Threads : ~Reserves(t, r)'
    <3>1. r \in Runs /\ run[r].status \in Slots!Active
      BY <1>3, <1>4, <1>7, <2>1
    <3>2. job'[Mon(r)] = Idle /\ job'[Stop(r)] = Idle
      BY <1>6, <1>7, <3>1, ThreadKinds
    <3>3. \A t \in Threads : ~Reserves(t, r)'
      BY <1>8 DEF Reserves
    <3> QED
      BY <1>1, <3>1, <3>2, <3>3, Ends DEF Early
  <2> QED
    BY <1>1, <1>3, <1>4, <1>6, <1>7, <2>1 DEF ServerOK, Reserves
<1>14. ASSUME NEW r \in Runs PROVE Watch(r)' /\ Placed(r)' /\ Emptied(r)'
  <2>1. Watch(r) /\ Placed(r) /\ Emptied(r)
    BY DEF IndInv
  <2>2. job'[Mon(r)] = job[Mon(r)] /\ job'[Stop(r)] = job[Stop(r)]
    BY <1>7, ThreadKinds
  <2>3. Watch(r)'
    BY <1>1, <2>1, <2>2 DEF Watch, At
  <2>4. Placed(r)'
    BY <1>1, <1>6, <2>1 DEF Placed, At
  <2>5. \A u \in Threads : ~Clears(u, r) /\ ~(At(u, "finish") /\ job[u].run = r)
    BY <1>6 DEF Clears, At
  <2>6. \A u \in Threads : ~At(u, "finish")'
    BY <1>8 DEF At
  <2>7. run'[r].status = "stopping" => r \in job'[Main].todo
    BY <1>1, <1>3, <1>4, <1>7, Ends
  <2>8. Emptied(r)'
    BY <1>1, <2>1, <2>5, <2>6, <2>7 DEF Emptied
  <2> QED
    BY <2>3, <2>4, <2>8
<1> QED
  BY <1>9, <1>10, <1>11, <1>12, <1>13, <1>14 DEF IndInv

LEMMA CrashKeeps == ASSUME IndInv, Crash PROVE IndInv'
<1>1. /\ TypeOK /\ server' = "down" /\ crashes' = crashes + 1 /\ crashes < MaxCrashes
      /\ UNCHANGED <<def, clock, run, proc, agents, removed>>
      /\ job' = [t \in Threads |-> IF job[t] = Idle THEN Idle ELSE Rest(t)]
      /\ left' = left \cup {r \in Runs :
           \/ proc[r] = "alive" /\ ~run[r].pid
           \/ agents[r] = "live" /\ run[r].status \in {"stopped", "timeout"}}
  BY DEF Crash, IndInv
<1>2. ASSUME NEW t \in Threads
      PROVE  /\ job'[t] \in Jobs /\ job'[t].pc \in {"idle", "done"} /\ job'[t].todo = {}
             /\ job'[t] = Idle \/ (t \in Cli /\ job'[t] = Done)
  <2>1. job'[t] = Idle \/ job'[t] = Rest(t)
    BY <1>1
  <2> QED
    BY <2>1, IdleJobs DEF Rest
<1>3. job' \in [Threads -> Jobs]
  BY <1>1, <1>2
<1>4. TypeOK'
  <2>1. crashes' \in 0..MaxCrashes
    BY <1>1, CrashesAssumption DEF TypeOK
  <2>2. left' \in SUBSET Runs
    BY <1>1 DEF TypeOK
  <2> QED
    BY <1>1, <1>3, <2>1, <2>2 DEF TypeOK, Jobs
<1>5. \A t \in Threads : JobOK(t)'
  BY <1>2 DEF JobOK, RunSteps
<1>6. Unique'
  BY <1>2 DEF Unique, Reserves
<1>7. TickOK' /\ ServerOK'
  BY <1>1, <1>2, ThreadKinds DEF TickOK, ServerOK, At
<1>8. DefOK'
  BY <1>1, <1>2, ThreadKinds DEF IndInv, DefOK, At
<1>9. ASSUME NEW r \in Runs PROVE Watch(r)' /\ Placed(r)' /\ Emptied(r)'
  <2>1. Watch(r) /\ Placed(r)
    BY DEF IndInv
  <2>2. job'[Mon(r)] = Idle /\ job'[Stop(r)] = Idle
    BY <1>2, ThreadKinds
  <2>3. Watch(r)'
    BY <1>1, <2>1, <2>2, IdleJobs DEF Watch, At
  <2>4. Placed(r)'
    <3>1. \A t \in Threads : At(t, "record") /\ job[t].run = r => ~run[r].pid
      BY DEF IndInv, JobOK, At
    <3> QED
      BY <1>1, <2>1, <3>1 DEF Placed
  <2>5. \A u \in Threads : ~At(u, "finish")'
    BY <1>2 DEF At
  <2>6. Emptied(r)'
    BY <1>1, <2>5 DEF Emptied
  <2> QED
    BY <2>3, <2>4, <2>6
<1> QED
  BY <1>4, <1>5, <1>6, <1>7, <1>8, <1>9 DEF IndInv

-----------------------------------------------------------------------------
\* The processes, their agents and the clock.
LEMMA AdmitKeeps == ASSUME IndInv, NEW r \in Runs, Admit(r) PROVE IndInv'
<1>1. /\ UNCHANGED <<def, clock, run, proc, job, server, crashes, removed, left>>
      /\ agents' = [agents EXCEPT ![r] = "live"]
      /\ def.status # "ended" => run[r].status = "running"
  BY DEF Admit
<1>2. /\ agents' \in [Runs -> {"none", "live", "gone"}]
      /\ \A q \in Runs \ {r} : agents'[q] = agents[q]
  BY <1>1 DEF IndInv, TypeOK
<1>3. TypeOK'
  BY <1>1, <1>2 DEF IndInv, TypeOK
<1>4. /\ Unique' /\ TickOK' /\ ServerOK' /\ DefOK' /\ (\A t \in Threads : JobOK(t)')
      /\ \A q \in Runs : Watch(q)' /\ Placed(q)'
  BY <1>1 DEF IndInv, Unique, Reserves, TickOK, ServerOK, DefOK, JobOK, Watch, Placed, At
<1>5. ASSUME NEW q \in Runs PROVE Emptied(q)'
  <2>1. CASE q # r
    BY <1>1, <1>2, <2>1 DEF IndInv, Emptied, Clears, At
  <2>2. CASE q = r /\ def.status = "ended"
    BY <1>1, <2>2 DEF IndInv, DefOK, Emptied
  <2>3. CASE q = r /\ def.status # "ended"
    <3>1. \A t \in Threads : ~(At(t, "finish") /\ job[t].run = r)
      BY <1>1, <2>3 DEF IndInv, JobOK, At
    <3> QED
      BY <1>1, <2>3, <3>1 DEF Emptied, At
  <2> QED
    BY <2>1, <2>2, <2>3
<1> QED
  BY <1>3, <1>4, <1>5 DEF IndInv

LEMMA ProcExitsKeeps == ASSUME IndInv, NEW r \in Runs, ProcExits(r) PROVE IndInv'
<1>1. /\ UNCHANGED <<def, clock, run, agents, job, server, crashes, removed, left>>
      /\ proc[r] = "alive" /\ proc' = [proc EXCEPT ![r] = "dead"]
  BY DEF ProcExits
<1>2. /\ proc' \in [Runs -> {"none", "alive", "dead"}] /\ proc'[r] = "dead"
      /\ \A q \in Runs \ {r} : proc'[q] = proc[q]
  BY <1>1 DEF IndInv, TypeOK
<1>3. TypeOK'
  BY <1>1, <1>2 DEF IndInv, TypeOK
<1>4. /\ Unique' /\ TickOK' /\ ServerOK' /\ DefOK' /\ \A q \in Runs : Emptied(q)'
  BY <1>1 DEF IndInv, Unique, Reserves, TickOK, ServerOK, DefOK, Emptied, Clears, At
<1>5. ASSUME NEW t \in Threads PROVE JobOK(t)'
  <2>1. JobOK(t)
    BY DEF IndInv
  <2>2. CASE job[t].run # r
    <3>1. job[t].pc \in {"spawn", "fail"} => job[t].run \in Runs
      BY Fields DEF RunSteps
    <3> QED
      BY <1>1, <1>2, <2>1, <2>2, <3>1 DEF JobOK
  <2>3. CASE job[t].run = r
    BY <1>1, <2>1, <2>3 DEF JobOK
  <2> QED
    BY <2>2, <2>3
<1>6. ASSUME NEW q \in Runs PROVE Watch(q)' /\ Placed(q)'
  <2>1. Watch(q) /\ Placed(q)
    BY DEF IndInv
  <2>2. CASE q = r
    BY <1>1, <1>2, <2>1, <2>2 DEF Watch, Placed, At
  <2>3. CASE q # r
    BY <1>1, <1>2, <2>1, <2>3 DEF Watch, Placed, At
  <2> QED
    BY <2>2, <2>3
<1> QED
  BY <1>3, <1>4, <1>5, <1>6 DEF IndInv

LEMMA ComeDueKeeps == ASSUME IndInv, ComeDue PROVE IndInv'
<1>1. /\ UNCHANGED <<run, proc, agents, job, server, crashes, removed, left>>
      /\ def.next = "later" /\ def' = [def EXCEPT !.next = "due"]
      /\ clock' = clock + 1 /\ clock < MaxFires
  BY DEF ComeDue
<1>2. /\ def' \in Defs /\ def'.status = def.status /\ def'.cadence = def.cadence
  BY <1>1, Shapes DEF IndInv, Defs
<1>3. TypeOK'
  <2>1. clock' \in 0..MaxFires
    BY <1>1, FiresAssumption DEF IndInv, TypeOK
  <2> QED
    BY <1>1, <1>2, <2>1 DEF IndInv, TypeOK, Defs
<1>4. DefOK'
  BY <1>1, <1>2 DEF IndInv, DefOK
<1>5. /\ Unique' /\ TickOK' /\ ServerOK' /\ (\A t \in Threads : JobOK(t)')
      /\ \A q \in Runs : Watch(q)' /\ Placed(q)' /\ Emptied(q)'
  BY <1>1 DEF IndInv, Unique, Reserves, TickOK, ServerOK, JobOK, Watch, Placed, Emptied, Clears, At
<1> QED
  BY <1>3, <1>4, <1>5 DEF IndInv

-----------------------------------------------------------------------------
\* The invariant holds at the start,
LEMMA StartsFit == ASSUME Init PROVE IndInv
<1>1. /\ run = [r \in Runs |-> [status |-> "absent", kind |-> "none", due |-> 0, pid |-> FALSE]]
      /\ proc = [r \in Runs |-> "none"] /\ agents = [r \in Runs |-> "none"]
      /\ job = [t \in Threads |-> Idle] /\ server = "up" /\ removed = FALSE /\ left = {}
  BY DEF Init
<1>2. \A t \in Threads : job[t] = Idle
  BY <1>1
<1>3. Idle.pc = "idle" /\ Idle.todo = {} /\ Idle \in Jobs
  BY IdleJobs
<1>4. run \in [Runs -> Rows] /\ \A r \in Runs : run[r].status = "absent" /\ ~run[r].pid
  <2>1. [status |-> "absent", kind |-> "none", due |-> 0, pid |-> FALSE] \in Rows
    BY DueTimes DEF Rows, Slots!Status
  <2> QED
    BY <1>1, <2>1
<1>5. TypeOK
  <2>1. def \in Defs /\ clock \in 0..MaxFires /\ crashes \in 0..MaxCrashes
    BY FiresAssumption, CrashesAssumption DEF Init, Defs
  <2>2. job \in [Threads -> Jobs]
    BY <1>1, <1>3
  <2> QED
    BY <1>1, <1>4, <2>1, <2>2 DEF TypeOK, Defs, Rows, Jobs
<1>6. \A t \in Threads : JobOK(t)
  BY <1>2, <1>3 DEF JobOK, RunSteps
<1>7. Unique /\ TickOK /\ ServerOK
  BY <1>1, <1>2, <1>3, ThreadKinds DEF Unique, Reserves, TickOK, ServerOK, At
<1>8. DefOK
  <2>1. \A r \in Runs : run[r].kind = "none"
    BY <1>1
  <2>2. def.status = "active"
    BY DEF Init
  <2> QED
    BY <2>1, <2>2 DEF DefOK
<1>9. \A r \in Runs : Watch(r) /\ Placed(r) /\ Emptied(r)
  BY <1>1, <1>2, <1>3, <1>4, ThreadKinds DEF Watch, Placed, Emptied, At
<1> QED
  BY <1>5, <1>6, <1>7, <1>8, <1>9 DEF IndInv

\* and every step keeps it.
LEMMA StepsFit == ASSUME IndInv, [Next]_vars PROVE IndInv'
<1>1. CASE ComeDue \/ TickFire \/ Crash \/ Restart
  BY <1>1, ComeDueKeeps, TickFireKeeps, CrashKeeps, RestartKeeps
<1>2. ASSUME NEW t \in Threads, ThreadStep(t) PROVE IndInv'
  <2>1. CASE FireManual(t) \/ Spawn(t) \/ Record(t) \/ FailSpawn(t) \/ Promote(t)
    BY <2>1, FireManualKeeps, SpawnKeeps, RecordKeeps, FailSpawnKeeps, PromoteKeeps
  <2>2. CASE Barrier(t) \/ Kill(t) \/ Glob(t) \/ Finish(t)
    BY <2>2, BarrierKeeps, KillKeeps, GlobKeeps, FinishKeeps
  <2>3. CASE NextRun(t) \/ Cancel(t) \/ Remove(t) \/ SetPaused(t)
    BY <2>3, NextRunKeeps, CancelKeeps, RemoveKeeps, SetPausedKeeps
  <2>4. CASE FireScheduled \/ Recover \/ Reschedule \/ Serve
    BY <2>4, FireScheduledKeeps, RecoverKeeps, RescheduleKeeps, ServeKeeps
  <2>5. ASSUME NEW r \in Runs, MonRead(r) \/ PollRead(r) \/ Exit(r) PROVE IndInv'
    BY <2>5, MonitorsKeep, PollStopKeeps, ExitKeeps
  <2> QED
    BY <1>2, <2>1, <2>2, <2>3, <2>4, <2>5 DEF ThreadStep
<1>3. ASSUME NEW t \in Cli, CliRead(t) PROVE IndInv'
  BY <1>3, CliReadKeeps
<1>4. ASSUME NEW r \in Runs, TickTimeout(r) \/ Admit(r) \/ ProcExits(r) PROVE IndInv'
  BY <1>4, TickTimeoutKeeps, AdmitKeeps, ProcExitsKeeps
<1>5. CASE UNCHANGED vars
  <2>1. UNCHANGED <<def, clock, run, proc, agents, job, server, crashes, removed, left>>
    BY <1>5 DEF vars
  <2> QED
    BY <2>1 DEF IndInv, TypeOK, Unique, Reserves, TickOK, ServerOK, DefOK, JobOK, Watch, Placed,
                Emptied, Clears, At
<1> QED
  BY <1>1, <1>2, <1>3, <1>4, <1>5 DEF Next

\* Every row, process and thread fits the others, whatever the commands, the
\* fires, the crashes and the restarts: the inductive invariant.
THEOREM RunsFit == Spec => []IndInv
<1>1. Init => IndInv
  BY StartsFit
<1>2. IndInv /\ [Next]_vars => IndInv'
  BY StepsFit
<1> QED
  BY <1>1, <1>2, PTL DEF Spec

\* Every variable keeps its shape, and a run its known statuses.
THEOREM TypeCorrect == Spec => []TypeOK
<1>1. IndInv => TypeOK
  BY DEF IndInv
<1> QED
  BY <1>1, RunsFit, PTL

\* A reserved run is started by one thread, once (spawn_run, claim_pending_run).
THEOREM StartedOnce == Spec => []SpawnedOnce
<1>1. IndInv => SpawnedOnce
  <2> SUFFICES ASSUME IndInv, NEW t \in Threads, NEW u \in Threads,
                      job[t].pc \in {"spawn", "record"}, job[u].pc \in {"spawn", "record"},
                      job[t].run = job[u].run
               PROVE  t = u /\ (At(t, "spawn") => proc[job[t].run] = "none")
    BY DEF SpawnedOnce
  <2>1. PICK r \in Runs : r = job[t].run
    BY Fields DEF RunSteps
  <2>2. t = u
    BY <2>1 DEF IndInv, Unique, Reserves
  <2>3. At(t, "spawn") => proc[job[t].run] = "none"
    BY DEF IndInv, JobOK, At
  <2> QED
    BY <2>2, <2>3
<1> QED
  BY <1>1, RunsFit, PTL

\* A live process belongs to a run that holds a slot, to a thread that has yet
\* to record it, or to one of the named windows (record_run_start, finish_stop).
THEOREM ProcessesAccounted == Spec => []ProcessAccounted
<1>1. IndInv => ProcessAccounted
  BY DEF IndInv, Placed, ProcessAccounted
<1> QED
  BY <1>1, RunsFit, PTL

\* When a stop is over no agent of the run is left (glob_kill_run_agents and the
\* namespace check), but for the named windows.
THEOREM StopsEmpty == Spec => []StoppedRunIsEmpty
<1>1. IndInv => StoppedRunIsEmpty
  BY DEF IndInv, Emptied, Clears, StoppedRunIsEmpty
<1> QED
  BY <1>1, RunsFit, PTL

\* A once loop fires at most once (allocate_run with the schedule's advance).
THEOREM OnceFiresOnce == Spec => []FiresOnce
<1>1. ASSUME IndInv, def.cadence = "once"
      PROVE  Cardinality({r \in Runs : run[r].kind = "scheduled"}) <= 1
  <2> DEFINE S == {r \in Runs : run[r].kind = "scheduled"}
  <2>1. CASE S = {}
    BY <2>1, FS_EmptySet
  <2>2. CASE S # {}
    <3>1. PICK r \in S : TRUE
      BY <2>2
    <3>2. S = {r}
      BY <1>1, <3>1 DEF IndInv, DefOK
    <3>3. Cardinality({r}) = 1
      BY FS_Singleton
    <3> QED
      BY <3>2, <3>3
  <2> QED
    BY <2>1, <2>2
<1>2. IndInv => FiresOnce
  BY <1>1 DEF FiresOnce
<1> QED
  BY <1>2, RunsFit, PTL

-----------------------------------------------------------------------------
\* The threads implement the store's promise: what RunSlots sees of a row.
St == [r \in Runs |-> run[r].status]
Kd == [r \in Runs |-> run[r].kind]
Du == [r \in Runs |-> run[r].due]

\* The refinement. What RunSlots sees of a row.
LEMMA SlotVars ==
  /\ Slots!vars = <<St, Kd, Du>>
  /\ St' = [r \in Runs |-> run'[r].status] /\ Kd' = [r \in Runs |-> run'[r].kind]
  /\ Du' = [r \in Runs |-> run'[r].due]
  /\ St' = St /\ Kd' = Kd /\ Du' = Du => UNCHANGED Slots!vars
BY DEF Slots!vars, St, Kd, Du

\* Steps that leave the rows alone are not seen,
LEMMA SameRows == ASSUME UNCHANGED run PROVE UNCHANGED Slots!vars
BY SlotVars DEF St, Kd, Du

\* nor is the process of a row.
LEMMA PidUnseen ==
  ASSUME TypeOK, NEW r \in Runs, run' = [run EXCEPT ![r].pid = TRUE]
  PROVE  UNCHANGED Slots!vars
<1>1. \A q \in Runs : /\ run'[q].status = run[q].status /\ run'[q].kind = run[q].kind
                      /\ run'[q].due = run[q].due
  BY PidWrite
<1> QED
  <2>1. St' = St /\ Kd' = Kd /\ Du' = Du
    BY <1>1, SlotVars DEF St, Kd, Du
  <2> QED
    BY <2>1, SlotVars

\* A status write of one row, as RunSlots sees it.
LEMMA RowMoves ==
  ASSUME TypeOK, NEW r \in Runs, NEW s, \A q \in Runs \ {r} : run'[q] = run[q],
         run'[r].status = s, run'[r].kind = run[r].kind, run'[r].due = run[r].due
  PROVE  St' = [St EXCEPT ![r] = s] /\ Kd' = Kd /\ Du' = Du
BY SlotVars DEF St, Kd, Du

\* A guarded status write is a Move or a Cancel of RunSlots.
LEMMA MoveSeen ==
  ASSUME TypeOK, NEW r \in Runs, NEW s, \A q \in Runs \ {r} : run'[q] = run[q],
         run'[r].status = s, run'[r].kind = run[r].kind, run'[r].due = run[r].due,
         \/ run[r].status = "running" /\ s = "stopping"
         \/ run[r].status \in Slots!Active /\ s \in Slots!Terminal \ {"canceled"}
         \/ run[r].status = "pending" /\ s = "canceled"
  PROVE  Slots!Next
<1>1. St' = [St EXCEPT ![r] = s] /\ Kd' = Kd /\ Du' = Du
  BY RowMoves
<1>2. St[r] = run[r].status /\ r \in Slots!Runs
  BY SlotNames DEF St
<1>3. CASE run[r].status = "running" /\ s = "stopping"
  <2>1. Slots!Move(r, {"running"}, {"stopping"})
    BY <1>1, <1>2, <1>3 DEF Slots!Move, St, Kd, Du
  <2> QED
    BY <1>2, <2>1 DEF Slots!Next
<1>4. CASE run[r].status \in Slots!Active /\ s \in Slots!Terminal \ {"canceled"}
  <2>1. Slots!Move(r, Slots!Active, Slots!Terminal \ {"canceled"})
    BY <1>1, <1>2, <1>4 DEF Slots!Move, St, Kd, Du
  <2> QED
    BY <1>2, <2>1 DEF Slots!Next
<1>5. CASE run[r].status = "pending" /\ s = "canceled"
  <2>1. Slots!Move(r, {"pending"}, {"canceled"})
    BY <1>1, <1>2, <1>5 DEF Slots!Move, St, Kd, Du
  <2> QED
    BY <1>2, <2>1 DEF Slots!Next
<1> QED
  BY <1>3, <1>4, <1>5

\* finish_run takes a run from a slot to its end, or finds it ended.
LEMMA FinishSeen ==
  ASSUME TypeOK, NEW r \in Runs, NEW s \in {"exited", "stopped", "timeout"}, FinishRun(r, s)
  PROVE  Slots!Next \/ UNCHANGED Slots!vars
<1>1. CASE run[r].status \in Slots!Active
  <2>1. s \in Slots!Terminal \ {"canceled"}
    BY DEF Slots!Terminal
  <2>2. /\ \A q \in Runs \ {r} : run'[q] = run[q]
        /\ run'[r].status = s /\ run'[r].kind = run[r].kind /\ run'[r].due = run[r].due
    BY <1>1, <2>1, FinishWrite
  <2> QED
    BY <1>1, <2>1, <2>2, MoveSeen
<1>2. CASE run[r].status \notin Slots!Active
  BY <1>2, SameRows DEF FinishRun
<1> QED
  BY <1>1, <1>2

\* An insert is an Allocate,
LEMMA InsertSeen ==
  ASSUME IndInv, NEW t \in Threads, NEW r \in Runs, NEW kind \in Slots!Kinds, NEW d \in Dues,
         Slots!Fresh(r), Insert(r, t, kind, d),
         kind = "scheduled" /\ Slots!Full => Overlap = "queue" /\ Slots!Folding = {}
  PROVE  Slots!Next
<1>1. /\ \A q \in Runs \ {r} : run'[q] = run[q]
      /\ run'[r].kind = kind /\ run'[r].due = d
      /\ run'[r].status = IF Slots!Full THEN "pending" ELSE "running"
  BY InsertRow
<1>2. /\ St' = [St EXCEPT ![r] = IF Slots!Full THEN "pending" ELSE "running"]
      /\ Kd' = [Kd EXCEPT ![r] = kind] /\ Du' = [Du EXCEPT ![r] = d]
  BY <1>1, SlotVars DEF St, Kd, Du
<1>3. r \in Slots!Runs /\ d \in Slots!Dues
  BY SlotNames
<1>4. Slots!Allocate(r)
  BY <1>2, <1>3 DEF Slots!Allocate, St, Kd, Du
<1> QED
  BY <1>3, <1>4 DEF Slots!Next

\* and a fold a Coalesce, or nothing when the due time stays.
LEMMA FoldSeen ==
  ASSUME IndInv, NEW t, NEW d \in Dues, Fold(t, d), Slots!Full, Overlap = "queue"
  PROVE  Slots!Next \/ UNCHANGED Slots!vars
<1>1. PICK r \in Slots!Folding : run' = [run EXCEPT ![r].due = IF d < @ THEN d ELSE @]
  BY DEF Fold
<1>2. r \in Runs /\ r \in Slots!Runs /\ d \in Slots!Dues /\ TypeOK /\ run \in [Runs -> Rows]
  BY <1>1, SlotNames, Shapes DEF IndInv
<1>3. CASE d < run[r].due
  <2>1. run' = [run EXCEPT ![r].due = d]
    BY <1>1, <1>3
  <2>2. /\ \A q \in Runs \ {r} : run'[q] = run[q]
        /\ run'[r].status = run[r].status /\ run'[r].kind = run[r].kind /\ run'[r].due = d
    BY <1>2, <2>1, DueWrite
  <2>3. St' = St /\ Kd' = Kd /\ Du' = [Du EXCEPT ![r] = d] /\ Du[r] = run[r].due
    BY <1>2, <2>2, SlotVars DEF St, Kd, Du
  <2>4. Slots!Coalesce(r)
    BY <1>1, <1>2, <1>3, <2>3 DEF Slots!Coalesce, St, Kd, Du
  <2> QED
    BY <1>2, <2>4 DEF Slots!Next
<1>4. CASE ~(d < run[r].due)
  <2>1. run[r] \in Rows
    BY <1>2
  <2>2. run' = [run EXCEPT ![r].due = run[r].due]
    BY <1>1, <1>4
  <2>3. run[r].due \in Dues
    BY <2>1 DEF Rows
  <2>4. \A q \in Runs : /\ run'[q].status = run[q].status /\ run'[q].kind = run[q].kind
                        /\ run'[q].due = run[q].due
    BY <1>2, <2>2, <2>3, DueWrite
  <2> QED
    <3>1. St' = St /\ Kd' = Kd /\ Du' = Du
      BY <2>4, SlotVars DEF St, Kd, Du
    <3> QED
      BY <3>1, SlotVars
<1> QED
  BY <1>3, <1>4

\* The fires,
LEMMA FireSeen ==
  ASSUME IndInv, NEW t \in Threads, FireManual(t) \/ (t = Tick /\ FireScheduled)
  PROVE  Slots!Next \/ UNCHANGED Slots!vars
<1>1. TypeOK /\ {"manual", "scheduled"} \subseteq Slots!Kinds
  BY DEF IndInv, Slots!Kinds
<1>2. CASE FireManual(t)
  <2>1. PICK r \in Runs : Slots!Fresh(r) /\ Insert(r, t, "manual", 2 * clock + 1)
    BY <1>2 DEF FireManual
  <2>2. 2 * clock + 1 \in Dues
    BY <1>1, DueTimes
  <2> QED
    BY <1>1, <2>1, <2>2, InsertSeen
<1>3. CASE t = Tick /\ FireScheduled
  <2>1. PICK d \in Dues : d = job[Tick].at
    BY <1>3, Fields
  <2>2. CASE Slots!Full /\ Overlap = "skip"
    <3>1. run' = run
      BY <1>3, <2>2 DEF FireScheduled
    <3> QED
      BY <3>1, SameRows
  <2>3. CASE Slots!Full /\ Overlap # "skip" /\ Slots!Folding # {}
    <3>1. Fold(Tick, d)
      BY <1>3, <2>1, <2>3 DEF FireScheduled
    <3>2. Overlap = "queue"
      BY <2>3, OverlapAssumption
    <3> QED
      BY <2>3, <3>1, <3>2, FoldSeen
  <2>4. CASE ~(Slots!Full /\ Overlap = "skip") /\ ~(Slots!Full /\ Overlap # "skip" /\ Slots!Folding # {})
    <3>1. PICK r \in Runs : Slots!Fresh(r) /\ Insert(r, Tick, "scheduled", d)
      BY <1>3, <2>1, <2>4 DEF FireScheduled
    <3>2. Slots!Full => Overlap = "queue" /\ Slots!Folding = {}
      BY <2>4, OverlapAssumption
    <3> QED
      BY <1>1, <3>1, <3>2, ThreadKinds, InsertSeen
  <2> QED
    BY <2>2, <2>3, <2>4
<1> QED
  BY <1>2, <1>3

\* the promotions (claim_pending_run takes the oldest, with a slot free),
LEMMA PromoteSeen ==
  ASSUME IndInv, NEW t \in Threads, Promote(t)
  PROVE  Slots!Next \/ UNCHANGED Slots!vars
<1>1. CASE def.status = "active" /\ ~Slots!Full /\ Slots!Pending # {}
  <2>1. PICK r \in Runs : Slots!Oldest(r) /\ SetRun(r, "running")
    BY <1>1 DEF Promote
  <2>2. /\ \A q \in Runs \ {r} : run'[q] = run[q]
        /\ run'[r].status = "running" /\ run'[r].kind = run[r].kind /\ run'[r].due = run[r].due
    BY <2>1, StatusWrite DEF IndInv, Slots!Status, Slots!Active
  <2>3. St' = [St EXCEPT ![r] = "running"] /\ Kd' = Kd /\ Du' = Du
    BY <2>2, RowMoves DEF IndInv
  <2>4. r \in Slots!Runs /\ Slots!Claim(r)
    BY <1>1, <2>1, <2>3, SlotNames DEF Slots!Claim, St, Kd, Du
  <2> QED
    BY <2>4 DEF Slots!Next
<1>2. CASE ~(def.status = "active" /\ ~Slots!Full /\ Slots!Pending # {})
  BY <1>2, SameRows DEF Promote
<1> QED
  BY <1>1, <1>2

\* the finalizers, which look at the status they overwrite,
LEMMA EndsSeen ==
  ASSUME IndInv, NEW t \in Threads, FailSpawn(t) \/ Finish(t) \/ (t = Main /\ Recover)
  PROVE  Slots!Next \/ UNCHANGED Slots!vars
<1>1. TypeOK
  BY DEF IndInv
<1>2. CASE FailSpawn(t)
  <2>1. FinishRun(job[t].run, "exited") /\ job[t].run \in Runs
    BY <1>2, Fields DEF FailSpawn, At, RunSteps
  <2> QED
    BY <1>1, <2>1, FinishSeen
<1>3. CASE Finish(t)
  <2>1. FinishRun(job[t].run, job[t].why) /\ job[t].run \in Runs /\ job[t].why \in {"stopped", "timeout"}
    BY <1>3, Fields DEF Finish, At, RunSteps
  <2> QED
    BY <1>1, <2>1, FinishSeen
<1>4. CASE t = Main /\ Recover
  <2>1. PICK r \in Runs : r = Min(job[Main].todo)
    BY <1>4, Fields, MinIn DEF Recover
  <2>2. \/ run' = run
        \/ FinishRun(r, IF run[r].status = "stopping" THEN "stopped" ELSE "exited")
    BY <1>4, <2>1 DEF Recover
  <2> QED
    BY <1>1, <2>2, SameRows, FinishSeen
<1> QED
  BY <1>2, <1>3, <1>4

\* and the other row writes are steps of RunSlots.
LEMMA RowStepsSeen ==
  ASSUME IndInv, NEW t \in Threads, Record(t) \/ Barrier(t) \/ Cancel(t)
  PROVE  Slots!Next \/ UNCHANGED Slots!vars
<1>1. TypeOK
  BY DEF IndInv
<1>2. PICK r \in Runs : r = job[t].run
  BY Fields DEF Record, Barrier, Cancel, At, RunSteps
<1>3. CASE Record(t)
  <2>1. run' = [run EXCEPT ![r].pid = TRUE] \/ run' = run
    BY <1>2, <1>3 DEF Record
  <2> QED
    BY <1>1, <2>1, SameRows, PidUnseen
<1>4. CASE Barrier(t) \/ Cancel(t)
  <2>1. \/ run' = run
        \/ run[r].status = "running" /\ SetRun(r, "stopping")
        \/ run[r].status = "pending" /\ SetRun(r, "canceled")
    BY <1>2, <1>4 DEF Barrier, Cancel
  <2>2. {"stopping", "canceled"} \subseteq Slots!Status
    BY DEF Slots!Status, Slots!Active, Slots!Terminal
  <2>3. ASSUME NEW s \in {"stopping", "canceled"}, SetRun(r, s)
        PROVE  /\ \A q \in Runs \ {r} : run'[q] = run[q]
               /\ run'[r].status = s /\ run'[r].kind = run[r].kind /\ run'[r].due = run[r].due
    BY <1>1, <2>2, <2>3, StatusWrite
  <2> QED
    BY <1>1, <2>1, <2>3, SameRows, MoveSeen
<1> QED
  BY <1>3, <1>4

\* Every step is a step of RunSlots or leaves its rows alone.
LEMMA StepSeen == ASSUME IndInv, [Next]_vars PROVE [Slots!Next]_(Slots!vars)
<1>1. CASE UNCHANGED run
  BY <1>1, SameRows
<1>2. ASSUME NEW t \in Threads, ThreadStep(t) PROVE UNCHANGED run \/ Slots!Next \/ UNCHANGED Slots!vars
  <2>1. CASE FireManual(t) \/ (t = Tick /\ FireScheduled)
    BY <2>1, FireSeen
  <2>2. CASE Promote(t)
    BY <2>2, PromoteSeen
  <2>3. CASE FailSpawn(t) \/ Finish(t) \/ (t = Main /\ Recover)
    BY <2>3, EndsSeen
  <2>4. CASE Record(t) \/ Barrier(t) \/ Cancel(t)
    BY <2>4, RowStepsSeen
  <2>5. CASE Spawn(t) \/ Kill(t) \/ Glob(t) \/ NextRun(t) \/ Remove(t) \/ SetPaused(t)
             \/ Reschedule \/ Serve
    BY <2>5 DEF Spawn, Kill, Glob, NextRun, Remove, SetPaused, Reschedule, Serve
  <2>6. ASSUME NEW r \in Runs, MonRead(r) \/ PollRead(r) \/ Exit(r)
        PROVE  UNCHANGED run \/ Slots!Next \/ UNCHANGED Slots!vars
    <3>1. CASE MonRead(r) \/ PollRead(r)
      BY <3>1 DEF MonRead, PollRead
    <3>2. CASE Exit(r)
      BY <3>2, FinishSeen DEF Exit, IndInv
    <3> QED
      BY <2>6, <3>1, <3>2
  <2> QED
    BY <1>2, <2>1, <2>2, <2>3, <2>4, <2>5, <2>6 DEF ThreadStep
<1>3. ASSUME NEW t \in Cli, CliRead(t) PROVE UNCHANGED run
  BY <1>3 DEF CliRead
<1>4. ASSUME NEW r \in Runs, TickTimeout(r) \/ Admit(r) \/ ProcExits(r) PROVE UNCHANGED run
  BY <1>4 DEF TickTimeout, Admit, ProcExits
<1>5. CASE ComeDue \/ TickFire \/ Crash \/ Restart
  BY <1>1, <1>5 DEF ComeDue, TickFire, Crash, Restart
<1>6. CASE UNCHANGED vars
  BY <1>1, <1>6 DEF vars
<1> QED
  BY <1>1, <1>2, <1>3, <1>4, <1>5, <1>6 DEF Next

\* The scheduler, the monitors, the stops, the commands and the recovery keep
\* every row within what the store promises: slots, folding, final statuses.
THEOREM ThreadsKeepSlots == Spec => ImplementsSlots
<1>1. Init => Slots!Init
  <2> SUFFICES ASSUME Init PROVE Slots!Init
    OBVIOUS
  <2>1. \A r \in Runs : run[r].status = "absent" /\ run[r].kind = "none" /\ run[r].due = 0
    BY DEF Init
  <2> QED
    BY <2>1, SlotNames DEF Slots!Init
<1>2. IndInv /\ [Next]_vars => [Slots!Next]_(Slots!vars)
  BY StepSeen
<1> QED
  BY <1>1, <1>2, RunsFit, PTL DEF Spec, ImplementsSlots, Slots!Spec

-----------------------------------------------------------------------------
\* With one slot, a waiting run of an active loop always has somebody on the way
\* to promote it while the slot is free.
Busy == \E r \in Runs : run[r].status \in Slots!Active

Waiting == \E r \in Runs : run[r].status = "pending"

Asked ==
  def.status = "active" /\ ~Busy /\ Waiting =>
    \/ server = "down"
    \/ job[Main].pc \in {"recover", "rglob"}
    \/ \E t \in Threads : At(t, "promote")

\* With one slot, being full is having a run that holds it.
LEMMA OneSlot ==
  ASSUME MaxConcurrency = 1
  PROVE  (Slots!Full <=> Busy) /\ (Slots!Pending # {} <=> Waiting)
<1>1. IsFiniteSet(Runs)
  BY FS_Interval, RunsAssumption DEF Runs
<1>2. IsFiniteSet(Slots!Holding) /\ (Slots!Holding = {} <=> ~Busy)
  BY <1>1, FS_Subset, SlotNames DEF Busy
<1>3. Cardinality(Slots!Holding) \in Nat /\ (Cardinality(Slots!Holding) = 0 <=> Slots!Holding = {})
  BY <1>2, FS_CardinalityType, FS_EmptySet
<1>4. Slots!Pending # {} <=> Waiting
  BY SlotNames DEF Waiting
<1>5. Slots!Cardinality(Slots!Holding) = Cardinality(Slots!Holding)
  BY DEF Slots!Cardinality, Cardinality
<1> QED
  BY <1>2, <1>3, <1>4, <1>5 DEF Slots!Full

\* A turn after which the slot is taken, or the thread itself promotes.
LEMMA AskedAgain ==
  ASSUME NEW t \in Threads, NEW j \in Jobs, TypeOK, Goes(t, j),
         \/ Busy' \/ ~Waiting' \/ def'.status # "active" \/ j.pc = "promote"
         \/ t = Main /\ j.pc \in {"recover", "rglob"}
  PROVE  Asked'
<1>1. job'[t] = j
  BY Turn
<1> QED
  BY <1>1 DEF Asked, At

\* An inserted run takes the slot, or finds it taken.
LEMMA InsertAsked ==
  ASSUME MaxConcurrency = 1, IndInv, NEW t \in Threads, NEW r \in Runs, NEW kind \in Slots!Kinds,
         NEW d \in Dues, Slots!Fresh(r), Insert(r, t, kind, d)
  PROVE  Busy'
<1>1. /\ \A q \in Runs \ {r} : run'[q] = run[q]
      /\ run'[r].status = IF Slots!Full THEN "pending" ELSE "running"
      /\ run[r].status = "absent"
  BY InsertRow
<1>2. CASE Slots!Full
  <2>1. PICK q \in Runs : run[q].status \in Slots!Active
    BY <1>2, OneSlot DEF Busy
  <2>2. q # r
    BY <1>1, <2>1, Ends
  <2> QED
    BY <1>1, <2>1, <2>2 DEF Busy
<1>3. CASE ~Slots!Full
  BY <1>1, <1>3, Ends DEF Busy
<1> QED
  BY <1>2, <1>3

\* A fire leaves the slot taken or nobody waiting.
LEMMA FireAsked ==
  ASSUME MaxConcurrency = 1, IndInv, NEW t \in Threads, FireManual(t) \/ (t = Tick /\ FireScheduled)
  PROVE  Asked'
<1>1. TypeOK /\ {"manual", "scheduled"} \subseteq Slots!Kinds
  BY DEF IndInv, Slots!Kinds
<1>2. Busy'
  <2>1. CASE FireManual(t)
    <3>1. PICK r \in Runs : Slots!Fresh(r) /\ Insert(r, t, "manual", 2 * clock + 1)
      BY <2>1 DEF FireManual
    <3> QED
      BY <1>1, <3>1, DueTimes, InsertAsked
  <2>2. CASE t = Tick /\ FireScheduled
    <3>1. PICK d \in Dues : d = job[Tick].at
      BY <2>2, Fields
    <3>2. CASE Slots!Full /\ Overlap = "skip"
      <4>1. run' = run /\ Busy
        BY <2>2, <3>2, OneSlot DEF FireScheduled
      <4> QED
        BY <4>1 DEF Busy
    <3>3. CASE Slots!Full /\ Overlap # "skip" /\ Slots!Folding # {}
      <4>1. Fold(Tick, d) /\ Busy
        BY <2>2, <3>1, <3>3, OneSlot DEF FireScheduled
      <4>2. \A q \in Runs : run'[q].status = run[q].status
        <5>1. PICK r \in Slots!Folding : run' = [run EXCEPT ![r].due = IF d < @ THEN d ELSE @]
          BY <4>1 DEF Fold
        <5>2. r \in Runs
          BY SlotNames
        <5>3. run[r].due \in Dues
          BY <1>1, <5>2, Shapes DEF Rows
        <5>4. PICK e \in Dues : run' = [run EXCEPT ![r].due = e]
          <6>1. CASE d < run[r].due
            BY <5>1, <6>1
          <6>2. CASE ~(d < run[r].due)
            BY <5>1, <5>3, <6>2
          <6> QED
            BY <6>1, <6>2
        <5> QED
          BY <1>1, <5>2, <5>4, DueWrite
      <4> QED
        BY <4>1, <4>2 DEF Busy
    <3>4. CASE ~(Slots!Full /\ Overlap = "skip") /\ ~(Slots!Full /\ Overlap # "skip" /\ Slots!Folding # {})
      <4>1. PICK r \in Runs : Slots!Fresh(r) /\ Insert(r, Tick, "scheduled", d)
        BY <2>2, <3>1, <3>4 DEF FireScheduled
      <4> QED
        BY <1>1, <4>1, ThreadKinds, InsertAsked
    <3> QED
      BY <3>2, <3>3, <3>4
  <2> QED
    BY <2>1, <2>2
<1> QED
  BY <1>2 DEF Asked

\* The turns that free a slot go on to promote.
LEMMA FreeingAsked ==
  ASSUME IndInv, NEW t \in Threads,
         FailSpawn(t) \/ Finish(t) \/ (\E r \in Runs : t = Mon(r) /\ Exit(r))
  PROVE  Asked'
<1>1. TypeOK /\ To(t, "promote")
  BY DEF IndInv, FailSpawn, Finish, Exit
<1>2. PICK j \in Jobs : Goes(t, j) /\ j.pc = "promote"
  BY <1>1, StepJob DEF Steps
<1> QED
  BY <1>1, <1>2, AskedAgain

\* A promotion takes the slot for the oldest that waits.
LEMMA PromoteAsked ==
  ASSUME MaxConcurrency = 1, IndInv, NEW t \in Threads, Promote(t) PROVE Asked'
<1>1. TypeOK /\ def' = def
  BY DEF IndInv, Promote, Quiet
<1>2. CASE def.status = "active" /\ ~Slots!Full /\ Slots!Pending # {}
  <2>1. PICK r \in Runs : Slots!Oldest(r) /\ SetRun(r, "running")
    BY <1>2 DEF Promote
  <2>2. run'[r].status = "running"
    BY <1>1, <2>1, StatusWrite DEF Slots!Status, Slots!Active
  <2>3. Busy'
    BY <2>2, Ends DEF Busy
  <2> QED
    BY <2>3 DEF Asked
<1>3. CASE ~(def.status = "active" /\ ~Slots!Full /\ Slots!Pending # {})
  <2>1. run' = run
    BY <1>3 DEF Promote
  <2>2. def.status # "active" \/ Busy \/ ~Waiting
    BY <1>3, OneSlot
  <2>3. (Busy => Busy') /\ (Waiting' => Waiting)
    BY <2>1 DEF Busy, Waiting
  <2> QED
    BY <1>1, <2>2, <2>3 DEF Asked
<1> QED
  BY <1>2, <1>3

\* Writes that free no slot and add no waiting run.
LEMMA RowStepsAsked ==
  ASSUME IndInv, Asked, NEW t \in Threads, Record(t) \/ Barrier(t) \/ Cancel(t) PROVE Asked'
<1>1. TypeOK /\ server' = server /\ def' = def
  BY DEF IndInv, Record, Barrier, Cancel, Quiet
<1>2. PICK r \in Runs : r = job[t].run
  BY Fields DEF Record, Barrier, Cancel, At, RunSteps
<1>3. (Waiting' => Waiting) /\ (Busy => Busy')
  <2>1. \/ run' = [run EXCEPT ![r].pid = TRUE] \/ run' = run
        \/ run[r].status = "running" /\ SetRun(r, "stopping")
        \/ run[r].status = "pending" /\ SetRun(r, "canceled")
    BY <1>2 DEF Record, Barrier, Cancel
  <2>2. CASE run' = [run EXCEPT ![r].pid = TRUE] \/ run' = run
    <3>1. \A q \in Runs : run'[q].status = run[q].status
      BY <1>1, <2>2, PidWrite
    <3> QED
      BY <3>1 DEF Waiting, Busy
  <2>3. CASE \/ run[r].status = "running" /\ SetRun(r, "stopping")
             \/ run[r].status = "pending" /\ SetRun(r, "canceled")
    <3>1. {"stopping", "canceled"} \subseteq Slots!Status
      BY DEF Slots!Status, Slots!Active, Slots!Terminal
    <3>2. /\ \A q \in Runs \ {r} : run'[q] = run[q]
          /\ \/ run[r].status = "running" /\ run'[r].status = "stopping"
             \/ run[r].status = "pending" /\ run'[r].status = "canceled"
      BY <1>1, <2>3, <3>1, StatusWrite
    <3> QED
      BY <3>2, Ends DEF Waiting, Busy
  <2> QED
    BY <2>1, <2>2, <2>3
<1>4. job[t].pc \in {"record", "barrier", "cancel"}
  BY DEF Record, Barrier, Cancel, At
<1>5. \A u \in Threads : job[u].pc = "promote" => job'[u].pc = "promote"
  <2>1. ASSUME NEW u \in Threads, job[u].pc = "promote" PROVE job'[u] = job[u]
    <3>1. u # t
      BY <1>4, <2>1
    <3>2. job \in [Threads -> Jobs]
      BY <1>1, Shapes
    <3>3. Record(t) /\ run[r].status \in Slots!Active => u # Mon(r)
      <4>1. ASSUME Record(t), u = Mon(r) PROVE FALSE
        <5>1. job[Mon(r)] # Idle
          BY <2>1, <4>1, IdleJobs
        <5>2. ~run[r].pid
          BY <1>2, <4>1 DEF IndInv, JobOK, Record, At
        <5> QED
          BY <5>1, <5>2 DEF IndInv, Watch
      <4> QED
        BY <4>1
    <3>4. t = Tick /\ Barrier(t) => u # Stop(r)
      BY <1>2, <2>1, IdleJobs DEF IndInv, TickOK, Barrier, At
    <3>5. CASE Record(t)
      BY <1>2, <3>1, <3>2, <3>3, <3>5 DEF Record, Goes
    <3>6. CASE Barrier(t)
      <4>1. \E w : job' = IF t = Tick THEN [job EXCEPT ![t] = Idle, ![Stop(r)] = w] ELSE [job EXCEPT ![t] = w]
        BY <1>2, <3>6 DEF Barrier
      <4> QED
        BY <3>1, <3>2, <3>4, <3>6, <4>1
    <3>7. CASE Cancel(t)
      <4>1. \E w : Goes(t, w)
        BY <3>7 DEF Cancel, To
      <4> QED
        BY <3>1, <3>2, <4>1 DEF Goes
    <3> QED
      BY <3>5, <3>6, <3>7
  <2> QED
    BY <2>1
<1>7. job[Main].pc \in {"recover", "rglob"} => job'[Main].pc \in {"recover", "rglob"}
  <2>1. ASSUME job[Main].pc \in {"recover", "rglob"} PROVE job'[Main] = job[Main]
    <3>1. job \in [Threads -> Jobs] /\ Main # t /\ Main \in Threads
      BY <1>1, <1>4, <2>1, Shapes, ThreadKinds
    <3>2. Main # Mon(r) /\ Main # Stop(r)
      BY ThreadKinds
    <3>3. CASE Record(t)
      BY <1>2, <3>1, <3>2, <3>3 DEF Record, Goes
    <3>4. CASE Barrier(t)
      <4>1. \E w : job' = IF t = Tick THEN [job EXCEPT ![t] = Idle, ![Stop(r)] = w] ELSE [job EXCEPT ![t] = w]
        BY <1>2, <3>4 DEF Barrier
      <4> QED
        BY <3>1, <3>2, <4>1
    <3>5. CASE Cancel(t)
      <4>1. \E w : Goes(t, w)
        BY <3>5 DEF Cancel, To
      <4> QED
        BY <3>1, <4>1 DEF Goes
    <3> QED
      BY <3>3, <3>4, <3>5
  <2> QED
    BY <2>1
<1> QED
  BY <1>1, <1>3, <1>5, <1>7 DEF Asked, At

\* Turns that leave the rows alone.
LEMMA QuietTurnsAsked ==
  ASSUME IndInv, Asked, NEW t \in Threads,
         \/ Spawn(t) \/ Kill(t) \/ Glob(t) \/ NextRun(t) \/ Remove(t) \/ SetPaused(t)
         \/ \E r \in Runs : t = Mon(r) /\ (MonRead(r) \/ PollRead(r))
  PROVE  Asked'
<1>1. TypeOK /\ job[t] \in Jobs /\ job[t].todo \subseteq Runs
  BY Fields
<1>2. run' = run /\ server' = server
  BY DEF Spawn, Kill, Glob, NextRun, Remove, SetPaused, MonRead, PollRead, Quiet
<1>3. CASE Glob(t) /\ At(t, "rglob") /\ t = Main
  <2>1. PICK j \in Jobs : Goes(t, j) /\ j.pc \in {"rglob", "recover"}
    <3>1. CASE agents[job[t].run] = "live"
      <4>1. job' = job /\ job \in [Threads -> Jobs]
        BY <1>1, <1>3, <3>1, Shapes DEF Glob
      <4> QED
        BY <1>1, <1>3, <4>1 DEF Goes, At
    <3>2. CASE agents[job[t].run] # "live"
      <4>1. To(t, "recover")
        BY <1>3, <3>2 DEF Glob, At
      <4> QED
        BY <1>1, <4>1, StepJob DEF Steps
    <3> QED
      BY <3>1, <3>2
  <2> QED
    BY <1>1, <1>3, <2>1, AskedAgain
<1>4. CASE SetPaused(t) /\ At(t, "resume") /\ To(t, "promote")
  <2>1. PICK j \in Jobs : Goes(t, j) /\ j.pc = "promote"
    BY <1>1, <1>4, StepJob DEF Steps
  <2> QED
    BY <1>1, <2>1, AskedAgain
<1>5. CASE Remove(t) \/ (SetPaused(t) /\ ~(At(t, "resume") /\ To(t, "promote")))
  <2>1. def'.status # "active"
    <3>1. def \in Defs
      BY <1>1, Shapes
    <3>2. CASE Remove(t)
      <4>1. def' = [def EXCEPT !.status = "ended", !.next = "none"]
        BY <3>2 DEF Remove, EndDef
      <4> QED
        BY <3>1, <4>1 DEF Defs
    <3>3. CASE SetPaused(t) /\ ~(At(t, "resume") /\ To(t, "promote"))
      <4>1. def' = [def EXCEPT !.status = "paused"]
        BY <3>3 DEF SetPaused
      <4> QED
        BY <3>1, <4>1 DEF Defs
    <3> QED
      BY <1>5, <3>2, <3>3
  <2> QED
    BY <2>1 DEF Asked
<1>6. CASE ~(Glob(t) /\ At(t, "rglob") /\ t = Main) /\ ~Remove(t) /\ ~SetPaused(t)
  <2>1. def' = def /\ job[t].pc # "promote" /\ (t = Main => job[t].pc \notin {"recover", "rglob"})
    BY <1>6, ThreadKinds DEF Spawn, Kill, Glob, NextRun, MonRead, PollRead, Quiet, At
  <2>2. \E w : Goes(t, w)
    <3>1. CASE Glob(t)
      <4>1. job' = job \/ \E pc : To(t, pc)
        BY <3>1 DEF Glob
      <4>2. job \in [Threads -> Jobs]
        BY <1>1, Shapes
      <4>3. Goes(t, job[t]) \/ \E pc : To(t, pc)
        BY <4>1, <4>2 DEF Goes
      <4> QED
        BY <4>3 DEF To
    <3>2. CASE ~Glob(t)
      <4>1. \/ \E pc : To(t, pc)
            \/ \E w : Goes(t, w)
        BY <1>6, <3>2 DEF Spawn, Kill, NextRun, MonRead, PollRead
      <4> QED
        BY <4>1 DEF To
    <3> QED
      BY <3>1, <3>2
  <2>3. \A u \in Threads \ {t} : job'[u] = job[u]
    BY <1>1, <2>2, Shapes DEF Goes
  <2>4. \A u \in Threads : job[u].pc = "promote" => job'[u].pc = "promote"
    BY <2>1, <2>3
  <2>5. job[Main].pc \in {"recover", "rglob"} => job'[Main] = job[Main]
    BY <2>1, <2>3, ThreadKinds
  <2>6. (Waiting' => Waiting) /\ (Busy => Busy')
    BY <1>2 DEF Waiting, Busy
  <2> QED
    BY <1>2, <2>1, <2>4, <2>5, <2>6 DEF Asked, At
<1> QED
  BY <1>3, <1>4, <1>5, <1>6

\* The recovery ends by promoting.
LEMMA MainAsked ==
  ASSUME IndInv, Asked, Recover \/ Reschedule \/ Serve PROVE Asked'
<1>1. TypeOK /\ job[Main] \in Jobs /\ job[Main].todo \subseteq Runs /\ job \in [Threads -> Jobs]
      /\ Main \in Threads
  BY Fields, ThreadKinds, Shapes
<1>2. CASE Recover
  <2>1. job'[Main].pc \in {"recover", "rglob"}
    <3>1. PICK r \in Runs : r = Min(job[Main].todo)
      BY <1>2, <1>1, MinIn DEF Recover
    <3> DEFINE w == [job[Main] EXCEPT !.todo = @ \ {r}, !.run = r]
               v == [w EXCEPT !.pc = "rglob"]
    <3>2. w.pc = "recover" /\ v.pc = "rglob"
      BY <1>1, <1>2 DEF Jobs, Recover, At
    <3>3. \/ \E x \in {Stop(r), Mon(r)} : \E k : job' = [job EXCEPT ![Main] = w, ![x] = k]
          \/ job' = [job EXCEPT ![Main] = v]
      BY <1>2, <3>1 DEF Recover, Goes
    <3>4. Main \notin {Stop(r), Mon(r)}
      BY ThreadKinds
    <3> HIDE DEF w, v
    <3> QED
      BY <1>1, <3>2, <3>3, <3>4
  <2> QED
    BY <2>1 DEF Asked
<1>3. CASE Reschedule
  <2>1. CASE def.status = "active"
    <3> DEFINE w == [Job("promote", 0) EXCEPT !.then = "serve"]
    <3>1. Goes(Main, w)
      BY <1>3, <2>1 DEF Reschedule
    <3>2. Job("promote", 0) \in Jobs /\ Job("promote", 0).pc = "promote"
      BY NewJob, RunNumbers DEF Steps
    <3>3. w \in Jobs /\ w.pc = "promote"
      BY <3>2 DEF Jobs
    <3> HIDE DEF w
    <3> QED
      BY <1>1, <3>1, <3>3, AskedAgain
  <2>2. CASE def.status # "active"
    <3>1. def'.status # "active"
      <4>1. def \in Defs
        BY <1>1, Shapes
      <4>2. CASE def' = def
        BY <2>2, <4>2
      <4>3. CASE Advance
        <5>1. \/ def' = [def EXCEPT !.status = "ended", !.next = "none"]
              \/ def' = [def EXCEPT !.next = "later"]
          BY <4>3 DEF Advance, EndDef
        <5> QED
          BY <2>2, <4>1, <5>1 DEF Defs
      <4> QED
        BY <1>3, <4>2, <4>3 DEF Reschedule
    <3> QED
      BY <3>1 DEF Asked
  <2> QED
    BY <2>1, <2>2
<1>4. CASE Serve
  <2>1. job[Main].pc = "serve" /\ Goes(Main, Idle) /\ UNCHANGED <<def, run>> /\ server' = "up"
    BY <1>4 DEF Serve, At
  <2>2. server = "recovering"
    BY <2>1, Recovering
  <2>3. \A u \in Threads \ {Main} : job'[u] = job[u]
    BY <1>1, <2>1 DEF Goes
  <2>4. \A u \in Threads : job[u].pc = "promote" => job'[u].pc = "promote"
    BY <2>1, <2>3
  <2>5. (Waiting' => Waiting) /\ (Busy => Busy')
    BY <2>1 DEF Waiting, Busy
  <2> QED
    BY <2>1, <2>2, <2>4, <2>5 DEF Asked, At
<1> QED
  BY <1>2, <1>3, <1>4

\* Steps that touch neither slots nor waiting runs.
LEMMA OutsideAsked ==
  ASSUME IndInv, Asked,
         \/ ComeDue \/ TickFire \/ Crash \/ Restart
         \/ (\E t \in Cli : CliRead(t)) \/ (\E r \in Runs : TickTimeout(r) \/ Admit(r) \/ ProcExits(r))
         \/ UNCHANGED vars
  PROVE  Asked'
<1>1. TypeOK /\ job \in [Threads -> Jobs] /\ def \in Defs /\ Main \in Threads
  BY Shapes, ThreadKinds DEF IndInv
<1>2. CASE Crash
  BY <1>2 DEF Crash, Asked
<1>3. CASE Restart
  <2> DEFINE w == [Job("recover", 0) EXCEPT !.todo = Slots!Holding]
  <2>1. w.pc = "recover"
    BY DEF Job
  <2>2. job' = [job EXCEPT ![Main] = w]
    BY <1>3 DEF Restart, Goes
  <2> HIDE DEF w
  <2>3. job'[Main].pc = "recover"
    BY <1>1, <2>1, <2>2
  <2> QED
    BY <2>3 DEF Asked
<1>4. CASE ~Crash /\ ~Restart
  <2>1. run' = run /\ server' = server
    BY <1>4 DEF ComeDue, TickFire, CliRead, TickTimeout, Admit, ProcExits, Quiet, vars
  <2>2. (Waiting' => Waiting) /\ (Busy => Busy')
    BY <2>1 DEF Waiting, Busy
  <2>3. def'.status = def.status
    <3>1. CASE ComeDue
      <4>1. def' = [def EXCEPT !.next = "due"]
        BY <3>1 DEF ComeDue
      <4> QED
        BY <1>1, <4>1 DEF Defs
    <3>2. CASE ~ComeDue
      BY <1>4, <3>2 DEF TickFire, CliRead, TickTimeout, Admit, ProcExits, Quiet, vars
    <3> QED
      BY <3>1, <3>2
  <2>4. job' = job \/ \E t \in Threads : \E w : job[t].pc = "idle" /\ Goes(t, w)
    <3>1. CASE TickFire \/ \E r \in Runs : TickTimeout(r)
      <4>1. job[Tick].pc = "idle" /\ \E w : Goes(Tick, w)
        BY <3>1 DEF TickFire, TickTimeout, At
      <4> QED
        BY <4>1, ThreadKinds
    <3>2. CASE \E t \in Cli : CliRead(t)
      <4>1. PICK t \in Cli : CliRead(t)
        BY <3>2
      <4>2. job[t].pc = "idle" /\ \E w : Goes(t, w)
        BY <4>1 DEF CliRead, At
      <4> QED
        BY <4>2, ThreadKinds
    <3>3. CASE ComeDue \/ (\E r \in Runs : Admit(r) \/ ProcExits(r)) \/ UNCHANGED vars
      BY <3>3 DEF ComeDue, Admit, ProcExits, vars
    <3> QED
      BY <1>4, <3>1, <3>2, <3>3
  <2>5. \A u \in Threads : job[u].pc \in {"promote", "recover", "rglob"} => job'[u] = job[u]
    BY <1>1, <2>4 DEF Goes
  <2>6. \A u \in Threads : job[u].pc = "promote" => job'[u].pc = "promote"
    BY <2>5
  <2>7. job[Main].pc \in {"recover", "rglob"} => job'[Main] = job[Main]
    BY <1>1, <2>5
  <2> QED
    BY <2>1, <2>2, <2>3, <2>6, <2>7 DEF Asked, At
<1> QED
  BY <1>2, <1>3, <1>4

\* With --max-concurrency 1, when nobody is at work and the slot of an active
\* loop is free, no run of it waits (promote_pending, after every end of a run).
THEOREM OneSlotIsUsed == ASSUME MaxConcurrency = 1 PROVE Spec => []NoIdleSlot
<1>1. Init => Asked
  BY DEF Init, Asked, Waiting
<1>2. IndInv /\ Asked /\ [Next]_vars => Asked'
  <2> SUFFICES ASSUME IndInv, Asked, [Next]_vars PROVE Asked'
    OBVIOUS
  <2>1. ASSUME NEW t \in Threads, ThreadStep(t) PROVE Asked'
    <3>1. CASE FireManual(t) \/ (t = Tick /\ FireScheduled)
      BY <3>1, FireAsked
    <3>2. CASE Promote(t)
      BY <3>2, PromoteAsked
    <3>3. CASE FailSpawn(t) \/ Finish(t) \/ (\E r \in Runs : t = Mon(r) /\ Exit(r))
      BY <3>3, FreeingAsked
    <3>4. CASE Record(t) \/ Barrier(t) \/ Cancel(t)
      BY <3>4, RowStepsAsked
    <3>5. CASE \/ Spawn(t) \/ Kill(t) \/ Glob(t) \/ NextRun(t) \/ Remove(t) \/ SetPaused(t)
               \/ \E r \in Runs : t = Mon(r) /\ (MonRead(r) \/ PollRead(r))
      BY <3>5, QuietTurnsAsked
    <3>6. CASE Recover \/ Reschedule \/ Serve
      BY <3>6, MainAsked
    <3> QED
      BY <2>1, <3>1, <3>2, <3>3, <3>4, <3>5, <3>6 DEF ThreadStep
  <2> QED
    BY <2>1, OutsideAsked DEF Next
<1>3. Asked => NoIdleSlot
  <2> SUFFICES ASSUME Asked, AtRest, def.status = "active", ~Slots!Full, Slots!Pending # {}
               PROVE  FALSE
    BY DEF NoIdleSlot
  <2>1. ~Busy /\ Waiting
    BY OneSlot
  <2>2. \A t \in Threads : job[t].pc \notin {"promote", "recover", "rglob"}
    BY DEF AtRest
  <2>3. server # "down"
    BY DEF AtRest
  <2> QED
    BY <2>1, <2>2, <2>3, ThreadKinds DEF Asked, At
<1> QED
  BY <1>1, <1>2, <1>3, RunsFit, PTL DEF Spec

-----------------------------------------------------------------------------
(* What RunSlotsProofs proves of the slots, instantiated with the table of   *)
(* the threads.                                                              *)
Store == INSTANCE RunSlotsProofs WITH
  status <- [r \in Runs |-> run[r].status],
  kind   <- [r \in Runs |-> run[r].kind],
  due    <- [r \in Runs |-> run[r].due]

(* The two instances of RunSlots have equal definitions. *)
LEMMA SameTables ==
  /\ \A S : Slots!Cardinality(S) = Store!Cardinality(S)
  /\ Slots!Runs = Store!Runs /\ Slots!Dues = Store!Dues
  /\ Slots!Holding = Store!Holding /\ Slots!Folding = Store!Folding /\ Slots!Pending = Store!Pending
<1>1. \A S : Slots!Cardinality(S) = Store!Cardinality(S)
  BY DEF Slots!Cardinality, Store!Cardinality
<1>2. Slots!Runs = Store!Runs /\ Slots!Dues = Store!Dues
  BY DEF Slots!Runs, Store!Runs, Slots!Dues, Store!Dues
<1>3. Slots!Holding = Store!Holding
  BY <1>2 DEF Slots!Holding, Store!Holding, Slots!Active, Store!Active
<1>4. Slots!Pending = Store!Pending /\ Slots!Folding = Store!Folding
  BY <1>2 DEF Slots!Pending, Store!Pending, Slots!Folding, Store!Folding
<1> QED
  BY <1>1, <1>2, <1>3, <1>4

(* So are their steps, and their specifications. *)
LEMMA SameSlots == Slots!Spec => Store!Spec
<1>1. Slots!Init => Store!Init
  BY SameTables DEF Slots!Init, Store!Init
<1>2. Slots!Full <=> Store!Full
  BY SameTables DEF Slots!Full, Store!Full
<1>3. ASSUME [Slots!Next]_(Slots!vars) PROVE [Store!Next]_(Store!vars)
  <2>1. ASSUME NEW r \in Slots!Runs, Slots!Allocate(r) PROVE Store!Allocate(r)
    BY <1>2, <2>1, SameTables
       DEF Slots!Allocate, Store!Allocate, Slots!Fresh, Store!Fresh, Slots!Kinds, Store!Kinds
  <2>2. ASSUME NEW r \in Slots!Runs, Slots!Coalesce(r) PROVE Store!Coalesce(r)
    BY <1>2, <2>2, SameTables DEF Slots!Coalesce, Store!Coalesce
  <2>3. ASSUME NEW r \in Slots!Runs, Slots!Claim(r) PROVE Store!Claim(r)
    BY <1>2, <2>3, SameTables DEF Slots!Claim, Store!Claim, Slots!Oldest, Store!Oldest
  <2>4. ASSUME NEW r \in Slots!Runs, NEW from, NEW to, Slots!Move(r, from, to)
        PROVE  Store!Move(r, from, to)
    BY <2>4 DEF Slots!Move, Store!Move
  <2>5. CASE UNCHANGED Slots!vars
    BY <2>5 DEF Slots!vars, Store!vars
  <2>6. Slots!Active = Store!Active /\ Slots!Terminal = Store!Terminal
    BY DEF Slots!Active, Store!Active, Slots!Terminal, Store!Terminal
  <2> QED
    BY <1>3, <2>1, <2>2, <2>3, <2>4, <2>5, <2>6, SameTables DEF Slots!Next, Store!Next
<1> QED
  BY <1>1, <1>3, PTL DEF Slots!Spec, Store!Spec

(* Whatever the ticks, monitors, stops, commands, crashes and recoveries do  *)
(* to the rows of a loop: no more than --max-concurrency runs hold a slot,   *)
(* and at most one scheduled run waits (loops.rs, store/mod.rs).             *)
THEOREM ThreadsNeverOverbook == Spec => [](Slots!SlotsRespected /\ Slots!OnePendingScheduled)
<1>1. Store!Spec => []Store!SlotsRespected
  BY RunsAssumption, ConcurrencyAssumption, OverlapAssumption, FiresAssumption,
     Store!SlotsNeverOverbooked
<1>2. Store!Spec => []Store!OnePendingScheduled
  BY RunsAssumption, ConcurrencyAssumption, OverlapAssumption, FiresAssumption,
     Store!OneScheduledWaits
<1>3. Store!SlotsRespected => Slots!SlotsRespected
  BY SameTables DEF Store!SlotsRespected, Slots!SlotsRespected
<1>4. Store!OnePendingScheduled => Slots!OnePendingScheduled
  BY SameTables DEF Store!OnePendingScheduled, Slots!OnePendingScheduled
<1> QED
  BY <1>1, <1>2, <1>3, <1>4, SameSlots, ThreadsKeepSlots, PTL DEF ImplementsSlots

(* No thread, late monitor, second stop or recovery changes how a run ended  *)
(* (store/mod.rs finish_run, loops.rs).                                      *)
THEOREM ThreadsKeepEnds == Spec => Slots!TerminalIsFinal
<1>1. Store!Spec => Store!TerminalIsFinal
  BY RunsAssumption, ConcurrencyAssumption, OverlapAssumption, FiresAssumption,
     Store!EndedRunsStay
<1>2. Store!TerminalIsFinal => Slots!TerminalIsFinal
  BY PTL DEF Store!TerminalIsFinal, Slots!TerminalIsFinal, Store!vars, Slots!vars,
             Store!Terminal, Slots!Terminal, Store!Runs, Slots!Runs
<1> QED
  BY <1>1, <1>2, SameSlots, ThreadsKeepSlots, PTL DEF ImplementsSlots
=============================================================================
