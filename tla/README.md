# Verification of orchestratr

orchestratr runs coding agents (Claude Code, Codex, …) in terminals of *herdr*, a
terminal multiplexer. One server process per home directory owns a SQLite store and a set of
threads; `orcr` commands and an SDK talk to it over a Unix socket. This directory models
what is hard to test: the server's threads and what they do to each other, the server's own
life, and the names and schedules that several programs compute independently. It proves, for any
number of agents, runs, clients and crashes, what those threads promise together: that they keep the
store's admission, that terminals and processes have owners, that moves and stops end where they
should, that an answer belongs to its question, and that names agree.

Paths below are relative to the repository root. "The specification" is
`spec/spec.md`.

## 1. The system

### Components

| Component | State | Operations | Talks to | Modules |
|---|---|---|---|---|
| Store (`src/store/mod.rs`, `schema.rs`) | tables `agents`, `turns`, `pane_moves`, `attaches`, `loops`, `loop_runs`, `events`; one `Mutex<Store>`, every write in `BEGIN IMMEDIATE` | `enqueue_agent`, `promote_queued`, `transition_status`, `mark_*`, `allocate_run`, `finish_run`, … | called by every thread, never calls out | AgentQueue, PromoteLoop, and each module's own statements |
| Engine (`src/server/engine.rs`) | per-agent pipeline threads, per-agent move locks, queue-worker thread | `agent run/kill/send/…`, promotion, spawn pipeline, stuck-start guard, `reconcile_on_start` | store, driver | SpawnPipeline, PaneMoves |
| GC engine (`gc.rs`) | one thread | timeout sweep, idle park, un-park, reap, move recovery, `periodic_reconcile` | store, driver, move locks | PaneMoves, SpawnPipeline |
| Completion monitor (`completion.rs`) | one thread; a snapshot per tick | settle rules, turn completion, `blocked`, `gc immediate`; `wait` and `ask` | store, driver, transcripts | TurnCompletion |
| Loop scheduler (`loops.rs`) | tick thread; a monitor per run; stop threads | fires, run processes, timeouts, stop, the `loop` commands, recovery | store, OS processes, `agent kill` | RunSlots, LoopRuns |
| Cron (`src/cron.rs`) | none; its result is `next_fire_at` | next occurrence in a time zone | chrono | Cadence |
| Event log and bus (`src/events.rs`, `server/mod.rs`) | last sequence number, oldest retained, one pump per subscriber | publish, subscribe, trim | store | EventStream |
| Attach leases | `attaches` rows with a heartbeat | take, renew, release, expire | veto park and reap | PaneMoves |
| Bootstrap, singleton lock, stop (`server/mod.rs`, `lock.rs`, `server/client.rs`) | lock file, socket file, shutdown flag | start race, bind, serve, graceful stop | all | ServerLife |
| Paths, patterns, scopes (`src/path.rs`, `sdk/ts/src/context.ts`) | none | parse, match, resolve a scope | – | Naming |
| Terminal UI (`src/top/`) | the connection and a tree | connect, refresh, reconnect, build the tree | socket | EventStream, Naming |
| Client, CLI, wire, SDK | none shared | the caller's identity, requests | socket | Naming, ServerLife in part |
| Discovery, driver, home and config, service, scaffold | rows of foreign panes; files | – | herdr, files | none (section 7) |

An `agent run` inserts a `queued` row. The queue worker promotes rows under a
global and a per-provider cap and forks a pipeline thread for each. The pipeline calls
`agent.start`, records the terminal, and delivers the first prompt, which opens a *turn*. The
completion monitor polls herdr and decides when the newest turn is done. An idle agent's
terminal is parked in a workspace of its own by a two-phase move, brought back by the next
input, or shut down. Meanwhile `agent kill` handlers, the timeout sweep, the stuck-start
guard and the reconciler read the same row, drop the store lock, act on the terminal, and
write the row again. A loop fires runs, each a process group that itself calls `agent run`
under `<loop>/<run_id>/`; stopping a run must take its agents with it. Every write appends an
event, which subscribers and `orcr top` follow. When the server dies everything but the
store, herdr's terminals and the loops' process groups is lost, and `reconcile_on_start` and
`recover_loops_on_start` repair the rows before the server listens again.

### What is hard

* **Read, unlock, act, write.** No thread holds the store lock across a herdr call,
  a signal or a process spawn. What it read may be stale when it writes.
* **Two owners of one terminal or process.** Between `agent.start` and
  `record_location` (or `spawn` and `record_run_start`) only a local variable
  knows what was started; between herdr's `pane_move` and `finish_park` only herdr knows
  where a terminal is.
* **Unguarded writes.** `transition_status`, `mark_blocked`, `set_loop_status`, and
  `finish_park` behind its token, do not look at the status they overwrite.
* **Inference from polling.** That a provider is done is concluded from what herdr showed
  at some instants and from windows of time.
* **Crashes** between the steps above, and a restart with herdr unreachable.
* **Slots.** A slot is given back by whichever thread ends a row, and that thread wakes the next.
* **Wake-ups.** A subscriber is told of a change once; a bound that moves between its check
  and its read, or a reader that has died, loses it.
* **Names computed twice.** The server, the SDK, the stop's glob and the UI each derive
  whose agent is whose from a path.

What makes each component correct:

* queue: caps, FIFO, unique path, no slot wasted;
* spawn and kill: every live terminal has an owner, no agent stays `starting`, a row that has ended leaves no terminal;
* park and moves: the row names the workspace its terminal is in, a lease or a new input vetoes the move, no move stays half done;
* turns: an input is answered by its own turn, `wait` returns no stale completion, a finished turn is completed;
* loops: slots, folding of fires, every run started once, every process accounted for, a stop that ends and leaves nothing;
* cadence: a schedule moves forward;
* server: the socket leads to the process that holds the lock;
* events: a subscriber sees every event in order or is told it has missed some; the UI shows the last of them in the end;
* names: scope, barrier, glob and tree agree.

`PROJECT.json` lists the hazards one by one, each at its line.

## 2. The modules

```
AgentQueue  <--refines--  SpawnPipeline        LoopBounds <-- RunSlots  <--refines--  LoopRuns
   ^                        ^      ^                             ^                     ^     ^
PromoteLoop             MCSpawn  SpawnPipelineProofs       RunSlotsProofs        MCLoops  LoopRunsProofs
   ^      ^
MCQueue  AgentQueueProofs

        PaneMoves               TurnCompletion         Naming     Cadence      ServerLife
         ^     ^                   ^     ^              ^   ^        ^              ^
     MCMoves  PaneMovesProofs  MCTurns  TurnCom-  MCNaming  |     MCCadence    EventStream
                                   pletionProofs            |                    ^     ^
                                                NamesSchedulesProofs      MCStream   EventStreamProofs
```

(`^`: extends. SpawnPipelineProofs and LoopRunsProofs also instantiate AgentQueueProofs and RunSlotsProofs,
NamesSchedulesProofs Cadence.)

**AgentQueue** is the abstract specification of the store's `agents` table for
admission: which rows hold a slot, which path is taken, who is next. `Enqueue`
is `enqueue_agent`; `Promote` is one `promote_queued` transaction, described by
the *set* it moves (`Batch`); `Proceed`, `Leave` and `Regain` are everything the
threads may do to a row afterwards. `Regain` exists because `mark_blocked` excludes only
rows already `blocked`: a late monitor write puts an ended row back among the
slot holders. Those rows are collected in the history variable `regained`, and the cap
properties speak of the rows admitted through the queue.

**PromoteLoop** is `promote_queued` as written: a pass in `queue_seq` order with
running counters, as a recursive function of the position. `LoopSelectsBatch` says that it computes the one set that
satisfies `Batch`.

**SpawnPipeline** is the life of a row until its terminal is live, and its end. One action
per step between two lock holds of `pipeline_inner`/`run_pipeline` (`CheckCancel` … `Bail`),
of `handle_agent_kill` (`KillRead` … `EndRow`), the timeout sweep (`TimeoutRead`),
the stuck-start guard (`StuckRead`), `periodic_reconcile` (`Recon…`), the
monitor's late write (`MonitorRead`, `MonitorDrive`) and the restart (`Restart`,
`RecoverOne`, `Serve`). `StartPane` and `LabelPane` are the calls inside the driver's `agent_start`:
an error may leave a live terminal, because the close that cleans up is tried once, and the label is
a later call whose failure is ignored. `row` is the table, `alive` herdr's live terminals, `labelled` those that
carry their path, `pipe` and `ender` the program counters with the copies the threads hold.
`Queue == INSTANCE AgentQueue` maps the table; `ImplementsQueue` is the refinement.

**PaneMoves** is the rest of that life: one agent whose terminal is `place`d in its home
workspace, in `idle`, or gone, and a row that names one of them (`row.loc`). `ParkPick` …
`ParkBegin` are `park_sweep`/`park_one`, `ReapPick`/`ReapCheck` the reap, `TimeoutCheck` the
timeout sweep, `MovePane`/`FinishMove` the two phases that parking and un-parking share,
`Recovered` is `recover_one_move_locked` used by the reconciler (`Recon…`), by a
send or the monitor that meets a move in flight (`SettleMove`), and by `Restart`. A send
(`SendLock` … `SendPrompt`), a kill, the completion monitor (`Monitor…`) and attach leases
(`PrepareAttach`, `HeartbeatLease`, `ReleaseLease`, `LeaseLapses`, `ExpireLease`) are the
other parties. `lock` is the per-agent move lock, `work` each thread's program counter and
copies. The names of `Failing` are the herdr calls that may fail; a failed `pane_move` may
still have moved the pane.

**TurnCompletion** is one agent's turns. `row`, `turn` are the store; `Send`/`Deliver`/`Refuse`
and `Wait` the connections; `MonitorList` … `MonitorShut` one pass of `completion_tick` and
`drive_completion`, step by step between lock holds; `Take`, `TypeIn`, `Answer`, `Flush`,
`Block`, `Unblock` the provider; `Tick` the clock. Time is counted in polls, a
clock is an age that saturates. What herdr's list shows is what the provider did at that
instant, or nothing. Nothing bounds the time a delivery waits for a ready prompt or retries Enter, a
provider takes to start, or a pass spends on other agents between its list and this one.

**ServerLife** is `run_foreground` per process: the handshake, the lock, the store, the
socket, serving, the stop in its order, and a crash. A process that has dropped the lock is
`late`: its threads run until `main` returns. **EventStream** extends it with the event table
(an interval of numbers), the bus's two bounds, `publish` and its trim in four
steps (`Append` … `SetOldest`), a write by a late thread (`LateWrite`), the pump of a subscription
(`Check`, `Read`, `Write`, `Wake`), a client that resumes from its cursor, and the two threads of
`orcr top` (`Connect` … `ReopenFails`).

**LoopBounds** holds the constants of one loop definition. **RunSlots** is the
abstract specification of its `loop_runs` rows: `Allocate` and `Coalesce` are the
outcomes of `allocate_run`, `Claim` is `claim_pending_run`, `Move` the guarded
status writes. **LoopRuns** is `loops.rs`: a program counter per thread (`job`)
for the tick, the recovery, each client, each run's monitor and stop thread;
`def` is the `loops` row, `run` the `loop_runs` rows, `proc` the process group
leaders and `agents` one agent per run. `Slots == INSTANCE RunSlots` and
`ImplementsSlots` is the refinement.

**Cadence** is `cron.rs` with the schedule it drives. `Values`, `Matches` and `NextAfter` are the
parsed fields, the day rule and the search, over a calendar whose unit sizes are
constants and a zone with one transition; `Tick`, `Fire`, `Recover`, `Pause`, `Resume` are
what arms, delays and re-arms `next_fire_at`.

**Naming** has no threads but the ones whose order matters to a name: `Request…` (the resolution of
a path, by the CLI's fragment or by the SDK) is before the store lock and `Admit` under it; `List`/`KillOne` are
the rounds of a stop's glob-kill. `Matches` is the pattern matcher, `ServerScope` is
`caller_context`, `ClientScope` the SDK's `fromEnv` reading the variables that `RunEnv` and the
spawn pipeline set.

### Abstractions

* A step is one store-lock hold, with the herdr call or signal that follows a
  read. A crash between the two is the crash before both, since nothing durable was written.
* Providers, paths and clients are model values. In Naming a path is a
  sequence of segments, and an agent's uuid its index.
* `parked` rows occur in PaneMoves and not in SpawnPipeline; turns are
  counted in TurnCompletion, and compared as equal or different in PaneMoves.
* In LoopRuns `ok` and `failed` are one status, `exited`. A process may exit at
  any time, which covers the effect of SIGTERM; only SIGKILL is a certain effect.
  A process group is its leader. The clock counts the fire times that have come
  due. LoopRuns assumes that a cron expression has a next occurrence; Cadence is about which.
* In LoopRuns a run has one agent at a time, so the hundred rounds of `glob_kill_run_agents` are
  never used up. A kill ends the row whatever herdr answers; the only errors of a round are "nothing matched" and
  an error of the store, which no model has.
* In SpawnPipeline a lost answer of `tab.create` leaves a shell without a provider, which is not a terminal of the model.
* TurnCompletion reduces the transcript to whether a response can be read and how
  long it has been quiet.
* The rows never disappear, as in the code, where history is kept; events are trimmed, as in the code.
* Rows, fires, events, launches, inputs, definitions and crashes are bounded by constants
  named `Max…`.

### History variables and named windows

Some promises have exceptions that the code itself has, and the model names
each exception instead of weakening the property until it fits:

* `leaked` (SpawnPipeline): a terminal whose close herdr did not answer (the one with which `agent_start`
  cleans up after an error included), a row
  ended from a copy that showed no pane once the pipeline no longer looks at the row, a
  terminal whose row had ended when the server crashed, and a terminal without a label when the restart fails its row.
* `left` (LoopRuns): a process recorded between the stop's last re-read and
  `finish_run`; a process spawned and not recorded, or the agents of a run already
  finished, at a crash.
* `removed` (LoopRuns): the definition has been ended, so its name is no longer protected
  and the admission barrier no longer applies to its runs.
* `mislaid` (PaneMoves): a move rolled back because herdr did not name the workspace the pane is in.
* `overtaken` (TurnCompletion): an immediate teardown that had begun met a newer input.
* `lapsed` (TurnCompletion): the inputs whose windows ran out unanswered. A poll found the provider idle after
  inputs had waited `Stable` ticks in which no poll had found it at work; or a pass completed the turn although
  the windows had not passed when its list was taken, because the pass lagged behind its list. An input leaves the set when it is
  answered. `stale_idle` shows that the code gets there.

Others only remember what a property is about: `early` (PaneMoves), the leases
fresh since before the GC listed its candidate; `owed` (TurnCompletion), the
delivered inputs without an answer; `sure` and `gaps` (EventStream), the pumps whose check saw the
exact bound with no trim since, and those that skipped a row all the same; `stopped` (Naming), the
runs whose stop has finished; `armed` (Cadence), the time a schedule was computed from.

## 3. The runs

| Run | Instance | Shows |
|---|---|---|
| `queue` | 4 agents, 3 paths (two agents share one), 2 providers, global cap 2, one provider cap 1 | the admission properties, and `promote_queued` computes `Batch` |
| `spawn` | 2 agents of one path, one slot, no first prompt, 1 kill, 1 crash, herdr reliable; labels missing only by a crash; the agents are symmetric | `LivePaneAccounted`, `LiveRowHasPane`, refinement of AgentQueue |
| `spawn_live` | 1 agent with a first prompt, 1 kill, `--timeout`, 2 crashes, any herdr call may fail | the move lock excludes; no terminal is lost but as named; no agent starts for ever unless stranded; an owed terminal is closed |
| `moves` | 1 agent, 1 sender, 1 kill, 1 attacher, `pane_move` may fail or be answered late, 1 crash | the row names the right workspace; leases and inputs veto the GC; every move is settled |
| `turns` | 1 client, 2 inputs (sent or typed), grace and stability of 2 polls, deliveries, starts and passes of any length, 1 crash | no stale completion and no teardown before the answer, but in the windows; a turn seen at work completes |
| `stream` | 2 processes, 2 writers, 1 client of either kind, 2 events, retention 1, 2 launches, 1 crash | the socket leads to the server; the bus stays behind the table; no unexplained gap; `top` catches up |
| `naming` | 1 loop name defined twice, 1 run, 2 agents, 1 call in flight, depth 4 | a stopped run's family is gone; scopes agree; matching is covering; `top` shows what `ls` lists |
| `loops` | 2 runs, 1 slot, once or cron, `--timeout`, 2 fires, any one command, 1 crash | slots, single start, no lost process, an empty stop, no idle slot, refinement of RunSlots |
| `loops_live` | 2 runs of a cron loop started by hand, 2 slots, 2 clients, start/stop/`rm --kill-active`/resume, `--timeout`, 2 crashes | every stop that has begun ends, and leaves no agent |
| `queued_restart`, `stale_idle`, `cron_fold` | the smallest instance that shows each | a disagreement with the documentation or a bug (section 5) |

The bounds are small because the hazards are: each is a race of two or three threads over one row,
or of two rows over one slot or path. Two agents of *one* path and *one* slot is the
instance where a late write can meet a new owner; two runs and one slot is
the one where a promotion can be lost or done twice; two of each resource with a third
and fourth contender is what FIFO with skipping needs. One crash reaches every repair from every
step; the second, in `spawn_live` and `loops_live`, reaches the repair itself. In `spawn` `HerdrFails`
is off because a failed close is by itself a way to lose a terminal, which
the history variable would then excuse; `spawn_live` turns it on, and adds the first prompt and the deadline, which would
double `spawn`. The two agents of `spawn` have the same path, provider and options, and nothing in the module chooses
between them, so permuting them is sound.

* `moves` lets only `pane_move` fail. A failing `pane_close` or workspace list adds outcomes the
  properties excuse (`mislaid`) or do not speak of; the constant is there to turn them on.
* `turns`: windows of two polls are the smallest in which a poll can fall inside a window, at its end and after it. Two inputs
  are an older turn and a newer one; the theorems hold for any windows and any number. `Settle` is 0 in the run: with a
  settle window a completion only comes later. Time may pass between a pass's list and its look at the turn,
  before it records that it saw work, and in a shutdown; herdr may leave the agent out of any list.
* `stream`: with a retention of one, the second event already trims, so two writers trim concurrently
  and a pump can be overtaken; two processes are one that stops and one that starts.
* `naming`: two agents give every parent and child, including an agent of the run that starts the
  next by a relative name; the environment is inherited from an agent (`Leaked`), the hard case.
* `cron_fold` uses hours of two minutes and days of four hours, with a fold of one hour.

`NoIdleSlot` is a statement about one slot. With more, a resume or a restart promotes one
run and leaves the others to the next exit (`promote_pending` is called once); no property covers that. The stop
and the recovery run with two slots in `loops_live`, and the other theorems of LoopRunsProofs hold for any number.
Both loops runs have `Overlap = "queue"`, where a fire at capacity waits; `"skip"`, which drops it, is
covered by the theorems, which hold for either.

Deadlock checking is off where the system may stop: all rows ended, all fires used, all calls answered.
It is on in `queue`, where a row can always be written.

Every property of a passing run is paired in `PROJECT.json` with a variant of the code
(definitions marked `Variant:`, or named `<definition>_<what is wrong>`) under which it fails in the same run.

### Fairness

Nothing is assumed of users, agents, deadlines, launches, crashes or terminals dying. What is assumed:

* `SpawnPipeline!Fairness`: weak fairness for each pipeline thread, each row-ending
  thread and the restart. All driver calls have an I/O timeout, so a thread in a call always
  gets an answer or an error, and the process supervisor starts the server again. The stuck-start guard needs
  *strong* fairness: it shares the queue worker with promotion, so a sweep that finds the worker
  busy finds it free later, again and again.
* `LoopRuns!Fairness`: weak fairness for each thread and the restart. The run's command may ignore
  SIGTERM for ever, and `StopEnds` holds because `finish_stop` kills it.
* `PaneMoves!Fairness`: weak fairness for sends, kills, the monitor and the restart; strong fairness
  for the GC thread's steps and for its reconciler pass, because the move lock is not fair to one
  thread for ever, each tick of the thread ends with that pass, and herdr answers it again and again.
* `TurnCompletion!Fairness`: weak fairness for the monitor, the clock, the restart, and the transcript
  being written; strong fairness for herdr classifying the agent in a poll (`ListSeen`).
* `EventStream!FairSpec`: weak fairness for the threads of a serving process, for what
  a start or a stop has begun, and for `top`'s two threads.

No assumption is made about *time*. The code completes a turn it never saw at work once two windows have
passed, and whether the provider has started by then is a race: a delivery can take longer than the fast-turn
grace, a list can be older than the judgement made of it, and an agent that works off a queue of inputs, each between
two polls, looks idle throughout. The model lets all of it happen. `WaitNotStale` and `CompletedIsWhole` then say that running
out of the windows is the *only* way an unanswered input is reported complete: no stale streak, older turn, restart, typed
input or second client does it. `stale_idle` shows the windows running out in the simplest case.

## 4. What is proved

Machine-checked by TLAPS, for every value of the constants that satisfies the `ASSUME`s of the modules:

* AgentQueue, SpawnPipeline: finitely many agents, each with a path and a provider; natural caps;
* SpawnPipeline, PaneMoves: callers are not the server's own threads, and PaneMoves has finitely many of them;
* LoopBounds, LoopRuns: a positive `--max-concurrency`, known cadences and commands;
* ServerLife, EventStream: "nobody" is not a process; positive retention and batch;
* TurnCompletion: windows and bounds are natural numbers;
* Naming: names and ids hold no wildcard, a fragment is not empty, a pattern is a sequence of segments.

Unless a paragraph says so nothing else is assumed: any number of agents, threads, runs and crashes,
herdr failing or not. Each inductive invariant was checked by TLC on the instance of its run first.
Every invariant and every action property that a passing run checks is stated by a theorem.

**AgentQueueProofs** proves of `AgentQueue!Spec`: `TypeCorrect`, `PathIsUnique`,
`PositionsDistinct`, `GlobalCap`, `ProviderCaps`, `StrictFIFO`, `NoRoomLeft` (`NoSlotWasted`), and of
PromoteLoop `LoopIsBatch` (`LoopSelectsBatch`).

* `PathIsUnique` is inductive over the guards `PathFree`: every way back from
  `absent`/`ended` asks for the path.
* `PositionsDistinct` is inductive as it stands, absent rows being equal among themselves
  only: a new row goes one beyond the largest position in the table.
* The caps are not inductive alone: a promotion moves a set, and the proof needs
  `TypeOK /\ SeqDistinct /\ CapRespected`. `LastMember` finds the member of the batch that
  none is behind (the set is finite, by well-foundedness of the strict subset order);
  positions being distinct, all other members are ahead of it, so its `HasRoom` bounds
  the holders and the whole batch less one (`AdmissionBound`). `AdmissionKeepsCap` and
  `PartKeepsCap` carry the bound to the holders that are not `regained`; the
  provider's cap is the same argument restricted to its rows.
* `StrictFIFO` is an action property: an earlier row left behind did not satisfy
  `HasRoom`, the overtaking row did, so what failed is the provider's cap, and it is full afterwards.
  `NoRoomLeft` is the same for any row left behind, without an overtaker: one of its two caps is used up.
* `LoopIsBatch` has two halves. At most one set is a batch (`OneBatch`): the first row, by position, in which two of them
  differ finds the same rows ahead of it in both. And the loop's result is one: after the positions below `n` it has
  counted the holders and a batch of the rows there (`Counted`), which one turn keeps (`StepCounts`).
  The induction over positions is written as "a set of numbers with 0 and the successor of each member holds all"
  (`AllNumbers`, from the well-foundedness of `<`), because the library's induction theorems take an operator.

**SpawnPipelineProofs** proves of `SpawnPipeline!Spec`: `TypeCorrect`, `LiveRowsHavePanes`,
`LivePanesAccounted`, `MoveLockExcludes`, the refinement `ThreadsKeepAdmission`, and what it carries over:
`ThreadsKeepCaps` and `ThreadsKeepOrder`.

* `LivePaneAccounted` needs `IndInv` (`RowsAndPanesAgree`): per agent, what its row, its
  pipeline's program counter and its terminal may be together (`AgentOK`); per row-ending thread, what
  the copy it took still proves (`ThreadOK`); that what the reconciler and the monitor listed once had a
  terminal recorded; and that no thread survives its server. All but the actor's own part follow from `Forward`: no step
  takes a row or a recorded terminal back, or forgets a leaked one (`AgentKept`, `ListsKept`). The restart is the step
  that needs care: of a row it fails it has closed the terminal, or that one is leaked, for want of its label or of an answer of herdr.
* `MoveLockExcludes` is inductive with `LockOK`: a thread that closes a terminal without having
  to wait for the lock has it already, or is one that never takes it.
* `ThreadsKeepAdmission` maps each action to an `Enqueue`, `Promote`, `Proceed`, `Leave` or `Regain`, or a
  stutter. The late writes are where it could fail: the reconciler's, the monitor's and the
  pipeline's unguarded writes are a `Proceed` or a `Regain` only because `IndInv` bounds what the row may have
  become since.
* `ThreadsKeepCaps` and `ThreadsKeepOrder` are the theorems of AgentQueueProofs about the threads' own table: both caps,
  unique paths, FIFO, no slot wasted. The proof module is instantiated with the refinement's mapping
  (`Store`), and its copy of AgentQueue shown to equal the one the refinement speaks of (`SameSpec`).

**PaneMovesProofs** proves of `PaneMoves!Spec`, whichever calls may fail: `RowNamesPlace`
(`PlaceRecorded`), `LeasesVeto` (`LeaseVeto`) and `SendsCancel` (the action property `SendCancelsGC`), from
one invariant, `MovesFit`. Its core is `Fits`: a thread past the move lock holds it, the token in
a row stands for the one move in it, a copy with the row's token is a copy of
the row's move, and a GC step that has looked for leases and inputs owes none. That is what makes the second
look under the lock (`gc.rs:195`) sufficient, and what a crash between the two phases keeps.

**TurnCompletionProofs** proves of `TurnCompletion!Spec`, for any number of clients, inputs and
crashes, any windows and any delays: `NoStaleWait` (`WaitNotStale`) and `CompletedHasAnswer` (`CompletedIsWhole`), from
`TurnsFit`. The invariant says where an unanswered input can be (`Owing`: in the
terminal's queue, in the hands of a send, or being worked on), that the idle streak is no older than
the wait of what has not lapsed, unless the pass under way has just seen work (`Patience`), and, for each step of a
pass, that its copies are of the newest turn or a turn has been opened since, and that a `ripe` list of the newest turn leaves
nothing unheard (`PassOK`). `Patience` is why a ripe list proves something: a streak as old as the stability window means that
the inputs have waited as long, so the poll that finds the provider idle lets them lapse. `Settled` then follows
where a pass judges (`JudgeKeeps`): a ripe pass finds nothing unheard, and one that is not ripe lets what it completes lapse.

**RunSlotsProofs** proves of `RunSlots!Spec`: `RunsTypeCorrect`,
`SlotsNeverOverbooked`, `OneScheduledWaits`, `EndedRunsStay`. Slots: only an
insert or a claim adds a holder, one at a time and only when not `Full`; every other
write leaves the set of holders equal or smaller. `OneScheduledWaits`
replaces the cardinality by "any two folding rows are equal", which is inductive, and
returns to the cardinality at the end.

**LoopRunsProofs** proves of `LoopRuns!Spec`: `TypeCorrect`, `StartedOnce`, `ProcessesAccounted`,
`StopsEmpty`, `OnceFiresOnce`, the refinement `ThreadsKeepSlots` with what it carries over
(`ThreadsNeverOverbook`, `ThreadsKeepEnds`), and `OneSlotIsUsed`.

* `RunsFit` is one invariant for the first five: at most one thread has reserved a run's
  slot and not yet given it to a process (`Unique`); what each thread's step may rely on of its run
  (`JobOK`); a live process is recorded in a row that holds a slot, or is in the hands of one thread, or was
  `left` by a crash (`Placed`); a live agent of a stopped run has a thread on its way to it
  (`Emptied`); recovery sees no thread but itself. `TurnKeeps` is the general step: a thread that changes
  its own program counter and one row within these rules keeps all of it. Each action then shows its hypotheses.
* `ThreadsKeepSlots` maps each action to an `Allocate`, `Coalesce`, `Claim` or `Move`, or a stutter. With it the theorems
  of RunSlotsProofs hold of the threads' rows: slots and folding (`ThreadsNeverOverbook`), ended runs (`ThreadsKeepEnds`).
* `OneSlotIsUsed` (`NoIdleSlot`) is stated for `MaxConcurrency = 1`, as the property is (section 3). It
  strengthens "somebody is asked": a waiting run and a free slot mean a thread is before its promotion.

**EventStreamProofs** proves of `EventStream!Spec`, the detailed module itself, for any number of
processes, writers and clients:

* `SocketLeads`: with `LockInv`, which adds that every process between the lock and its release is the
  holder. Two processes can then not both be past `TryLock`, so a `Bind` or an `Unlink` finds no
  other server's file. Every step of the stream is a step of ServerLife or leaves it alone (`NextIsLifeStep`).
* `BoundBehind`: with `BoundInv`, which adds that a writer about to publish carries a number the
  table has reached, and one about to set the bound a number the table's first row has reached. Trims only raise the
  first row (`TrimmedForward`), so even the overwriting `set_oldest_retained` stays behind.
* `GapsAreExplained` (`NoUnexplainedGap`): a pump between its check and its read that has seen the exact bound,
  with no trim since, is at or beyond the table's first row.

**NamesSchedulesProofs** proves of `Naming!Spec`: `StopsTakeFamilies` (`StoppedFamilyIsGone`), `OneScope`
(`ScopesAgree`), `TreeShowsAll` (`TopShowsListed`) and `MatcherDeals` (`MatchIsCover`), for any names,
patterns, fragments, depths and numbers of loops, runs, agents and requests.

* `NamesFit`: a name has one definition in force, an id one run, a path one active agent;
  a relative path lies below its caller's run or in the run of its calling agent (`InScope`), and a caller is older than
  whom it calls; and for a run whose stop has begun, that it is not running, that what is left of its family is on the list of the
  round in progress, and that nothing is left at its end (`Stopping`). The last is kept by an admission
  because of the `Barrier`: `find_loop_by_name` finds *this* definition and `run_by_id` *this* run, which is not running.
* `MatcherDeals`: the table the matcher fills holds, for each rest of the pattern, the positions from where on the path can
  be dealt out to it (`MatchesDeals`, by `AllNumbers` over the length of that rest); `DealtNothing`, `DealtOne` and `DealtMany` are
  the matcher's branches said of deals. `GlobMatch`, the matcher on a run's glob, follows from it.
* `DescendsBelow` shows that every descendant, at any depth, lies below its run. That the recursion
  of `Descends` has a solution is shown without induction (the union of all self-supporting sets is one), and the rest is by
  the least counterexample.

It proves of `Cadence!Spec`, for every expression, calendar and horizon:
`NoFoldStrictlyAfter` (in a zone whose transition skips local time, or has none, a loop is always armed for a later
time) and `FoldBoundsTheRepeat` (otherwise the armed time is behind by less than the
length of the fold). `NextBound` is the arithmetic of one search, `ArmedBySearch` that every
command stores a value of the search. `NoFoldStrictlyAfter` marks where the bug of `cron_fold` ends.

Left to TLC for good is liveness, which needs fairness and ENABLED: `StartingSettlesOrStranded`, `OwedPaneCloses`,
`MoveSettles`, `SeenTurnCompletes`, `StopEnds`, `TopCatchesUp`.

## 5. Disagreements

### Shown by a run

Each is a run that must find a violation; the quotes are in `PROJECT.json`.

* `queued_restart`: a restart ends rows that were merely `queued` as `failed`
  (`engine.rs:694`), though the specification calls them "accepted and durable" (`spec/spec.md:479`).
* `stale_idle`: a send's turn is completed on the idle from before its input, and its `wait` returns
  `turn_complete` (`completion.rs:176`), though the turn is opened before the delivery "so a `wait` issued after this
  send can never be satisfied by a stale idle" (`engine.rs:984-986`; `completion.rs:162-169` says the same). The grace window
  is 2.5 s from the opening; a delivery may wait 8 s for a ready prompt and press Enter again for 20 s (`engine.rs:470-518`).
* `cron_fold`: a local minute in the second pass of a fall-back fold is converted to its first
  instant (`cron.rs:106`), which lies before the time searched from, though `next_after` promises "strictly
  after" (`cron.rs:76`). The loop is due again at once, and fires at every scheduler tick until the
  repeated minute is over.

### Read from the code, without a run

Met while modelling; the models contain each of them (as a behaviour the
properties name, or outside their scope).

Spawn and kill:

* A kill during the first prompt's delivery ends the row `killed`; the pipeline's error path then
  rewrites the reason to `failed` (`engine.rs:212`; `spec/spec.md:755`).
* A kill that read the row before its terminal was recorded ends it `canceled`, and nobody closes the terminal
  (`engine.rs:1167`; `spec/spec.md:461`).
* A restart closes the terminals of an unfinished spawn by their label, "no duplicate pane survives"
  (`engine.rs:682-684`). The label comes from a `pane.rename` after `agent.start` has answered, whose failure is ignored
  (`driver/mod.rs:230-232`): a crash before it, or a failed one, leaves a live terminal that nobody finds, and its row `failed`.
* An `agent.start` that times out may have started the provider; the close that cleans up is tried once
  (`driver/mod.rs:196-197` says "the fresh pane is closed so a failed launch leaks no empty tab"), and nothing is recorded for a later one.
* A restart that finds a `starting` row with its terminal recorded makes it `working` without opening a turn
  (`engine.rs:652`): nothing can complete it.

Park, reap, repair:

* The lease check precedes the move lock (`gc.rs:108`): an attach that lands in between does not veto
  (`spec/spec.md:424`).
* `mark_blocked` over a `parked` row leaves a blocked agent's pane in the idle workspace, as only `parked` rows are un-parked.
* `recover_one_move` rolls back a completed move when the workspace list fails (about `gc.rs:447`), and marks a row
  lost without looking at its token or status (about `gc.rs:425`).
* The reconciler takes its pane list before it lists the rows (`gc.rs:331`): an agent placed in between is marked lost.
* `finish_park` compares only the token (`store/mod.rs:1083`), so a row ended in the middle of a park becomes `parked`.

Turns:

* An input that herdr refused leaves its turn open (`engine.rs:986`), and the monitor completes it after the grace window.
* A pass drives all agents from one list and reads each one's clock later: a list from before a turn's windows passed can
  complete it after they did (`completion.rs:62`, `completion.rs:176`), a case of `lapsed`.
* `gc immediate` shuts an agent down although a newer input was delivered between its completion and its shutdown
  (`completion.rs:243`; the `overtaken` window).
* A `blocked` row whose turn completes without `working` being seen stays `blocked` (`spec/spec.md:514`).

Loops and schedules:

* A once loop that fires at capacity leaves its run `pending` for ever: the fire itself ends the definition
  (`store/mod.rs:1957`) and `promote_pending` serves only active ones (`loops.rs:320`; `spec/spec.md:871`).
* The admission barrier of a stopping run is not consulted for a once loop that has fired, nor after `loop rm`,
  as the name is no longer protected (`engine.rs:1709`; `spec/spec.md:849`). A re-created name moreover makes
  the old definition's runs unreachable by `loop run stop`.
* `loop create` writes `loop.json` before the unique name is checked (`loops.rs:746`); `pause` and `resume`
  write the status without looking at it again (`loops.rs:841`).
* The cron search looks four years ahead, which 29 February of 2096 exceeds; `*/1` in a day field counts as a restriction.

Events, server, UI:

* `set_oldest_retained` overwrites (`events.rs:70`): two trims may publish in the wrong order. A pump
  whose check falls between a trim and its publication, or whose read a trim overtakes, skips rows silently.
* `orcr top` tries forty times to reconnect and then goes on with the channel of a dead
  reader (`top/app.rs:217`); "a dropped connection trigger a reconnect + re-snapshot"
  (`top/app.rs:7-8`) no longer happens. A failed refresh, which tells its reader to stop first, has the same end. The screen is
  then frozen, which `TopCatchesUp` names.
* The cursor of `watch.open` can expire before the pump's first check (`socket-api.mdx:83`).
* The loser of a start race waits its full 15 seconds when the winner fails. Threads of a stopped server may
  write after its lock is gone.

Names:

* An agent at exactly `<loop>/<run_id>` is not matched by the run's glob and survives its stop.
* `orcr top` takes a run's caller for an agent when it resolves the scope (`cli.rs:433`); `agent ls` does not.
* An outsider agent at `<loop>/x` created before the loop passes the test for being within the loop.

## 6. Plan

Done: the store's two promises, the pipeline, the moves, the turns, the loop runs, the server's
life, the event stream, the cadence and the names, with the proofs of section 4 for each. What is
left, in order:

1. **One agent, whole**: PaneMoves and TurnCompletion over one row, so that a park
   meets a real turn; their common statements are already the same.
2. **More than one slot** for loops: state and check what promotion guarantees when several slots are free.
3. **Discovery**, selection by uuid or prefix, the SDK's scopes that end with a script.

## 7. Not modelled

* *Driver, herdr protocol, transcripts, integrations*: I/O; they appear as calls that answer, fail or act.
* *Home, configuration, durations*: parsing; the values are constants of the models.
* *Cron*: transitions by other than whole minutes, leap years, zone names, all in a library.
* *CLI, wire format*: argument parsing, framing and printing; they send the requests the models start from.
* *Terminal UI*: rows, keys and drawing.
* *SDK*: everything but the caller's scope and path resolution; a scope kills its agents once when the
  script ends, with no retry and so no state of its own.
* *Discovery of unmanaged panes*: rows with no slot and no lifecycle beyond seen and gone.
* *Paths*: `{rand}` and the grammar of a segment.
* *Service files and scaffold*: templates.
* *Run logs and `loop.json`*: file contents.
* *Drift counters, session capture*: reporting only.

## 8. Reproducing

`tlc -config <run>.cfg <module>` for a row of section 3 (`PROJECT.json` pairs them),
`tlapm <module>.tla` for the eight modules named `…Proofs`. The longest run takes three to four minutes
on two cores, the longest proof (LoopRunsProofs) about ten.
