--------------------------- MODULE TurnCompletion ---------------------------
(***************************************************************************)
(* Turns of one managed agent: every delivered input opens a turn; the     *)
(* completion monitor polls herdr and decides when the newest turn is done *)
(* (working was seen, or the whole grace window passed, and then a stable  *)
(* idle); `wait` and `ask` settle on the public status; a `gc immediate`   *)
(* agent is torn down with its turn (src/server/completion.rs, the turn    *)
(* statements of store/mod.rs, send, wait and ask of engine.rs).           *)
(*                                                                         *)
(* Time is in monitor ticks. A clock is kept as an age that stops growing  *)
(* once no comparison can tell it from an older one.                       *)
(***************************************************************************)
EXTENDS Integers, FiniteSets

CONSTANTS
  Clients,    \* connections: each sends an input, then waits for the agent
  Grace,      \* fast_turn_grace_ms
  Stable,     \* idle_stable_ms
  Settle,     \* transcript_settle_ms; 0: no native transcript to look at
  MaxInputs,  \* bound on input_seq
  MaxCrashes  \* bound on server crashes

ASSUME TimingAssumption == {Grace, Stable, Settle, MaxInputs, MaxCrashes} \subseteq Nat

VARIABLES
  row,      \* the agent: status, exit reason, gc mode, idle streak
  turn,     \* its newest turn
  provider, \* what the provider is doing, the input it is on (0: typed), and
            \* whether it has given an answer the transcript does not show
  pending,  \* inputs in the terminal that the provider has not started
  due,      \* ticks inputs have waited with no poll showing the provider at work
  said,     \* a response can be read in the transcript
  quiet,    \* ticks since the transcript was written; -1: there is none
  monitor,  \* the monitor's pass: its copies and where it is
  client,   \* the clients
  owed,     \* history: delivered inputs without an answer
  overtaken,\* history: a teardown under way met a newer input
  lapsed,   \* history: inputs whose windows ran out unanswered: a poll found the
            \* provider idle after Stable ticks of waiting, or a pass that lagged
            \* judged by a list from before the windows had passed
  up,       \* the server runs
  crashes   \* crashes so far

vars == <<row, turn, provider, pending, due, said, quiet, monitor, client, owed,
          overtaken, lapsed, up, crashes>>

Larger(a, b) == IF a > b THEN a ELSE b

Cap == Larger(Larger(Grace, Stable), Settle) + 1

\* An idle streak: its age, and whether it began too late for the grace window.
NoStreak == [age |-> -1, late |-> FALSE]

Streak == [age |-> 0, late |-> turn.age > Grace]

Asleep == [pc |-> "rest", status |-> "none", seq |-> 0, idle |-> NoStreak,
           sees |-> "none", open |-> FALSE, seen |-> FALSE, age |-> 0, ripe |-> FALSE]

\* A primed agent waits for its first input.
Init ==
  /\ row \in {[status |-> "idle", exit |-> "none", immediate |-> b, idle |-> NoStreak] :
                b \in BOOLEAN}
  /\ turn = [seq |-> 0, open |-> FALSE, seen |-> FALSE, age |-> 0]
  /\ provider = [state |-> "idle", on |-> 0, unsaid |-> FALSE]
  /\ pending = {} /\ due = 0
  /\ said = FALSE /\ quiet = -1
  /\ monitor = Asleep
  /\ client = [c \in Clients |-> [pc |-> "rest", mine |-> 0, result |-> "none"]]
  /\ owed = {} /\ overtaken = FALSE /\ lapsed = {}
  /\ up = TRUE /\ crashes = 0

Terminal == {"ended", "lost"}

-----------------------------------------------------------------------------
\* The store's statements.

\* deliver_input, with working_seen_at for open_external_turn: one turn more, and
\* the agent is working.
OpenTurn(seen) ==
  /\ row' = [row EXCEPT !.status = "working", !.idle = NoStreak]
  /\ turn' = [seq |-> turn.seq + 1, open |-> TRUE, seen |-> seen, age |-> 0]

SetWorkingSeen(seq) ==
  /\ turn' = IF seq = turn.seq THEN [turn EXCEPT !.seen = TRUE] ELSE turn
  /\ row' = [row EXCEPT !.idle = NoStreak]

MarkWorking ==
  row' = IF row.status \in {"idle", "blocked", "parked"}
         THEN [row EXCEPT !.status = "working", !.idle = NoStreak] ELSE row

MarkBlocked ==
  row' = IF row.status # "blocked"
         THEN [row EXCEPT !.status = "blocked", !.idle = NoStreak] ELSE row

\* Only the monitor completes turns, so the one it read is still open.
CompleteRow(seq) ==
  turn' = IF seq = turn.seq THEN [turn EXCEPT !.open = FALSE] ELSE turn

\* Variant: the public status is flipped whatever turn is the newest.
CompleteTurn_AnySeq(seq) ==
  /\ CompleteRow(seq)
  /\ row' = IF row.status = "working" THEN [row EXCEPT !.status = "idle"] ELSE row

CompleteTurn(seq) ==
  /\ CompleteRow(seq)
  /\ row' = IF row.status = "working" /\ seq = turn.seq
            THEN [row EXCEPT !.status = "idle"] ELSE row

-----------------------------------------------------------------------------
\* Sending, waiting and asking.
ClientOnly == UNCHANGED <<provider, said, quiet, monitor, overtaken, lapsed, up, crashes>>

\* handle_agent_send, or the first prompt of a run: the turn is opened before
\* herdr gets the text, and the move lock keeps other sends out until it has.
Send(c) ==
  /\ up /\ client[c].pc = "rest" /\ turn.seq < MaxInputs
  /\ \A d \in Clients : client[d].pc # "prompt"
  /\ row.status \notin Terminal
  /\ OpenTurn(FALSE)
  /\ client' = [client EXCEPT ![c].pc = "prompt", ![c].mine = turn.seq + 1]
  /\ owed' = owed \cup {turn.seq + 1}
  /\ due' = 0
  /\ UNCHANGED <<pending>> /\ ClientOnly

\* deliver_prompt, after the wait for a ready prompt; what confirm_submitted still
\* has to press Enter for waits in the terminal. On an error the client is told.
Deliver(c) ==
  /\ up /\ client[c].pc = "prompt"
  /\ pending' = pending \cup {client[c].mine}
  /\ client' = [client EXCEPT ![c].pc = "wait"]
  /\ UNCHANGED <<row, turn, due, owed>> /\ ClientOnly

Refuse(c) ==
  /\ up /\ client[c].pc = "prompt"
  /\ owed' = owed \ {client[c].mine}
  /\ client' = [client EXCEPT ![c].pc = "done", ![c].result = "error"]
  /\ UNCHANGED <<row, turn, pending, due>> /\ ClientOnly

\* settle_of: how a wait ends on this row, if it does.
SettleOf(r) ==
  CASE r.status = "idle" -> {"turn_complete"}
    [] r.status = "blocked" -> {"blocked"}
    [] r.status = "ended" -> {r.exit}
    [] OTHER -> {}

\* handle_agent_wait returns what one read of the row shows, or times out; an
\* `ask` that saw the turn complete then reads the last response.
Wait(c) ==
  /\ up /\ client[c].pc = "wait"
  /\ \E result \in SettleOf(row) \cup {"wait_timeout"} :
       client' = [client EXCEPT ![c].pc = "done", ![c].result = result]
  /\ UNCHANGED <<row, turn, pending, due, owed>> /\ ClientOnly

\* kill, the timeout sweep: the pane is closed and the row ended.
Kill ==
  /\ up /\ row.status # "ended"
  /\ row' = [row EXCEPT !.status = "ended", !.exit = "killed"]
  /\ provider' = [state |-> "gone", on |-> 0, unsaid |-> FALSE]
  /\ pending' = {}
  /\ UNCHANGED <<turn, due, said, quiet, monitor, client, owed, overtaken, lapsed, up, crashes>>

-----------------------------------------------------------------------------
\* The provider. It takes what waits when it likes, or never. An input typed at the
\* terminal is one orcr has not delivered; what is typed over a delivery under way
\* becomes part of it.
Waiting == pending \cup {client[c].mine : c \in {d \in Clients : client[d].pc = "prompt"}}

Starts == Waiting # {}

ProviderOnly == UNCHANGED <<row, turn, monitor, client, overtaken, up, crashes>>

\* Taking an input echoes it into the transcript.
Take ==
  /\ provider.state \in {"idle", "blocked"}
  /\ \E n \in pending :
       /\ \A k \in pending : n <= k
       /\ provider' = [provider EXCEPT !.state = "working", !.on = n]
       /\ pending' = pending \ {n}
  /\ due' = IF Waiting = {provider'.on} THEN 0 ELSE due
  /\ quiet' = 0
  /\ UNCHANGED <<said, owed, lapsed>> /\ ProviderOnly

TypeIn ==
  /\ provider.state = "idle" /\ ~Starts /\ turn.seq < MaxInputs
  /\ provider' = [provider EXCEPT !.state = "working", !.on = 0]
  /\ quiet' = 0
  /\ UNCHANGED <<pending, due, said, owed, lapsed>> /\ ProviderOnly

\* The answer shows as idle at once, in the transcript now or later.
Answer ==
  /\ provider.state = "working"
  /\ provider' = [provider EXCEPT !.state = "idle", !.unsaid = TRUE]
  /\ owed' = {n \in owed : n > provider.on} /\ lapsed' = lapsed \cap owed'
  /\ UNCHANGED <<pending, due, said, quiet>> /\ ProviderOnly

Flush ==
  /\ provider.unsaid
  /\ provider' = [provider EXCEPT !.unsaid = FALSE]
  /\ said' = TRUE /\ quiet' = 0
  /\ UNCHANGED <<pending, due, owed, lapsed>> /\ ProviderOnly

Block ==
  /\ provider.state = "working"
  /\ provider' = [provider EXCEPT !.state = "blocked"]
  /\ UNCHANGED <<pending, due, said, quiet, owed, lapsed>> /\ ProviderOnly

Unblock ==
  /\ provider.state = "blocked" /\ ~Starts
  /\ provider' = [provider EXCEPT !.state = "working"]
  /\ UNCHANGED <<pending, due, said, quiet, owed, lapsed>> /\ ProviderOnly

-----------------------------------------------------------------------------
\* completion_tick and drive_completion.
At(step) == up /\ monitor.pc = step

Goes(step) == monitor' = [monitor EXCEPT !.pc = step]

PassEnds == monitor' = [Asleep EXCEPT !.pc = "polled"]

MonitorOnly == UNCHANGED <<provider, pending, said, quiet, client, owed, up, crashes>>

\* The rows, then herdr's list, which may not show an agent. `ripe`: with the list
\* itself both windows had passed (what the judgement finds later may be a lag).
MonitorList ==
  /\ At("rest")
  /\ \/ /\ row.status \in {"working", "idle", "blocked", "parked"} /\ provider.state # "gone"
        /\ monitor' = [Asleep EXCEPT !.pc = "turn", !.status = row.status, !.seq = turn.seq,
                                     !.idle = row.idle, !.sees = provider.state,
                                     !.ripe = /\ provider.state = "idle" /\ row.idle.age >= Stable
                                              /\ turn.seen \/ turn.age >= Grace]
        /\ due' = IF provider.state = "working" THEN 0 ELSE due
        /\ lapsed' = IF provider.state = "idle" /\ due = Stable THEN lapsed \cup Waiting
                     ELSE lapsed
     \/ PassEnds /\ UNCHANGED <<due, lapsed>>
  /\ UNCHANGED <<row, turn, overtaken>> /\ MonitorOnly

\* latest_turn. A streak of the copy that is older than the turn did not begin late.
MonitorTurn ==
  /\ At("turn")
  /\ monitor' = [monitor EXCEPT
       !.pc = monitor.sees, !.seq = turn.seq,
       !.open = turn.open, !.seen = turn.seen, !.age = turn.age,
       !.idle.late = monitor.idle.late /\ monitor.seq = turn.seq,
       !.ripe = monitor.ripe /\ monitor.seq = turn.seq]
  /\ UNCHANGED <<row, turn, due, overtaken, lapsed>> /\ MonitorOnly

\* Working with a turn open: it was seen; a settled status is unsettled. Without
\* one: an external turn.
MonitorWorking ==
  /\ At("working")
  /\ IF monitor.open
     THEN SetWorkingSeen(monitor.seq) /\ Goes("unsettle")
     ELSE /\ PassEnds
          /\ IF row.status \in Terminal \/ turn.seq >= MaxInputs
             THEN UNCHANGED <<row, turn>> ELSE OpenTurn(TRUE)
  /\ UNCHANGED <<due, overtaken, lapsed>> /\ MonitorOnly

MonitorUnsettle ==
  /\ At("unsettle") /\ PassEnds
  /\ IF monitor.status \in {"idle", "blocked", "parked"} THEN MarkWorking ELSE UNCHANGED row
  /\ UNCHANGED <<turn, due, overtaken, lapsed>> /\ MonitorOnly

\* A block reported before the turn was seen, or could have been, is the last one's.
MonitorBlocked ==
  /\ At("blocked") /\ PassEnds
  /\ IF monitor.open => monitor.seen \/ monitor.age >= Grace
     THEN MarkBlocked ELSE UNCHANGED row
  /\ UNCHANGED <<turn, due, overtaken, lapsed>> /\ MonitorOnly

\* Variant: the streak is started again by every pass.
Since_Restarted == Streak

\* The streak of the copy, or one that starts now.
Since == IF monitor.idle.age >= 0 THEN monitor.idle ELSE Streak

MonitorIdle ==
  /\ At("idle")
  /\ IF monitor.open
     THEN /\ row' = [row EXCEPT !.idle = IF monitor.idle.age >= 0 THEN @ ELSE Since]
          /\ monitor' = [monitor EXCEPT !.pc = "judge", !.idle = Since]
     ELSE PassEnds /\ UNCHANGED row
  /\ UNCHANGED <<turn, due, overtaken, lapsed>> /\ MonitorOnly

\* A turn too fast to be seen working: only after the whole grace window.
FastOk == ~monitor.seen /\ ~monitor.idle.late /\ monitor.age >= Grace

TranscriptSettled == Settle = 0 \/ quiet >= Settle

\* Variant: the teardown does not wait for a response.
Readable_Assumed == TRUE

Readable == said

\* complete: an immediate agent only once a response can be read; its turn is
\* completed without an idle, and then the agent is shut down.
MonitorJudge ==
  /\ At("judge")
  /\ IF /\ monitor.seen \/ FastOk
        /\ monitor.idle.age >= Stable
        /\ TranscriptSettled
        /\ row.immediate => Readable
     THEN /\ lapsed' = IF monitor.ripe \/ monitor.seq # turn.seq THEN lapsed
                       ELSE lapsed \cup owed
          /\ IF row.immediate
             THEN CompleteRow(monitor.seq) /\ Goes("shut") /\ UNCHANGED row
             ELSE CompleteTurn(monitor.seq) /\ PassEnds
     ELSE PassEnds /\ UNCHANGED <<row, turn, lapsed>>
  /\ UNCHANGED <<due, overtaken>> /\ MonitorOnly

\* graceful_shutdown and end_agent, whatever has been delivered meanwhile.
MonitorShut ==
  /\ At("shut") /\ PassEnds
  /\ row' = [row EXCEPT !.status = "ended", !.exit = "completed"]
  /\ provider' = [state |-> "gone", on |-> 0, unsaid |-> FALSE]
  /\ pending' = {}
  /\ overtaken' = (overtaken \/ turn.open)
  /\ UNCHANGED <<turn, due, said, quiet, client, owed, lapsed, up, crashes>>

MonitorStep ==
  \/ MonitorTurn \/ MonitorWorking \/ MonitorUnsettle
  \/ MonitorBlocked \/ MonitorIdle \/ MonitorJudge \/ MonitorShut

-----------------------------------------------------------------------------
\* Time. The server polls once a tick; a pass may also lag, by any time, while it
\* drives other agents, waits for a parked agent's move lock, or shuts this one
\* down. drive_completion reads its clock once, at latest_turn.
Older(n) == IF n < 0 \/ n = Cap THEN n ELSE n + 1

Tick ==
  /\ up => monitor.pc \in {"turn", "working", "shut", "polled"}
  /\ due' = IF ~Starts THEN 0 ELSE IF due < Stable THEN due + 1 ELSE due
  /\ turn' = IF turn.open /\ ~turn.seen THEN [turn EXCEPT !.age = Older(@)] ELSE turn
  /\ row' = [row EXCEPT !.idle.age = Older(@)]
  /\ quiet' = IF Settle = 0 THEN quiet ELSE Older(quiet)
  /\ monitor' = CASE monitor.pc = "polled" -> Asleep
                   [] monitor.pc = "turn" -> [monitor EXCEPT !.idle.age = Older(@)]
                   [] OTHER -> monitor
  /\ UNCHANGED <<provider, pending, said, client, owed, overtaken, lapsed, up, crashes>>

\* The connections and the monitor's pass are gone.
Crash ==
  /\ up /\ crashes < MaxCrashes
  /\ up' = FALSE /\ crashes' = crashes + 1
  /\ monitor' = Asleep
  /\ client' = [c \in Clients |->
                  IF client[c].pc \in {"prompt", "wait"}
                  THEN [client[c] EXCEPT !.pc = "done", !.result = "error"] ELSE client[c]]
  /\ owed' = owed \ {client[c].mine : c \in {d \in Clients : client[d].pc = "prompt"}}
  /\ UNCHANGED <<row, turn, provider, pending, due, said, quiet, overtaken, lapsed>>

\* rearm_idle_clocks_on_restart: a streak from before the crash is not trusted.
Restart ==
  /\ ~up /\ up' = TRUE
  /\ row' = [row EXCEPT !.idle = CASE row.status \in {"working", "blocked"} -> NoStreak
                                   [] row.status = "idle" -> Streak
                                   [] OTHER -> @]
  /\ UNCHANGED <<turn, provider, pending, due, said, quiet, monitor, client, owed,
                 overtaken, lapsed, crashes>>

-----------------------------------------------------------------------------
Next ==
  \/ \E c \in Clients : Send(c) \/ Deliver(c) \/ Refuse(c) \/ Wait(c)
  \/ Kill
  \/ Take \/ TypeIn \/ Answer \/ Flush \/ Block \/ Unblock
  \/ MonitorList \/ MonitorStep
  \/ Tick \/ Crash \/ Restart

Spec == Init /\ [][Next]_vars

ListSeen == MonitorList /\ monitor'.pc = "turn"

\* The monitor thread polls and finishes its pass, herdr classifies an agent
\* again and again, time goes on, the server is started again and a response that
\* was given is written down.
Fairness ==
  /\ WF_vars(MonitorList) /\ WF_vars(MonitorStep) /\ SF_vars(ListSeen)
  /\ WF_vars(Tick) /\ WF_vars(Restart) /\ WF_vars(Flush)

FairSpec == Spec /\ Fairness

-----------------------------------------------------------------------------
\* A wait that reports the turn complete reports it of an input the provider has
\* answered, whoever sends, types, restarts or completes an older turn meanwhile.
\* The windows are the only exceptions: an input that waited them out while every
\* poll found the provider idle, that a lagging pass judged, or that a teardown
\* already under way met.
WaitNotStale ==
  \A c \in Clients :
    client[c].result \in {"turn_complete", "completed"} =>
      client[c].mine \notin owed \/ client[c].mine \in lapsed \/ overtaken

\* `completed` means the agent's response could be read before its pane closed, and
\* nothing delivered was left unanswered, the same windows excepted.
CompletedIsWhole ==
  row.exit = "completed" => said /\ (owed \subseteq lapsed \/ overtaken)

\* Once the provider has gone quiet for good, a turn it was seen working on is
\* completed or superseded, across a restart too.
ProviderRests ==
  provider.state = "idle" /\ ~Starts /\ ~provider.unsaid /\ row.status # "ended"

SeenTurnCompletes ==
  <>[](up /\ ProviderRests) => [](turn.seen => <>~(turn.open /\ turn.seen))

-----------------------------------------------------------------------------
\* What a comment says and the code does not keep (an expected violation).

\* src/server/engine.rs, handle_agent_send: input_seq increments before delivery,
\* "so a `wait` issued after this send can never be satisfied by a stale idle".
StaleIdleNeverSatisfies ==
  \A c \in Clients : client[c].result = "turn_complete" => client[c].mine \notin owed
=============================================================================
