------------------------ MODULE TurnCompletionProofs ------------------------
(***************************************************************************)
(* Theorems of TurnCompletion, for any number of clients, inputs and       *)
(* crashes, any windows and any delay of a delivery or of a pass.          *)
(*                                                                         *)
(* The argument: an idle streak began after the inputs that wait came, or  *)
(* a poll saw the provider at work since, so it is no older than their     *)
(* wait; a poll that lists the provider idle with a streak as old as the   *)
(* stability window therefore finds that the inputs have waited as long,   *)
(* and they have lapsed. A pass whose list was taken before the windows    *)
(* had passed, and which completes the turn all the same, has lagged, and  *)
(* lets what it completes lapse. No other unanswered input is settled.     *)
(***************************************************************************)
EXTENDS TurnCompletion, TLAPS

Streaks == [age : Int, late : BOOLEAN]

Rows == [ status : {"idle", "working", "blocked", "ended"},
          exit : {"none", "killed", "completed"}, immediate : BOOLEAN, idle : Streaks ]

Turns == [seq : Nat, open : BOOLEAN, seen : BOOLEAN, age : Int]

Providers == [state : {"idle", "working", "blocked", "gone"}, on : Nat, unsaid : BOOLEAN]

Passes == [ pc : {"rest", "turn", "working", "unsettle", "blocked", "idle", "judge", "shut",
                  "polled"},
            status : {"none", "idle", "working", "blocked"}, seq : Nat, idle : Streaks,
            sees : {"none", "idle", "working", "blocked"}, open : BOOLEAN, seen : BOOLEAN,
            age : Int, ripe : BOOLEAN ]

Connections == [ pc : {"rest", "prompt", "wait", "done"}, mine : Nat,
                 result : {"none", "error", "wait_timeout", "turn_complete", "blocked",
                           "killed", "completed"} ]

TypeOK ==
  /\ row \in Rows
  /\ turn \in Turns
  /\ provider \in Providers
  /\ monitor \in Passes
  /\ client \in [Clients -> Connections]
  /\ pending \subseteq Nat /\ owed \subseteq Nat /\ lapsed \subseteq Nat
  /\ due \in 0..Stable
  /\ up \in BOOLEAN /\ overtaken \in BOOLEAN /\ said \in BOOLEAN
  /\ ~up => monitor = Asleep
  /\ monitor.pc = "turn" => monitor.sees # "none"

Prompts(c) == client[c].pc = "prompt"

\* Inputs are taken in the order of their numbers, and the one being delivered is
\* behind the others.
Ordered ==
  /\ \A n \in owed : n <= turn.seq
  /\ provider.on <= turn.seq /\ monitor.seq <= turn.seq
  /\ \A c \in Clients : client[c].mine <= turn.seq
  /\ \A n \in pending : provider.on < n
  /\ \A c, d \in Clients : Prompts(c) /\ Prompts(d) => c = d
  /\ \A c \in Clients : Prompts(c) =>
       /\ provider.on < client[c].mine
       /\ \A n \in pending : n < client[c].mine

\* An input without an answer waits, is being delivered, or is one the busy
\* provider has taken; and what waits has no answer.
Owing ==
  /\ provider.state # "gone" =>
       \A n \in owed : \/ n \in pending
                       \/ \E c \in Clients : Prompts(c) /\ client[c].mine = n
                       \/ provider.state # "idle" /\ n <= provider.on
  /\ pending \subseteq owed
  /\ \A c \in Clients : Prompts(c) => client[c].mine \in owed

\* Inputs without an answer whose windows have not run out.
Unheard == owed \ lapsed

\* A closed turn and an idle row leave no such input, and neither does `completed`,
\* unless a teardown was overtaken.
Settled ==
  /\ ~turn.open => Unheard = {}
  /\ row.status = "idle" => Unheard = {}
  /\ row.exit = "completed" =>
       /\ row.status = "ended" /\ provider.state = "gone" /\ monitor.pc \in {"rest", "polled"}
       /\ said /\ (Unheard = {} \/ overtaken)
  /\ \A c \in Clients : client[c].result \in {"turn_complete", "completed"} =>
       client[c].pc = "done" /\ (client[c].mine \notin Unheard \/ overtaken)

\* The pass has seen the provider at work and has yet to end the streak.
SeesWork == monitor.sees = "working" /\ monitor.pc \in {"turn", "working"}

\* While an input waits, the streak is no older than the wait.
Patience ==
  up /\ row.status # "ended" /\ Waiting \ lapsed # {} /\ ~SeesWork
    => row.idle.age <= due \/ due = Stable

\* What the copies of a pass are worth: the turn they are of is still the newest, or
\* one has been opened since.
PassOK ==
  /\ monitor.pc \in {"turn", "working"} /\ monitor.seq # turn.seq => row.idle.age = -1
  /\ monitor.pc = "working" /\ monitor.seq = turn.seq => monitor.open = turn.open
  /\ monitor.pc \in {"turn", "idle", "judge"} /\ monitor.seq = turn.seq /\ monitor.ripe =>
       Unheard = {}
  /\ monitor.pc \in {"idle", "judge"} /\ monitor.seq # turn.seq => turn.open
  /\ monitor.pc = "shut" => said /\ (Unheard = {} \/ turn.open)

IndInv == TypeOK /\ Ordered /\ Owing /\ Settled /\ Patience /\ PassOK

-----------------------------------------------------------------------------
\* The windows are numbers.
LEMMA Consts ==
  /\ Grace \in Nat /\ Stable \in Nat /\ Settle \in Nat /\ MaxInputs \in Nat
  /\ Cap \in Nat /\ Stable < Cap
BY TimingAssumption DEF Cap, Larger

\* No streak, one that begins now, and a monitor between two passes.
LEMMA Shapes ==
  ASSUME TypeOK
  PROVE  /\ NoStreak \in Streaks /\ NoStreak.age = -1
         /\ Streak \in Streaks /\ Streak.age = 0
         /\ Asleep \in Passes /\ Asleep.pc = "rest" /\ Asleep.seq = 0 /\ Asleep.sees = "none"
         /\ [Asleep EXCEPT !.pc = "polled"] \in Passes
         /\ [Asleep EXCEPT !.pc = "polled"].pc = "polled"
         /\ [Asleep EXCEPT !.pc = "polled"].seq = 0
<1>1. NoStreak \in Streaks /\ NoStreak.age = -1
  BY DEF NoStreak, Streaks
<1>2. Streak \in Streaks /\ Streak.age = 0
  BY Consts DEF Streak, Streaks, TypeOK, Turns
<1>3. Asleep \in Passes /\ Asleep.pc = "rest" /\ Asleep.seq = 0 /\ Asleep.sees = "none"
  BY <1>1 DEF Asleep, Passes
<1>4. [Asleep EXCEPT !.pc = "polled"] \in Passes
  BY <1>3 DEF Passes
<1>5. [Asleep EXCEPT !.pc = "polled"].pc = "polled" /\ [Asleep EXCEPT !.pc = "polled"].seq = 0
  BY <1>3 DEF Passes
<1> QED
  BY <1>1, <1>2, <1>3, <1>4, <1>5

\* What the statements make of a row.
LEMMA RowEdits ==
  ASSUME NEW r \in Rows, NEW i \in Streaks
  PROVE  /\ [r EXCEPT !.idle = i] \in Rows
         /\ [r EXCEPT !.idle.age = i.age] \in Rows
         /\ \A s \in {"idle", "working", "blocked", "ended"} :
              /\ [r EXCEPT !.status = s] \in Rows
              /\ [r EXCEPT !.status = s, !.idle = i] \in Rows
BY DEF Rows, Streaks

\* What a connection is after a step of its own.
LEMMA ConnectionEdits ==
  ASSUME NEW k \in Connections
  PROVE  /\ \A n \in Nat : [k EXCEPT !.pc = "prompt", !.mine = n] \in Connections
         /\ \A x \in {"none", "error", "wait_timeout", "turn_complete", "blocked", "killed",
                      "completed"} :
              [k EXCEPT !.pc = "done", !.result = x] \in Connections
BY DEF Connections

\* What waits for the provider has no answer yet.
LEMMA WaitingIsOwed == ASSUME Owing PROVE Waiting \subseteq owed
BY DEF Owing, Waiting, Prompts

-----------------------------------------------------------------------------
\* Types. The rows.
LEMMA RowTyped ==
  ASSUME IndInv, Next PROVE row' \in Rows
<1>1. row \in Rows /\ \A i \in Streaks : [row EXCEPT !.idle = i] \in Rows
  BY RowEdits DEF IndInv, TypeOK
<1>2. NoStreak \in Streaks /\ Streak \in Streaks
  BY Shapes DEF IndInv
<1>3. ASSUME NEW c \in Clients, Send(c) \/ Deliver(c) \/ Refuse(c) \/ Wait(c)
      PROVE  row' \in Rows
  BY <1>1, <1>2, <1>3, RowEdits DEF Send, OpenTurn, Deliver, Refuse, Wait
<1>4. CASE Kill
  BY <1>1, <1>4 DEF Kill, Rows
<1>5. CASE Take \/ TypeIn \/ Answer \/ Flush \/ Block \/ Unblock
  BY <1>1, <1>5 DEF Take, TypeIn, Answer, Flush, Block, Unblock, ProviderOnly
<1>6. CASE MonitorList \/ MonitorTurn \/ Crash
  BY <1>1, <1>6 DEF MonitorList, MonitorTurn, Crash
<1>7. CASE MonitorWorking \/ MonitorUnsettle \/ MonitorBlocked
  BY <1>1, <1>2, <1>7, RowEdits
     DEF MonitorWorking, SetWorkingSeen, OpenTurn, MonitorUnsettle, MarkWorking,
         MonitorBlocked, MarkBlocked
<1>8. CASE MonitorIdle
  <2>1. PICK i \in Streaks : i = IF monitor.idle.age >= 0 THEN row.idle ELSE Since
    BY <1>1, <1>2 DEF IndInv, TypeOK, Rows, Since, Passes
  <2>2. row' = row \/ row' = [row EXCEPT !.idle = i]
    BY <1>8, <2>1 DEF MonitorIdle
  <2> QED
    BY <1>1, <2>2
<1>9. CASE MonitorJudge \/ MonitorShut
  BY <1>1, <1>9 DEF MonitorJudge, CompleteTurn, MonitorShut, Rows
<1>10. CASE Tick
  <2>1. row.idle \in Streaks /\ Older(row.idle.age) \in Int
    BY <1>1, Consts DEF Older, Rows, Streaks
  <2>2. [row.idle EXCEPT !.age = Older(row.idle.age)] \in Streaks
    BY <2>1 DEF Streaks
  <2>3. row' = [row EXCEPT !.idle = [row.idle EXCEPT !.age = Older(row.idle.age)]]
    BY <1>10 DEF Tick
  <2> QED
    BY <1>1, <2>2, <2>3
<1>11. CASE Restart
  <2>1. PICK i \in Streaks : row' = [row EXCEPT !.idle = i]
    BY <1>1, <1>2, <1>11 DEF Restart, Rows
  <2> QED
    BY <1>1, <2>1
<1> QED
  BY <1>3, <1>4, <1>5, <1>6, <1>7, <1>8, <1>9, <1>10, <1>11 DEF Next, MonitorStep

\* The turn.
LEMMA TurnTyped ==
  ASSUME IndInv, Next PROVE turn' \in Turns
<1>1. /\ turn \in Turns /\ [turn EXCEPT !.seen = TRUE] \in Turns
      /\ [turn EXCEPT !.open = FALSE] \in Turns
      /\ [seq |-> turn.seq + 1, open |-> TRUE, seen |-> TRUE, age |-> 0] \in Turns
      /\ [seq |-> turn.seq + 1, open |-> TRUE, seen |-> FALSE, age |-> 0] \in Turns
  <2>1. turn \in Turns
    BY DEF IndInv, TypeOK
  <2>2. [turn EXCEPT !.seen = TRUE] \in Turns /\ [turn EXCEPT !.open = FALSE] \in Turns
    BY <2>1 DEF Turns
  <2>3. turn.seq + 1 \in Nat
    BY <2>1 DEF Turns
  <2>4. \A b \in BOOLEAN : [seq |-> turn.seq + 1, open |-> TRUE, seen |-> b, age |-> 0] \in Turns
    BY <2>3 DEF Turns
  <2> QED
    BY <2>1, <2>2, <2>4
<1>2. ASSUME NEW c \in Clients, Send(c) \/ Deliver(c) \/ Refuse(c) \/ Wait(c)
      PROVE  turn' \in Turns
  BY <1>1, <1>2 DEF Send, OpenTurn, Deliver, Refuse, Wait
<1>3. CASE Kill \/ Take \/ TypeIn \/ Answer \/ Flush \/ Block \/ Unblock \/ Crash \/ Restart
  BY <1>1, <1>3 DEF Kill, Take, TypeIn, Answer, Flush, Block, Unblock, ProviderOnly, Crash,
                    Restart
<1>4. CASE MonitorList \/ MonitorStep
  BY <1>1, <1>4
     DEF MonitorList, MonitorStep, MonitorTurn, MonitorWorking, SetWorkingSeen, OpenTurn,
         MonitorUnsettle, MonitorBlocked, MonitorIdle, MonitorJudge, CompleteTurn, CompleteRow,
         MonitorShut
<1>5. CASE Tick
  <2>1. [turn EXCEPT !.age = Older(turn.age)] \in Turns
    BY <1>1, Consts DEF Older, Turns
  <2> QED
    BY <1>1, <1>5, <2>1 DEF Tick
<1> QED
  BY <1>2, <1>3, <1>4, <1>5 DEF Next

\* The monitor's pass.
LEMMA PassTyped ==
  ASSUME IndInv, Next
  PROVE  /\ monitor' \in Passes
         /\ ~up' => monitor' = Asleep
         /\ monitor'.pc = "turn" => monitor'.sees # "none"
<1> DEFINE P == /\ monitor' \in Passes
                /\ ~up' => monitor' = Asleep
                /\ monitor'.pc = "turn" => monitor'.sees # "none"
<1>1. monitor \in Passes /\ (~up => monitor = Asleep)
      /\ (monitor.pc = "turn" => monitor.sees # "none")
  BY DEF IndInv, TypeOK
<1>2. PassEnds => monitor' \in Passes /\ monitor'.pc = "polled"
  BY Shapes DEF PassEnds, IndInv
<1>3. ASSUME NEW c \in Clients, Send(c) \/ Deliver(c) \/ Refuse(c) \/ Wait(c)
      PROVE  P
  BY <1>1, <1>3 DEF Send, Deliver, Refuse, Wait, ClientOnly
<1>4. CASE Kill \/ Take \/ TypeIn \/ Answer \/ Flush \/ Block \/ Unblock
  BY <1>1, <1>4 DEF Kill, Take, TypeIn, Answer, Flush, Block, Unblock, ProviderOnly
<1>5. CASE MonitorList
  <2> DEFINE ripe == /\ provider.state = "idle" /\ row.idle.age >= Stable
                     /\ turn.seen \/ turn.age >= Grace
             w == [Asleep EXCEPT !.pc = "turn", !.status = row.status, !.seq = turn.seq,
                                 !.idle = row.idle, !.sees = provider.state, !.ripe = ripe]
  <2>1. up' /\ (PassEnds \/ (monitor' = w /\ row.status # "ended" /\ provider.state # "gone"))
    BY <1>5 DEF MonitorList, MonitorOnly, At
  <2>2. ASSUME row.status # "ended", provider.state # "gone"
        PROVE  w \in Passes /\ w.sees # "none"
    <3>1. ripe \in BOOLEAN
      OBVIOUS
    <3> HIDE DEF ripe
    <3> QED
      BY <2>2, <3>1, Shapes DEF IndInv, TypeOK, Rows, Turns, Providers, Passes
  <2> HIDE DEF w
  <2> QED
    BY <1>2, <2>1, <2>2
<1>6. CASE MonitorTurn
  <2>1. up' /\ monitor.pc = "turn"
    BY <1>6 DEF MonitorTurn, MonitorOnly, At
  <2>2. PICK i \in Streaks :
          i = [monitor.idle EXCEPT !.late = monitor.idle.late /\ monitor.seq = turn.seq]
    BY <1>1 DEF Passes, Streaks
  <2>4. PICK b \in BOOLEAN : b = (monitor.ripe /\ monitor.seq = turn.seq)
    OBVIOUS
  <2>3. monitor' = [monitor EXCEPT !.pc = monitor.sees, !.seq = turn.seq, !.open = turn.open,
                                   !.seen = turn.seen, !.age = turn.age, !.idle = i, !.ripe = b]
    BY <1>1, <1>6, <2>2, <2>4 DEF MonitorTurn, Passes
  <2> QED
    BY <1>1, <2>1, <2>3 DEF IndInv, TypeOK, Turns, Passes
<1>7. CASE MonitorWorking \/ MonitorUnsettle \/ MonitorBlocked \/ MonitorJudge \/ MonitorShut
  <2>1. up /\ up' = up
    BY <1>7 DEF MonitorWorking, MonitorUnsettle, MonitorBlocked, MonitorJudge, MonitorShut,
                MonitorOnly, At
  <2>2. \A s \in {"unsettle", "shut"} : [monitor EXCEPT !.pc = s] \in Passes
                                        /\ [monitor EXCEPT !.pc = s].pc = s
    BY <1>1 DEF Passes
  <2>3. PassEnds \/ Goes("unsettle") \/ Goes("shut")
    BY <1>7 DEF MonitorWorking, MonitorUnsettle, MonitorBlocked, MonitorJudge, MonitorShut
  <2> QED
    BY <1>2, <2>1, <2>2, <2>3 DEF Goes
<1>8. CASE MonitorIdle
  <2>1. up' /\ Since \in Streaks
    BY <1>1, <1>8, Shapes DEF MonitorIdle, MonitorOnly, At, Since, IndInv, Passes
  <2>2. /\ [monitor EXCEPT !.pc = "judge", !.idle = Since] \in Passes
        /\ [monitor EXCEPT !.pc = "judge", !.idle = Since].pc = "judge"
    BY <1>1, <2>1 DEF Passes
  <2> QED
    BY <1>2, <1>8, <2>1, <2>2 DEF MonitorIdle
<1>9. CASE Tick
  <2>1. up' = up /\ (~up => monitor' = Asleep)
    BY <1>1, <1>9, Shapes DEF Tick, IndInv
  <2>2. CASE monitor' \in {Asleep, monitor}
    BY <1>1, <2>1, <2>2, Shapes DEF IndInv
  <2>3. CASE monitor.pc = "turn" /\ monitor' = [monitor EXCEPT !.idle.age = Older(monitor.idle.age)]
    <3>1. PICK i \in Streaks : i = [monitor.idle EXCEPT !.age = Older(monitor.idle.age)]
      <4>1. monitor.idle \in Streaks
        BY <1>1 DEF Passes
      <4>2. Older(monitor.idle.age) \in Int
        BY <4>1, Consts DEF Older, Streaks
      <4>3. [monitor.idle EXCEPT !.age = Older(monitor.idle.age)] \in Streaks
        BY <4>1, <4>2 DEF Streaks
      <4> QED
        BY <4>3
    <3>2. monitor' = [monitor EXCEPT !.idle = i]
      BY <1>1, <2>3, <3>1 DEF Passes
    <3> QED
      <4>1. [monitor EXCEPT !.idle = i] \in Passes /\ [monitor EXCEPT !.idle = i].sees = monitor.sees
        BY <1>1, <3>1 DEF Passes
      <4> QED
        BY <1>1, <2>1, <2>3, <3>2, <4>1
  <2> QED
    BY <1>9, <2>2, <2>3 DEF Tick
<1>10. CASE Crash \/ Restart
  BY <1>1, <1>10, Shapes DEF Crash, Restart, IndInv
<1> QED
  BY <1>3, <1>4, <1>5, <1>6, <1>7, <1>8, <1>9, <1>10 DEF Next, MonitorStep

\* The connections.
LEMMA ClientsTyped ==
  ASSUME IndInv, Next PROVE client' \in [Clients -> Connections]
<1>1. client \in [Clients -> Connections]
  BY DEF IndInv, TypeOK
<1>2. ASSUME NEW c \in Clients, Send(c) \/ Deliver(c) \/ Refuse(c) \/ Wait(c)
      PROVE  client' \in [Clients -> Connections]
  <2>1. client[c] \in Connections /\ turn.seq + 1 \in Nat
    BY <1>1 DEF IndInv, TypeOK, Turns
  <2>2. SettleOf(row) \cup {"wait_timeout"} \subseteq
          {"wait_timeout", "turn_complete", "blocked", "none", "killed", "completed"}
    BY DEF SettleOf, IndInv, TypeOK, Rows
  <2>3. PICK k \in Connections : client' = [client EXCEPT ![c] = k]
    <3>1. CASE Send(c)
      <4>1. client' = [client EXCEPT ![c] = [client[c] EXCEPT !.pc = "prompt", !.mine = turn.seq + 1]]
        BY <3>1 DEF Send
      <4> QED
        BY <2>1, <4>1, ConnectionEdits
    <3>2. CASE Deliver(c)
      BY <1>1, <2>1, <3>2 DEF Deliver, Connections
    <3>3. CASE Refuse(c)
      <4>1. client' = [client EXCEPT ![c] = [client[c] EXCEPT !.pc = "done", !.result = "error"]]
        BY <3>3 DEF Refuse
      <4> QED
        BY <2>1, <4>1, ConnectionEdits
    <3>4. CASE Wait(c)
      <4>1. PICK x \in SettleOf(row) \cup {"wait_timeout"} :
              client' = [client EXCEPT ![c] = [client[c] EXCEPT !.pc = "done", !.result = x]]
        BY <3>4 DEF Wait
      <4> QED
        BY <2>1, <2>2, <4>1, ConnectionEdits
    <3> QED
      BY <1>2, <3>1, <3>2, <3>3, <3>4
  <2> QED
    BY <1>1, <2>3
<1>3. CASE Crash
  <2>1. \A c \in Clients : [client[c] EXCEPT !.pc = "done", !.result = "error"] \in Connections
    BY <1>1, ConnectionEdits
  <2> QED
    BY <1>1, <1>3, <2>1 DEF Crash
<1>4. CASE Kill \/ Take \/ TypeIn \/ Answer \/ Flush \/ Block \/ Unblock \/ Tick \/ Restart
  BY <1>1, <1>4 DEF Kill, Take, TypeIn, Answer, Flush, Block, Unblock, ProviderOnly, Tick,
                    Restart
<1>5. CASE MonitorList \/ MonitorStep
  BY <1>1, <1>5 DEF MonitorList, MonitorStep, MonitorTurn, MonitorWorking, MonitorUnsettle,
                    MonitorBlocked, MonitorIdle, MonitorJudge, MonitorShut, MonitorOnly
<1> QED
  BY <1>2, <1>3, <1>4, <1>5 DEF Next

\* All types together.
LEMMA TypesKept ==
  ASSUME IndInv, Next PROVE TypeOK'
<1>1. provider' \in Providers /\ pending' \subseteq Nat /\ owed' \subseteq Nat /\ lapsed' \subseteq Nat
  <2>1. turn.seq + 1 \in Nat /\ \A c \in Clients : client[c].mine \in Nat
    BY DEF IndInv, TypeOK, Turns, Connections
  <2>2. ASSUME NEW c \in Clients, Send(c) \/ Deliver(c) \/ Refuse(c) \/ Wait(c)
        PROVE  provider' \in Providers /\ pending' \subseteq Nat /\ owed' \subseteq Nat /\ lapsed' \subseteq Nat
    BY <2>1, <2>2 DEF IndInv, TypeOK, Send, Deliver, Refuse, Wait, ClientOnly
  <2>3. CASE Kill \/ MonitorShut
    <3>1. [state |-> "gone", on |-> 0, unsaid |-> FALSE] \in Providers
      BY DEF Providers
    <3> QED
      BY <2>3, <3>1 DEF IndInv, TypeOK, Kill, MonitorShut
  <2>4. CASE Take
    BY <2>4 DEF IndInv, TypeOK, Providers, Take, ProviderOnly
  <2>5. CASE TypeIn \/ Answer \/ Flush \/ Block \/ Unblock
    <3>1. /\ [provider EXCEPT !.state = "working", !.on = 0] \in Providers
          /\ [provider EXCEPT !.state = "idle", !.unsaid = TRUE] \in Providers
          /\ [provider EXCEPT !.unsaid = FALSE] \in Providers
          /\ \A x \in {"blocked", "working"} : [provider EXCEPT !.state = x] \in Providers
      BY DEF IndInv, TypeOK, Providers
    <3> QED
      BY <2>5, <3>1 DEF IndInv, TypeOK, TypeIn, Answer, Flush, Block, Unblock, ProviderOnly
  <2>6. CASE Tick \/ Crash \/ Restart
    BY <2>6 DEF IndInv, TypeOK, Tick, Crash, Restart
  <2>7. CASE MonitorList \/ (MonitorStep /\ ~MonitorShut)
    BY <2>7, WaitingIsOwed DEF IndInv, TypeOK, MonitorList, MonitorStep, MonitorTurn, MonitorWorking,
                MonitorUnsettle, MonitorBlocked, MonitorIdle, MonitorJudge, MonitorOnly
  <2> QED
    BY <2>2, <2>3, <2>4, <2>5, <2>6, <2>7 DEF Next
<1>2. due' \in 0..Stable
  <2>1. due' \in {0, due} \/ (due < Stable /\ due' = due + 1)
    <3>1. CASE Tick
      BY <3>1 DEF Tick
    <3>2. CASE Kill \/ Take \/ TypeIn \/ Answer \/ Flush \/ Block \/ Unblock \/ Crash \/ Restart
      BY <3>2 DEF Kill, Take, TypeIn, Answer, Flush, Block, Unblock, Crash, Restart
    <3>3. CASE MonitorList \/ MonitorStep
      BY <3>3 DEF MonitorList, MonitorStep, MonitorTurn, MonitorWorking, MonitorUnsettle,
                  MonitorBlocked, MonitorIdle, MonitorJudge, MonitorShut
    <3>4. ASSUME NEW c \in Clients, Send(c) \/ Deliver(c) \/ Refuse(c) \/ Wait(c)
          PROVE  due' \in {0, due}
      BY <3>4 DEF Send, Deliver, Refuse, Wait
    <3> QED
      BY <3>1, <3>2, <3>3, <3>4 DEF Next
  <2> QED
    BY <2>1, Consts DEF IndInv, TypeOK
<1>3. up' \in BOOLEAN /\ overtaken' \in BOOLEAN /\ said' \in BOOLEAN
  BY DEF IndInv, TypeOK, Turns, Next, Send, Deliver, Refuse, Wait, ClientOnly, Kill, Take,
         TypeIn,
         Answer, Flush, Block, Unblock, ProviderOnly, MonitorList, MonitorStep, MonitorTurn,
         MonitorWorking, MonitorUnsettle, MonitorBlocked, MonitorIdle, MonitorJudge, MonitorShut,
         MonitorOnly, Tick, Crash, Restart
<1> QED
  BY <1>1, <1>2, <1>3, RowTyped, TurnTyped, PassTyped, ClientsTyped DEF TypeOK

-----------------------------------------------------------------------------

\* A send opens a turn behind everything that waits, and restarts the clocks.
LEMMA SendKeeps ==
  ASSUME IndInv, NEW c \in Clients, Send(c)
  PROVE  Ordered' /\ Owing' /\ Settled' /\ Patience' /\ PassOK'
<1>1. PassOK'
  <2>1. /\ row'.idle = NoStreak /\ NoStreak.age = -1 /\ monitor' = monitor /\ said' = said
        /\ turn'.seq = turn.seq + 1 /\ turn'.open /\ ~turn'.seen /\ turn'.age = 0
    BY Shapes DEF IndInv, TypeOK, Rows, Send, OpenTurn, ClientOnly
  <2>2. monitor.seq # turn.seq + 1
    BY DEF IndInv, TypeOK, Turns, Passes, Ordered
  <2> QED
    BY <2>1, <2>2 DEF IndInv, PassOK, Unheard
<1>2. Ordered'
  BY Consts DEF IndInv, TypeOK, Rows, Turns, Connections, Send, OpenTurn, ClientOnly,
                NoStreak, Ordered, Prompts
<1>3. Owing'
  BY Consts DEF IndInv, TypeOK, Rows, Turns, Connections, Send, OpenTurn, ClientOnly,
                NoStreak, Ordered, Owing, Prompts
<1>4. Settled'
  BY Consts DEF IndInv, TypeOK, Rows, Turns, Connections, Send, OpenTurn, ClientOnly,
                NoStreak, Settled, Ordered, Terminal, Unheard
<1>5. Patience'
  BY Consts DEF IndInv, TypeOK, Rows, Turns, Connections, Send, OpenTurn, ClientOnly,
                NoStreak, Patience, Waiting, SeesWork, Starts, Prompts
<1> QED
  BY <1>1, <1>2, <1>3, <1>4, <1>5

\* A delivery hands the input over, and it goes on waiting.
LEMMA DeliverKeeps ==
  ASSUME IndInv, NEW c \in Clients, Deliver(c)
  PROVE  Ordered' /\ Owing' /\ Settled' /\ Patience' /\ PassOK'
<1>1. Ordered'
  BY DEF IndInv, TypeOK, Connections, Deliver, ClientOnly, Ordered, Prompts
<1>2. Owing'
  BY DEF IndInv, TypeOK, Connections, Deliver, ClientOnly, Ordered, Owing, Prompts
<1>3. Settled'
  BY DEF IndInv, TypeOK, Connections, Deliver, ClientOnly, Settled, Unheard
<1>4. Patience'
  BY DEF IndInv, TypeOK, Connections, Deliver, ClientOnly, Patience, Waiting, SeesWork, Starts,
         Prompts
<1>5. PassOK'
  BY DEF IndInv, TypeOK, Connections, Deliver, ClientOnly, PassOK, Unheard
<1> QED
  BY <1>1, <1>2, <1>3, <1>4, <1>5

\* A refused input is owed nothing.
LEMMA RefuseKeeps ==
  ASSUME IndInv, NEW c \in Clients, Refuse(c)
  PROVE  Ordered' /\ Owing' /\ Settled' /\ Patience' /\ PassOK'
<1>1. Ordered'
  BY DEF IndInv, TypeOK, Connections, Refuse, ClientOnly, Ordered, Prompts
<1>2. Owing'
  BY DEF IndInv, TypeOK, Connections, Refuse, ClientOnly, Ordered, Owing, Prompts
<1>3. Settled'
  BY DEF IndInv, TypeOK, Connections, Refuse, ClientOnly, Settled, Unheard
<1>4. Patience'
  BY DEF IndInv, TypeOK, Connections, Refuse, ClientOnly, Patience, Waiting, SeesWork, Starts,
         Prompts, Owing
<1>5. PassOK'
  BY DEF IndInv, TypeOK, Connections, Refuse, ClientOnly, PassOK, Unheard
<1> QED
  BY <1>1, <1>2, <1>3, <1>4, <1>5

\* A wait reports a completion only of an idle row, or one that ended `completed`.
LEMMA WaitKeeps ==
  ASSUME IndInv, NEW c \in Clients, Wait(c)
  PROVE  Ordered' /\ Owing' /\ Settled' /\ Patience' /\ PassOK'
<1>1. Ordered'
  BY DEF IndInv, TypeOK, Connections, Wait, ClientOnly, Ordered, Prompts
<1>2. Owing'
  BY DEF IndInv, TypeOK, Connections, Wait, ClientOnly, Ordered, Owing, Prompts
<1>3. Settled'
  BY DEF IndInv, TypeOK, Connections, Wait, ClientOnly, Settled, SettleOf, Rows, Unheard
<1>4. Patience'
  BY DEF IndInv, TypeOK, Connections, Wait, ClientOnly, Patience, Waiting, SeesWork, Starts, Prompts
<1>5. PassOK'
  BY DEF IndInv, TypeOK, Connections, Wait, ClientOnly, PassOK, Unheard
<1> QED
  BY <1>1, <1>2, <1>3, <1>4, <1>5

\* A kill ends the row and leaves the monitor's pass as it is.
LEMMA KillKeeps ==
  ASSUME IndInv, Kill
  PROVE  Ordered' /\ Owing' /\ Settled' /\ Patience' /\ PassOK'
<1>1. Ordered'
  <2>1. provider'.on = 0 /\ pending' = {} /\ UNCHANGED <<turn, monitor, client, owed>>
    BY DEF Kill
  <2>2. turn.seq \in Nat /\ provider.on \in Nat /\ \A c \in Clients : client[c].mine \in Nat
    BY DEF IndInv, TypeOK, Turns, Providers, Connections
  <2> QED
    BY <2>1, <2>2 DEF IndInv, Ordered, Prompts
<1>2. Owing'
  BY DEF IndInv, TypeOK, Rows, Providers, Kill, Ordered, Owing, Prompts
<1>3. Settled'
  BY DEF IndInv, TypeOK, Rows, Providers, Kill, Settled, Unheard
<1>4. Patience'
  BY DEF IndInv, TypeOK, Rows, Providers, Kill, Patience, Waiting, SeesWork, Starts, Prompts
<1>5. PassOK'
  BY DEF IndInv, TypeOK, Rows, Providers, Kill, PassOK, Unheard
<1> QED
  BY <1>1, <1>2, <1>3, <1>4, <1>5

\* The provider takes the first of what waits.
LEMMA TakeKeeps ==
  ASSUME IndInv, Take
  PROVE  Ordered' /\ Owing' /\ Settled' /\ Patience' /\ PassOK'
<1>1. Ordered'
  <2>1. PICK n \in pending : /\ \A k \in pending : n <= k
                             /\ provider' = [provider EXCEPT !.state = "working", !.on = n]
                             /\ pending' = pending \ {n}
    BY DEF Take
  <2>2. n \in Nat /\ n <= turn.seq /\ provider'.on = n /\ provider.on < n
    BY <2>1 DEF IndInv, TypeOK, Providers, Ordered, Owing
  <2>3. \A k \in pending' : n < k
    BY <2>1 DEF IndInv, TypeOK
  <2>4. UNCHANGED <<turn, monitor, client, owed>>
    BY DEF Take, ProviderOnly
  <2>5. \A c \in Clients : Prompts(c) => n < client[c].mine
    BY <2>1 DEF IndInv, Ordered
  <2> QED
    BY <2>1, <2>2, <2>3, <2>4, <2>5 DEF IndInv, Ordered, Prompts, TypeOK
<1>2. Owing'
  BY DEF IndInv, TypeOK, Providers, Take, ProviderOnly, Ordered, Owing, Prompts
<1>3. Settled'
  BY DEF IndInv, TypeOK, Providers, Take, ProviderOnly, Settled, Unheard
<1>4. Patience'
  <2>1. PICK n \in pending : provider'.on = n /\ pending' = pending \ {n}
                             /\ \A c \in Clients : Prompts(c) => client[c].mine # n
    BY DEF Take, IndInv, TypeOK, Providers, Connections, Ordered
  <2>2. UNCHANGED <<row, monitor, client, up, lapsed>>
        /\ due' = IF Waiting = {n} THEN 0 ELSE due
    BY <2>1 DEF Take, ProviderOnly
  <2>3. Waiting' = Waiting \ {n}
    BY <2>1, <2>2 DEF Waiting, Prompts
  <2> QED
    BY <2>2, <2>3 DEF IndInv, Patience, SeesWork
<1>5. PassOK'
  BY DEF IndInv, TypeOK, Providers, Take, ProviderOnly, PassOK, Unheard
<1> QED
  BY <1>1, <1>2, <1>3, <1>4, <1>5

\* Somebody types at an idle terminal.
LEMMA TypeInKeeps ==
  ASSUME IndInv, TypeIn
  PROVE  Ordered' /\ Owing' /\ Settled' /\ Patience' /\ PassOK'
<1>1. Ordered'
  BY DEF IndInv, TypeOK, Turns, Providers, TypeIn, ProviderOnly, Ordered, Starts, Prompts, Waiting
<1>2. Owing'
  BY DEF IndInv, TypeOK, Providers, TypeIn, ProviderOnly, Ordered, Owing, Prompts, Starts, Waiting
<1>3. Settled'
  BY DEF IndInv, TypeOK, Providers, TypeIn, ProviderOnly, Settled, Unheard
<1>4. Patience'
  BY DEF IndInv, TypeOK, Providers, TypeIn, ProviderOnly, Patience, Waiting, SeesWork, Starts,
         Prompts
<1>5. PassOK'
  BY DEF IndInv, TypeOK, Providers, TypeIn, ProviderOnly, PassOK, Unheard
<1> QED
  BY <1>1, <1>2, <1>3, <1>4, <1>5

\* An answer settles what the provider has taken, and nothing that waits.
LEMMA AnswerKeeps ==
  ASSUME IndInv, Answer
  PROVE  Ordered' /\ Owing' /\ Settled' /\ Patience' /\ PassOK'
<1>1. Ordered'
  BY DEF IndInv, TypeOK, Providers, Answer, ProviderOnly, Ordered, Prompts
<1>2. Owing'
  BY DEF IndInv, TypeOK, Providers, Answer, ProviderOnly, Ordered, Owing, Prompts
<1>3. Settled'
  BY DEF IndInv, TypeOK, Providers, Answer, ProviderOnly, Settled, Unheard
<1>4. Patience'
  <2>1. UNCHANGED <<row, monitor, client, up, due>> /\ Waiting' = Waiting
        /\ owed' = {n \in owed : n > provider.on} /\ lapsed' = lapsed \cap owed'
    BY DEF Answer, ProviderOnly, Waiting
  <2>2. \A n \in Waiting : n > provider.on /\ n \in owed
    BY DEF Waiting, IndInv, TypeOK, Providers, Connections, Ordered, Owing, Prompts
  <2>3. Waiting \ lapsed' = Waiting \ lapsed
    BY <2>1, <2>2
  <2> QED
    BY <2>1, <2>3 DEF IndInv, Patience, SeesWork
<1>5. PassOK'
  BY DEF IndInv, TypeOK, Providers, Answer, ProviderOnly, PassOK, Unheard
<1> QED
  BY <1>1, <1>2, <1>3, <1>4, <1>5

\* The transcript catches up.
LEMMA FlushKeeps ==
  ASSUME IndInv, Flush
  PROVE  Ordered' /\ Owing' /\ Settled' /\ Patience' /\ PassOK'
<1>1. Ordered'
  BY DEF IndInv, TypeOK, Providers, Flush, ProviderOnly, Ordered, Prompts
<1>2. Owing'
  BY DEF IndInv, TypeOK, Providers, Flush, ProviderOnly, Ordered, Owing, Prompts
<1>3. Settled'
  BY DEF IndInv, TypeOK, Providers, Flush, ProviderOnly, Settled, Unheard
<1>4. Patience'
  BY DEF IndInv, TypeOK, Providers, Flush, ProviderOnly, Patience, Waiting, SeesWork, Starts, Prompts
<1>5. PassOK'
  BY DEF IndInv, TypeOK, Providers, Flush, ProviderOnly, PassOK, Unheard
<1> QED
  BY <1>1, <1>2, <1>3, <1>4, <1>5

\* The provider stops at a question
LEMMA BlockKeeps ==
  ASSUME IndInv, Block
  PROVE  Ordered' /\ Owing' /\ Settled' /\ Patience' /\ PassOK'
<1>1. Ordered'
  BY DEF IndInv, TypeOK, Providers, Block, ProviderOnly, Ordered, Prompts
<1>2. Owing'
  BY DEF IndInv, TypeOK, Providers, Block, ProviderOnly, Ordered, Owing, Prompts
<1>3. Settled'
  BY DEF IndInv, TypeOK, Providers, Block, ProviderOnly, Settled, Unheard
<1>4. Patience'
  BY DEF IndInv, TypeOK, Providers, Block, ProviderOnly, Patience, Waiting, SeesWork, Starts, Prompts
<1>5. PassOK'
  BY DEF IndInv, TypeOK, Providers, Block, ProviderOnly, PassOK, Unheard
<1> QED
  BY <1>1, <1>2, <1>3, <1>4, <1>5

\* and goes on once it has been answered.
LEMMA UnblockKeeps ==
  ASSUME IndInv, Unblock
  PROVE  Ordered' /\ Owing' /\ Settled' /\ Patience' /\ PassOK'
<1>1. Ordered'
  BY DEF IndInv, TypeOK, Providers, Unblock, ProviderOnly, Ordered, Prompts
<1>2. Owing'
  BY DEF IndInv, TypeOK, Providers, Unblock, ProviderOnly, Ordered, Owing, Prompts, Starts, Waiting
<1>3. Settled'
  BY DEF IndInv, TypeOK, Providers, Unblock, ProviderOnly, Settled, Unheard
<1>4. Patience'
  BY DEF IndInv, TypeOK, Providers, Unblock, ProviderOnly, Patience, Waiting, SeesWork, Starts,
         Prompts
<1>5. PassOK'
  BY DEF IndInv, TypeOK, Providers, Unblock, ProviderOnly, PassOK, Unheard
<1> QED
  BY <1>1, <1>2, <1>3, <1>4, <1>5

\* A list that shows the provider idle lets what has waited out the window lapse; if
\* anything else waits, the streak is younger than the window and the list not ripe.
LEMMA ListKeeps ==
  ASSUME IndInv, MonitorList
  PROVE  Ordered' /\ Owing' /\ Settled' /\ Patience' /\ PassOK'
<1>1. UNCHANGED <<row, turn, provider, pending, said, client, owed, overtaken, up>> /\ up
      /\ monitor.pc = "rest" /\ row \in Rows /\ provider \in Providers /\ turn.seq \in Nat
      /\ row.idle.age \in Int /\ due \in Int
  BY Consts DEF MonitorList, MonitorOnly, At, IndInv, TypeOK, Turns, Rows, Streaks
<1>2. Waiting' = Waiting /\ Waiting \subseteq owed
  BY <1>1, WaitingIsOwed DEF Waiting, IndInv
<1>3. row.exit # "completed" \/ row.status = "ended"
  BY DEF IndInv, Settled
<1>4. Waiting \ lapsed # {} /\ row.status # "ended" => row.idle.age <= due \/ due = Stable
  BY <1>1 DEF IndInv, Patience, SeesWork
<1>5. CASE PassEnds /\ UNCHANGED <<due, lapsed>>
  <2>1. monitor'.pc = "polled" /\ monitor'.seq = 0
    BY <1>5, Shapes DEF PassEnds, IndInv
  <2>2. Ordered'
    BY <1>1, <2>1 DEF IndInv, Ordered, Prompts
  <2>3. Owing'
    BY <1>1 DEF IndInv, Owing, Prompts
  <2>4. Settled'
    BY <1>1, <1>5, <2>1 DEF IndInv, Settled, Unheard
  <2>5. Patience'
    BY <1>1, <1>2, <1>4, <1>5 DEF Patience
  <2> QED
    BY <2>1, <2>2, <2>3, <2>4, <2>5 DEF PassOK
<1>6. CASE /\ row.status \in {"working", "idle", "blocked", "parked"} /\ provider.state # "gone"
           /\ monitor'.pc = "turn" /\ monitor'.seq = turn.seq
           /\ monitor'.sees = provider.state
           /\ monitor'.ripe => provider.state = "idle" /\ row.idle.age >= Stable
           /\ due' = IF provider.state = "working" THEN 0 ELSE due
           /\ lapsed' = IF provider.state = "idle" /\ due = Stable THEN lapsed \cup Waiting
                        ELSE lapsed
  <2>1. Ordered'
    BY <1>1, <1>6 DEF IndInv, Ordered, Prompts
  <2>2. Owing'
    BY <1>1 DEF IndInv, Owing, Prompts
  <2>3. lapsed \subseteq lapsed' /\ row.status # "ended"
    BY <1>1, <1>6 DEF Rows
  <2>4. Settled'
    BY <1>1, <1>3, <2>3 DEF IndInv, Settled, Unheard
  <2>5. Patience'
    <3>1. CASE provider.state = "working"
      BY <1>6, <3>1 DEF Patience, SeesWork
    <3>2. CASE provider.state # "working"
      BY <1>1, <1>2, <1>4, <1>6, <2>3, <3>2 DEF Patience
    <3> QED
      BY <3>1, <3>2
  <2>6. monitor'.ripe => Unheard' = {}
    <3> SUFFICES ASSUME monitor'.ripe PROVE Unheard' = {}
      OBVIOUS
    <3>1. provider.state = "idle" /\ row.idle.age >= Stable
      BY <1>6
    <3>2. owed \subseteq Waiting
      BY <3>1 DEF IndInv, Owing, Waiting, Prompts
    <3>3. CASE due = Stable
      BY <1>1, <1>6, <3>1, <3>2, <3>3 DEF Unheard
    <3>4. CASE due # Stable
      <4>1. due < Stable
        BY <1>1, <3>4, Consts DEF IndInv, TypeOK
      <4>2. Waiting \ lapsed = {}
        BY <1>1, <1>4, <2>3, <3>1, <4>1, Consts
      <4> QED
        BY <1>1, <1>6, <3>2, <3>4, <4>2 DEF Unheard
    <3> QED
      BY <3>3, <3>4
  <2> QED
    BY <1>1, <1>6, <2>1, <2>2, <2>4, <2>5, <2>6 DEF PassOK
<1> QED
  <2>1. ASSUME row.status # "ended", provider.state # "gone", monitor' =
                 [Asleep EXCEPT !.pc = "turn", !.status = row.status, !.seq = turn.seq,
                    !.idle = row.idle, !.sees = provider.state,
                    !.ripe = /\ provider.state = "idle" /\ row.idle.age >= Stable
                             /\ turn.seen \/ turn.age >= Grace]
        PROVE  /\ monitor'.pc = "turn" /\ monitor'.seq = turn.seq
               /\ monitor'.sees = provider.state
               /\ monitor'.ripe => provider.state = "idle" /\ row.idle.age >= Stable
    BY <2>1 DEF Asleep
  <2> QED
    BY <1>1, <1>5, <1>6, <2>1 DEF MonitorList, Rows

\* A turn opened since the list is neither seen nor old.
LEMMA TurnKeeps ==
  ASSUME IndInv, MonitorTurn
  PROVE  Ordered' /\ Owing' /\ Settled' /\ Patience' /\ PassOK'
<1>1. Ordered'
  BY Consts DEF IndInv, TypeOK, Turns, Passes, Streaks, MonitorTurn, MonitorOnly, At,
                Ordered, Prompts
<1>2. Owing'
  BY Consts DEF IndInv, TypeOK, Turns, Passes, Streaks, MonitorTurn, MonitorOnly, At,
                Ordered, Owing, Prompts
<1>3. Settled'
  BY Consts DEF IndInv, TypeOK, Turns, Passes, Streaks, MonitorTurn, MonitorOnly, At,
                Settled, Unheard
<1>4. Patience'
  BY Consts DEF IndInv, TypeOK, Turns, Passes, Streaks, MonitorTurn, MonitorOnly, At,
                Patience, Waiting, SeesWork, Starts, Prompts
<1>5. PassOK'
  BY Consts DEF IndInv, TypeOK, Turns, Passes, Streaks, MonitorTurn, MonitorOnly, At,
                PassOK, Unheard, Ordered
<1> QED
  BY <1>1, <1>2, <1>3, <1>4, <1>5

\* A pass that sees work ends the streak, or finds nothing owed.
LEMMA WorkingKeeps ==
  ASSUME IndInv, MonitorWorking
  PROVE  Ordered' /\ Owing' /\ Settled' /\ Patience' /\ PassOK'
<1>1. Settled' /\ Patience'
  <2>1. UNCHANGED <<provider, pending, due, said, client, owed, overtaken, lapsed, up>> /\ up
        /\ monitor.pc = "working" /\ row \in Rows /\ turn \in Turns /\ due \in Nat
    BY Consts DEF MonitorWorking, MonitorOnly, At, IndInv, TypeOK
  <2>2. row.exit # "completed" /\ Waiting' = Waiting /\ Waiting \subseteq owed
    BY <2>1, WaitingIsOwed DEF IndInv, Settled, Waiting, Unheard, Waiting
  <2>3. NoStreak \in Streaks /\ NoStreak.age = -1
    BY Shapes DEF IndInv
  <2>4. CASE monitor.open /\ SetWorkingSeen(monitor.seq)
    <3>1. row'.status = row.status /\ row'.exit = row.exit /\ row'.idle = NoStreak
          /\ turn'.open = turn.open
      BY <2>1, <2>4 DEF SetWorkingSeen, Rows, Turns
    <3> QED
      BY <2>1, <2>2, <2>3, <3>1 DEF IndInv, Settled, Patience, Unheard, Waiting
  <2>5. CASE OpenTurn(TRUE)
    <3>1. row'.status = "working" /\ row'.exit = row.exit /\ row'.idle = NoStreak /\ turn'.open
      BY <2>1, <2>5 DEF OpenTurn, Rows, Turns
    <3> QED
      BY <2>1, <2>2, <2>3, <3>1 DEF IndInv, Settled, Patience, Unheard, Waiting
  <2>6. CASE ~monitor.open /\ UNCHANGED <<row, turn>>
    <3>1. Settled'
      BY <2>1, <2>2, <2>6 DEF IndInv, Settled, Unheard
    <3>2. CASE monitor.seq = turn.seq
      <4>1. Unheard = {}
        BY <2>1, <2>6, <3>2 DEF IndInv, PassOK, Settled, Unheard
      <4> QED
        BY <3>1, <4>1, <2>1, <2>2 DEF Patience, Unheard, Waiting
    <3>3. CASE monitor.seq # turn.seq
      <4>1. row.idle.age = -1
        BY <2>1, <3>3 DEF IndInv, PassOK, Unheard
      <4> QED
        BY <3>1, <4>1, <2>1, <2>6 DEF Patience, Waiting
    <3> QED
      BY <3>2, <3>3
  <2> QED
    BY <2>4, <2>5, <2>6 DEF MonitorWorking
<1>2. Ordered'
  <2>1. UNCHANGED <<provider, pending, client, owed>> /\ turn \in Turns /\ monitor \in Passes
    BY DEF MonitorWorking, MonitorOnly, IndInv, TypeOK
  <2>2. turn'.seq \in {turn.seq, turn.seq + 1}
    BY <2>1 DEF MonitorWorking, SetWorkingSeen, OpenTurn, Turns
  <2>3. monitor'.seq \in {monitor.seq, 0}
    BY <2>1, Shapes DEF MonitorWorking, Goes, PassEnds, IndInv, Passes
  <2>4. \A n \in Nat : n <= turn.seq => n <= turn'.seq
    BY <2>1, <2>2 DEF Turns
  <2>5. /\ \A n \in owed : n <= turn'.seq
        /\ provider.on <= turn'.seq /\ monitor.seq <= turn'.seq /\ 0 <= turn'.seq
        /\ \A c \in Clients : client[c].mine <= turn'.seq
    BY <2>1, <2>2, <2>4 DEF IndInv, TypeOK, Turns, Providers, Passes, Connections, Ordered
  <2> QED
    BY <2>1, <2>3, <2>5 DEF IndInv, Ordered, Prompts
<1>3. Owing'
  BY Consts DEF IndInv, TypeOK, Rows, Turns, Passes, MonitorWorking, MonitorOnly, At,
                Goes, PassEnds, Asleep, NoStreak, SetWorkingSeen, OpenTurn, Terminal,
                Ordered, Owing, Prompts
<1>4. PassOK'
  BY Consts DEF IndInv, TypeOK, Rows, Turns, Passes, MonitorWorking, MonitorOnly, At,
                Goes, PassEnds, Asleep, NoStreak, SetWorkingSeen, OpenTurn, Terminal,
                PassOK, Unheard
<1> QED
  BY <1>1, <1>2, <1>3, <1>4

\* The row is unsettled or blocked, and its streak ends.
LEMMA UnsettleKeeps ==
  ASSUME IndInv, MonitorUnsettle \/ MonitorBlocked
  PROVE  Ordered' /\ Owing' /\ Settled' /\ Patience' /\ PassOK'
<1>1. Patience'
  <2>1. UNCHANGED <<provider, pending, due, client, up, lapsed>> /\ row \in Rows /\ due \in Nat
        /\ monitor.pc \in {"unsettle", "blocked"}
    BY Consts DEF MonitorUnsettle, MonitorBlocked, MonitorOnly, At, IndInv, TypeOK
  <2>2. row' = row \/ row'.idle = NoStreak
    BY <2>1 DEF MonitorUnsettle, MonitorBlocked, MarkWorking, MarkBlocked, Rows
  <2>3. NoStreak.age = -1
    BY Shapes DEF IndInv
  <2> QED
    BY <2>1, <2>2, <2>3 DEF IndInv, Patience, Starts, SeesWork, Waiting
<1>2. Ordered'
  BY Consts DEF IndInv, TypeOK, Rows, Turns, Passes, MonitorUnsettle, MarkWorking,
                MonitorBlocked, MarkBlocked, MonitorOnly, At, PassEnds, Asleep, Ordered,
                Prompts
<1>3. Owing'
  BY Consts DEF IndInv, TypeOK, Rows, Turns, Passes, MonitorUnsettle, MarkWorking,
                MonitorBlocked, MarkBlocked, MonitorOnly, At, PassEnds, Asleep, Ordered,
                Owing, Prompts
<1>4. Settled'
  <2>1. UNCHANGED <<turn, provider, said, client, owed, overtaken, lapsed>> /\ row \in Rows
        /\ monitor.pc \in {"unsettle", "blocked"}
    BY DEF MonitorUnsettle, MonitorBlocked, MonitorOnly, At, IndInv, TypeOK
  <2>2. row'.exit = row.exit /\ (row'.status = row.status \/ row'.status \in {"working", "blocked"})
    BY <2>1 DEF MonitorUnsettle, MonitorBlocked, MarkWorking, MarkBlocked, Rows
  <2> QED
    BY <2>1, <2>2 DEF IndInv, Settled, Unheard
<1>5. PassOK'
  BY Consts DEF IndInv, TypeOK, Rows, Turns, Passes, MonitorUnsettle, MarkWorking,
                MonitorBlocked, MarkBlocked, MonitorOnly, At, PassEnds, Asleep, PassOK,
                Unheard
<1> QED
  BY <1>1, <1>2, <1>3, <1>4, <1>5

\* The streak of the copy, or one that begins.
LEMMA IdleKeeps ==
  ASSUME IndInv, MonitorIdle
  PROVE  Ordered' /\ Owing' /\ Settled' /\ Patience' /\ PassOK'
<1>1. Ordered' /\ PassOK'
  <2>1. UNCHANGED <<turn, provider, pending, client, owed, lapsed, due>> /\ monitor.pc = "idle"
        /\ monitor \in Passes /\ turn.seq \in Nat /\ due \in Nat
    BY Consts DEF MonitorIdle, MonitorOnly, At, IndInv, TypeOK, Turns
  <2>2. CASE PassEnds
    <3>1. monitor'.pc = "polled" /\ monitor'.seq = 0
      BY <2>2, Shapes DEF PassEnds, IndInv
    <3> QED
      BY <2>1, <3>1 DEF IndInv, Ordered, Prompts, PassOK, Unheard
  <2>3. CASE monitor' = [monitor EXCEPT !.pc = "judge", !.idle = Since]
    <3>1. monitor'.pc = "judge" /\ monitor'.seq = monitor.seq /\ monitor'.ripe = monitor.ripe
      BY <2>1, <2>3 DEF Passes
    <3> QED
      BY <2>1, <3>1 DEF IndInv, Ordered, Prompts, PassOK, Unheard
  <2> QED
    BY <2>2, <2>3 DEF MonitorIdle
<1>2. Owing'
  BY Consts DEF IndInv, TypeOK, Rows, Turns, Passes, MonitorIdle, MonitorOnly, At,
                PassEnds, Asleep, Since, Streak, Ordered, Owing, Prompts
<1>3. Settled'
  BY Consts DEF IndInv, TypeOK, Rows, Turns, Passes, MonitorIdle, MonitorOnly, At,
                PassEnds, Asleep, Since, Streak, Settled, Unheard
<1>4. Patience'
  BY Consts DEF IndInv, TypeOK, Rows, Turns, Passes, MonitorIdle, MonitorOnly, At,
                PassEnds, Asleep, Since, Streak, Patience, Waiting, SeesWork, Starts, Prompts
<1> QED
  BY <1>1, <1>2, <1>3, <1>4

\* A ripe pass completes a turn when nothing unheard is owed, one that lagged lets
\* what is owed lapse; a newer turn that is open is not touched by either.
LEMMA JudgeKeeps ==
  ASSUME IndInv, MonitorJudge
  PROVE  Ordered' /\ Owing' /\ Settled' /\ Patience' /\ PassOK'
<1>1. Settled' /\ PassOK'
  <2>1. UNCHANGED <<provider, said, client, owed, overtaken>> /\ monitor.pc = "judge"
        /\ row \in Rows /\ turn \in Turns /\ monitor \in Passes
    BY DEF MonitorJudge, MonitorOnly, At, IndInv, TypeOK
  <2>2. row.exit # "completed"
    BY <2>1 DEF IndInv, Settled
  <2>3. CASE PassEnds /\ UNCHANGED <<row, turn, lapsed>>
    <3>1. monitor'.pc = "polled"
      BY <2>3, Shapes DEF PassEnds, IndInv
    <3> QED
      BY <2>1, <2>2, <2>3, <3>1 DEF IndInv, Settled, PassOK, Unheard
  <2>4. ASSUME lapsed' = IF monitor.ripe \/ monitor.seq # turn.seq THEN lapsed
                         ELSE lapsed \cup owed,
               row.immediate => Readable
        PROVE  /\ CompleteRow(monitor.seq) /\ Goes("shut") /\ UNCHANGED row /\ row.immediate
                  => Settled' /\ PassOK'
               /\ CompleteTurn(monitor.seq) /\ PassEnds => Settled' /\ PassOK'
    <3>1. /\ monitor.seq = turn.seq => Unheard' = {}
          /\ monitor.seq # turn.seq => turn.open
      BY <2>1, <2>4 DEF IndInv, PassOK, Unheard
    <3>2. Unheard' \subseteq Unheard
      BY <2>1, <2>4 DEF Unheard
    <3>3. CASE CompleteRow(monitor.seq) /\ Goes("shut") /\ UNCHANGED row /\ row.immediate
      <4>1. monitor'.pc = "shut" /\ monitor'.seq = monitor.seq
        BY <2>1, <3>3 DEF Goes, Passes
      <4>2. turn'.open = (turn.open /\ monitor.seq # turn.seq)
        BY <2>1, <3>3 DEF CompleteRow, Turns
      <4>3. said
        BY <2>4, <3>3 DEF Readable
      <4> QED
        BY <2>1, <2>2, <3>1, <3>2, <3>3, <4>1, <4>2, <4>3 DEF IndInv, Settled, PassOK
    <3>4. CASE CompleteTurn(monitor.seq) /\ PassEnds
      <4>1. monitor'.pc = "polled"
        BY <3>4, Shapes DEF PassEnds, IndInv
      <4>2. turn'.open = (turn.open /\ monitor.seq # turn.seq)
        BY <2>1, <3>4 DEF CompleteTurn, CompleteRow, Turns
      <4>3. row'.exit = row.exit /\ (row'.status = row.status
               \/ (row'.status = "idle" /\ monitor.seq = turn.seq))
        BY <2>1, <3>4 DEF CompleteTurn, Rows
      <4> QED
        BY <2>1, <2>2, <3>1, <3>2, <4>1, <4>2, <4>3 DEF IndInv, Settled, PassOK
    <3> QED
      BY <3>3, <3>4
  <2> QED
    BY <2>3, <2>4 DEF MonitorJudge
<1>2. Ordered'
  BY Consts DEF IndInv, TypeOK, Rows, Turns, Passes, MonitorJudge, MonitorOnly, At, Goes,
                PassEnds, Asleep, CompleteRow, CompleteTurn, Ordered, Prompts
<1>3. Owing'
  BY Consts DEF IndInv, TypeOK, Rows, Turns, Passes, MonitorJudge, MonitorOnly, At, Goes,
                PassEnds, Asleep, CompleteRow, CompleteTurn, Ordered, Owing, Prompts
<1>4. Patience'
  BY Consts DEF IndInv, TypeOK, Rows, Turns, Passes, MonitorJudge, MonitorOnly, At, Goes,
                PassEnds, Asleep, CompleteRow, CompleteTurn, Patience, Waiting, SeesWork, Starts,
                Prompts
<1> QED
  BY <1>1, <1>2, <1>3, <1>4

\* The teardown, overtaken or not.
LEMMA ShutKeeps ==
  ASSUME IndInv, MonitorShut
  PROVE  Ordered' /\ Owing' /\ Settled' /\ Patience' /\ PassOK'
<1>1. Ordered'
  BY DEF IndInv, TypeOK, Rows, Turns, Providers, Connections, MonitorShut, At, PassEnds,
         Asleep, Ordered, Prompts
<1>2. Owing'
  BY DEF IndInv, TypeOK, Rows, Turns, Providers, Connections, MonitorShut, At, PassEnds,
         Asleep, Ordered, Owing, Prompts
<1>3. Settled'
  BY DEF IndInv, TypeOK, Rows, Turns, Providers, Connections, MonitorShut, At, PassEnds,
         Asleep, Settled, PassOK, Unheard
<1>4. Patience'
  BY DEF IndInv, TypeOK, Rows, Turns, Providers, Connections, MonitorShut, At, PassEnds,
         Asleep, Patience, Waiting, SeesWork, Starts, Prompts
<1>5. PassOK'
  BY DEF IndInv, TypeOK, Rows, Turns, Providers, Connections, MonitorShut, At, PassEnds,
         Asleep, PassOK, Unheard
<1> QED
  BY <1>1, <1>2, <1>3, <1>4, <1>5

\* Time: the streak and the wait grow together, whatever the pass is held up by.
LEMMA TickKeeps ==
  ASSUME IndInv, Tick
  PROVE  Ordered' /\ Owing' /\ Settled' /\ Patience' /\ PassOK'
<1>1. /\ UNCHANGED <<provider, pending, said, client, owed, overtaken, lapsed, up>>
      /\ row \in Rows /\ turn \in Turns /\ monitor \in Passes /\ due \in 0..Stable
      /\ turn.seq \in Nat /\ (~up => monitor = Asleep) /\ Waiting' = Waiting
  BY DEF Tick, IndInv, TypeOK, Turns, Waiting
<1>2. /\ row'.status = row.status /\ row'.exit = row.exit
      /\ row'.idle.age = Older(row.idle.age)
      /\ turn'.open = turn.open /\ turn'.seq = turn.seq
  BY <1>1 DEF Tick, Rows, Streaks, Turns
<1>3. \/ monitor' = Asleep /\ monitor.pc = "polled"
      \/ /\ monitor'.pc = monitor.pc /\ monitor'.seq = monitor.seq /\ monitor'.ripe = monitor.ripe
         /\ monitor'.open = monitor.open /\ monitor'.sees = monitor.sees
  BY <1>1 DEF Tick, Passes, Streaks
<1>4. Ordered'
  BY <1>1, <1>2, <1>3, Shapes DEF IndInv, Ordered, Prompts
<1>5. Owing'
  BY <1>1 DEF IndInv, Owing, Prompts
<1>6. Settled'
  BY <1>1, <1>2, <1>3, Shapes DEF IndInv, Settled, Unheard
<1>7. Older(-1) = -1
  BY DEF Older
<1>8. PassOK'
  BY <1>1, <1>2, <1>3, <1>7, Shapes DEF IndInv, PassOK, Unheard
<1>9. Patience'
  <2> SUFFICES ASSUME up, row.status # "ended", Waiting \ lapsed # {}, ~SeesWork'
               PROVE  row'.idle.age <= due' \/ due' = Stable
    BY <1>1, <1>2 DEF Patience
  <2>1. ~SeesWork
    BY <1>3 DEF SeesWork
  <2>2. row.idle.age <= due \/ due = Stable
    BY <2>1 DEF IndInv, Patience
  <2>3. Starts
    BY DEF Starts
  <2>4. due' = IF due < Stable THEN due + 1 ELSE due
    BY <2>3 DEF Tick
  <2>5. row.idle.age \in Int
    BY <1>1 DEF Rows, Streaks
  <2> QED
    BY <1>1, <1>2, <2>2, <2>4, <2>5, Consts DEF Older
<1> QED
  BY <1>4, <1>5, <1>6, <1>8, <1>9

\* A crash answers no input, and the connections are gone.
LEMMA CrashKeeps ==
  ASSUME IndInv, Crash
  PROVE  Ordered' /\ Owing' /\ Settled' /\ Patience' /\ PassOK'
<1>1. Ordered' /\ Owing' /\ Settled'
  <2>1. UNCHANGED <<row, turn, provider, pending, said, overtaken, lapsed>>
    BY DEF Crash
  <2>2. monitor'.pc = "rest" /\ monitor'.seq = 0
    BY Shapes DEF Crash, IndInv
  <2>3. \A c \in Clients : /\ client'[c].mine = client[c].mine
                           /\ client'[c].pc \notin {"prompt", "wait"}
                           /\ client'[c].result = client[c].result \/ client'[c].result = "error"
                           /\ client[c].pc = "done" => client'[c] = client[c]
    BY DEF Crash, IndInv, TypeOK, Connections
  <2>4. owed' = owed \ {client[c].mine : c \in {d \in Clients : client[d].pc = "prompt"}}
    BY DEF Crash
  <2>5. \A n \in pending : n \in owed'
    BY <2>4 DEF IndInv, TypeOK, Ordered, Owing, Prompts
  <2>6. Ordered'
    BY <2>1, <2>2, <2>3, <2>4 DEF IndInv, TypeOK, Turns, Ordered, Prompts
  <2>7. Owing'
    BY <2>1, <2>3, <2>4, <2>5 DEF IndInv, Owing, Prompts
  <2>8. Settled'
    BY <2>1, <2>2, <2>3, <2>4 DEF IndInv, Settled, Unheard
  <2> QED
    BY <2>6, <2>7, <2>8
<1>2. Patience'
  BY DEF IndInv, TypeOK, Crash, Asleep, Patience, Waiting, SeesWork, Starts, Prompts
<1>3. PassOK'
  BY DEF IndInv, TypeOK, Crash, Asleep, PassOK, Unheard
<1> QED
  BY <1>1, <1>2, <1>3

\* A restart trusts no streak from before it.
LEMMA RestartKeeps ==
  ASSUME IndInv, Restart
  PROVE  Ordered' /\ Owing' /\ Settled' /\ Patience' /\ PassOK'
<1>1. Ordered'
  BY Consts DEF IndInv, TypeOK, Rows, Streaks, Restart, Streak, NoStreak, Asleep, Ordered,
                Prompts
<1>2. Owing'
  BY Consts DEF IndInv, TypeOK, Rows, Streaks, Restart, Streak, NoStreak, Asleep, Ordered,
                Owing, Prompts
<1>3. Settled'
  BY Consts DEF IndInv, TypeOK, Rows, Streaks, Restart, Streak, NoStreak, Asleep, Settled, Unheard
<1>4. Patience'
  BY Consts DEF IndInv, TypeOK, Rows, Streaks, Restart, Streak, NoStreak, Asleep,
                Patience, Waiting, SeesWork, Starts, Prompts
<1>5. PassOK'
  BY Consts DEF IndInv, TypeOK, Rows, Streaks, Restart, Streak, NoStreak, Asleep, PassOK,
                Unheard
<1> QED
  BY <1>1, <1>2, <1>3, <1>4, <1>5

-----------------------------------------------------------------------------
\* Every step keeps the invariant,
LEMMA StepKeeps == ASSUME IndInv, [Next]_vars PROVE IndInv'
<1>1. CASE Next
  <2>1. TypeOK'
    BY <1>1, TypesKept
  <2>2. Ordered' /\ Owing' /\ Settled' /\ Patience' /\ PassOK'
    BY <1>1, SendKeeps, DeliverKeeps, RefuseKeeps, WaitKeeps, KillKeeps, TakeKeeps, TypeInKeeps,
       AnswerKeeps, FlushKeeps, BlockKeeps, UnblockKeeps, ListKeeps, TurnKeeps, WorkingKeeps,
       UnsettleKeeps, IdleKeeps, JudgeKeeps, ShutKeeps, TickKeeps, CrashKeeps, RestartKeeps
       DEF Next, MonitorStep
  <2> QED
    BY <2>1, <2>2 DEF IndInv
<1>2. CASE UNCHANGED vars
  BY <1>2 DEF vars, IndInv, TypeOK, Ordered, Owing, Prompts, Settled, Patience, Waiting, SeesWork,
              Starts,
              PassOK, Unheard, Asleep, NoStreak
<1> QED
  BY <1>1, <1>2

\* which holds at the start.
LEMMA InitFits == Init => IndInv
<1>1. SUFFICES ASSUME Init PROVE IndInv
  OBVIOUS
<1>2. TypeOK
  <2>1. NoStreak \in Streaks /\ Asleep.pc = "rest"
    BY DEF NoStreak, Streaks, Asleep
  <2>2. row \in Rows /\ turn \in Turns /\ provider \in Providers
    BY <1>1, <2>1 DEF Init, Rows, Turns, Providers
  <2>3. monitor \in Passes
    BY <1>1, <2>1 DEF Init, Passes, Asleep
  <2>4. client \in [Clients -> Connections]
    BY <1>1 DEF Init, Connections
  <2>5. monitor.pc = "rest" /\ up /\ due = 0
    BY <1>1, <2>1 DEF Init
  <2>6. pending = {} /\ owed = {} /\ lapsed = {} /\ up \in BOOLEAN /\ overtaken \in BOOLEAN /\ said \in BOOLEAN
    BY <1>1 DEF Init
  <2> QED
    BY <2>2, <2>3, <2>4, <2>5, <2>6, Consts DEF TypeOK
<1>3. Ordered /\ Owing /\ Settled /\ Patience /\ PassOK
  BY <1>1 DEF Init, Ordered, Owing, Settled, Patience, PassOK, Prompts, Starts, Asleep,
              NoStreak, Unheard, Waiting
<1> QED
  BY <1>2, <1>3 DEF IndInv

\* The inductive invariant: while an input waits and its windows have not run out, no
\* idle streak is older than its wait, and no pass holds a ripe list of its turn
\* (completion_tick, drive_completion, deliver_input).
THEOREM TurnsFit == Spec => []IndInv
<1>1. IndInv /\ [Next]_vars => IndInv'
  BY StepKeeps
<1> QED
  BY <1>1, InitFits, PTL DEF Spec

\* No wait reports a turn complete of an input the provider has not answered, unless
\* its windows ran out or a teardown was overtaken: however many connections send,
\* however long a delivery takes or a pass lags, whatever is typed at the terminal
\* and however often the server restarts (handle_agent_wait, complete_turn).
THEOREM NoStaleWait == Spec => []WaitNotStale
<1>1. IndInv => WaitNotStale
  BY DEF IndInv, Settled, WaitNotStale, Unheard
<1> QED
  BY <1>1, TurnsFit, PTL

\* A row that ended `completed` had a readable response and left no input unanswered,
\* but one whose windows ran out or that met the teardown under way (drive_completion's
\* immediate shutdown).
THEOREM CompletedHasAnswer == Spec => []CompletedIsWhole
<1>1. IndInv => CompletedIsWhole
  BY DEF IndInv, Settled, CompletedIsWhole, Unheard
<1> QED
  BY <1>1, TurnsFit, PTL
=============================================================================
