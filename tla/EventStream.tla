---------------------------- MODULE EventStream -----------------------------
(***************************************************************************)
(* The durable event log, the in-memory bus that wakes subscribers and     *)
(* keeps the bound of what can be replayed, the pump of a subscription,    *)
(* and its two kinds of client: one that resumes from its cursor, and      *)
(* `orcr top`, which takes a fresh snapshot whenever an event arrives      *)
(* (src/events.rs, the event statements of store/mod.rs, publish and the   *)
(* subscription code of server/mod.rs, the loop of top/app.rs), over the   *)
(* server processes of ServerLife.                                         *)
(*                                                                         *)
(* An event is its seq: rows are numbered by AUTOINCREMENT and only trimmed *)
(* from the front, so the log is an interval.                              *)
(***************************************************************************)
EXTENDS ServerLife

CONSTANTS
  Writers,   \* threads that append events and publish them
  Clients,   \* connections that subscribe
  Retention, \* events kept for replay
  Batch,     \* rows a pump reads at a time (256)
  MaxEvents  \* bound on seq

ASSUME StreamAssumption ==
  /\ Retention \in Nat \ {0} /\ Batch \in Nat \ {0} /\ MaxEvents \in Nat

VARIABLES
  log,    \* the rows first .. last of the events table
  bus,    \* the serving process's latest_seq and oldest_retained_seq
  writer, \* where each producer is in publish, and the number it carries
  pump,   \* the pump of each client's subscription
  role,   \* each client's: a cursor of events.subscribe, or `orcr top` on watch.open
  cursor, \* what each cursor client has consumed, and whether it is connected
  top,    \* the state of each `orcr top`
  sure,   \* history: no trim since the pump's check, which saw the exact bound
  gaps    \* history: clients that were passed over an event all the same

vars == <<life, log, bus, writer, pump, role, cursor, top, sure, gaps>>

Larger(a, b) == IF a > b THEN a ELSE b

NoPump == [pc |-> "none", next |-> 0, from |-> 0, upto |-> 0]

Pumping(seq) == [pc |-> "check", next |-> seq, from |-> 0, upto |-> 0]

Resting == [pc |-> "rest", n |-> 0]

Init ==
  /\ LifeInit
  /\ log = [first |-> 1, last |-> 0]
  /\ bus = [latest |-> 0, oldest |-> 1]
  /\ writer = [w \in Writers |-> Resting]
  /\ pump = [c \in Clients |-> NoPump]
  /\ role \in [Clients -> {"cursor", "top"}]
  /\ cursor = [c \in Clients |-> [got |-> 0, open |-> FALSE]]
  /\ top = [t \in Clients |-> [pc |-> "start", reader |-> "off", msg |-> FALSE,
                            dirty |-> FALSE, shown |-> 0]]
  /\ sure = {} /\ gaps = {}

-----------------------------------------------------------------------------
\* Producers. A row is appended in the transaction of the change it tells of;
\* publish comes after it, outside the store lock.

Holding == holder \in Procs /\ Running(holder)

Appended == [log EXCEPT !.last = @ + 1]

\* trim_events: DELETE WHERE seq <= MAX(seq) - keep_last.
Trimmed(l) == [l EXCEPT !.first = Larger(@, l.last - Retention + 1)]

NotWriters == UNCHANGED <<life, pump, role, cursor, top, gaps>>

Append(w) ==
  /\ Holding /\ writer[w].pc = "rest" /\ log.last < MaxEvents
  /\ log' = Appended
  /\ writer' = [writer EXCEPT ![w] = [pc |-> "publish", n |-> log'.last]]
  /\ UNCHANGED <<bus, sure>> /\ NotWriters

Published(w) ==
  /\ writer[w].pc = "publish"
  /\ bus' = [bus EXCEPT !.latest = Larger(@, writer[w].n)]
  /\ writer' = [writer EXCEPT ![w].pc = "cursor"]
  /\ UNCHANGED <<log, sure>> /\ NotWriters

\* More than Retention rows, as far as the bus knows.
ReadCursor(w) ==
  /\ writer[w].pc = "cursor"
  /\ writer' = [writer EXCEPT ![w] = IF bus.latest - bus.oldest + 1 > Retention
                                     THEN [pc |-> "trim", n |-> 0] ELSE Resting]
  /\ UNCHANGED <<log, bus, sure>> /\ NotWriters

Trim(w) ==
  /\ writer[w].pc = "trim"
  /\ log' = Trimmed(log)
  /\ writer' = [writer EXCEPT ![w] = [pc |-> "set", n |-> log'.first]]
  /\ sure' = IF log' = log THEN sure ELSE {}
  /\ UNCHANGED bus /\ NotWriters

\* set_oldest_retained overwrites: of two trims, the earlier one can be the last here.
SetOldest(w) ==
  /\ writer[w].pc = "set"
  /\ bus' = [bus EXCEPT !.oldest = Larger(writer[w].n, 1)]
  /\ writer' = [writer EXCEPT ![w] = Resting]
  /\ UNCHANGED <<log, sure>> /\ NotWriters

\* A thread of a process that has dropped the lock writes, and publishes to a
\* bus nobody serves from any more.
LateWrite(p) ==
  /\ proc[p] = "late" /\ log.last < MaxEvents
  /\ log' \in {Appended, Trimmed(Appended)}
  /\ sure' = IF log'.first = log.first THEN sure ELSE {}
  /\ UNCHANGED <<bus, writer>> /\ NotWriters

-----------------------------------------------------------------------------
\* The pump of a subscription, and the frames it writes.

\* is_expired
Expired(since) == since + 1 < bus.oldest

NotPumps == UNCHANGED <<life, log, bus, writer, role>>

\* A control frame, or the end of the stream, is all that is left to read.
Finish(c) == pump' = [pump EXCEPT ![c] = [NoPump EXCEPT !.pc = "ended"]]

\* Variant: the window is looked at when the subscription starts and never again.
Check_OnlyOnce(c) ==
  /\ pump[c].pc = "check"
  /\ pump' = [pump EXCEPT ![c].pc = "drain"]
  /\ sure' = IF bus.oldest >= log.first THEN sure \cup {c} ELSE sure \ {c}
  /\ UNCHANGED <<cursor, top, gaps>> /\ NotPumps

\* The loop head: cursor_expired, or on to the rows.
Check(c) ==
  /\ pump[c].pc = "check"
  /\ IF Expired(pump[c].next) THEN Finish(c)
     ELSE pump' = [pump EXCEPT ![c].pc = "drain"]
  /\ sure' = IF bus.oldest >= log.first THEN sure \cup {c} ELSE sure \ {c}
  /\ UNCHANGED <<cursor, top, gaps>> /\ NotPumps

\* events_since(next): the rows there are, whatever was trimmed before them.
Read(c) ==
  /\ pump[c].pc = "drain"
  /\ LET from == Larger(log.first, pump[c].next + 1)
         upto == IF from + Batch - 1 < log.last THEN from + Batch - 1 ELSE log.last
     IN  /\ pump' = IF from > log.last THEN [pump EXCEPT ![c].pc = "wait"]
                    ELSE [pump EXCEPT ![c].pc = "write", ![c].from = from, ![c].upto = upto]
         /\ gaps' = IF c \in sure /\ from <= log.last /\ from > pump[c].next + 1
                    THEN gaps \cup {c} ELSE gaps
  /\ UNCHANGED <<cursor, top, sure>> /\ NotPumps

\* One frame to the client; the reader thread of `top` marks the tree dirty.
Write(c) ==
  /\ pump[c].pc = "write"
  /\ LET row == pump[c].from
     IN  /\ pump' = [pump EXCEPT ![c].next = row, ![c].from = row + 1,
                                 ![c].pc = IF row < pump[c].upto THEN "write" ELSE "drain"]
         /\ cursor' = IF role[c] = "cursor" THEN [cursor EXCEPT ![c].got = row] ELSE cursor
         /\ top' = IF role[c] = "top" /\ top[c].reader # "off"
                   THEN [top EXCEPT ![c].dirty = TRUE] ELSE top
  /\ UNCHANGED <<sure, gaps>> /\ NotPumps

\* wait_for(next + 1): the shutdown wins, then a newer seq or the poll's timeout.
Wake(c) ==
  /\ pump[c].pc = "wait"
  /\ IF stopping THEN Finish(c)
     ELSE pump' = [pump EXCEPT ![c].pc = "check"]
  /\ UNCHANGED <<cursor, top, sure, gaps>> /\ NotPumps

-----------------------------------------------------------------------------
\* A client of events.subscribe, which resumes from what it has consumed.

NotCursors == UNCHANGED <<life, log, bus, writer, role, top, sure, gaps>>

Subscribe(c) ==
  /\ role[c] = "cursor" /\ ~cursor[c].open /\ Answers /\ ~Expired(cursor[c].got)
  /\ cursor' = [cursor EXCEPT ![c].open = TRUE]
  /\ pump' = [pump EXCEPT ![c] = Pumping(cursor[c].got)]
  /\ NotCursors

\* The subscribe is refused with cursor_expired: the client takes a snapshot.
Resnapshot(c) ==
  /\ role[c] = "cursor" /\ ~cursor[c].open /\ Answers /\ Expired(cursor[c].got)
  /\ cursor' = [cursor EXCEPT ![c].got = log.last]
  /\ UNCHANGED pump /\ NotCursors

\* It reads a control frame or the end of the stream, or goes away by itself.
Unsubscribe(c) ==
  /\ cursor[c].open
  /\ cursor' = [cursor EXCEPT ![c].open = FALSE]
  /\ pump' = [pump EXCEPT ![c] = NoPump]
  /\ NotCursors

-----------------------------------------------------------------------------
\* `orcr top`: one thread draws and refreshes, one reads frames.

NotTop == UNCHANGED <<life, log, bus, writer, role, cursor, sure, gaps>>

\* Variant: the seq is read after the rows: the pump starts past what they show.
WatchOpen_LatePin(t) ==
  /\ top' = [top EXCEPT ![t] = [@ EXCEPT !.pc = "draw", !.reader = "on", !.msg = FALSE,
                                         !.shown = bus.latest]]
  /\ pump' = [pump EXCEPT ![t] = Pumping(log.last)]

\* build_snapshot takes the seq and the rows under one store lock; the reader, its
\* channel and the pump start anew.
WatchOpen(t) ==
  /\ top' = [top EXCEPT ![t] = [@ EXCEPT !.pc = "draw", !.reader = "on", !.msg = FALSE,
                                         !.shown = log.last]]
  /\ pump' = [pump EXCEPT ![t] = Pumping(log.last)]

\* The first connect, or one of the forty attempts after a lost stream.
Connect(t) ==
  /\ role[t] = "top" /\ top[t].pc \in {"start", "retry", "reopen"} /\ Answers
  /\ WatchOpen(t) /\ NotTop

\* The fortieth attempt fails: the loop goes on with the channel of the dead reader.
GiveUp(t) ==
  /\ top[t].pc = "retry" /\ ~Answers
  /\ top' = [top EXCEPT ![t].pc = "draw"]
  /\ UNCHANGED pump /\ NotTop

\* The reader meets a control frame or the end of the stream.
ReaderEnds(t) ==
  /\ top[t].reader # "off" /\ pump[t].pc = "ended"
  /\ top' = [top EXCEPT ![t].reader = "off", ![t].msg = TRUE]
  /\ pump' = [pump EXCEPT ![t] = NoPump]
  /\ NotTop

\* The reader comes back from a read timeout and finds that it was told to stop.
ReaderStops(t) ==
  /\ top[t].reader = "told"
  /\ top' = [top EXCEPT ![t].reader = "off"]
  /\ pump' = [pump EXCEPT ![t] = NoPump]
  /\ NotTop

\* The frame loop: a lost stream goes before a refresh.
Lost(t) ==
  /\ top[t].pc = "draw" /\ top[t].msg
  /\ top' = [top EXCEPT ![t].pc = "retry", ![t].msg = FALSE]
  /\ UNCHANGED pump /\ NotTop

Refresh(t) ==
  /\ top[t].pc = "draw" /\ ~top[t].msg /\ top[t].dirty
  /\ top' = [top EXCEPT ![t] = IF Answers THEN [@ EXCEPT !.dirty = FALSE, !.shown = log.last]
                               ELSE [@ EXCEPT !.pc = "reopen", !.dirty = FALSE]]
  /\ UNCHANGED pump /\ NotTop

\* The refresh failed; connect tells the reader to stop, and fails as well.
ReopenFails(t) ==
  /\ top[t].pc = "reopen" /\ ~Answers
  /\ top' = [top EXCEPT ![t].pc = "draw",
                        ![t].reader = IF @ = "on" THEN "told" ELSE @]
  /\ UNCHANGED pump /\ NotTop

-----------------------------------------------------------------------------
\* The server processes, with what their steps do to the stream.

NotStream == UNCHANGED <<log, bus, writer, pump, role, cursor, top, sure, gaps>>

\* Variant: the bound starts at the newest row.
Seed_FromLatest == [latest |-> log.last, oldest |-> log.last + 1]

\* latest_event_seq, and oldest_event_seq or the next seq of an empty table.
Seed == [latest |-> log.last, oldest |-> Larger(log.first, 1)]

Open(p) ==
  /\ OpenStore(p)
  /\ bus' = Seed
  /\ UNCHANGED <<log, writer, pump, role, cursor, top, sure, gaps>>

\* The serving process's threads are gone, and its connections closed.
Hangup ==
  /\ writer' = [w \in Writers |-> Resting]
  /\ pump' = [c \in Clients |-> IF pump[c].pc = "none" THEN NoPump
                                ELSE [NoPump EXCEPT !.pc = "ended"]]
  /\ UNCHANGED <<log, bus, role, cursor, top, sure, gaps>>

Life ==
  \E p \in Procs :
    \/ ( \/ Launch(p) \/ TryLock(p) \/ Loser(p) \/ Bind(p) \/ Serve(p)
         \/ RequestStop(p) \/ Leave(p) \/ Unlink(p) \/ Gone(p) ) /\ NotStream
    \/ Open(p)
    \/ (StartFails(p) \/ Release(p)) /\ Hangup
    \/ Crash(p) /\ IF Running(p) THEN Hangup ELSE NotStream

WriterStep(w) ==
  \/ Published(w) \/ ReadCursor(w) \/ Trim(w) \/ SetOldest(w)

PumpStep(c) == Check(c) \/ Read(c) \/ Write(c) \/ Wake(c)

CursorStep(c) == Subscribe(c) \/ Resnapshot(c) \/ Unsubscribe(c)

TopStep(t) ==
  \/ Connect(t) \/ GiveUp(t) \/ ReaderEnds(t) \/ ReaderStops(t) \/ Lost(t)
  \/ Refresh(t) \/ ReopenFails(t)

Next ==
  \/ Life
  \/ \E w \in Writers : Append(w) \/ WriterStep(w)
  \/ \E p \in Procs : LateWrite(p)
  \/ \E c \in Clients : PumpStep(c)
  \/ \E c \in Clients : CursorStep(c)
  \/ \E t \in Clients : TopStep(t)

Spec == Init /\ [][Next]_vars

-----------------------------------------------------------------------------
\* The replay bound the bus answers cursor_expired from never runs ahead of the
\* table, nor the newest seq, whatever trims, restarts and late writers do: no
\* subscriber is told its cursor has expired while its next row can still be read
\* (publish, set_oldest_retained, run_foreground's seeds).
BusBehindLog == bus.oldest <= log.first /\ bus.latest <= log.last

\* A pump passes over rows without a word only when a trim fell between its check
\* and its read, or its check used a bound that a trim had not yet published or had
\* published out of order (spawn_pump's check before every round).
NoUnexplainedGap == gaps = {}

\* Nobody reads for this screen any more, and nothing will make it look again.
Frozen(t) == top[t].pc = "draw" /\ top[t].reader = "off" /\ ~top[t].msg /\ ~top[t].dirty

\* Whatever happened is on the screen of `orcr top` in the end, whichever thread of
\* the server, its stop or its crash came in between, once a server stays up, and
\* unless the screen is frozen (connect and run of top/app.rs, build_snapshot,
\* spawn_pump).
TopCatchesUp ==
  <>[]Answers =>
    \A t \in Clients : []<>(role[t] = "top" => top[t].shown = log.last \/ Frozen(t))

\* Threads run, and a process that has begun to start or stop goes on; launches,
\* stops, crashes and appends are up to their environment.
FairSpec ==
  /\ Spec
  /\ \A p \in Procs :
       /\ WF_vars(TryLock(p) /\ NotStream) /\ WF_vars(Loser(p) /\ NotStream)
       /\ WF_vars(Open(p)) /\ WF_vars(Bind(p) /\ NotStream) /\ WF_vars(Serve(p) /\ NotStream)
       /\ WF_vars(Leave(p) /\ NotStream) /\ WF_vars(Unlink(p) /\ NotStream)
       /\ WF_vars(Release(p) /\ Hangup) /\ WF_vars(Gone(p) /\ NotStream)
  /\ \A w \in Writers : WF_vars(WriterStep(w))
  /\ \A c \in Clients : WF_vars(PumpStep(c))
  /\ \A t \in Clients :
       /\ WF_vars(Connect(t)) /\ WF_vars(ReaderEnds(t)) /\ WF_vars(ReaderStops(t))
       /\ WF_vars(Lost(t)) /\ WF_vars(Refresh(t)) /\ WF_vars(ReopenFails(t))
=============================================================================
