------------------------- MODULE EventStreamProofs --------------------------
(***************************************************************************)
(* Theorems of EventStream, for any number of processes, writers and       *)
(* clients, any retention, batch size and crash count:                     *)
(*   - the socket path leads to the process that serves;                   *)
(*   - the replay bound never runs ahead of the table;                     *)
(*   - a subscriber that misses rows is told so, or one of the two named   *)
(*     races of a trim is the cause.                                       *)
(***************************************************************************)
EXTENDS EventStream, TLAPS

-----------------------------------------------------------------------------
\* The lock belongs to every process between taking it and dropping it, so there
\* is one such process, and the path is its own once it has bound it.
LockInv ==
  /\ proc \in [Procs -> {"off", "lock", "wait", "open", "bind", "boot", "serve",
                         "drain", "exit", "late"}]
  /\ \A p \in Procs : proc[p] \in {"open", "bind", "boot", "serve", "drain", "exit"}
                        => holder = p
  /\ SocketLeadsToServer

\* What a step of the stream does to the processes: it is one of theirs, a failed
\* start or a crash among them, or it leaves them alone.
LifeStep ==
  \/ \E p \in Procs :
       \/ Launch(p) \/ TryLock(p) \/ Loser(p) \/ OpenStore(p) \/ StartFails(p)
       \/ Bind(p) \/ Serve(p) \/ RequestStop(p) \/ Leave(p) \/ Unlink(p)
       \/ Release(p) \/ Gone(p) \/ Crash(p)
  \/ UNCHANGED life

\* Every step of the stream is a step of the processes or leaves them alone.
LEMMA NextIsLifeStep == [Next]_vars => LifeStep
<1> SUFFICES ASSUME [Next]_vars PROVE LifeStep
  OBVIOUS
<1>1. CASE Life
  BY <1>1 DEF Life, LifeStep, Open
<1>2. ASSUME NEW w \in Writers, Append(w) \/ WriterStep(w) PROVE LifeStep
  BY <1>2 DEF LifeStep, Append, WriterStep, Published, ReadCursor, Trim, SetOldest, NotWriters
<1>3. ASSUME NEW p \in Procs, LateWrite(p) PROVE LifeStep
  BY <1>3 DEF LifeStep, LateWrite, NotWriters
<1>4. ASSUME NEW c \in Clients, PumpStep(c) PROVE LifeStep
  BY <1>4 DEF LifeStep, PumpStep, Check, Read, Write, Wake, NotPumps
<1>5. ASSUME NEW c \in Clients, CursorStep(c) PROVE LifeStep
  BY <1>5 DEF LifeStep, CursorStep, Subscribe, Resnapshot, Unsubscribe, NotCursors
<1>6. ASSUME NEW t \in Clients, TopStep(t) PROVE LifeStep
  BY <1>6 DEF LifeStep, TopStep, Connect, GiveUp, ReaderEnds, ReaderStops, Lost, Refresh,
              ReopenFails, NotTop
<1>7. CASE UNCHANGED vars
  BY <1>7 DEF LifeStep, vars
<1> QED
  BY <1>1, <1>2, <1>3, <1>4, <1>5, <1>6, <1>7 DEF Next

\* No step of a process takes the lock or the socket file from another one.
LEMMA LifeKeepsLock == LockInv /\ LifeStep => LockInv'
<1> SUFFICES ASSUME LockInv, LifeStep PROVE LockInv'
  OBVIOUS
<1> USE DEF LockInv, SocketLeadsToServer, Goto
<1>1. CASE UNCHANGED life
  BY <1>1 DEF life
<1>2. ASSUME NEW p \in Procs, Launch(p) \/ Loser(p) \/ Gone(p) PROVE LockInv'
  BY <1>2 DEF Launch, Loser, Gone
<1>3. ASSUME NEW p \in Procs, TryLock(p) PROVE LockInv'
  BY <1>3, ProcsAssumption DEF TryLock
<1>4. ASSUME NEW p \in Procs, OpenStore(p) \/ Serve(p) \/ RequestStop(p) \/ Leave(p)
      PROVE LockInv'
  BY <1>4 DEF OpenStore, Serve, RequestStop, Leave
<1>5. ASSUME NEW p \in Procs, StartFails(p) \/ Release(p) PROVE LockInv'
  BY <1>5 DEF StartFails, Release
<1>6. ASSUME NEW p \in Procs, Bind(p) \/ Unlink(p) PROVE LockInv'
  <2>1. \A q \in Procs : proc[q] \in {"boot", "serve", "drain"} => q = p
    BY <1>6 DEF Bind, Unlink
  <2> QED
    BY <1>6, <2>1 DEF Bind, Unlink
<1>7. ASSUME NEW p \in Procs, Crash(p) PROVE LockInv'
  BY <1>7 DEF Crash
<1> QED
  BY <1>1, <1>2, <1>3, <1>4, <1>5, <1>6, <1>7 DEF LifeStep

\* The path of the socket leads to the process that has bound it until it stops
\* (run_foreground, bind_socket and the order of the cleanup).
THEOREM SocketLeads == Spec => []SocketLeadsToServer
<1>1. Init => LockInv
  BY DEF Init, LifeInit, LockInv, SocketLeadsToServer
<1>2. LockInv /\ [Next]_vars => LockInv'
  BY NextIsLifeStep, LifeKeepsLock
<1>3. LockInv => SocketLeadsToServer
  BY DEF LockInv
<1> QED
  BY <1>1, <1>2, <1>3, PTL DEF Spec

-----------------------------------------------------------------------------
\* What the numbers in flight may be: one that is to be published has been
\* written, one that is to be the bound was the first row once, and rows are only
\* taken from the front.
BoundInv ==
  /\ log \in [first : Int, last : Int]
  /\ bus \in [latest : Int, oldest : Int]
  /\ writer \in [Writers -> [pc : {"rest", "publish", "cursor", "trim", "set"}, n : Int]]
  /\ 1 <= log.first
  /\ BusBehindLog
  /\ \A w \in Writers : /\ writer[w].pc = "publish" => writer[w].n <= log.last
                        /\ writer[w].pc = "set" => writer[w].n <= log.first

\* Trimming moves the front forward and nothing else.
LEMMA TrimmedForward ==
  ASSUME NEW l \in [first : Int, last : Int]
  PROVE  /\ Trimmed(l) \in [first : Int, last : Int]
         /\ l.first <= Trimmed(l).first
         /\ Trimmed(l).last = l.last
BY StreamAssumption DEF Trimmed, Larger

\* The statements of the writers keep the bound behind the table, in any order.
LEMMA WriterKeepsBound ==
  ASSUME BoundInv, NEW w \in Writers, Append(w) \/ WriterStep(w)
  PROVE  BoundInv'
<1> USE DEF BoundInv, BusBehindLog, NotWriters, Resting
<1>1. CASE Append(w)
  BY <1>1 DEF Append, Appended
<1>2. CASE Published(w)
  BY <1>2 DEF Published, Larger
<1>3. CASE ReadCursor(w)
  BY <1>3 DEF ReadCursor
<1>4. CASE Trim(w)
  <2>1. /\ log' \in [first : Int, last : Int]
        /\ log.first <= log'.first
        /\ log'.last = log.last
    BY <1>4, TrimmedForward DEF Trim
  <2> QED
    BY <1>4, <2>1 DEF Trim
<1>5. CASE SetOldest(w)
  BY <1>5 DEF SetOldest, Larger
<1> QED
  BY <1>1, <1>2, <1>3, <1>4, <1>5 DEF WriterStep

\* So do a start, which reads the bound from the table, and a late writer.
LEMMA ServerKeepsBound ==
  ASSUME BoundInv, Life \/ \E p \in Procs : LateWrite(p)
  PROVE  BoundInv'
<1> USE DEF BoundInv, BusBehindLog
<1>1. ASSUME NEW p \in Procs, LateWrite(p) PROVE BoundInv'
  <2>1. Appended \in [first : Int, last : Int] /\ Appended.first = log.first
        /\ Appended.last = log.last + 1
    BY DEF Appended
  <2>2. /\ log' \in [first : Int, last : Int]
        /\ log.first <= log'.first
        /\ log.last <= log'.last
    BY <1>1, <2>1, TrimmedForward DEF LateWrite
  <2> QED
    BY <1>1, <2>2 DEF LateWrite, NotWriters
<1>2. CASE NotStream
  BY <1>2 DEF NotStream
<1>3. CASE Hangup
  BY <1>3 DEF Hangup, Resting
<1>4. ASSUME NEW p \in Procs, Open(p) PROVE BoundInv'
  BY <1>4 DEF Open, Seed, Larger
<1> QED
  BY <1>1, <1>2, <1>3, <1>4 DEF Life

\* Subscribers move neither the table nor the bound.
LEMMA ClientKeepsBound ==
  ASSUME BoundInv, NEW c \in Clients, PumpStep(c) \/ CursorStep(c) \/ TopStep(c)
  PROVE  BoundInv'
<1>1. UNCHANGED <<log, bus, writer>>
  BY DEF PumpStep, Check, Read, Write, Wake, NotPumps, CursorStep, Subscribe, Resnapshot,
         Unsubscribe, NotCursors, TopStep, Connect, GiveUp, ReaderEnds, ReaderStops, Lost,
         Refresh, ReopenFails, NotTop
<1> QED
  BY <1>1 DEF BoundInv, BusBehindLog

\* The bounds hold from the first start on.
LEMMA BoundHolds == Spec => []BoundInv
<1>1. Init => BoundInv
  BY DEF Init, BoundInv, BusBehindLog, Resting
<1>2. BoundInv /\ [Next]_vars => BoundInv'
  <2> SUFFICES ASSUME BoundInv, [Next]_vars PROVE BoundInv'
    OBVIOUS
  <2>1. CASE UNCHANGED vars
    BY <2>1 DEF vars, BoundInv, BusBehindLog
  <2> QED
    BY <2>1, WriterKeepsBound, ServerKeepsBound, ClientKeepsBound DEF Next
<1> QED
  BY <1>1, <1>2, PTL DEF Spec

\* No subscriber is told that its cursor has expired while its next row can still
\* be read, whatever the order in which trims publish their bounds.
THEOREM BoundBehind == Spec => []BusBehindLog
<1>1. BoundInv => BusBehindLog
  BY DEF BoundInv
<1> QED
  BY <1>1, BoundHolds, PTL

-----------------------------------------------------------------------------
\* A pump whose check was sure has its next row in the table until a trim, which
\* ends the certainty; the rows it writes are the ones that follow.
Pumps == [pc : {"none", "check", "drain", "write", "wait", "ended"},
          next : Int, from : Int, upto : Int]

GapInv ==
  /\ pump \in [Clients -> Pumps]
  /\ cursor \in [Clients -> [got : Int, open : BOOLEAN]]
  /\ gaps = {}
  /\ \A c \in Clients :
       /\ pump[c].pc = "write" => pump[c].next < pump[c].from
       /\ c \in sure /\ pump[c].pc \in {"drain", "write"} => log.first <= pump[c].next + 1

\* What a step that replaces one pump has to show.
LEMMA OnePump ==
  ASSUME GapInv, NEW c \in Clients, NEW p \in Pumps,
         pump' = [pump EXCEPT ![c] = p],
         UNCHANGED log, gaps' = gaps, sure' \ {c} = sure \ {c},
         cursor' \in [Clients -> [got : Int, open : BOOLEAN]],
         p.pc = "write" => p.next < p.from,
         c \in sure' /\ p.pc \in {"drain", "write"} => log.first <= p.next + 1
  PROVE  GapInv'
<1>1. pump' \in [Clients -> Pumps]
  BY DEF GapInv
<1>2. ASSUME NEW d \in Clients
      PROVE  /\ pump'[d].pc = "write" => pump'[d].next < pump'[d].from
             /\ d \in sure' /\ pump'[d].pc \in {"drain", "write"} => log'.first <= pump'[d].next + 1
  <2>1. CASE d = c
    BY <2>1 DEF GapInv
  <2>2. CASE d # c
    BY <2>2 DEF GapInv
  <2> QED
    BY <2>1, <2>2
<1> QED
  BY <1>1, <1>2 DEF GapInv

\* The pump itself: the check makes sure or not, the read finds the next row, and
\* what is written is never behind what was.
LEMMA PumpKeepsGap ==
  ASSUME BoundInv, GapInv, NEW c \in Clients, PumpStep(c)
  PROVE  GapInv'
<1> DEFINE old == pump[c]
<1>1. /\ old \in Pumps
      /\ log.first \in Int /\ log.last \in Int /\ bus.oldest \in Int
      /\ cursor \in [Clients -> [got : Int, open : BOOLEAN]]
      /\ gaps = {}
      /\ old.pc = "write" => old.next < old.from
      /\ c \in sure /\ old.pc \in {"drain", "write"} => log.first <= old.next + 1
  BY DEF BoundInv, GapInv
<1>2. [NoPump EXCEPT !.pc = "ended"] \in Pumps
  BY DEF NoPump, Pumps
<1>3. CASE Check(c)
  <2>1. CASE Expired(old.next)
    BY <1>1, <1>2, <1>3, <2>1, OnePump DEF Check, Finish, NotPumps, NoPump
  <2>2. CASE ~Expired(old.next)
    <3> DEFINE p == [old EXCEPT !.pc = "drain"]
    <3>1. p \in Pumps /\ p.pc = "drain" /\ p.next = old.next
      BY <1>1 DEF Pumps
    <3>2. pump' = [pump EXCEPT ![c] = p]
      BY <1>3, <2>2 DEF Check
    <3>3. bus.oldest <= p.next + 1
      BY <1>1, <2>2, <3>1 DEF Expired, Pumps
    <3>4. c \in sure' => log.first <= p.next + 1
      BY <1>1, <1>3, <3>1, <3>3 DEF Check, Pumps
    <3> HIDE DEF p
    <3> QED
      BY <1>1, <1>3, <3>1, <3>2, <3>4, OnePump DEF Check, NotPumps
  <2> QED
    BY <2>1, <2>2
<1>4. CASE Read(c)
  <2> DEFINE from == Larger(log.first, old.next + 1)
             upto == IF from + Batch - 1 < log.last THEN from + Batch - 1 ELSE log.last
             p    == IF from > log.last THEN [old EXCEPT !.pc = "wait"]
                     ELSE [old EXCEPT !.pc = "write", !.from = from, !.upto = upto]
  <2>1. from \in Int /\ upto \in Int /\ old.next < from
    BY <1>1, StreamAssumption DEF Larger, Pumps
  <2>2. p \in Pumps /\ p.next = old.next /\ (p.pc = "write" => p.next < p.from)
    BY <1>1, <2>1 DEF Pumps
  <2>3. pump' = [pump EXCEPT ![c] = p]
    BY <1>4 DEF Read
  <2>4. c \in sure => log.first <= old.next + 1 /\ from = old.next + 1
    BY <1>1, <1>4 DEF Read, Larger, Pumps
  <2>5. gaps' = gaps
    BY <1>1, <1>4, <2>1, <2>4 DEF Read, Pumps
  <2> HIDE DEF p, from, upto
  <2> QED
    BY <1>1, <1>4, <2>2, <2>3, <2>4, <2>5, OnePump DEF Read, NotPumps
<1>5. CASE Write(c)
  <2> DEFINE seq == old.from
             pc  == IF seq < old.upto THEN "write" ELSE "drain"
             p   == [old EXCEPT !.next = seq, !.from = seq + 1, !.pc = pc]
  <2>0. /\ seq \in Int /\ seq + 1 \in Int /\ seq < seq + 1 /\ pc \in {"write", "drain"}
        /\ old.next \in Int /\ old.next < seq
    BY <1>1, <1>5 DEF Pumps, Write
  <2> HIDE DEF pc
  <2>1. p \in Pumps /\ p.next = seq /\ p.from = seq + 1
    BY <1>1, <2>0 DEF Pumps
  <2>2. pump' = [pump EXCEPT ![c] = p]
    BY <1>5 DEF Write, pc
  <2>3. cursor' \in [Clients -> [got : Int, open : BOOLEAN]]
    BY <1>1, <1>5, <2>0 DEF Write
  <2>4. c \in sure => log.first <= p.next + 1
    BY <1>1, <1>5, <2>0, <2>1 DEF Write, Pumps
  <2>5. UNCHANGED <<log, gaps, sure>>
    BY <1>5 DEF Write, NotPumps
  <2>6. p.pc = "write" => p.next < p.from
    BY <2>0, <2>1
  <2> HIDE DEF p, seq
  <2> QED
    BY <2>1, <2>2, <2>3, <2>4, <2>5, <2>6, OnePump
<1>6. CASE Wake(c)
  <2>1. CASE stopping
    BY <1>1, <1>2, <1>6, <2>1, OnePump DEF Wake, Finish, NotPumps, NoPump
  <2>2. CASE ~stopping
    <3>1. [old EXCEPT !.pc = "check"] \in Pumps
      BY <1>1 DEF Pumps
    <3> QED
      BY <1>1, <1>6, <2>2, <3>1, OnePump DEF Wake, NotPumps, Pumps
  <2> QED
    BY <2>1, <2>2
<1> QED
  BY <1>3, <1>4, <1>5, <1>6 DEF PumpStep

\* A trim that removes a row ends every certainty; no other write touches the front.
LEMMA WriterKeepsGap ==
  ASSUME BoundInv, GapInv,
         \/ \E w \in Writers : Append(w) \/ WriterStep(w)
         \/ \E p \in Procs : LateWrite(p)
  PROVE  GapInv'
<1>1. UNCHANGED <<pump, cursor, gaps>>
  BY DEF WriterStep, Append, Published, ReadCursor, Trim, SetOldest, LateWrite, NotWriters
<1>2. sure' = {} \/ (sure' = sure /\ log'.first = log.first)
  BY DEF BoundInv, WriterStep, Append, Appended, Published, ReadCursor, Trim, SetOldest, LateWrite
<1> QED
  BY <1>1, <1>2 DEF GapInv

\* A new subscription begins with a check, and so does one after a restart.
LEMMA OthersKeepGap ==
  ASSUME BoundInv, GapInv, Life \/ \E c \in Clients : CursorStep(c) \/ TopStep(c)
  PROVE  GapInv'
<1> USE DEF GapInv
<1>1. CASE NotStream
  BY <1>1 DEF NotStream
<1>2. CASE Hangup
  BY <1>2 DEF Hangup, NoPump, Pumps
<1>3. ASSUME NEW p \in Procs, Open(p) PROVE GapInv'
  BY <1>3 DEF Open
<1>4. ASSUME NEW c \in Clients, NEW seq \in Int, UNCHANGED <<log, gaps, sure>>,
             \/ pump' = [pump EXCEPT ![c] = Pumping(seq)]
             \/ pump' = [pump EXCEPT ![c] = NoPump]
             \/ UNCHANGED pump,
             cursor' \in [Clients -> [got : Int, open : BOOLEAN]]
      PROVE  GapInv'
  <2>1. Pumping(seq) \in Pumps /\ NoPump \in Pumps
    BY DEF Pumping, NoPump, Pumps
  <2> QED
    BY <1>4, <2>1, OnePump DEF Pumping, NoPump
<1>5. ASSUME NEW c \in Clients, CursorStep(c) PROVE GapInv'
  <2>1. cursor[c].got \in Int /\ log.last \in Int
    BY DEF BoundInv
  <2>2. cursor' \in [Clients -> [got : Int, open : BOOLEAN]]
    BY <1>5, <2>1 DEF CursorStep, Subscribe, Resnapshot, Unsubscribe
  <2>3. UNCHANGED <<log, gaps, sure>>
    BY <1>5 DEF CursorStep, Subscribe, Resnapshot, Unsubscribe, NotCursors
  <2>4. \/ pump' = [pump EXCEPT ![c] = Pumping(cursor[c].got)]
        \/ pump' = [pump EXCEPT ![c] = NoPump]
        \/ UNCHANGED pump
    BY <1>5 DEF CursorStep, Subscribe, Resnapshot, Unsubscribe
  <2> QED
    BY <1>4, <2>1, <2>2, <2>3, <2>4
<1>6. ASSUME NEW c \in Clients, TopStep(c) PROVE GapInv'
  <2>1. log.last \in Int
    BY DEF BoundInv
  <2>2. UNCHANGED <<log, cursor, gaps, sure>>
    BY <1>6 DEF TopStep, Connect, GiveUp, ReaderEnds, ReaderStops, Lost, Refresh, ReopenFails, NotTop
  <2>3. \/ pump' = [pump EXCEPT ![c] = Pumping(log.last)]
        \/ pump' = [pump EXCEPT ![c] = NoPump]
        \/ UNCHANGED pump
    BY <1>6 DEF TopStep, Connect, WatchOpen, GiveUp, ReaderEnds, ReaderStops, Lost, Refresh, ReopenFails
  <2> QED
    BY <1>4, <2>1, <2>2, <2>3
<1> QED
  BY <1>1, <1>2, <1>3, <1>5, <1>6 DEF Life

\* A subscriber misses an event without being told only where a trim came between
\* the pump's check and its read, or the check used a bound that was out of date.
THEOREM GapsAreExplained == Spec => []NoUnexplainedGap
<1>1. Init => GapInv
  BY DEF Init, GapInv, NoPump, Pumps
<1>2. BoundInv /\ GapInv /\ [Next]_vars => GapInv'
  <2> SUFFICES ASSUME BoundInv, GapInv, [Next]_vars PROVE GapInv'
    OBVIOUS
  <2>1. CASE UNCHANGED vars
    BY <2>1 DEF vars, GapInv
  <2> QED
    BY <2>1, PumpKeepsGap, WriterKeepsGap, OthersKeepGap DEF Next
<1>3. GapInv => NoUnexplainedGap
  BY DEF GapInv, NoUnexplainedGap
<1> QED
  BY <1>1, <1>2, <1>3, BoundHolds, PTL DEF Spec
=============================================================================
