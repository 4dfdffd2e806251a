-------------------------- MODULE PaneMovesProofs --------------------------
(***************************************************************************)
(* Theorems of PaneMoves, for any number of connections, leases and        *)
(* crashes and whichever herdr calls fail: the row names the place of its  *)
(* pane, a lease vetoes the GC, and a delivered input cancels it.          *)
(***************************************************************************)
EXTENDS PaneMoves, FiniteSetTheorems, TLAPS

Rows == [ status : Live \cup {"ended", "lost"}, move : {"none", "parking", "unparking"},
          token : Nat, loc : {"home", "idle"}, turn : Nat, input : {"none", "sent", "typed"} ]

Steps == {"rest", "parkLease", "parkBegin", "reapCheck", "shut", "end", "recon", "inMove",
          "recover", "listActive", "markLost", "move", "finish", "settle", "begin", "deliver",
          "prompt", "kill", "killed", "look", "resume", "working", "complete"}

Works == [ pc : Steps, token : Nat, to : {"none", "home", "idle", "reaped", "timeout"},
           was : {"none", "home", "idle", "gone"}, status : Live \cup {"none"}, turn : Nat ]

\* Every variable keeps its shape.
TypeInv ==
  /\ row \in Rows
  /\ place \in {"home", "idle", "gone"}
  /\ lock \in Threads \cup {"nobody"}
  /\ work \in [Threads -> Works]
  /\ lease \in [Attachers -> {"none", "fresh", "lapsed"}]
  /\ server \in {"up", "down"}
  /\ early \in SUBSET Attachers
  /\ mislaid \in BOOLEAN

\* The pane is where the row says or where its move goes; a token stands for a
\* move; an input that was sent is in no row that the GC may take.
RowInv ==
  /\ row.move = "none" <=> row.token = 0
  /\ place \in {"gone", row.loc} \/ mislaid \/ (row.move # "none" /\ place = Destination(row.move))
  /\ row.input = "sent" => row.move = "none" /\ row.status \notin {"idle", "parked"}
  /\ \A c \in early : lease[c] = "fresh"

\* The steps a thread takes under the agent's move lock.
Locked == {"settle", "begin", "move", "finish", "deliver", "prompt", "killed", "shut", "end"}

\* What a thread in the middle of its work may rely on. Under the lock the move
\* in the row is its own, and there is none when it delivers or begins anew. A
\* copy with the row's token shows the row's move. The GC takes no row with a
\* sent input, and once it has looked for leases it owes none.
Fits(t, w) ==
  /\ w.pc \in Locked => lock = t
  /\ w.pc \in {"move", "finish"} =>
       row.token = w.token /\ row.move # "none" /\ w.to = Destination(row.move)
  /\ w.pc = "finish" => place \in {"gone", w.to}
  /\ w.pc \in {"settle", "recover"} =>
       /\ w.token # 0 /\ w.to \in {"home", "idle"}
       /\ w.token = row.token => w.to = Destination(row.move)
  /\ w.pc = "settle" => w.token = row.token
  /\ w.pc \in {"begin", "deliver", "prompt"} => row.move = "none"
  /\ t = "gc" =>
       /\ w.pc \in {"shut", "end"} => row.move = "none"
       /\ w.pc \in {"move", "finish"} => row.input # "sent"
       /\ w.pc = "shut" /\ w.to = "reaped" => row.input # "sent" /\ early = {}
       /\ w.pc \in {"parkBegin", "move"} => early = {}

IndInv == TypeInv /\ RowInv /\ \A t \in Threads : Fits(t, work[t])

-----------------------------------------------------------------------------
\* There are finitely many threads, and at least one number more.
LEMMA NumbersSuffice ==
  /\ IsFiniteSet(Threads) /\ IsFiniteSet(Numbers) /\ Numbers \subseteq Nat \ {0}
  /\ Cardinality(Threads) < Cardinality(Numbers)
  /\ {1, 2} \subseteq Numbers
<1>1. IsFiniteSet({"gc"} \cup {"monitor"})
  BY FS_Singleton, FS_Union
<1>2. IsFiniteSet(Threads) /\ Cardinality(Threads) \in Nat
  <2>1. Threads = (Senders \cup Killers) \cup ({"gc"} \cup {"monitor"})
    BY DEF Threads
  <2>2. IsFiniteSet(Threads)
    BY <1>1, <2>1, MoverAssumption, FS_Union
  <2> QED
    BY <2>2, FS_CardinalityType
<1>3. Cardinality(Threads) # 0
  BY <1>2, FS_EmptySet DEF Threads
<1>4. IsFiniteSet(Numbers) /\ Cardinality(Numbers) = Cardinality(Threads) + 1
  BY <1>2, <1>3, FS_Interval DEF Numbers
<1> QED
  BY <1>2, <1>3, <1>4 DEF Numbers

\* So there is a token that no thread holds.
LEMMA FreshTokenExists ==
  /\ FreshToken \in Nat \ {0}
  /\ \A t \in Threads : FreshToken # work[t].token
<1>1. \E n \in Numbers : \A t \in Threads : n # work[t].token
  <2> SUFFICES ASSUME \A n \in Numbers : \E t \in Threads : n = work[t].token PROVE FALSE
    OBVIOUS
  <2> DEFINE holder == [n \in Numbers |-> CHOOSE t \in Threads : n = work[t].token]
  <2>1. holder \in [Numbers -> Threads] /\ \A n \in Numbers : n = work[holder[n]].token
    OBVIOUS
  <2> HIDE DEF holder
  <2>2. \E m, n \in Numbers : m # n /\ holder[m] = holder[n]
    <3>1. holder \in [Numbers -> Threads]
      BY <2>1
    <3>2. IsFiniteSet(Threads) /\ IsFiniteSet(Numbers) /\ Cardinality(Threads) < Cardinality(Numbers)
      BY NumbersSuffice
    <3> QED
      BY <3>1, <3>2, FS_PigeonHole
  <2> QED
    BY <2>1, <2>2
<1> QED
  BY <1>1, NumbersSuffice DEF FreshToken

\* And a number for a turn that the monitor has not read.
LEMMA FreshTurnExists == FreshTurn \in Nat
<1>1. \E n \in Numbers : n # work["monitor"].turn
  BY NumbersSuffice
<1> QED
  BY <1>1, NumbersSuffice DEF FreshTurn

-----------------------------------------------------------------------------
\* What a step does to the work of its thread and of the others.
LEMMA GoesOn ==
  ASSUME TypeInv, NEW t \in Threads, NEW w \in Works, Goes(t, w)
  PROVE  /\ work' \in [Threads -> Works]
         /\ work'[t] = w
         /\ \A u \in Threads \ {t} : work'[u] = work[u]
BY DEF TypeInv, Goes

\* Going on to another step is a work like any other.
LEMMA StepGoes ==
  ASSUME TypeInv, NEW t \in Threads, NEW step \in Steps, Step(t, step)
  PROVE  \E w \in Works : /\ Goes(t, w) /\ w.pc = step
                         /\ w.to = work[t].to /\ w.token = work[t].token
<1> DEFINE w == [work[t] EXCEPT !.pc = step]
<1>1. w \in Works /\ w.pc = step /\ w.to = work[t].to /\ w.token = work[t].token
  BY DEF TypeInv, Works
<1>2. Goes(t, w)
  BY DEF Step
<1> HIDE DEF w
<1> QED
  BY <1>1, <1>2

\* After an un-park its thread rests, delivers or looks on, with no move in hand.
LEMMA AfterMoveGoes ==
  ASSUME TypeInv, NEW t \in Threads, NEW ok \in BOOLEAN, AfterMove(t, ok)
  PROVE  \E w \in Works :
           /\ Goes(t, w)
           /\ w.pc \in {"working", "deliver", "rest"}
           /\ w.pc = "deliver" => ok
           /\ lock' = IF w.pc = "deliver" THEN lock ELSE "nobody"
<1> DEFINE on == [Rest EXCEPT !.pc = "working", !.status = work[t].status, !.turn = work[t].turn]
<1>1. on \in Works /\ on.pc = "working"
  BY DEF TypeInv, Works, Rest, Steps
<1>2. [Rest EXCEPT !.pc = "deliver"] \in Works /\ [Rest EXCEPT !.pc = "deliver"].pc = "deliver"
  BY DEF Works, Rest, Steps
<1>3. Rest \in Works /\ Rest.pc = "rest"
  BY DEF Works, Rest, Steps
<1>4. t \in Senders => t # "monitor"
  BY MoverAssumption
<1>5. CASE t = "monitor"
  <2>1. Goes(t, on) /\ lock' = "nobody"
    BY <1>4, <1>5 DEF AfterMove, Releases
  <2> HIDE DEF on
  <2> QED
    BY <1>1, <2>1
<1>6. CASE t \in Senders /\ ok
  <2>1. Goes(t, [Rest EXCEPT !.pc = "deliver"]) /\ lock' = lock
    BY <1>4, <1>6 DEF AfterMove
  <2> QED
    BY <1>2, <1>6, <2>1
<1>7. CASE t # "monitor" /\ ~(t \in Senders /\ ok)
  <2>1. Goes(t, Rest) /\ lock' = "nobody"
    BY <1>7 DEF AfterMove, Releases
  <2> QED
    BY <1>3, <2>1
<1> QED
  BY <1>5, <1>6, <1>7

\* A row that a move statement wrote.
LEMMA MoveStatements ==
  ASSUME NEW r \in Rows, NEW token \in Nat, NEW to \in {"home", "idle"}
  PROVE  /\ Finished(r, token, to) \in Rows
         /\ RolledBack(r, token) \in Rows
         /\ [RolledBack(r, token) EXCEPT !.status = "lost"] \in Rows
BY DEF Rows, Finished, RolledBack, Live

\* What a recovered move leaves of the row: the move settled if its token is
\* still the row's, nothing but perhaps a lost agent otherwise.
LEMMA RecoveredRow ==
  ASSUME TypeInv, RowInv, NEW token \in Nat \ {0}, NEW to \in {"home", "idle"},
         token = row.token => to = Destination(row.move),
         Recovered(token, to)
  PROVE  /\ row' \in Rows /\ mislaid' \in BOOLEAN
         /\ mislaid => mislaid'
         /\ row'.turn = row.turn /\ row'.input = row.input
         /\ row.token = token =>
              /\ row'.move = "none" /\ row'.token = 0
              /\ row'.status \in {row.status, "lost", "parked", "idle"}
         /\ row.token # token =>
              /\ row'.move = row.move /\ row'.token = row.token /\ row'.loc = row.loc
              /\ row'.status \in {row.status, "lost"}
         /\ row.token = token => place \in {"gone", row'.loc} \/ mislaid'
<1> DEFINE fin == Finished(row, token, to)
           back == RolledBack(row, token)
<1>1. row \in Rows /\ place \in {"home", "idle", "gone"} /\ mislaid \in BOOLEAN
  BY DEF TypeInv
<1>2. /\ fin \in Rows /\ back \in Rows /\ [back EXCEPT !.status = "lost"] \in Rows
      /\ row.token # token => fin = row /\ back = row
  BY <1>1, MoveStatements DEF Finished, RolledBack
<1>7. row.token = token => /\ fin.move = "none" /\ fin.token = 0 /\ fin.loc = to
                              /\ back.move = "none" /\ back.token = 0 /\ back.loc = row.loc
                              /\ fin.status \in {"parked", "idle"} /\ back.status = row.status
                              /\ fin.turn = row.turn /\ fin.input = row.input
                              /\ back.turn = row.turn /\ back.input = row.input
  BY <1>1 DEF Finished, RolledBack, Rows
<1>3. row.token = token => place \in {"gone", row.loc, to} \/ mislaid
  <2>1. place \in {"gone", row.loc} \/ mislaid \/ (row.move # "none" /\ place = Destination(row.move))
    BY DEF RowInv
  <2> QED
    BY <2>1
<1> HIDE DEF fin, back
<1>4. CASE place # "gone" /\ row' = (IF place = to THEN fin ELSE back) /\ mislaid' = mislaid
  BY <1>1, <1>2, <1>7, <1>3, <1>4
<1>5. CASE row' \in {back, [back EXCEPT !.status = "lost"]} /\ mislaid' = (mislaid \/ row.token = token)
  <2>1. mislaid' \in BOOLEAN /\ (mislaid => mislaid') /\ (row.token = token => mislaid')
    BY <1>5
  <2>2. row' \in {back, [back EXCEPT !.status = "lost"]}
    BY <1>5
  <2> QED
    BY <1>1, <1>2, <1>7, <2>1, <2>2 DEF Rows
<1>6. CASE place = "gone" /\ row' = [back EXCEPT !.status = "lost"] /\ mislaid' = mislaid
  BY <1>1, <1>2, <1>7, <1>6 DEF Rows
<1> QED
  BY <1>4, <1>5, <1>6 DEF Recovered, fin, back

-----------------------------------------------------------------------------
\* What a step of a thread leaves to the others: it has the lock, or nobody has
\* it, or it touches nothing that the thread with the lock relies on; and the
\* row has the old move, none, or one that no other thread knows of.
Spares(t) ==
  /\ \/ lock \in {t, "nobody"}
     \/ /\ lock' = lock /\ place' = place
        /\ row'.move = row.move /\ row'.token = row.token
        /\ row'.input = "sent" => row.input = "sent"
  /\ \/ row'.token = 0
     \/ row'.token = row.token /\ row'.move = row.move
     \/ \A u \in Threads : row'.token # work[u].token
  /\ t = "gc" \/ early' = early

\* Such a step keeps what the others rely on.
LEMMA OthersFit ==
  ASSUME IndInv, NEW t \in Threads, Spares(t), NEW u \in Threads \ {t}, work'[u] = work[u]
  PROVE  Fits(u, work[u])'
<1> DEFINE w == work[u]
<1>1. Fits(u, w) /\ w \in Works /\ row \in Rows
  BY DEF IndInv, TypeInv
<1>2. t \notin {"nobody"} /\ u \notin {"nobody"}
  BY MoverAssumption DEF Threads
<1>3. w.pc \in {"settle", "recover"} /\ w.token = row'.token => w.to = Destination(row'.move)
  BY <1>1 DEF Spares, Fits
<1> HIDE DEF w
<1>4. CASE lock \in {t, "nobody"}
  <2>1. w.pc \notin Locked
    BY <1>1, <1>2, <1>4 DEF Fits
  <2> QED
    BY <1>1, <1>3, <2>1 DEF Fits, Spares, Locked, w
<1>5. CASE /\ lock' = lock /\ place' = place
           /\ row'.move = row.move /\ row'.token = row.token
           /\ row'.input = "sent" => row.input = "sent"
  <2>1. (w.pc \in Locked => lock' = u)
    BY <1>1, <1>5 DEF Fits
  <2> QED
    BY <1>1, <1>3, <1>5, <2>1 DEF Fits, Spares, Destination, w
<1> QED
  BY <1>4, <1>5 DEF Spares

\* A step of one thread keeps the invariant if it fits the thread and the row.
LEMMA ThreadKeeps ==
  ASSUME IndInv, NEW t \in Threads, NEW w \in Works, Goes(t, w), Spares(t), Quiet,
         row' \in Rows, place' \in {"home", "idle", "gone"}, lock' \in Threads \cup {"nobody"},
         early' \in SUBSET Attachers, mislaid' \in BOOLEAN,
         RowInv', Fits(t, w)'
  PROVE  IndInv'
<1>1. TypeInv'
  BY GoesOn DEF IndInv, TypeInv, Quiet
<1>2. ASSUME NEW u \in Threads PROVE Fits(u, work[u])'
  <2>1. CASE u = t
    <3>1. work'[t] = w
      BY GoesOn DEF IndInv
    <3> QED
      BY <2>1, <3>1 DEF Fits
  <2>2. CASE u # t
    <3>1. work'[u] = work[u]
      BY <2>2, GoesOn DEF IndInv
    <3> QED
      BY <2>2, <3>1, OthersFit
  <2> QED
    BY <2>1, <2>2
<1> QED
  BY <1>1, <1>2 DEF IndInv

\* At these steps a thread relies on nothing.
Free == {"rest", "parkLease", "reapCheck", "recon", "inMove", "listActive", "markLost", "kill",
         "look", "resume", "working", "complete"}

\* Steps outside the lock ask nothing of the row.
LEMMA FreeFits ==
  ASSUME NEW t, NEW w, w.pc \in Free
  PROVE  Fits(t, w)'
BY DEF Free, Fits, Locked

\* A step that changes no more than its thread's work and the lock.
LEMMA OnlyGoes ==
  ASSUME IndInv, NEW t \in Threads, NEW w \in Works, Goes(t, w), Quiet,
         UNCHANGED <<row, place, early, mislaid>>,
         lock' = lock \/ (lock \in {t, "nobody"} /\ lock' \in {t, "nobody"}),
         Fits(t, w)'
  PROVE  IndInv'
<1>1. Spares(t)
  BY DEF Spares
<1>2. RowInv'
  BY DEF IndInv, RowInv, Destination, Quiet
<1>3. /\ row' \in Rows /\ place' \in {"home", "idle", "gone"} /\ lock' \in Threads \cup {"nobody"}
      /\ early' \in SUBSET Attachers /\ mislaid' \in BOOLEAN
  BY DEF IndInv, TypeInv
<1> QED
  BY <1>1, <1>2, <1>3, ThreadKeeps

-----------------------------------------------------------------------------
\* The pane follows a move that its thread has begun, or stays.
LEMMA MovePaneKeeps ==
  ASSUME IndInv, NEW t \in Threads, MovePane(t)
  PROVE  IndInv'
<1>1. /\ work[t] \in Works /\ work[t].pc = "move" /\ lock = t
      /\ row.token = work[t].token /\ row.move # "none"
      /\ work[t].to = Destination(row.move) /\ work[t].to \in {"home", "idle"}
      /\ t = "gc" => row.input # "sent"
  BY DEF IndInv, TypeInv, Fits, MovePane, At, Locked, Destination
<1>2. place' \in {place, work[t].to} /\ UNCHANGED <<row, early, mislaid, server, crashes, lease>>
  BY DEF MovePane, Quiet
<1>3. RowInv' /\ Spares(t) /\ place' \in {"home", "idle", "gone"}
      /\ row' \in Rows /\ early' \in SUBSET Attachers /\ mislaid' \in BOOLEAN
  BY <1>1, <1>2 DEF IndInv, TypeInv, RowInv, Spares, Destination
<1>4. CASE Step(t, "finish") /\ place' = work[t].to /\ lock' = lock
  <2>1. PICK w \in Works : /\ Goes(t, w) /\ w.pc = "finish"
                           /\ w.to = work[t].to /\ w.token = work[t].token
    BY <1>4, StepGoes DEF IndInv, Steps
  <2>2. Fits(t, w)'
    BY <1>1, <1>2, <1>4, <2>1 DEF Fits, Destination
  <2> QED
    BY <1>1, <1>2, <1>3, <1>4, <2>1, <2>2, ThreadKeeps DEF Quiet
<1>5. CASE AfterMove(t, FALSE)
  <2>1. PICK w \in Works : /\ Goes(t, w) /\ w.pc \in {"working", "rest"} /\ lock' = "nobody"
    BY <1>5, AfterMoveGoes DEF IndInv
  <2>2. Fits(t, w)'
    BY <2>1 DEF Fits, Locked
  <2> QED
    BY <1>1, <1>2, <1>3, <2>1, <2>2, ThreadKeeps DEF Quiet
<1> QED
  BY <1>4, <1>5 DEF MovePane

\* The row says where the pane went.
LEMMA FinishMoveKeeps ==
  ASSUME IndInv, NEW t \in Threads, FinishMove(t)
  PROVE  IndInv'
<1>1. /\ work[t] \in Works /\ work[t].pc = "finish" /\ lock = t
      /\ row.token = work[t].token /\ row.move # "none"
      /\ place \in {"gone", work[t].to} /\ work[t].to \in {"home", "idle"}
      /\ row \in Rows /\ place \in {"home", "idle", "gone"}
      /\ row.input # "sent"
  BY DEF IndInv, TypeInv, Fits, RowInv, FinishMove, At, Locked, Destination
<1>2. /\ UNCHANGED <<place, early, mislaid, server, crashes, lease>>
      /\ row' = Finished(row, work[t].token, work[t].to)
  BY DEF FinishMove, Quiet
<1>3. row' \in Rows /\ row'.move = "none" /\ row'.token = 0 /\ row'.loc = work[t].to
      /\ row'.input # "sent"
  BY <1>1, <1>2 DEF Rows, Finished, Live
<1>4. RowInv' /\ Spares(t) /\ place' \in {"home", "idle", "gone"}
      /\ early' \in SUBSET Attachers /\ mislaid' \in BOOLEAN
  BY <1>1, <1>2, <1>3 DEF IndInv, TypeInv, RowInv, Spares
<1>5. PICK w \in Works : /\ Goes(t, w) /\ w.pc \in {"working", "deliver", "rest"}
                         /\ lock' = IF w.pc = "deliver" THEN lock ELSE "nobody"
  BY AfterMoveGoes DEF IndInv, FinishMove
<1>6. Fits(t, w)'
  BY <1>1, <1>3, <1>5 DEF Fits, Locked
<1> QED
  BY <1>1, <1>2, <1>3, <1>4, <1>5, <1>6, ThreadKeeps DEF Quiet

\* So a recovery keeps the row in step with the pane, from any copy of the move.
LEMMA RecoveryKeepsRow ==
  ASSUME IndInv, NEW token \in Nat \ {0}, NEW to \in {"home", "idle"},
         token = row.token => to = Destination(row.move),
         Recovered(token, to), UNCHANGED <<place, lease>>, early' \subseteq early
  PROVE  RowInv'
<1>1. /\ row' \in Rows /\ row'.input = row.input
      /\ row.token = token => row'.move = "none" /\ row'.token = 0
      /\ row.token # token =>
           /\ row'.move = row.move /\ row'.token = row.token /\ row'.loc = row.loc
           /\ row'.status \in {row.status, "lost"}
  BY RecoveredRow DEF IndInv
<1>2. (row.token = token => place \in {"gone", row'.loc} \/ mislaid') /\ (mislaid => mislaid')
  BY RecoveredRow DEF IndInv
<1>3. (row.move = "none" <=> row.token = 0)'
  BY <1>1 DEF IndInv, RowInv
<1>4. (place \in {"gone", row.loc} \/ mislaid \/ (row.move # "none" /\ place = Destination(row.move)))'
  <2>1. place' = place
    OBVIOUS
  <2>2. CASE row.token = token
    <3>1. place' \in {"gone", row'.loc} \/ mislaid'
      BY <1>2, <2>1, <2>2
    <3> QED
      BY <3>1
  <2>3. CASE row.token # token
    <3>1. place \in {"gone", row.loc} \/ mislaid \/ (row.move # "none" /\ place = Destination(row.move))
      BY DEF IndInv, RowInv
    <3>2. row'.loc = row.loc /\ row'.move = row.move
      BY <1>1, <2>3
    <3>3. CASE place \in {"gone", row.loc}
      BY <2>1, <3>2, <3>3
    <3>4. CASE mislaid
      BY <1>2, <3>4
    <3>5. CASE row.move # "none" /\ place = Destination(row.move)
      BY <2>1, <3>2, <3>5 DEF Destination
    <3> QED
      BY <3>1, <3>3, <3>4, <3>5
  <2> QED
    BY <2>2, <2>3
<1>5. (row.input = "sent" => row.move = "none" /\ row.status \notin {"idle", "parked"})'
  BY <1>1 DEF IndInv, RowInv
<1>6. (\A c \in early : lease[c] = "fresh")'
  BY DEF IndInv, RowInv
<1> QED
  BY <1>3, <1>4, <1>5, <1>6 DEF RowInv

\* A settled move leaves the row at rest where its pane is.
LEMMA SettleMoveKeeps ==
  ASSUME IndInv, NEW t \in Threads, SettleMove(t)
  PROVE  IndInv'
<1>1. /\ work[t] \in Works /\ work[t].pc = "settle" /\ lock = t
      /\ row.token = work[t].token /\ row.move # "none" /\ work[t].token \in Nat \ {0}
      /\ work[t].to = Destination(row.move) /\ work[t].to \in {"home", "idle"}
      /\ row.input # "sent"
  BY DEF IndInv, TypeInv, Fits, RowInv, SettleMove, At, Locked, Works, Rows
<1>2. /\ UNCHANGED <<place, lock, early, server, crashes, lease>>
      /\ Recovered(work[t].token, work[t].to)
  BY DEF SettleMove, Quiet
<1>3. /\ row' \in Rows /\ mislaid' \in BOOLEAN /\ row'.move = "none" /\ row'.token = 0
      /\ row'.input # "sent"
  BY <1>1, <1>2, RecoveredRow DEF IndInv
<1>4. RowInv'
  BY <1>1, <1>2, RecoveryKeepsRow
<1>5. /\ Spares(t) /\ place' \in {"home", "idle", "gone"}
      /\ early' \in SUBSET Attachers /\ lock' \in Threads \cup {"nobody"}
  BY <1>1, <1>2, <1>3 DEF IndInv, TypeInv, Spares
<1>6. PICK w \in Works : Goes(t, w) /\ w.pc = "begin"
  <2> DEFINE w == [work[t] EXCEPT !.pc = "begin", !.token = 0, !.to = "none"]
  <2>1. w \in Works /\ w.pc = "begin"
    BY <1>1 DEF Works, Steps
  <2>2. Goes(t, w)
    BY DEF SettleMove
  <2> HIDE DEF w
  <2> QED
    BY <2>1, <2>2
<1>7. Fits(t, w)'
  BY <1>1, <1>2, <1>3, <1>6 DEF Fits, Locked
<1> QED
  BY <1>2, <1>3, <1>4, <1>5, <1>6, <1>7, ThreadKeeps DEF Quiet

\* A move begins with a token of its own, from a row that no input holds.
LEMMA BeginKeeps ==
  ASSUME IndInv, NEW t \in Threads, NEW w \in Works, Goes(t, w), Quiet,
         NEW from \in {"idle", "parked"}, NEW move \in {"parking", "unparking"},
         CanBegin(from), BeginMove(move, FreshToken),
         lock \in {t, "nobody"}, lock' = t,
         w.pc = "move", w.token = FreshToken, w.to = Destination(move),
         t = "gc" => early = {},
         UNCHANGED <<place, early, mislaid>>
  PROVE  IndInv'
<1>1. /\ row \in Rows /\ row.move = "none" /\ row.status = from /\ row.input # "sent"
      /\ place \in {"gone", row.loc} \/ mislaid
  BY DEF IndInv, TypeInv, RowInv, CanBegin
<1>2. /\ row' \in Rows /\ row'.move = move /\ row'.token = FreshToken
      /\ row'.input = row.input /\ row'.loc = row.loc /\ row'.status = row.status
  BY <1>1, FreshTokenExists DEF BeginMove, Rows
<1>3. RowInv'
  BY <1>1, <1>2, FreshTokenExists DEF IndInv, RowInv, Quiet
<1>4. Spares(t)
  BY <1>2, FreshTokenExists DEF Spares
<1>5. Fits(t, w)'
  BY <1>1, <1>2 DEF Fits, Destination
<1> QED
  BY <1>2, <1>3, <1>4, <1>5, ThreadKeeps DEF IndInv, TypeInv

\* A send begins the move back.
LEMMA UnparkBeginKeeps ==
  ASSUME IndInv, NEW t \in Threads \ {"gc"}, UnparkBegin(t)
  PROVE  IndInv'
<1>1. /\ work[t] \in Works /\ work[t].pc = "begin" /\ lock = t
      /\ row.move = "none" /\ row \in Rows
  BY DEF IndInv, TypeInv, Fits, UnparkBegin, At, Locked
<1>2. UNCHANGED <<place, early, mislaid>> /\ Quiet
  BY DEF UnparkBegin
<1>3. CASE CanBegin("parked")
  <2> DEFINE w == [work[t] EXCEPT !.pc = "move", !.token = FreshToken, !.to = "home", !.was = row.loc]
  <2>1. w \in Works /\ w.pc = "move" /\ w.token = FreshToken /\ w.to = Destination("unparking")
    BY <1>1, FreshTokenExists DEF Works, Steps, Rows, Destination
  <2>2. Goes(t, w) /\ BeginMove("unparking", FreshToken) /\ lock' = lock
    BY <1>3 DEF UnparkBegin
  <2> HIDE DEF w
  <2>3. PICK v \in Works : Goes(t, v) /\ v.pc = "move" /\ v.token = FreshToken
                           /\ v.to = Destination("unparking")
    BY <2>1, <2>2
  <2> QED
    BY <1>1, <1>2, <1>3, <2>2, <2>3, BeginKeeps
<1>4. CASE ~CanBegin("parked")
  <2>1. PICK w \in Works : /\ Goes(t, w) /\ w.pc \in {"working", "deliver", "rest"}
                           /\ lock' = IF w.pc = "deliver" THEN lock ELSE "nobody"
    BY <1>4, AfterMoveGoes DEF IndInv, UnparkBegin
  <2>2. row' = row
    BY <1>4 DEF UnparkBegin
  <2>3. Fits(t, w)'
    BY <1>1, <2>1, <2>2 DEF Fits, Locked
  <2> QED
    BY <1>1, <1>2, <2>1, <2>2, <2>3, OnlyGoes
<1> QED
  BY <1>3, <1>4

-----------------------------------------------------------------------------
\* A thread that goes to rest, or to another free step, keeps the invariant.
LEMMA FreeKeeps ==
  ASSUME IndInv, NEW t \in Threads, NEW w \in Works, w.pc \in Free, Goes(t, w), Quiet,
         UNCHANGED <<row, place, early, mislaid>>,
         lock' = lock \/ (lock \in {t, "nobody"} /\ lock' \in {t, "nobody"})
  PROVE  IndInv'
<1>1. Fits(t, w)'
  BY DEF Fits, Free, Locked
<1> QED
  BY <1>1, OnlyGoes

\* A thread at rest.
LEMMA RestWorks == Rest \in Works /\ Rest.pc = "rest"
BY DEF Rest, Works, Steps

\* The steps of the GC thread: park, reap and timeout.
LEMMA ListKeeps ==
  ASSUME IndInv, NEW step \in {"parkLease", "reapCheck"}, ListCandidate(step)
  PROVE  IndInv'
<1>1. "gc" \in Threads /\ row \in Rows
  BY DEF Threads, IndInv, TypeInv
<1>2. PICK w \in Works : Goes("gc", w) /\ w.pc = step
  <2> DEFINE w == [Rest EXCEPT !.pc = step, !.was = row.loc]
  <2>1. w \in Works /\ w.pc = step
    BY <1>1 DEF Works, Steps, Rest, Rows
  <2>2. Goes("gc", w)
    BY DEF ListCandidate
  <2> HIDE DEF w
  <2> QED
    BY <2>1, <2>2
<1>3. UNCHANGED <<row, place, lock, mislaid>> /\ Quiet
      /\ early' = {c \in Attachers : lease[c] = "fresh"}
  BY DEF ListCandidate
<1>4. RowInv' /\ Spares("gc")
  BY <1>3 DEF IndInv, RowInv, Spares, Quiet, Destination
<1>5. Fits("gc", w)'
  BY <1>2 DEF Fits, Locked
<1> QED
  BY <1>1, <1>2, <1>3, <1>4, <1>5, ThreadKeeps DEF IndInv, TypeInv

\* The lease check, and the begin of a park under the lock.
LEMMA ParkKeeps ==
  ASSUME IndInv, ParkLease \/ ParkBegin
  PROVE  IndInv'
<1>1. "gc" \in Threads /\ work["gc"] \in Works /\ early \in SUBSET Attachers
      /\ Fits("gc", work["gc"]) /\ TypeInv
  BY DEF Threads, IndInv, TypeInv
<1>2. CASE ParkLease
  <2>1. UNCHANGED <<row, place, lock, early, mislaid>> /\ Quiet
    BY <1>2 DEF ParkLease
  <2>2. CASE AnyFresh
    BY <1>1, <1>2, <2>1, <2>2, RestWorks, FreeKeeps DEF ParkLease, Free
  <2>3. CASE ~AnyFresh
    <3>1. PICK w \in Works : Goes("gc", w) /\ w.pc = "parkBegin"
      BY <1>1, <1>2, <2>3, StepGoes DEF ParkLease, Steps
    <3>2. early = {}
      BY <1>1, <2>3 DEF AnyFresh, IndInv, RowInv
    <3>3. Fits("gc", w)'
      BY <2>1, <3>1, <3>2 DEF Fits, Locked
    <3> QED
      BY <1>1, <2>1, <3>1, <3>3, OnlyGoes
  <2> QED
    BY <2>2, <2>3
<1>3. CASE ParkBegin
  <2>1. UNCHANGED <<place, early, mislaid>> /\ Quiet /\ lock = "nobody" /\ early = {}
    BY <1>1, <1>3 DEF ParkBegin, At, Fits
  <2>2. CASE CanBegin("idle")
    <3> DEFINE w == [work["gc"] EXCEPT !.pc = "move", !.token = FreshToken, !.to = "idle"]
    <3>1. w \in Works /\ w.pc = "move" /\ w.token = FreshToken /\ w.to = Destination("parking")
      BY <1>1, FreshTokenExists DEF Works, Steps, Destination
    <3>2. Goes("gc", w) /\ BeginMove("parking", FreshToken) /\ lock' = "gc"
      BY <1>3, <2>2 DEF ParkBegin, Acquires
    <3> HIDE DEF w
    <3>3. PICK v \in Works : Goes("gc", v) /\ v.pc = "move" /\ v.token = FreshToken
                             /\ v.to = Destination("parking")
      BY <3>1, <3>2
    <3> QED
      BY <1>1, <2>1, <2>2, <3>2, <3>3, BeginKeeps
  <2>3. CASE ~CanBegin("idle")
    <3>1. Goes("gc", Rest) /\ UNCHANGED <<row, lock>>
      BY <1>3, <2>3 DEF ParkBegin
    <3> QED
      BY <1>1, <2>1, <3>1, RestWorks, FreeKeeps DEF Free
  <2> QED
    BY <2>2, <2>3
<1> QED
  BY <1>2, <1>3

\* The GC shuts down only a row it checked under the lock.
LEMMA CheckKeeps ==
  ASSUME IndInv, ReapCheck \/ TimeoutCheck
  PROVE  IndInv'
<1>1. "gc" \in Threads /\ row \in Rows /\ early \in SUBSET Attachers
  BY DEF Threads, IndInv, TypeInv
<1>2. ASSUME NEW why \in {"reaped", "timeout"},
             Goes("gc", [Rest EXCEPT !.pc = "shut", !.was = row.loc, !.to = why]),
             lock = "nobody", lock' = "gc", UNCHANGED <<row, place, early, mislaid>>, Quiet,
             row.move = "none", why = "reaped" => row.input # "sent" /\ early = {}
      PROVE  IndInv'
  <2> DEFINE w == [Rest EXCEPT !.pc = "shut", !.was = row.loc, !.to = why]
  <2>1. w \in Works /\ w.pc = "shut" /\ w.to = why
    BY <1>1 DEF Works, Steps, Rest, Rows
  <2>2. Goes("gc", w)
    BY <1>2
  <2> HIDE DEF w
  <2>3. PICK v \in Works : Goes("gc", v) /\ v.pc = "shut" /\ v.to = why
    BY <2>1, <2>2
  <2>4. Fits("gc", v)'
    BY <1>2, <2>3 DEF Fits, Locked
  <2> QED
    BY <1>1, <1>2, <2>3, <2>4, OnlyGoes
<1>3. CASE ReapCheck
  <2>1. UNCHANGED <<row, place, early, mislaid>> /\ Quiet /\ lock = "nobody"
    BY <1>3 DEF ReapCheck
  <2>2. CASE CanBegin("parked") /\ ~AnyFresh
    <3>1. Goes("gc", [Rest EXCEPT !.pc = "shut", !.was = row.loc, !.to = "reaped"]) /\ lock' = "gc"
      BY <1>3, <2>2 DEF ReapCheck, Acquires
    <3>2. row.move = "none" /\ row.input # "sent"
      BY <2>2 DEF CanBegin, IndInv, RowInv
    <3>3. early = {}
      BY <1>1, <2>2 DEF AnyFresh, IndInv, RowInv
    <3> QED
      BY <1>2, <2>1, <3>1, <3>2, <3>3
  <2>3. CASE ~(CanBegin("parked") /\ ~AnyFresh)
    <3>1. Goes("gc", Rest) /\ lock' = lock
      BY <1>3, <2>3 DEF ReapCheck
    <3> QED
      BY <1>1, <2>1, <3>1, RestWorks, FreeKeeps DEF Free
  <2> QED
    BY <2>2, <2>3
<1>4. CASE TimeoutCheck
  BY <1>2, <1>4 DEF TimeoutCheck, Acquires
<1> QED
  BY <1>3, <1>4

\* It closes the pane and ends the row while no move is in flight.
LEMMA ShutKeeps ==
  ASSUME IndInv, Shut \/ EndShut
  PROVE  IndInv'
<1>1. /\ "gc" \in Threads /\ work["gc"] \in Works /\ work["gc"].pc \in {"shut", "end"}
      /\ lock = "gc" /\ row.move = "none" /\ row.token = 0
      /\ row \in Rows /\ place \in {"home", "idle", "gone"} /\ early \in SUBSET Attachers
  BY DEF IndInv, TypeInv, Fits, RowInv, Shut, EndShut, At, Locked, Threads
<1>2. mislaid \in BOOLEAN /\ TypeInv
  BY DEF IndInv, TypeInv
<1>3. CASE Shut
  <2>1. place' \in {place, "gone"} /\ UNCHANGED <<row, lock, early, mislaid>> /\ Quiet
    BY <1>3 DEF Shut
  <2>2. PICK w \in Works : Goes("gc", w) /\ w.pc = "end"
    BY <1>2, <1>1, <1>3, StepGoes DEF Shut, Steps
  <2>3. RowInv' /\ Spares("gc")
    BY <1>1, <2>1 DEF IndInv, RowInv, Spares, Quiet
  <2>4. Fits("gc", w)'
    BY <1>1, <2>1, <2>2 DEF Fits, Locked
  <2> QED
    BY <1>1, <1>2, <2>1, <2>2, <2>3, <2>4, ThreadKeeps
<1>4. CASE EndShut
  <2>1. /\ Goes("gc", Rest) /\ lock' = "nobody" /\ Quiet
        /\ UNCHANGED <<place, early, mislaid>>
    BY <1>4 DEF EndShut, Releases
  <2>2. /\ row' \in Rows /\ row'.move = "none" /\ row'.token = 0 /\ row'.loc = row.loc
        /\ row'.input = row.input /\ row'.status \in {row.status, "ended"}
    <3>1. row' \in { [row EXCEPT !.status = "ended"], row,
                     [row EXCEPT !.status = "ended", !.move = "none", !.token = 0] }
      BY <1>4 DEF EndShut
    <3> QED
      BY <1>1, <3>1 DEF Rows
  <2>3. RowInv' /\ Spares("gc")
    BY <1>1, <2>1, <2>2 DEF IndInv, RowInv, Spares, Quiet
  <2>4. Fits("gc", Rest)'
    BY RestWorks DEF Fits, Locked
  <2> QED
    BY <1>1, <1>2, <2>1, <2>2, <2>3, <2>4, RestWorks, ThreadKeeps
<1> QED
  BY <1>3, <1>4

\* A write that leaves the move alone and delivers no input disturbs nobody.
LEMMA WriteKeeps ==
  ASSUME IndInv, NEW t \in Threads, NEW w \in Works, w.pc \in Free, Goes(t, w), Quiet,
         UNCHANGED <<place, early, mislaid>>, lock' = lock \/ (lock = t /\ lock' = "nobody"),
         row' \in Rows, row'.move = row.move, row'.token = row.token, row'.loc = row.loc,
         row'.input = "sent" => row.input = "sent" /\ row'.status \notin {"idle", "parked"}
  PROVE  IndInv'
<1>1. Fits(t, w)'
  BY DEF Fits, Free, Locked
<1>2. Spares(t)
  BY DEF Spares
<1>3. RowInv'
  BY DEF IndInv, RowInv, Quiet, Destination
<1>4. /\ place' \in {"home", "idle", "gone"} /\ lock' \in Threads \cup {"nobody"}
      /\ early' \in SUBSET Attachers /\ mislaid' \in BOOLEAN
  BY DEF IndInv, TypeInv
<1> QED
  BY <1>1, <1>2, <1>3, <1>4, ThreadKeeps

\* The steps of the reconciler.
LEMMA ReconKeeps ==
  ASSUME IndInv,
         ReconSnapshot \/ ReconLost \/ ReconListMoves \/ ReconRecover \/ ReconListActive
           \/ ReconMarkLost
  PROVE  IndInv'
<1>1. /\ "gc" \in Threads /\ work["gc"] \in Works /\ row \in Rows
      /\ place \in {"home", "idle", "gone"} /\ Fits("gc", work["gc"]) /\ TypeInv
  BY DEF Threads, IndInv, TypeInv
<1>3. CASE ReconSnapshot
  <2>1. PICK w \in Works : w.pc = "recon" /\ Goes("gc", w)
    <3> DEFINE w == [Rest EXCEPT !.pc = "recon", !.was = place]
    <3>1. w \in Works /\ w.pc = "recon"
      BY <1>1 DEF Works, Steps, Rest
    <3>2. Goes("gc", w)
      BY <1>3 DEF ReconSnapshot
    <3> HIDE DEF w
    <3> QED
      BY <3>1, <3>2
  <2> QED
    BY <1>1, <1>3, <2>1, FreeKeeps DEF ReconSnapshot, Free
<1>4. CASE ReconLost
  <2>1. PICK w \in Works : w.pc = "inMove" /\ Goes("gc", w)
    BY <1>1, <1>4, StepGoes DEF ReconLost, Steps
  <2>2. UNCHANGED <<place, lock, early, mislaid>> /\ Quiet /\ row' \in {row, [row EXCEPT !.status = "ended"]}
    BY <1>4 DEF ReconLost
  <2>3. /\ row' \in Rows /\ row'.move = row.move /\ row'.token = row.token /\ row'.loc = row.loc
        /\ row'.input = row.input /\ row'.status \in {row.status, "ended"}
    BY <1>1, <2>2 DEF Rows
  <2>4. row'.input = "sent" => row.input = "sent" /\ row'.status \notin {"idle", "parked"}
    BY <2>3 DEF IndInv, RowInv
  <2> QED
    BY <1>1, <2>1, <2>2, <2>3, <2>4, WriteKeeps DEF Free
<1>5. CASE ReconListMoves
  <2>1. UNCHANGED <<row, place, lock, early, mislaid>> /\ Quiet
    BY <1>5 DEF ReconListMoves
  <2>2. CASE row.move # "none" /\ row.status \notin {"ended", "lost"}
    <3>1. PICK w \in Works : /\ Goes("gc", w) /\ w.pc = "recover" /\ w.token = row.token
                             /\ w.to = Destination(row.move)
      <4> DEFINE w == [work["gc"] EXCEPT !.pc = "recover", !.token = row.token,
                                        !.to = Destination(row.move)]
      <4>1. w \in Works /\ w.pc = "recover" /\ w.token = row.token /\ w.to = Destination(row.move)
        BY <1>1 DEF Works, Rows, Steps, Destination
      <4>2. Goes("gc", w)
        BY <1>5, <2>2 DEF ReconListMoves
      <4> HIDE DEF w
      <4> QED
        BY <4>1, <4>2
    <3>2. row.token # 0
      BY <2>2 DEF IndInv, RowInv
    <3>3. Fits("gc", w)'
      BY <2>1, <3>1, <3>2 DEF Fits, Locked, Destination
    <3> QED
      BY <1>1, <2>1, <3>1, <3>3, OnlyGoes
  <2>3. CASE ~(row.move # "none" /\ row.status \notin {"ended", "lost"})
    <3>1. PICK w \in Works : Goes("gc", w) /\ w.pc = "listActive"
      BY <1>1, <1>5, <2>3, StepGoes DEF ReconListMoves, Steps
    <3> QED
      BY <1>1, <2>1, <3>1, FreeKeeps DEF Free
  <2> QED
    BY <2>2, <2>3
<1>6. CASE ReconRecover
  <2>1. /\ Recovered(work["gc"].token, work["gc"].to) /\ lock = "nobody"
        /\ UNCHANGED <<place, lock, early>> /\ Quiet
    BY <1>6 DEF ReconRecover
  <2>2. /\ work["gc"].token \in Nat \ {0} /\ work["gc"].to \in {"home", "idle"}
        /\ work["gc"].token = row.token => work["gc"].to = Destination(row.move)
    BY <1>1, <1>6 DEF Fits, ReconRecover, At, Works
  <2>3. RowInv'
    BY <2>1, <2>2, RecoveryKeepsRow DEF Quiet
  <2>4. row' \in Rows /\ mislaid' \in BOOLEAN
    BY <2>1, <2>2, RecoveredRow DEF IndInv
  <2>8. row'.token = 0 \/ (row'.token = row.token /\ row'.move = row.move)
    BY <2>1, <2>2, RecoveredRow DEF IndInv
  <2>5. PICK w \in Works : Goes("gc", w) /\ w.pc = "listActive"
    <3> DEFINE w == [Rest EXCEPT !.pc = "listActive", !.was = work["gc"].was]
    <3>1. w \in Works /\ w.pc = "listActive"
      BY <1>1 DEF Works, Steps, Rest
    <3>2. Goes("gc", w)
      BY <1>6 DEF ReconRecover
    <3> HIDE DEF w
    <3> QED
      BY <3>1, <3>2
  <2>6. Fits("gc", w)'
    BY <2>5 DEF Fits, Locked
  <2>7. Spares("gc")
    BY <2>1, <2>8 DEF Spares
  <2> QED
    BY <1>1, <2>1, <2>3, <2>4, <2>5, <2>6, <2>7, ThreadKeeps DEF IndInv, TypeInv
<1>7. CASE ReconListActive
  <2>1. PICK w \in Works : Goes("gc", w) /\ w.pc \in {"markLost", "rest"}
    <3> DEFINE w == [Rest EXCEPT !.pc = "markLost"]
    <3>1. w \in Works /\ w.pc = "markLost"
      BY DEF Works, Steps, Rest
    <3>2. Goes("gc", w) \/ Goes("gc", Rest)
      BY <1>7 DEF ReconListActive
    <3> HIDE DEF w
    <3> QED
      BY <3>1, <3>2, RestWorks
  <2> QED
    BY <1>1, <1>7, <2>1, FreeKeeps DEF ReconListActive, Free
<1>8. CASE ReconMarkLost
  <2>1. /\ Goes("gc", Rest) /\ UNCHANGED <<place, lock, early, mislaid>> /\ Quiet
        /\ row' = [row EXCEPT !.status = "lost"]
    BY <1>8 DEF ReconMarkLost
  <2>2. /\ row' \in Rows /\ row'.move = row.move /\ row'.token = row.token /\ row'.loc = row.loc
        /\ row'.input = row.input /\ row'.status = "lost"
    BY <1>1, <2>1 DEF Rows
  <2> QED
    BY <1>1, <2>1, <2>2, RestWorks, WriteKeeps DEF Free
<1> QED
  BY <1>3, <1>4, <1>5, <1>6, <1>7, <1>8

-----------------------------------------------------------------------------
\* Un-parking starts from the row as it is under the lock.
LEMMA UnparkGoes ==
  ASSUME IndInv, NEW t \in Threads \ {"gc"}, Unpark(t), UNCHANGED <<row, place, early, mislaid>>,
         Quiet, lock = "nobody", lock' = t
  PROVE  IndInv'
<1>1. work[t] \in Works /\ row \in Rows /\ TypeInv
  BY DEF IndInv, TypeInv
<1>2. CASE row.move = "none"
  <2>1. Step(t, "begin")
    BY <1>2 DEF Unpark, Step
  <2>2. PICK w \in Works : Goes(t, w) /\ w.pc = "begin"
    BY <1>1, <2>1, StepGoes DEF Steps
  <2>3. Fits(t, w)'
    BY <1>2, <2>2 DEF Fits, Locked
  <2> QED
    BY <2>2, <2>3, OnlyGoes
<1>3. CASE row.move # "none"
  <2> DEFINE v == [work[t] EXCEPT !.pc = "settle", !.token = row.token, !.to = Destination(row.move)]
  <2>1. v \in Works /\ v.pc = "settle" /\ v.token = row.token /\ v.to = Destination(row.move)
    BY <1>1 DEF Works, Rows, Steps, Destination
  <2>2. Goes(t, v)
    BY <1>3 DEF Unpark
  <2> HIDE DEF v
  <2>3. PICK w \in Works : /\ Goes(t, w) /\ w.pc = "settle" /\ w.token = row.token
                           /\ w.to = Destination(row.move)
    BY <2>1, <2>2
  <2>4. row.token # 0
    BY <1>3 DEF IndInv, RowInv
  <2>5. Fits(t, w)'
    BY <2>3, <2>4 DEF Fits, Locked, Destination
  <2> QED
    BY <2>3, <2>5, OnlyGoes
<1> QED
  BY <1>2, <1>3

\* The steps of `agent send`.
LEMMA SendKeeps ==
  ASSUME IndInv, NEW s \in Senders, SendLock(s) \/ SendStep(s)
  PROVE  IndInv'
<1>1. s \in Threads \ {"gc"} /\ row \in Rows /\ TypeInv /\ Fits(s, work[s])
  BY MoverAssumption DEF Threads, IndInv, TypeInv
<1>2. CASE SendLock(s)
  <2>1. UNCHANGED <<row, place, early, mislaid>> /\ Quiet /\ lock = "nobody" /\ lock' = s
    BY <1>2 DEF SendLock, Acquires
  <2>2. CASE row.status = "parked" \/ row.move # "none"
    BY <1>1, <1>2, <2>1, <2>2, UnparkGoes DEF SendLock
  <2>3. CASE ~(row.status = "parked" \/ row.move # "none")
    <3>1. PICK w \in Works : Goes(s, w) /\ w.pc = "deliver"
      <4> DEFINE w == [Rest EXCEPT !.pc = "deliver"]
      <4>1. w \in Works /\ w.pc = "deliver"
        BY DEF Works, Steps, Rest
      <4>2. Goes(s, w)
        BY <1>2, <2>3 DEF SendLock
      <4> HIDE DEF w
      <4> QED
        BY <4>1, <4>2
    <3>2. Fits(s, w)'
      BY <1>1, <2>1, <2>3, <3>1 DEF Fits, Locked
    <3> QED
      BY <1>1, <2>1, <3>1, <3>2, OnlyGoes
  <2> QED
    BY <2>2, <2>3
<1>3. CASE SendDeliver(s)
  <2>1. /\ lock = s /\ row.move = "none" /\ row.token = 0
        /\ UNCHANGED <<place, early, mislaid>> /\ Quiet
    BY <1>1, <1>3 DEF SendDeliver, At, Fits, Locked, IndInv, RowInv
  <2>2. CASE row.status \in {"ended", "lost"}
    BY <1>1, <1>3, <2>1, <2>2, RestWorks, FreeKeeps DEF SendDeliver, Releases, Free
  <2>3. CASE row.status \notin {"ended", "lost"}
    <3>1. PICK w \in Works : Goes(s, w) /\ w.pc = "prompt"
      BY <1>1, <1>3, <2>3, StepGoes DEF SendDeliver, Steps
    <3>2. /\ row' \in Rows /\ row'.move = "none" /\ row'.token = 0 /\ row'.loc = row.loc
          /\ row'.status = "working" /\ lock' = lock
      BY <1>1, <1>3, <2>1, <2>3, FreshTurnExists DEF SendDeliver, OpenTurn, Rows, Live
    <3>3. RowInv'
      BY <2>1, <3>2 DEF IndInv, RowInv, Quiet
    <3>4. Fits(s, w)'
      BY <1>1, <2>1, <3>1, <3>2 DEF Fits, Locked
    <3>5. Spares(s)
      BY <2>1, <3>2 DEF Spares
    <3> QED
      BY <1>1, <2>1, <3>1, <3>2, <3>3, <3>4, <3>5, ThreadKeeps DEF IndInv, TypeInv
  <2> QED
    BY <2>2, <2>3
<1>4. CASE SendPrompt(s)
  BY <1>1, <1>4, RestWorks, FreeKeeps DEF SendPrompt, Releases, Free
<1> QED
  BY <1>1, <1>2, <1>3, <1>4, SettleMoveKeeps, UnparkBeginKeeps, MovePaneKeeps, FinishMoveKeeps
  DEF SendStep

\* The steps of `agent kill`: the pane and the row end under the lock.
LEMMA KillKeeps ==
  ASSUME IndInv, NEW k \in Killers, KillRead(k) \/ KillClose(k) \/ KillEnd(k)
  PROVE  IndInv'
<1>1. k \in Threads /\ k # "gc" /\ row \in Rows /\ TypeInv /\ Fits(k, work[k])
      /\ place \in {"home", "idle", "gone"}
  BY MoverAssumption DEF Threads, IndInv, TypeInv
<1>2. CASE KillRead(k)
  <2>1. PICK w \in Works : Goes(k, w) /\ w.pc = "kill"
    BY <1>1, <1>2, StepGoes DEF KillRead, Steps
  <2> QED
    BY <1>1, <1>2, <2>1, FreeKeeps DEF KillRead, Free
<1>3. CASE KillClose(k)
  <2>1. /\ lock = "nobody" /\ lock' = k /\ UNCHANGED <<row, early, mislaid>> /\ Quiet
        /\ place' \in {place, "gone"}
    BY <1>3 DEF KillClose, Acquires
  <2>2. PICK w \in Works : Goes(k, w) /\ w.pc = "killed"
    BY <1>1, <1>3, StepGoes DEF KillClose, Steps
  <2>3. RowInv' /\ Spares(k)
    BY <1>1, <2>1 DEF IndInv, RowInv, Spares, Quiet, Destination
  <2>4. Fits(k, w)'
    BY <1>1, <2>1, <2>2 DEF Fits, Locked
  <2> QED
    BY <1>1, <2>1, <2>2, <2>3, <2>4, ThreadKeeps DEF IndInv, TypeInv
<1>4. CASE KillEnd(k)
  <2>1. /\ Goes(k, Rest) /\ lock = k /\ lock' = "nobody" /\ UNCHANGED <<place, early, mislaid>>
        /\ Quiet /\ row' = [row EXCEPT !.status = "ended"]
    BY <1>4 DEF KillEnd, Releases
  <2>2. /\ row' \in Rows /\ row'.move = row.move /\ row'.token = row.token /\ row'.loc = row.loc
        /\ row'.input = row.input /\ row'.status = "ended"
    BY <1>1, <2>1 DEF Rows
  <2> QED
    BY <1>1, <2>1, <2>2, RestWorks, WriteKeeps DEF Free
<1> QED
  BY <1>2, <1>3, <1>4

\* The steps of the completion monitor.
LEMMA MonitorKeeps ==
  ASSUME IndInv, MonitorRead \/ MonitorStep
  PROVE  IndInv'
<1>1. /\ "monitor" \in Threads \ {"gc"} /\ row \in Rows /\ TypeInv /\ work["monitor"] \in Works
  BY DEF Threads, IndInv, TypeInv
<1>2. CASE MonitorRead
  <2>1. PICK w \in Works : Goes("monitor", w) /\ w.pc = "look"
    <3> DEFINE w == [Rest EXCEPT !.pc = "look", !.status = row.status]
    <3>1. row.status \in Live
      BY <1>2 DEF MonitorRead
    <3>2. w \in Works /\ w.pc = "look"
      BY <3>1 DEF Works, Steps, Rest
    <3>3. Goes("monitor", w)
      BY <1>2 DEF MonitorRead
    <3> HIDE DEF w
    <3> QED
      BY <3>2, <3>3
  <2> QED
    BY <1>1, <1>2, <2>1, FreeKeeps DEF MonitorRead, Free
<1>3. CASE MonitorLook
  <2> DEFINE n == IF row.input = "none" THEN 0 ELSE row.turn
             v(pc) == [work["monitor"] EXCEPT !.pc = pc, !.turn = n]
  <2>1. \A pc \in Steps : v(pc) \in Works /\ v(pc).pc = pc
    BY <1>1 DEF Works, Rows
  <2>2. \/ \E pc \in {"resume", "working", "complete"} : Goes("monitor", v(pc))
        \/ Goes("monitor", Rest)
    BY <1>3 DEF MonitorLook
  <2> HIDE DEF v
  <2>3. PICK w \in Works : Goes("monitor", w) /\ w.pc \in {"resume", "working", "complete", "rest"}
    BY <2>1, <2>2, RestWorks DEF Steps
  <2> QED
    BY <1>1, <1>3, <2>3, FreeKeeps DEF MonitorLook, Free
<1>4. CASE MonitorBlocked
  <2>1. /\ Goes("monitor", Rest) /\ UNCHANGED <<place, lock, early, mislaid>> /\ Quiet
        /\ row' = [row EXCEPT !.status = "blocked"]
    BY <1>4 DEF MonitorBlocked
  <2>2. /\ row' \in Rows /\ row'.move = row.move /\ row'.token = row.token /\ row'.loc = row.loc
        /\ row'.input = row.input /\ row'.status = "blocked"
    BY <1>1, <2>1 DEF Rows, Live
  <2> QED
    BY <1>1, <2>1, <2>2, RestWorks, WriteKeeps DEF Free
<1>5. CASE MonitorResume
  <2>1. UNCHANGED <<row, place, early, mislaid>> /\ Quiet /\ lock = "nobody"
    BY <1>5 DEF MonitorResume
  <2>2. CASE row.status = "parked" \/ row.move # "none"
    BY <1>1, <1>5, <2>1, <2>2, UnparkGoes DEF MonitorResume, Acquires
  <2>3. CASE ~(row.status = "parked" \/ row.move # "none")
    <3>1. PICK w \in Works : Goes("monitor", w) /\ w.pc = "working"
      BY <1>1, <1>5, <2>3, StepGoes DEF MonitorResume, Steps
    <3>2. lock' = lock
      BY <1>5, <2>3 DEF MonitorResume
    <3> QED
      BY <1>1, <2>1, <3>1, <3>2, FreeKeeps DEF Free
  <2> QED
    BY <2>2, <2>3
<1>6. CASE MonitorWorking \/ MonitorComplete
  <2>1. /\ Goes("monitor", Rest) /\ UNCHANGED <<place, lock, early, mislaid>> /\ Quiet
    BY <1>6 DEF MonitorWorking, MonitorComplete
  <2>2. \/ row' \in {row, [row EXCEPT !.status = "working"]}
        \/ OpenTurn("typed")
        \/ row' = [row EXCEPT !.input = "none", !.status = IF @ = "working" THEN "idle" ELSE @]
    BY <1>6 DEF MonitorWorking, MonitorComplete
  <2>3. /\ row' \in Rows /\ row'.move = row.move /\ row'.token = row.token /\ row'.loc = row.loc
        /\ row'.input = "sent" => row.input = "sent" /\ row'.status \in {row.status, "working"}
    BY <1>1, <2>2, FreshTurnExists DEF Rows, Live, OpenTurn
  <2>4. row'.input = "sent" => row.input = "sent" /\ row'.status \notin {"idle", "parked"}
    BY <2>3 DEF IndInv, RowInv
  <2> QED
    BY <1>1, <2>1, <2>3, <2>4, RestWorks, WriteKeeps DEF Free
<1> QED
  BY <1>1, <1>2, <1>3, <1>4, <1>5, <1>6, SettleMoveKeeps, UnparkBeginKeeps, MovePaneKeeps,
     FinishMoveKeeps DEF MonitorStep

-----------------------------------------------------------------------------
\* Clients come and go; a lease that ends is no longer one the GC has to honour.
LEMMA LeaseKeeps ==
  ASSUME IndInv, NEW c \in Attachers,
         PrepareAttach(c) \/ HeartbeatLease(c) \/ ReleaseLease(c) \/ LeaseLapses(c) \/ ExpireLease(c)
  PROVE  IndInv'
<1>1. PICK s \in {"none", "fresh", "lapsed"} : Lease(c, s)
  BY DEF PrepareAttach, HeartbeatLease, ReleaseLease, LeaseLapses, ExpireLease
<1>2. /\ lease' = [lease EXCEPT ![c] = s] /\ early' \subseteq early
      /\ s # "fresh" => c \notin early'
      /\ UNCHANGED <<row, place, lock, work, server, mislaid>>
  BY <1>1 DEF Lease
<1>3. TypeInv'
  BY <1>2 DEF IndInv, TypeInv
<1>4. RowInv'
  BY <1>2 DEF IndInv, TypeInv, RowInv, Destination
<1>5. ASSUME NEW t \in Threads PROVE Fits(t, work[t])'
  BY <1>2 DEF IndInv, Fits, Destination
<1> QED
  BY <1>3, <1>4, <1>5 DEF IndInv

\* The pane may close at any time.
LEMMA DiesKeeps == IndInv /\ PaneDies => IndInv'
<1> SUFFICES ASSUME IndInv, PaneDies PROVE IndInv'
  OBVIOUS
<1>1. place' = "gone" /\ UNCHANGED <<row, lock, work, early, mislaid, server, lease>>
  BY DEF PaneDies, Quiet
<1>2. TypeInv' /\ RowInv'
  BY <1>1 DEF IndInv, TypeInv, RowInv
<1>3. ASSUME NEW t \in Threads PROVE Fits(t, work[t])'
  BY <1>1 DEF IndInv, Fits, Destination
<1> QED
  BY <1>2, <1>3 DEF IndInv

\* A thread at rest relies on nothing, so a server without work fits any row.
LEMMA RestFits ==
  ASSUME NEW t \in Threads, work'[t] = Rest
  PROVE  Fits(t, work[t])'
BY DEF Fits, Locked, Rest

\* A crash leaves the pane where it was or where its move was going.
LEMMA CrashKeeps == IndInv /\ Crash => IndInv'
<1> SUFFICES ASSUME IndInv, Crash PROVE IndInv'
  OBVIOUS
<1>1. /\ lock' = "nobody" /\ work' = [t \in Threads |-> Rest] /\ server' = "down" /\ early' = {}
      /\ UNCHANGED <<row, lease, mislaid>>
  BY DEF Crash
<1>2. \/ place' = place
      \/ row.move # "none" /\ place' = Destination(row.move)
  <2>1. ASSUME NEW t \in Threads, work[t].pc = "move"
        PROVE  row.move # "none" /\ work[t].to = Destination(row.move)
    BY <2>1 DEF IndInv, Fits
  <2> QED
    BY <2>1 DEF Crash
<1>3. TypeInv'
  BY <1>1, <1>2, RestWorks DEF IndInv, TypeInv, Destination
<1>4. RowInv'
  BY <1>1, <1>2 DEF IndInv, RowInv, Destination
<1>5. ASSUME NEW t \in Threads PROVE Fits(t, work[t])'
  BY <1>1, RestFits
<1> QED
  BY <1>3, <1>4, <1>5 DEF IndInv

\* The restart settles the move it finds, or marks the agent lost.
LEMMA RestartKeeps == IndInv /\ Restart /\ (\A t \in Threads : work[t] = Rest) => IndInv'
<1> SUFFICES ASSUME IndInv, Restart, \A t \in Threads : work[t] = Rest PROVE IndInv'
  OBVIOUS
<1>1. server' = "up" /\ UNCHANGED <<place, lock, work, lease, early>>
  BY DEF Restart
<1>2. row \in Rows /\ mislaid \in BOOLEAN
  BY DEF IndInv, TypeInv
<1>3. row' \in Rows /\ mislaid' \in BOOLEAN /\ RowInv'
  <2>1. CASE UNCHANGED <<row, mislaid>>
    BY <1>1, <1>2, <2>1 DEF IndInv, RowInv, Destination
  <2>2. CASE row.move # "none" /\ Recovered(row.token, Destination(row.move))
    <3>1. row.token \in Nat \ {0} /\ Destination(row.move) \in {"home", "idle"}
      BY <1>2, <2>2 DEF IndInv, RowInv, Rows, Destination
    <3>2. row' \in Rows /\ mislaid' \in BOOLEAN
      BY <2>2, <3>1, RecoveredRow DEF IndInv
    <3> QED
      BY <1>1, <2>2, <3>1, <3>2, RecoveryKeepsRow
  <2>3. CASE row' = [row EXCEPT !.status = "lost"] /\ UNCHANGED mislaid
    <3>1. /\ row' \in Rows /\ row'.move = row.move /\ row'.token = row.token /\ row'.loc = row.loc
          /\ row'.input = row.input /\ row'.status = "lost"
      BY <1>2, <2>3 DEF Rows
    <3> QED
      BY <1>1, <1>2, <2>3, <3>1 DEF IndInv, RowInv, Destination
  <2> QED
    BY <2>1, <2>2, <2>3 DEF Restart
<1>4. TypeInv'
  BY <1>1, <1>3 DEF IndInv, TypeInv
<1>5. ASSUME NEW t \in Threads PROVE Fits(t, work[t])'
  BY <1>1, RestFits
<1> QED
  BY <1>3, <1>4, <1>5 DEF IndInv

\* While the server is down no thread is in the middle of anything.
DownRests == server # "up" => \A t \in Threads : work[t] = Rest

\* A thread takes a step only while the server is up.
ThreadStep ==
  \/ ParkPick \/ ReapPick \/ TimeoutCheck \/ ReconSnapshot \/ GcStep
  \/ MonitorRead \/ MonitorStep
  \/ \E s \in Senders : SendLock(s) \/ SendStep(s)
  \/ \E k \in Killers : KillRead(k) \/ KillClose(k) \/ KillEnd(k)

\* Threads run in a live server only,
LEMMA ThreadsNeedServer == ThreadStep => server = "up" /\ server' = "up"
<1> USE DEF At, Quiet
<1>1. ASSUME NEW t, SettleMove(t) \/ UnparkBegin(t) \/ MovePane(t) \/ FinishMove(t)
      PROVE  server = "up" /\ server' = "up"
  BY <1>1 DEF SettleMove, UnparkBegin, MovePane, FinishMove
<1>2. ParkPick \/ ReapPick \/ TimeoutCheck \/ ReconSnapshot => server = "up" /\ server' = "up"
  BY DEF ParkPick, ReapPick, TimeoutCheck, ReconSnapshot, ListCandidate
<1>3. GcStep => server = "up" /\ server' = "up"
  BY <1>1 DEF GcStep, ParkLease, ParkBegin, ReapCheck, Shut, EndShut, ReconLost, ReconListMoves,
              ReconRecover, ReconListActive, ReconMarkLost
<1>4. MonitorRead \/ MonitorStep => server = "up" /\ server' = "up"
  BY <1>1 DEF MonitorRead, MonitorStep, MonitorLook, MonitorResume, MonitorWorking, MonitorBlocked,
              MonitorComplete
<1>5. ASSUME NEW s \in Senders, SendLock(s) \/ SendStep(s) PROVE server = "up" /\ server' = "up"
  BY <1>1, <1>5 DEF SendLock, SendStep, SendDeliver, SendPrompt
<1>6. ASSUME NEW k \in Killers, KillRead(k) \/ KillClose(k) \/ KillEnd(k)
      PROVE  server = "up" /\ server' = "up"
  BY <1>6 DEF KillRead, KillClose, KillEnd
<1> QED
  BY <1>2, <1>3, <1>4, <1>5, <1>6 DEF ThreadStep

\* so they rest while it is down.
LEMMA DownKeeps == DownRests /\ [Next]_vars => DownRests'
<1> SUFFICES ASSUME DownRests, [Next]_vars PROVE DownRests'
  OBVIOUS
<1>1. CASE ThreadStep
  BY <1>1, ThreadsNeedServer DEF DownRests
<1>2. ASSUME NEW c \in Attachers,
             PrepareAttach(c) \/ HeartbeatLease(c) \/ ReleaseLease(c) \/ LeaseLapses(c) \/ ExpireLease(c)
      PROVE  DownRests'
  BY <1>2 DEF DownRests, PrepareAttach, HeartbeatLease, ReleaseLease, LeaseLapses, ExpireLease, Lease
<1>3. CASE PaneDies \/ Crash \/ Restart \/ UNCHANGED vars
  BY <1>3 DEF DownRests, PaneDies, Crash, Restart, vars, Quiet
<1> QED
  BY <1>1, <1>2, <1>3 DEF Next, ThreadStep

-----------------------------------------------------------------------------
\* The invariant holds at the start,
LEMMA InitInv == Init => IndInv /\ DownRests
<1> SUFFICES ASSUME Init PROVE IndInv /\ DownRests
  OBVIOUS
<1>1. TypeInv
  BY RestWorks DEF Init, TypeInv, Rows, Live
<1>2. RowInv
  BY DEF Init, RowInv
<1>3. ASSUME NEW t \in Threads PROVE Fits(t, work[t]) /\ work[t] = Rest
  BY DEF Init, Fits, Locked, Rest
<1> QED
  BY <1>1, <1>2, <1>3 DEF IndInv, DownRests

\* and every step keeps it.
LEMMA NextInv == IndInv /\ DownRests /\ [Next]_vars => IndInv'
<1> SUFFICES ASSUME IndInv, DownRests, [Next]_vars PROVE IndInv'
  OBVIOUS
<1>1. CASE ParkPick \/ ReapPick
  BY <1>1, ListKeeps DEF ParkPick, ReapPick
<1>2. CASE TimeoutCheck
  BY <1>2, CheckKeeps
<1>3. CASE ReconSnapshot
  BY <1>3, ReconKeeps
<1>4. CASE GcStep
  <2>1. "gc" \in Threads
    BY DEF Threads
  <2> QED
    BY <1>4, <2>1, MovePaneKeeps, FinishMoveKeeps, ParkKeeps, CheckKeeps, ShutKeeps, ReconKeeps
    DEF GcStep
<1>5. CASE MonitorRead \/ MonitorStep
  BY <1>5, MonitorKeeps
<1>6. ASSUME NEW s \in Senders, SendLock(s) \/ SendStep(s) PROVE IndInv'
  BY <1>6, SendKeeps
<1>7. ASSUME NEW k \in Killers, KillRead(k) \/ KillClose(k) \/ KillEnd(k) PROVE IndInv'
  BY <1>7, KillKeeps
<1>8. ASSUME NEW c \in Attachers,
             PrepareAttach(c) \/ HeartbeatLease(c) \/ ReleaseLease(c) \/ LeaseLapses(c) \/ ExpireLease(c)
      PROVE  IndInv'
  BY <1>8, LeaseKeeps
<1>9. CASE PaneDies \/ Crash
  BY <1>9, DiesKeeps, CrashKeeps
<1>10. CASE Restart
  BY <1>10, RestartKeeps DEF DownRests, Restart
<1>11. CASE UNCHANGED vars
  <2>1. TypeInv' /\ RowInv'
    BY <1>11 DEF vars, IndInv, TypeInv, RowInv, Destination
  <2>2. ASSUME NEW t \in Threads PROVE Fits(t, work[t])'
    BY <1>11 DEF vars, IndInv, Fits, Destination
  <2> QED
    BY <2>1, <2>2 DEF IndInv
<1> QED
  BY <1>1, <1>2, <1>3, <1>4, <1>5, <1>6, <1>7, <1>8, <1>9, <1>10, <1>11 DEF Next

\* In every state the threads, the row and the pane fit together: who is at a
\* locked step has the lock, and the move in the row is its own.
THEOREM MovesFit == Spec => []IndInv
<1>1. Init => IndInv /\ DownRests
  BY InitInv
<1>2. IndInv /\ DownRests /\ [Next]_vars => (IndInv /\ DownRests)'
  BY NextInv, DownKeeps
<1> QED
  BY <1>1, <1>2, PTL DEF Spec

\* Once no move is in flight, the row names the place of the pane (finish_park,
\* finish_unpark, recover_one_move_locked), unless a repair had no answer.
THEOREM RowNamesPlace == Spec => []PlaceRecorded
<1>1. IndInv => PlaceRecorded
  BY DEF IndInv, RowInv, PlaceRecorded
<1> QED
  BY <1>1, MovesFit, PTL

\* The GC moves or reaps nothing that a client was attached to all along
\* (park_sweep, reap_sweep and the leases of prepare_attach).
THEOREM LeasesVeto == Spec => []LeaseVeto
<1>1. IndInv => LeaseVeto
  BY DEF IndInv, Fits, LeaseVeto, Threads
<1> QED
  BY <1>1, MovesFit, PTL

\* A delivered input is never parked over and its pane never reaped
\* (handle_agent_send under the move lock, park_one, reap_sweep).
THEOREM SendsCancel == Spec => SendCancelsGC
<1>1. IndInv /\ [Next]_vars =>
        [row.input = "sent" =>
           /\ ~(work["gc"].pc = "finish" /\ row'.status = "parked" /\ row.status # "parked")
           /\ ~(work["gc"].pc = "shut" /\ work["gc"].to = "reaped" /\ place' # place)]_vars
  BY DEF IndInv, Fits, Threads
<1> QED
  BY <1>1, MovesFit, PTL DEF Spec, SendCancelsGC
=============================================================================
