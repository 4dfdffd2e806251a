----------------------------- MODULE PaneMoves -----------------------------
(***************************************************************************)
(* Parking: the two-phase move of an idle agent's pane to the `idle`       *)
(* workspace and back, the reap of a parked pane, the repair of half-done  *)
(* moves, and the threads that meet them: `agent send`, `agent kill`, the  *)
(* timeout sweep, the completion monitor, attach leases and a restart      *)
(* (src/server/gc.rs, engine.rs, the move and lease statements of          *)
(* store/mod.rs). Agents do not interact here, so the module is about one. *)
(*                                                                         *)
(* A step is one store-lock hold with the herdr call next to it. Move      *)
(* tokens and turn numbers matter only as equal or different: a fresh one  *)
(* is any number nobody holds.                                             *)
(***************************************************************************)
EXTENDS Naturals, FiniteSets

CONSTANTS
  Senders,    \* `agent send` connections, each serving one call after another
  Killers,    \* `agent kill` connections
  Attachers,  \* clients that may hold an attach lease
  Failing,    \* the herdr calls that may fail
  MaxCrashes  \* bound on server crashes

ASSUME FailingAssumption == Failing \subseteq {"connect", "list", "pane_move", "pane_close"}

ASSUME MoverAssumption ==
  /\ (Senders \cup Killers) \cap {"gc", "monitor", "nobody"} = {}
  /\ IsFiniteSet(Senders \cup Killers)

VARIABLES
  row,     \* the agent's row, with the newest turn (`input`: how it was opened, "none": complete)
  place,   \* where herdr has the pane
  lock,    \* the thread that holds the agent's move lock
  work,    \* what each thread is in the middle of, with the copies it holds
  lease,   \* the attach leases
  server,  \* "up" or "down"
  crashes, \* crashes so far
  early,   \* history: leases fresh since before the GC listed its candidate
  mislaid  \* history: a move rolled back because herdr did not name the workspace

vars == <<row, place, lock, work, lease, server, crashes, early, mislaid>>

Threads == Senders \cup Killers \cup {"gc", "monitor"}

Live == {"working", "idle", "blocked", "parked"}

Rest == [pc |-> "rest", token |-> 0, to |-> "none", was |-> "none",
         status |-> "none", turn |-> 0]

Init ==
  /\ row = [ status |-> "idle", move |-> "none", token |-> 0, loc |-> "home",
             turn |-> 1, input |-> "none" ]
  /\ place = "home"
  /\ lock = "nobody"
  /\ work = [t \in Threads |-> Rest]
  /\ lease = [c \in Attachers |-> "none"]
  /\ server = "up"
  /\ crashes = 0
  /\ early = {}
  /\ mislaid = FALSE

\* One more than there are threads to hold one.
Numbers == 1..Cardinality(Threads) + 1

FreshToken == CHOOSE n \in Numbers : \A t \in Threads : n # work[t].token

FreshTurn == CHOOSE n \in Numbers : n # work["monitor"].turn

\* The thread stands at a step; it goes on, keeping or giving back the lock.
At(t, step) == server = "up" /\ work[t].pc = step

Goes(t, w) == work' = [work EXCEPT ![t] = w]

Step(t, step) == Goes(t, [work[t] EXCEPT !.pc = step])

Acquires(t) == lock = "nobody" /\ lock' = t

Releases(t) == lock = t /\ lock' = "nobody"

Quiet == UNCHANGED <<server, crashes, lease>>

-----------------------------------------------------------------------------
\* The store's move statements. A failed compare leaves the row as it was.

BeginMove(move, token) ==
  row' = [row EXCEPT !.move = move, !.token = token]

CanBegin(from) == row.status = from /\ row.move = "none"

\* finish_park and finish_unpark: only the token is compared.
Finished(r, token, to) ==
  IF r.token # token THEN r
  ELSE [r EXCEPT !.status = IF to = "idle" THEN "parked" ELSE "idle",
                 !.move = "none", !.token = 0, !.loc = to]

RolledBack(r, token) ==
  IF r.token # token THEN r ELSE [r EXCEPT !.move = "none", !.token = 0]

\* Where a move of this kind is going.
Destination(move) == IF move = "parking" THEN "idle" ELSE "home"

\* recover_one_move_locked, from a copy with this token and destination. A pane
\* that is not listed is lost, whatever became of the token meanwhile.
Recovered(token, to) ==
  \/ /\ place # "gone"
     /\ row' = IF place = to THEN Finished(row, token, to) ELSE RolledBack(row, token)
     /\ UNCHANGED mislaid
  \/ /\ "list" \in Failing /\ place # "gone"   \* no workspace list, no label: roll back
     /\ row' \in {RolledBack(row, token),   \* no pane list, no pane: lost
                 [RolledBack(row, token) EXCEPT !.status = "lost"]}
     /\ mislaid' = (mislaid \/ row.token = token)
  \/ /\ place = "gone"
     /\ row' = [RolledBack(row, token) EXCEPT !.status = "lost"]
     /\ UNCHANGED mislaid

-----------------------------------------------------------------------------
\* The two phases shared by park_one and unpark_for_send: the pane is moved,
\* then the row is finished by the token. An error leaves the move in flight.

\* Where the thread goes once the un-park (or its failure) is behind it.
AfterMove(t, ok) ==
  CASE t = "monitor" -> /\ Goes(t, [Rest EXCEPT !.pc = "working",
                             !.status = work[t].status, !.turn = work[t].turn])
                        /\ Releases(t)
    [] t \in Senders /\ ok -> Goes(t, [Rest EXCEPT !.pc = "deliver"]) /\ UNCHANGED lock
    [] OTHER -> Goes(t, Rest) /\ Releases(t)

\* pane_move addresses the pane by the id the copy shows; the answer may be lost.
MovePane(t) ==
  /\ At(t, "move")
  /\ \/ /\ place = work[t].was /\ place' = work[t].to
        /\ Step(t, "finish") /\ UNCHANGED lock
     \/ /\ "pane_move" \in Failing \/ place # work[t].was
        /\ place' \in {place} \cup (IF place = work[t].was THEN {work[t].to} ELSE {})
        /\ AfterMove(t, FALSE)
  /\ Quiet /\ UNCHANGED <<row, early, mislaid>>

FinishMove(t) ==
  /\ At(t, "finish")
  /\ row' = Finished(row, work[t].token, work[t].to)
  /\ AfterMove(t, TRUE)
  /\ Quiet /\ UNCHANGED <<place, early, mislaid>>

-----------------------------------------------------------------------------
\* park_sweep and park_one.
AnyFresh == \E c \in Attachers : lease[c] = "fresh"

ListCandidate(step) ==
  /\ Goes("gc", [Rest EXCEPT !.pc = step, !.was = row.loc])
  /\ early' = {c \in Attachers : lease[c] = "fresh"}
  /\ Quiet /\ UNCHANGED <<row, place, lock, mislaid>>

ParkPick ==
  /\ At("gc", "rest") /\ CanBegin("idle")
  /\ ListCandidate("parkLease")

\* Variant: parking does not ask for leases.
ParkLease_Ignored ==
  /\ At("gc", "parkLease")
  /\ Step("gc", "parkBegin")
  /\ Quiet /\ UNCHANGED <<row, place, lock, early, mislaid>>

ParkLease ==
  /\ At("gc", "parkLease")
  /\ IF AnyFresh THEN Goes("gc", Rest) ELSE Step("gc", "parkBegin")
  /\ Quiet /\ UNCHANGED <<row, place, lock, early, mislaid>>

ParkBegin ==
  /\ At("gc", "parkBegin") /\ lock = "nobody"
  /\ IF CanBegin("idle")
     THEN /\ BeginMove("parking", FreshToken)
          /\ Acquires("gc")
          /\ Goes("gc", [work["gc"] EXCEPT !.pc = "move", !.token = FreshToken, !.to = "idle"])
     ELSE Goes("gc", Rest) /\ UNCHANGED <<row, lock>>
  /\ Quiet /\ UNCHANGED <<place, early, mislaid>>

\* reap_sweep: under the lock only a row still parked, not moving and not
\* attached is shut down; the row is ended only if it is parked even then.
ReapPick ==
  /\ At("gc", "rest") /\ row.status = "parked"
  /\ ListCandidate("reapCheck")

\* Variant: the sweep trusts its list.
ReapCheck_Stale ==
  /\ At("gc", "reapCheck") /\ Acquires("gc")
  /\ Goes("gc", [Rest EXCEPT !.pc = IF AnyFresh THEN "giveUp" ELSE "shut",
                             !.was = row.loc, !.to = "reaped"])
  /\ Quiet /\ UNCHANGED <<row, place, early, mislaid>>

ReapCheck ==
  /\ At("gc", "reapCheck") /\ lock = "nobody"
  /\ IF CanBegin("parked") /\ ~AnyFresh
     THEN /\ Acquires("gc")
          /\ Goes("gc", [Rest EXCEPT !.pc = "shut", !.was = row.loc, !.to = "reaped"])
     ELSE Goes("gc", Rest) /\ UNCHANGED lock
  /\ Quiet /\ UNCHANGED <<row, place, early, mislaid>>

\* timeout_sweep passes by a row that has ended or is being moved.
TimeoutCheck ==
  /\ At("gc", "rest") /\ Acquires("gc")
  /\ row.status \in Live /\ row.move = "none"
  /\ Goes("gc", [Rest EXCEPT !.pc = "shut", !.was = row.loc, !.to = "timeout"])
  /\ Quiet /\ UNCHANGED <<row, place, early, mislaid>>

\* graceful_shutdown closes the pane by its recorded id.
Shut ==
  /\ At("gc", "shut")
  /\ \/ place' = IF place = work["gc"].was THEN "gone" ELSE place
     \/ "pane_close" \in Failing /\ UNCHANGED place
  /\ Step("gc", "end")
  /\ Quiet /\ UNCHANGED <<row, lock, early, mislaid>>

\* end_if_status for a reap, transition_status for a timeout.
EndShut ==
  /\ At("gc", "end")
  /\ row' = CASE work["gc"].to = "timeout" -> [row EXCEPT !.status = "ended"]
              [] row.status = "parked" ->
                   [row EXCEPT !.status = "ended", !.move = "none", !.token = 0]
              [] OTHER -> row
  /\ Goes("gc", Rest) /\ Releases("gc")
  /\ Quiet /\ UNCHANGED <<place, early, mislaid>>

-----------------------------------------------------------------------------
\* periodic_reconcile: one pane list, a lost row still gone, a half-done move,
\* a pane newly gone. A tick that gets no pane list does nothing.
ReconSnapshot ==
  /\ At("gc", "rest")
  /\ Goes("gc", [Rest EXCEPT !.pc = "recon", !.was = place])
  /\ Quiet /\ UNCHANGED <<row, place, lock, early, mislaid>>

ReconLost ==
  /\ At("gc", "recon")
  /\ row' = IF row.status = "lost" /\ work["gc"].was = "gone"
            THEN [row EXCEPT !.status = "ended"] ELSE row
  /\ Step("gc", "inMove")
  /\ Quiet /\ UNCHANGED <<place, lock, early, mislaid>>

ReconListMoves ==
  /\ At("gc", "inMove")
  /\ IF row.move # "none" /\ row.status \notin {"ended", "lost"}
     THEN Goes("gc", [work["gc"] EXCEPT !.pc = "recover", !.token = row.token,
                                        !.to = Destination(row.move)])
     ELSE Step("gc", "listActive")
  /\ Quiet /\ UNCHANGED <<row, place, lock, early, mislaid>>

\* Variant: the move lock is not taken.
ReconRecover_NoLock ==
  /\ At("gc", "recover")
  /\ Recovered(work["gc"].token, work["gc"].to)
  /\ Goes("gc", [Rest EXCEPT !.pc = "listActive", !.was = work["gc"].was])
  /\ Quiet /\ UNCHANGED <<place, lock, early>>

\* Variant: half-done moves are left to the restart.
ReconRecover_Never ==
  /\ At("gc", "recover")
  /\ Goes("gc", [Rest EXCEPT !.pc = "listActive", !.was = work["gc"].was])
  /\ Quiet /\ UNCHANGED <<row, place, lock, early, mislaid>>

\* recover_one_move: the lock, then the listed copy.
ReconRecover ==
  /\ At("gc", "recover") /\ lock = "nobody"
  /\ Recovered(work["gc"].token, work["gc"].to)
  /\ Goes("gc", [Rest EXCEPT !.pc = "listActive", !.was = work["gc"].was])
  /\ Quiet /\ UNCHANGED <<place, lock, early>>

ReconListActive ==
  /\ At("gc", "listActive")
  /\ IF row.move = "none" /\ row.status \in Live /\ work["gc"].was = "gone"
     THEN Goes("gc", [Rest EXCEPT !.pc = "markLost"]) ELSE Goes("gc", Rest)
  /\ Quiet /\ UNCHANGED <<row, place, lock, early, mislaid>>

ReconMarkLost ==
  /\ At("gc", "markLost")
  /\ row' = [row EXCEPT !.status = "lost"]
  /\ Goes("gc", Rest)
  /\ Quiet /\ UNCHANGED <<place, lock, early, mislaid>>

GcStep ==
  \/ MovePane("gc") \/ FinishMove("gc") \/ ParkLease \/ ParkBegin \/ ReapCheck \/ Shut
  \/ EndShut \/ ReconLost \/ ReconListMoves \/ ReconRecover \/ ReconListActive \/ ReconMarkLost

-----------------------------------------------------------------------------
\* unpark_for_send, entered with the lock and a row read under it.
Unpark(t) ==
  Goes(t, IF row.move = "none" THEN [work[t] EXCEPT !.pc = "begin"]
          ELSE [work[t] EXCEPT !.pc = "settle", !.token = row.token,
                               !.to = Destination(row.move)])

SettleMove(t) ==
  /\ At(t, "settle")
  /\ Recovered(work[t].token, work[t].to)
  /\ Goes(t, [work[t] EXCEPT !.pc = "begin", !.token = 0, !.to = "none"])
  /\ Quiet /\ UNCHANGED <<place, lock, early>>

\* A row that is not parked after all is used as it is.
UnparkBegin(t) ==
  /\ At(t, "begin")
  /\ IF CanBegin("parked")
     THEN /\ BeginMove("unparking", FreshToken)
          /\ Goes(t, [work[t] EXCEPT !.pc = "move", !.token = FreshToken,
                                       !.to = "home", !.was = row.loc])
          /\ UNCHANGED lock
     ELSE AfterMove(t, TRUE) /\ UNCHANGED row
  /\ Quiet /\ UNCHANGED <<place, early, mislaid>>

\* handle_agent_send: the row is read again under the lock.
SendLock(s) ==
  /\ At(s, "rest") /\ row.status \notin {"ended", "lost"}
  /\ Acquires(s)
  /\ IF row.status = "parked" \/ row.move # "none"
     THEN Unpark(s)
     ELSE Goes(s, [Rest EXCEPT !.pc = "deliver"])
  /\ Quiet /\ UNCHANGED <<row, place, early, mislaid>>

OpenTurn(how) ==
  row' = [row EXCEPT !.status = "working", !.turn = FreshTurn, !.input = how]

\* deliver_input opens the turn before herdr gets the text.
SendDeliver(s) ==
  /\ At(s, "deliver")
  /\ IF row.status \in {"ended", "lost"}
     THEN Goes(s, Rest) /\ Releases(s) /\ UNCHANGED row
     ELSE OpenTurn("sent") /\ Step(s, "prompt") /\ UNCHANGED lock
  /\ Quiet /\ UNCHANGED <<place, early, mislaid>>

\* deliver_prompt addresses the pane by its terminal; an error leaves the turn open.
SendPrompt(s) ==
  /\ At(s, "prompt")
  /\ Goes(s, Rest) /\ Releases(s)
  /\ Quiet /\ UNCHANGED <<row, place, early, mislaid>>

SendStep(s) ==
  \/ SettleMove(s) \/ UnparkBegin(s) \/ MovePane(s) \/ FinishMove(s)
  \/ SendDeliver(s) \/ SendPrompt(s)

-----------------------------------------------------------------------------
\* kill_live_agent: the reason follows the copy, the pane is found by terminal.
KillRead(k) ==
  /\ At(k, "rest") /\ row.status # "ended"
  /\ Step(k, "kill")
  /\ Quiet /\ UNCHANGED <<row, place, lock, early, mislaid>>

KillClose(k) ==
  /\ At(k, "kill") /\ Acquires(k)
  /\ place' = "gone" \/ ("pane_close" \in Failing /\ UNCHANGED place)
  /\ Step(k, "killed")
  /\ Quiet /\ UNCHANGED <<row, early, mislaid>>

KillEnd(k) ==
  /\ At(k, "killed")
  /\ row' = [row EXCEPT !.status = "ended"]
  /\ Goes(k, Rest) /\ Releases(k)
  /\ Quiet /\ UNCHANGED <<place, early, mislaid>>

-----------------------------------------------------------------------------
\* completion_tick and drive_completion: the snapshot, the newest turn, then a
\* write chosen by what herdr reported. No lock but for the un-park.
MonitorRead ==
  /\ At("monitor", "rest")
  /\ row.status \in Live /\ place = row.loc
  /\ Goes("monitor", [Rest EXCEPT !.pc = "look", !.status = row.status])
  /\ Quiet /\ UNCHANGED <<row, place, lock, early, mislaid>>

MonitorLook ==
  /\ At("monitor", "look")
  /\ LET step(pc) == Goes("monitor", [work["monitor"] EXCEPT !.pc = pc,
                              !.turn = IF row.input = "none" THEN 0 ELSE row.turn])
     IN  \/ step(IF work["monitor"].status = "parked" THEN "resume" ELSE "working")
         \/ row.input # "none" /\ step("complete")
         \/ Goes("monitor", Rest)
  /\ Quiet /\ UNCHANGED <<row, place, lock, early, mislaid>>

\* Blocked: mark_blocked excludes no other status.
MonitorBlocked ==
  /\ At("monitor", "look")
  /\ row' = [row EXCEPT !.status = "blocked"]
  /\ Goes("monitor", Rest)
  /\ Quiet /\ UNCHANGED <<place, lock, early, mislaid>>

\* unpark_on_resume: nothing to do unless it is still parked or on the move.
MonitorResume ==
  /\ At("monitor", "resume") /\ lock = "nobody"
  /\ IF row.status = "parked" \/ row.move # "none"
     THEN Acquires("monitor") /\ Unpark("monitor")
     ELSE Step("monitor", "working") /\ UNCHANGED lock
  /\ Quiet /\ UNCHANGED <<row, place, early, mislaid>>

\* Working: mark_working if a turn was open, else an external turn is opened.
MonitorWorking ==
  /\ At("monitor", "working")
  /\ CASE work["monitor"].turn # 0 ->
            row' = IF work["monitor"].status # "working"
                        /\ row.status \in {"idle", "blocked", "parked"}
                   THEN [row EXCEPT !.status = "working"] ELSE row
       [] row.status \in {"ended", "lost"} -> UNCHANGED row
       [] OTHER -> OpenTurn("typed")
  /\ Goes("monitor", Rest)
  /\ Quiet /\ UNCHANGED <<place, lock, early, mislaid>>

\* Settled: complete_turn is for the turn that was read; the status flips only
\* if it is still the newest and working.
MonitorComplete ==
  /\ At("monitor", "complete")
  /\ row' = IF row.turn # work["monitor"].turn THEN row
            ELSE [row EXCEPT !.input = "none",
                             !.status = IF @ = "working" THEN "idle" ELSE @]
  /\ Goes("monitor", Rest)
  /\ Quiet /\ UNCHANGED <<place, lock, early, mislaid>>

MonitorStep ==
  \/ MonitorLook \/ MonitorResume \/ MonitorWorking \/ MonitorBlocked \/ MonitorComplete
  \/ SettleMove("monitor") \/ UnparkBegin("monitor")
  \/ MovePane("monitor") \/ FinishMove("monitor")

-----------------------------------------------------------------------------
\* Attach leases: a heartbeat keeps a lease fresh; one that is not renewed
\* lapses, and the next tick deletes it.
Lease(c, s) ==
  /\ lease' = [lease EXCEPT ![c] = s]
  /\ early' = IF s = "fresh" THEN early ELSE early \ {c}
  /\ UNCHANGED <<row, place, lock, work, server, crashes, mislaid>>

\* prepare_attach validates and inserts in one transaction.
PrepareAttach(c) ==
  /\ server = "up" /\ lease[c] = "none" /\ row.status \in Live
  /\ Lease(c, "fresh")

HeartbeatLease(c) == server = "up" /\ lease[c] = "lapsed" /\ Lease(c, "fresh")

ReleaseLease(c) == server = "up" /\ lease[c] # "none" /\ Lease(c, "none")

LeaseLapses(c) == lease[c] = "fresh" /\ Lease(c, "lapsed")

ExpireLease(c) == At("gc", "rest") /\ lease[c] = "lapsed" /\ Lease(c, "none")

-----------------------------------------------------------------------------
PaneDies ==
  /\ place # "gone" /\ place' = "gone"
  /\ Quiet /\ UNCHANGED <<row, lock, work, early, mislaid>>

\* The threads and the lock are gone; a pane_move in flight may still land.
Crash ==
  /\ server = "up" /\ crashes < MaxCrashes
  /\ place' \in {place} \cup {work[t].to : t \in {u \in Threads :
                               work[u].pc = "move" /\ work[u].was = place}}
  /\ lock' = "nobody"
  /\ work' = [t \in Threads |-> Rest]
  /\ server' = "down" /\ crashes' = crashes + 1
  /\ early' = {}
  /\ UNCHANGED <<row, lease, mislaid>>

\* reconcile_on_start: a move in flight is recovered; otherwise the pane must be
\* listed under its recorded id. Without herdr the row is left as it is.
Restart ==
  /\ server = "down" /\ server' = "up"
  /\ \/ "connect" \in Failing /\ UNCHANGED <<row, mislaid>>
     \/ row.status \notin Live /\ UNCHANGED <<row, mislaid>>
     \/ /\ row.status \in Live /\ row.move # "none"
        /\ Recovered(row.token, Destination(row.move))
     \/ /\ row.status \in Live /\ row.move = "none"
        /\ row' \in (IF place = row.loc THEN {row} ELSE {})
                  \cup (IF place # row.loc \/ "list" \in Failing
                        THEN {[row EXCEPT !.status = "lost"]} ELSE {})
        /\ UNCHANGED mislaid
  /\ UNCHANGED <<place, lock, work, lease, crashes, early>>

-----------------------------------------------------------------------------
Next ==
  \/ ParkPick \/ ReapPick \/ TimeoutCheck \/ ReconSnapshot \/ GcStep
  \/ MonitorRead \/ MonitorStep
  \/ \E s \in Senders : SendLock(s) \/ SendStep(s)
  \/ \E k \in Killers : KillRead(k) \/ KillClose(k) \/ KillEnd(k)
  \/ \E c \in Attachers : \/ PrepareAttach(c) \/ HeartbeatLease(c) \/ ReleaseLease(c)
                          \/ LeaseLapses(c) \/ ExpireLease(c)
  \/ PaneDies \/ Crash \/ Restart

Spec == Init /\ [][Next]_vars

\* Every thread that has begun goes on (herdr calls have I/O timeouts), the
\* server is started again, and each tick of the GC thread ends with a pass of
\* the reconciler, which herdr answers again and again. A mutex is not fair to
\* one thread for ever, so whoever waits for the lock gets it (SF).
Fairness ==
  /\ SF_vars(GcStep) /\ SF_vars(ReconSnapshot)
  /\ WF_vars(MonitorStep) /\ WF_vars(Restart)
  /\ \A s \in Senders : WF_vars(SendStep(s))
  /\ \A k \in Killers : WF_vars(KillEnd(k))

FairSpec == Spec /\ Fairness

-----------------------------------------------------------------------------
\* Once no move is in flight, a row that is not lost names the pane where it
\* is: the monitor looks panes up by the recorded id and sees nothing of a row
\* that names another. The one way out is a repair that herdr did not answer.
PlaceRecorded ==
  row.move = "none" /\ row.status \in Live /\ place # "gone"
    => row.loc = place \/ mislaid

\* `agent send` cancels a pending park or reap before it delivers: the input
\* it has delivered is never parked over, nor its pane closed by the reap.
SendCancelsGC ==
  [][row.input = "sent" =>
       /\ ~(work["gc"].pc = "finish" /\ row'.status = "parked" /\ row.status # "parked")
       /\ ~(work["gc"].pc = "shut" /\ work["gc"].to = "reaped" /\ place' # place)]_vars

\* A lease that was fresh when the GC listed its candidate, and has stayed
\* fresh, keeps the GC from moving the pane or reaping it.
LeaseVeto ==
  work["gc"].pc = "move" \/ (work["gc"].pc = "shut" /\ work["gc"].to = "reaped")
    => early = {}

\* No move stays half done: its own thread, a send, the reconciler or the
\* restart settles it, unless the agent itself is resolved.
MoveSettles == (row.move # "none") ~> (row.move = "none" \/ row.status \in {"ended", "lost"})
=============================================================================
