----------------------------- MODULE ServerLife -----------------------------
(***************************************************************************)
(* The life of server processes that share one ORCR_HOME: the handshake    *)
(* fast path, the race for the instance lock, opening the store, binding   *)
(* the socket over a stale one, serving, the graceful stop that unlinks    *)
(* the socket before it lets go of the lock, and a crash at any point      *)
(* (run_foreground and serve of src/server/mod.rs, lock.rs, client.rs).    *)
(***************************************************************************)
EXTENDS Integers

CONSTANTS
  Procs,       \* processes that run `orcr server start --foreground`
  NoProc,      \* nobody: a free lock, no socket file
  MaxLaunches, \* bound on the launches
  MaxCrashes   \* bound on the crashes

ASSUME ProcsAssumption == NoProc \notin Procs

VARIABLES
  proc,     \* where each process is in run_foreground
  holder,   \* who has the flock on orcr.lock
  socket,   \* who bound the file at the socket path
  stopping, \* the serving process's shutdown flag (the bus has the same one)
  launches, \* launches so far
  crashes   \* crashes so far

life == <<proc, holder, socket, stopping, launches, crashes>>

LifeInit ==
  /\ proc = [p \in Procs |-> "off"]
  /\ holder = NoProc /\ socket = NoProc
  /\ stopping = FALSE
  /\ launches = 0 /\ crashes = 0

\* Processes whose threads run with the store open, under the lock.
Running(p) == proc[p] \in {"bind", "boot", "serve", "drain", "exit"}

\* A request is answered: the accept loop of the process the socket leads to runs.
Answers == socket \in Procs /\ proc[socket] = "serve"

Goto(p, pc) == proc' = [proc EXCEPT ![p] = pc]

-----------------------------------------------------------------------------
\* run_foreground: the handshake decides whether there is anything to do; one
\* that waits in a backlog can run into its 30 s read timeout.
Launch(p) ==
  /\ proc[p] = "off" /\ launches < MaxLaunches
  /\ launches' = launches + 1
  /\ IF Answers THEN proc' = proc ELSE Goto(p, "lock")
  /\ UNCHANGED <<holder, socket, stopping, crashes>>

TryLock(p) ==
  /\ proc[p] = "lock"
  /\ IF holder = NoProc
     THEN holder' = p /\ Goto(p, "open")
     ELSE holder' = holder /\ Goto(p, "wait")
  /\ UNCHANGED <<socket, stopping, launches, crashes>>

\* wait_for_ready: the winner answers, or 15 s pass without an answer.
Loser(p) ==
  /\ proc[p] = "wait" /\ Goto(p, "off")
  /\ UNCHANGED <<holder, socket, stopping, launches, crashes>>

\* Store::open; the server's flags are new.
OpenStore(p) ==
  /\ proc[p] = "open" /\ Goto(p, "bind")
  /\ stopping' = FALSE
  /\ UNCHANGED <<holder, socket, launches, crashes>>

\* Opening the store or the log, or binding, fails: the error drops the lock.
StartFails(p) ==
  /\ proc[p] \in {"open", "bind"} /\ Goto(p, "off")
  /\ holder' = NoProc
  /\ UNCHANGED <<socket, stopping, launches, crashes>>

\* bind_socket: whatever is at the path is stale, for its owner had no lock.
Bind(p) ==
  /\ proc[p] = "bind" /\ Goto(p, "boot")
  /\ socket' = p
  /\ UNCHANGED <<holder, stopping, launches, crashes>>

\* Reconciliation is done and the workers are started.
Serve(p) ==
  /\ proc[p] = "boot" /\ Goto(p, "serve")
  /\ UNCHANGED <<holder, socket, stopping, launches, crashes>>

\* A signal, or server.stop from a client.
RequestStop(p) ==
  /\ proc[p] \in {"boot", "serve"} /\ ~stopping
  /\ stopping' = TRUE
  /\ UNCHANGED <<proc, holder, socket, launches, crashes>>

\* The accept loop sees the flag, and serve sleeps while subscribers are told.
Leave(p) ==
  /\ proc[p] = "serve" /\ stopping /\ Goto(p, "drain")
  /\ UNCHANGED <<holder, socket, stopping, launches, crashes>>

\* Variant: the lock is dropped first and the file is removed afterwards.
Unlink_AfterLock(p) ==
  /\ \/ proc[p] = "drain" /\ Goto(p, "exit") /\ holder' = NoProc /\ socket' = socket
     \/ proc[p] = "exit" /\ Goto(p, "late") /\ socket' = NoProc /\ holder' = holder
  /\ UNCHANGED <<stopping, launches, crashes>>

\* remove_file takes whatever is at the path, then the lock is dropped.
Unlink(p) ==
  /\ proc[p] = "drain" /\ Goto(p, "exit")
  /\ socket' = NoProc
  /\ UNCHANGED <<holder, stopping, launches, crashes>>

\* main has yet to return: the threads that are still at work have the store open.
Release(p) ==
  /\ proc[p] = "exit" /\ Goto(p, "late")
  /\ holder' = NoProc
  /\ UNCHANGED <<socket, stopping, launches, crashes>>

Gone(p) ==
  /\ proc[p] = "late" /\ Goto(p, "off")
  /\ UNCHANGED <<holder, socket, stopping, launches, crashes>>

\* The kernel frees the lock of a dead process and leaves the socket file.
Crash(p) ==
  /\ proc[p] # "off" /\ crashes < MaxCrashes
  /\ crashes' = crashes + 1
  /\ Goto(p, "off")
  /\ holder' = IF holder = p THEN NoProc ELSE holder
  /\ UNCHANGED <<socket, stopping, launches>>

-----------------------------------------------------------------------------
\* A process that has bound the socket is the one the path leads to, until it
\* unlinks it itself: no later start and no earlier stop takes the file of a
\* serving process away (the order of run_foreground's cleanup, and bind_socket
\* under the lock).
SocketLeadsToServer ==
  \A p \in Procs : proc[p] \in {"boot", "serve", "drain"} => socket = p
=============================================================================
