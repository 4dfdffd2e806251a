------------------------------- MODULE Naming -------------------------------
(* Paths, scopes, lineage and patterns (path.rs, server/engine.rs,           *)
(* sdk/ts/src), and what they must agree on: which agents a run of a loop    *)
(* owns, which ones `kill <pattern>` reaches, where a relative path lands,   *)
(* and what `orcr top` shows.                                                *)
(*                                                                           *)
(* A path is a sequence of segments.  A loop is an entry of defs, a run an   *)
(* entry of runs, an agent an entry of agents, and its index is its uuid.    *)
EXTENDS Naturals, Sequences, SequencesExt

CONSTANTS
  Names,        \* loop names
  RunIds,       \* the random ids of runs, never drawn twice
  Reserved,     \* level-1 names that orcr owns
  MaxSegments,  \* the depth limit
  Inputs,       \* [abs : BOOLEAN, path], what creators pass as --name or --path
  Patterns,     \* what ls and top are given, absolute
  Leaked,       \* the server inherited the environment of an agent that started it
  MaxDefs, MaxAgents, MaxCalls  \* bounds

\* Only patterns have wildcards (path.rs valid_segment), and a fragment is not
\* empty (validate_path).
ASSUME NamesAssumption ==
  /\ Names \subseteq STRING /\ RunIds \subseteq STRING
  /\ {"*", "**"} \cap (Names \cup RunIds) = {}
  /\ Inputs \subseteq [abs : BOOLEAN, path : Seq(STRING) \ {<<>>}]
  /\ Patterns \subseteq Seq(STRING)
  /\ MaxSegments \in Nat

VARIABLES
  defs,     \* loop definitions: [name, ended]
  runs,     \* loop runs: [def, id, status]
  agents,   \* agent rows: [path, status, caller, rel, loopDir]
  calls,    \* agent.run requests resolved and not yet admitted
  kills,    \* per run: the kill over its glob in progress
  stopped   \* runs whose stop has finished

vars == <<defs, runs, agents, calls, kills, stopped>>

-----------------------------------------------------------------------------
(* Patterns: `*` stands for one segment and `**` for one or more.            *)

\* match[p] holds the positions of the path from which the rest of it matches
\* the segments of the pattern from p on.
Matches_StarsTakeNone(pattern, path) ==
  LET match[p \in 1 .. Len(pattern) + 1] ==
        IF p > Len(pattern) THEN {Len(path) + 1}
        ELSE LET rest == match[p + 1]
             IN IF pattern[p] = "**"
                THEN {s \in 1 .. Len(path) + 1 : \E t \in rest : s <= t}
                ELSE {s \in 1 .. Len(path) : pattern[p] \in {"*", path[s]} /\ s + 1 \in rest}
  IN 1 \in match[1]

Matches(pattern, path) ==
  LET match[p \in 1 .. Len(pattern) + 1] ==
        IF p > Len(pattern) THEN {Len(path) + 1}
        ELSE LET rest == match[p + 1]
             IN IF pattern[p] = "**"
                THEN {s \in 1 .. Len(path) : \E t \in rest : s < t}
                ELSE {s \in 1 .. Len(path) : pattern[p] \in {"*", path[s]} /\ s + 1 \in rest}
  IN 1 \in match[1]

-----------------------------------------------------------------------------
Active == {a \in DOMAIN agents : agents[a].status # "ended"}

Matched(pattern) == {a \in Active : Matches(pattern, agents[a].path)}

ActiveNames == {defs[d].name : d \in {e \in DOMAIN defs : ~defs[e].ended}}

\* find_loop_by_name: the definition in force, else the latest one; 0 for none.
FindLoop(name) ==
  LET named == {d \in DOMAIN defs : defs[d].name = name}
      live  == {d \in named : ~defs[d].ended}
  IN CHOOSE d \in 0 .. Len(defs) :
       \/ d \in live
       \/ live = {} /\ d \in named /\ \A e \in named : e <= d
       \/ named = {} /\ d = 0

RunIn(d, id) == {r \in DOMAIN runs : runs[r].def = d /\ runs[r].id = id}

RunPath(r) == <<defs[runs[r].def].name, runs[r].id>>

\* The glob a stop kills by.
RunGlob_OneLevel(r) == Append(RunPath(r), "*")

RunGlob(r) == Append(RunPath(r), "**")

-----------------------------------------------------------------------------
(* Callers: a plain shell, the command of a run, or an agent.                *)

Shell == [kind |-> "shell", id |-> 0]

Callers ==
  {Shell}
  \cup {[kind |-> "run", id |-> r] :
          r \in {q \in DOMAIN runs : runs[q].status \in {"running", "stopping"}}}
  \cup {[kind |-> "agent", id |-> a] : a \in Active}

CallerPath(c) ==
  CASE c.kind = "shell" -> <<>>
    [] c.kind = "run"   -> RunPath(c.id)
    [] c.kind = "agent" -> agents[c.id].path

ScopeOfAgent(path) == IF path = <<>> THEN <<>> ELSE Front(path)

\* caller_context: a run is a directory, an agent is a file.
ServerScope(c) == IF c.kind = "run" THEN CallerPath(c) ELSE ScopeOfAgent(CallerPath(c))

\* spawn_run: the command inherits the server's environment.
RunEnv_Inherited(c) == [path |-> CallerPath(c), agentDir |-> Leaked, loopDir |-> TRUE]

RunEnv(c) == [path |-> CallerPath(c), agentDir |-> FALSE, loopDir |-> TRUE]

Env(c) ==
  CASE c.kind = "shell" -> [path |-> <<>>, agentDir |-> FALSE, loopDir |-> FALSE]
    [] c.kind = "run"   -> RunEnv(c)
    [] c.kind = "agent" -> [path |-> CallerPath(c), agentDir |-> TRUE,
                            loopDir |-> agents[c.id].loopDir]

\* The SDK's fromEnv, which has only the environment to tell the three apart.
ClientScope(env) ==
  CASE env.path # <<>> /\ ~env.agentDir /\ env.loopDir -> env.path
    [] env.path # <<>> /\ env.agentDir                 -> ScopeOfAgent(env.path)
    [] OTHER                                           -> <<>>

-----------------------------------------------------------------------------
(* agent.run.                                                                *)

ValidPath(path) == Len(path) \in 1 .. MaxSegments /\ path[1] \notin Reserved

\* loop_data_dir_for
LoopDataDir(path) == Len(path) >= 2 /\ path[1] \in ActiveNames

Admissible(call) ==
  call.path[1] \in ActiveNames =>
    /\ CallerPath(call.caller) # <<>> /\ CallerPath(call.caller)[1] = call.path[1]
    /\ Len(call.path) >= 2
    /\ \E r \in RunIn(FindLoop(call.path[1]), call.path[2]) : runs[r].status = "running"

Free_Unchecked(path) == TRUE

Free(path) == \A a \in Active : agents[a].path # path

\* resolve_create: a leading `/` leaves the scope out.
ResolveCreate(scope, in) == IF in.abs THEN in.path ELSE scope \o in.path

\* handle_agent_run up to the store lock.
Request(c, in, path) ==
  /\ Cardinality(calls) < MaxCalls /\ ValidPath(path)
  /\ calls' = calls \cup {[path |-> path, caller |-> c, rel |-> ~in.abs,
                            loopDir |-> LoopDataDir(path)]}
  /\ UNCHANGED <<defs, runs, agents, kills, stopped>>

\* The CLI sends the fragment and the SDK the absolute path it resolved itself.
RequestByCli(c, in) == Request(c, in, ResolveCreate(ServerScope(c), in))

RequestBySdk(c, in) == Request(c, in, ResolveCreate(ClientScope(Env(c)), in))

\* The check and the insert, under one hold of the store lock.
Admit(call) ==
  /\ Len(agents) < MaxAgents
  /\ Admissible(call) /\ Free(call.path)
  /\ agents' = Append(agents, [path |-> call.path, status |-> "active", caller |-> call.caller,
                               rel |-> call.rel, loopDir |-> call.loopDir])
  /\ calls' = calls \ {call}
  /\ UNCHANGED <<defs, runs, kills, stopped>>

Refuse(call) ==
  /\ ~(Admissible(call) /\ Free(call.path))
  /\ calls' = calls \ {call}
  /\ UNCHANGED <<defs, runs, agents, kills, stopped>>

\* Parking, unparking, and every end but a stop's: a client's kill over a
\* pattern ends its matches one by one.
SetAgent(a, from, to) ==
  /\ agents[a].status \in from
  /\ agents' = [agents EXCEPT ![a].status = to]
  /\ UNCHANGED <<defs, runs, calls, kills, stopped>>

-----------------------------------------------------------------------------
(* The glob-kill of a stop: list the matches, end them one by one, and       *)
(* repeat until a round ends nothing.                                        *)

NoKill == [phase |-> "none", left |-> {}, killed |-> FALSE]

List(r) ==
  /\ kills[r].phase = "list"
  /\ LET found == Matched(RunGlob(r))
     IN kills' = [kills EXCEPT ![r] = [phase |-> IF found = {} THEN "done" ELSE "kill",
                                       left |-> found, killed |-> FALSE]]
  /\ UNCHANGED <<defs, runs, agents, calls, stopped>>

KillOne(r, a) ==
  /\ kills[r].phase = "kill" /\ a \in kills[r].left
  /\ LET left   == kills[r].left \ {a}
         killed == kills[r].killed \/ a \in Active
     IN kills' = [kills EXCEPT ![r] =
          [phase |-> IF left # {} THEN "kill" ELSE IF killed THEN "list" ELSE "done",
           left |-> left, killed |-> killed]]
  /\ agents' = [agents EXCEPT ![a].status = "ended"]
  /\ UNCHANGED <<defs, runs, calls, stopped>>

-----------------------------------------------------------------------------
(* Loops and runs.                                                           *)

CreateLoop(name) ==
  /\ Len(defs) < MaxDefs
  /\ name \notin ActiveNames \cup Reserved
  /\ defs' = Append(defs, [name |-> name, ended |-> FALSE])
  /\ UNCHANGED <<runs, agents, calls, kills, stopped>>

RemoveLoop(name) ==
  /\ name \in ActiveNames
  /\ defs' = [defs EXCEPT ![FindLoop(name)].ended = TRUE]
  /\ UNCHANGED <<runs, agents, calls, kills, stopped>>

StartRun(name, id) ==
  /\ name \in ActiveNames
  /\ \A r \in DOMAIN runs : runs[r].id # id
  /\ runs' = Append(runs, [def |-> FindLoop(name), id |-> id, status |-> "running"])
  /\ kills' = Append(kills, NoKill)
  /\ UNCHANGED <<defs, agents, calls, stopped>>

\* enter_stop_barrier, and the stop that follows it.
StopRun(r) ==
  /\ runs[r].status \in {"running", "stopping"} /\ kills[r].phase = "none"
  /\ runs' = [runs EXCEPT ![r].status = "stopping"]
  /\ kills' = [kills EXCEPT ![r] = [NoKill EXCEPT !.phase = "list"]]
  /\ UNCHANGED <<defs, agents, calls, stopped>>

\* loop.run.stop finds the run through the loop's name; the timeout has the run.
StopByName(name, id) == \E r \in RunIn(FindLoop(name), id) : StopRun(r)

Timeout(r) == runs[r].status = "running" /\ StopRun(r)

\* The command exits, and leaves the agents of its run alone.
Exit(r) ==
  /\ runs[r].status \in {"running", "stopping"}
  /\ runs' = [runs EXCEPT ![r].status = "ended"]
  /\ UNCHANGED <<defs, agents, calls, kills, stopped>>

FinishStop(r) ==
  /\ kills[r].phase = "done"
  /\ kills' = [kills EXCEPT ![r] = NoKill]
  /\ runs' = [runs EXCEPT ![r].status = "ended"]
  /\ stopped' = stopped \cup {r}
  /\ UNCHANGED <<defs, agents, calls>>

-----------------------------------------------------------------------------
Init ==
  /\ defs = <<>> /\ runs = <<>> /\ agents = <<>> /\ kills = <<>>
  /\ calls = {} /\ stopped = {}

Next ==
  \/ \E c \in Callers, in \in Inputs : RequestByCli(c, in) \/ RequestBySdk(c, in)
  \/ \E call \in calls : Admit(call) \/ Refuse(call)
  \/ \E a \in DOMAIN agents :
       \/ SetAgent(a, {"active"}, "parked")
       \/ SetAgent(a, {"parked"}, "active")
       \/ SetAgent(a, {"active", "parked"}, "ended")
  \/ \E name \in Names : CreateLoop(name) \/ RemoveLoop(name)
  \/ \E name \in Names, id \in RunIds : StartRun(name, id) \/ StopByName(name, id)
  \/ \E r \in DOMAIN runs : Timeout(r) \/ List(r) \/ Exit(r) \/ FinishStop(r)
  \/ \E r \in DOMAIN runs, a \in DOMAIN agents : KillOne(r, a)

Spec == Init /\ [][Next]_vars

-----------------------------------------------------------------------------
(* Matching is a covering: the path can be dealt out to the segments of the  *)
(* pattern in order, each getting at least one, only `**` more than one, and *)
(* a literal its own (path.rs: "matched anchored against a full path").      *)
Covers(pattern, path) ==
  \E f \in [DOMAIN path -> DOMAIN pattern] :
    /\ \A i, j \in DOMAIN path : i < j => f[i] <= f[j]
    /\ \A i, j \in DOMAIN path : i # j /\ f[i] = f[j] => pattern[f[i]] = "**"
    /\ \A p \in DOMAIN pattern : \E i \in DOMAIN path : f[i] = p
    /\ \A i \in DOMAIN path : pattern[f[i]] \in {"*", "**", path[i]}

MatchIsCover ==
  \A a \in DOMAIN agents, pattern \in Patterns :
    Matches(pattern, agents[a].path) = Covers(pattern, agents[a].path)

(* The agents a run started, and those they started, by relative names.      *)
Descends(r) ==
  LET by[a \in DOMAIN agents] ==
        /\ agents[a].rel
        /\ \/ agents[a].caller = [kind |-> "run", id |-> r]
           \/ agents[a].caller.kind = "agent" /\ by[agents[a].caller.id]
  IN {a \in DOMAIN agents : by[a]}

(* Once a stop has finished no descendant of the run is left and none comes, *)
(* while its loop is defined: the glob over the run's path, the admission    *)
(* barrier on paths and the caller's scope give the same family.             *)
StoppedFamilyIsGone ==
  \A r \in stopped : ~defs[runs[r].def].ended => Descends(r) \cap Active = {}

(* The scope the SDK derives from the environment is the scope the server    *)
(* derives from the caller's id and path (context.ts, engine.rs              *)
(* caller_context).                                                          *)
ScopesAgree == \A c \in Callers : ClientScope(Env(c)) = ServerScope(c)

(* build_tree files parked agents under one node and the others at their     *)
(* paths; a node keeps the last agent filed there.                           *)
Place(a) == <<agents[a].status = "parked", agents[a].path>>

Shown(pattern) ==
  {a \in Matched(pattern) : \A b \in Matched(pattern) : Place(b) = Place(a) => b <= a}

(* `orcr top` shows exactly the agents that `agent ls` lists under the same  *)
(* pattern (top/model.rs agent_uuids: "the node set the filter acceptance    *)
(* compares against agent ls").                                              *)
TopShowsListed == \A pattern \in Patterns : Shown(pattern) = Matched(pattern)
=============================================================================
