----------------------- MODULE NamesSchedulesProofs -----------------------
(* What several programs compute independently, and agree on for every value *)
(* of the constants: the names of Naming (StoppedFamilyIsGone, ScopesAgree,  *)
(* TopShowsListed), from one inductive invariant; the pattern matcher, which *)
(* covers exactly what a pattern says (MatchIsCover); and the schedules of   *)
(* Cadence, which move forward in every zone with one transition, but for    *)
(* its fold.                                                                 *)
EXTENDS Naming, SequenceTheorems, WellFoundedInduction, TLAPS

CONSTANTS Cal, Expr, Change, Before, After, Horizon, MaxTime, Never

VARIABLES now, status, next, armed

Cron == INSTANCE Cadence

-----------------------------------------------------------------------------
(* The inductive invariant.                                                  *)

Paths == Seq(STRING)

Who == [kind : {"shell", "run", "agent"}, id : Nat]

Defs  == [name : Names, ended : BOOLEAN]
Runs  == [def : Nat, id : RunIds, status : {"running", "stopping", "ended"}]
Rows  == [path : Paths \ {<<>>}, status : {"active", "parked", "ended"}, caller : Who,
          rel : BOOLEAN, loopDir : BOOLEAN]
Calls == [path : Paths \ {<<>>}, caller : Who, rel : BOOLEAN, loopDir : BOOLEAN]
Kills == [phase : {"none", "list", "kill", "done"}, left : SUBSET Nat, killed : BOOLEAN]

TypeOK ==
  /\ defs \in Seq(Defs) /\ runs \in Seq(Runs) /\ agents \in Seq(Rows)
  /\ calls \subseteq Calls
  /\ kills \in Seq(Kills) /\ Len(kills) = Len(runs)
  /\ stopped \subseteq DOMAIN runs
  /\ \A r \in DOMAIN runs : runs[r].def \in DOMAIN defs

\* A name has one definition in force, an id one run, a path one active agent.
NamesUnique ==
  /\ \A d, e \in DOMAIN defs :
       ~defs[d].ended /\ ~defs[e].ended /\ defs[d].name = defs[e].name => d = e
  /\ \A r, q \in DOMAIN runs : runs[r].id = runs[q].id => r = q
  /\ \A a, b \in Active : agents[a].path = agents[b].path => a = b

\* The paths strictly below the one of a run.
Below(r, path) == Len(path) >= 3 /\ path[1] = RunPath(r)[1] /\ path[2] = RunPath(r)[2]

\* A relative path is below its caller's run, and in the run its calling agent
\* is in.
InScope(x) ==
  /\ x.caller.kind = "run" => x.caller.id \in DOMAIN runs
  /\ x.caller.kind = "agent" => x.caller.id \in DOMAIN agents
  /\ x.rel /\ x.caller.kind = "run" => Below(x.caller.id, x.path)
  /\ x.rel /\ x.caller.kind = "agent" =>
       LET up == agents[x.caller.id].path
       IN Len(up) >= 3 => Len(x.path) >= 3 /\ x.path[1] = up[1] /\ x.path[2] = up[2]

Lineage ==
  /\ \A call \in calls : InScope(call)
  /\ \A a \in DOMAIN agents : InScope(agents[a])
  /\ \A a \in DOMAIN agents : agents[a].caller.kind = "agent" => agents[a].caller.id < a

Family(r) == {a \in Active : Below(r, agents[a].path)}

\* A run whose stop has begun is not running; while its loop is defined, what is
\* left of its family is on the list of the kill in progress, and at the end
\* nothing is.
Stopping(r) ==
  /\ kills[r].phase # "none" \/ r \in stopped => runs[r].status # "running"
  /\ ~defs[runs[r].def].ended =>
       /\ kills[r].phase = "kill" => Family(r) \subseteq kills[r].left
       /\ kills[r].phase = "done" \/ r \in stopped => Family(r) = {}

IndInv ==
  TypeOK /\ NamesUnique /\ Lineage /\ \A r \in DOMAIN runs : Stopping(r)
-----------------------------------------------------------------------------
(* Sequences, names and scopes.                                              *)

\* What the types say of one entry.
LEMMA Entries ==
  ASSUME TypeOK
  PROVE  /\ DOMAIN defs = 1 .. Len(defs) /\ Len(defs) \in Nat
         /\ \A d \in DOMAIN defs : defs[d] \in Defs
         /\ DOMAIN runs = 1 .. Len(runs) /\ Len(runs) \in Nat
         /\ \A r \in DOMAIN runs : runs[r] \in Runs /\ runs[r].def \in DOMAIN defs
         /\ DOMAIN agents = 1 .. Len(agents) /\ Len(agents) \in Nat
         /\ \A a \in DOMAIN agents : agents[a] \in Rows
         /\ DOMAIN kills = DOMAIN runs
         /\ \A r \in DOMAIN runs : kills[r] \in Kills
<1>1. /\ DOMAIN defs = 1 .. Len(defs) /\ Len(defs) \in Nat
      /\ DOMAIN runs = 1 .. Len(runs) /\ Len(runs) \in Nat
      /\ DOMAIN agents = 1 .. Len(agents) /\ Len(agents) \in Nat
      /\ DOMAIN kills = 1 .. Len(kills) /\ Len(kills) = Len(runs)
  BY LenProperties DEF TypeOK
<1>2. \A d \in 1 .. Len(defs) : defs[d] \in Defs
  BY ElementOfSeq DEF TypeOK
<1>3. \A r \in 1 .. Len(runs) : runs[r] \in Runs
  BY ElementOfSeq DEF TypeOK
<1>4. \A a \in 1 .. Len(agents) : agents[a] \in Rows
  BY ElementOfSeq DEF TypeOK
<1>5. \A r \in 1 .. Len(kills) : kills[r] \in Kills
  BY ElementOfSeq DEF TypeOK
<1> QED
  BY <1>1, <1>2, <1>3, <1>4, <1>5 DEF TypeOK

\* A new entry at the end, and an entry changed.
LEMMA Appended ==
  ASSUME NEW S, NEW s \in Seq(S), NEW e \in S
  PROVE  /\ Append(s, e) \in Seq(S)
         /\ DOMAIN Append(s, e) = DOMAIN s \cup {Len(s) + 1}
         /\ Len(Append(s, e)) = Len(s) + 1
         /\ Len(s) + 1 \notin DOMAIN s
         /\ \A i \in DOMAIN s : Append(s, e)[i] = s[i]
         /\ Append(s, e)[Len(s) + 1] = e
  BY LenProperties

LEMMA Changed ==
  ASSUME NEW S, NEW s \in Seq(S), NEW i \in DOMAIN s, NEW e \in S
  PROVE  /\ [s EXCEPT ![i] = e] \in Seq(S)
         /\ DOMAIN [s EXCEPT ![i] = e] = DOMAIN s
         /\ Len([s EXCEPT ![i] = e]) = Len(s)
         /\ [s EXCEPT ![i] = e][i] = e
         /\ \A j \in DOMAIN s \ {i} : [s EXCEPT ![i] = e][j] = s[j]
<1>1. DOMAIN s = 1 .. Len(s)
  BY LenProperties
<1> QED
  BY <1>1, ExceptSeq

LEMMA Pairs ==
  ASSUME NEW S, NEW x \in S, NEW y \in S
  PROVE  <<x, y>> \in Seq(S) /\ Len(<<x, y>>) = 2 /\ <<x, y>>[1] = x /\ <<x, y>>[2] = y
OBVIOUS

\* The path of a run, and what lies below it.
LEMMA RunPaths ==
  ASSUME TypeOK, NEW r \in DOMAIN runs
  PROVE  /\ RunPath(r) \in Paths /\ Len(RunPath(r)) = 2
         /\ RunPath(r)[1] = defs[runs[r].def].name /\ RunPath(r)[2] = runs[r].id
         /\ RunPath(r)[1] \in Names /\ RunPath(r)[2] \in RunIds
<1>1. defs[runs[r].def].name \in Names /\ runs[r].id \in RunIds
  BY Entries DEF Defs, Runs
<1>2. defs[runs[r].def].name \in STRING /\ runs[r].id \in STRING
  BY <1>1, NamesAssumption
<1> QED
  BY <1>1, <1>2, Pairs DEF RunPath, Paths

\* An agent's scope is its path without the last segment.
LEMMA Fronts ==
  ASSUME NEW path \in Paths \ {<<>>}
  PROVE  /\ Front(path) \in Paths
         /\ Len(Front(path)) = Len(path) - 1 /\ Len(path) \in Nat /\ Len(path) >= 1
         /\ \A i \in 1 .. Len(path) - 1 : Front(path)[i] = path[i]
<1>1. /\ Len(path) \in Nat \ {0}
      /\ \A i \in 1 .. Len(path) : path[i] \in STRING
  BY EmptySeq, ElementOfSeq, LenProperties DEF Paths
<1>2. Front(path) = SubSeq(path, 1, Len(path) - 1)
  BY <1>1 DEF Front
<1>3. /\ SubSeq(path, 1, Len(path) - 1) \in Seq(STRING)
      /\ Len(SubSeq(path, 1, Len(path) - 1)) = Len(path) - 1
      /\ \A i \in 1 .. Len(path) - 1 : SubSeq(path, 1, Len(path) - 1)[i] = path[i]
  <2> DEFINE n == Len(path) - 1
  <2>1. n \in Int /\ \A i \in 1 .. n : path[i] \in STRING
    BY <1>1
  <2> HIDE DEF n
  <2>2. /\ SubSeq(path, 1, n) \in Seq(STRING)
        /\ Len(SubSeq(path, 1, n)) = IF 1 <= n THEN n - 1 + 1 ELSE 0
        /\ \A i \in 1 .. n - 1 + 1 : SubSeq(path, 1, n)[i] = path[1 + i - 1]
    BY <2>1, SubSeqProperties
  <2>3. 1 <= n => n - 1 + 1 = n
    BY <2>1
  <2>4. n >= 0
    BY <1>1 DEF n
  <2>5. \A i \in 1 .. n : SubSeq(path, 1, n)[i] = path[i]
    BY <2>1, <2>2
  <2>6. Len(SubSeq(path, 1, n)) = n
    BY <2>1, <2>2, <2>4
  <2> QED BY <2>2, <2>5, <2>6 DEF n
<1> QED
  BY <1>1, <1>2, <1>3 DEF Paths

\* The scope the SDK derives is the server's, whoever calls.
LEMMA ScopesOf ==
  ASSUME TypeOK, NEW c \in Callers
  PROVE  /\ c \in Who
         /\ ServerScope(c) \in Paths /\ ClientScope(Env(c)) = ServerScope(c)
         /\ c.kind = "run" => c.id \in DOMAIN runs /\ ServerScope(c) = RunPath(c.id)
         /\ c.kind = "agent" =>
              c.id \in DOMAIN agents /\ ServerScope(c) = Front(agents[c.id].path)
<1>1. CASE c = Shell
  <2>1. CallerPath(c) = <<>> /\ Env(c).path = <<>> /\ ServerScope(c) = <<>>
    BY <1>1 DEF Shell, CallerPath, Env, ServerScope, ScopeOfAgent
  <2>2. ClientScope(Env(c)) = <<>>
    BY <2>1 DEF ClientScope
  <2> QED BY <1>1, <2>1, <2>2 DEF Shell, Who, Paths
<1>2. ASSUME NEW r \in DOMAIN runs, c = [kind |-> "run", id |-> r]
      PROVE  /\ c \in Who
             /\ ServerScope(c) = RunPath(r) /\ ClientScope(Env(c)) = RunPath(r)
             /\ RunPath(r) \in Paths
  <2>1. CallerPath(c) = RunPath(r) /\ c.kind = "run"
    BY <1>2 DEF CallerPath
  <2>2. RunPath(r) \in Paths /\ RunPath(r) # <<>>
    BY RunPaths, EmptySeq
  <2>3. Env(c) = [path |-> RunPath(r), agentDir |-> FALSE, loopDir |-> TRUE]
    BY <2>1 DEF Env, RunEnv
  <2>4. ClientScope(Env(c)) = RunPath(r)
    BY <2>2, <2>3 DEF ClientScope
  <2>5. r \in Nat
    BY Entries
  <2> QED BY <1>2, <2>1, <2>2, <2>4, <2>5 DEF ServerScope, Who
<1>3. ASSUME NEW a \in DOMAIN agents, c = [kind |-> "agent", id |-> a]
      PROVE  /\ c \in Who
             /\ ServerScope(c) = Front(agents[a].path)
             /\ ClientScope(Env(c)) = Front(agents[a].path)
             /\ Front(agents[a].path) \in Paths
  <2>1. agents[a].path \in Paths \ {<<>>} /\ a \in Nat
    BY Entries DEF Rows
  <2>2. CallerPath(c) = agents[a].path /\ c.kind = "agent" /\ c.id = a
    BY <1>3 DEF CallerPath
  <2>3. Env(c) = [path |-> agents[a].path, agentDir |-> TRUE, loopDir |-> agents[a].loopDir]
    BY <2>2 DEF Env
  <2>4. ClientScope(Env(c)) = Front(agents[a].path)
    BY <2>1, <2>3 DEF ClientScope, ScopeOfAgent
  <2>5. ServerScope(c) = Front(agents[a].path)
    BY <2>1, <2>2 DEF ServerScope, ScopeOfAgent
  <2> QED BY <1>3, <2>1, <2>4, <2>5, Fronts DEF Who
<1>4. \/ c = Shell
      \/ \E r \in DOMAIN runs : c = [kind |-> "run", id |-> r]
      \/ \E a \in DOMAIN agents : c = [kind |-> "agent", id |-> a]
  BY DEF Callers, Active
<1>5. CASE \E r \in DOMAIN runs : c = [kind |-> "run", id |-> r]
  <2>1. PICK r \in DOMAIN runs : c = [kind |-> "run", id |-> r]
    BY <1>5
  <2>2. c.kind = "run" /\ c.id = r
    BY <2>1
  <2> QED BY <1>2, <2>1, <2>2
<1>6. CASE \E a \in DOMAIN agents : c = [kind |-> "agent", id |-> a]
  <2>1. PICK a \in DOMAIN agents : c = [kind |-> "agent", id |-> a]
    BY <1>6
  <2>2. c.kind = "agent" /\ c.id = a
    BY <2>1
  <2> QED BY <1>3, <2>1, <2>2
<1> QED BY <1>1, <1>4, <1>5, <1>6 DEF Shell

-----------------------------------------------------------------------------
(* The pattern matcher (path.rs Pattern::matches) by what it decides: a      *)
(* path is dealt out to the segments of the pattern.  Covers says so of the  *)
(* whole path; Dealt of what is left from position s for the rest of the     *)
(* pattern from p on, which is what the matcher's table holds.               *)

(* A set of numbers has a least one. *)
LEMMA Least ==
  ASSUME NEW T \in SUBSET Nat, T # {}
  PROVE  \E m \in T : \A k \in T : m <= k
<1> DEFINE less == {p \in Nat \X Nat : p[1] < p[2]}
<1>1. IsWellFoundedOn(less, Nat)
  <2>1. OpToRel(<, Nat) = less
    BY DEF OpToRel
  <2> QED BY <2>1, NatLessThanWellFounded
<1> HIDE DEF less
<1>2. PICK m \in T : \A y \in T : ~(<<y, m>> \in less)
  BY <1>1, WFMin
<1>3. ASSUME NEW k \in T, k < m PROVE FALSE
  <2>1. <<k, m>> \in less
    BY <1>3 DEF less
  <2> QED BY <1>2, <2>1
<1> QED BY <1>3

(* A set of numbers that holds 0 and the successor of each member holds all. *)
LEMMA AllNumbers ==
  ASSUME NEW G, 0 \in G, \A n \in Nat : n \in G => n + 1 \in G
  PROVE  Nat \subseteq G
<1> SUFFICES ASSUME Nat \ G # {} PROVE FALSE
  OBVIOUS
<1>1. PICK m \in Nat \ G : \A k \in Nat \ G : m <= k
  BY Least
<1>2. m - 1 \in Nat /\ (m - 1) + 1 = m
  BY <1>1
<1> QED BY <1>1, <1>2

\* f deals the segments of the path from s on, in order, to those of the pattern from p on.
Deals(pattern, path, p, s, f) ==
  /\ f \in [s .. Len(path) -> p .. Len(pattern)]
  /\ \A i, j \in s .. Len(path) : i < j => f[i] <= f[j]
  /\ \A i, j \in s .. Len(path) : i # j /\ f[i] = f[j] => pattern[f[i]] = "**"
  /\ \A q \in p .. Len(pattern) : \E i \in s .. Len(path) : f[i] = q
  /\ \A i \in s .. Len(path) : pattern[f[i]] \in {"*", "**", path[i]}

Dealt(pattern, path, p, s) == \E f : Deals(pattern, path, p, s, f)

(* Nothing is left of the pattern: nothing may be left of the path. *)
LEMMA DealtNothing ==
  ASSUME NEW pattern, Len(pattern) \in Nat, NEW path \in Paths, NEW s \in 1 .. Len(path) + 1
  PROVE  Dealt(pattern, path, Len(pattern) + 1, s) <=> s = Len(path) + 1
<1> DEFINE L == Len(pattern)  M == Len(path)
<1>1. L \in Nat /\ M \in Nat
  BY DEF Paths
<1> HIDE DEF L, M
<1>2. ASSUME s = M + 1 PROVE Dealt(pattern, path, L + 1, s)
  <2> DEFINE f == [i \in s .. M |-> 0]
  <2>1. s .. M = {} /\ L + 1 .. L = {}
    BY <1>1, <1>2
  <2>2. f \in [s .. M -> L + 1 .. L]
    BY <2>1
  <2> HIDE DEF f
  <2>3. Deals(pattern, path, L + 1, s, f)
    BY <2>1, <2>2 DEF Deals, L, M
  <2> QED BY <2>3 DEF Dealt
<1>3. ASSUME s <= M, NEW f, Deals(pattern, path, L + 1, s, f) PROVE FALSE
  <2>1. s \in s .. M /\ f \in [s .. M -> L + 1 .. L]
    BY <1>1, <1>3 DEF Deals, L, M
  <2>2. f[s] \in L + 1 .. L
    BY <2>1
  <2> QED BY <1>1, <2>2
<1> QED BY <1>1, <1>2, <1>3 DEF Dealt, L, M

(* A segment other than `**` takes the next segment of the path. *)
LEMMA DealtOne ==
  ASSUME NEW pattern, Len(pattern) \in Nat, NEW path \in Paths,
         NEW p \in 1 .. Len(pattern), NEW s \in 1 .. Len(path) + 1, pattern[p] # "**"
  PROVE  Dealt(pattern, path, p, s) <=>
           s <= Len(path) /\ pattern[p] \in {"*", path[s]} /\ Dealt(pattern, path, p + 1, s + 1)
<1> DEFINE L == Len(pattern)  M == Len(path)
<1>1. L \in Nat /\ M \in Nat /\ p \in 1 .. L /\ s \in 1 .. M + 1
  BY DEF Paths
<1> HIDE DEF L, M
<1>2. ASSUME NEW f, Deals(pattern, path, p, s, f)
      PROVE  s <= M /\ pattern[p] \in {"*", path[s]} /\ Dealt(pattern, path, p + 1, s + 1)
  <2> DEFINE g == [i \in s + 1 .. M |-> f[i]]
  <2>1. /\ f \in [s .. M -> p .. L]
        /\ \A i, j \in s .. M : i < j => f[i] <= f[j]
        /\ \A i, j \in s .. M : i # j /\ f[i] = f[j] => pattern[f[i]] = "**"
        /\ \A q \in p .. L : \E i \in s .. M : f[i] = q
        /\ \A i \in s .. M : pattern[f[i]] \in {"*", "**", path[i]}
    BY <1>2 DEF Deals, L, M
  <2>2. PICK i \in s .. M : f[i] = p
    BY <1>1, <2>1
  <2>3. s \in s .. M /\ s <= M
    BY <1>1, <2>2
  <2>4. f[s] = p
    <3>1. f[s] <= f[i]
      BY <1>1, <2>1, <2>2, <2>3
    <3>2. f[s] \in p .. L
      BY <2>1, <2>3
    <3> QED BY <1>1, <2>2, <3>1, <3>2
  <2>5. \A j \in s + 1 .. M : j \in s .. M /\ f[j] \in p + 1 .. L
    <3> SUFFICES ASSUME NEW j \in s + 1 .. M PROVE j \in s .. M /\ f[j] \in p + 1 .. L
      OBVIOUS
    <3>1. j \in s .. M /\ j # s
      BY <1>1
    <3>2. f[j] \in p .. L /\ f[j] # p
      BY <2>1, <2>3, <2>4, <3>1
    <3> QED BY <1>1, <3>1, <3>2
  <2>6. g \in [s + 1 .. M -> p + 1 .. L] /\ \A j \in s + 1 .. M : g[j] = f[j]
    BY <2>5
  <2>7. \A q \in p + 1 .. L : \E j \in s + 1 .. M : g[j] = q
    <3> SUFFICES ASSUME NEW q \in p + 1 .. L PROVE \E j \in s + 1 .. M : f[j] = q
      BY <2>6
    <3>1. PICK j \in s .. M : f[j] = q
      BY <1>1, <2>1
    <3>2. j # s
      BY <1>1, <2>4, <3>1
    <3> QED BY <1>1, <3>1, <3>2
  <2> HIDE DEF g
  <2>8. /\ \A i1, j1 \in s + 1 .. M : i1 < j1 => g[i1] <= g[j1]
        /\ \A i1, j1 \in s + 1 .. M : i1 # j1 /\ g[i1] = g[j1] => pattern[g[i1]] = "**"
        /\ \A i1 \in s + 1 .. M : pattern[g[i1]] \in {"*", "**", path[i1]}
    BY <2>1, <2>5, <2>6
  <2>9. Deals(pattern, path, p + 1, s + 1, g)
    BY <2>6, <2>7, <2>8 DEF Deals, L, M
  <2> QED BY <2>1, <2>3, <2>4, <2>9 DEF Dealt
<1>3. ASSUME s <= M, pattern[p] \in {"*", path[s]}, NEW g, Deals(pattern, path, p + 1, s + 1, g)
      PROVE  Dealt(pattern, path, p, s)
  <2> DEFINE f == [i \in s .. M |-> IF i = s THEN p ELSE g[i]]
  <2>1. /\ g \in [s + 1 .. M -> p + 1 .. L]
        /\ \A i, j \in s + 1 .. M : i < j => g[i] <= g[j]
        /\ \A i, j \in s + 1 .. M : i # j /\ g[i] = g[j] => pattern[g[i]] = "**"
        /\ \A q \in p + 1 .. L : \E i \in s + 1 .. M : g[i] = q
        /\ \A i \in s + 1 .. M : pattern[g[i]] \in {"*", "**", path[i]}
    BY <1>3 DEF Deals, L, M
  <2>2. s .. M = {s} \cup (s + 1 .. M) /\ p .. L = {p} \cup (p + 1 .. L)
    BY <1>1, <1>3
  <2>3. f[s] = p /\ \A i \in s + 1 .. M : f[i] = g[i] /\ g[i] \in p + 1 .. L
    BY <1>1, <1>3, <2>1
  <2>4. f \in [s .. M -> p .. L]
    BY <2>2, <2>3
  <2> HIDE DEF f
  <2>5. ASSUME NEW i \in s .. M, NEW j \in s .. M, i < j PROVE f[i] <= f[j]
    <3>1. j \in s + 1 .. M
      BY <1>1, <2>5
    <3>2. CASE i = s
      BY <1>1, <2>3, <3>1, <3>2
    <3>3. CASE i \in s + 1 .. M
      BY <2>1, <2>3, <2>5, <3>1, <3>3
    <3> QED BY <2>2, <3>2, <3>3
  <2>6. ASSUME NEW i \in s .. M, NEW j \in s .. M, i # j, f[i] = f[j] PROVE pattern[f[i]] = "**"
    <3>1. \A k \in s + 1 .. M : f[k] # f[s]
      BY <1>1, <2>3
    <3>2. i \in s + 1 .. M /\ j \in s + 1 .. M
      BY <2>2, <2>6, <3>1
    <3> QED BY <2>1, <2>3, <2>6, <3>2
  <2>7. \A q \in p .. L : \E i \in s .. M : f[i] = q
    BY <1>1, <2>1, <2>2, <2>3
  <2>8. \A i \in s .. M : pattern[f[i]] \in {"*", "**", path[i]}
    BY <1>3, <2>1, <2>2, <2>3
  <2>9. Deals(pattern, path, p, s, f)
    BY <2>4, <2>5, <2>6, <2>7, <2>8 DEF Deals, L, M
  <2> QED BY <2>9 DEF Dealt
<1> QED BY <1>2, <1>3 DEF Dealt, L, M

(* `**` takes one or more segments of the path. *)
LEMMA DealtMany ==
  ASSUME NEW pattern, Len(pattern) \in Nat, NEW path \in Paths,
         NEW p \in 1 .. Len(pattern), NEW s \in 1 .. Len(path) + 1, pattern[p] = "**"
  PROVE  Dealt(pattern, path, p, s) <=>
           \E t \in s + 1 .. Len(path) + 1 : Dealt(pattern, path, p + 1, t)
<1> DEFINE L == Len(pattern)  M == Len(path)
<1>1. L \in Nat /\ M \in Nat /\ p \in 1 .. L /\ s \in 1 .. M + 1
  BY DEF Paths
<1> HIDE DEF L, M
<1>2. ASSUME NEW f, Deals(pattern, path, p, s, f)
      PROVE  \E t \in s + 1 .. M + 1 : Dealt(pattern, path, p + 1, t)
  <2>1. /\ f \in [s .. M -> p .. L]
        /\ \A i, j \in s .. M : i < j => f[i] <= f[j]
        /\ \A i, j \in s .. M : i # j /\ f[i] = f[j] => pattern[f[i]] = "**"
        /\ \A q \in p .. L : \E i \in s .. M : f[i] = q
        /\ \A i \in s .. M : pattern[f[i]] \in {"*", "**", path[i]}
    BY <1>2 DEF Deals, L, M
  <2>2. PICK i \in s .. M : f[i] = p
    BY <1>1, <2>1
  <2>3. s \in s .. M /\ s <= M
    BY <1>1, <2>2
  <2>4. f[s] = p
    <3>1. f[s] <= f[i]
      BY <1>1, <2>1, <2>2, <2>3
    <3>2. f[s] \in p .. L
      BY <2>1, <2>3
    <3> QED BY <1>1, <2>2, <3>1, <3>2
  <2> DEFINE T == {k \in s .. M : f[k] > p} \cup {M + 1}
  <2>5. PICK t \in T : \A k \in T : t <= k
    <3>1. T \in SUBSET Nat /\ T # {}
      BY <1>1
    <3> HIDE DEF T
    <3> QED BY <3>1, Least
  <2>6. t \in s + 1 .. M + 1
    BY <1>1, <2>3, <2>4, <2>5
  <2>7. \A j \in t .. M : j \in s .. M /\ f[j] \in p + 1 .. L
    <3> SUFFICES ASSUME NEW j \in t .. M PROVE j \in s .. M /\ f[j] \in p + 1 .. L
      OBVIOUS
    <3>1. j \in s .. M /\ t \in s .. M
      BY <1>1, <2>6
    <3>2. f[t] > p
      BY <1>1, <2>5, <3>1
    <3>3. f[t] \in p .. L /\ f[j] \in p .. L /\ f[t] <= f[j]
      <4>1. f[t] \in p .. L /\ f[j] \in p .. L
        BY <2>1, <3>1
      <4>2. CASE t = j
        BY <1>1, <4>1, <4>2
      <4>3. CASE t < j
        BY <2>1, <3>1, <4>1, <4>3
      <4> QED BY <1>1, <3>1, <4>2, <4>3
    <3> QED BY <1>1, <3>1, <3>2, <3>3
  <2> DEFINE g == [j \in t .. M |-> f[j]]
  <2>8. g \in [t .. M -> p + 1 .. L] /\ \A j \in t .. M : g[j] = f[j]
    BY <2>7
  <2>9. \A q \in p + 1 .. L : \E j \in t .. M : g[j] = q
    <3> SUFFICES ASSUME NEW q \in p + 1 .. L PROVE \E j \in t .. M : f[j] = q
      BY <2>8
    <3>1. PICK j \in s .. M : f[j] = q
      BY <1>1, <2>1
    <3>2. j \in T
      BY <1>1, <3>1
    <3>3. t <= j
      BY <2>5, <3>2
    <3> QED BY <1>1, <2>6, <3>1, <3>3
  <2> HIDE DEF g
  <2>10. /\ \A i1, j1 \in t .. M : i1 < j1 => g[i1] <= g[j1]
         /\ \A i1, j1 \in t .. M : i1 # j1 /\ g[i1] = g[j1] => pattern[g[i1]] = "**"
         /\ \A i1 \in t .. M : pattern[g[i1]] \in {"*", "**", path[i1]}
    BY <2>1, <2>7, <2>8
  <2>11. Deals(pattern, path, p + 1, t, g)
    BY <2>8, <2>9, <2>10 DEF Deals, L, M
  <2> QED BY <2>6, <2>11 DEF Dealt
<1>3. ASSUME NEW t \in s + 1 .. M + 1, NEW g, Deals(pattern, path, p + 1, t, g)
      PROVE  Dealt(pattern, path, p, s)
  <2> DEFINE f == [i \in s .. M |-> IF i < t THEN p ELSE g[i]]
  <2>1. /\ g \in [t .. M -> p + 1 .. L]
        /\ \A i, j \in t .. M : i < j => g[i] <= g[j]
        /\ \A i, j \in t .. M : i # j /\ g[i] = g[j] => pattern[g[i]] = "**"
        /\ \A q \in p + 1 .. L : \E i \in t .. M : g[i] = q
        /\ \A i \in t .. M : pattern[g[i]] \in {"*", "**", path[i]}
    BY <1>3 DEF Deals, L, M
  <2>2. /\ s .. M = (s .. t - 1) \cup (t .. M) /\ (s .. t - 1) \cap (t .. M) = {}
        /\ p .. L = {p} \cup (p + 1 .. L) /\ s \in s .. t - 1
        /\ \A i \in s .. t - 1, j \in t .. M : i < j
    BY <1>1, <1>3
  <2>3. /\ \A i \in s .. t - 1 : f[i] = p
        /\ \A i \in t .. M : f[i] = g[i] /\ g[i] \in p + 1 .. L
    <3>1. \A i \in t .. M : g[i] \in p + 1 .. L
      BY <2>1
    <3> QED BY <1>1, <1>3, <2>2, <3>1
  <2>4. f \in [s .. M -> p .. L]
    BY <2>2, <2>3
  <2> HIDE DEF f
  <2>5. ASSUME NEW i \in s .. M, NEW j \in s .. M, i < j PROVE f[i] <= f[j]
    <3>1. CASE i \in s .. t - 1 /\ j \in s .. t - 1
      BY <1>1, <2>3, <3>1
    <3>2. CASE i \in s .. t - 1 /\ j \in t .. M
      BY <1>1, <2>3, <3>2
    <3>3. CASE i \in t .. M
      <4>1. j \in t .. M
        BY <1>1, <1>3, <2>5, <3>3
      <4> QED BY <2>1, <2>3, <2>5, <3>3, <4>1
    <3> QED BY <2>2, <3>1, <3>2, <3>3
  <2>6. ASSUME NEW i \in s .. M, NEW j \in s .. M, i # j, f[i] = f[j] PROVE pattern[f[i]] = "**"
    <3>1. CASE i \in s .. t - 1
      BY <2>3, <3>1
    <3>2. CASE i \in t .. M
      <4>1. j \in t .. M
        BY <1>1, <2>2, <2>3, <2>6, <3>2
      <4> QED BY <2>1, <2>3, <2>6, <3>2, <4>1
    <3> QED BY <2>2, <3>1, <3>2
  <2>7. \A q \in p .. L : \E i \in s .. M : f[i] = q
    <3> SUFFICES ASSUME NEW q \in p .. L PROVE \E i \in s .. M : f[i] = q
      OBVIOUS
    <3>1. CASE q = p
      BY <2>2, <2>3, <3>1
    <3>2. CASE q \in p + 1 .. L
      BY <2>1, <2>2, <2>3, <3>2
    <3> QED BY <2>2, <3>1, <3>2
  <2>8. \A i \in s .. M : pattern[f[i]] \in {"*", "**", path[i]}
    <3>1. \A i \in s .. t - 1 : pattern[f[i]] = "**"
      BY <2>3
    <3> QED BY <2>1, <2>2, <2>3, <3>1
  <2>9. Deals(pattern, path, p, s, f)
    BY <2>4, <2>5, <2>6, <2>7, <2>8 DEF Deals, L, M
  <2> QED BY <2>9 DEF Dealt
<1> QED BY <1>2, <1>3 DEF Dealt, L, M

(* The matcher's table holds, for each suffix of the pattern, where in the   *)
(* path a deal to it may begin.                                              *)
LEMMA MatchesDeals ==
  ASSUME NEW pattern, Len(pattern) \in Nat, NEW path \in Paths
  PROVE  Matches(pattern, path) <=> Dealt(pattern, path, 1, 1)
<1> DEFINE
  L == Len(pattern)
  M == Len(path)
  row(rest, p) == IF pattern[p] = "**" THEN {s \in 1 .. M : \E t \in rest : s < t}
                  ELSE {s \in 1 .. M : pattern[p] \in {"*", path[s]} /\ s + 1 \in rest}
  entry(m, p) == IF p > L THEN {M + 1} ELSE row(m[p + 1], p)
  match == CHOOSE m : m = [p \in 1 .. L + 1 |-> entry(m, p)]
<1>1. Matches(pattern, path) <=> 1 \in match[1]
  BY DEF Matches
<1>2. L \in Nat /\ M \in Nat
  BY DEF Paths
<1>3. \E m : m = [p \in 1 .. L + 1 |-> entry(m, p)]
  <2> DEFINE G == {k \in Nat : k <= L => \E m : m = [p \in L + 1 - k .. L + 1 |-> entry(m, p)]}
  <2>1. 0 \in G
    <3> DEFINE m == [p \in L + 1 - 0 .. L + 1 |-> {M + 1}]
    <3>1. m = [p \in L + 1 - 0 .. L + 1 |-> entry(m, p)]
      <4> HIDE DEF L, M, row
      <4> QED BY <1>2
    <3> HIDE DEF m, entry
    <3> QED BY <3>1
  <2>2. ASSUME NEW k \in Nat, k \in G PROVE k + 1 \in G
    <3> SUFFICES ASSUME k + 1 <= L
                 PROVE  \E m : m = [p \in L + 1 - (k + 1) .. L + 1 |-> entry(m, p)]
      <4> HIDE DEF entry
      <4> QED OBVIOUS
    <3> HIDE DEF L, M, row
    <3>1. PICK f : f = [p \in L + 1 - k .. L + 1 |-> entry(f, p)]
      BY <1>2, <2>2
    <3>2. PICK l \in 1 .. L : l = L - k
      BY <1>2
    <3>3. L + 1 - k = l + 1 /\ L + 1 - (k + 1) = l
      BY <1>2, <3>2
    <3> DEFINE g == [p \in l .. L + 1 |-> IF p = l THEN row(f[l + 1], l) ELSE f[p]]
    <3>4. \A p \in l + 1 .. L + 1 : f[p] = entry(f, p)
      <4> HIDE DEF entry
      <4> QED BY <3>1, <3>3
    <3>5. \A p \in l .. L + 1 : g[p] = entry(g, p)
      <4>1. g[l] = row(f[l + 1], l) /\ \A p \in l + 1 .. L + 1 : g[p] = f[p]
        BY <1>2, <3>2
      <4> HIDE DEF g
      <4>2. g[l] = entry(g, l)
        BY <1>2, <3>2, <4>1
      <4>3. ASSUME NEW p \in l + 1 .. L + 1 PROVE g[p] = entry(g, p)
        <5>1. g[p] = entry(f, p) /\ g[p] = f[p]
          <6> HIDE DEF entry
          <6> QED BY <3>4, <4>1
        <5>2. CASE p > L
          BY <5>1, <5>2
        <5>3. CASE ~(p > L)
          <6>1. p + 1 \in l + 1 .. L + 1
            BY <1>2, <3>2, <5>3
          <6>2. g[p + 1] = f[p + 1]
            BY <4>1, <6>1
          <6> QED BY <5>1, <5>3, <6>2
        <5> QED BY <5>2, <5>3
      <4>4. l .. L + 1 = {l} \cup (l + 1 .. L + 1)
        BY <1>2, <3>2
      <4> HIDE DEF entry
      <4> QED BY <4>2, <4>3, <4>4
    <3>6. g = [p \in l .. L + 1 |-> entry(g, p)]
      <4>1. g = [p \in l .. L + 1 |-> g[p]]
        OBVIOUS
      <4> HIDE DEF g, entry
      <4> QED BY <3>5, <4>1
    <3> HIDE DEF g, entry
    <3> QED BY <3>3, <3>6
  <2> HIDE DEF entry, L
  <2>3. L \in G
    <3>1. Nat \subseteq G
      <4> HIDE DEF G
      <4> QED BY <2>1, <2>2, AllNumbers
    <3> QED BY <1>2, <3>1
  <2>4. L + 1 - L = 1
    BY <1>2
  <2> QED BY <1>2, <2>3, <2>4
<1>4. match = [p \in 1 .. L + 1 |-> entry(match, p)]
  <2> HIDE DEF entry, L
  <2> QED BY <1>3
<1> HIDE DEF match
<1>5. \A p \in 1 .. L + 1 : match[p] = entry(match, p)
  <2> HIDE DEF entry, L
  <2> QED BY <1>4
<1> DEFINE from(p) == {s \in 1 .. M + 1 : Dealt(pattern, path, p, s)}
<1> DEFINE H == {k \in Nat : k <= L => match[L + 1 - k] = from(L + 1 - k)}
<1>6. 0 \in H
  <2>1. from(L + 1) = {M + 1}
    BY <1>2, DealtNothing
  <2>2. match[L + 1] = {M + 1}
    <3> HIDE DEF L, M, row
    <3> QED BY <1>2, <1>5
  <2> HIDE DEF from, L, M
  <2>3. L + 1 - 0 = L + 1
    BY <1>2
  <2> QED BY <2>1, <2>2, <2>3
<1>7. ASSUME NEW k \in Nat, k \in H PROVE k + 1 \in H
  <2> SUFFICES ASSUME k + 1 <= L PROVE match[L + 1 - (k + 1)] = from(L + 1 - (k + 1))
    OBVIOUS
  <2>1. PICK l \in 1 .. L : l = L - k
    BY <1>2
  <2>2. L + 1 - k = l + 1 /\ L + 1 - (k + 1) = l
    BY <1>2, <2>1
  <2>3. match[l + 1] = from(l + 1)
    <3> HIDE DEF from, L
    <3> QED BY <1>2, <1>7, <2>2
  <2>4. match[l] = row(from(l + 1), l)
    <3> HIDE DEF row, from, L, M
    <3> QED BY <1>2, <1>5, <2>1, <2>3
  <2>5. row(from(l + 1), l) = from(l)
    <3>1. CASE pattern[l] = "**"
      <4>1. \A s \in 1 .. M + 1 : Dealt(pattern, path, l, s) <=>
              \E t \in s + 1 .. M + 1 : Dealt(pattern, path, l + 1, t)
        BY <3>1, DealtMany
      <4> HIDE DEF L, M
      <4>2. from(l) = {s \in 1 .. M + 1 : \E t \in s + 1 .. M + 1 : Dealt(pattern, path, l + 1, t)}
        BY <4>1
      <4>3. row(from(l + 1), l) = {s \in 1 .. M : \E t \in from(l + 1) : s < t}
        BY <3>1
      <4> QED BY <1>2, <4>2, <4>3
    <3>2. CASE pattern[l] # "**"
      <4>1. \A s \in 1 .. M + 1 : Dealt(pattern, path, l, s) <=>
              s <= M /\ pattern[l] \in {"*", path[s]} /\ Dealt(pattern, path, l + 1, s + 1)
        BY <3>2, DealtOne
      <4> HIDE DEF L, M
      <4>2. row(from(l + 1), l)
              = {s \in 1 .. M : pattern[l] \in {"*", path[s]} /\ s + 1 \in from(l + 1)}
        BY <3>2
      <4> QED BY <1>2, <4>1, <4>2
    <3> QED BY <3>1, <3>2
  <2> HIDE DEF from, row, L
  <2> QED BY <2>2, <2>4, <2>5
<1>8. L \in H
  <2>1. Nat \subseteq H
    <3> HIDE DEF H
    <3> QED BY <1>6, <1>7, AllNumbers
  <2> HIDE DEF H
  <2> QED BY <1>2, <2>1
<1>9. match[1] = from(1)
  <2>1. L + 1 - L = 1
    BY <1>2
  <2> HIDE DEF from, L
  <2> QED BY <1>2, <1>8, <2>1
<1> QED BY <1>1, <1>2, <1>9

\* The pattern matcher on a run's glob.
LEMMA GlobMatch ==
  ASSUME NEW pattern, Len(pattern) = 3, pattern[3] = "**",
         pattern[1] \notin {"*", "**"}, pattern[2] \notin {"*", "**"}, NEW path \in Paths
  PROVE  Matches(pattern, path) <=>
           (Len(path) >= 3 /\ path[1] = pattern[1] /\ path[2] = pattern[2])
<1> DEFINE M == Len(path)
<1>1. M \in Nat
  BY DEF Paths
<1>2. Dealt(pattern, path, 1, 1) <=> (1 <= M /\ pattern[1] = path[1] /\ Dealt(pattern, path, 2, 2))
  BY <1>1, DealtOne
<1>3. 1 <= M => (Dealt(pattern, path, 2, 2) <=>
                   (2 <= M /\ pattern[2] = path[2] /\ Dealt(pattern, path, 3, 3)))
  BY <1>1, DealtOne
<1>4. 2 <= M => (Dealt(pattern, path, 3, 3) <=> \E t \in 4 .. M + 1 : Dealt(pattern, path, 4, t))
  <2> SUFFICES ASSUME 2 <= M
               PROVE  Dealt(pattern, path, 3, 3) <=> \E t \in 4 .. M + 1 : Dealt(pattern, path, 4, t)
    OBVIOUS
  <2>1. PICK p \in 1 .. Len(pattern) : p = 3
    OBVIOUS
  <2>2. PICK s \in 1 .. M + 1 : s = 3
    BY <1>1
  <2>3. Dealt(pattern, path, p, s) <=> \E t \in s + 1 .. M + 1 : Dealt(pattern, path, p + 1, t)
    <3>1. pattern[p] = "**" /\ Len(pattern) \in Nat
      BY <2>1
    <3> QED BY <3>1, DealtMany
  <2>4. p + 1 = 4 /\ s + 1 = 4
    BY <2>1, <2>2
  <2> QED BY <2>1, <2>2, <2>3, <2>4
<1>5. \A t \in 1 .. M + 1 : Dealt(pattern, path, 4, t) <=> t = M + 1
  <2>1. \A t \in 1 .. M + 1 : Dealt(pattern, path, Len(pattern) + 1, t) <=> t = M + 1
    <3>1. Len(pattern) \in Nat
      OBVIOUS
    <3> QED BY <3>1, DealtNothing
  <2>2. Len(pattern) + 1 = 4
    OBVIOUS
  <2> QED BY <2>1, <2>2
<1> HIDE DEF M
<1>6. (\E t \in 4 .. M + 1 : Dealt(pattern, path, 4, t)) <=> M >= 3
  BY <1>1, <1>5
<1> QED BY <1>1, <1>2, <1>3, <1>4, <1>6, MatchesDeals DEF M

\* A run's glob matches its family.
LEMMA GlobBelow ==
  ASSUME TypeOK, NEW r \in DOMAIN runs
  PROVE  Matched(RunGlob(r)) = Family(r)
<1> DEFINE S == Names \cup RunIds \cup {"**"}
<1>1. /\ RunPath(r)[1] \in Names /\ RunPath(r)[2] \in RunIds /\ Len(RunPath(r)) = 2
      /\ RunPath(r) = <<RunPath(r)[1], RunPath(r)[2]>>
  BY RunPaths DEF RunPath
<1>2. RunPath(r)[1] \notin {"*", "**"} /\ RunPath(r)[2] \notin {"*", "**"}
  BY <1>1, NamesAssumption
<1>3. /\ Len(RunGlob(r)) = 3 /\ RunGlob(r)[3] = "**"
      /\ RunGlob(r)[1] = RunPath(r)[1] /\ RunGlob(r)[2] = RunPath(r)[2]
  <2>1. RunPath(r)[1] \in S /\ RunPath(r)[2] \in S /\ "**" \in S
    BY <1>1
  <2> HIDE DEF S
  <2>2. RunPath(r) \in Seq(S)
    BY <1>1, <2>1, Pairs
  <2>3. /\ Len(RunGlob(r)) = 3 /\ RunGlob(r)[3] = "**"
        /\ \A k \in DOMAIN RunPath(r) : RunGlob(r)[k] = RunPath(r)[k]
    BY <1>1, <2>1, <2>2, Appended DEF RunGlob
  <2>4. DOMAIN RunPath(r) = 1 .. 2
    BY <1>1, <2>2, LenProperties
  <2> QED BY <2>3, <2>4
<1>4. \A a \in Active : agents[a].path \in Paths
  BY Entries DEF Active, Rows
<1>5. ASSUME NEW a \in Active
      PROVE  Matches(RunGlob(r), agents[a].path) <=> Below(r, agents[a].path)
  BY <1>2, <1>3, <1>4, GlobMatch DEF Below
<1> QED BY <1>5 DEF Matched, Family

\* find_loop_by_name finds the definition in force.
LEMMA FindsLive ==
  ASSUME TypeOK, NamesUnique, NEW d \in DOMAIN defs, ~defs[d].ended
  PROVE  FindLoop(defs[d].name) = d
<1> DEFINE name == defs[d].name
           named == {e \in DOMAIN defs : defs[e].name = name}
           live == {e \in named : ~defs[e].ended}
           found(e) == \/ e \in live
                       \/ live = {} /\ e \in named /\ \A f \in named : f <= e
                       \/ named = {} /\ e = 0
<1>1. d \in live /\ d \in named
  OBVIOUS
<1>2. \A e \in live : e = d
  BY DEF NamesUnique
<1>3. d \in 0 .. Len(defs)
  BY Entries
<1>4. FindLoop(name) = CHOOSE e \in 0 .. Len(defs) : found(e)
  BY DEF FindLoop
<1>5. \A e : found(e) <=> e = d
  <2> HIDE DEF named, live
  <2> QED BY <1>1, <1>2
<1>6. (CHOOSE e \in 0 .. Len(defs) : found(e)) = d
  <2> HIDE DEF found
  <2> QED BY <1>3, <1>5
<1> HIDE DEF found
<1> QED BY <1>4, <1>6

\* A name in force is the name of a definition in force.
LEMMA LiveName ==
  ASSUME TypeOK, NamesUnique, NEW name \in ActiveNames
  PROVE  /\ FindLoop(name) \in DOMAIN defs
         /\ ~defs[FindLoop(name)].ended /\ defs[FindLoop(name)].name = name
<1>1. PICK d \in DOMAIN defs : ~defs[d].ended /\ defs[d].name = name
  BY DEF ActiveNames
<1> QED BY <1>1, FindsLive

\* The barrier: no request is admitted below a run that is not running, while
\* its loop is defined.
LEMMA Barrier ==
  ASSUME TypeOK, NamesUnique, NEW call \in Calls, Admissible(call),
         NEW r \in DOMAIN runs, ~defs[runs[r].def].ended, Below(r, call.path)
  PROVE  runs[r].status = "running"
<1> DEFINE d == runs[r].def
<1>1. d \in DOMAIN defs /\ call.path[1] = defs[d].name /\ call.path[2] = runs[r].id
  BY RunPaths DEF Below, TypeOK
<1>2. call.path[1] \in ActiveNames
  BY <1>1 DEF ActiveNames
<1>3. PICK q \in RunIn(FindLoop(call.path[1]), call.path[2]) : runs[q].status = "running"
  BY <1>2 DEF Admissible
<1>4. q \in DOMAIN runs /\ runs[q].id = runs[r].id
  BY <1>1, <1>3 DEF RunIn
<1> QED BY <1>3, <1>4 DEF NamesUnique

-----------------------------------------------------------------------------
(* What every step keeps: entries are only added, and their names and paths  *)
(* stay.                                                                     *)
Grows ==
  /\ DOMAIN defs \subseteq DOMAIN defs'
  /\ \A d \in DOMAIN defs :
       /\ defs'[d].name = defs[d].name
       /\ defs[d].ended => defs'[d].ended
  /\ DOMAIN runs \subseteq DOMAIN runs'
  /\ \A r \in DOMAIN runs :
       /\ runs'[r].def = runs[r].def /\ runs'[r].id = runs[r].id
       /\ runs[r].status # "running" => runs'[r].status # "running"
  /\ DOMAIN agents \subseteq DOMAIN agents'
  /\ \A a \in DOMAIN agents :
       /\ agents'[a].path = agents[a].path /\ agents'[a].caller = agents[a].caller
       /\ agents'[a].rel = agents[a].rel

LEMMA PathKept ==
  ASSUME TypeOK, Grows, NEW r \in DOMAIN runs
  PROVE  RunPath(r)' = RunPath(r)
BY DEF RunPath, Grows, TypeOK

LEMMA BelowKept ==
  ASSUME TypeOK, Grows, NEW r \in DOMAIN runs, NEW path
  PROVE  Below(r, path)' <=> Below(r, path)
BY PathKept DEF Below

LEMMA ScopeKept ==
  ASSUME TypeOK, Grows, NEW x, InScope(x)
  PROVE  InScope(x)'
<1>1. x.caller.kind = "run" => x.caller.id \in DOMAIN runs /\ x.caller.id \in DOMAIN runs'
  BY DEF InScope, Grows
<1>2. x.rel /\ x.caller.kind = "run" => Below(x.caller.id, x.path)'
  BY <1>1, BelowKept DEF InScope
<1>3. x.caller.kind = "agent" =>
        /\ x.caller.id \in DOMAIN agents /\ x.caller.id \in DOMAIN agents'
        /\ agents'[x.caller.id].path = agents[x.caller.id].path
  BY DEF InScope, Grows
<1> QED BY <1>1, <1>2, <1>3 DEF InScope

LEMMA LineageKept ==
  ASSUME TypeOK, Lineage, Grows
  PROVE  /\ \A call \in calls : InScope(call)'
         /\ \A a \in DOMAIN agents : InScope(agents[a])'
         /\ \A a \in DOMAIN agents : agents'[a].caller.kind = "agent" => agents'[a].caller.id < a
<1>1. \A call \in calls : InScope(call)'
  BY ScopeKept DEF Lineage
<1>2. ASSUME NEW a \in DOMAIN agents
      PROVE  InScope(agents[a])'
  <2>1. InScope(agents[a])
    BY DEF Lineage
  <2>2. /\ agents'[a].caller = agents[a].caller /\ agents'[a].path = agents[a].path
        /\ agents'[a].rel = agents[a].rel
    BY DEF Grows
  <2> DEFINE k == agents[a].caller.id
  <2>3. agents[a].caller.kind = "run" =>
          /\ k \in DOMAIN runs /\ k \in DOMAIN runs'
          /\ defs'[runs'[k].def].name = defs[runs[k].def].name /\ runs'[k].id = runs[k].id
    BY <2>1 DEF InScope, Grows, TypeOK
  <2>4. agents[a].caller.kind = "agent" =>
          /\ k \in DOMAIN agents /\ k \in DOMAIN agents' /\ agents'[k].path = agents[k].path
    BY <2>1 DEF InScope, Grows
  <2> QED BY <2>1, <2>2, <2>3, <2>4 DEF InScope, Below, RunPath
<1>3. \A a \in DOMAIN agents : agents'[a].caller.kind = "agent" => agents'[a].caller.id < a
  BY DEF Lineage, Grows
<1> QED BY <1>1, <1>2, <1>3

\* A step that leaves the kill and the stop of a run alone, admits nothing below
\* it once it is not running, and revives no definition.
LEMMA StopKept ==
  ASSUME TypeOK, Grows, NEW r \in DOMAIN runs, Stopping(r),
         kills'[r] = kills[r], r \in stopped' => r \in stopped,
         defs[runs[r].def].ended \/ runs[r].status = "running" \/
           \A a \in Active' : a \in Active \/ ~Below(r, agents[a].path)'
  PROVE  Stopping(r)'
<1>1. runs'[r].def = runs[r].def /\ runs[r].def \in DOMAIN defs
  BY DEF Grows, TypeOK
<1>2. ~defs'[runs[r].def].ended => ~defs[runs[r].def].ended
  BY <1>1 DEF Grows
<1>3. runs[r].status # "running" => runs'[r].status # "running"
  BY DEF Grows
<1>4. ASSUME ~defs'[runs[r].def].ended, runs[r].status # "running"
      PROVE  Family(r)' \subseteq Family(r)
  <2> SUFFICES ASSUME NEW a \in Active', Below(r, agents[a].path)'
               PROVE  a \in Active /\ Below(r, agents[a].path)
    BY DEF Family
  <2>1. a \in Active
    BY <1>2, <1>4
  <2>2. a \in DOMAIN agents /\ agents'[a].path = agents[a].path
    BY <2>1 DEF Active, Grows
  <2>3. RunPath(r)' = RunPath(r)
    BY PathKept
  <2> QED BY <2>1, <2>2, <2>3 DEF Below
<1> QED BY <1>1, <1>2, <1>3, <1>4 DEF Stopping

\* A change of one agent's status.
LEMMA StatusWrites ==
  ASSUME TypeOK, NEW a \in DOMAIN agents, NEW st \in {"active", "parked", "ended"},
         agents' = [agents EXCEPT ![a].status = st]
  PROVE  /\ agents' \in Seq(Rows) /\ DOMAIN agents' = DOMAIN agents
         /\ \A b \in DOMAIN agents :
              /\ agents'[b].path = agents[b].path /\ agents'[b].caller = agents[b].caller
              /\ agents'[b].rel = agents[b].rel
              /\ agents'[b].status = IF b = a THEN st ELSE agents[b].status
<1> DEFINE e == [agents[a] EXCEPT !.status = st]
<1>1. agents' = [agents EXCEPT ![a] = e]
  OBVIOUS
<1>2. /\ e \in Rows /\ e.path = agents[a].path /\ e.caller = agents[a].caller
      /\ e.rel = agents[a].rel /\ e.status = st
  BY Entries DEF Rows
<1>3. agents \in Seq(Rows)
  BY DEF TypeOK
<1> HIDE DEF e
<1>4. /\ agents' \in Seq(Rows) /\ DOMAIN agents' = DOMAIN agents
      /\ agents'[a] = e /\ \A b \in DOMAIN agents \ {a} : agents'[b] = agents[b]
  BY <1>1, <1>2, <1>3, Changed
<1> QED BY <1>2, <1>4

\* A change of one run's status.
LEMMA RunWrites ==
  ASSUME TypeOK, NEW r \in DOMAIN runs, NEW st \in {"running", "stopping", "ended"},
         runs' = [runs EXCEPT ![r].status = st]
  PROVE  /\ runs' \in Seq(Runs) /\ DOMAIN runs' = DOMAIN runs /\ Len(runs') = Len(runs)
         /\ \A q \in DOMAIN runs :
              /\ runs'[q].def = runs[q].def /\ runs'[q].id = runs[q].id
              /\ runs'[q].status = IF q = r THEN st ELSE runs[q].status
<1> DEFINE e == [runs[r] EXCEPT !.status = st]
<1>1. runs' = [runs EXCEPT ![r] = e]
  OBVIOUS
<1>2. e \in Runs /\ e.def = runs[r].def /\ e.id = runs[r].id /\ e.status = st
  BY Entries DEF Runs
<1>3. runs \in Seq(Runs)
  BY DEF TypeOK
<1> HIDE DEF e
<1>4. /\ runs' \in Seq(Runs) /\ DOMAIN runs' = DOMAIN runs /\ Len(runs') = Len(runs)
      /\ runs'[r] = e /\ \A q \in DOMAIN runs \ {r} : runs'[q] = runs[q]
  BY <1>1, <1>2, <1>3, Changed
<1> QED BY <1>2, <1>4

\* A step of one run's kill.
LEMMA KillWrites ==
  ASSUME TypeOK, NEW r \in DOMAIN runs, NEW k \in Kills, kills' = [kills EXCEPT ![r] = k]
  PROVE  /\ kills' \in Seq(Kills) /\ Len(kills') = Len(kills)
         /\ kills'[r] = k /\ \A q \in DOMAIN runs \ {r} : kills'[q] = kills[q]
<1>1. kills \in Seq(Kills) /\ DOMAIN kills = DOMAIN runs
  BY Entries DEF TypeOK
<1> QED BY <1>1, Changed

-----------------------------------------------------------------------------
(* The actions.                                                              *)

\* Nothing but the requests changes.
LEMMA RequestsKeep ==
  ASSUME IndInv, UNCHANGED <<defs, runs, agents, kills, stopped>>,
         calls' \subseteq Calls, \A call \in calls' : call \in calls \/ InScope(call)
  PROVE  IndInv'
<1>1. TypeOK /\ NamesUnique /\ Lineage /\ \A r \in DOMAIN runs : Stopping(r)
  BY DEF IndInv
<1>2. Grows
  BY DEF Grows
<1>3. TypeOK'
  BY <1>1 DEF TypeOK
<1>4. NamesUnique'
  BY <1>1 DEF NamesUnique, Active
<1>5. Lineage'
  <2>1. \A call \in calls' : InScope(call)'
    BY <1>1, <1>2, ScopeKept DEF Lineage
  <2> QED BY <1>1, <1>2, <2>1, LineageKept DEF Lineage
<1>6. \A r \in DOMAIN runs' : Stopping(r)'
  BY <1>1, <1>2, StopKept DEF Active
<1> QED BY <1>3, <1>4, <1>5, <1>6 DEF IndInv

\* A relative fragment lands in its caller's scope.
LEMMA RequestKeeps ==
  ASSUME IndInv, NEW c \in Callers, NEW in \in Inputs, RequestByCli(c, in) \/ RequestBySdk(c, in)
  PROVE  IndInv'
<1> DEFINE path == ResolveCreate(ServerScope(c), in)
           new == [path |-> path, caller |-> c, rel |-> ~in.abs, loopDir |-> LoopDataDir(path)]
<1>1. TypeOK
  BY DEF IndInv
<1>2. /\ c \in Who /\ ServerScope(c) \in Paths /\ ClientScope(Env(c)) = ServerScope(c)
      /\ c.kind = "run" => c.id \in DOMAIN runs /\ ServerScope(c) = RunPath(c.id)
      /\ c.kind = "agent" => c.id \in DOMAIN agents /\ ServerScope(c) = Front(agents[c.id].path)
  BY <1>1, ScopesOf
<1>3. Request(c, in, path)
  BY <1>2 DEF RequestByCli, RequestBySdk
<1>4. in.abs \in BOOLEAN /\ in.path \in Paths \ {<<>>} /\ Len(in.path) \in Nat /\ Len(in.path) >= 1
  <2>1. in.abs \in BOOLEAN /\ in.path \in Paths \ {<<>>}
    BY NamesAssumption DEF Paths
  <2> QED BY <2>1, Fronts
<1>5. /\ path \in Paths \ {<<>>}
      /\ ~in.abs =>
           LET scope == ServerScope(c)
           IN /\ Len(path) = Len(scope) + Len(in.path) /\ Len(scope) \in Nat
              /\ \A i \in 1 .. Len(scope) : path[i] = scope[i]
  <2> DEFINE scope == ServerScope(c)
  <2>1. scope \in Seq(STRING) /\ in.path \in Seq(STRING)
    BY <1>2, <1>4 DEF Paths
  <2> HIDE DEF scope
  <2>2. /\ scope \o in.path \in Seq(STRING)
        /\ Len(scope \o in.path) = Len(scope) + Len(in.path) /\ Len(scope) \in Nat
        /\ \A i \in 1 .. Len(scope) : (scope \o in.path)[i] = scope[i]
    BY <1>4, <2>1, ConcatProperties, LenProperties
  <2>3. scope \o in.path # <<>>
    BY <1>4, <2>2
  <2> QED BY <1>4, <2>2, <2>3 DEF ResolveCreate, Paths, scope
<1>6. LoopDataDir(path) \in BOOLEAN
  BY DEF LoopDataDir
<1> HIDE DEF path
<1>7. new \in Calls
  BY <1>2, <1>4, <1>5, <1>6 DEF Calls
<1>8. InScope(new)
  <2>1. new.caller = c /\ new.path = path /\ new.rel = ~in.abs
    OBVIOUS
  <2> HIDE DEF new
  <2>2. ASSUME ~in.abs, c.kind = "run"
        PROVE  Below(c.id, path)
    <3>1. /\ ServerScope(c) = RunPath(c.id) /\ Len(RunPath(c.id)) = 2
      BY <1>1, <1>2, <2>2, RunPaths
    <3>2. Len(path) >= 3 /\ path[1] = RunPath(c.id)[1] /\ path[2] = RunPath(c.id)[2]
      BY <1>4, <1>5, <2>2, <3>1
    <3> QED BY <3>2 DEF Below
  <2>3. ASSUME ~in.abs, c.kind = "agent", Len(agents[c.id].path) >= 3
        PROVE  /\ Len(path) >= 3
               /\ path[1] = agents[c.id].path[1] /\ path[2] = agents[c.id].path[2]
    <3> DEFINE up == agents[c.id].path
    <3>1. c.id \in DOMAIN agents /\ ServerScope(c) = Front(up) /\ up \in Paths \ {<<>>}
      BY <1>1, <1>2, <2>3, Entries DEF Rows
    <3> HIDE DEF up
    <3>2. /\ Len(Front(up)) = Len(up) - 1 /\ Len(up) \in Nat
          /\ \A i \in 1 .. Len(up) - 1 : Front(up)[i] = up[i]
      BY <3>1, Fronts
    <3>3. Len(up) >= 3
      BY <2>3 DEF up
    <3>4. /\ Len(path) = Len(up) - 1 + Len(in.path)
          /\ \A i \in 1 .. Len(up) - 1 : path[i] = Front(up)[i]
      BY <1>5, <2>3, <3>1, <3>2
    <3>5. Len(path) >= 3 /\ path[1] = up[1] /\ path[2] = up[2]
      BY <1>4, <3>2, <3>3, <3>4
    <3> QED BY <3>5 DEF up
  <2> QED BY <1>2, <2>1, <2>2, <2>3 DEF InScope
<1>9. calls' = calls \cup {new} /\ UNCHANGED <<defs, runs, agents, kills, stopped>>
  BY <1>3 DEF Request
<1> HIDE DEF new
<1>10. calls' \subseteq Calls
  BY <1>1, <1>7, <1>9 DEF TypeOK
<1> QED BY <1>8, <1>9, <1>10, RequestsKeep

LEMMA RefuseKeeps ==
  ASSUME IndInv, NEW call \in calls, Refuse(call)
  PROVE  IndInv'
<1>1. calls' = calls \ {call} /\ UNCHANGED <<defs, runs, agents, kills, stopped>>
  BY DEF Refuse
<1>2. calls' \subseteq Calls
  BY <1>1 DEF IndInv, TypeOK
<1> QED BY <1>1, <1>2, RequestsKeep

\* An insert under the store lock: the path is free, and the barrier is passed.
LEMMA AdmitKeeps ==
  ASSUME IndInv, NEW call \in calls, Admit(call)
  PROVE  IndInv'
<1> DEFINE new == [path |-> call.path, status |-> "active", caller |-> call.caller,
                   rel |-> call.rel, loopDir |-> call.loopDir]
<1>1. TypeOK /\ NamesUnique /\ Lineage /\ \A r \in DOMAIN runs : Stopping(r)
  BY DEF IndInv
<1>2. /\ Admissible(call) /\ Free(call.path)
      /\ agents' = Append(agents, new)
      /\ calls' \subseteq calls
      /\ UNCHANGED <<defs, runs, kills, stopped>>
  BY DEF Admit
<1>3. call \in Calls /\ new \in Rows /\ InScope(call)
  <2>1. call \in Calls /\ InScope(call)
    BY <1>1 DEF TypeOK, Lineage
  <2> QED BY <2>1 DEF Calls, Rows
<1>4. /\ new.path = call.path /\ new.caller = call.caller /\ new.rel = call.rel
      /\ new.status = "active"
  OBVIOUS
<1>5. DOMAIN agents = 1 .. Len(agents) /\ Len(agents) \in Nat
  BY <1>1, Entries
<1>6. PICK n \in Nat : n = Len(agents) + 1
  BY <1>5
<1> HIDE DEF new
<1>7. /\ agents' \in Seq(Rows) /\ DOMAIN agents' = DOMAIN agents \cup {n} /\ n \notin DOMAIN agents
      /\ \A a \in DOMAIN agents : agents'[a] = agents[a]
      /\ agents'[n] = new
  BY <1>1, <1>2, <1>3, <1>6, Appended DEF TypeOK
<1>8. Grows
  BY <1>2, <1>7 DEF Grows
<1>9. Active' = Active \cup {n}
  BY <1>4, <1>7 DEF Active
<1>10. TypeOK'
  BY <1>1, <1>2, <1>7 DEF TypeOK
<1>11. NamesUnique'
  <2>1. \A a \in Active : agents'[a].path = agents[a].path /\ agents[a].path # call.path
    BY <1>2, <1>7 DEF Free, Active
  <2>2. \A a, b \in Active' : agents'[a].path = agents'[b].path => a = b
    BY <1>1, <1>4, <1>7, <1>9, <2>1 DEF NamesUnique
  <2> QED BY <1>1, <1>2, <2>2 DEF NamesUnique
<1>12. Lineage'
  <2>1. /\ \A c \in calls : InScope(c)'
        /\ \A a \in DOMAIN agents : InScope(agents[a])'
        /\ \A a \in DOMAIN agents : agents'[a].caller.kind = "agent" => agents'[a].caller.id < a
    BY <1>1, <1>8, LineageKept
  <2>2. InScope(agents[n])'
    <3>1. call.caller.kind = "run" => call.caller.id \in DOMAIN runs
      BY <1>3 DEF InScope
    <3>2. call.caller.kind = "agent" =>
            call.caller.id \in DOMAIN agents /\ agents'[call.caller.id] = agents[call.caller.id]
      BY <1>3, <1>7 DEF InScope
    <3>3. InScope(call)'
      BY <1>1, <1>3, <1>8, ScopeKept
    <3>4. /\ agents'[n].caller = call.caller /\ agents'[n].path = call.path
          /\ agents'[n].rel = call.rel
      BY <1>4, <1>7
    <3> QED BY <3>3, <3>4 DEF InScope, Below
  <2>3. agents'[n].caller.kind = "agent" => agents'[n].caller.id < n
    BY <1>3, <1>4, <1>5, <1>7, <1>6 DEF InScope
  <2> QED BY <1>2, <1>7, <2>1, <2>2, <2>3 DEF Lineage
<1>13. ASSUME NEW r \in DOMAIN runs
       PROVE  Stopping(r)'
  <2>1. CASE Below(r, call.path)
    <3>1. defs[runs[r].def].ended \/ runs[r].status = "running"
      BY <1>1, <1>2, <1>3, <2>1, Barrier
    <3> QED BY <1>1, <1>2, <1>8, <3>1, StopKept
  <2>2. CASE ~Below(r, call.path)
    <3>1. ~Below(r, agents[n].path)'
      <4>1. RunPath(r)' = RunPath(r)
        BY <1>1, <1>8, PathKept
      <4> QED BY <1>4, <1>7, <2>2, <4>1 DEF Below
    <3>2. \A a \in Active' : a \in Active \/ ~Below(r, agents[a].path)'
      BY <1>9, <3>1
    <3> QED BY <1>1, <1>2, <1>8, <3>2, StopKept
  <2> QED BY <2>1, <2>2
<1> QED BY <1>2, <1>10, <1>11, <1>12, <1>13 DEF IndInv

\* Requests, runs, definitions stay: what a status write leaves.
LEMMA AgentKeeps ==
  ASSUME IndInv, NEW a \in DOMAIN agents, NEW st \in {"active", "parked", "ended"},
         agents' = [agents EXCEPT ![a].status = st],
         st = "ended" \/ a \in Active,
         UNCHANGED <<defs, runs, calls, stopped>>
  PROVE  /\ Grows /\ NamesUnique' /\ Lineage' /\ Active' \subseteq Active
         /\ agents' \in Seq(Rows) /\ (st = "ended" => Active' = Active \ {a})
<1>1. TypeOK /\ NamesUnique /\ Lineage
  BY DEF IndInv
<1>2. /\ agents' \in Seq(Rows) /\ DOMAIN agents' = DOMAIN agents
      /\ \A b \in DOMAIN agents :
           /\ agents'[b].path = agents[b].path /\ agents'[b].caller = agents[b].caller
           /\ agents'[b].rel = agents[b].rel
           /\ agents'[b].status = IF b = a THEN st ELSE agents[b].status
  BY <1>1, StatusWrites
<1>3. Active' \subseteq Active /\ (st = "ended" => Active' = Active \ {a})
  BY <1>2 DEF Active
<1>4. Grows
  BY <1>2 DEF Grows
<1>5. NamesUnique'
  <2>1. \A x, y \in Active' : agents'[x].path = agents'[y].path => x = y
    BY <1>1, <1>2, <1>3 DEF NamesUnique, Active
  <2> QED BY <1>1, <2>1 DEF NamesUnique
<1>6. Lineage'
  BY <1>1, <1>2, <1>4, LineageKept DEF Lineage
<1> QED BY <1>2, <1>3, <1>4, <1>5, <1>6

LEMMA SetAgentKeeps ==
  ASSUME IndInv, NEW a \in DOMAIN agents,
         NEW from \in SUBSET {"active", "parked"}, NEW to \in {"active", "parked", "ended"},
         SetAgent(a, from, to)
  PROVE  IndInv'
<1>1. /\ agents' = [agents EXCEPT ![a].status = to] /\ a \in Active
      /\ UNCHANGED <<defs, runs, calls, kills, stopped>>
  BY DEF SetAgent, Active
<1>2. /\ Grows /\ NamesUnique' /\ Lineage' /\ Active' \subseteq Active
      /\ agents' \in Seq(Rows)
  BY <1>1, AgentKeeps
<1>3. TypeOK'
  BY <1>1, <1>2 DEF IndInv, TypeOK
<1>4. \A r \in DOMAIN runs : Stopping(r)'
  BY <1>1, <1>2, StopKept DEF IndInv
<1> QED BY <1>1, <1>2, <1>3, <1>4 DEF IndInv

\* A round lists the whole family.
LEMMA ListKeeps ==
  ASSUME IndInv, NEW r \in DOMAIN runs, List(r)
  PROVE  IndInv'
<1> DEFINE k == [phase |-> IF Family(r) = {} THEN "done" ELSE "kill",
                 left |-> Family(r), killed |-> FALSE]
<1>1. TypeOK /\ NamesUnique /\ Lineage /\ \A q \in DOMAIN runs : Stopping(q)
  BY DEF IndInv
<1>2. /\ kills[r].phase = "list" /\ kills' = [kills EXCEPT ![r] = k]
      /\ UNCHANGED <<defs, runs, agents, calls, stopped>>
  BY <1>1, GlobBelow DEF List
<1>3. k \in Kills
  BY <1>1, Entries DEF Kills, Family, Active
<1>4. k.left = Family(r) /\ (k.phase = "done" => Family(r) = {})
      /\ (Family(r) = {} => k.phase = "done")
  OBVIOUS
<1> HIDE DEF k
<1>5. /\ kills' \in Seq(Kills) /\ Len(kills') = Len(kills)
      /\ kills'[r] = k /\ \A q \in DOMAIN runs \ {r} : kills'[q] = kills[q]
  BY <1>1, <1>2, <1>3, KillWrites
<1>6. Grows /\ Active' = Active
  BY <1>2 DEF Grows, Active
<1>7. TypeOK'
  BY <1>1, <1>2, <1>5 DEF TypeOK
<1>8. NamesUnique'
  BY <1>1, <1>2 DEF NamesUnique, Active
<1>9. Lineage'
  BY <1>1, <1>2, <1>6, LineageKept DEF Lineage
<1>10. ASSUME NEW q \in DOMAIN runs
       PROVE  Stopping(q)'
  <2>1. CASE q # r
    BY <1>1, <1>2, <1>5, <1>6, <2>1, StopKept
  <2>2. CASE q = r
    <3>1. Family(r)' = Family(r)
      BY <1>2 DEF Family, Active, Below, RunPath
    <3>2. /\ runs[r].status # "running"
          /\ ~defs[runs[r].def].ended /\ r \in stopped => Family(r) = {}
      BY <1>1, <1>2 DEF Stopping
    <3> QED BY <1>2, <1>4, <1>5, <2>2, <3>1, <3>2 DEF Stopping
  <2> QED BY <2>1, <2>2
<1> QED BY <1>2, <1>7, <1>8, <1>9, <1>10 DEF IndInv

\* Whoever is on the list is ended, and the list is the whole of the family.
LEMMA KillOneKeeps ==
  ASSUME IndInv, NEW r \in DOMAIN runs, NEW a \in DOMAIN agents, KillOne(r, a)
  PROVE  IndInv'
<1> DEFINE left == kills[r].left \ {a}
           killed == kills[r].killed \/ a \in Active
           k == [phase |-> IF left # {} THEN "kill" ELSE IF killed THEN "list" ELSE "done",
                 left |-> left, killed |-> killed]
<1>1. TypeOK /\ NamesUnique /\ Lineage /\ \A q \in DOMAIN runs : Stopping(q)
  BY DEF IndInv
<1>2. /\ kills[r].phase = "kill" /\ kills' = [kills EXCEPT ![r] = k]
      /\ agents' = [agents EXCEPT ![a].status = "ended"]
      /\ UNCHANGED <<defs, runs, calls, stopped>>
  BY DEF KillOne
<1>3. k \in Kills
  <2>1. kills[r].left \in SUBSET Nat /\ kills[r].killed \in BOOLEAN
    BY <1>1, Entries DEF Kills
  <2>2. left \in SUBSET Nat /\ killed \in BOOLEAN
    BY <2>1
  <2> HIDE DEF left, killed
  <2> QED BY <2>2 DEF Kills
<1>4. k.left = left /\ (k.phase = "done" => left = {})
  <2> HIDE DEF left, killed
  <2> QED OBVIOUS
<1> HIDE DEF k
<1>5. /\ kills' \in Seq(Kills) /\ Len(kills') = Len(kills)
      /\ kills'[r] = k /\ \A q \in DOMAIN runs \ {r} : kills'[q] = kills[q]
  BY <1>1, <1>2, <1>3, KillWrites
<1>6. /\ Grows /\ NamesUnique' /\ Lineage' /\ Active' = Active \ {a}
      /\ agents' \in Seq(Rows)
  BY <1>2, AgentKeeps
<1>7. TypeOK'
  BY <1>1, <1>2, <1>5, <1>6 DEF TypeOK
<1>8. ASSUME NEW q \in DOMAIN runs
      PROVE  Stopping(q)'
  <2>1. CASE q # r
    BY <1>1, <1>2, <1>5, <1>6, <2>1, StopKept
  <2>2. CASE q = r
    <3>1. Family(r)' \subseteq Family(r) \ {a}
      BY <1>1, <1>6, BelowKept DEF Family, Active, Grows, Below
    <3>2. /\ runs[r].status # "running"
          /\ ~defs[runs[r].def].ended => Family(r) \subseteq kills[r].left
          /\ ~defs[runs[r].def].ended /\ r \in stopped => Family(r) = {}
      BY <1>1, <1>2 DEF Stopping
    <3> QED BY <1>2, <1>4, <1>5, <2>2, <3>1, <3>2 DEF Stopping
  <2> QED BY <2>1, <2>2
<1> QED BY <1>2, <1>6, <1>7, <1>8 DEF IndInv

\* What the loops' steps leave of the agents.
LEMMA AgentsStay ==
  ASSUME IndInv, Grows, UNCHANGED <<agents, calls>>
  PROVE  /\ Lineage' /\ Active' = Active
         /\ \A a, b \in Active' : agents'[a].path = agents'[b].path => a = b
<1>1. TypeOK /\ NamesUnique /\ Lineage
  BY DEF IndInv
<1>2. Lineage'
  BY <1>1, LineageKept DEF Lineage
<1>3. Active' = Active
  BY DEF Active
<1> QED BY <1>1, <1>2, <1>3 DEF NamesUnique

LEMMA CreateLoopKeeps ==
  ASSUME IndInv, NEW name \in Names, CreateLoop(name)
  PROVE  IndInv'
<1> DEFINE new == [name |-> name, ended |-> FALSE]
<1>1. TypeOK /\ NamesUnique /\ Lineage /\ \A q \in DOMAIN runs : Stopping(q)
  BY DEF IndInv
<1>2. /\ name \notin ActiveNames
      /\ defs' = Append(defs, new)
      /\ UNCHANGED <<runs, agents, calls, kills, stopped>>
  BY DEF CreateLoop
<1>3. new \in Defs /\ new.name = name
  BY DEF Defs
<1> HIDE DEF new
<1>4. PICK n \in Nat : n = Len(defs) + 1
  BY <1>1, Entries
<1>5. /\ defs' \in Seq(Defs) /\ DOMAIN defs' = DOMAIN defs \cup {n} /\ n \notin DOMAIN defs
      /\ \A d \in DOMAIN defs : defs'[d] = defs[d]
      /\ defs'[n] = new
  BY <1>1, <1>2, <1>3, <1>4, Appended DEF TypeOK
<1>6. Grows
  BY <1>2, <1>5 DEF Grows
<1>7. TypeOK'
  BY <1>1, <1>2, <1>5 DEF TypeOK
<1>8. NamesUnique'
  <2>1. \A d \in DOMAIN defs : ~defs[d].ended => defs[d].name # name
    BY <1>2 DEF ActiveNames
  <2>2. \A d, e \in DOMAIN defs' :
          ~defs'[d].ended /\ ~defs'[e].ended /\ defs'[d].name = defs'[e].name => d = e
    BY <1>1, <1>3, <1>5, <2>1 DEF NamesUnique
  <2>3. \A a, b \in Active' : agents'[a].path = agents'[b].path => a = b
    BY <1>2, <1>6, AgentsStay
  <2> QED BY <1>1, <1>2, <2>2, <2>3 DEF NamesUnique
<1>9. Lineage' /\ Active' = Active
  BY <1>2, <1>6, AgentsStay
<1>10. \A r \in DOMAIN runs : Stopping(r)'
  BY <1>1, <1>2, <1>6, <1>9, StopKept
<1> QED BY <1>2, <1>7, <1>8, <1>9, <1>10 DEF IndInv

\* A removal takes the definition in force.
LEMMA RemoveLoopKeeps ==
  ASSUME IndInv, NEW name \in Names, RemoveLoop(name)
  PROVE  IndInv'
<1>1. TypeOK /\ NamesUnique /\ Lineage /\ \A q \in DOMAIN runs : Stopping(q)
  BY DEF IndInv
<1>2. /\ name \in ActiveNames
      /\ defs' = [defs EXCEPT ![FindLoop(name)].ended = TRUE]
      /\ UNCHANGED <<runs, agents, calls, kills, stopped>>
  BY DEF RemoveLoop
<1>3. PICK n \in DOMAIN defs : n = FindLoop(name)
  BY <1>1, <1>2, LiveName
<1> DEFINE e == [defs[n] EXCEPT !.ended = TRUE]
<1>4. defs' = [defs EXCEPT ![n] = e]
  BY <1>2, <1>3
<1>5. e \in Defs /\ e.name = defs[n].name /\ e.ended = TRUE
  BY <1>1, Entries DEF Defs
<1> HIDE DEF e
<1>6. /\ defs' \in Seq(Defs) /\ DOMAIN defs' = DOMAIN defs
      /\ defs'[n] = e /\ \A d \in DOMAIN defs \ {n} : defs'[d] = defs[d]
  <2>1. defs \in Seq(Defs)
    BY <1>1 DEF TypeOK
  <2> QED BY <1>4, <1>5, <2>1, Changed
<1>7. Grows
  BY <1>2, <1>5, <1>6 DEF Grows
<1>8. TypeOK'
  BY <1>1, <1>2, <1>6 DEF TypeOK
<1>9. NamesUnique'
  <2>1. \A d, f \in DOMAIN defs' :
          ~defs'[d].ended /\ ~defs'[f].ended /\ defs'[d].name = defs'[f].name => d = f
    BY <1>1, <1>5, <1>6 DEF NamesUnique
  <2>2. \A a, b \in Active' : agents'[a].path = agents'[b].path => a = b
    BY <1>2, <1>7, AgentsStay
  <2> QED BY <1>1, <1>2, <2>1, <2>2 DEF NamesUnique
<1>10. Lineage' /\ Active' = Active
  BY <1>2, <1>7, AgentsStay
<1>11. \A r \in DOMAIN runs : Stopping(r)'
  BY <1>1, <1>2, <1>7, <1>10, StopKept
<1> QED BY <1>2, <1>8, <1>9, <1>10, <1>11 DEF IndInv

\* A run starts with an id of its own and no stop.
LEMMA StartRunKeeps ==
  ASSUME IndInv, NEW name \in Names, NEW id \in RunIds, StartRun(name, id)
  PROVE  IndInv'
<1> DEFINE new == [def |-> FindLoop(name), id |-> id, status |-> "running"]
<1>1. TypeOK /\ NamesUnique /\ Lineage /\ \A q \in DOMAIN runs : Stopping(q)
  BY DEF IndInv
<1>2. /\ name \in ActiveNames /\ \A r \in DOMAIN runs : runs[r].id # id
      /\ runs' = Append(runs, new) /\ kills' = Append(kills, NoKill)
      /\ UNCHANGED <<defs, agents, calls, stopped>>
  BY DEF StartRun
<1>3. FindLoop(name) \in DOMAIN defs /\ FindLoop(name) \in Nat
  BY <1>1, <1>2, LiveName, Entries
<1>4. new \in Runs /\ new.def = FindLoop(name) /\ new.id = id /\ new.status = "running"
  BY <1>3 DEF Runs
<1>5. NoKill \in Kills /\ NoKill.phase = "none"
  BY DEF NoKill, Kills
<1> HIDE DEF new
<1>6. PICK n \in Nat : n = Len(runs) + 1
  BY <1>1, Entries
<1>7. /\ runs' \in Seq(Runs) /\ DOMAIN runs' = DOMAIN runs \cup {n} /\ n \notin DOMAIN runs
      /\ Len(runs') = n
      /\ \A r \in DOMAIN runs : runs'[r] = runs[r]
      /\ runs'[n] = new
  BY <1>1, <1>2, <1>4, <1>6, Appended DEF TypeOK
<1>8. /\ kills' \in Seq(Kills) /\ Len(kills') = n
      /\ \A r \in DOMAIN runs : kills'[r] = kills[r]
      /\ kills'[n] = NoKill
  <2>1. kills \in Seq(Kills) /\ Len(kills) = Len(runs) /\ DOMAIN kills = DOMAIN runs
    BY <1>1, Entries DEF TypeOK
  <2> QED BY <1>2, <1>5, <1>6, <2>1, Appended
<1>9. Grows
  BY <1>2, <1>7 DEF Grows
<1>10. TypeOK'
  BY <1>1, <1>2, <1>3, <1>4, <1>7, <1>8 DEF TypeOK
<1>11. Lineage' /\ Active' = Active
  BY <1>2, <1>9, AgentsStay
<1>12. NamesUnique'
  <2>1. \A r, q \in DOMAIN runs' : runs'[r].id = runs'[q].id => r = q
    BY <1>1, <1>2, <1>4, <1>7 DEF NamesUnique
  <2>2. \A a, b \in Active' : agents'[a].path = agents'[b].path => a = b
    BY <1>2, <1>9, AgentsStay
  <2> QED BY <1>1, <1>2, <2>1, <2>2 DEF NamesUnique
<1>13. ASSUME NEW q \in DOMAIN runs'
       PROVE  Stopping(q)'
  <2>1. CASE q \in DOMAIN runs
    BY <1>1, <1>2, <1>8, <1>9, <1>11, <2>1, StopKept
  <2>2. CASE q = n
    <3>1. n \notin stopped'
      BY <1>1, <1>2, <1>7 DEF TypeOK
    <3> QED BY <1>5, <1>8, <2>2, <3>1 DEF Stopping
  <2> QED BY <1>7, <2>1, <2>2
<1> QED BY <1>10, <1>11, <1>12, <1>13 DEF IndInv

\* A status write of one run, and what it leaves.
LEMMA RunKeeps ==
  ASSUME IndInv, NEW r \in DOMAIN runs, NEW st \in {"stopping", "ended"},
         runs' = [runs EXCEPT ![r].status = st],
         kills' \in Seq(Kills), Len(kills') = Len(kills), stopped' \subseteq stopped \cup {r},
         UNCHANGED <<defs, agents, calls>>,
         \A q \in DOMAIN runs \ {r} : kills'[q] = kills[q],
         ~defs[runs[r].def].ended =>
           /\ kills'[r].phase = "kill" => Family(r) \subseteq kills'[r].left
           /\ kills'[r].phase = "done" \/ r \in stopped' => Family(r) = {}
  PROVE  IndInv'
<1>1. TypeOK /\ NamesUnique /\ Lineage /\ \A q \in DOMAIN runs : Stopping(q)
  BY DEF IndInv
<1>2. /\ runs' \in Seq(Runs) /\ DOMAIN runs' = DOMAIN runs /\ Len(runs') = Len(runs)
      /\ \A q \in DOMAIN runs :
           /\ runs'[q].def = runs[q].def /\ runs'[q].id = runs[q].id
           /\ runs'[q].status = IF q = r THEN st ELSE runs[q].status
  <2>1. st \in {"running", "stopping", "ended"}
    OBVIOUS
  <2> QED BY ONLY <1>1, <2>1, RunWrites, r \in DOMAIN runs,
             runs' = [runs EXCEPT ![r].status = st]
<1>3. Grows
  BY <1>2 DEF Grows
<1>4. TypeOK'
  BY <1>1, <1>2 DEF TypeOK
<1>5. Lineage' /\ Active' = Active
  BY <1>3, AgentsStay
<1>6. NamesUnique'
  <2>1. \A p, q \in DOMAIN runs' : runs'[p].id = runs'[q].id => p = q
    BY <1>1, <1>2 DEF NamesUnique
  <2>2. \A a, b \in Active' : agents'[a].path = agents'[b].path => a = b
    BY <1>3, AgentsStay
  <2> QED BY <1>1, <2>1, <2>2 DEF NamesUnique
<1>7. ASSUME NEW q \in DOMAIN runs
      PROVE  Stopping(q)'
  <2>1. CASE q # r
    BY <1>1, <1>3, <1>5, <2>1, StopKept
  <2>2. CASE q = r
    <3>1. Family(r)' = Family(r)
      BY <1>2 DEF Family, Active, Below, RunPath
    <3>2. runs'[r].def = runs[r].def /\ runs'[r].status # "running"
      BY <1>2
    <3> QED BY <2>2, <3>1, <3>2 DEF Stopping
  <2> QED BY <2>1, <2>2
<1> QED BY <1>2, <1>4, <1>5, <1>6, <1>7 DEF IndInv

LEMMA StopRunKeeps ==
  ASSUME IndInv, NEW r \in DOMAIN runs, StopRun(r)
  PROVE  IndInv'
<1> DEFINE k == [NoKill EXCEPT !.phase = "list"]
<1>1. /\ runs' = [runs EXCEPT ![r].status = "stopping"]
      /\ kills' = [kills EXCEPT ![r] = k]
      /\ UNCHANGED <<defs, agents, calls, stopped>>
  BY DEF StopRun
<1>2. k \in Kills /\ k.phase = "list"
  BY DEF NoKill, Kills
<1> HIDE DEF k
<1>3. /\ kills' \in Seq(Kills) /\ Len(kills') = Len(kills)
      /\ kills'[r] = k /\ \A q \in DOMAIN runs \ {r} : kills'[q] = kills[q]
  BY <1>1, <1>2, KillWrites DEF IndInv
<1>4. ~defs[runs[r].def].ended /\ r \in stopped => Family(r) = {}
  BY DEF IndInv, Stopping
<1> QED BY <1>1, <1>2, <1>3, <1>4, RunKeeps

LEMMA ExitKeeps ==
  ASSUME IndInv, NEW r \in DOMAIN runs, Exit(r)
  PROVE  IndInv'
<1>1. /\ runs' = [runs EXCEPT ![r].status = "ended"]
      /\ UNCHANGED <<defs, agents, calls, kills, stopped>>
  BY DEF Exit
<1>2. Stopping(r) /\ kills \in Seq(Kills)
  BY DEF IndInv, TypeOK
<1> QED BY <1>1, <1>2, RunKeeps DEF Stopping

LEMMA FinishStopKeeps ==
  ASSUME IndInv, NEW r \in DOMAIN runs, FinishStop(r)
  PROVE  IndInv'
<1>1. /\ kills[r].phase = "done" /\ kills' = [kills EXCEPT ![r] = NoKill]
      /\ runs' = [runs EXCEPT ![r].status = "ended"] /\ stopped' = stopped \cup {r}
      /\ UNCHANGED <<defs, agents, calls>>
  BY DEF FinishStop
<1>2. NoKill \in Kills /\ NoKill.phase = "none"
  BY DEF NoKill, Kills
<1>3. /\ kills' \in Seq(Kills) /\ Len(kills') = Len(kills)
      /\ kills'[r] = NoKill /\ \A q \in DOMAIN runs \ {r} : kills'[q] = kills[q]
  BY <1>1, <1>2, KillWrites DEF IndInv
<1>4. ~defs[runs[r].def].ended => Family(r) = {}
  BY <1>1 DEF IndInv, Stopping
<1> QED BY <1>1, <1>2, <1>3, <1>4, RunKeeps

-----------------------------------------------------------------------------
(* The invariant of names: unique definitions, runs and paths, lineage by    *)
(* scope, and what a stop has still to end.                                  *)
THEOREM NamesFit == Spec => []IndInv
<1>1. Init => IndInv
  <2> SUFFICES ASSUME Init PROVE IndInv
    OBVIOUS
  <2>1. /\ defs = <<>> /\ runs = <<>> /\ agents = <<>> /\ kills = <<>>
        /\ calls = {} /\ stopped = {}
    BY DEF Init
  <2>2. \A S : <<>> \in Seq(S) /\ Len(<<>>) = 0 /\ DOMAIN <<>> = {}
    OBVIOUS
  <2> QED BY <2>1, <2>2 DEF IndInv, TypeOK, NamesUnique, Lineage, Active
<1>2. IndInv /\ [Next]_vars => IndInv'
  <2> SUFFICES ASSUME IndInv, [Next]_vars
               PROVE  IndInv'
    OBVIOUS
  <2>1. ASSUME NEW c \in Callers, NEW in \in Inputs, RequestByCli(c, in) \/ RequestBySdk(c, in)
        PROVE  IndInv'
    BY <2>1, RequestKeeps
  <2>2. ASSUME NEW call \in calls, Admit(call) \/ Refuse(call)
        PROVE  IndInv'
    BY <2>2, AdmitKeeps, RefuseKeeps
  <2>3. ASSUME NEW a \in DOMAIN agents,
               \/ SetAgent(a, {"active"}, "parked")
               \/ SetAgent(a, {"parked"}, "active")
               \/ SetAgent(a, {"active", "parked"}, "ended")
        PROVE  IndInv'
    BY <2>3, SetAgentKeeps
  <2>4. ASSUME NEW name \in Names, CreateLoop(name) \/ RemoveLoop(name)
        PROVE  IndInv'
    BY <2>4, CreateLoopKeeps, RemoveLoopKeeps
  <2>5. ASSUME NEW name \in Names, NEW id \in RunIds, StartRun(name, id) \/ StopByName(name, id)
        PROVE  IndInv'
    BY <2>5, StartRunKeeps, StopRunKeeps DEF StopByName, RunIn
  <2>6. ASSUME NEW r \in DOMAIN runs, Timeout(r) \/ List(r) \/ Exit(r) \/ FinishStop(r)
        PROVE  IndInv'
    BY <2>6, StopRunKeeps, ListKeeps, ExitKeeps, FinishStopKeeps DEF Timeout
  <2>7. ASSUME NEW r \in DOMAIN runs, NEW a \in DOMAIN agents, KillOne(r, a)
        PROVE  IndInv'
    BY <2>7, KillOneKeeps
  <2>8. CASE UNCHANGED vars
    <3>1. UNCHANGED <<defs, runs, agents, kills, stopped>> /\ calls' = calls
      BY <2>8 DEF vars
    <3> QED BY <3>1, RequestsKeep DEF IndInv, TypeOK
  <2> QED BY <2>1, <2>2, <2>3, <2>4, <2>5, <2>6, <2>7, <2>8 DEF Next
<1> QED BY <1>1, <1>2, PTL DEF Spec

-----------------------------------------------------------------------------
(* The descendants of a run, which Descends defines by recursion over the    *)
(* agents, each after its caller.  That the recursion has a solution is      *)
(* shown without induction: the union of all sets every member of which      *)
(* descends by a member is one.                                              *)
LEMMA DescendsBelow ==
  ASSUME IndInv, NEW r \in DOMAIN runs
  PROVE  \A a \in Descends(r) : a \in DOMAIN agents /\ Below(r, agents[a].path)
<1> DEFINE
  D == DOMAIN agents
  root(a) == agents[a].rel /\ agents[a].caller = [kind |-> "run", id |-> r]
  up(a) == agents[a].caller.id
  child(a) == agents[a].rel /\ agents[a].caller.kind = "agent"
  body(f) == [a \in D |->
    /\ agents[a].rel
    /\ \/ agents[a].caller = [kind |-> "run", id |-> r]
       \/ agents[a].caller.kind = "agent" /\ f[agents[a].caller.id]]
  by == CHOOSE f : f = body(f)
  sound == {X \in SUBSET D : \A a \in X : root(a) \/ (child(a) /\ up(a) \in X)}
  all == UNION sound
<1>1. Descends(r) = {a \in D : by[a]}
  BY DEF Descends
<1>2. TypeOK /\ Lineage
  BY DEF IndInv
<1>3. \A a \in D : child(a) => up(a) \in D /\ up(a) < a
  BY <1>2 DEF Lineage, InScope
<1>4. \A a \in D : a \in all <=> root(a) \/ (child(a) /\ up(a) \in all)
  <2> HIDE DEF root, child, up
  <2>1. ASSUME NEW a \in all
        PROVE  root(a) \/ (child(a) /\ up(a) \in all)
    BY <2>1
  <2>2. ASSUME NEW a \in D, root(a) \/ (child(a) /\ up(a) \in all)
        PROVE  a \in all
    <3>1. all \subseteq D
      OBVIOUS
    <3>2. all \cup {a} \in sound
      BY <2>1, <2>2, <3>1
    <3> QED BY <3>2
  <2> QED BY <2>1, <2>2
<1>5. \E f : f = body(f)
  <2> DEFINE w == [a \in D |-> a \in all]
  <2>1. \A a \in D : w[a] <=> (root(a) \/ (child(a) /\ w[up(a)]))
    <3> HIDE DEF all, root, child, up
    <3>1. \A a \in D : w[a] <=> a \in all
      OBVIOUS
    <3> HIDE DEF w
    <3> QED BY <1>3, <1>4, <3>1
  <2>2. w = body(w)
    <3>1. \A a \in D : body(w)[a] = (root(a) \/ (child(a) /\ w[up(a)]))
      <4> HIDE DEF w
      <4> QED OBVIOUS
    <3>2. \A a \in D : w[a] = body(w)[a]
      <4>1. \A a \in D : w[a] \in BOOLEAN
        <5> HIDE DEF all
        <5> QED OBVIOUS
      <4> HIDE DEF w, body, root, child, up
      <4> QED BY <2>1, <3>1, <4>1
    <3>3. w = [a \in D |-> w[a]]
      <4> HIDE DEF all
      <4> QED OBVIOUS
    <3>4. body(w) = [a \in D |-> body(w)[a]]
      <4> HIDE DEF w
      <4> QED OBVIOUS
    <3> HIDE DEF w, body
    <3> QED BY <3>2, <3>3, <3>4
  <2> QED BY <2>2
<1>6. by = body(by)
  <2> HIDE DEF body
  <2> QED BY <1>5
<1>7. \A a \in D : by[a] => root(a) \/ (child(a) /\ by[up(a)])
  <2> HIDE DEF by
  <2>1. \A a \in D : body(by)[a] => root(a) \/ (child(a) /\ by[up(a)])
    OBVIOUS
  <2> HIDE DEF body, root, child, up
  <2> QED BY <1>6, <2>1
<1>8. \A a \in D : root(a) => Below(r, agents[a].path)
  BY <1>2 DEF Lineage, InScope
<1>9. \A a \in D : child(a) /\ Below(r, agents[up(a)].path) => Below(r, agents[a].path)
  BY <1>2 DEF Lineage, InScope, Below
<1> DEFINE bad == {a \in D : by[a] /\ ~Below(r, agents[a].path)}
<1>10. bad = {}
  <2> SUFFICES ASSUME bad # {} PROVE FALSE
    OBVIOUS
  <2>1. bad \subseteq Nat
    BY <1>2, Entries
  <2>2. PICK m \in bad : \A k \in bad : m <= k
    <3> HIDE DEF bad
    <3> QED BY <2>1, Least
  <2>3. m \in D /\ by[m] /\ ~Below(r, agents[m].path)
    BY <2>2
  <2> HIDE DEF by, root, child, up, D
  <2>4. child(m) /\ by[up(m)]
    BY <1>7, <1>8, <2>3
  <2>5. up(m) \in D /\ up(m) < m /\ ~Below(r, agents[up(m)].path)
    BY <1>3, <1>9, <2>3, <2>4
  <2>6. up(m) \in bad
    BY <2>4, <2>5
  <2> HIDE DEF bad
  <2>7. up(m) \in Nat /\ m \in Nat
    BY <2>1, <2>2, <2>6
  <2> QED BY <2>2, <2>5, <2>6, <2>7
<1> HIDE DEF by
<1> QED BY <1>1, <1>10

(* A stop leaves no agent that the run, or an agent of it, has started by a  *)
(* relative name, and none can come (loops.rs glob_kill_run_agents,          *)
(* engine.rs check_loop_namespace, caller_context).                          *)
THEOREM StopsTakeFamilies == Spec => []StoppedFamilyIsGone
<1>1. IndInv => StoppedFamilyIsGone
  <2> SUFFICES ASSUME IndInv, NEW r \in stopped, ~defs[runs[r].def].ended
               PROVE  Descends(r) \cap Active = {}
    BY DEF StoppedFamilyIsGone
  <2>1. r \in DOMAIN runs /\ Family(r) = {}
    BY DEF IndInv, TypeOK, Stopping
  <2> QED BY <2>1, DescendsBelow DEF Family
<1> QED BY <1>1, NamesFit, PTL

(* The SDK and the server derive one scope (context.ts fromEnv, engine.rs    *)
(* caller_context), whatever environment the server itself was started in.   *)
THEOREM OneScope == Spec => []ScopesAgree
<1>1. IndInv => ScopesAgree
  BY ScopesOf DEF IndInv, ScopesAgree
<1> QED BY <1>1, NamesFit, PTL

(* The matcher decides what path.rs says of it ("matched anchored against a  *)
(* full path"): that the path can be dealt out to the pattern's segments.    *)
THEOREM MatcherDeals == Spec => []MatchIsCover
<1>1. IndInv => MatchIsCover
  <2> SUFFICES ASSUME IndInv, NEW a \in DOMAIN agents, NEW pattern \in Patterns
               PROVE  Matches(pattern, agents[a].path) = Covers(pattern, agents[a].path)
    BY DEF MatchIsCover
  <2> DEFINE path == agents[a].path
  <2>1. pattern \in Paths /\ path \in Paths
    BY NamesAssumption, Entries DEF IndInv, Rows, Paths
  <2> HIDE DEF path
  <2>2. DOMAIN path = 1 .. Len(path) /\ DOMAIN pattern = 1 .. Len(pattern)
    BY <2>1 DEF Paths
  <2>3. Covers(pattern, path) <=> Dealt(pattern, path, 1, 1)
    <3> DEFINE cover(f) ==
          /\ f \in [DOMAIN path -> DOMAIN pattern]
          /\ \A i, j \in DOMAIN path : i < j => f[i] <= f[j]
          /\ \A i, j \in DOMAIN path : i # j /\ f[i] = f[j] => pattern[f[i]] = "**"
          /\ \A p \in DOMAIN pattern : \E i \in DOMAIN path : f[i] = p
          /\ \A i \in DOMAIN path : pattern[f[i]] \in {"*", "**", path[i]}
    <3>1. Covers(pattern, path) <=> \E f : cover(f)
      BY DEF Covers
    <3>2. \A f : cover(f) <=> Deals(pattern, path, 1, 1, f)
      BY <2>2 DEF Deals
    <3> HIDE DEF cover
    <3> QED BY <3>1, <3>2 DEF Dealt
  <2>4. Matches(pattern, path) <=> Covers(pattern, path)
    BY <2>1, <2>3, MatchesDeals
  <2>5. Matches(pattern, path) \in BOOLEAN /\ Covers(pattern, path) \in BOOLEAN
    BY DEF Matches, Covers
  <2> QED BY <2>4, <2>5 DEF path
<1> QED BY <1>1, NamesFit, PTL

(* The tree of `orcr top` hides none of the agents it was given              *)
(* (top/model.rs build_tree), because no two active agents have one path.    *)
THEOREM TreeShowsAll == Spec => []TopShowsListed
<1>1. IndInv => TopShowsListed
  <2> SUFFICES ASSUME IndInv, NEW pattern \in Patterns
               PROVE  Shown(pattern) = Matched(pattern)
    BY DEF TopShowsListed
  <2>1. \A a, b \in Matched(pattern) : Place(b) = Place(a) => b = a
    BY DEF IndInv, NamesUnique, Place, Matched
  <2>2. \A a \in Matched(pattern) : a \in Nat
    BY Entries DEF IndInv, Matched, Active
  <2> QED BY <2>1, <2>2 DEF Shown
<1> QED BY <1>1, NamesFit, PTL

-----------------------------------------------------------------------------
(* The schedules: what the search of Cadence guarantees for every expression,*)
(* calendar and horizon.                                                     *)

(* The search never goes back further than the length of the fold, and only  *)
(* in a zone that has one.                                                   *)
LEMMA NextBound ==
  ASSUME Change \in Int, Before \in Int, After \in Int, Horizon \in Nat,
         NEW after \in Int, NEW r \in Cron!NextAfter(after), r # Never
  PROVE  /\ Before <= After => after < r
         /\ After <= Before => after < r + (Before - After)
<1>1. PICK t \in after + 1 .. after + Horizon : r = Cron!Earliest(Cron!Local(t))
  BY DEF Cron!NextAfter, Cron!Candidates
<1>2. t \in Int /\ after < t
  BY <1>1
<1>3. CASE t < Change
  <2>1. r = t
    BY <1>1, <1>2, <1>3 DEF Cron!Earliest, Cron!Local
  <2> QED BY <2>1, <1>2
<1>4. CASE Change <= t
  <2>1. r = IF t + After - Before < Change THEN t + After - Before ELSE t
    BY <1>1, <1>2, <1>4 DEF Cron!Earliest, Cron!Local
  <2> QED BY <2>1, <1>2, <1>4
<1> QED BY <1>2, <1>3, <1>4

(* The clock and the instant a schedule was computed from are integers.      *)
Clocks == now \in Int /\ armed \in Int

LEMMA ClocksKept == Cron!Spec => []Clocks
<1>1. Cron!Init => Clocks
  BY DEF Cron!Init, Clocks
<1>2. Clocks /\ [Cron!Next]_(Cron!vars) => Clocks'
  BY DEF Clocks, Cron!Next, Cron!vars, Cron!Tick, Cron!Fire, Cron!Recover,
       Cron!Pause, Cron!Resume, Cron!Arm
<1> QED BY <1>1, <1>2, PTL DEF Cron!Spec

(* Every arming of the schedule, by a create, a fire, a recovery or a        *)
(* resume, stores a value of the search.                                     *)
LEMMA ArmedBySearch == Cron!Spec => [](next \in Cron!NextAfter(armed))
<1>1. Cron!Init => next \in Cron!NextAfter(armed)
  BY DEF Cron!Init
<1>2. next \in Cron!NextAfter(armed) /\ [Cron!Next]_(Cron!vars) => (next \in Cron!NextAfter(armed))'
  <2> SUFFICES ASSUME next \in Cron!NextAfter(armed), [Cron!Next]_(Cron!vars)
               PROVE  next' \in Cron!NextAfter(armed')
    BY DEF Cron!NextAfter, Cron!Candidates, Cron!Matches, Cron!Local, Cron!Earliest
  <2>1. CASE Cron!Arm
    BY <2>1 DEF Cron!Arm
  <2>2. CASE UNCHANGED <<next, armed>>
    BY <2>2
  <2> QED BY <2>1, <2>2 DEF Cron!Next, Cron!vars, Cron!Tick, Cron!Fire, Cron!Recover,
       Cron!Pause, Cron!Resume
<1> QED BY <1>1, <1>2, PTL DEF Cron!Spec

(* In a zone without a fold (no transition, or a spring-forward gap) the     *)
(* schedule is always armed for a later time, whatever the expression.       *)
THEOREM NoFoldStrictlyAfter ==
  ASSUME Change \in Int, Before \in Int, After \in Int, Horizon \in Nat,
         Before <= After
  PROVE  Cron!Spec => []Cron!StrictlyAfter
<1>1. Clocks /\ next \in Cron!NextAfter(armed) => Cron!StrictlyAfter
  BY NextBound DEF Clocks, Cron!StrictlyAfter
<1> QED BY <1>1, ClocksKept, ArmedBySearch, PTL

(* In a zone with a fold a schedule is behind by less than the fold.         *)
THEOREM FoldBoundsTheRepeat ==
  ASSUME Change \in Int, Before \in Int, After \in Int, Horizon \in Nat,
         After <= Before
  PROVE  Cron!Spec => []Cron!BehindByFold
<1>1. Clocks /\ next \in Cron!NextAfter(armed) => Cron!BehindByFold
  BY NextBound DEF Clocks, Cron!BehindByFold
<1> QED BY <1>1, ClocksKept, ArmedBySearch, PTL
=============================================================================
