------------------------------ MODULE Cadence ------------------------------
(* The cadence of one cron loop (cron.rs) and the schedule it drives         *)
(* (server/loops.rs): the five-field expression, the search for the next     *)
(* occurrence in the loop's time zone, and the scheduler that arms, fires,   *)
(* pauses, resumes and recovers the loop with it.                            *)
(*                                                                           *)
(* Time is counted in UTC minutes.  The zone has one transition: local time  *)
(* is Before ahead of UTC until the instant Change, and After ahead from     *)
(* then on.  Before < After is a spring-forward gap, Before > After a        *)
(* fall-back fold, in which every local minute happens twice.                *)
EXTENDS Integers

CONSTANTS
  Cal,       \* [hour, day, month, year, week: Nat], the sizes of the calendar's units
  Expr,      \* the five fields of the expression, each a set of terms
  Change, Before, After,
  Horizon,   \* minutes the search looks ahead (MAX_MINUTES)
  MaxTime,   \* bound on the model's clock
  Never      \* no occurrence: next_fire_at is NULL

VARIABLES
  now,       \* the wall clock, in UTC minutes
  status,    \* the loop row's status
  next,      \* the loop row's next_fire_at
  armed      \* the `after` that next was computed from

vars == <<now, status, next, armed>>

-----------------------------------------------------------------------------
(* A term of a field: `*`, or lo-hi/step (a single value has lo = hi).       *)

Star == [lo |-> 0, hi |-> 0, step |-> 0]

Bounds(term, min, max) ==
  IF term = Star THEN [lo |-> min, hi |-> max, step |-> 1] ELSE term

ValidTerm(term, min, max) ==
  LET b == Bounds(term, min, max)
  IN b.step > 0 /\ min <= b.lo /\ b.lo <= b.hi /\ b.hi <= max

Values(field, min, max) ==
  {v \in min .. max : \E term \in field :
     LET b == Bounds(term, min, max)
     IN v \in b.lo .. b.hi /\ (v - b.lo) % b.step = 0}

Minutes == Values(Expr.minute, 0, Cal.hour - 1)
Hours   == Values(Expr.hour, 0, Cal.day - 1)
Doms    == Values(Expr.dom, 1, Cal.month)
Months  == Values(Expr.month, 1, Cal.year)
\* The last value names the first day of the week again.
Dows    == {v % Cal.week : v \in Values(Expr.dow, 0, Cal.week)}

\* The expression parses.
Parses ==
  /\ \A t \in Expr.minute : ValidTerm(t, 0, Cal.hour - 1)
  /\ \A t \in Expr.hour : ValidTerm(t, 0, Cal.day - 1)
  /\ \A t \in Expr.dom : ValidTerm(t, 1, Cal.month)
  /\ \A t \in Expr.month : ValidTerm(t, 1, Cal.year)
  /\ \A t \in Expr.dow : ValidTerm(t, 0, Cal.week)

\* A day matches on either field when both are restricted.  Only the text `*`
\* leaves a field unrestricted.
Matches(local) ==
  LET hour == local \div Cal.hour
      day  == hour \div Cal.day
      dom  == 1 + (day % Cal.month) \in Doms
      dow  == (day % Cal.week) \in Dows
  IN /\ (local % Cal.hour) \in Minutes
     /\ (hour % Cal.day) \in Hours
     /\ 1 + ((day \div Cal.month) % Cal.year) \in Months
     /\ IF Expr.dom # {Star} /\ Expr.dow # {Star} THEN dom \/ dow ELSE dom /\ dow

-----------------------------------------------------------------------------
(* The search: absolute minutes after `after`, each shown in local time; the *)
(* first that matches is converted back to UTC, taking the earlier instant   *)
(* of a local minute that happens twice.                                     *)

Local(t) == IF t < Change THEN t + Before ELSE t + After

Earliest(local) == IF local - Before < Change THEN local - Before ELSE local - After

Candidates(after) == {t \in after + 1 .. after + Horizon : Matches(Local(t))}

\* The values next_after returns: exactly one for every `after`.
NextAfter(after) ==
  IF Candidates(after) = {}
    THEN {Never}
    ELSE {Earliest(Local(t)) : t \in
            {c \in Candidates(after) : \A d \in Candidates(after) : c <= d}}

Arm == next' \in NextAfter(now) /\ armed' = now

-----------------------------------------------------------------------------
Due == next # Never /\ next <= now

\* loop create
Init ==
  /\ Parses
  /\ now = 0
  /\ status = "active"
  /\ next \in NextAfter(0)
  /\ armed = 0

Tick == now < MaxTime /\ now' = now + 1 /\ UNCHANGED <<status, next, armed>>

\* A scheduler tick fires the loop that came due and advances its schedule.
Fire == status = "active" /\ Due /\ Arm /\ UNCHANGED <<now, status>>

\* A server start skips the fire a loop, paused or not, missed while it was down.
Recover == Due /\ Arm /\ UNCHANGED <<now, status>>

Pause == status' = "paused" /\ UNCHANGED <<now, next, armed>>

Resume == Arm /\ status' = "active" /\ UNCHANGED now

Next == Tick \/ Fire \/ Recover \/ Pause \/ Resume

Spec == Init /\ [][Next]_vars

-----------------------------------------------------------------------------
(* A schedule is armed for a time after the one it was computed from         *)
(* (cron.rs and loops.rs: "the next fire strictly after `after`").           *)
StrictlyAfter == next # Never => armed < next

(* The schedule never falls behind by the length of the fold or more.        *)
BehindByFold == next # Never => armed < next + (Before - After)

=============================================================================
