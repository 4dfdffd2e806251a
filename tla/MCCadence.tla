---- MODULE MCCadence ----
EXTENDS Cadence
\* Two-minute hours, four-hour days, three-day months, two-month years and
\* two-day weeks; an hour of fold in the first day; daily in its second hour.
MCCal == [hour |-> 2, day |-> 4, month |-> 3, year |-> 2, week |-> 2]
MCOnce(v) == {[lo |-> v, hi |-> v, step |-> 1]}
MCExpr == [minute |-> MCOnce(0), hour |-> MCOnce(1),
           dom |-> {Star}, month |-> {Star}, dow |-> {Star}]
====
