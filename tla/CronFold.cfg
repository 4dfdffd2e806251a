SPECIFICATION Spec
CONSTANTS
  Cal <- MCCal
  Expr <- MCExpr
  Change = 10
  Before = 2
  After = 0
  Horizon = 48
  MaxTime = 24
  Never = Never
INVARIANT StrictlyAfter
CHECK_DEADLOCK FALSE
