SPECIFICATION Spec
CONSTANTS
  a = a
  b = b
  c1 = c1
  c2 = c2
  Callers = {c1, c2}
  Rows <- PlainRows
  Reuse = 2
  FetchSize = 2
  FillAtStartup = FALSE
  MaxCalls = 1
  MaxCleanups = 0
SYMMETRY CallerSymmetry
INVARIANTS SingleFlight IncAccounts WaiterArmed
PROPERTY ReuseSpacing
CHECK_DEADLOCK FALSE
