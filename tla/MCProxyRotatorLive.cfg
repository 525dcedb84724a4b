SPECIFICATION FairSpec
CONSTANTS
  a = a
  b = b
  c1 = c1
  c2 = c2
  Callers = {c1, c2}
  Rows <- OneRow
  Reuse = 1
  FetchSize = 1
  FillAtStartup = TRUE
  MaxCalls = 1
  MaxCleanups = 1
PROPERTIES FlightSpec EveryCallSettles RequestFreed
CHECK_DEADLOCK FALSE
