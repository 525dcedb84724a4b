SPECIFICATION Spec
CONSTANTS
  j1 = j1
  j2 = j2
  v1 = v1
  e1 = e1
  e2 = e2
  sh = sh
  t1 = t1
  Jobs <- TwoJobs
  Variants <- OneVariant
  Empties <- TwoEmpties
  Shutdowns <- Nobody
  Faults <- Nothing
  Parallel = 2
  SkipFailed = TRUE
  PushDuring <- Anytime
  Tasks <- OneTask
  MaxPushes = 2
PROPERTIES StopsOnlyIdle
CHECK_DEADLOCK FALSE
