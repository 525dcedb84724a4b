SPECIFICATION FairSpec
CONSTANTS
  j1 = j1
  j2 = j2
  v1 = v1
  e1 = e1
  e2 = e2
  sh = sh
  t1 = t1
  Jobs <- TwoJobs
  Variants <- OneVariant
  Empties <- TwoEmpties
  Shutdowns <- Nobody
  Faults <- Anything
  Parallel = 2
  SkipFailed = TRUE
  PushDuring <- WhileStopping
  Tasks <- OneTask
  MaxPushes = 3
PROPERTIES ServiceSpec JobsEnd TasksResume JudgeSleeps
CHECK_DEADLOCK FALSE
