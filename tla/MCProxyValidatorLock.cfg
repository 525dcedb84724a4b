SPECIFICATION FairSpec
CONSTANTS
  j1 = j1
  j2 = j2
  v1 = v1
  e1 = e1
  e2 = e2
  sh = sh
  t1 = t1
  Jobs <- TwoJobs
  Variants <- OneVariant
  Empties <- TwoEmpties
  Shutdowns <- OneShutdown
  Faults <- AllButServers
  Parallel = 2
  SkipFailed = FALSE
  PushDuring <- Anytime
  Tasks <- OneTask
  MaxPushes = 2
INVARIANTS ServersFollowFlag JudgedAwake EmptyFlagHonest
PROPERTIES QueueSpec LockServed
CHECK_DEADLOCK FALSE
