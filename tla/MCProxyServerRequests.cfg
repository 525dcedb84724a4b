SPECIFICATION FairSpec
CONSTANTS
  plain = plain
  tunnel = tunnel
  Clients <- OneOfEach
  SslClients <- OneTunnel
  RepeatLimit = 1
  MaxRequests = 1
INVARIANTS UsesBounded FailuresReported VerdictStands HandlesAreLive
PROPERTIES RequestSpec RequestsEnd FinalizeEnds
CHECK_DEADLOCK FALSE
