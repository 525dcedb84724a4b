SPECIFICATION Spec
CONSTANTS
  plain = plain
  tunnel = tunnel
  Clients <- OnePlain
  SslClients <- NoClients
  RepeatLimit = 1
  MaxRequests = 1
INVARIANT NoMatchFallsBack
CHECK_DEADLOCK FALSE
