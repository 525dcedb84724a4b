CONSTANTS
  Addrs = {a1}
  Variants <- BothTargets
  Cycle = 2
  Many = 1
  Share = 51
  MaxStores = 2
  MaxLogs = 2
  MaxFetches = 1
SPECIFICATION Spec
INVARIANTS StatisticsAgree NoneCountedTwice NumbersCount OneStateEach RowMatchesStates
PROPERTIES BlocksStay
CHECK_DEADLOCK FALSE
