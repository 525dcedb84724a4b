SPECIFICATION FairSpec
CONSTANTS
  a = a
  b = b
  bad = bad
  e1 = e1
  e2 = e2
  o1 = o1
  Classes <- TwoProviders
  Addresses = {a, bad}
  Usable = {a}
  Others = {o1}
  Empties = {e1}
  MaxRounds = 2
  MaxPages = 1
  Limit = 1
INVARIANTS ResultsComplete OutputWhole
PROPERTY TasksReturn
CHECK_DEADLOCK FALSE
