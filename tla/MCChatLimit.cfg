CONSTANTS
  s = s
  c1 = c1
  c2 = c2
  o = o
  Server = s
  Clients = {c1, c2}
  Outside = {}
  UNASSIGNED = unassigned
  Says <- LimitSays
  MaxLines <- LimitLines
  TypeAhead = 1
  Short <- AllShort
  MaxConnections = 1
  Crashes = {c2}
  Flaky = {}
SPECIFICATION FairSpec
PROPERTY AttemptIsDecided
CHECK_DEADLOCK FALSE
