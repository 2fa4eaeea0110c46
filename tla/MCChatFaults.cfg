CONSTANTS
  s = s
  c1 = c1
  c2 = c2
  o = o
  Server = s
  Clients = {c1, c2}
  Outside = {}
  UNASSIGNED = unassigned
  Says <- FaultSays
  MaxLines <- FaultLines
  TypeAhead = 2
  Short <- AllShort
  MaxConnections = 2
  Crashes = {s, c2}
  Flaky = {c1}
SPECIFICATION Spec
INVARIANTS
  TypeOK
  NoEchoOnTheWay
  SenderOrder
  RelayedThroughServer
CHECK_DEADLOCK FALSE
