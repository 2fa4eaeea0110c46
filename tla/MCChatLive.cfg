CONSTANTS
  s = s
  c1 = c1
  c2 = c2
  o = o
  Server = s
  Clients = {c1, c2}
  Outside = {}
  UNASSIGNED = unassigned
  Says <- LiveSays
  MaxLines <- LiveLines
  TypeAhead = 1
  Short <- AllShort
  MaxConnections = 2
  Crashes = {c2}
  Flaky = {}
SPECIFICATION FairSpec
PROPERTIES
  Delivered
  GoneIsNoticed
CHECK_DEADLOCK FALSE
