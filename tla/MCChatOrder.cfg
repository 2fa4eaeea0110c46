CONSTANTS
  s = s
  c1 = c1
  c2 = c2
  c3 = c3
  Server = s
  Clients = {c1, c2, c3}
  Outside = {}
  UNASSIGNED = unassigned
  Says <- OrderSays
  MaxLines <- OrderLines
  TypeAhead = 1
  Short <- AllShort
  MaxConnections = 3
  Crashes = {}
  Flaky = {}
  NotJoined = notjoined
SPECIFICATION OrderSpec
INVARIANT Agreement
PROPERTIES ImplementsRelay
SYMMETRY Talkers
