CONSTANTS
  s = s
  c1 = c1
  c2 = c2
  o = o
  Server = s
  Clients = {c1, c2}
  Outside = {}
  UNASSIGNED = unassigned
  Says <- BanSays
  MaxLines <- BanLines
  TypeAhead = 1
  Short <- NoAddressShort
  MaxConnections = 2
  Crashes = {}
  Flaky = {}
SPECIFICATION Spec
PROPERTY BanHolds
