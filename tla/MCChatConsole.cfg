CONSTANTS
  s = s
  c1 = c1
  c2 = c2
  o = o
  Server = s
  Clients = {c1, c2}
  Outside = {o}
  UNASSIGNED = unassigned
  Says <- ConsoleSays
  MaxLines <- ConsoleLines
  TypeAhead = 2
  Short <- SomeShort
  MaxConnections = 1
  Crashes = {}
  Flaky = {}
SPECIFICATION Spec
INVARIANTS AnswersStayLocal CanAnswer
CHECK_DEADLOCK FALSE
