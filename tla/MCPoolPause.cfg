CONSTANTS
  w1 = w1
  w2 = w2
  w3 = w3
  i1 = i1
  i2 = i2
  Workers = {w1, w2}
  NumThreads = 2
  Inputs = {i1, i2}
  MaxStarts = 2
  Failing = {2}
  None = none
SPECIFICATION FairSpec
PROPERTY PauseReturns
CHECK_DEADLOCK FALSE
