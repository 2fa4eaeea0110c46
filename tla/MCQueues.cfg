CONSTANTS
  Threads = {p, q, c}
  Takers = {c}
  Blocks = {b1, b2, b3, b4}
  None = None
  MaxClears = 2
  ClearAnytime = FALSE
  Nodes = {1, 2, 3, 4, 5}
  MinimumListSize = 3
  MaxWrites = 5
  MaxRingClears = 1
SYMMETRY Symmetry
SPECIFICATION MCSpec
INVARIANTS TypeOK OneOwner RemovesWhatItFound
INVARIANTS RingTypeOK NoBlockIsLost AssertionsHold SizeIsAnEstimate
PROPERTY ImplementsHandover
