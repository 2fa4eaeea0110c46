CONSTANTS
  Variables = {1, 2}
  Values = {1, 2}
  NotWritten = NotWritten
  Shared = Shared
  NoReceipt = NoReceipt
  LongValues = {2}
  Systems = {s1, s2}
  Receipts = {r1, r2}
  MaxInFlight = 2
  Ordered = {"unique", "identical"}
  Apart = {s1}
  Modes = {"acked"}
SPECIFICATION Spec
INVARIANT NothingIsForgotten
