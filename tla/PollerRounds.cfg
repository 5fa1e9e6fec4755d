SPECIFICATION LiveSpec
CONSTANTS
  a = a
  b = b
  k1 = k1
  k2 = k2
  Agents = {a, b}
  Checks = {k1, k2}
  Conns = {1, 2, 3, 4}
  Attempts = 2
INVARIANTS ConnsInTable DownWasSeen ReportComplete
PROPERTIES PollEnds Recovers
CHECK_DEADLOCK FALSE
