SPECIFICATION Spec
CONSTANTS
  p = p
  q = q
  h1 = h1
  h2 = h2
  Pollers = {p}
  Known = {p}
  Watched = {p}
  Steady = {}
  Faulty = {}
  Handlers = {h1}
  AlertThreshold = 2
  MonitorInterval = 1
  DiscoveryDelay = 1
  SettleDelay = 1
  PollInterval = 1
  Latency = 1
  Ahead = 0
  MaxAge = 8
PROPERTY RecoveryMatchesStatus
