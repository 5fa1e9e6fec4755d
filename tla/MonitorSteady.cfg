SPECIFICATION Spec
CONSTANTS
  p = p
  q = q
  h1 = h1
  h2 = h2
  Pollers = {p}
  Known = {p}
  Watched = {p}
  Steady = {p}
  Faulty = {}
  Handlers = {h1, h2}
  AlertThreshold = 6
  MonitorInterval = 1
  DiscoveryDelay = 3
  SettleDelay = 1
  PollInterval = 1
  Latency = 1
  Ahead = 0
  MaxAge = 14
INVARIANT NoFalseOffline
