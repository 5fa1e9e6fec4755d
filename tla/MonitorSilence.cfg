SPECIFICATION Spec
CONSTANTS
  p = p
  q = q
  h1 = h1
  h2 = h2
  Pollers = {p, q}
  Known = {p}
  Watched = {p, q}
  Steady = {}
  Faulty = {q}
  Handlers = {h1}
  AlertThreshold = 1
  MonitorInterval = 1
  DiscoveryDelay = 1
  SettleDelay = 1
  PollInterval = 1
  Latency = 0
  Ahead = 0
  MaxAge = 7
INVARIANT SilenceDetected
