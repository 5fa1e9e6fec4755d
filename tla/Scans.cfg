SPECIFICATION Spec
CONSTANTS
  s1 = s1
  s2 = s2
  t1 = t1
  t2 = t2
  t3 = t3
  Targets = {t1, t2}
  Scans = {s1, s2}
  Conns = {c1, c2}
  MaxIdle = 1
  Loads <- MCLoads
  Concurrency = 1
  IcmpLoads <- MCLoads
  Cancellable = {s1}
  MixedTargets = {t1, t2, t3}
  Mode <- MCMode
  Scanners = {"tcp", "icmp"}
  MayFail = {"icmp"}
INVARIANTS TcpConnectionsAccounted
PROPERTIES
  TcpImplementsChannel TcpScansEnd
  CombinedImplementsChannel CombinedCallEnds
  IcmpImplementsChannel IcmpNothingLeft
CHECK_DEADLOCK FALSE
