SPECIFICATION Spec
CONSTANTS
  Calls = {c1, c2}
  Keys = {k1, k2}
  External = {k1}
  HistorySize = 2
  MaxHeight = 4
  MaxInFlight = 2
  W = 3
  Configs <- MCConfigs
  Modes = {"icmp", "tcp"}
  PortList <- MCPorts
INVARIANTS
  AgentClientsAccounted AgentDownWasSeen
  DuskHistoryIsLatest SweepTargetsExact
PROPERTIES
  AgentCallsAnswered AgentSweepEnds AgentShutdownEnds
  DuskWebsocketReleased SweepListingEnds
CHECK_DEADLOCK FALSE
