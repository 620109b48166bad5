CONSTANTS
  Star = "*"
  Conns = {c1, c2}
  Routes = {"proxy", "connect", "http", "tls"}
  Hosts <- MCHosts
  BadNames <- NoNames
  Paths <- MCPaths
  Policies <- MCPolicies
  Supplies <- MCSupplies
  Modes = {"enforce", "monitor"}
  MaxInt = 9
  Reading <- Readings
  Percent <- NoProbabilities
  MaxHours = 2
  MaxTargets = 1
  MaxRequests = 2
SPECIFICATION Spec
INVARIANTS EnforceHolds StaleRegistryIsClosed NothingUnseen UnidentifiedStaysHere MonitorRefusesOnlyTheUnidentified TallyAgreesWithReports ObservedAreForwarded RefusedTunnelRecordedOnce
SYMMETRY Symmetry
CHECK_DEADLOCK FALSE
