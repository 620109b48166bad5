CONSTANTS
  Star = "*"
  Conns = {c1}
  Routes = {"proxy", "http"}
  Hosts <- MCHosts
  BadNames <- NoNames
  Paths <- MCPaths
  Policies <- MCPolicies
  Supplies <- MCSupplies
  Modes = {"enforce", "monitor"}
  MaxInt = 9
  Reading <- Readings
  Percent <- NoProbabilities
  MaxHours = 2
  MaxTargets = 1
  MaxRequests = 2
SPECIFICATION Spec
INVARIANT EveryFetchDecided
CHECK_DEADLOCK FALSE
