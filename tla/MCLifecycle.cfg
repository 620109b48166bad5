CONSTANTS
  g1 = g1
  g2 = g2
  None = None
  Earlier = Earlier
  Guards <- MCGuards
  Machines <- MCMachines
  Hosts <- MCHosts
  MaxFaults = 1
  MaxKills = 1
SPECIFICATION FairSpec
INVARIANTS RedirectLands NoSelfLoop NoFamilyUncovered CleanExit LeftoversDoNotBlock DetachMeansUp
PROPERTY StopEnds
CHECK_DEADLOCK FALSE
