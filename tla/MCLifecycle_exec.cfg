CONSTANTS
  g1 = g1
  g2 = g2
  None = None
  Earlier = Earlier
  Guards <- MCGuards
  Machines <- MCTwoExecs
  Hosts <- MCHosts
  MaxFaults = 0
  MaxKills = 0
SPECIFICATION Spec
INVARIANT JobsDoNotCollide
CHECK_DEADLOCK FALSE
