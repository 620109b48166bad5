CONSTANTS
  fleet = fleet
  other = other
  now = now
  Keys = {fleet, other}
  NoKey = NoKey
  Contents = {now, earlier}
  None = None
  Invocations <- MCInvocations
SPECIFICATION Spec
INVARIANT TwoMeansUnverified
CHECK_DEADLOCK FALSE
