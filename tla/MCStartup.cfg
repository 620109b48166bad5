CONSTANTS
  fleet = fleet
  other = other
  now = now
  Keys = {fleet, other}
  NoKey = NoKey
  Contents = {now, earlier}
  None = None
  Invocations <- MCInvocations
SPECIFICATION Spec
INVARIANTS EnforcedWasSigned VerifiedIsNotCircular BothUnderOneKey FailureIsNotMasked OnlyThePolicyStopsARun UnverifiedIsTwo
CHECK_DEADLOCK FALSE
