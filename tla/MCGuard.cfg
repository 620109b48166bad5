CONSTANTS
  Keys = {k1}
  MaxWindows = 1
  MaxAttempts = 2
  HttpTimeout = 15
  CloseTimeout = 20
  MaxNotes = 2
  Faults = {"delayed"}
  Tracked = {t1}
  Hijacked = {}
  ShutdownTimeout = 5
  PostPolls = 25
SPECIFICATION GuardFairSpec
INVARIANTS SummaryIsFinalForTracked LastFlushGetsAFullAttempt PostOutwaitsTheFlush
PROPERTY ConsoleAgreesWithSummary
CHECK_DEADLOCK FALSE
