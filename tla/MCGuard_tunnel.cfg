CONSTANTS
  Keys = {k1}
  MaxWindows = 1
  MaxAttempts = 2
  HttpTimeout = 2
  CloseTimeout = 3
  MaxNotes = 2
  Faults = {}
  Tracked = {t1}
  Hijacked = {h1}
  ShutdownTimeout = 1
  PostPolls = 5
SPECIFICATION GuardSpec
INVARIANT NothingRecordedAfterSummary
CHECK_DEADLOCK FALSE
