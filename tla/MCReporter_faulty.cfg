CONSTANTS
  Keys = {k1, k2}
  MaxWindows = 1
  MaxAttempts = 2
  HttpTimeout = 1
  CloseTimeout = 1
  MaxNotes = 3
  Faults = {"lost", "delayed", "failed"}
SYMMETRY Symmetry
SPECIFICATION Spec
INVARIANTS TypeOK DropsOnlyAtTheCap NotesAccounted OneBodyPerBatch DropsAccounted
PROPERTY NeverOvercounted
CHECK_DEADLOCK FALSE
