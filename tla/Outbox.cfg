\* One channel, every hazard of its queue: safety and refinement.
SPECIFICATION Spec
CONSTANTS
  Channels = {c1}
  Messages <- TwoKinds
  MaxAttempts = 2
  RunIds = {r1, r2}
  MaxLog = 2
  MaxRestarts = 1
  MaxRebinds = 1
INVARIANTS CursorCovered FinalNeverResent DuplicatesExcused FirstTriesInOrder
PROPERTY Implements
CHECK_DEADLOCK FALSE
