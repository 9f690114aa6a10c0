\* stop() overtakes the stop of a child with background tasks.
SPECIFICATION FairSpec
CONSTANTS
  Paths = {p, q}
  Gens = {1, 2}
  None = None
  Busy = TRUE
  MaxChanges = 5
CHECK_DEADLOCK FALSE
INVARIANT StopLeavesNothing
