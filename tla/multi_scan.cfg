\* Children without background tasks when they are stopped.
SPECIFICATION FairSpec
CONSTANTS
  Paths = {p, q, r}
  Gens = {1, 2}
  None = None
  Busy = FALSE
  MaxChanges = 5
CHECK_DEADLOCK FALSE
INVARIANTS TypeOK OneChildPerSocket StopLeavesNothing
PROPERTY Converges
