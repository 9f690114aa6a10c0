\* Two verdicts share one connection through two outages of the helper.
SPECIFICATION FairSpec
CONSTANTS
  Callers = {c1, c2}
  None = None
  MaxLinks = 4
  MaxOutages = 2
CHECK_DEADLOCK FALSE
INVARIANTS TypeOK OkMeansApplied TwiceOnlyAfterLoss OneConnection
PROPERTY ApplyReturns
