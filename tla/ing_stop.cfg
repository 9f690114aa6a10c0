\* Two readers, one more under a foreign uid, and a stop() at any time.
SPECIFICATION FairSpec
CONSTANTS
  Conns = {c1, c2, c3}
  Foreign = {c3}
  MaxLines = 2
CHECK_DEADLOCK FALSE
INVARIANTS TypeOK NothingLostOnHangUp
PROPERTIES SilentAfterStop StopReturns
