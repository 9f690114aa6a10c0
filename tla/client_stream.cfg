\* Three faults, with pokes, calls, a one-shot call and a stop at any time.
SPECIFICATION FairSpec
CONSTANTS
  None = None
  Sockets = {1, 2, 3, 4}
  MaxBackoff = 10
  MaxFaults = 3
CHECK_DEADLOCK FALSE
INVARIANTS TypeOK NoSocketLeaks StoppedIsClosed StreamingMeansCallable
PROPERTIES HangsUpOnlyWithCause Reconnects
