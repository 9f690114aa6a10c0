SPECIFICATION Spec
CONSTANTS
  Keys = {a}
  Own = None
  Aliases = {}
  LaunchMuted = {}
  Requests = {r1}
  EmptyId = noid
  Targets = {t1}
  Callers = {c1}
  Subscribers = {}
  QueueDepth = 1
  TTL = None
  Interval = 1
  None = None
  MaxEvents = 4
  MaxNow = 0
INVARIANT DroppedOnLifecycleChange
