SPECIFICATION Spec
CONSTANTS
  Keys = {a, b}
  Own = None
  Aliases = {}
  LaunchMuted = {}
  Requests = {r1, r2}
  EmptyId = noid
  Targets = {t1}
  Callers = {c1, c2}
  Subscribers = {}
  QueueDepth = 1
  TTL = None
  Interval = 1
  None = None
  MaxEvents = 5
  MaxNow = 0
SYMMETRY Symmetric
INVARIANTS Lockstep VerdictsCiteOffers AnsweredOnce PurgeIsComplete
PROPERTY ImplementsAuthz
