SPECIFICATION FairSpec
CONSTANTS
  Keys = {a, b, c}
  Own = a
  Aliases = {b}
  LaunchMuted = {b, c}
  Requests = {r1}
  EmptyId = noid
  Targets = {t1}
  Callers = {c1}
  Subscribers = {s1}
  QueueDepth = 2
  TTL = 1
  Interval = 1
  None = None
  MaxEvents = 3
  MaxNow = 4
INVARIANTS TypeOK BindingsAreOffers SingleIdentity ExpiryBound Backlog
PROPERTIES MutedIsSilent OutcomeReaches
