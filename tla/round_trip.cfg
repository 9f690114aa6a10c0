SPECIFICATION FairSpec
CONSTANTS
  Keys = {a}
  Own = None
  Aliases = {}
  LaunchMuted = {}
  Requests = {r1, r2}
  EmptyId = noid
  Targets = {t1, t2}
  Callers = {tool, other}
  Subscribers = {s}
  QueueDepth = 4
  TTL = 0
  Interval = 1
  None = None
  MaxEvents = 4
  MaxNow = 1
  Screen = s
  Tool = tool
  Changes = {"shield_up", "shield_disengaged"}
CHECK_DEADLOCK FALSE
INVARIANT OpenMeansAnswerable
PROPERTY AnswersSettle
