\* The same target is blocked again while its prompt is open.
SPECIFICATION Spec
CONSTANTS
  Containers = {a}
  Targets = {x}
  Requests = {r1, r2}
  None = None
  MaxEvents = 3
CHECK_DEADLOCK FALSE
INVARIANT OpenRequestIsListed
