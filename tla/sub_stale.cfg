\* shield_up overtakes the reply to the alert that shield_down posted.
SPECIFICATION Spec
CONSTANTS
  Containers = {a}
  Targets = {x}
  Requests = {r1}
  Enabled = {"blocked", "verdict", "shield_down"}
  Fallible = {}
  None = None
  MaxEvents = 3
  MaxClicks = 1
CHECK_DEADLOCK FALSE
INVARIANT NoStaleAlert
