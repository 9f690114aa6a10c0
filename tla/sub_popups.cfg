\* Two containers, two targets, every kind of popup; the daemon may refuse to
\* post a prompt or an alert.
SPECIFICATION Spec
CONSTANTS
  Containers = {a, b}
  Targets = {x, y}
  Requests = {r1, r2, r3}
  Enabled = {"blocked", "verdict", "shield_down"}
  Fallible = {"prompt", "alert"}
  None = None
  MaxEvents = 3
  MaxClicks = 1
SYMMETRY Symmetric
CHECK_DEADLOCK FALSE
INVARIANTS TypeOK OnePopupPerTarget NoPromptLeftBehind EndedPromptsGo ClicksMeanWhatTheyShow RecordedAlertGoes
