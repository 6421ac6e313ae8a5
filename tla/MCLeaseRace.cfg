SPECIFICATION Spec
CONSTANTS
  Runners = {r1, r2}
  Nobody = nobody
  max_calls = 2
  max_seconds = 3
  MaxNow = 4
PROPERTY ChargedTimeStands
CHECK_DEADLOCK FALSE
