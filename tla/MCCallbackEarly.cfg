SPECIFICATION CSpec
CONSTANTS
  Timer = {c1}
  Callback = {c1}
  Proc = {cp}
  ctimer_process = cp
  NONE = NONE
  W = 6
  Interval = {1, 2}
  Adjustment = {}
  MaxLate = 1
  NUMEVENTS = 2
PROPERTIES
  CalledWhenDue
