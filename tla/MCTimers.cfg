SPECIFICATION CFairSpec
CONSTANTS
  Timer = {c1, t1, t2}
  Callback = {c1}
  Proc = {cp, p}
  ctimer_process = cp
  NONE = NONE
  W = 4
  Interval = {1}
  Adjustment = {1}
  MaxLate = 1
  NUMEVENTS = 1
INVARIANTS
  TypeOK
  OverduePolled
  NoOrphans
  CallbackAhead
PROPERTIES
  FiresWhenDue
  OverdueFires
  CallbackComes
