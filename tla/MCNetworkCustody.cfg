SPECIFICATION Spec
CONSTANTS
  r1 = r1
  r2 = r2
  r3 = r3
  bs = bs
  Base = bs
  Relay <- Relay2
  Link <- LineLink
  Dist <- LineDist
  FrameId = {f1, f2}
  Reading = {q1, q2}
  SENSOR_DATA_PER_PACKET = 1
  HOP_NR_INITIAL = 4
  MaxBuilt <- BuildTwo
  Restarts = {}
  Repeats = FALSE
  ConfMod = 1
  SettledRounds = TRUE
SYMMETRY FrameSymmetry
INVARIANTS
  TypeOK
  Custody
  TimersArmed
  AckedIsTaken
PROPERTIES
  KeepsCustody
