SPECIFICATION Spec
CONSTANTS
  r1 = r1
  r2 = r2
  r3 = r3
  bs = bs
  Relay <- Relay1
  Base = bs
  Link <- SingleLink
  Dist <- SingleDist
  FrameId = {f1, f2}
  Reading = {q1}
  SENSOR_DATA_PER_PACKET = 2
  HOP_NR_INITIAL = 100
  MaxBuilt <- BuildThree
  Restarts = {}
  Repeats = FALSE
  ConfMod = 1
  SettledRounds = TRUE
SYMMETRY FrameSymmetry
PROPERTIES
  EachStoredIsAcked
