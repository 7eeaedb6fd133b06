SPECIFICATION RoundsSpec
CONSTANTS
  r1 = r1
  r2 = r2
  r3 = r3
  bs = bs
  Base = bs
  Relay <- Relay3
  Link <- KiteLink
  Dist <- KiteDist
  FrameId = {f1, f2}
  Reading = {q1}
  SENSOR_DATA_PER_PACKET = 1
  HOP_NR_INITIAL = 5
  MaxBuilt <- BuildNone
  Restarts = {r2, r3}
  Repeats = TRUE
  ConfMod = 2
  SettledRounds = TRUE
SYMMETRY FrameSymmetry
INVARIANTS
  RoundConverges
  HopBounded
