SPECIFICATION Spec
CONSTANTS
  r1 = r1
  r2 = r2
  r3 = r3
  bs = bs
  Base = bs
  Relay <- Relay2
  Link <- WideLink
  Dist <- LineDist
  FrameId = {f1}
  Reading = {q1}
  SENSOR_DATA_PER_PACKET = 1
  HOP_NR_INITIAL = 3
  MaxBuilt <- BuildEach
  Restarts = {}
  Repeats = FALSE
  ConfMod = 2
  SettledRounds = FALSE
INVARIANTS
  Custody
  HopSound
