SPECIFICATION FairSpec
CONSTANTS
  r1 = r1
  r2 = r2
  r3 = r3
  bs = bs
  Relay <- Relay2
  Base = bs
  Link <- LineLink
  Dist <- LineDist
  FrameId = {f1}
  Reading = {q1}
  SENSOR_DATA_PER_PACKET = 1
  HOP_NR_INITIAL = 4
  MaxBuilt <- BuildFar
  Restarts = {}
  Repeats = FALSE
  ConfMod = 2
  SettledRounds = TRUE
PROPERTIES
  EventuallyReceived
