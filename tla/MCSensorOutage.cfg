SPECIFICATION OutageSpec
CONSTANTS
  BUFF_SIZE = 50
  SAMPLES_PER_PACKET = 5
  SEQ_MOD = 256
  TIMEOUT_MAX = 4
  SHORT_TX_SAMPLES = 1
  LONG_TX_SAMPLES = 3
  MaxPackets = 52
  SAMPLE_RATE = 12
  Outage = 14400
PROPERTY StoresForOutage
