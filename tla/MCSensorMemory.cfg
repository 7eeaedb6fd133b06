SPECIFICATION MemorySpec
CONSTANTS
  BUFF_SIZE = 3
  SAMPLES_PER_PACKET = 2
  SEQ_MOD = 3
  TIMEOUT_MAX = 2
  SHORT_TX_SAMPLES = 1
  LONG_TX_SAMPLES = 2
  MaxPackets = 5
INVARIANTS
  TypeOK
  PoolSound
  BufferWindow
  Accounted
  NoLostWakeup
  BufferInMemory
PROPERTIES
  Released
