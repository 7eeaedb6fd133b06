SPECIFICATION LinkSpec
CONSTANTS
  Dest = {all, d}
  Broadcast = all
  NONE = NONE
  CSMA_MAX_NEIGHBOR_QUEUES = 2
  QUEUEBUF_NUM = 3
  CSMA_MAX_MAC_TRANSMISSIONS = 2
  MaxPackets = 3
  Receiver = d
  Few = 2
INVARIANTS
  LastFewNotRepeated
