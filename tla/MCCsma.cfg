SPECIFICATION MemorySpec
CONSTANTS
  Dest = {all, d, e}
  Broadcast = all
  NONE = NONE
  CSMA_MAX_NEIGHBOR_QUEUES = 2
  QUEUEBUF_NUM = 3
  CSMA_MAX_MAC_TRANSMISSIONS = 2
  MaxPackets = 4
INVARIANTS
  TypeOK
  PoolsExact
  QueueServed
  PointersLive
  ReportedOnce
  QueuesInMemory
PROPERTIES
  EachReported
