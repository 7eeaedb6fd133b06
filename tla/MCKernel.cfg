SPECIFICATION FairSpec
CONSTANTS
  a = a
  b = b
  c = c
  NULL = NULL
  Proc <- Two
  AtBoot <- Boot2
  NUMEVENTS = 2
  Msg = {m}
INVARIANTS
  TypeOK
  NoLostPoll
  SleepsIdle
  ListSound
  BroadcastComplete
  BroadcastOnce
PROPERTIES
  KeepsQueue
  EventsServed
  PollsServed
