SPECIFICATION FairQueueSpec
CONSTANTS
  Msgs = {m1, m2, u1}
  UartMsgs = {u1}
  NoMsg = NoMsg
  Handlers <- QueueThenClients
  Services <- QueueService
  Capacity = 6
  MaxApps = 1
  PowerCycles = FALSE
  MESSAGE_QUEUE_SIZE = 3
  MAX_RETRANSMIT_COUNT = 1
  retransmit = TRUE
  WordMod = 12
INVARIANTS
  QueueTypeOK
  RingIsContiguous
  OneMover
PROPERTIES
  ImplementsSendQueue
  QueuedIsSent
