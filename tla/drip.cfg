SPECIFICATION FairSpec
CONSTANTS
  a = a
  b = b
  SeqnoMod = 32
  DRIP_MAX_SEND_INTERVAL = 2
  Nodes = {a, b}
  Links <- Pair
  Source = a
  WakeupBits = {1}
  FirstSeqno = 28
  MaxChanges = 3
  MaxBehind = 2
  MaxRestarts = 1
  NoMsg = NoMsg
INVARIANTS
  DripTypeOK
  SeqnoOrdersData
PROPERTIES
  NeverGoesBack
  KeepsAnnouncing
