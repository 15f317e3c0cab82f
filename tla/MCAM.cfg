SPECIFICATION FairAMSpec
CONSTANTS
  Msgs = {m1, m2, u1}
  UartMsgs = {u1}
  NoMsg = NoMsg
  Handlers <- ClientsOnly
  Services = {}
  Capacity = 3
  MaxApps = 3
  PowerCycles = TRUE
INVARIANTS
  BusyForAReason
  OneMessageInHand
PROPERTIES
  SendDoneOnce
  EverySendIsReported
