CONSTANTS
  Msgs <- MCMsgs
  Requests <- MCRequests
  NoMsg = NoMsg
  RingSlots = 2
  MaxQueueSize = 2
  SocketCap = 2
  DispatchOn = 8
  ErrorBase = 1073741824
  MaxSends = 3
SPECIFICATION Spec
INVARIANT TypeOK
INVARIANT SocketIdsUnique
