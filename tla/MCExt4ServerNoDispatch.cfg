CONSTANTS
  Msgs <- MCMsgs
  NoMsg = NoMsg
  RingSlots = 2
  MaxQueueSize = 2
  DispatchOn = 0
  ErrorBase = 1073741824
  MaxSends = 3

SPECIFICATION Spec

PROPERTY EveryRequestHandled
