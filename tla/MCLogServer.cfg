CONSTANTS
  Msgs <- MCMsgs
  NoMsg = NoMsg
  RingSlots = 2
  MaxQueueSize = 2
  BufSize = 2
  DispatchOn = 8
  ErrorBase = 1073741824
  MaxSends = 3

SPECIFICATION Spec

INVARIANT TypeOK
PROPERTY LogBufferRefinement
PROPERTY PortFifoRefinement
