CONSTANTS
  Msgs <- MCMsgs
  NoMsg = NoMsg
  RingSlots = 2
  MaxQueueSize = 2
  Tasks <- MCTasks
  Durations <- MCDurations
  QueueCap = 2
  SleepCap = 2
  DispatchOn = 8
  ErrorBase = 1073741824
  MaxSends = 4
SPECIFICATION Spec
INVARIANT TypeOK
INVARIANT WakeMatchesReference
PROPERTY ExpiredSleeperWoken
