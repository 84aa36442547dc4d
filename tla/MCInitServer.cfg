CONSTANTS
  Msgs = {m1}
  NoMsg = NoMsg
  RingSlots = 2
  MaxQueueSize = 2
  ErrorBase <- MCErrorBase
  UserTop <- MCUserTop
  PortArgs = {}
  CapArgs = {}
  PidArgs = {}
  RightsArgs = {}
  AddrArgs = {}
  LenArgs = {}
  MaxPorts = 3
  MaxCaps = 3
  MaxProcs = 2
  PageSize = 2
  MaxVmSize = 4
  WordSize = 32
  VmArgs = {}
  SizeArgs = {}
  LogServerAddr = 1
  LogServerStack = 5
  SchedulerServerAddr = 2
  SchedulerServerStack = 6

SPECIFICATION InitServerSpec

INVARIANT CapOwnersAreProcesses
