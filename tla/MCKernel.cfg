CONSTANTS
  Msgs = {m1}
  NoMsg = NoMsg
  RingSlots = 2
  MaxQueueSize = 2
  ErrorBase <- MCErrorBase
  UserTop <- MCUserTop
  PortArgs <- MCPortArgs
  CapArgs <- MCCapArgs
  PidArgs <- MCPidArgs
  RightsArgs <- MCRightsArgs
  AddrArgs <- MCAddrArgs
  LenArgs <- MCLenArgs
  MaxPorts = 2
  MaxCaps = 3
  MaxProcs = 2
  PageSize = 2
  MaxVmSize = 4
  WordSize = 32
  VmArgs <- MCVmArgs
  SizeArgs <- MCSizeArgs

SPECIFICATION ApiSpec

INVARIANT TypeOK
INVARIANT RingsConsistent
INVARIANT CapsNameOnePort
INVARIANT IdsFresh
INVARIANT NoRightsAmplification
PROPERTY CapabilityRefinement
VIEW StoreView
