CONSTANTS
  NPROC = 3
  MaxPid = 4
  Values = {1}
  Calls <- ProcessCalls
SPECIFICATION Spec
INVARIANTS
  OnlyInitPanics
  CpuOwnership
  NoCoYieldCycle
  RendezvousReturnsValue
  NoLostExit
  SyscallsInterruptible
PROPERTIES
  CoSleeperWakes
