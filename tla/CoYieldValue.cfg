CONSTANTS
  NPROC = 2
  MaxPid = 2
  Values = {1, 2}
  Calls <- CoYieldCalls
SPECIFICATION Spec
PROPERTY TargetGetsCallersValue
