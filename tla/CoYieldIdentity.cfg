CONSTANTS
  NPROC = 3
  MaxPid = 4
  Values = {1}
  Calls <- ReuseCalls
SPECIFICATION Spec
PROPERTY MeetsNamedPid
