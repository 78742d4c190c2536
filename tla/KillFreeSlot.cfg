CONSTANTS
  NPROC = 2
  MaxPid = 2
  Values = {1}
  Calls <- KillCalls
SPECIFICATION Spec
PROPERTY KillMarksProcesses
