CONSTANTS
  NPROC = 3
  MaxPid = 3
  Values = {1}
  Calls <- CoYieldCalls
SPECIFICATION FairSpec
PROPERTY RunnableRuns
