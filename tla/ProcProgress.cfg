CONSTANTS
  NPROC = 2
  MaxPid = 3
  Values = {1}
  Calls <- AllCalls
SPECIFICATION FairSpec
INVARIANTS
  IInv
PROPERTIES
  RunnableRuns
  KilledDies
