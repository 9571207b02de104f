CONSTANTS
  NumTasks = 4
  NumThreads = 3
  Products <- MCProducts
SPECIFICATION FairSpec
INVARIANTS
  TypeOK
  KernelExclusive
  CursorObserved
  FreedQuiet
  AllDelivered
  ProgressCounts
PROPERTIES
  ImplementsStream
  CallReturns
  DestroyReturns
