CONSTANTS
  NumTasks = 2
  NumThreads = 2
  Products <- MCProducts
SPECIFICATION Spec
INVARIANT NullMeansExhausted
