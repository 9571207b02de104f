CONSTANTS
  NumTasks = 3
  Products <- MCProducts
  Deflections = {0, 1}
  MaxModels = 2
SPECIFICATION FairSpec
INVARIANTS
  ObedientClientIsSafe
  EveryElementOffered
  OnlyEmptyModelsLeak
PROPERTY EveryCallIsAnswered
