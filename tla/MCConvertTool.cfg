CONSTANTS
  NumTasks = 3
  Products <- MCProducts
  Formats = {"mesh", "svg", "brep", "usd", "xml", "ifc"}
SPECIFICATION Spec
INVARIANTS
  NothingIsLost
  OutputIsWhole
  SuccessMeansWritten
  FailureCleansUp
