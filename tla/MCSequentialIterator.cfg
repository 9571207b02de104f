CONSTANTS
  NumTasks = 4
  Products <- MCProducts
SPECIFICATION Spec
INVARIANTS
  TypeOK
  GetIsValid
PROPERTY ImplementsStream
