CONSTANTS
  Names = {1, 2, 3}
  Guids = {"g1", "g2"}
  Arity <- MCArity
  Rooted = {"WALL"}
  Abstract = {"ROOT"}
  DefinedTypes = {"LABEL"}
  Statements <- MCStatements
  MaxStatements = 3
SPECIFICATION FairSpec
INVARIANTS
  TypeOK
  InStep
  ReferencesAreListed
  SoundIsLoaded
PROPERTY Terminates
