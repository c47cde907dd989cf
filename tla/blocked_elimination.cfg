SPECIFICATION SystemSpec
CONSTANTS
  NumVariables = 3
  KnownLiterals <- MCKnownLiterals
  ClauseIds = {i0, i1, i2}
  OfferedClauses <- MCOffered
  Heuristics = {"Sequential", "Random", "MinClauseOverlap", "MaxClauseOverlap"}
  NoLiteral = NoLiteral
  NotAsked = NotAsked
SYMMETRY IndexSymmetry
INVARIANTS
  EliminatorTypeOK
PROPERTIES
  FoundLiteralBlocks
  SearchComplete
