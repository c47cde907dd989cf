SPECIFICATION SystemSpec
CONSTANTS
  NumVariables = 2
  KnownLiterals <- MCKnownLiterals
  ClauseIds <- MCClauseIds
  OfferedClauses <- MCOffered
  Restrictions <- MCRestrictions
  NoCandidate = NoCandidate
  NotAsked = NotAsked
INVARIANTS
  EliminatorTypeOK
PROPERTIES
  FoundSetBlocks
  SearchComplete
  BlockingSetSearchEnds
