SPECIFICATION Spec
CONSTANTS
  NumVariables = 2
  KnownLiterals <- MCKnownLiterals
  ClauseIds <- MCClauseIds
  OfferedClauses <- MCOffered
INVARIANTS
  TypeOK
  OccurrencesComplete
  TrailMatchesValues
  CallStackFollowsTrail
PROPERTIES
  PropagationTerminates
