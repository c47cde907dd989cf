SPECIFICATION ParserSpec
CONSTANTS
  NumVariables = 3
  MaxLines = 4
  Junk = Junk
  Overflow = Overflow
  KnownLiterals <- MCKnownLiterals
  ClauseIds <- MCClauseIds
  OfferedClauses = {}
  Configurations <- MCConfigurations
  Inputs <- MCInputs
  FollowUps <- MCFollowUps
INVARIANTS
  ParserTypeOK
  OccurrencesExact
  StoreIsTextUnderAssignment
  NoConstraintLost
  NoUnitLeft
  WellFormedInputAccepted
  ErrorsExplainRejection
PROPERTIES
  PropagationSaturates
  ConflictRealUnlessMisled
  ParseTerminates
