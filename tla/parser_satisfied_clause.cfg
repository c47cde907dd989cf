SPECIFICATION ParserSpec
CONSTANTS
  NumVariables = 3
  MaxLines = 4
  Junk = Junk
  Overflow = Overflow
  KnownLiterals <- MCKnownLiterals
  ClauseIds <- MCClauseIds
  OfferedClauses = {}
  Configurations <- MCConfigurations
  Inputs <- SatisfiedClauseInputs
  FollowUps <- MCFollowUps
INVARIANTS
  UnsatVerdictSound
