SPECIFICATION ParserSpec
CONSTANTS
  NumVariables = 3
  MaxLines = 2
  Junk = Junk
  Overflow = Overflow
  KnownLiterals <- MCKnownLiterals
  ClauseIds <- MCClauseIds
  OfferedClauses = {}
  Configurations <- MCConfigurations
  Inputs <- LastLiteralInputs
  FollowUps <- MCFollowUps
INVARIANTS
  UnsatVerdictSound
