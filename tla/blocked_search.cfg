SPECIFICATION ProgramSpec
CONSTANTS
  NumVariables = 3
  MaxLines = 3
  SizeMax = 15
  NotGiven = NotGiven
  Junk = Junk
  Overflow = Overflow
  KnownLiterals <- MCKnownLiterals
  ClauseIds <- MCClauseIds
  OfferedClauses = {}
  Configurations <- MCConfigurations
  Inputs <- MCInputs
  FollowUps = {}
  NoCommand = NoCommand
  Commands <- MCCommands
INVARIANTS
  SearchTypeOK
  FoundJointlyRedundant
  UnlimitedSearchComplete
  CandidatesAreBest
PROPERTY
  ProgramEnds
CHECK_DEADLOCK FALSE
