SPECIFICATION ProgramSpec
CONSTANTS
  NumVariables = 3
  MaxLines = 3
  SizeMax = 15
  NotGiven = NotGiven
  Junk = Junk
  Overflow = Overflow
  KnownLiterals <- MCKnownLiterals
  ClauseIds <- MCClauseIds
  OfferedClauses = {}
  Configurations <- MCConfigurations
  Inputs <- SixClauseInputs
  FollowUps = {}
  NoCommand = NoCommand
  Commands <- AvlCommands
INVARIANT
  FoundAreBlocked
CHECK_DEADLOCK FALSE
