SPECIFICATION GeneratorSpec
CONSTANTS
  MaxSize = 5
  Heuristics = {"Sequential", "Random", "MinimalClauseOverlap", "MaximumClauseOverlap"}
  NoCandidate = NoCandidate
  NotAsked = NotAsked
  Requests <- MCRequests
INVARIANT
  BookkeepingAgrees
PROPERTIES
  SearchTerminates
  EnumeratesAllCandidates
