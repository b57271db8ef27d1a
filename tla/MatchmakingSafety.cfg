SPECIFICATION Spec
CONSTANTS
  Tickets <- SpreadTickets
  Positions <- TwoPositions
  None = "none"
  BucketSize = 2
  BucketCount = 3
  MatchRange = 3
  NoMatch = NoMatch
INVARIANTS TypeOK CandidatesComplete MatchSound TeamsBalanced
PROPERTIES LeavesForReason ExpiredSwept
