SPECIFICATION FromQueueOrAccepted
CONSTANTS
  Players = {p1, p2}
  MatchSize = 2
  MaxStarts = 3
  MaxCancels = 1
  MaxDrops = 1
  MaxMatches = 2
  NoMatch = NoMatch
  NoPlayer = NoPlayer
INVARIANTS OneOutcome
CHECK_DEADLOCK FALSE
