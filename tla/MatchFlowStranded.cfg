SPECIFICATION Spec
CONSTANTS
  Players = {p1, p2}
  MatchSize = 2
  MaxStarts = 2
  MaxCancels = 0
  MaxDrops = 0
  MaxMatches = 1
  NoMatch = NoMatch
  NoPlayer = NoPlayer
INVARIANTS NobodyStranded
SYMMETRY Symmetry
CHECK_DEADLOCK FALSE
