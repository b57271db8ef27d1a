SPECIFICATION FromQueueOrAlone
CONSTANTS
  Players = {p1, p2}
  MatchSize = 2
  MaxStarts = 3
  MaxCancels = 1
  MaxDrops = 2
  MaxMatches = 1
  NoMatch = NoMatch
  NoPlayer = NoPlayer
INVARIANTS TypeOK NoTicketForged
PROPERTIES EveryMatchEnds DeadTicketsGo
CHECK_DEADLOCK FALSE
