SPECIFICATION Spec
CONSTANTS
  N = 2
  Champions = {1, 2}
  MaxTries = 2
  MaxDrops = 1
INVARIANTS TypeOK ChampionsDistinct GameStartsOnce UpdatesStand
CHECK_DEADLOCK FALSE
