SPECIFICATION FairSpec
CONSTANTS
  N = 2
  Champions = {1, 2}
  MaxTries = 1
  MaxDrops = 0
PROPERTIES PickAnswered
CHECK_DEADLOCK FALSE
