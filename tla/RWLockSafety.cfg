SPECIFICATION Spec
CONSTANTS
  Threads = {1, 2, 3}
  MaxDepth = 2
INVARIANTS TypeOK GuardsMatch
PROPERTIES ImplementsLock
CHECK_DEADLOCK FALSE
