SPECIFICATION FairSpec
CONSTANTS
  Slots = {k1}
  Sessions = {s1, s2}
  NoSession = NoSession
  Names = {n1, n2}
  BadName = BadName
  NoName = NoName
  MaxLogins = 2
INVARIANTS TypeOK NamesUnique NamesHeld SetsAgree
PROPERTIES ListenerFreed
CHECK_DEADLOCK FALSE
