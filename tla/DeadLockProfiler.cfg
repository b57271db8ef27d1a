SPECIFICATION ProfilerSpec
CONSTANTS
  Workers = {t1, t2}
  X = X
  Y = Y
  Y2 = Y2
  Z = Z
  Locks = {X, Y, Y2, Z}
  Names = {X, Y, Z}
  NameOf <- ClassOf
  MaxGuards = 3
INVARIANTS ProfilerTypeOK CrashExact NoSilentDeadlock
SYMMETRY Symmetry
CHECK_DEADLOCK FALSE
