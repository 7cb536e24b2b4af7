SPECIFICATION SweepSpec
CONSTANTS
  Element = {a1, a2, a3}
  nullptr = nullptr
INVARIANTS
  CrashNeedsStale
PROPERTIES
  SweepVisitsAllButLast
CHECK_DEADLOCK FALSE
