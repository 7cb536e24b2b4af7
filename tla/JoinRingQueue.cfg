SPECIFICATION Spec
CONSTANTS
  Element = {a1, a2, a3}
  nullptr = nullptr
INVARIANTS
  TypeOK
  WellLinked
  NoDanglingCursor
  OnlyKnownCrashes
PROPERTIES
  ImplementsQueue
  ClearTerminates
CHECK_DEADLOCK FALSE
