SPECIFICATION Spec
CONSTANTS
  Element = {a1, a2, a3}
  nullptr = nullptr
INVARIANTS
  RemoveIsSafe
CHECK_DEADLOCK FALSE
