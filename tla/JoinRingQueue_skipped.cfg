SPECIFICATION SweepSpec
CONSTANTS
  Element = {a1, a2, a3}
  nullptr = nullptr
PROPERTIES
  SweepVisitsEveryone
CHECK_DEADLOCK FALSE
