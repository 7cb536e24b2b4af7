SPECIFICATION Spec
CONSTANTS
  Node = {n1, n2}
  Resolver = {r1, r2}
  nullptr = nullptr
  kMaxIPAddresses = 2
  MaxRecords = 3
SYMMETRY Symmetry
INVARIANTS
  LastRecordDecides
  FirstAddressesKept
  ResolvedIsUsable
  CrashesOnlyDuringInit
CHECK_DEADLOCK FALSE
