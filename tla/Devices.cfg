SPECIFICATION Spec
CONSTANTS
  Thread = {t1, t2}
  Object = {o1, o2}
  Macs = 2
  NodeId = {n1, n2}
  None = None
INVARIANTS
  RawGoodUntilRemoved
  IteratorAtElement
PROPERTIES
  LookupEnds
CHECK_DEADLOCK FALSE
