SPECIFICATION NodeSpec
CONSTANTS
  Stages <- MCStages
  Statuses <- MCStatuses
  InitialWords <- MCInitialWords
  Thread = {t1}
  Ep = {1}
  ClusterId = {c1, c2}
  Mask = {server}
  Attr = {a1, a2}
  Val = {v1, v2}
  Absent = Absent
  MaxEntries = 2
SYMMETRY Symmetry
INVARIANTS
  FullMeansAllReported
  ReadsLastReport
PROPERTIES
  ImplementsProgress
