SPECIFICATION Spec
CONSTANTS
  NULL = NULL
  ListHead = {h1, h2}
  Entry = {a, b, c}
  Tree = Tree
  e1 = e1
  e2 = e2
  e3 = e3
  e4 = e4
  Element = {e1, e2, e3, e4}
  KeyOf <- MCKeyOf
  Names = {1, 2}
  Values <- MCValues
  MaxAttrs = 3
  Sizes = {5, 14, 16}
  RawLens = {0, 3, 4, 8, 9, 12, 17, 18, 19, 20}
SYMMETRY Symmetry
INVARIANTS
  StructuresAreSound
  LoopsAreExact
  ReadsWhatWasWritten
  StaysInMemory
PROPERTIES
  ImplementsLists
CHECK_DEADLOCK FALSE
