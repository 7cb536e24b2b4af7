SPECIFICATION Spec
CONSTANTS
  MaxData = 2
  SyscallsFail = TRUE
  MaxDatagrams = 3
  MaxSockets = 2
  UdpCallsFail = TRUE
  MaxNesting = 1
  PointerBytes = 1
  PrintedBytes = 2
  BufferBytes = 3
  MaxStarts = 3
  RepliesFail = TRUE
  Client = {c1, c2}
  MaxFaults = 2
  MaxEvents = 1
INVARIANTS
  OutcomeIsReal
  ClosesAfterLastChunk
  EchoIsLimited
  OneIteratorPerQuery
  AnsweredIsPrinted
  KnownIsPrefix
  ReplyIsExact
  NeverDeaf
PROPERTIES
  ObjectComesBack
  ClientEnds
CHECK_DEADLOCK FALSE
