SPECIFICATION Spec
CONSTANTS
  Conn = {c1, c2, c3}
  PollConn = {c1, c2}
  MAX_ACCEPT = 2
  SelectAccept = 3
  Observed = {c1}
  Backlog = 2
  MaxFd = 5
  SyscallsFail = TRUE
INVARIANTS
  TableIsSound
  EventsAreCurrent
  InterestIsExact
PROPERTIES
  OnlyResetDropped
  SlotIsServed
  PendingIsAccepted
  KeepsPromise
CHECK_DEADLOCK FALSE
