SPECIFICATION Spec
CONSTANTS
  NPROC = 3
  MAXSTRIDE = 4
  IntMax = 9
  TicketArgs = {2}
  MaxTicks = 2
  Observing = TRUE
  MaxKilled = 0
INVARIANTS
  TypeOK
  FairShare
CHECK_DEADLOCK FALSE
