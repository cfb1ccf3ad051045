SPECIFICATION Spec
CONSTANTS
  NPROC = 4
  MAXSTRIDE = 1
  IntMax = 9
  TicketArgs = {}
  MaxTicks = 2
  Observing = FALSE
  MaxKilled = 1
INVARIANTS
  NoSleepOnZombie
  SomebodyReaps
CHECK_DEADLOCK FALSE
