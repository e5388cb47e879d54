CONSTANTS
  Threads = {t1, t2}
  Values <- MCValues2
  MaxLen = 3
  MaxArgLen = 2
  Safe = TRUE
  NoThread = NoThread
  Ops <- RaceOps
  ReadCalls <- MCReadCalls
SPECIFICATION Spec
INVARIANT UniqueHonoured
CHECK_DEADLOCK FALSE
