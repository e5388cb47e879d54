CONSTANTS
  Threads = {t1, t2}
  Values <- MCValues2
  MaxLen = 3
  MaxArgLen = 2
  Safe = TRUE
  NoThread = NoThread
  Ops <- PopRandOps
  ReadCalls <- MCReadCalls
SPECIFICATION Spec
INVARIANT NoPanic
