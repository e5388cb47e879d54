CONSTANTS
  Threads = {t1, t2}
  Values <- MCValues2
  MaxLen = 2
  MaxArgLen = 1
  Safe = TRUE
  NoThread = NoThread
  Ops <- NoUniqueOps
  ReadCalls <- LiveReadCalls
SPECIFICATION FairSpec
PROPERTY CallsComplete
CHECK_DEADLOCK FALSE
