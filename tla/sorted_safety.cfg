\* Two goroutines calling every modelled method of SortedStringArray.
CONSTANTS
  Threads = {t1, t2}
  Values <- MCValues2
  MaxLen = 3
  MaxArgLen = 2
  Safe = TRUE
  NoThread = NoThread
  Ops <- AllOps
  ReadCalls <- MCReadCalls
SPECIFICATION Spec
INVARIANT TypeOK
INVARIANT Sorted
PROPERTY ElementsAccounted
PROPERTY SearchCorrect
PROPERTY ReadsMeetContract
CHECK_DEADLOCK FALSE
