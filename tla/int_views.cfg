CONSTANTS
  Values <- MCValues
  Safe = TRUE
  MaxLen = 2
  MaxViews = 1
  NArrays = 4
  Calls <- ViewCalls
  InitSlices <- MCInitSlices
  InitCaps <- MCInitCaps
SPECIFICATION Spec
INVARIANT DetachedResultsStable
CHECK_DEADLOCK FALSE
