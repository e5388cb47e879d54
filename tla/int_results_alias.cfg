CONSTANTS
  Values <- MCValues
  Safe = TRUE
  MaxLen = 3
  MaxViews = 1
  NArrays = 4
  Calls <- ResultsCalls
  InitSlices = {}
  InitCaps = {0}
SPECIFICATION Spec
INVARIANT SafeResultsStable
