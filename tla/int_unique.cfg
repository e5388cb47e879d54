CONSTANTS
  Values <- MCValues
  Safe = TRUE
  MaxLen = 3
  MaxViews = 0
  NArrays = 3
  Calls <- UniqueCalls
  InitSlices = {}
  InitCaps = {0}
SPECIFICATION Spec
PROPERTY Refines
