CONSTANTS
  Values <- MCValues
  Safe = TRUE
  MaxLen = 3
  MaxViews = 0
  NArrays = 3
  Calls <- ContractCalls
  InitSlices <- MCInitSlices
  InitCaps <- MCInitCaps
SPECIFICATION Spec
INVARIANT TypeOK
PROPERTY Refines
