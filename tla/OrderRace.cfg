SPECIFICATION Spec
CONSTANTS
  Writer = {w1, w2, w3}
  Reader = {r1}
  Past = past
  Id = {1}
  InitItems = {1}
  Request <- MCRequests
  Doc <- MCDocs
  Empty <- MCEmpty
  Merge <- MergeOrder
  InitHead = 0
  InitDoc <- MCInitDoc
  Keep = 1
  MaxCAS = 1
  MaxHeadReads = 2
  MaxFaults = 0
INVARIANTS WonMeansApplied SomebodyWins QuiescentStoreIsClean
PROPERTIES HeadOnlySuperseded
CHECK_DEADLOCK FALSE
