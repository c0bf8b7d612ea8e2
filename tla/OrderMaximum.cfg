SPECIFICATION Spec
CONSTANTS
  Writer = {w1, w2, w3}
  Reader = {r1}
  Past = past
  Id = {1}
  InitItems = {1}
  Request <- MCRequests
  Doc <- MCDocs
  Empty <- MCEmpty
  Merge <- MergeOrder
  InitHead = 0
  InitDoc <- MCInitDoc
  Keep = 5
  MaxCAS = 1
  MaxHeadReads = 2
  MaxFaults = 0
INVARIANTS ReadsTakeTheMaximum
CHECK_DEADLOCK FALSE
