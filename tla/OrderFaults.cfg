SPECIFICATION FairSpec
CONSTANTS
  Writer = {w1, w2}
  Reader = {}
  Past = past
  Id = {1, 2}
  InitItems = {1}
  Request <- MCRequests
  Doc <- MCDocs
  Empty <- MCEmpty
  Merge <- MergeOrder
  InitHead = 1
  InitDoc <- MCInitDoc
  Keep = 1
  MaxCAS = 2
  MaxHeadReads = 2
  MaxFaults = 1
INVARIANTS StoreInvariant
PROPERTIES ImplementsRegister CallsEnd
CHECK_DEADLOCK FALSE
