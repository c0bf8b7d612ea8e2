SPECIFICATION Spec
CONSTANTS
  Process = {p1, p2}
  Name <- MCName
  Key <- MCKey
  Dir = {0, 1, 2, 3, 4, 5, 6, 7, 8}
  Start <- MCStart
  MaxSwaps = 3
  MaxFaults = 1
SYMMETRY MCSymmetry
INVARIANTS OpenInvariant LinkIsNamed OneStoreEach
PROPERTIES OpensOwnDirectory
CHECK_DEADLOCK FALSE
