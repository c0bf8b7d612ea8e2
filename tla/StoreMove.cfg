SPECIFICATION Spec
CONSTANTS
  Host = {h1, h2}
  Sandbox = {s1}
  Old = {o1}
  Past = {r1}
  Dir = {1, 2, 3, 4, 5, 6}
  MaxFaults = 1
SYMMETRY HostSymmetry
INVARIANTS MoveInvariant NothingLost NothingVanishes
CHECK_DEADLOCK FALSE
