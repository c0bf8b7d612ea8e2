SPECIFICATION Spec
CONSTANTS
  Install = {i1, i2}
  Name = {1}
  Mine = {m1}
  Overlap = TRUE
  MaxFaults = 0
INVARIANTS BackupIsTheUsers
CHECK_DEADLOCK FALSE
