SPECIFICATION Spec
CONSTANTS
  Install = {i1}
  Name = {1, 2}
  Mine = {m1, m2}
  Overlap = FALSE
  MaxFaults = 1
INVARIANTS  UsersFilesStay 
CHECK_DEADLOCK FALSE
