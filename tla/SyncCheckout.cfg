SPECIFICATION Spec
CONSTANTS
  Sync = {s1}
  Branch = {1, 2, 3}
  Tracking = {1, 2}
  Change = {1, 2}
  Clashing = {1}
  Detached = detached
  Gone = gone
  MaxFaults = 0
INVARIANTS AdvancedMeansMoved
CHECK_DEADLOCK FALSE
