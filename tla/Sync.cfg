SPECIFICATION MCSpec
CONSTANTS
  Sync = {s1}
  Branch = {1, 2, 3}
  Tracking = {1, 2}
  Change = {1, 2}
  Clashing = {1}
  Detached = detached
  Gone = gone
  MaxFaults = 1
INVARIANTS SyncInvariant SyncsAll
PROPERTIES NothingLost
CHECK_DEADLOCK FALSE
