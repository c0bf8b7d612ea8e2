SPECIFICATION FairSpec
CONSTANTS
  Run = {u1}
  Tag <- MCTag
  Release <- MCRelease
  Build <- MCBuild
  Typed <- MCTyped
  Floor <- MCFloor
  None = none
  NoFile = nofile
  ExecAttempts = 3
  MaxFaults = 1
INVARIANTS UpgradeInvariant PathIsRunnable InstallsWhatWasAsked NothingLeftBehind TokenIsOptional
PROPERTIES NoStepBack RunsEnd
CHECK_DEADLOCK FALSE
