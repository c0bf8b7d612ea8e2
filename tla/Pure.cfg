SPECIFICATION Spec
CONSTANTS
  Id = {1, 2, 3}
  MaxNamed = 3
  Value = {"x", "y"}
  MaxLines = 3
  Tree = {1, 2, 3}
  Worktree = {1, 2}
INVARIANTS EachOnceInOrder RoundTrip OneKey WorktreesShareOneList CloneKeepsItsKey
  ExitIsRight SigningIsTold PanesAreApart
CHECK_DEADLOCK FALSE
