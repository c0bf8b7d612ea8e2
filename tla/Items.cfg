SPECIFICATION FairSpec
CONSTANTS
  Adder = {a1, a2}
  Remover = {x1}
  Reader = {r1}
  Text = {"fine", "blank"}
  Id = {1, 2}
  MaxIDAttempts = 2
  MaxArgs = 2
  MaxFaults = 1
INVARIANTS ItemInvariant ItemsAreWhole ListingIsSnapshot
PROPERTIES ImplementsMap CallsEnd
CHECK_DEADLOCK FALSE
