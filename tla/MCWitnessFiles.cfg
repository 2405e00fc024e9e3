SPECIFICATION Spec
CONSTANTS
  Calls = {"a", "b"}
  Networks = {"m", "n"}
  Mainnet = "m"
  Unnamed = {"n"}
  Leftovers <- MCLeftovers
  Torn = Torn
  Missing = Missing
INVARIANTS
  IInv
  AloneIsConsistent
  PathIsolates
  AgreeingCallsMayOverlap
CHECK_DEADLOCK FALSE
