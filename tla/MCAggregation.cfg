SPECIFICATION Spec
CONSTANTS
  L1Heads = {1, 2}
  Roots = {0, 1, 2, 3}
  Blocks = {0, 1, 2, 3}
  ConfigHashes = {"c1", "c2"}
  Inputs <- MCInputs
  VKeys = {"range", "other"}
  NoVKey = "none"
  RangeVKeys = {"range"}
  Proved <- MCProved
  Decodes <- MCDecodes
  Derives <- MCDerives
  MaxProofs = 3
INVARIANTS
  IInv
  AggregateIsSound
  AggregateCoversAll
CHECK_DEADLOCK FALSE
