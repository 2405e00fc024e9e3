SPECIFICATION FairSpec
CONSTANTS
  Blocks = {2, 4}
  aggregation_window = 2
  MaxL1 = 0
  MaxBlock = 2
PROPERTY
  BeaconSettles
CHECK_DEADLOCK FALSE
