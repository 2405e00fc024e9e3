SPECIFICATION FairSpec
CONSTANTS
  Blocks = {2, 4}
  aggregation_window = 2
  MaxL1 = 1
  MaxBlock = 5
INVARIANTS
  IInv
  PlanTiles
  RangeLeavesNoGap
  DisputeIsReal
  PlanMatchesEstimate
  CompletionIsEarned
PROPERTIES
  KeepsPolling
  HeadDisputeNoticed
CHECK_DEADLOCK FALSE
