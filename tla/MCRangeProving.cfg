SPECIFICATION Spec
CONSTANTS
  L1Heads = {0, 1, 2, 12}
  ZeroHash = 0
  Roots <- MCRoots
  ZeroRoot = 0
  NumberOf <- MCNumberOf
  HeaderRoot <- MCHeaderRoot
  Views <- MCViews
  Derives <- MCDerives
  Plan <- MCPlan
INVARIANTS
  IInv
  JournalIsTrue
  JournalAnswersRequest
