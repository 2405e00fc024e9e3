SPECIFICATION Spec
CONSTANTS
  Addresses = {"inbox", "batcher", "other"}
  NoAddress = "none"
  Inbox = "inbox"
  Bodies = {"c", "d"}
  OwnPrefix = "celestia"
  NumBlocks = 2
  Chains <- MCChains
INVARIANTS
  IInv
  FedInOrder
  EofIsComplete
PROPERTIES
  ImplementsFeed
