SPECIFICATION MCSpec
CONSTANTS
  Deploys <- MCDeploys
  FastTrackArgs <- MCFastTrackArgs
  Keys = {"anvil0"}
  MaxNonce = 7
  Invocations <- MCInvocations
  Tomls <- MCTomls
  Indexer <- MCIndexer
  Requests <- MCRequests
  CoinGecko <- MCCoinGecko
INVARIANTS
  CliInv
  NoFalseProof
  EstimateIsHonest
  MarketPriceIsMiddle
  RecordIsDeployed
  OksAreDisjoint
PROPERTIES
  CommandsEnd
