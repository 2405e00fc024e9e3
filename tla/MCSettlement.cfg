SPECIFICATION SettleSpec
SYMMETRY CallsAlike
CONSTANTS
  r0 = r0
  r1 = r1
  r2 = r2
  bad = bad
  h0 = h0
  h1 = h1
  k1 = k1
  k2 = k2
  alice = alice
  op1 = op1
  op2 = op2
  U64 = 3
  Roots <- MCRoots
  ZeroRoot = r0
  L1Heads <- MCL1Heads
  ZeroHash = h0
  ProgramIds <- MCProgramIds
  Senders <- MCSenders
  owner = alice
  Journals <- MCJournals
  Accepts <- MCAccepts
  MaxTime = 1
  ZeroAddress = ZeroAddress
  challengeTimeout = 1
  Clients <- MCClients
  MaxRotations = 1
INVARIANTS
  SettleInv
  OkMeansSettled
  VerdictIsOnItsBlock
CHECK_DEADLOCK FALSE
