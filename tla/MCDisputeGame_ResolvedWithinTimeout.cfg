SPECIFICATION Spec
CONSTANTS
  r0 = r0
  r1 = r1
  r2 = r2
  h0 = h0
  h1 = h1
  k1 = k1
  k2 = k2
  alice = alice
  bob = bob
  U64 = 3
  Roots <- MCRoots
  ZeroRoot = r0
  L1Heads <- MCL1Heads
  ZeroHash = h0
  ProgramIds <- MCProgramIds
  Senders <- MCSenders
  owner = alice
  Journals <- MCJournals
  Accepts <- MCAccepts
  MaxTime = 3
  ZeroAddress = ZeroAddress
  challengeTimeout = 1
INVARIANT ResolvedWithinTimeout
