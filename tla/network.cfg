SPECIFICATION MCSpec
CONSTANTS
  e1 = e1
  e2 = e2
  Entries <- MCEntries
  SomePuts <- MCPuts
  OtherPuts <- MCOthers
  Routes <- MCRoutes
  Plain = Plain
  MaxCalls = 2
  MaxWrites = 1
  MaxPuts = 2
  RetryLimit = 2
  MaxExpiries = 1
  TypedVersions <- MCTypedVersions
  Bases <- MCBases
  Editors = {d1, d2}
  MaxEvents = 4
  Requests = {q1, q2}
  ethChain = ethChain
  solChain = solChain
  otherChain = otherChain
  Networks <- MCNetworks
  UnknownNetwork = UnknownNetwork
  RpcCalls = {k1, k2}
  Lookups = {l1, l2}
  Registrations = {r1}
  Nobody = Nobody
  Loaders = {o1, o2}
  MaxRestarts = 1
  TablePage = 2
  BlockPage = 2
  Latest = Latest
  NoCursor = NoCursor
  MaxEntries = 4
  MaxRemovals = 1
  MaxBlocks = 7
  MaxFetches = 4
  MaxListFaults = 1
INVARIANTS FreshAfterPut PutsAreOnTheChain SentAtMostOnce RegisteredIdentityIsSeen OldAbiOnlyAfterMiss
  ListsAreWhole VersionsAreOrdered
PROPERTY OnlyCirclesHang
CHECK_DEADLOCK FALSE
