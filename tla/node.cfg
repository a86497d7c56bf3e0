SPECIFICATION MCSpec
CONSTANTS
  Deployments = {w1}
  References = {w2}
  Visitors = {v1}
  NodeCallers = {c1, c2, c3}
  Topics = {t1, t2}
  EmptyTopic = EmptyTopic
  MaxMessages = 3
  MaxSubscriptions = 1
  MaxDrops = 1
  ChunkSize = 3
  RangeLimit = 7
  FileSizes = {2, 3, 4, 8, 9, 12}
  NoRange = NoRange
  PageRequests = {p1}
  MaxDeployments = 3
  Handles = {a1, a2}
  NoHandle = NoHandle
  Checks = {k1, k2}
  Nodes = {n1, n2}
  NoNode = NoNode
  MaxDbFaults = 1
  MaxKills = 1
  MaxStalls = 1
  MaxLaunches = 3
  Peers = {b1, b2}
  Names = {i1, i2}
  DomainName = DomainName
  NoKey = NoKey
  Hosts = {h1, h2}
  Messages = {m1}
  Deliveries = {d1}
  NoMessage = NoMessage
  MaxMoves = 2
  MaxFaults = 1
INVARIANTS RangeIsSent ShownIsOfHandle NodeStartsOnItsTables MessagesOpenAsSent
PROPERTIES NodeCallsSettle OnlyFirstPublishIsLost KeysSurvive PartsAreOfOneVersion
CHECK_DEADLOCK FALSE
