CONSTANTS
  n1 = n1
  c1 = c1
  c2 = c2
  w1 = w1
  w2 = w2
  Nodes <- MCNodes
  Containers <- MCContainers
  Pinned <- MCPinned
  NoContainer = NoContainer
  Ranges <- MCRanges
  FirstRange = 2
  Requests <- MCRequests
  Reports <- MCReplaced
  Depths <- MCDepths
  NoScope = NoScope
  NoEvent = NoEvent
  Workers <- MCWorkers
  MaxLaunches = 1
  MaxGeneration = 2
  Remote <- MCThreeRecords
  PageSize = 2
  SharedCapacity = 2
  ContainerCapacity = 3
  MaxMishaps = 1
  Polled <- MCFirst
  Streamed <- MCFirst
SPECIFICATION WindowSpec
INVARIANT CachesAreSound
PROPERTIES MarkedWindowIsCached RecordsLeaveOldestFirst StaleLoadsWriteNothing LoadsImplemented
CHECK_DEADLOCK FALSE
