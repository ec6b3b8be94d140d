CONSTANTS
  n1 = n1
  c1 = c1
  w1 = w1
  w2 = w2
  Nodes <- MCNodes
  Containers <- MCContainers
  Pinned <- MCPinned
  NoContainer = NoContainer
  Ranges <- MCRanges
  FirstRange = 1
  Requests <- MCRequests
  Reports <- MCReports
  Depths <- MCDepths
  NoScope = NoScope
  NoEvent = NoEvent
  Workers <- MCWorkers
  MaxLaunches = 2
  MaxGeneration = 2
SPECIFICATION Spec
INVARIANT RegistryIsSound
PROPERTY LoadReleased
