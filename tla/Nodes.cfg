CONSTANTS
  a1 = a1
  a2 = a2
  ill = ill
  k1 = k1
  Addresses <- MCAddresses
  NoAddress = NoAddress
  Usable <- MCUsable
  Keys <- MCKeys
  NoKey = NoKey
  Missing = Missing
  Broken = Broken
  HandEdited <- MCHandEdited
  Payloads <- MCPayloads
  Orders <- MCOrders
  MaxID = 2
  AddDuringReload = FALSE
  NoSave = NoSave
  n1 = n1
  c1 = c1
  t1 = t1
  t2 = t2
  Nodes <- MCNodeIDs
  URLs <- MCURLs
  Containers <- MCContainers
  Lists <- MCStoppedLists
  Tailers <- MCTailers
  MaxContexts = 2
  NoURL = NoURL
  NoHost = NoHost
  NoList = NoList
SPECIFICATION NodesSpec
INVARIANTS ListsAgree StreamsAreSound
PROPERTIES ConfigurationImplemented StaleNodesRecover
CHECK_DEADLOCK FALSE
