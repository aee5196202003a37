SPECIFICATION Spec
CONSTANTS
  Elements = {"button", "link", "text"}
  Buttons = {"button", "link"}
  MaxActions = 3
  Callbacks = {"f", "g"}
  MaxRequests = 2
  Pages <- MCPages
  MaxQueued = 3
  MaxCount = 4
  MaxRecorded = 2
  Value <- MCValue
  MaxErrorRequests = 2
  MaxHides = 2
  SocketIds = {"s1", "s2"}
  Instances <- MCInstances
  Nodes <- MCNodes
  RootOf <- MCRootOf
  Brings <- MCBrings
  Images = {"image"}
  Area <- MCArea
  Batches <- MCBatches
  Files = {"a", "p"}
  Preloaded = {"p"}
  Versioned = {"p"}
  Ids = {"1", "2"}
  FetchIds = {"f"}
  MaxEntities = 2
INVARIANTS
  
  
  
  VitalsAreTheirOwn
  BucketsAreExact
PROPERTIES
  LastOutgoingIsComplete
CHECK_DEADLOCK FALSE
