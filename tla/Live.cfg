SPECIFICATION Spec
CONSTANT
  Kinds = {"power", "shmem", "mqtt", "dds", "someip", "browse"}
  Callers = {"x", "y"}
  Links = {"a", "b"}
  MaxFailovers = 3
  Addrs = {1, 2}
  MaxRequests = 4
  Observed = {1, 2}
  MaxObserved = 4
  Rate = 1
  Burst = 2
  Scale = 2
  ExemptCancellation = TRUE
  MaxTime = 4
  RequestKinds = {"cancel", "safety", "plain"}
  Priority <- MCPriority
  Invalid = "invalid"
  MaxItems = 5
  N = 3
  Images <- MCImages
  ChunkSize = 2
  MaxImageSize = 3
  MaxUpdates = 4
  Streams = {"s", "t"}
  Heartbeat = 1
  Missed = 2
  MaxQueries = 3
  Keys = {"k", "l"}
  Owners = {"x", "y", "third"}
  InProcess = {"m", "n"}
  MaxUses = 2
  Ranks = {0, 1, 6}
  MaxControllers = 3
  MaxHandles = 3
  MaxEdits = 3
  Files <- MCFiles
  Proxied = {1, 2, 3}
  Target <- MCTarget
  MaxNumber = 3
  Principals = {"p"}
  Protected = {"e", "f"}
  Wildcard = "any"
  MaxEntries = 2
  Recorded <- MCRecorded
  Addr = 1
  Faults = {"Drop", "Slow"}
  Forever <- MCForever
  Ring = 2
  MaxRules = 2
  Interval = 2
  MaxPacerTime = 6
  Schemas <- MCSchemas
  Payloads <- MCPayloads
  MaxSends = 2
  Messages <- MCMessages
  MaxRelayed = 3
  MaxSubs = 2
  Capacity = 1
  AdminCapacity = 1
  Administered = {"k", "l"}
  MaxAdmin = 2
  Publishers = {"x"}
  MqttClients = {"x", "bridge"}
  BridgeClient = "bridge"
  MaxMessages = 2
  Readers = {"r", "bridge"}
  BridgeReader = "bridge"
  MaxSamples = 4
  Bodies = {"body"}
  Empty = "empty"
  Sessions = 4
  MaxAsked = 2
  Lens = {0, 7}
  MaxDoIp = 4
  MaxGen = 2
  MaxOps = 3
  Subscribers = {"s"}
  MaxEvents = 5
  Sizes = {0, 1, 2}
  NewCap = 1
  MaxSlots = 3
  MaxBuffers = 4
  Routable = {1}
  EP0 = 0
  Asked <- MCAsked
  MaxHandlers = 2
  MaxRoutes = 2
INVARIANT
  DriverTellsAll
PROPERTIES
  WakeAnnounced
  ClosingEnds
CHECK_DEADLOCK FALSE
