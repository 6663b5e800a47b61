CONSTANTS
  w1 = w1
  w2 = w2
  Writers = {w1, w2}
  Setups <- MCSetups
  Room = 2
  MaxPayload = 40
  MaxPackets = 4
  Numeric <- MCNumeric
  Lookup <- MCLookup
  PortValue <- MCPortValue
  Interfaces <- MCInterfaces
  LittleEndian = TRUE
  Endpoints <- MCEndpoints
  SendRoom = 2
  CallSize = 2
  MaxBytes = 3
  MaxTries = 2
  Specs <- MCSpecs
  DefaultPort = 38800
  Received <- MCReceived
  Clients = {c1, c2}
  Servers = {s1, s2}
  Data = {d1}
  MaxClients = 2
  MaxServers <- MCMaxServers
  MaxRating = 1
  Values = {a, b, c, d}
  NoValue = none
  CommandLines <- MCCommandLines
  Files <- MCFiles
  Number <- MCNumber
  FamilyOf <- MCFamilyOf
  LocalAddr <- MCLocalAddr
  Garbage = {0, 1}
  SysMax = 1024
  Documents <- MCDocuments
  KeepOpens = {5, 20}
  IntOf <- MCIntOf
  BoolOf <- MCBoolOf
  Matching <- MCMatching
  BadRegex = {"("}
  Products <- MCProducts
  Hosts = {1, 2, 3}
  Reports <- MCReports
  Trackers <- MCTrackers
  Capacity = 2
  Delay = 1
  MaxTime = 1
  MaxAvail = 1
  MaxDelayed = 2
  Sizes = {0, 3, 4}
  MaxSegSize = 2
  SizeLimit = 8
  Offsets = {0, 1, 2, 4}
  MaxCreated = 2
  Root <- MCRoot
  Names <- MCNames
  Incomplete <- MCIncomplete
  Ids = {x}
  Outside <- MCOutside
  ProdIds = {1, 2}
  SegOffsets = {0, 4}
  SockAddrs <- MCSockAddrs
  BucketCounts = {1, 3}
  HashText <- MCHashText
  SegCounts <- MCSegCounts
  Subscribers = {s}
  Cwds <- MCCwds
  Roots <- MCRoots
  Words <- MCWords
  CompleteDir <- MCCompleteDir
  PathMax = 14
  Second = 4
  Grain = 2
  KeepTime = 3
  MinTime <- MCMinTime
  MaxClock = 8
  ProdSizes <- MCProdSizes
  Threads <- MCThreads
  Latencies <- MCLatencies
  Wrap = 16
  MaxRecv = 5
SPECIFICATION Spec
INVARIANTS
  TypeOK
  KeysAreFound
  
  EachIsAnnounced
PROPERTIES
  SpecsAreImplemented
  CallsEndWell
  OnlyWorstIsHalted
  
CHECK_DEADLOCK FALSE
