SPECIFICATION LastingSpec
CONSTANTS
  nodes = nodes
  deployment = deployment
  allocations = allocations
  volume = volume
  regions = regions
  TopicNode = TopicNode
  TopicAllocation = TopicAllocation
  TopicDeployment = TopicDeployment
  TopicHostVolume = TopicHostVolume
  limits = limits
  NoTopic = NoTopic
  Pages = {nodes, volume, regions}
  Topics = {TopicNode, TopicAllocation, TopicHostVolume}
  PageTopics <- MCTopics
  Requests <- MCRequests
  Fewer <- MCFewer
  Versioned = {TopicHostVolume}
  Limits = limits
  LimitTopic = TopicNode
  CountTopic = TopicAllocation
  MaxIndex = 2
  MaxAsked = 2
  MaxTick = 2
  MaxFlight = 1
  MaxFaults = 1
  MaxMoves = 4
  MaxSaveFaults = 2
  default = default
  production = production
  Everywhere = Everywhere
  NoNamespace = NoNamespace
  Namespaces = {default, Everywhere}
  What = {default, production}
  Batches <- OneByOne
  StreamBuffer = 1
  FeedKept = 2
  MaxEvents = 3
  MaxFeedStreams = 2
  MaxFeedAsked = 2
  MaxFeedFaults = 1
INVARIANTS
  WatchKeepsStep
  QuitSaves
PROPERTIES
  CatchesUp
  NeverBack
  WritesEnd
  ImplementsRemembered
  StreamsMoveOn
CHECK_DEADLOCK FALSE
