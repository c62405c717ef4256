SPECIFICATION Spec
CONSTANTS
  nodes = nodes
  deployment = deployment
  allocations = allocations
  volume = volume
  regions = regions
  TopicNode = TopicNode
  TopicAllocation = TopicAllocation
  TopicDeployment = TopicDeployment
  TopicHostVolume = TopicHostVolume
  limits = limits
  NoTopic = NoTopic
  Pages = {nodes}
  Topics = {TopicNode, TopicAllocation}
  PageTopics <- MCTopics
  Requests <- MCRequests
  Fewer <- MCFewer
  Versioned = {TopicHostVolume}
  Limits = limits
  LimitTopic = TopicNode
  CountTopic = TopicAllocation
  MaxIndex = 3
  MaxAsked = 1
  MaxTick = 1
  MaxFlight = 2
  MaxFaults = 0
INVARIANTS
  NoLostChange
CHECK_DEADLOCK FALSE
