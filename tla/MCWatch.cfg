SPECIFICATION OneOrTwoRequests
CONSTANTS
  nodes = nodes
  deployment = deployment
  allocations = allocations
  volume = volume
  regions = regions
  TopicNode = TopicNode
  TopicAllocation = TopicAllocation
  TopicDeployment = TopicDeployment
  TopicHostVolume = TopicHostVolume
  limits = limits
  NoTopic = NoTopic
  Pages = {allocations, deployment}
  Topics = {TopicAllocation, TopicDeployment}
  PageTopics <- MCTopics
  Requests <- MCRequests
  Fewer <- MCFewer
  Versioned = {TopicHostVolume}
  Limits = limits
  LimitTopic = NoTopic
  CountTopic = TopicAllocation
  MaxIndex = 3
  MaxAsked = 2
  MaxTick = 2
  MaxFlight = 3
  MaxFaults = 1
INVARIANTS
  NoLostChange
  NeverSilent
  OnePollTimer
PROPERTIES
  SettleReadsOnlyNews
CHECK_DEADLOCK FALSE
