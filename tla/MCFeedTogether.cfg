SPECIFICATION FeedSpec
CONSTANTS
  default = default
  production = production
  Everywhere = Everywhere
  NoNamespace = NoNamespace
  Namespaces = {default, Everywhere}
  What = {default, production}
  Batches <- TwoOfAnIndex
  StreamBuffer = 1
  FeedKept = 3
  MaxEvents = 3
  MaxFeedStreams = 3
  MaxFeedAsked = 3
  MaxFeedFaults = 1
INVARIANTS
  NothingSkipped
CHECK_DEADLOCK FALSE
