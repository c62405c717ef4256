SPECIFICATION ScreenSpec
CONSTANTS
  Namespaces = {"default", "production"}
  Default = "default"
  All = "all"
  LeftOut = {"volume", "queue", "poolQueue"}
  MaxPages = 3
  MaxLines = 2
  Height = 1
  Widths = {1, 2}
  LineKinds <- SomeKinds
  MaxTextTotal = 4
  Size = 2
  Matching = {1}
  Use <- MoreIsLater
  Heights = {1}
  Columns = {"use"}
INVARIANTS
  ReadOnlyChangesNothing
  OneKeyOneThing
  WatchesWhatItReads
  KeepsToTheNamespace
  EveryMatchIsReached
  DrawnAsAfresh
  ActsOnWhatIsSeen
PROPERTIES
  KeepsItsPlace
  CursorStaysOnItsResource
  
CHECK_DEADLOCK FALSE
