SPECIFICATION PagesSpec
CONSTANTS
  Namespaces = {"default", "production"}
  Default = "default"
  All = "all"
  LeftOut = {"volume"}
  MaxPages = 3
INVARIANTS
  WatchesWhatItReads
CHECK_DEADLOCK FALSE
