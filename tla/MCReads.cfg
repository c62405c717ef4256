SPECIFICATION ReadsSpec
CONSTANTS
  stdout = stdout
  stderr = stderr
  unversioned = unversioned
  Sources = {stdout, stderr}
  FileSize = 2
  KeptFiles = 2
  LogTail = 2
  LogStep = 2
  MaxTextLines = 3
  Written <- SomeWritten
  MaxBytes <- FewBytes
  MaxAsked = 3
  MaxStreams = 2
  MaxSwitches = 1
  MaxLogFaults = 1
  Unversioned = unversioned
  JobSources = {stdout, stderr}
  JobLogLimit = 1
  MaxJobAllocs = 3
  MaxReadings = 3
  MaxJobAsked = 4
  MaxJobFaults = 1
  default = default
  production = production
  Everywhere = Everywhere
  NoNamespace = NoNamespace
  Namespaces = {default, Everywhere}
  What = {default, production}
  Batches <- OneByOne
  StreamBuffer = 1
  FeedKept = 2
  MaxEvents = 3
  MaxFeedStreams = 3
  MaxFeedAsked = 3
  MaxFeedFaults = 0
  MaxVersions = 2
  MaxUpdates = 1
  MaxReadsOut = 2
  Sizes = {1, 2}
  MaxChanges = 4
  MaxRequests = 2
INVARIANTS
  LogAsWritten
  NoLogStreamLeft
  JobTextIsOfNow
  FeedIsTheLog
  NoStreamLeft
  NoDeploymentIsTrue
PROPERTIES
  OneVersionThroughout
  ScaleStands
CHECK_DEADLOCK FALSE
