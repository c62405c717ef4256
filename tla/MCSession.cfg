SPECIFICATION SmallSpec
CONSTANTS
  east = east
  west = west
  NoCluster = NoCluster
  Unnamed = Unnamed
  europe = europe
  default = default
  production = production
  dc1 = dc1
  Every = Every
  jobs = jobs
  clients = clients
  datacenters = datacenters
  Detail = Detail
  Nothing = Nothing
  Clusters = {east, west}
  Regions = {Unnamed, europe}
  DefaultNamespace = default
  Namespaces = {default, production}
  Datacenters = {dc1}
  Views = {jobs, clients, datacenters}
  Stored = {jobs, clients}
  Following = {jobs, clients}
  Namespaced = {jobs}
  MaxAsked = 3
  MaxConnects = 2
  MaxWrites = 1
  web = web
  db = db
  Objects = {web, db}
  NoteKept = 1
  Happenings <- SomeHappenings
  MaxNotes = 1
  MaxNoteFaults = 1
  MaxMessages = 2
  Places = {"home", "away"}
  MaxAsks = 3
  MaxConnections = 1
  MaxMoves = 1
INVARIANTS
  AllIsOfHere
  EachEventOnce
  ReadingsGoOn
PROPERTIES
  DoneElsewhere
  MovesToLast
  FollowsOn
  MessageHasItsTime
SYMMETRY Symmetry
CHECK_DEADLOCK FALSE
