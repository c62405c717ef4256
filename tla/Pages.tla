------------------------------- MODULE Pages -------------------------------
(***************************************************************************)
(* The pages of the interface, each as the table of what it promises the   *)
(* session: the namespace its rows are asked in, the events that make it   *)
(* out of date, whether it follows the session to another namespace, and   *)
(* its keys. A key says what it does and in which namespace it does it;    *)
(* some are offered on some rows only, and those that change the cluster   *)
(* say so. A row is the set of facts about it that a key asks for.         *)
(***************************************************************************)
EXTENDS FiniteSets

Key(press, does, to, at) ==
    [press |-> press, does |-> does, to |-> to, at |-> at, writes |-> FALSE, offered |-> TRUE]

\* What a key does: it opens a page, asks before it writes, asks for a line
\* first and then writes, asks or opens a file, opens a file in the editor,
\* asks or opens a file as the cluster says, writes at once, or stays.
Opens(press, page, at) == Key(press, "open", page, at)
Stays(press) == Key(press, "stay", "none", "none")
Writing(key) == [key EXCEPT !.writes = TRUE]
Asks(press, call, at) == Writing(Key(press, "ask", call, at))
Types(press, call, at) == Writing(Key(press, "type", call, at))
TypesAndAsks(press, call, at) == Writing(Key(press, "typeask", call, at))
TypesAndEdits(press, call, at) == Writing(Key(press, "typeedit", call, at))
Forms(press, call, at) == Writing(Key(press, "form", call, at))
Edits(press, call, at) == Writing(Key(press, "edit", call, at))
Plans(press, at) == Writing(Opens(press, "plan", at))
Does(press, call, at) == Writing(Key(press, "do", call, at))
When(key, offered) == [key EXCEPT !.offered = offered]

\* A page: where its rows are asked, where its events are watched, the topics
\* it watches, and whether it is a list of what the session looks at.
Page(reads, watches, topics, follows) ==
    [reads |-> reads, watches |-> watches, topics |-> topics, follows |-> follows]
OfTheSession(topics) == Page("session", "session", topics, TRUE)
OfTheCluster(topics) == Page("cluster", "session", topics, TRUE)
OfAThing(topics) == Page("page", "page", topics, FALSE)
Polled == {}

\* The pages that open by name, from a prompt or a saved session.
Views ==
    {"jobs", "allocations", "namespaceTasks", "deployments", "services", "evaluations", "nodes",
     "variables", "picker", "namespaces", "servers", "nodePools", "queue", "volumes", "plugins",
     "acl", "feed", "scalingPolicies", "scheduler", "overview", "about", "agentLogs"}

MarkKeys == {Stays("space"), Stays("ctrl+a")}
FindKeys(row) == {Stays("f"), When(Stays("n"), "found" \in row), When(Stays("N"), "found" \in row)}
TextKeys(row) == {Stays("w"), Stays("ctrl+s"), Stays("c")} \union FindKeys(row)

(***************************************************************************)
(* Jobs, and what hangs off one.                                           *)
(***************************************************************************)
Launches(row) == "periodic" \in row \/ "parameterized" \in row
RunsItself(row) == ~Launches(row)
Reschedules(row) == RunsItself(row) /\ "system" \notin row

LaunchKeys(row) ==
    { When(Opens("enter", "launches", "row"), Launches(row)),
      When(Asks("r", "runNow", "row"), "periodic" \in row) }
DispatchKeys(row) == {When(Forms("r", "dispatch", "row"), "parameterized" \in row)}
EvaluatingKeys(row) ==
    { Asks("ctrl+s", "startOrStop", "row"),
      When(Asks("ctrl+e", "evaluate", "row"), RunsItself(row)),
      When(Asks("ctrl+r", "reschedule", "row"), Reschedules(row)),
      Plans("u", "row") }
PurgeKeys(row) == {When(Asks("ctrl+p", "purge", "row"), "stopped" \in row)}
JobFileKeys == {Edits("e", "plan", "row"), Edits("n", "plan", "file")}
JobTextKeys == {Opens("d", "describe", "row"), Opens("h", "describe", "row")}
PlacementKeys(row, at) == {When(Opens("p", "describe", at), "waits" \in row)}
JobsKeys(row) ==
    { When(Opens("enter", "jobAllocations", "row"), RunsItself(row)),
      Opens("t", "taskGroups", "row"), Opens("m", "jobMeta", "row"), Opens("v", "versions", "row"),
      When(Opens("l", "jobLogs", "row"), RunsItself(row)),
      When(Opens("w", "deployWatch", "row"), RunsItself(row)),
      When(Opens("o", "subjectEvents", "row"), RunsItself(row)) }
        \union LaunchKeys(row) \union DispatchKeys(row) \union EvaluatingKeys(row) \union PurgeKeys(row)
        \union JobFileKeys \union JobTextKeys \union PlacementKeys(row, "row") \union MarkKeys

JobsPage(face) ==
    CASE face = "jobs" -> OfTheSession({"Job"})
      [] face = "poolJobs" -> Page("all", "all", {"Job"}, FALSE)
      [] OTHER -> OfAThing({"Job"})

TaskGroupsPage == OfAThing(Polled)
ScaleKeys == {TypesAndAsks("s", "scale", "page"), Opens("a", "scaling", "page"), Opens("enter", "jobAllocations", "page")}
TaskGroupKeys(row) == {Opens("l", "jobLogs", "page")} \union ScaleKeys \union PlacementKeys(row, "page")

JobMetaPage == OfAThing({"Job"})
JobMetaKeys == {Stays("c")}

VersionsPage == OfAThing(Polled)
VersionKeys(row) ==
    { Opens("enter", "describe", "page"), Plans("u", "page"), Types("t", "tag", "page"),
      When(Asks("ctrl+t", "untag", "page"), "tagged" \in row),
      When(Does("s", "markStable", "page"), "stable" \notin row),
      When(Does("s", "markUnstable", "page"), "stable" \in row) }

\* The plan of an edit or of a revert: the row says which, and whether the
\* server refused it.
PlanPage == Page("none", "session", Polled, FALSE)
PlanKeys(row) ==
    { When(Does("y", "submit", "page"), row \intersect {"revert", "refused"} = {}),
      When(Does("y", "revert", "page"), "revert" \in row /\ "refused" \notin row),
      Stays("r") } \union TextKeys(row)

(***************************************************************************)
(* Allocations, deployments and tasks.                                     *)
(***************************************************************************)
AllocKeys ==
    { Opens("enter", "tasks", "row"), Opens("d", "describe", "row"),
      Asks("r", "restart", "row"), Asks("ctrl+r", "restartAll", "row"),
      Asks("ctrl+k", "stop", "row"), Opens("l", "jobLogs", "page"),
      Opens("o", "subjectEvents", "row") } \union MarkKeys

AllocationsPage(face) ==
    IF face = "allocations" THEN OfTheSession({"Allocation"}) ELSE OfAThing({"Allocation"})

DeploymentsPage == OfTheSession({"Deployment"})

\* A deployment is active while it runs or is paused.
Active(row) == row \intersect {"running", "paused"} # {}
\* A mutated HolderKeys: what is active can be paused.
HolderKeysWhileActive(row, at, active) ==
    { When(Asks("f", "fail", at), active),
      When(Asks("ctrl+s", "pause", at), Active(row)),
      When(Asks("ctrl+s", "resume", at), "paused" \in row) }
HolderKeys(row, at, active) ==
    { When(Asks("f", "fail", at), active),
      When(Asks("ctrl+s", "pause", at), "running" \in row),
      When(Asks("ctrl+s", "resume", at), "paused" \in row) }
DeploymentsKeys(row) ==
    { Opens("enter", "deployment", "row"), Opens("d", "describe", "row"), Asks("p", "promote", "row") }
        \union HolderKeys(row, "row", TRUE)

\* The group of the allocation under the cursor may wait for its canaries
\* to be promoted.
DeploymentPage == OfAThing({"Allocation", "Deployment"})
HealthKeys(row) == {When(Asks("h", "healthy", "page"), Active(row)), When(Asks("u", "unhealthy", "page"), Active(row))}
DeploymentKeys(row) ==
    { When(Asks("p", "promoteGroup", "page"), Active(row) /\ "waits" \in row),
      When(Asks("ctrl+p", "promote", "page"), Active(row) /\ "waits" \in row) }
        \union HolderKeys(row, "page", Active(row)) \union HealthKeys(row) \union AllocKeys

DeployWatchPage == OfAThing({"Job", "Evaluation", "Deployment", "Allocation"})
DeployWatchKeys(row) == DeploymentKeys(row)

TaskRuns(row) == "running" \in row
RunKeys(row) == {When(Types("ctrl+x", "command", "row"), TaskRuns(row))}
TaskEventKeys == {Opens("e", "taskEvents", "row"), Opens("o", "subjectEvents", "row")}
TaskKeys(row) ==
    { Opens("enter", "logs", "row"), Opens("ctrl+e", "logs", "row"), Does("s", "shell", "row"),
      When(Asks("r", "restartTask", "row"), TaskRuns(row)),
      When(TypesAndAsks("x", "signal", "row"), TaskRuns(row)),
      Opens("b", "files", "row") } \union TaskEventKeys \union RunKeys(row)

TasksPage == OfAThing({"Allocation"})
TasksKeys(row) ==
    { When(Opens("c", "client", "cluster"), "placed" \in row),
      When(Opens("p", "tasks", "page"), "replaced" \in row),
      When(Opens("n", "tasks", "page"), "next" \in row),
      When(Opens("f", "describe", "page"), "follow-up" \in row) } \union TaskKeys(row)

NamespaceTasksPage == OfTheSession({"Allocation"})
TaskEventsPage == OfAThing({"Allocation"})

(***************************************************************************)
(* Text: what a stream or a file writes, and a description.                *)
(***************************************************************************)
DescribePage == Page("none", "session", Polled, FALSE)
DescribeKeys(row) ==
    {When(Opens("a", "jobAllocations", "page"), "evaluation" \in row)} \union TextKeys(row)

LogsPage == Page("page", "session", Polled, FALSE)
LogsKeys(row) ==
    { Stays("s"), Stays("ctrl+e"), Stays("t"),
      When(Opens("p", "logs", "page"), "replaced" \in row),
      When(Stays("e"), "earlier" \in row) } \union TextKeys(row)

JobLogsPage == Page("page", "session", Polled, FALSE)
JobLogsKeys(row) == {Stays("r"), Stays("ctrl+e"), Stays("s"), Stays("t")} \union TextKeys(row)

AgentLogsPage == Page("cluster", "session", Polled, FALSE)
AgentLogsKeys(row) == {Stays("v"), Stays("s")} \union TextKeys(row)

FilesPage == OfAThing(Polled)
FilesKeys(row) ==
    {Opens("enter", IF "directory" \in row THEN "files" ELSE "file", "page")}
FilePage == Page("page", "session", Polled, FALSE)
FileKeys(row) == {Stays("s")} \union TextKeys(row)

(***************************************************************************)
(* Services, variables, volumes, plugins, scaling and evaluations.         *)
(***************************************************************************)
ServicesPage == OfTheSession({"Service"})
ServicesKeys == {Opens("enter", "serviceInstances", "row"), Opens("d", "describe", "row")}
ServiceInstancesPage == OfAThing({"Service"})
ServiceInstanceKeys(row) ==
    { When(Opens("enter", "tasks", "row"), "held" \in row),
      When(Asks("ctrl+d", "deleteRegistration", "row"), "stale" \in row) }

\* What the list and the variable itself both do to it.
LockKeys(row) == {When(Asks("ctrl+r", "releaseLock", "row"), "locked" \in row)}
\* A mutated VariableFileKeys: the file is of what the session looks at.
VariableFileKeysOfTheSession(row) == {When(Edits("e", "variable", "session"), "locked" \notin row)}
VariableFileKeys(row) == {When(Edits("e", "variable", "row"), "locked" \notin row)}
VariablesPage == OfTheSession({"Variable"})
VariablesKeys(row) ==
    { Opens("enter", "variable", "row"), TypesAndEdits("n", "variable", "session"),
      When(Asks("ctrl+d", "deleteVariable", "row"), "locked" \notin row) }
        \union LockKeys(row) \union VariableFileKeys(row)
VariablePage == OfAThing({"Variable"})
VariableKeys(row) == {Stays("v"), Stays("c")} \union LockKeys(row) \union VariableFileKeys(row)

VolumesPage == OfTheSession({"CSIVolume", "HostVolume", "CSIPlugin"})
VolumesKeys == {Opens("enter", "volume", "row"), Opens("d", "describe", "row")}
VolumePage == OfAThing({"CSIVolume", "HostVolume", "CSIPlugin", "Allocation"})
VolumeKeys(row) ==
    { When(Asks("ctrl+d", "detach", "page"), "csi" \in row),
      When(Asks("ctrl+r", "releaseClaim", "page"), "claimed" \in row) } \union AllocKeys

PluginsPage == OfTheCluster({"CSIPlugin"})
PluginsKeys == {Opens("enter", "plugin", "cluster"), Opens("d", "describe", "cluster")}
PluginPage == Page("cluster", "session", {"CSIPlugin"}, FALSE)
PluginKeys(row) == {When(Opens("enter", "tasks", "row"), "held" \in row)}

ScalingPoliciesPage == OfTheSession({"Job"})
ScalingPoliciesKeys == {Opens("enter", "scaling", "row"), Opens("d", "describe", "row")}
ScalingPage == OfAThing({"Job"})
ScalingKeys(row) == {When(Opens("d", "describe", "page"), "policy" \in row)}

EvaluationsPage == OfTheSession({"Evaluation"})
EvaluationsKeys == {Opens("enter", "describe", "row"), Opens("a", "jobAllocations", "row")}

(***************************************************************************)
(* The cluster: its machines, pools, queue, namespaces and ACL.            *)
(***************************************************************************)
\* A mutated NodesPage: the events are those of what the session looks at.
NodesPageOfTheSession == Page("all", "session", {"Node", "Allocation"}, TRUE)
NodesPage == Page("all", "all", {"Node", "Allocation"}, TRUE)
DownKeys(row) ==
    { When(Asks("ctrl+p", "purgeClient", "cluster"), "down" \in row),
      When(Asks("ctrl+g", "collect", "cluster"), "down" \notin row) }
NodesKeys(row) ==
    { Opens("enter", "client", "cluster"), Opens("ctrl+l", "agentLogs", "cluster"),
      Asks("ctrl+d", "drain", "cluster"), Asks("i", "eligibility", "cluster") }
        \union DownKeys(row) \union MarkKeys

ClientPage == Page("all", "all", {"Allocation", "Node"}, FALSE)
IdentityKeys(row) ==
    { When(Opens("i", "describe", "cluster"), "identity" \in row),
      When(Asks("ctrl+n", "renew", "cluster"), "identity" \in row) }
ClientKeys(row) ==
    { Opens("e", "machine", "cluster"), Opens("v", "machine", "cluster"),
      Opens("ctrl+h", "machine", "cluster"), Opens("a", "machine", "cluster"),
      Opens("m", "nodeMeta", "cluster"), Stays("u"), Opens("ctrl+l", "agentLogs", "cluster") }
        \union IdentityKeys(row) \union AllocKeys

MachinePage == Page("cluster", "session", Polled, FALSE)
MachineKeys == {Opens("enter", "machine", "cluster"), Stays("c")}
NodeMetaPage == Page("cluster", "session", Polled, FALSE)
NodeMetaKeys == {Stays("c"), Edits("e", "meta", "cluster")}

NamespacesPage == OfTheCluster(Polled)
NamespaceKeys(row) ==
    { Edits("n", "namespace", "cluster"), Edits("e", "namespace", "cluster"),
      When(Asks("ctrl+d", "deleteNamespace", "cluster"), "default" \notin row) }

NodePoolsPage == OfTheCluster({"NodePool"})
NodePoolsKeys(row) ==
    { Opens("enter", "poolJobs", "cluster"), Opens("c", "nodes", "cluster"),
      When(Opens("b", "poolQueue", "cluster"), "queue" \in row) }

\* The queues hold jobs of every namespace.
QueuePage(face) == Page("all", "session", {"Job", "NodePool"}, face = "queue")
QueueKeys == {Opens("enter", "jobAllocations", "row")}

ServersPage == OfTheCluster(Polled)
ServersKeys(row) ==
    {Opens("enter", "server", "cluster"), When(Opens("ctrl+l", "agentLogs", "cluster"), "agent" \in row)}
ServerPage == Page("cluster", "session", Polled, FALSE)
ServerKeys(row) == {When(Opens("ctrl+l", "agentLogs", "cluster"), "agent" \in row), Stays("c")}

SchedulerPage == OfTheCluster(Polled)
SchedulerKeys == {Edits("e", "scheduler", "cluster"), Stays("c")}

ACLPage == OfTheCluster(Polled)
ACLKeys(row) ==
    { Opens("d", "describe", "cluster"), When(Stays("c"), "token" \in row),
      IF "policy" \in row THEN TypesAndEdits("n", "acl", "cluster") ELSE Edits("n", "acl", "cluster"),
      Edits("e", "acl", "cluster"), Asks("ctrl+d", "deleteAcl", "cluster") }

OverviewPage == OfTheSession({"Job", "Allocation", "Node", "Evaluation", "Deployment"})
OverviewKeys(row) ==
    { When(Opens("enter", to, "cluster"), "counted" \in row /\ to \in row) :
        to \in {"jobs", "allocations", "nodes", "evaluations", "deployments"} }

(***************************************************************************)
(* What was found, and the events of the cluster or of one thing.          *)
(***************************************************************************)
\* What a match of a search, or an event, opens.
Matched ==
    {"job", "jobAllocations", "serviceInstances", "variable", "volume", "tasks", "deployment",
     "describe", "client", "plugin"}
MatchKeys(row) ==
    { When(Opens("enter", to, IF to \in {"client", "plugin"} THEN "cluster" ELSE "row"), to \in row) :
        to \in Matched } \union {When(Key("enter", "switch", "jobs", "row"), "namespace" \in row)}

FindPage == Page("session", "session", Polled, FALSE)
FoundKeys(row) == MatchKeys(row)
FeedPage(face) ==
    IF face = "feed" THEN Page("session", "session", Polled, TRUE) ELSE OfAThing(Polled)
FeedKeys(row) == MatchKeys(row)

AboutPage == Page("none", "session", Polled, FALSE)
PickerPage == Page("none", "session", Polled, FALSE)
PickerKeys == {Stays("enter")}
=============================================================================
