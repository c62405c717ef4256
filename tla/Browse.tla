------------------------------- MODULE Browse -------------------------------
(***************************************************************************)
(* A person on the pages of the interface: pages open by name, from a row  *)
(* or from what was found, keys ask, write and open the editor, and the    *)
(* session moves between the namespaces under all of it, also while a      *)
(* question, a line or the editor is open.                                 *)
(***************************************************************************)
EXTENDS Pages, Integers, SequencesExt

CONSTANTS
    Namespaces, Default, All,   \* the namespaces, and all of them at once
    LeftOut,                    \* the pages left out of an instance
    MaxPages                    \* the screens on top of one another

Nowhere == "nowhere"            \* what is of no namespace
ASSUME BrowseAssumption ==
    /\ Default \in Namespaces /\ All \notin Namespaces /\ Nowhere \notin Namespaces \union {All}
    /\ MaxPages \in Nat \ {0}

VARIABLES
    pages,      \* the screens, the open one last: the page, its own namespace, the namespace
                \* of what it was opened on, and whether its plan was submitted
    row,        \* the row under the cursor: its facts and its namespace
    namespace,  \* what the session looks at
    readOnly,   \* the mode of the session
    over,       \* the question, line or file that is open over the page
    called      \* the call of the last step that changes the cluster
browseVars == <<pages, row, namespace, readOnly, over, called>>

PageOf(name) ==
    CASE name \in {"jobs", "poolJobs", "launches", "job"} -> JobsPage(name)
      [] name \in {"allocations", "jobAllocations"} -> AllocationsPage(name)
      [] name = "taskGroups" -> TaskGroupsPage [] name = "jobMeta" -> JobMetaPage
      [] name = "versions" -> VersionsPage [] name = "plan" -> PlanPage
      [] name = "deployments" -> DeploymentsPage [] name = "deployment" -> DeploymentPage
      [] name = "deployWatch" -> DeployWatchPage [] name = "tasks" -> TasksPage
      [] name = "namespaceTasks" -> NamespaceTasksPage [] name = "taskEvents" -> TaskEventsPage
      [] name = "describe" -> DescribePage [] name = "logs" -> LogsPage
      [] name = "jobLogs" -> JobLogsPage [] name = "agentLogs" -> AgentLogsPage
      [] name = "files" -> FilesPage [] name = "file" -> FilePage
      [] name = "services" -> ServicesPage [] name = "serviceInstances" -> ServiceInstancesPage
      [] name = "variables" -> VariablesPage [] name = "variable" -> VariablePage
      [] name = "volumes" -> VolumesPage [] name = "volume" -> VolumePage
      [] name = "plugins" -> PluginsPage [] name = "plugin" -> PluginPage
      [] name = "scalingPolicies" -> ScalingPoliciesPage [] name = "scaling" -> ScalingPage
      [] name = "evaluations" -> EvaluationsPage [] name = "nodes" -> NodesPage
      [] name = "client" -> ClientPage [] name = "machine" -> MachinePage
      [] name = "nodeMeta" -> NodeMetaPage [] name = "namespaces" -> NamespacesPage
      [] name = "nodePools" -> NodePoolsPage [] name \in {"queue", "poolQueue"} -> QueuePage(name)
      [] name = "servers" -> ServersPage [] name = "server" -> ServerPage
      [] name = "scheduler" -> SchedulerPage [] name = "acl" -> ACLPage
      [] name = "overview" -> OverviewPage [] name = "find" -> FindPage
      [] name \in {"feed", "subjectEvents"} -> FeedPage(name)
      [] name = "about" -> AboutPage [] name = "picker" -> PickerPage

KeysOf(name, is) ==
    CASE name \in {"jobs", "poolJobs", "launches", "job"} -> JobsKeys(is)
      [] name \in {"allocations", "jobAllocations"} -> AllocKeys
      [] name = "taskGroups" -> TaskGroupKeys(is) [] name = "jobMeta" -> JobMetaKeys
      [] name = "versions" -> VersionKeys(is) [] name = "plan" -> PlanKeys(is)
      [] name = "deployments" -> DeploymentsKeys(is) [] name = "deployment" -> DeploymentKeys(is)
      [] name = "deployWatch" -> DeployWatchKeys(is) [] name = "tasks" -> TasksKeys(is)
      [] name = "namespaceTasks" -> TaskKeys(is) [] name = "describe" -> DescribeKeys(is)
      [] name = "logs" -> LogsKeys(is) [] name = "jobLogs" -> JobLogsKeys(is)
      [] name = "agentLogs" -> AgentLogsKeys(is) [] name = "files" -> FilesKeys(is)
      [] name = "file" -> FileKeys(is) [] name = "services" -> ServicesKeys
      [] name = "serviceInstances" -> ServiceInstanceKeys(is) [] name = "variables" -> VariablesKeys(is)
      [] name = "variable" -> VariableKeys(is) [] name = "volumes" -> VolumesKeys
      [] name = "volume" -> VolumeKeys(is) [] name = "plugins" -> PluginsKeys
      [] name = "plugin" -> PluginKeys(is) [] name = "scalingPolicies" -> ScalingPoliciesKeys
      [] name = "scaling" -> ScalingKeys(is) [] name = "evaluations" -> EvaluationsKeys
      [] name = "nodes" -> NodesKeys(is) [] name = "client" -> ClientKeys(is)
      [] name = "machine" -> MachineKeys [] name = "nodeMeta" -> NodeMetaKeys
      [] name = "namespaces" -> NamespaceKeys(is) [] name = "nodePools" -> NodePoolsKeys(is)
      [] name \in {"queue", "poolQueue"} -> QueueKeys [] name = "servers" -> ServersKeys(is)
      [] name = "server" -> ServerKeys(is) [] name = "scheduler" -> SchedulerKeys
      [] name = "acl" -> ACLKeys(is) [] name = "overview" -> OverviewKeys(is)
      [] name = "find" -> FoundKeys(is) [] name \in {"feed", "subjectEvents"} -> FeedKeys(is)
      [] name = "picker" -> PickerKeys
      [] OTHER -> {}

\* What a row of a page can be, as far as its keys ask: one fact of each set
\* of a page, or none of it.
OneOf(facts) == {{}} \union {{f} : f \in facts}
Both(some, others) == {a \union b : a \in some, b \in others}
FactsOf(name) ==
    CASE name \in {"jobs", "poolJobs", "launches", "job"} ->
            Both(OneOf({"periodic", "parameterized", "system"}), Both(OneOf({"stopped"}), OneOf({"waits"})))
      [] name = "taskGroups" -> OneOf({"waits"})
      [] name = "versions" -> Both(OneOf({"tagged"}), OneOf({"stable"}))
      [] name = "plan" -> Both(OneOf({"revert"}), OneOf({"refused"}))
      [] name = "deployments" -> OneOf({"running", "paused"})
      [] name \in {"deployment", "deployWatch"} -> Both(OneOf({"running", "paused"}), OneOf({"waits"}))
      [] name = "tasks" -> Both(OneOf({"running"}), OneOf({"placed", "replaced", "next", "follow-up"}))
      [] name = "namespaceTasks" -> OneOf({"running"})
      [] name = "describe" -> Both(OneOf({"evaluation"}), OneOf({"found"}))
      [] name = "logs" -> OneOf({"found", "replaced", "earlier"})
      [] name = "files" -> OneOf({"directory"})
      [] name = "serviceInstances" -> OneOf({"held", "stale"})
      [] name \in {"variables", "variable"} -> OneOf({"locked"})
      [] name = "volume" -> OneOf({"csi", "claimed"})
      [] name = "plugin" -> OneOf({"held"}) [] name = "scaling" -> OneOf({"policy"})
      [] name = "nodes" -> OneOf({"down"}) [] name = "client" -> OneOf({"identity"})
      [] name = "namespaces" -> OneOf({"default"}) [] name = "nodePools" -> OneOf({"queue"})
      [] name \in {"servers", "server"} -> OneOf({"agent"})
      [] name = "acl" -> OneOf({"token", "policy"})
      [] name = "overview" ->
            {{"counted", r} : r \in {"jobs", "allocations", "nodes", "evaluations", "deployments"}}
      [] name = "find" -> OneOf(Matched \union {"namespace"})
      [] name \in {"feed", "subjectEvents"} -> OneOf(Matched)
      [] OTHER -> {{}}

OnTop == Last(pages)
Where(which, screen) ==
    CASE which = "session" -> namespace [] which = "page" -> screen.own
      [] which = "all" -> All [] OTHER -> Nowhere

\* Where the rows of a screen are asked, when the session looks at of.
AskedIn(screen, of) ==
    LET reads == PageOf(screen.page).reads
    IN CASE reads = "session" -> of [] reads = "page" -> screen.own
         [] reads = "all" \/ screen.page = "plugin" -> All
         [] screen.page \in {"plan", "describe"} -> screen.own [] OTHER -> Nowhere

\* The rows a screen can show: of the namespace it is asked in. What is
\* described in no namespace is not an evaluation.
RowsShown(screen, of) ==
    LET asked == AskedIn(screen, of)
        facts == {f \in FactsOf(screen.page) : asked = Nowhere => "evaluation" \notin f}
    IN {[is |-> f, at |-> n] : f \in facts, n \in IF asked = All THEN Namespaces ELSE {asked}}

\* The cursor is on one of them when the page opens, on any once it is read.
FirstRow(screen, of) == CHOOSE r \in RowsShown(screen, of) : TRUE

\* A call is made in a namespace, for what was in a namespace when the key was pressed.
NoCall == [call |-> "none", at |-> Nowhere, meant |-> Nowhere]
NotOver == [kind |-> "none", call |-> "none", at |-> Nowhere, meant |-> Nowhere]
PageOn(page, own, of) == [page |-> page, own |-> own, meant |-> of, submitted |-> FALSE]
Listed(page) == PageOn(page, Nowhere, Nowhere)

BrowseInit ==
    /\ pages = <<Listed("jobs")>>
    /\ namespace \in {Default, All} /\ readOnly \in BOOLEAN
    /\ row = FirstRow(OnTop, namespace)
    /\ over = NotOver /\ called = NoCall

\* A page opens on top of the open one.
PutOn(screen, of) ==
    /\ screen.page \notin LeftOut
    /\ Len(pages) < MaxPages
    /\ pages' = Append(pages, screen)
    /\ row' = FirstRow(screen, of)

(***************************************************************************)
(* Keys.                                                                   *)
(***************************************************************************)
Withheld(key) == readOnly /\ key.writes
Offered(name, is) == {key \in KeysOf(name, is) : key.offered /\ ~Withheld(key)}

\* Where a key acts: at its row, where its page is of, what the session looks
\* at - a new thing goes to the default one when that is all of them - or
\* where the file it opens says.
TargetNamespace == IF namespace = All THEN Default ELSE namespace
ActsAt(key) ==
    CASE key.at = "row" -> {row.at} [] key.at = "session" -> {TargetNamespace}
      [] key.at = "page" -> {IF OnTop.own # Nowhere THEN OnTop.own ELSE Where(PageOf(OnTop.page).watches, OnTop)}
      [] key.at = "file" -> Namespaces [] OTHER -> {Nowhere}

\* A key is meant for the row under the cursor, unless it makes a new thing
\* or is about one of no namespace.
Meant(key, at) == IF at = Nowhere \/ (key.press = "n" /\ key.writes) THEN at ELSE row.at

Press ==
    /\ over = NotOver
    /\ \E key \in Offered(OnTop.page, row.is) : \E at \in ActsAt(key) :
        \/ /\ key.does = "open"
           /\ PutOn(PageOn(key.to, at, Meant(key, at)), namespace)
           /\ called' = NoCall /\ UNCHANGED <<namespace, over>>
        \/ /\ key.does = "switch" /\ namespace' = at /\ PutOn(Listed(key.to), at)
           /\ called' = NoCall /\ UNCHANGED over
        \/ /\ key.does \in {"ask", "type", "typeask", "typeedit", "edit", "form"}
           /\ \E kind \in IF key.does = "form" THEN {"ask", "edit"} ELSE {key.does} :
                over' = [kind |-> kind, call |-> key.to, at |-> at, meant |-> Meant(key, at)]
           /\ called' = NoCall /\ UNCHANGED <<pages, row, namespace>>
        \/ /\ key.does = "do" /\ ~OnTop.submitted
           /\ called' = [call |-> key.to, at |-> at, meant |-> Meant(key, at)]
           /\ pages' = [pages EXCEPT ![Len(pages)].submitted = OnTop.page = "plan"]
           /\ UNCHANGED <<row, namespace, over>>
    /\ UNCHANGED readOnly

\* The plan of what was submitted goes away, and the deploy of a job that
\* runs itself opens.
PlanDone ==
    /\ over = NotOver /\ OnTop.submitted /\ Len(pages) > 1
    /\ \/ pages' = Front(pages)
       \/ pages' = Append(Front(pages), PageOn("deployWatch", OnTop.own, OnTop.meant))
    /\ row' = FirstRow(Last(pages'), namespace)
    /\ called' = NoCall /\ UNCHANGED <<namespace, readOnly, over>>

(***************************************************************************)
(* What is open over the page.                                             *)
(***************************************************************************)
Refuse ==
    /\ over # NotOver /\ over' = NotOver /\ called' = NoCall
    /\ UNCHANGED <<pages, row, namespace, readOnly>>

Call == [call |-> over.call, at |-> over.at, meant |-> over.meant]
Confirm ==
    /\ over.kind = "ask" /\ called' = Call /\ over' = NotOver
    /\ UNCHANGED <<pages, row, namespace, readOnly>>

EnterLine ==
    /\ over.kind \in {"type", "typeask", "typeedit"}
    /\ CASE over.kind = "type" -> called' = Call /\ over' = NotOver
         [] over.kind = "typeask" -> over' = [over EXCEPT !.kind = "ask"] /\ called' = NoCall
         [] over.kind = "typeedit" -> over' = [over EXCEPT !.kind = "edit"] /\ called' = NoCall
    /\ UNCHANGED <<pages, row, namespace, readOnly>>

\* The file of a job is planned before it is submitted; any other is sent.
SaveFile ==
    /\ over.kind = "edit" /\ over' = NotOver
    /\ \/ /\ over.call = "plan" /\ PutOn(PageOn("plan", over.at, over.meant), namespace)
          /\ called' = NoCall
       \/ /\ over.call # "plan" /\ called' = Call /\ UNCHANGED <<pages, row>>
    /\ UNCHANGED <<namespace, readOnly>>

(***************************************************************************)
(* The session.                                                            *)
(***************************************************************************)
OpenByName ==
    /\ over = NotOver
    /\ \E name \in Views :
        \/ name # OnTop.page /\ PutOn(Listed(name), namespace)
        \/ name = OnTop.page /\ row' = FirstRow(OnTop, namespace) /\ UNCHANGED pages
    /\ called' = NoCall /\ UNCHANGED <<namespace, readOnly, over>>

GoBack ==
    /\ over = NotOver /\ Len(pages) > 1
    /\ pages' = Front(pages) /\ row' = FirstRow(Last(pages'), namespace)
    /\ called' = NoCall /\ UNCHANGED <<namespace, readOnly, over>>

\* A command that is a verb: find opens what it found, gc asks, run plans a
\* file, and the two that change the cluster are off in read-only mode.
Verb(name, writes) == [name |-> name, writes |-> writes]
\* A mutated Verbs: run only opens a page.
VerbsOpening == {Verb("find", FALSE), Verb("gc", TRUE), Verb("run", FALSE)}
Verbs == {Verb("find", FALSE), Verb("gc", TRUE), Verb("run", TRUE)}
RunVerb ==
    /\ over = NotOver
    /\ \E verb \in {v \in Verbs : ~Withheld(v)} :
        \/ verb.name = "find" /\ PutOn(Listed("find"), namespace) /\ UNCHANGED over
        \/ /\ verb.name = "gc" /\ over' = [NotOver EXCEPT !.kind = "ask", !.call = "gc"]
           /\ UNCHANGED <<pages, row>>
        \/ /\ verb.name = "run" /\ \E at \in Namespaces : PutOn(PageOn("plan", at, at), namespace)
           /\ UNCHANGED over
    /\ called' = NoCall /\ UNCHANGED <<namespace, readOnly>>

\* The session moves: by a key or a command, or because the cluster deleted
\* its namespace while something is open. A list that follows it is read again.
Moves(to) ==
    /\ namespace' = to
    /\ IF PageOf(OnTop.page).follows THEN row' = FirstRow(OnTop, to) ELSE UNCHANGED row
    /\ called' = NoCall /\ UNCHANGED <<pages, readOnly, over>>
SwitchNamespace == over = NotOver /\ \E to \in (Namespaces \union {All}) \ {namespace} : Moves(to)
NamespaceDeleted == namespace \notin {Default, All} /\ Moves(Default)

\* An answer shows other rows, the one under the cursor included.
RowsRead ==
    /\ row' \in RowsShown(OnTop, namespace) /\ called' = NoCall
    /\ UNCHANGED <<pages, namespace, readOnly, over>>

BrowseNext ==
    \/ Press \/ PlanDone \/ Refuse \/ Confirm \/ EnterLine \/ SaveFile
    \/ OpenByName \/ GoBack \/ RunVerb \/ SwitchNamespace \/ NamespaceDeleted \/ RowsRead

\* In read-only mode no key, verb, line, question or file changes the cluster.
ReadOnlyChangesNothing == readOnly => called = NoCall /\ over = NotOver /\ OnTop.page # "plan"

\* A press means one thing on a row: of the keys a page keeps on one press,
\* at most one is offered at a time.
OneKeyOneThing ==
    LET offered == Offered(OnTop.page, row.is)
    IN \A key, other \in offered : key.press = other.press => key = other

\* A page is told of the changes of everything it shows: the events are asked
\* for in the namespace its rows are asked in, or in every one.
WatchesWhatItReads ==
    LET page == PageOf(OnTop.page)
    IN page.topics # {} /\ page.reads \notin {"cluster", "none"} =>
           Where(page.watches, OnTop) \in {All, Where(page.reads, OnTop)}

\* What is done to a row, and what is opened from it, is asked in the
\* namespace of the row, whatever the session looks at and wherever it went
\* since. The logs of a list may be of every namespace, as the list is.
KeepsToTheNamespace ==
    /\ called # NoCall => called.at \in {called.meant, Nowhere}
    /\ \A i \in DOMAIN pages :
         LET screen == pages[i]
         IN \/ PageOf(screen.page).follows
            \/ screen.own \in {screen.meant, Nowhere}
            \/ screen.page = "jobLogs" /\ screen.own = All
=============================================================================
