------------------------------ MODULE Session -------------------------------
(***************************************************************************)
(* Where the session is: the stack of screens, the namespace, datacenter,  *)
(* region and cluster it looks at, and the answers, actions and            *)
(* connections that are out while it moves (internal/ui: screen.go,        *)
(* region.go, clusters.go, namespace.go).  The program is one model value  *)
(* and takes one message at a time, so the model is one record.  at, of    *)
(* and went are ghosts: where something was read, marked or done.          *)
(***************************************************************************)
EXTENDS Integers, SequencesExt

CONSTANTS
  Clusters, NoCluster,     (* the clusters of the settings                 *)
  Regions,                 (* what a client is pointed at, none included   *)
  Unnamed,                 (* a client that names no region                *)
  Namespaces, DefaultNamespace,   (* the namespaces of every cluster       *)
  Datacenters, Every,      (* the datacenters, and every one of them       *)
  Views,                   (* the lists that open by name                  *)
  jobs, datacenters,       (* jobsView, datacentersView                    *)
  Detail,                  (* a screen opened on a row of another one      *)
  Stored,                  (* the views a session is saved with            *)
  Following,               (* the lists that follow the session            *)
  Namespaced,              (* those that list the namespace                *)
  Nothing,                 (* not read yet                                 *)
  MaxAsked, MaxConnects, MaxWrites   (* bounds                             *)

ASSUME SessionAssumption ==
  /\ NoCluster \notin Clusters /\ DefaultNamespace \in Namespaces
  /\ Unnamed \in Regions /\ Every \notin Datacenters
  /\ jobs \in Stored \cap Namespaced /\ datacenters \in Views \ (Stored \cup Following)
  /\ Detail \notin Views /\ Stored \subseteq Views
  /\ Namespaced \subseteq Following /\ Following \subseteq Views
  /\ MaxAsked \in Nat \ {0} /\ MaxConnects \in Nat /\ MaxWrites \in Nat

VARIABLES
  model,   (* the Model of the program                                     *)
  out,     (* the requests and messages that are out                       *)
  saved,   (* the session of each cluster as remember took it last         *)
  writes   (* how many actions the person confirmed                        *)

vars == <<model, out, saved, writes>>

(* A cluster of one connection, and a region of it.                        *)
Place == [connection : 0 .. MaxConnects, region : Regions]
Read  == [place : Place, namespace : Namespaces]

Screen == [kind : Views \cup {Detail}, at : Read \cup {Nothing}]

(* A mark is the name of a row: lists of one kind have the same names      *)
(* everywhere.  of is where the row is that was marked.                    *)
Mark == [name : Views \cup {Detail}, of : Place]

(* The question about a row of a screen, and the marks it was asked with.  *)
Question == [name : Views \cup {Detail}, took : SUBSET (Views \cup {Detail}), of : Place]
NoQuestion == [name |-> Detail, took |-> {}, of |-> Nothing]

Model ==
  [cluster : Clusters, connection : 0 .. MaxConnects, region : Regions,
   attempt : 0 .. MaxConnects, connecting : Clusters \cup {NoCluster},
   namespace : Namespaces, datacenter : Datacenters \cup {Every},
   known : Place \cup {Nothing},
   screen : Screen, history : Seq(Screen), marks : SUBSET Mark,
   question : Question \cup {NoQuestion}, asked : 1 .. MaxAsked, firstAsk : 1 .. MaxAsked]

Message ==
       [kind : {"rows"}, asked : 1 .. MaxAsked, at : Read]
  \cup [kind : {"choices"}, asked : 1 .. MaxAsked, of : Place]
  \cup [kind : {"datacenters"}, connection : 0 .. MaxConnects, of : Place]
  \cup [kind : {"wrote"}, asked : 1 .. MaxAsked, question : Question]
  \cup [kind : {"connect"}, attempt : 1 .. MaxConnects, cluster : Clusters]

Here(m) == [connection |-> m.connection, region |-> m.region]

Opened(kind) == [kind |-> kind, at |-> Nothing]

Unread(screen) == IF screen.kind \in Namespaced THEN Opened(screen.kind) ELSE screen

(* What the screen asks the cluster for (Model.fetch).                     *)
Fetch(m) ==
  IF m.screen.kind = datacenters
  THEN {[kind |-> "choices", asked |-> m.asked, of |-> Here(m)]}
  ELSE {[kind |-> "rows", asked |-> m.asked,
         at |-> [place |-> Here(m), namespace |-> m.namespace]]}

-----------------------------------------------------------------------------
(* The functions of the model.                                             *)

(* Model.enter, with closeQuestion.                                        *)
Entered(m) == [m EXCEPT !.asked = @ + 1, !.question = NoQuestion]

(* Model.stack.                                                            *)
Stacked(m, screen) ==
  [m EXCEPT !.history = Append(@, m.screen), !.screen = screen, !.marks = {}]

(* Model.back, up to its arrival.                                          *)
CameBack(m) ==
  [m EXCEPT !.screen = Last(m.history), !.history = Front(@), !.marks = {}]

(* A mutated MovedTo: the lists under the open one keep their rows.        *)
MovedOnTop(m, ns) ==
  IF ns = m.namespace THEN m
  ELSE [m EXCEPT !.namespace = ns, !.screen = Unread(@)]

(* Model.moveTo.                                                           *)
MovedTo(m, ns) ==
  IF ns = m.namespace THEN m
  ELSE [m EXCEPT !.namespace = ns, !.screen = Unread(@),
                 !.history = [i \in DOMAIN @ |-> Unread(@[i])]]

(* Model.listScreen.                                                       *)
ListScreen(m) ==
  LET stack  == Append(m.history, m.screen)
      stored == {i \in DOMAIN stack : stack[i].kind \in Stored}
  IN  IF stored = {} THEN Opened(jobs) ELSE Opened(stack[Max(stored)].kind)

(* Model.forgetRegion.                                                     *)
RegionForgotten(m) ==
  [m EXCEPT !.marks = {}, !.datacenter = Every, !.known = Nothing]

(* What onConnection asks for of the datacenters.                          *)
AboutTheCluster(m) == {[kind |-> "datacenters", connection |-> m.connection, of |-> Here(m)]}

(* Model.snapshot: a view that is not stored leaves the one that was.      *)
Remembered(m) ==
  [saved EXCEPT ![m.cluster] =
    [namespace |-> m.namespace,
     screen |-> IF m.screen.kind \in Stored THEN m.screen.kind ELSE @.screen]]

(* Model.restore.                                                          *)
Restored(m) ==
  [m EXCEPT !.namespace = saved[m.cluster].namespace, !.screen = Opened(saved[m.cluster].screen)]

-----------------------------------------------------------------------------
(* enter as a step: the screen asks again, earlier asks are over.          *)
Enter(m) ==
  /\ m.asked < MaxAsked
  /\ model' = Entered(m)
  /\ out' = out \cup Fetch(Entered(m))

(* Model.arrive.                                                           *)
Arrive(m) == Enter(m) /\ saved' = Remembered(Entered(m))

Init ==
  /\ saved = [c \in Clusters |-> [namespace |-> DefaultNamespace, screen |-> jobs]]
  /\ \E c \in Clusters : model =
       [cluster |-> c, connection |-> 0, region |-> Unnamed, attempt |-> 0,
        connecting |-> NoCluster, namespace |-> saved[c].namespace,
        datacenter |-> Every, known |-> Nothing,
        screen |-> Opened(saved[c].screen), history |-> <<>>, marks |-> {},
        question |-> NoQuestion, asked |-> 1, firstAsk |-> 1]
  /\ out = Fetch(model) \cup AboutTheCluster(model)
  /\ writes = 0

-----------------------------------------------------------------------------
(* The person.  While a question is open no other key works (handleKey).   *)
Free == model.question = NoQuestion
HasRows == model.screen.at # Nothing

(* A command with a view, and a namespace or none (commit, show).          *)
Show(view, ns) ==
  LET m == MovedTo(model, ns)
  IN  /\ Free
      /\ Arrive(IF view = m.screen.kind THEN m ELSE Stacked(m, Opened(view)))
      /\ UNCHANGED writes

(* A screen of the row under the cursor (push).                            *)
OpenDetail ==
  /\ Free /\ HasRows /\ model.screen.kind # datacenters
  /\ Arrive(Stacked(model, Opened(Detail)))
  /\ UNCHANGED writes

Back ==
  /\ Free /\ model.history # <<>>
  /\ Arrive(CameBack(model))
  /\ UNCHANGED writes

(* followSession: a screen that does not follow stays as it is.            *)
Follow(m) == IF m.screen.kind \in Following THEN Enter(m) ELSE model' = m /\ UNCHANGED out

SwitchNamespace(ns) ==
  /\ Free /\ ns # model.namespace
  /\ Follow(MovedTo(model, ns))
  /\ saved' = Remembered(MovedTo(model, ns))
  /\ UNCHANGED writes

(* datacenterCommand, of one the session knows (pick).                     *)
SwitchDatacenter(dc) ==
  /\ Free /\ dc # model.datacenter
  /\ dc = Every \/ model.known # Nothing
  /\ Follow([model EXCEPT !.datacenter = dc])
  /\ UNCHANGED <<saved, writes>>

(* narrowMsg, of a row of the list of datacenters.                         *)
NarrowTo(dc) ==
  /\ Free /\ model.screen.kind = datacenters /\ model.known # Nothing
  /\ dc # model.datacenter /\ model.history # <<>>
  /\ Arrive(CameBack([model EXCEPT !.datacenter = dc]))
  /\ UNCHANGED writes

(* A mutated SwitchRegion: the first ask stays the one of the connection.  *)
SwitchRegionOnly(region) ==
  LET m == RegionForgotten([model EXCEPT !.region = region])
      next == Entered([m EXCEPT !.screen = ListScreen(model), !.history = <<>>])
  IN  /\ Free /\ region \notin {model.region, Unnamed} /\ model.asked < MaxAsked
      /\ model' = next
      /\ out' = out \cup Fetch(next) \cup AboutTheCluster(next)
      /\ saved' = Remembered(next)
      /\ UNCHANGED writes

(* A client that names no region asks the one of its agent.  Until the     *)
(* agent said which that is, the session may be pointed at that one by     *)
(* its name as well.                                                       *)
SwitchRegion(region) ==
  LET m == RegionForgotten([model EXCEPT !.region = region])
      next == Entered([m EXCEPT !.screen = ListScreen(model), !.history = <<>>])
  IN  /\ Free /\ region \notin {model.region, Unnamed} /\ model.asked < MaxAsked
      /\ model' = [next EXCEPT !.firstAsk = next.asked]
      /\ out' = out \cup Fetch(next) \cup AboutTheCluster(next)
      /\ saved' = Remembered(next)
      /\ UNCHANGED writes

(* switchCluster, and stay for the cluster in use.                         *)
SwitchCluster(cluster) ==
  /\ Free
  /\ cluster = model.cluster => model.connecting # NoCluster
  /\ model.attempt < MaxConnects
  /\ LET attempt == model.attempt + 1
         stays == cluster = model.cluster
     IN  /\ model' = [model EXCEPT !.attempt = attempt,
                                   !.connecting = IF stays THEN NoCluster ELSE cluster]
         /\ out' = IF stays THEN out
                   ELSE out \cup {[kind |-> "connect", attempt |-> attempt, cluster |-> cluster]}
  /\ UNCHANGED <<saved, writes>>

(* mark: the row of the list, or not any more.                             *)
MarkRow ==
  LET mark == [name |-> model.screen.kind, of |-> model.screen.at.place]
      same == {k \in model.marks : k.name = mark.name}
  IN  /\ Free /\ HasRows
      /\ model' = [model EXCEPT !.marks = IF same # {} THEN @ \ same ELSE @ \cup {mark}]
      /\ UNCHANGED <<out, saved, writes>>

(* ask: an action on the marked rows, or on the one under the cursor.      *)
Ask ==
  /\ Free /\ HasRows /\ writes < MaxWrites
  /\ model' = [model EXCEPT !.question =
       [name |-> model.screen.kind, took |-> {k.name : k \in model.marks}, of |-> model.screen.at.place]]
  /\ UNCHANGED <<out, saved, writes>>

(* applyConfirm, and closeConfirm without it.                              *)
Confirm ==
  /\ ~Free
  /\ model' = [model EXCEPT !.question = NoQuestion]
  /\ \/ /\ out' = out \cup {[kind |-> "wrote", asked |-> model.asked, question |-> model.question]}
        /\ writes' = writes + 1
     \/ UNCHANGED <<out, writes>>
  /\ UNCHANGED saved

Person ==
  \/ \E view \in Views, ns \in Namespaces : Show(view, ns)
  \/ OpenDetail \/ Back
  \/ \E ns \in Namespaces : SwitchNamespace(ns)
  \/ \E dc \in Datacenters \cup {Every} : SwitchDatacenter(dc) \/ NarrowTo(dc)
  \/ \E region \in Regions : SwitchRegion(region)
  \/ \E cluster \in Clusters : SwitchCluster(cluster)
  \/ MarkRow \/ Ask \/ Confirm

-----------------------------------------------------------------------------
(* Messages.  The screen asks again by its poll (Watch), an answer that    *)
(* failed changes nothing here.                                            *)
Drop(w) == out' = out \ {w}

Refresh ==
  /\ out' = out \cup Fetch(model)
  /\ out' # out
  /\ UNCHANGED <<model, saved, writes>>

Fails(w) ==
  /\ w.kind \in {"rows", "choices", "datacenters"}
  /\ Drop(w) /\ UNCHANGED <<model, saved, writes>>

(* takeAnswer: to the screen that asked, or to nobody.                     *)
TakeRows(w) ==
  /\ w.kind = "rows"
  /\ model' = IF w.asked = model.asked THEN [model EXCEPT !.screen.at = w.at] ELSE model
  /\ Drop(w) /\ UNCHANGED <<saved, writes>>

(* keepDatacenters: the label is the region of the client that was asked.  *)
KeepDatacenters(of) == IF of.region = model.region THEN [model EXCEPT !.known = of] ELSE model

(* takeConnection, and takeAnswer for the list of datacenters.             *)
TakeDatacenters(w) ==
  /\ \/ w.kind = "datacenters" /\ model' = IF w.connection = model.connection THEN KeepDatacenters(w.of) ELSE model
     \/ w.kind = "choices" /\ model' = IF w.asked = model.asked THEN KeepDatacenters(w.of) ELSE model
  /\ Drop(w) /\ UNCHANGED <<saved, writes>>

Unmarked(names) == {k \in model.marks : k.name \notin names}

(* done: the marks it took go, what it did not do is marked, and the       *)
(* screen asks again.                                                      *)
Done(q, failed) ==
  [model EXCEPT !.marks = Unmarked(q.took) \cup {[name |-> n, of |-> q.of] : n \in failed}]

(* doneLate: what it did is unmarked, if it was done on the client in use. *)
DoneLate(asked, q, failed) ==
  IF asked >= model.firstAsk THEN [model EXCEPT !.marks = Unmarked({q.name} \ failed)] ELSE model

TakeDone(w) ==
  /\ w.kind = "wrote"
  /\ \E failed \in SUBSET {w.question.name} :
       IF w.asked = model.asked
       THEN model' = Done(w.question, failed) /\ out' = (out \ {w}) \cup Fetch(model)
       ELSE model' = DoneLate(w.asked, w.question, failed) /\ Drop(w)
  /\ UNCHANGED <<saved, writes>>

(* A mutated Asked: any answer connects.                                   *)
AskedEver(w) == TRUE

(* Only the connect asked for last counts.                                 *)
Asked(w) == w.attempt = model.attempt

(* takeConnected with connected, and takeConnectFailed.                    *)
TakeConnect(w) ==
  LET m == [RegionForgotten(model) EXCEPT !.connecting = NoCluster, !.cluster = w.cluster,
              !.connection = @ + 1, !.region = Unnamed, !.history = <<>>]
      next == Entered(Restored(m))
  IN  /\ w.kind = "connect"
      /\ IF ~Asked(w) THEN Drop(w) /\ UNCHANGED <<model, saved>>
         ELSE \/ /\ model.asked < MaxAsked
                 /\ model' = [next EXCEPT !.firstAsk = next.asked]
                 /\ out' = (out \ {w}) \cup Fetch(next) \cup AboutTheCluster(next)
                 /\ saved' = Remembered(next)
              \/ /\ model' = [model EXCEPT !.connecting = NoCluster]
                 /\ Drop(w) /\ UNCHANGED saved
      /\ UNCHANGED writes

Take(w) == TakeRows(w) \/ TakeDatacenters(w) \/ TakeDone(w) \/ TakeConnect(w)

Next == Person \/ Refresh \/ \E w \in out : Take(w) \/ Fails(w)

Spec == Init /\ [][Next]_vars

-----------------------------------------------------------------------------
TypeOK ==
  /\ model \in Model
  /\ out \subseteq Message
  /\ saved \in [Clusters -> [namespace : Namespaces, screen : Stored]]
  /\ writes \in 0 .. MaxWrites

(* Whatever is on the stack was read from the region and the connection    *)
(* the session is on, and a list of the namespace from the namespace under *)
(* its title: with answers that come late, on the screen and under it      *)
(* (takeAnswer, moveTo, switchRegion, connected).                          *)
ShownIsOfHere ==
  \A screen \in {model.screen} \cup ToSet(model.history) :
    screen.at # Nothing =>
      /\ screen.at.place = Here(model)
      /\ screen.kind \in Namespaced => screen.at.namespace = model.namespace

(* The datacenters a person can name, and the one the lists are narrowed   *)
(* to, are of this region of this cluster (keepDatacenters, forgetRegion). *)
KnownIsOfHere ==
  /\ model.known # Nothing => model.known = Here(model)
  /\ model.datacenter # Every => model.known # Nothing

(* A mark is on a row of the list that is open, where it is open: a key on *)
(* it would act on another thing of the same name otherwise (forgetRegion, *)
(* stack, back, done).                                                     *)
MarksAreOfHere ==
  \A k \in model.marks : k.of = Here(model) /\ k.name = model.screen.kind

(* A question is about the screen under it, where it was asked             *)
(* (closeQuestion).                                                        *)
QuestionIsOfHere ==
  model.question # NoQuestion =>
    /\ model.question.of = Here(model)
    /\ model.question.name = model.screen.kind

(* The saved session is never one screen behind (arrive, remember).        *)
RememberedIsHere ==
  /\ saved[model.cluster].namespace = model.namespace
  /\ model.screen.kind \in Stored => saved[model.cluster].screen = model.screen.kind

(* Nothing a person sees, names, marks, is asked or finds saved is of      *)
(* where the session was before it moved (switchNamespace, switchRegion,   *)
(* connected, takeAnswer).                                                 *)
AllIsOfHere ==
  /\ TypeOK
  /\ ShownIsOfHere /\ KnownIsOfHere /\ MarksAreOfHere /\ QuestionIsOfHere /\ RememberedIsHere

(* An action that ends where the session no longer is takes no mark off    *)
(* here (doneLate, firstAsk).                                              *)
DoneElsewhere ==
  [][\A w \in out \ out' :
       w.kind = "wrote" /\ w.question.of # Here(model) => model.marks \subseteq model'.marks]_vars

(* The session moves to another cluster only to the one asked for last,    *)
(* and not after the person chose to stay (attempt, stay).                 *)
MovesToLast ==
  [][model'.connection # model.connection =>
       model.connecting # NoCluster /\ model'.cluster = model.connecting]_vars
=============================================================================
