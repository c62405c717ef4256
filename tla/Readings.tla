------------------------------- MODULE Readings -------------------------------
(***************************************************************************)
(* What the cluster and the rows on the screen are busy with               *)
(* (internal/ui/usage.go, checks.go, timer.go): chains of a read, its      *)
(* answer, a timer and the next read. The header has one for the           *)
(* connection; a screen has one for its rows, and a client, the instances  *)
(* of a service and the tasks of an allocation have one of their own. The  *)
(* list a chain is started from is answered again on every poll, the       *)
(* screen is left and returned to, and the session moves: none of it may   *)
(* start a second chain or end one that is needed.                         *)
(***************************************************************************)
EXTENDS Integers, Bags

CONSTANTS
  Places,                  (* the regions and datacenters of a cluster     *)
  MaxAsks, MaxConnections, MaxMoves   (* bounds: screens entered, clusters *)
                           (* connected to, moves between places           *)
ASSUME ReadingsAssumption ==
  /\ Places # {}
  /\ {MaxAsks, MaxConnections, MaxMoves} \subseteq Nat

VARIABLES
  asked,       (* Model.asked                                              *)
  page,        (* the page on top: rows whether it has rows to take a      *)
               (* reading of, runs whether its allocation runs, due        *)
  under,       (* the pages it was opened from                             *)
  rowsDue,     (* usageState.rowsDue                                       *)
  header,      (* usageState: due clusterDue, shown where the cluster that *)
               (* shows was read, failed clusterFailed                     *)
  connection, place, moves,
  awaited      (* the bag of the reads and timers that are out             *)

readingsVars == <<asked, page, under, rowsDue, header, connection, place, moves, awaited>>
sessionVars == <<asked, page, under, rowsDue>>
headerVars == <<header, connection, place, moves>>

Nowhere == "nowhere"
NotShown == [due |-> FALSE, shown |-> Nowhere, failed |-> FALSE]
With(bag, message) == bag (+) SetToBag({message})
Without(bag, message) == bag (-) SetToBag({message})

Kinds == {"list", "client", "instances", "tasks"}
NewPage(kind) == [kind |-> kind, rows |-> FALSE, runs |-> FALSE, due |-> FALSE]

(* A message of a screen is labelled with its ask, a read of the header    *)
(* with its connection and with where it is taken.                         *)
Label(kind) == [kind |-> kind, of |-> asked]
OfCluster(of, where) == [kind |-> "cluster", of |-> of, where |-> where]
ClusterTimer == [kind |-> "clusterTimer"]

-----------------------------------------------------------------------------
(* The rows and the page.                                                  *)

(* readRows. It is asked after the page took its answer.                   *)
ReadRows(pg, bag) ==
  /\ rowsDue' = pg.rows
  /\ awaited' = IF pg.rows THEN With(bag, Label("rows")) ELSE bag

UsageOnce(pg, bag) == IF rowsDue THEN UNCHANGED rowsDue /\ awaited' = bag ELSE ReadRows(pg, bag)

(* hostOnce, checksOnce, and the instances: a first read, and only then.   *)
StartsOwn(pg) == ~pg.due /\ pg.kind # "list" /\ (pg.kind = "tasks" => pg.runs)

(* took: an answer to the ask. Instances have no readings of their rows,   *)
(* and the chart of a client reads whatever its rows do.                   *)
ListAnswered ==
  /\ \E rows \in IF page.kind = "instances" THEN {FALSE} ELSE BOOLEAN,
        runs \in IF page.kind = "tasks" THEN BOOLEAN ELSE {FALSE} :
       LET pg == [page EXCEPT !.rows = rows, !.runs = runs]
           bag == IF StartsOwn(pg) THEN With(awaited, Label("own")) ELSE awaited
       IN  /\ page' = [pg EXCEPT !.due = @ \/ StartsOwn(pg)]
           /\ UsageOnce(pg, bag)
  /\ UNCHANGED <<asked, under>> /\ UNCHANGED headerVars

(* The filter takes the rows off, or puts them back: the chain goes on     *)
(* until its next reading.                                                 *)
FilterRows ==
  /\ page.kind # "instances"
  /\ page' = [page EXCEPT !.rows = ~@]
  /\ UNCHANGED <<asked, under, rowsDue, awaited>> /\ UNCHANGED headerVars

(* keepRowUsage, keepHostUse, keepChecks, instanceChecksMsg: an answer, or *)
(* an error, sets the timer.                                               *)
Answered(kind, timer) ==
  /\ BagIn(Label(kind), awaited)
  /\ awaited' = With(Without(awaited, Label(kind)), Label(timer))
  /\ UNCHANGED sessionVars /\ UNCHANGED headerVars
RowsRead == Answered("rows", "rowsTimer")
OwnRead == Answered("own", "ownTimer")

RowsTimer ==
  /\ BagIn(Label("rowsTimer"), awaited)
  /\ ReadRows(page, Without(awaited, Label("rowsTimer")))
  /\ UNCHANGED <<asked, page, under>> /\ UNCHANGED headerVars

(* pollChecks: the checks of an allocation that ended are not read again,  *)
(* and the chain ends. The chart and the instances are always read.        *)
OwnEnds(pg) == pg.kind = "tasks" /\ ~pg.runs
OwnTimer ==
  /\ BagIn(Label("ownTimer"), awaited)
  /\ LET bag == Without(awaited, Label("ownTimer")) IN
     IF OwnEnds(page)
       THEN page' = [page EXCEPT !.due = FALSE] /\ awaited' = bag
       ELSE UNCHANGED page /\ awaited' = With(bag, Label("own"))
  /\ UNCHANGED <<asked, under, rowsDue>> /\ UNCHANGED headerVars

(* takeAnswer drops what belongs to an ask that is over.                   *)
Dropped ==
  /\ \E m \in BagToSet(awaited) :
       /\ m.kind \in {"rows", "rowsTimer", "own", "ownTimer"} /\ m.of # asked
       /\ awaited' = Without(awaited, m)
  /\ UNCHANGED sessionVars /\ UNCHANGED headerVars

(* enter: a new ask; the readings and their chains end with the old one.   *)
RestartedLeavingDue(pg) == pg
Restarted(pg) == [pg EXCEPT !.due = FALSE]
EnterScreen(pg, beneath) ==
  /\ asked < MaxAsks /\ asked' = asked + 1
  /\ page' = Restarted(pg) /\ under' = beneath /\ rowsDue' = FALSE

Open ==
  /\ under = <<>>
  /\ \E kind \in Kinds : EnterScreen(NewPage(kind), <<page>>)
  /\ UNCHANGED awaited /\ UNCHANGED headerVars

LeaveScreen ==
  /\ under # <<>>
  /\ EnterScreen(under[1], <<>>)
  /\ UNCHANGED awaited /\ UNCHANGED headerVars

-----------------------------------------------------------------------------
(* The header.                                                             *)

(* setClusterTimer: the timer for the next reading, unless it is pending.  *)
SetClusterTimer(bag) == IF header.due THEN bag ELSE With(bag, ClusterTimer)

(* keepClusterUsage: numbers of a place the session has left do not show,  *)
(* a failed read leaves the last ones, and the timer is set in any case.   *)
ClusterRead ==
  /\ \E m \in BagToSet(awaited) :
       /\ m.kind = "cluster" /\ m.of = connection
       /\ awaited' = SetClusterTimer(Without(awaited, m))
       /\ \E answers \in BOOLEAN :
            header' = CASE m.where # place -> [header EXCEPT !.due = TRUE]
                        [] m.where = place /\ answers -> [due |-> TRUE, shown |-> m.where, failed |-> FALSE]
                        [] OTHER -> [header EXCEPT !.due = TRUE, !.failed = TRUE]
  /\ UNCHANGED sessionVars /\ UNCHANGED <<connection, place, moves>>

(* takeConnection: an answer from a cluster the session has left.          *)
ClusterDropped ==
  /\ \E m \in BagToSet(awaited) :
       m.kind = "cluster" /\ m.of # connection /\ awaited' = Without(awaited, m)
  /\ UNCHANGED sessionVars /\ UNCHANGED headerVars

ClusterTimerFires ==
  /\ BagIn(ClusterTimer, awaited)
  /\ header' = [header EXCEPT !.due = FALSE]
  /\ awaited' = With(Without(awaited, ClusterTimer), OfCluster(connection, place))
  /\ UNCHANGED sessionVars /\ UNCHANGED <<connection, place, moves>>

(* forgetCluster: its timer goes on.                                       *)
ForgetCluster == header' = [NotShown EXCEPT !.due = header.due]

(* switchRegion goes back to the list; narrow enters the screen that is    *)
(* open again when it follows the session. Both read the header at once.   *)
Move ==
  /\ moves < MaxMoves /\ moves' = moves + 1
  /\ \E p \in Places \ {place} : place' = p /\ awaited' = With(awaited, OfCluster(connection, p))
  /\ ForgetCluster
  /\ \/ EnterScreen(NewPage("list"), <<>>)
     \/ page.kind = "list" /\ EnterScreen(page, under)
     \/ UNCHANGED sessionVars
  /\ UNCHANGED connection

(* keepCluster: another cluster, on its list of jobs.                      *)
Connect ==
  /\ connection < MaxConnections /\ connection' = connection + 1
  /\ \E p \in Places : place' = p /\ awaited' = With(awaited, OfCluster(connection + 1, p))
  /\ ForgetCluster
  /\ EnterScreen(NewPage("list"), <<>>)
  /\ UNCHANGED moves

-----------------------------------------------------------------------------
(* A screen that was just entered, the way back from it left out.          *)
ReadingsInit ==
  /\ asked = 1 /\ page \in {NewPage(kind) : kind \in Kinds} /\ under = <<>> /\ rowsDue = FALSE
  /\ header = NotShown /\ connection = 0 /\ moves = 0
  /\ place \in Places /\ awaited = SetToBag({OfCluster(0, place)})

ReadingsNext ==
  \/ ListAnswered \/ FilterRows \/ RowsRead \/ RowsTimer \/ OwnRead \/ OwnTimer
  \/ Dropped \/ Open \/ LeaveScreen
  \/ ClusterRead \/ ClusterDropped \/ ClusterTimerFires \/ Move \/ Connect

-----------------------------------------------------------------------------
(* How many of a message are out.                                          *)
Copies(m, bag) == IF BagIn(m, bag) THEN bag[m] ELSE 0

OutOf(bag, kinds) ==
  Copies(Label(kinds[1]), bag) + Copies(Label(kinds[2]), bag)

(* What a screen believes of its chains is what is out: a flag that is set *)
(* has one read or timer of this ask behind it, so the chain goes on, and  *)
(* a flag that is clear has none, so the next answer starts the only one.  *)
(* (usageOnce, hostOnce, checksOnce, restart)                              *)
OneChainEach ==
  /\ OutOf(awaited, <<"rows", "rowsTimer">>) = IF rowsDue THEN 1 ELSE 0
  /\ OutOf(awaited, <<"own", "ownTimer">>) = IF page.due THEN 1 ELSE 0

(* The header is read for as long as the session lasts, by one timer,      *)
(* whatever was out when the session moved; and what it shows was read     *)
(* where the session is. (setClusterTimer, keepCluster)                    *)
HeaderGoesOn ==
  /\ Copies(ClusterTimer, awaited) = IF header.due THEN 1 ELSE 0
  /\ header.due \/ \E m \in BagToSet(awaited) : m.kind = "cluster" /\ m.of = connection
  /\ header.shown \in {Nowhere, place}

(* Every chain of readings goes on, and once. (usage.go, checks.go)        *)
ReadingsGoOn == OneChainEach /\ HeaderGoesOn
=============================================================================
