----------------------------- MODULE MCSession ------------------------------
(* Small instances of what goes on around the pages: the session that moves, *)
(* the failures on the status line, and the readings of the header and the  *)
(* rows. They share nothing, so a behaviour is one of one of them. Nothing  *)
(* tells the clusters of the settings apart.                                *)
EXTENDS Session, Note, Readings, TLC

CONSTANTS east, west, europe, default, production, dc1, clients, web, db

VARIABLE part   (* which of them                                            *)

Symmetry == Permutations(Clusters)

Event(of, index, failed, reports) ==
  [of |-> of, index |-> index, failed |-> failed, reports |-> reports]
(* Two things fail, one of them twice; one fails, recovers and fails again. *)
SomeHappenings ==
  {<<Event(web, 1, TRUE, TRUE), Event(web, 2, TRUE, FALSE), Event(db, 2, TRUE, TRUE)>>,
   <<Event(web, 1, TRUE, TRUE), Event(web, 2, FALSE, TRUE), Event(web, 3, TRUE, TRUE)>>}

(* A part that is not looked at rests in one first state.                   *)
SmallInit ==
  /\ Init /\ NoteInit /\ ReadingsInit
  /\ part \in {"session", "note", "readings"}
  /\ part # "note" => happened.log[2].failed
  /\ part # "readings" => page.kind = "list" /\ place = "home"

(* The session writes to the cluster, or connects twice. Messages enough    *)
(* for one to take the time of another come while nothing fails, and the    *)
(* readings are moved once, to another place or another cluster.            *)
BoundedSession == writes = MaxWrites => model.attempt < MaxConnects
BoundedNote == said = MaxMessages => noteFaults = 0
BoundedReadings == moves + connection <= 1

SmallNext ==
  \/ part = "session" /\ Next /\ BoundedSession' /\ UNCHANGED <<part, noteVars, readingsVars>>
  \/ part = "note" /\ NoteNext /\ BoundedNote' /\ UNCHANGED <<part, vars, readingsVars>>
  \/ part = "readings" /\ ReadingsNext /\ BoundedReadings' /\ UNCHANGED <<part, vars, noteVars>>

SmallSpec == SmallInit /\ [][SmallNext]_<<part, vars, noteVars, readingsVars>>
=============================================================================
