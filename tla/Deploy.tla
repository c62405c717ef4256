-------------------------------- MODULE Deploy --------------------------------
(***************************************************************************)
(* The watch of a deploy (internal/ui/watch_deploy.go): the page of one    *)
(* version of a job, which is read in four requests, one after the other,  *)
(* while the job is registered again, the scheduler evaluates it and the   *)
(* cluster collects old evaluations.                                       *)
(***************************************************************************)
EXTENDS Integers, SequencesExt, FiniteSetsExt

CONSTANTS MaxVersions, MaxUpdates, MaxReadsOut   (* bounds: how often a job is
             registered, how often a client changes, how many reads are out  *)
ASSUME DeployAssumption ==
  {MaxVersions, MaxReadsOut} \subseteq Nat \ {0} /\ MaxUpdates \in Nat

VARIABLES
  cluster,  (* the job: its type, its versions, its evaluations, the       *)
            (* versions with a deployment                                  *)
  watch,    (* deployWatchPage                                             *)
  reads     (* the reads that are out: what each has found so far          *)

deployVars == <<cluster, watch, reads>>

NoVersion == 0
NoEval == [index |-> 0, status |-> "none"]

(* A version is its place, index where it was made, deploys whether the    *)
(* scheduler makes a deployment of it.                                     *)
DeployInit ==
  /\ \E type \in {"service", "batch"}, deploys \in BOOLEAN :
       /\ type = "batch" => ~deploys
       /\ cluster = [type |-> type, index |-> 1, versions |-> <<[index |-> 1, deploys |-> deploys]>>,
                     evals |-> {[index |-> 1, status |-> "pending"]}, updates |-> 0,
                     deployed |-> {}]
  /\ watch = [version |-> NoVersion, index |-> 0, eval |-> NoEval, read |-> FALSE,
              deployment |-> NoVersion]
  /\ reads = {}

-----------------------------------------------------------------------------
(* The cluster.                                                            *)
AtPage == UNCHANGED <<watch, reads>>
Pending(index) == [index |-> index, status |-> "pending"]

(* A submit writes a version and an evaluation of it.                      *)
Register ==
  /\ Len(cluster.versions) < MaxVersions
  /\ \E deploys \in IF cluster.type = "batch" THEN {FALSE} ELSE BOOLEAN :
       cluster' = [cluster EXCEPT !.index = @ + 1, !.evals = @ \cup {Pending(cluster.index + 1)},
                                  !.versions = Append(@, [index |-> cluster.index + 1, deploys |-> deploys])]
  /\ AtPage

(* So does what happens to a client, of the version there is.              *)
NodeUpdates ==
  /\ cluster.updates < MaxUpdates
  /\ cluster' = [cluster EXCEPT !.index = @ + 1, !.updates = @ + 1,
                                !.evals = @ \cup {Pending(cluster.index + 1)}]
  /\ AtPage

StatusOf(eval, status) == (cluster.evals \ {eval}) \cup {[eval EXCEPT !.status = status]}

(* The scheduler takes one evaluation of a job at a time. It writes the    *)
(* deployment of the newest version before it completes the evaluation.    *)
Schedules ==
  /\ ~\E e \in cluster.evals : e.status = "placed"
  /\ \E e \in cluster.evals : e.status = "pending" /\
       LET newest == Len(cluster.versions)
       IN  cluster' = [cluster EXCEPT
             !.evals = StatusOf(e, "placed"),
             !.deployed = IF cluster.versions[newest].deploys THEN @ \cup {newest} ELSE @]
  /\ AtPage
Completes ==
  /\ \E e \in cluster.evals : e.status = "placed" /\ cluster' = [cluster EXCEPT !.evals = StatusOf(e, "complete")]
  /\ AtPage

(* Old evaluations are collected, the oldest first.                        *)
Collects ==
  /\ \E e \in cluster.evals :
       /\ e.status = "complete" /\ \A other \in cluster.evals : e.index <= other.index
       /\ cluster' = [cluster EXCEPT !.evals = @ \ {e}]
  /\ AtPage

-----------------------------------------------------------------------------
(* readDeploy, request by request.                                         *)

(* A mutated After: the deployments go first.                              *)
AfterDeployments(step) ==
  CASE step = "version" -> "deployment" [] step = "deployment" -> "eval"
    [] step = "eval" -> "answer"

(* The evaluation goes first: one seen complete means that the deployment  *)
(* read after it is there. The allocations go last and are told apart by   *)
(* nothing here: reading them is part of the way of the answer.            *)
After(step) ==
  CASE step = "version" -> "eval" [] step = "eval" -> "deployment"
    [] step = "deployment" -> "answer"

(* fetch: by a poll or an event, also while an earlier read is out.        *)
Fetch ==
  /\ Cardinality(reads) < MaxReadsOut
  /\ reads' = reads \cup
       {[step |-> IF watch.version = NoVersion THEN "version" ELSE After("version"),
         version |-> watch.version, index |-> watch.index, eval |-> NoEval,
         deployment |-> NoVersion]}
  /\ UNCHANGED <<cluster, watch>>

(* NewestEvaluation, and the deployment of the version.                    *)
NewestEval ==
  LET newest(e) == \A other \in cluster.evals : e.index >= other.index
  IN  IF cluster.evals = {} THEN NoEval ELSE CHOOSE e \in cluster.evals : newest(e)
DeploymentOf(version) == IF version \in cluster.deployed THEN version ELSE NoVersion

Found(r) ==
  LET next == [r EXCEPT !.step = After(@)]
  IN  CASE r.step = "version" ->
             [next EXCEPT !.version = Len(cluster.versions), !.index = Last(cluster.versions).index]
        [] r.step = "eval" -> [next EXCEPT !.eval = NewestEval]
        [] r.step = "deployment" -> [next EXCEPT !.deployment = DeploymentOf(r.version)]

Reads(r) ==
  /\ r.step # "answer" /\ reads' = (reads \ {r}) \cup {Found(r)}
  /\ UNCHANGED <<cluster, watch>>

(* A request fails, and the read with it.                                  *)
ReadFails(r) ==
  /\ reads' = reads \ {r}
  /\ UNCHANGED <<cluster, watch>>

-----------------------------------------------------------------------------
(* A mutated Ours: any version is taken.                                   *)
OursAnyway(r) == TRUE

(* A read asked before the version was known may bring a newer one.        *)
Ours(r) == watch.version = NoVersion \/ r.version = watch.version

(* take.                                                                   *)
TakeDeploy(r) ==
  /\ r.step = "answer" /\ reads' = reads \ {r}
  /\ watch' = IF ~Ours(r) THEN watch
              ELSE [version |-> r.version, index |-> r.index, eval |-> r.eval, read |-> TRUE,
                    deployment |-> r.deployment]
  /\ UNCHANGED cluster

DeployNext ==
  \/ Register \/ NodeUpdates \/ Schedules \/ Completes \/ Collects \/ Fetch
  \/ \E r \in reads : Reads(r) \/ ReadFails(r) \/ TakeDeploy(r)

-----------------------------------------------------------------------------
(* makesNoDeployment, and the line that says so (standing).                *)
MakesNoDeployment ==
  \/ cluster.type = "batch"
  \/ watch.eval = NoEval
  \/ watch.eval.status = "complete" /\ watch.eval.index >= watch.index
SaysNoDeployment == watch.read /\ watch.deployment = NoVersion /\ MakesNoDeployment

(* Where the page says that its version has no deployment, there is none   *)
(* and none comes, as long as the page says it: whatever the scheduler and *)
(* the collector did between the requests of the read.                     *)
NoDeploymentIsTrue == SaysNoDeployment => watch.version \notin cluster.deployed

(* The page stays at the version it read first, through reads that began   *)
(* before it had one, and the deployment it shows is of that version.      *)
OneVersionThroughout ==
  [][/\ watch.version # NoVersion => watch'.version = watch.version
     /\ watch'.deployment \in {NoVersion, watch'.version}]_deployVars
=============================================================================
