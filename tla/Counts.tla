-------------------------------- MODULE Counts --------------------------------
(***************************************************************************)
(* From the file of a job to the cluster (internal/nomad/edit.go, plan.go, *)
(* internal/ui/plan.go): a plan and a submit are two requests each, a read *)
(* of the job that runs and then the request itself, and in between a      *)
(* person or the autoscaler scales the job, another file is submitted, or  *)
(* the job is deleted and made again. And a namespace that is made from    *)
(* its file: a lookup, then a register.                                    *)
(*                                                                         *)
(* The job has one group. A count is a number, the file says one, and      *)
(* opened is the one it said when it was read.                             *)
(***************************************************************************)
EXTENDS Integers, FiniteSets

CONSTANTS Sizes, MaxChanges, MaxRequests   (* the counts a group can have;  *)
          (* bounds: how often the job changes, how many requests are out   *)
ASSUME CountsAssumption == Sizes \subseteq Nat \ {0} /\ {MaxChanges, MaxRequests} \subseteq Nat

VARIABLES
  job,        (* the job: index its modify index, 0 when there is none,    *)
              (* count what it runs with, source what its file says,       *)
              (* changes the newest index of the cluster                   *)
  editing,    (* the edit: file, opened, fresh for a new job               *)
  planShown,  (* planPage: its edit, its index, whether it is refused      *)
  requests,   (* the plans and submits that are out                        *)
  taken,      (* whose namespace the cluster has under the name: nobody's, *)
              (* ours, theirs                                              *)
  creates     (* how far CreateNamespace is                                *)

countsVars == <<job, editing, planShown, requests, taken, creates>>

Unopened == 0      (* nil, or a group the file did not have                *)
NoPlan == [there |-> FALSE]
NoEdit == [on |-> FALSE]
Gone == 0

-----------------------------------------------------------------------------
(* The cluster and who else works on it.                                   *)
Changed(count, source) ==
  /\ job.changes < MaxChanges
  /\ job' = [index |-> job.changes + 1, count |-> count, source |-> source, changes |-> job.changes + 1]

Others == UNCHANGED <<editing, planShown, requests, taken, creates>>

(* ScaleJob, of a person or the autoscaler: the file of the job stays.     *)
ScaleJob == job.index # Gone /\ (\E n \in Sizes \ {job.count} : Changed(n, job.source)) /\ Others

AnotherSubmits == (\E n \in Sizes : Changed(n, n)) /\ Others

Purge ==
  /\ job.index # Gone /\ job.changes < MaxChanges
  /\ job' = [job EXCEPT !.index = Gone, !.changes = @ + 1]
  /\ Others

-----------------------------------------------------------------------------
(* The person. A file whose counts cannot be read opens with none.         *)

(* jobFile, newJob; the edit itself is one step: its file is a count.      *)
OpenEditor ==
  /\ ~editing.on
  /\ \/ /\ job.index # Gone
        /\ \E n \in Sizes, was \in {Unopened, job.source} :
             editing' = [on |-> TRUE, fresh |-> FALSE, file |-> n, opened |-> was]
     \/ \E n \in Sizes :
          editing' = [on |-> TRUE, fresh |-> TRUE, file |-> n, opened |-> Unopened]
  /\ UNCHANGED <<job, planShown, requests, taken, creates>>

Request(of, state, at) ==
  [of |-> of, step |-> "read", state |-> state, at |-> at, count |-> state.file]
Requests(r) ==
  /\ Cardinality(requests) < MaxRequests
  /\ requests' = requests \cup {r}
  /\ UNCHANGED <<job, editing, planShown, taken, creates>>

(* planFor, planNewJob: the first plan, and replan.                        *)
PlanJob == editing.on /\ Requests(Request("plan", editing, 0))
Replan == planShown.there /\ Requests(Request("plan", planShown.state, 0))

(* submitPlan, submitIndex.                                                *)
SubmitIndex == IF planShown.state.fresh THEN 0 ELSE planShown.index
SubmitJob ==
  /\ planShown.there /\ ~planShown.refused
  /\ Requests(Request("submit", planShown.state, SubmitIndex))

(* keepCounts: a group whose count was not edited keeps the count it runs  *)
(* with. Nothing is read when nothing is kept.                             *)
Kept(r) ==
  IF r.state.opened = r.state.file /\ job.index # Gone THEN job.count ELSE r.state.file
KeepCounts ==
  /\ \E r \in requests :
       /\ r.step = "read"
       /\ requests' = (requests \ {r}) \cup {[r EXCEPT !.step = "send", !.count = Kept(r)]}
  /\ UNCHANGED <<job, editing, planShown, taken, creates>>

(* PlanOpts, planOf: the plan is of the job at the index it answers.       *)
PlanAnswered ==
  /\ \E r \in requests :
       /\ r.of = "plan" /\ r.step = "send"
       /\ requests' = requests \ {r}
       /\ \E failed \in BOOLEAN :
            planShown' = [there |-> TRUE, state |-> r.state, index |-> job.index,
                          refused |-> failed \/ (r.state.fresh /\ job.index # Gone)]
  /\ UNCHANGED <<job, editing, taken, creates>>

(* RegisterOpts: the job is registered at the index of the plan, and what  *)
(* is kept with it is the file. A job that has another index is not, the   *)
(* plan stays open to be planned again.                                    *)
TakesAnyIndex(r) == TRUE
Takes(r) == r.at = job.index
RegisterAnswered ==
  /\ \E r \in requests :
       /\ r.of = "submit" /\ r.step = "send"
       /\ requests' = requests \ {r}
       /\ IF Takes(r) THEN Changed(r.count, r.state.file) ELSE UNCHANGED job
       /\ IF Takes(r) THEN planShown' = NoPlan /\ editing' = NoEdit ELSE UNCHANGED <<planShown, editing>>
  /\ UNCHANGED <<taken, creates>>

(* A request that is not answered says why, and what is open stays.        *)
RequestFails ==
  /\ \E r \in requests : requests' = requests \ {r}
  /\ UNCHANGED <<job, editing, planShown, taken, creates>>

-----------------------------------------------------------------------------
(* CreateNamespace.                                                        *)
LookUp ==
  /\ creates = "look"
  /\ creates' = IF taken = "nobody" THEN "register" ELSE "exists"
  /\ UNCHANGED <<job, editing, planShown, requests, taken>>

RegisterNamespace ==
  /\ creates = "register" /\ creates' = "made" /\ taken' = "ours"
  /\ UNCHANGED <<job, editing, planShown, requests>>

AnotherMakesIt ==
  /\ taken = "nobody" /\ taken' = "theirs"
  /\ UNCHANGED <<job, editing, planShown, requests, creates>>

-----------------------------------------------------------------------------
CountsInit ==
  /\ job \in [index : {1}, count : Sizes, source : Sizes, changes : {1}]
  /\ editing = NoEdit /\ planShown = NoPlan /\ requests = {}
  /\ taken = "nobody" /\ creates = "look"

CountsOfJob ==
  \/ ScaleJob \/ AnotherSubmits \/ Purge \/ OpenEditor \/ PlanJob \/ Replan \/ SubmitJob \/ KeepCounts
  \/ PlanAnswered \/ RegisterAnswered \/ RequestFails
MakesNamespace == LookUp \/ RegisterNamespace \/ AnotherMakesIt
CountsNext == CountsOfJob \/ MakesNamespace

-----------------------------------------------------------------------------
(* Submitting an edit that leaves the count alone never changes the count  *)
(* the job runs with, whoever scaled the job, and when: before the plan,   *)
(* between the plan and the submit, or between the two requests of the     *)
(* submit. (keepCounts, SubmitJob; docs/jobs.md)                           *)
ScaleStands ==
  [][\A r \in requests \ requests' :
        r.of = "submit" /\ r.state.opened = r.state.file /\ job' # job /\ job.index # Gone
          => job'.count = job.count]_countsVars

(* Making a namespace never writes over the one somebody else made between *)
(* the lookup and the register. (CreateNamespace)                          *)
NoNamespaceReplaced == [][taken = "theirs" => taken' = "theirs"]_countsVars
=============================================================================
