------------------------------ MODULE MCReads --------------------------------
(* Small instances of what a page reads while it changes, and of what it    *)
(* sends: the logs of a task and of a job, the events, a deployment that    *)
(* starts, and the counts of a job between its file and the cluster. They   *)
(* share nothing, so a behaviour is one of one of them.                     *)
EXTENDS Logs, Feed, Deploy, Counts

CONSTANTS stdout, stderr, unversioned, default, production

VARIABLE part   (* which of them                                            *)

SomeWritten == {[s \in Sources |-> IF s = stdout THEN text ELSE <<>>] :
                  text \in {<<FALSE, TRUE, FALSE>>, <<FALSE, FALSE, FALSE>>}}
FewBytes == [s \in Sources |-> IF s = stdout THEN 5 ELSE 1]
OneByOne == {<<w>> : w \in What}

(* A part that is not looked at rests in one first state.                   *)
ReadsInit ==
  /\ LogsInit /\ FeedInit /\ DeployInit /\ CountsInit
  /\ part \in {"task", "job", "feed", "deployment", "counts"}
  /\ part # "task" => reader.source = stdout /\ logs[stdout][2]
  /\ part # "job" => jobPage.version = Unversioned
  /\ part # "feed" => here = default
  /\ part # "deployment" => cluster.type = "batch"
  /\ part # "counts" => job.count = 1 /\ job.source = 1

(* The last time the page is entered nothing failed before, and the cluster *)
(* has an event less.                                                       *)
BoundedTask == ask = MaxAsked => logFaults = 0
BoundedFeed == feedAsked = MaxFeedAsked => Len(feedLog) < MaxEvents

ReadsNext ==
  \/ part = "task" /\ TaskLogNext /\ BoundedTask'
                    /\ UNCHANGED <<part, jobLogsVars, feedVars, deployVars, countsVars>>
  \/ part = "job" /\ JobLogsNext /\ UNCHANGED <<part, taskLogVars, feedVars, deployVars, countsVars>>
  \/ part = "feed" /\ FeedNext /\ BoundedFeed'
                    /\ UNCHANGED <<part, taskLogVars, jobLogsVars, deployVars, countsVars>>
  \/ part = "deployment" /\ DeployNext /\ UNCHANGED <<part, taskLogVars, jobLogsVars, feedVars, countsVars>>
  \/ part = "counts" /\ CountsOfJob /\ UNCHANGED <<part, taskLogVars, jobLogsVars, feedVars, deployVars>>

ReadsSpec ==
  ReadsInit /\ [][ReadsNext]_<<part, taskLogVars, jobLogsVars, feedVars, deployVars, countsVars>>
=============================================================================
