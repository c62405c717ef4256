-------------------------------- MODULE Logs ---------------------------------
(* The two pages that read logs, of one task and of all tasks of a job.     *)
(* They share no state, and a promise: a stream that is opened for a page   *)
(* is a request that goes on until it is closed, so somebody has to read it *)
(* or close it.                                                             *)
EXTENDS TaskLog, JobLogs

LogsInit == TaskLogInit /\ JobLogsInit
LogsSpec == LogsInit /\ [][TaskLogNext]_taskLogVars /\ [][JobLogsNext]_jobLogsVars

(* No stream of a log goes on that nobody reads, of a task or of a job,     *)
(* whatever was left, opened again, switched or read again while it opened  *)
(* (letGo, release, closeStream, logState.stop, jobLogsState.stop).         *)
NoLogStreamLeft == NoTailLeft /\ NoJobStreamLeft
=============================================================================
