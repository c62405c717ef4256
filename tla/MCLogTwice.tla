----------------------------- MODULE MCLogTwice ------------------------------
(* A small instance of the log of a task whose person switches the source   *)
(* out and back while the first stream still opens.                         *)
EXTENDS TaskLog

CONSTANTS stdout, stderr

OneLine == {[s \in Sources |-> IF s = stdout THEN <<FALSE, TRUE>> ELSE <<>>]}
NoMoreBytes == [s \in Sources |-> IF s = stdout THEN 2 ELSE 0]

LogTwiceSpec == TaskLogInit /\ [][TaskLogNext]_taskLogVars
=============================================================================
