----------------------------- MODULE Remembered -----------------------------
(***************************************************************************)
(* What the saved session promises (docs/configuration.md, Saved session): *)
(* the file holds the session as it was at some moment, a later one each   *)
(* time it is written, the last one when urga quits; and the next run      *)
(* starts from it.  A session is the number of the changes made to it.     *)
(***************************************************************************)
EXTENDS Naturals

VARIABLES
  session,   (* the session as it is                                       *)
  file,      (* the session the file holds                                 *)
  ended      (* the run ended by quitting                                  *)

vars == <<session, file, ended>>

Init == session \in Nat /\ file = session /\ ended = FALSE

Change == ~ended /\ session' = session + 1 /\ UNCHANGED <<file, ended>>

Save == /\ ~ended /\ file' \in Nat /\ file < file' /\ file' <= session
        /\ UNCHANGED <<session, ended>>

Quit == ~ended /\ file' = session /\ ended' = TRUE /\ UNCHANGED session

(* A run starts from the file, after a quit, a failed one or a crash.      *)
Start == session' = file /\ ended' = FALSE /\ UNCHANGED file

Next == Change \/ Save \/ Quit \/ Start

Spec == Init /\ [][Next]_vars
=============================================================================
