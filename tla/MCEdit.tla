------------------------------- MODULE MCEdit -------------------------------
(* Small instances of Edit: a variable, saved with check-and-set, or a job, *)
(* planned first.                                                           *)
EXTENDS Edit

CONSTANTS variable, other, job

VARIABLE edited   (* the things that are edited in this behaviour           *)

OneKindInit ==
  /\ EditInit /\ edited \in {Saved, Planned}
  /\ \A t \in Things \ edited : cluster[t].index = 0

OneKindNext ==
  /\ EditNext /\ UNCHANGED edited
  /\ \A t \in Things \ edited : cluster'[t] = cluster[t]
  /\ \A s \in Slots : work'[s].submit.thing \in edited \cup {NoThing}

OneKindSpec == OneKindInit /\ [][OneKindNext]_<<editVars, edited>> /\ EditFairness
=============================================================================
