------------------------------ MODULE MCWatch ------------------------------
(* Small instances of Watch.  allocations: one request (allocationsPage).   *)
(* deployment: two (deploymentPage).  nodes: one that reads the clients,    *)
(* who has a limit, and the allocations of those (nodesPage, with the       *)
(* fewer topics).  volume: a topic that needs a version (volumesPage).      *)
(* regions: watches nothing.                                                *)
EXTENDS Watch

CONSTANTS nodes, deployment, allocations, volume, regions,
          TopicNode, TopicAllocation, TopicDeployment, TopicHostVolume, limits

MCRequests ==
  [p \in Pages |->
     CASE p = nodes       -> {<<TopicNode, limits, TopicAllocation>>}
       [] p = deployment  -> {<<TopicAllocation>>, <<TopicDeployment>>}
       [] p = allocations -> {<<TopicAllocation>>}
       [] p = volume      -> {<<TopicHostVolume>>}
       [] p = regions     -> {<<>>}]

MCTopics ==
  [p \in Pages |->
     CASE p = nodes       -> {TopicNode, TopicAllocation}
       [] p = deployment  -> {TopicAllocation, TopicDeployment}
       [] p = allocations -> {TopicAllocation}
       [] p = volume      -> {TopicHostVolume}
       [] p = regions     -> {}]

(* The screen of one deployment has two requests, so three reads can be out *)
(* and nothing fails; the list of allocations has one, and all the rest.    *)
(* No page here asks for limits.                                            *)
Bounded ==
  /\ ~log[1].limited
  /\ IF page = deployment
     THEN asked = 1 /\ pollTick <= 1 /\ faults = 0
     ELSE ~flight[3].out /\ \A i \in 2 .. Len(log) : log[i].topic = TopicAllocation
BoundedInit == Init /\ Bounded
BoundedNext == Next /\ page' = page /\ Bounded'
OneOrTwoRequests == BoundedInit /\ [][BoundedNext]_vars

MCFewer == [p \in Pages |-> IF p = nodes THEN {TopicNode} ELSE {}]
=============================================================================
