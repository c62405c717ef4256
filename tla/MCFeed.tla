-------------------------------- MODULE MCFeed --------------------------------
(* A small instance of the page of events, of which some have one index.     *)
EXTENDS Feed

CONSTANTS default, production

TwoOfAnIndex == {<<default>>, <<default, default>>}

FeedSpec == FeedInit /\ [][FeedNext]_feedVars
=============================================================================
