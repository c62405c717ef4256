------------------------------ MODULE MCLasting ------------------------------
(* Small instances of what must come to its end by itself: a screen that    *)
(* catches up with the cluster, the saved session over several runs, and    *)
(* the events of a page that is left and come back to. They share nothing,  *)
(* so a behaviour is one of one of them.                                    *)
EXTENDS MCWatch, SavedSession, Feed

CONSTANTS default, production

VARIABLE part   (* which of them                                            *)

OneByOne == {<<w>> : w \in What}

(* A part that is not looked at rests where nothing goes on by itself.      *)
WatchRests ==
  /\ log = <<[topic |-> NoTopic, limited |-> FALSE]>> /\ version = "asked"
  /\ page = regions /\ asked = 1
  /\ polling = FALSE /\ pollTick = 0 /\ slow = FALSE /\ settles = 0
  /\ timers = [k \in 0 .. MaxTick |-> 0]
  /\ watch = [stream |-> NoStream, id |-> 0, settling |-> FALSE, fewer |-> FALSE, due |-> TRUE, heard |-> FALSE,
              read |-> [t \in Topics |-> Unread], newest |-> [t \in Topics |-> 0]]
  /\ opens = {} /\ flight = [s \in Slots |-> Idle] /\ shown = [t \in Topics |-> Unread]
  /\ spoiled = FALSE /\ faults = 0

SessionRests == SavedInit /\ session = 0

FeedRests ==
  /\ StreamInit
  /\ here = default /\ top = FALSE /\ feedAsked = 1 /\ out = {}
  /\ feedPage = [feed |-> NoFeed, events |-> <<>>, ns |-> here, last |-> 0]

(* A screen is entered twice, or something fails, and not both.  The run of *)
(* the list of allocations has both.                                        *)
BoundedFewer == asked = MaxAsked => faults = 0

LastingInit ==
  \/ part = "watch" /\ Init /\ SessionRests /\ FeedRests
  \/ part = "session" /\ WatchRests /\ SavedInit /\ FeedRests
  \/ part = "feed" /\ WatchRests /\ SessionRests /\ FeedInit

LastingNext ==
  \/ part = "watch" /\ Next /\ BoundedFewer' /\ UNCHANGED <<part, savedVars, feedVars>>
  \/ part = "session" /\ SavedNext /\ UNCHANGED <<part, vars, feedVars>>
  \/ part = "feed" /\ FeedNext /\ UNCHANGED <<part, vars, savedVars>>

LastingSpec ==
  /\ LastingInit /\ [][LastingNext]_<<part, vars, savedVars, feedVars>>
  /\ Fairness /\ SavedFairness /\ FeedFairness
=============================================================================
