-------------------------------- MODULE Feed --------------------------------
(***************************************************************************)
(* The page of events (internal/ui/feed.go): what happens in the namespace *)
(* of the session, event by event.  The page reads a stream of its own     *)
(* while it is on top.  Left for another screen it keeps what it read, and *)
(* goes on after it when the person comes back.                            *)
(***************************************************************************)
EXTENDS Stream

CONSTANTS
  Namespaces,   (* what the session can look at, and what an event is of   *)
  Everywhere,   (* all namespaces at once                                  *)
  NoNamespace,  (* what an event of a client is of                         *)
  FeedKept,     (* feedKept                                                *)
  MaxFeedAsked      (* a bound: how often the page is entered and left         *)

ASSUME FeedAssumption ==
  /\ Namespaces # {} /\ Everywhere \notin What /\ NoNamespace \notin Namespaces
  /\ FeedKept \in Nat \ {0}
  /\ MaxFeedAsked = MaxFeedStreams

VARIABLES
  feedPage,  (* its stream, its events oldest first, namespace, last       *)
  top,       (* the page is on top                                         *)
  feedAsked, (* Model.asked                                                *)
  here,      (* the namespace of the session                               *)
  out        (* the commands and messages of the page                      *)

feedVars == <<feedLog, streams, feedFaults, feedPage, top, feedAsked, here, out>>

(* What the cluster sends of a namespace.                                  *)
Of(ns) == IF ns = Everywhere THEN What ELSE What \cap {ns, NoNamespace}

(* A mutated GoesOn: the namespace the events are of is not looked at.     *)
GoesOnAnywhere(ns) == feedPage.last > 0

(* How a page of a namespace opens, and what it asks for (feedPage.open):  *)
(* on the same namespace it goes on.                                       *)
GoesOn(ns) == feedPage.ns = ns /\ feedPage.last > 0

OpenPage(ns) ==
  IF GoesOn(ns) THEN [feedPage EXCEPT !.feed = NoFeed]
                ELSE [feed |-> NoFeed, events |-> <<>>, ns |-> ns, last |-> 0]


OpenFrom(ns) == IF GoesOn(ns) THEN feedPage.last + 1 ELSE 1

(* Model.enter with the page on top: the stream it had is closed, and one  *)
(* is asked for.                                                           *)
EnterFeed(ns) ==
  /\ feedAsked < MaxFeedAsked
  /\ feedAsked' = feedAsked + 1
  /\ streams' = Closed(feedPage.feed)
  /\ feedPage' = OpenPage(ns)
  /\ out' = out \cup {[kind |-> "open", asked |-> feedAsked + 1, ns |-> ns, from |-> OpenFrom(ns)]}

FeedInit ==
  /\ StreamInit
  /\ here \in Namespaces
  /\ top = TRUE /\ feedAsked = 1
  /\ feedPage = [feed |-> NoFeed, events |-> <<>>, ns |-> here, last |-> 0]
  /\ out = {[kind |-> "open", asked |-> 1, ns |-> here, from |-> 1]}

(* The person: the page again (show, narrow), another screen on top of it  *)
(* (stack), back to it, another namespace.                                 *)
Again == top /\ EnterFeed(here) /\ UNCHANGED <<feedLog, feedFaults, top, here>>

Leave ==
  /\ top /\ feedAsked < MaxFeedAsked
  /\ top' = FALSE
  /\ feedAsked' = feedAsked + 1
  /\ streams' = Closed(feedPage.feed)
  /\ feedPage' = [feedPage EXCEPT !.feed = NoFeed]
  /\ UNCHANGED <<feedLog, feedFaults, here, out>>

BackToFeed == ~top /\ top' = TRUE /\ EnterFeed(here) /\ UNCHANGED <<feedLog, feedFaults, here>>

SwitchNamespace(ns) ==
  /\ ns # here /\ here' = ns
  /\ IF top THEN EnterFeed(ns) ELSE UNCHANGED <<streams, feedPage, feedAsked, out>>
  /\ UNCHANGED <<feedLog, feedFaults, top>>

Person == Again \/ Leave \/ BackToFeed \/ \E ns \in Namespaces : SwitchNamespace(ns)

-----------------------------------------------------------------------------
Swap(m, new) == out' = (out \ {m}) \cup {new}
Drop(m) == out' = out \ {m}

Current(m) == m.asked = feedAsked

(* Client.Feed: the stream of an ask has its number.                       *)
Opens(m) ==
  /\ m.kind = "open"
  /\ streams' = Followed(m.asked, Of(m.ns), m.from)
  /\ Swap(m, [kind |-> "opened", asked |-> m.asked, feed |-> m.asked])
  /\ UNCHANGED <<feedLog, feedFaults, feedPage, top, feedAsked, here>>

(* Refused, or no answer: the page says so and is without a stream.        *)
OpenFails(m) ==
  /\ m.kind = "open" /\ feedFaults < MaxFeedFaults
  /\ feedFaults' = feedFaults + 1
  /\ Drop(m)
  /\ UNCHANGED <<feedLog, streams, feedPage, top, feedAsked, here>>

(* A mutated TakeOpened: one that comes late is only dropped.              *)
TakeOpenedDrops(m) ==
  /\ m.kind = "opened"
  /\ IF Current(m) /\ feedPage.feed = NoFeed
     THEN /\ feedPage' = [feedPage EXCEPT !.feed = m.feed]
          /\ Swap(m, [kind |-> "wait", asked |-> feedAsked, feed |-> m.feed])
     ELSE Drop(m) /\ UNCHANGED feedPage
  /\ UNCHANGED <<feedLog, streams, feedFaults, top, feedAsked, here>>

(* feedOpenedMsg: letGo closes one of an ask that is over, and the session *)
(* one next to the stream the page reads.                                  *)
TakeOpened(m) ==
  /\ m.kind = "opened"
  /\ IF Current(m) /\ feedPage.feed = NoFeed
     THEN /\ feedPage' = [feedPage EXCEPT !.feed = m.feed]
          /\ Swap(m, [kind |-> "wait", asked |-> feedAsked, feed |-> m.feed])
          /\ UNCHANGED streams
     ELSE /\ streams' = Closed(m.feed)
          /\ Drop(m)
          /\ UNCHANGED feedPage
  /\ UNCHANGED <<feedLog, feedFaults, top, feedAsked, here>>

(* nextEvent.                                                              *)
NextEvents(m) ==
  /\ m.kind = "wait" /\ HasSome(m.feed)
  /\ streams' = Emptied(m.feed)
  /\ Swap(m, [kind |-> "events", asked |-> m.asked, feed |-> m.feed,
              events |-> streams[m.feed].buffer])
  /\ UNCHANGED <<feedLog, feedFaults, feedPage, top, feedAsked, here>>

NextEnd(m) ==
  /\ m.kind = "wait" /\ HasEnded(m.feed)
  /\ streams' = Over(m.feed)
  /\ Swap(m, [kind |-> "ended", asked |-> m.asked, feed |-> m.feed])
  /\ UNCHANGED <<feedLog, feedFaults, feedPage, top, feedAsked, here>>

(* feedEventsMsg: the newest on top, the oldest go first.                  *)
LastOf(seq, n) == SubSeq(seq, Max({1, Len(seq) - n + 1}), Len(seq))

(* A mutated TakeEvents: a batch that leaves the page full is the last.    *)
TakeEventsUntilFull(m) ==
  /\ m.kind = "events"
  /\ IF Current(m) /\ m.feed = feedPage.feed
     THEN /\ feedPage' = [feedPage EXCEPT
               !.events = LastOf(@ \o m.events, FeedKept),
               !.last = Max({@} \cup {feedLog[e].index : e \in ToSet(m.events)})]
          /\ IF Len(feedPage'.events) = FeedKept THEN Drop(m)
             ELSE Swap(m, [kind |-> "wait", asked |-> feedAsked, feed |-> m.feed])
     ELSE Drop(m) /\ UNCHANGED feedPage
  /\ UNCHANGED <<feedLog, streams, feedFaults, top, feedAsked, here>>

TakeEvents(m) ==
  /\ m.kind = "events"
  /\ IF Current(m) /\ m.feed = feedPage.feed
     THEN /\ feedPage' = [feedPage EXCEPT
               !.events = LastOf(@ \o m.events, FeedKept),
               !.last = Max({@} \cup {feedLog[e].index : e \in ToSet(m.events)})]
          /\ Swap(m, [kind |-> "wait", asked |-> feedAsked, feed |-> m.feed])
     ELSE Drop(m) /\ UNCHANGED feedPage
  /\ UNCHANGED <<feedLog, streams, feedFaults, top, feedAsked, here>>

(* feedEndedMsg.                                                           *)
TakeEnded(m) ==
  /\ m.kind = "ended"
  /\ feedPage' = IF Current(m) /\ m.feed = feedPage.feed THEN [feedPage EXCEPT !.feed = NoFeed] ELSE feedPage
  /\ Drop(m)
  /\ UNCHANGED <<feedLog, streams, feedFaults, top, feedAsked, here>>

TakesMessageOf(m) == Opens(m) \/ TakeOpened(m) \/ NextEvents(m) \/ NextEnd(m) \/ TakeEvents(m) \/ TakeEnded(m)

pageVars == <<feedPage, top, feedAsked, here, out>>

FeedNext ==
  \/ \E batch \in Batches : Happens(batch) /\ UNCHANGED pageVars
  \/ \E s \in 1 .. MaxFeedStreams : (Pump(s) \/ Ends(s)) /\ UNCHANGED pageVars
  \/ \E m \in out : TakesMessageOf(m) \/ OpenFails(m)
  \/ Person

(* A pump goes on, a request is answered, a message is taken.              *)
FeedFairness ==
  /\ \A s \in 1 .. MaxFeedStreams : WF_feedVars(Pump(s) /\ UNCHANGED pageVars)
  /\ \A n \in 1 .. MaxFeedAsked : WF_feedVars(\E m \in out : m.asked = n /\ TakesMessageOf(m))


-----------------------------------------------------------------------------
(* The page shows the events of its namespace in the order they happened,  *)
(* none of them twice, over streams that were opened again and end where   *)
(* the cluster likes (feedPage.open, feedPage.take).                       *)
ShownInOrder ==
  /\ \A i, j \in DOMAIN feedPage.events : i < j => feedPage.events[i] < feedPage.events[j]
  /\ \A e \in ToSet(feedPage.events) : feedLog[e].what \in Of(feedPage.ns)

(* What the stream of the page still has to bring.                         *)
ToCome ==
  IF feedPage.feed = NoFeed THEN {}
  ELSE LET st == streams[feedPage.feed]
       IN  {e \in DOMAIN feedLog : ~st.shut /\ e > st.at} \cup ToSet(st.batch) \cup ToSet(st.buffer)
           \cup UNION {ToSet(m.events) : m \in {n \in out : n.kind = "events" /\ n.feed = feedPage.feed}}

(* The page goes on after the newest event it has, so what is not newer is *)
(* on it, or still on its way, or was dropped as the oldest of too many    *)
(* (the from of feedPage.open).                                            *)
NothingSkipped ==
  \A e \in DOMAIN feedLog :
    /\ feedLog[e].what \in Of(feedPage.ns) /\ feedLog[e].index <= feedPage.last
    /\ ~(Len(feedPage.events) = FeedKept /\ e < feedPage.events[1])
    => e \in ToSet(feedPage.events) \cup ToCome

(* The page is the log of its namespace, down to the oldest it keeps.      *)
(* (feedPage.open, feedPage.take)                                          *)
FeedIsTheLog == ShownInOrder /\ NothingSkipped

(* A stream that is open is the one the page on top reads, or on its way   *)
(* to it: no request is left behind by a page that was left, entered       *)
(* again, or moved to another namespace while its stream was opening       *)
(* (closeStream, letGo, stop).                                             *)
NoStreamLeft ==
  /\ \A s \in 1 .. MaxFeedStreams :
       streams[s].ctx = "live" /\ ~streams[s].shut =>
         s = feedPage.feed \/ \E m \in out : m.kind = "opened" /\ m.feed = s
  /\ feedPage.feed # NoFeed => top

(* A stream that was closed lets its request go, though nobody reads its   *)
(* channel any more and it may be full (follow).                           *)
LetsGo ==
  \A s \in 1 .. MaxFeedStreams : streams[s].ctx = "cancelled" ~> streams[s].shut

(* A page that stays on top of a stream that goes on comes to show all the *)
(* cluster wrote in its namespace, except what went as the oldest.         *)
ShowsAll ==
  \A e \in DOMAIN feedLog :
    feedLog[e].what \in Of(feedPage.ns) =>
      e \in ToSet(feedPage.events) \/ (Len(feedPage.events) = FeedKept /\ e < feedPage.events[1])

ShowsAtLast == <>[](top /\ feedPage.feed # NoFeed /\ ~streams[feedPage.feed].shut) => <>[]ShowsAll

(* Every stream goes the way it should: of a page that stays, on to the    *)
(* newest event, and of one that is left, away (follow, closeStream).      *)
StreamsMoveOn == LetsGo /\ ShowsAtLast
=============================================================================
