------------------------------- MODULE Stream -------------------------------
(***************************************************************************)
(* A stream of the events of the cluster: Client.follow, the goroutine     *)
(* that pumps it into a channel, and waitOn, the command that reads that   *)
(* channel (internal/nomad/events.go, internal/ui/stream.go).              *)
(*                                                                         *)
(* The cluster is a log of events, and an event is its place in the log.   *)
(* What is written at once has one index: a plan that stops two            *)
(* allocations is two events of one index.  The pump takes what has one    *)
(* index as one batch and hands its events on one by one.                  *)
(***************************************************************************)
EXTENDS Integers, SequencesExt

CONSTANTS
  What,         (* what an event can be of                                 *)
  Batches,      (* what the cluster writes at once: sequences of What      *)
  StreamBuffer, (* streamBuffer                                            *)
  MaxEvents, MaxFeedStreams, MaxFeedFaults   (* bounds                     *)

ASSUME StreamAssumption ==
  /\ Batches \subseteq Seq(What) \ {<<>>}
  /\ StreamBuffer \in Nat \ {0}
  /\ MaxEvents \in Nat /\ MaxFeedStreams \in Nat \ {0} /\ MaxFeedFaults \in Nat

VARIABLES
  feedLog,   (* the events of the cluster, oldest first                    *)
  streams,   (* the streams that were opened                               *)
  feedFaults (* how many faults the environment made                       *)

(* ctx is the request behind the stream, at the place the cluster has sent *)
(* it to, batch what of an index the pump still has to hand on, buffer the *)
(* channel C, err that an error waits on Err, shut that C is closed: the   *)
(* pump has returned.                                                      *)
UnopenedStream == [ctx |-> "none", of |-> {}, from |-> 0, at |-> 0, batch |-> <<>>,
                   buffer |-> <<>>, err |-> FALSE, shut |-> FALSE]

NoFeed == 0

StreamInit ==
  /\ feedLog = <<>>
  /\ streams = [s \in 1 .. MaxFeedStreams |-> UnopenedStream]
  /\ feedFaults = 0

NewestEvent == IF feedLog = <<>> THEN 0 ELSE feedLog[Len(feedLog)].index

(* The cluster writes.                                                     *)
Happens(batch) ==
  /\ Len(feedLog) + Len(batch) <= MaxEvents
  /\ feedLog' = feedLog \o [i \in DOMAIN batch |-> [index |-> NewestEvent + 1, what |-> batch[i]]]
  /\ UNCHANGED <<streams, feedFaults>>

(* The events of the index that follows a place.                           *)
NextIndex(place) == {i \in DOMAIN feedLog : i > place /\ feedLog[i].index = feedLog[place + 1].index}

(* The places of a set in the order of the log.                            *)
Sorted(places) ==
  CHOOSE seq \in [1 .. Cardinality(places) -> places] :
    \A i, j \in 1 .. Cardinality(places) : i < j => seq[i] < seq[j]

(* What was before an index.  Asked past its newest event, the cluster     *)
(* starts at that event again.                                             *)
Before(from) ==
  LET first == IF from > NewestEvent THEN NewestEvent ELSE from
  IN  Max({0} \cup {i \in DOMAIN feedLog : feedLog[i].index < first})

(* Client.follow, once the cluster has taken the request.                  *)
Followed(s, of, from) ==
  [streams EXCEPT ![s] = [UnopenedStream EXCEPT !.ctx = "live", !.of = of, !.from = from,
                                          !.at = Before(from)]]

(* A stream whose pump has returned: what is still on its channel.  On an  *)
(* empty one an error and the end are the same end to its reader.          *)
Returned(st, err) == [UnopenedStream EXCEPT !.ctx = st.ctx, !.buffer = st.buffer,
                                      !.err = err /\ st.buffer # <<>>, !.shut = TRUE]

(* Stream.Close: the cluster sends nothing more.                           *)
Closed(s) ==
  IF s = NoFeed \/ streams[s].shut THEN streams
  ELSE [streams EXCEPT ![s] = [UnopenedStream EXCEPT !.ctx = "cancelled", !.batch = streams[s].batch,
                                               !.buffer = streams[s].buffer]]

-----------------------------------------------------------------------------
(* The pump.                                                               *)

(* The next batch: of what was asked for, and from the index on (the read  *)
(* of Client.feed).                                                        *)
Receives(s) ==
  LET st == streams[s]
      next == NextIndex(st.at)
  IN  /\ st.ctx = "live" /\ ~st.shut /\ st.batch = <<>>
      /\ st.at < Len(feedLog)
      /\ streams' = [streams EXCEPT
           ![s].at = Max(next),
           ![s].batch = Sorted({i \in next : feedLog[i].what \in st.of /\ feedLog[i].index >= st.from})]
      /\ UNCHANGED <<feedLog, feedFaults>>

(* With room on the channel, select may send though ctx is done.           *)
Sends(s) ==
  LET st == streams[s]
  IN  /\ st.batch # <<>> /\ ~st.shut
      /\ Len(st.buffer) < StreamBuffer
      /\ streams' = [streams EXCEPT ![s].buffer = Append(@, Head(st.batch)),
                                    ![s].batch = Tail(@)]
      /\ UNCHANGED <<feedLog, feedFaults>>

(* ctx.Done, where the pump sends; where it receives, the end of the       *)
(* request.                                                                *)
PumpReturns(s) ==
  /\ streams[s].ctx = "cancelled" /\ ~streams[s].shut
  /\ streams' = [streams EXCEPT ![s] = Returned(@, FALSE)]
  /\ UNCHANGED <<feedLog, feedFaults>>

(* The request ends by itself, with an error or without.                   *)
Ends(s) ==
  /\ streams[s].ctx = "live" /\ ~streams[s].shut /\ streams[s].batch = <<>>
  /\ feedFaults < MaxFeedFaults
  /\ \E err \in BOOLEAN : streams' = [streams EXCEPT ![s] = Returned(@, err)]
  /\ feedFaults' = feedFaults + 1
  /\ UNCHANGED feedLog

Pump(s) == Receives(s) \/ Sends(s) \/ PumpReturns(s)

-----------------------------------------------------------------------------
(* waitOn: something on the channel, or the end of the stream.  With both  *)
(* there, select takes either.                                             *)
HasSome(s)  == streams[s].buffer # <<>>
HasEnded(s) == streams[s].err \/ (streams[s].shut /\ streams[s].buffer = <<>>)

(* withWaiting: the first and what waits behind it.                        *)
Emptied(s) == [streams EXCEPT ![s].buffer = <<>>]

(* Nobody reads a stream after its end, what is left on it goes with it.   *)
Over(s) == [streams EXCEPT ![s] = [UnopenedStream EXCEPT !.ctx = "cancelled", !.shut = TRUE]]
=============================================================================
