------------------------------- MODULE Watch -------------------------------
(***************************************************************************)
(* How an open screen keeps up with the cluster: the read of the screen,   *)
(* its poll timer, and the event stream that says when what it shows is    *)
(* out of date (internal/ui/watch.go, with the parts of app.go, screen.go  *)
(* and update.go that route its messages).                                 *)
(*                                                                         *)
(* The cluster is a log of changes.  An index is a place in the log, the   *)
(* table index of a topic is the newest place with that topic.  A read     *)
(* goes through its topics one at a time while the cluster moves on, and   *)
(* answers of several reads, stream messages and timers arrive in any      *)
(* order.                                                                  *)
(***************************************************************************)
EXTENDS Integers, Sequences, FiniteSetsExt, Functions

CONSTANTS
  Pages,        (* the screens that can be opened                          *)
  Topics,       (* the event topics of the cluster                         *)
  PageTopics,   (* what a page watches: page.topics()                      *)
  Requests,     (* the requests of page.fetch(): sequences of what is read *)
  Fewer,        (* fallback.fewerTopics(), {} for a page without           *)
  Versioned,    (* the topics only a known, new enough version streams     *)
  Limits,       (* a step of a read: which clients have an alloc limit     *)
  LimitTopic,   (* a limit is part of a change of this topic               *)
  CountTopic,   (* what is counted only when some client has a limit       *)
  NoTopic,      (* the topic of the first index of a cluster               *)
  MaxIndex, MaxAsked, MaxTick, MaxFlight, MaxFaults   (* bounds            *)

ASSUME PagesAssumption ==
  /\ NoTopic \notin Topics /\ Limits \notin Topics
  /\ CountTopic \in Topics
  /\ PageTopics \in [Pages -> SUBSET Topics]
  /\ Fewer \in [Pages -> SUBSET Topics]
  /\ Requests \in [Pages -> SUBSET Seq(Topics \cup {Limits})]
  /\ \A p \in Pages : Requests[p] # {} /\ Fewer[p] \cap Versioned = {}

ASSUME BoundsAssumption ==
  /\ MaxIndex \in Nat \ {0} /\ MaxAsked \in Nat \ {0} /\ MaxTick \in Nat
  /\ MaxFlight \in Nat /\ MaxFaults \in Nat

VARIABLES
  log,        (* the changes of the cluster, oldest first                  *)
  version,    (* the version of the agent: "asked" for, "new" enough, "old"*)
  page,       (* the page on top                                           *)
  asked,      (* Model.asked                                               *)
  polling, pollTick, timers, slow,
  settles,    (* how many settle timers are pending                        *)
  watch,      (* Model.watch                                               *)
  opens,      (* the stream requests that are out                          *)
  flight,     (* the reads that are out, by slot                           *)
  shown,      (* the index the page shows each topic at                    *)
  spoiled,    (* a read of this screen failed                              *)
  faults      (* how many faults the environment made                      *)

vars == <<log, version, page, asked, polling, pollTick, timers, slow, settles,
          watch, opens, flight, shown, spoiled, faults>>

cluster == <<log, version>>
polls   == <<polling, pollTick, timers, slow>>

Index == 1 .. MaxIndex

(* nomad.EveryIndex: above every index a cluster has.                      *)
EveryIndex == MaxIndex + 1

(* The zero of a Go map and of a nil stream.                               *)
Unread == 0
NoStream == [topics |-> {}, next |-> 0]
Idle == [asked |-> 0, todo |-> <<>>, read |-> [t \in Topics |-> Unread], out |-> FALSE]

Slots == 1 .. MaxFlight

(* The table index of a topic, what X-Nomad-Index says of a list.          *)
TableIndex(t) == Max({1} \cup {i \in DOMAIN log : log[i].topic = t})

(* Whether a client has a limit, as the newest change of a client left it. *)
Limited == log[TableIndex(LimitTopic)].limited

Event == [topic : Topics \cup {NoTopic}, limited : BOOLEAN]

WatchState ==
  [stream : [topics : SUBSET Topics, next : 0 .. EveryIndex],
   id : Nat, settling : BOOLEAN, fewer : BOOLEAN, due : BOOLEAN, heard : BOOLEAN,
   read : [Topics -> 0 .. EveryIndex], newest : [Topics -> 0 .. MaxIndex]]

StreamRequest == [id : Nat, topics : (SUBSET Topics) \ {{}}, from : 0 .. EveryIndex]

Read == [asked : 0 .. MaxAsked, out : BOOLEAN, todo : Seq(Topics \cup {Limits}),
         read : [Topics -> 0 .. EveryIndex]]

TypeOK ==
  /\ log \in Seq(Event) /\ Len(log) \in Index
  /\ version \in {"asked", "new", "old"}
  /\ page \in Pages
  /\ asked \in 1 .. MaxAsked
  /\ polling \in BOOLEAN /\ slow \in BOOLEAN
  /\ pollTick \in 0 .. MaxTick
  /\ timers \in [0 .. MaxTick -> Nat]
  /\ settles \in Nat
  /\ watch \in WatchState
  /\ opens \subseteq StreamRequest
  /\ flight \in [Slots -> Read]
  /\ shown \in [Topics -> 0 .. EveryIndex]
  /\ spoiled \in BOOLEAN
  /\ faults \in 0 .. MaxFaults

-----------------------------------------------------------------------------
(* The watch: operators from a watchState to the next one.                 *)

Live(w) == w.stream.topics # {}

(* keep notes the newest change of a topic.                                *)
Keep(w, t, i) == [w EXCEPT !.newest[t] = Max({@, i})]

(* await keeps a change the screen has yet to read; the caller adds the    *)
(* settle timer when the watch was not settling.                           *)
Await(w, t, i) == [Keep(w, t, i) EXCEPT !.settling = TRUE]

(* What the screen waits for when an answer puts topic t back: the index   *)
(* it showed, or the newest change kept while it showed nothing of t.      *)
Was(w, t) == IF w.read[t] = EveryIndex THEN w.newest[t] ELSE w.read[t]

(* A mutated KeepRead: an older answer that puts the page back is no news. *)
KeepReadOfAnyAge(w, read) ==
  [w EXCEPT !.read = [t \in Topics |-> IF read[t] # Unread THEN read[t] ELSE @[t]]]

(* keepRead: the newest answer replaces the old indexes.                   *)
KeepRead(w, read) ==
  LET noted == {t \in Topics : read[t] # Unread}
      back  == {t \in noted : read[t] < Was(w, t)}
  IN  [w EXCEPT !.read = [t \in Topics |-> IF t \in noted THEN read[t] ELSE @[t]],
                !.newest = [t \in Topics |-> IF t \in back
                                             THEN Max({@[t], Was(w, t)})
                                             ELSE @[t]],
                !.settling = @ \/ back # {}]

(* A mutated Stale: every burst reads again.                               *)
StaleWhateverItRead(w) == \E t \in Topics : w.newest[t] # 0

(* stale: a change of the burst is newer than what the screen read, or is  *)
(* of a topic it read at no index.                                         *)
Stale(w) == \E t \in Topics : w.newest[t] # 0 /\ (w.read[t] = Unread \/ w.newest[t] > w.read[t])

(* end closes the stream; stop is part of it.                              *)
End(w) == [w EXCEPT !.stream = NoStream, !.id = @ + 1, !.fewer = FALSE]

(* entered is the state of a screen just opened.                           *)
Entered(w) ==
  [End(w) EXCEPT !.read = [t \in Topics |-> Unread],
                 !.newest = [t \in Topics |-> 0],
                 !.settling = FALSE, !.due = TRUE]

(* from is where the stream of the topics starts.                          *)
From(w, topics) ==
  LET lowest == Min({w.read[t] : t \in topics})
  IN  IF lowest \in {Unread, EveryIndex} THEN 0 ELSE lowest + 1

(* nomad.Streams.                                                          *)
Streams(v, topics) == v = "new" \/ topics \cap Versioned = {}

(* watchScreen: the request for a stream, none for a page that watches     *)
(* nothing or a cluster that does not stream what it shows.                *)
WatchScreen(w, v) ==
  LET topics == IF w.fewer /\ Fewer[page] # {} THEN Fewer[page] ELSE PageTopics[page]
  IN  IF topics = {} \/ ~Streams(v, topics) THEN {}
      ELSE {[id |-> w.id, topics |-> topics, from |-> From(w, topics)]}

-----------------------------------------------------------------------------
(* The polls and the reads.                                                *)

(* A mutated SchedulePoll: one timer more with every answer.               *)
SchedulePollAgain(live) ==
  /\ polling' = TRUE
  /\ timers' = [timers EXCEPT ![pollTick] = @ + 1]
  /\ slow' = live
  /\ UNCHANGED pollTick

(* schedulePoll sets a timer unless one is set, at the pace of pollEvery.  *)
SchedulePoll(live) ==
  /\ polling' = TRUE
  /\ timers' = IF polling THEN timers ELSE [timers EXCEPT ![pollTick] = @ + 1]
  /\ slow' = IF polling THEN slow ELSE live
  /\ UNCHANGED pollTick

(* A mutated RestartAndSchedulePoll: nothing is scheduled.                 *)
RestartPoll(live) ==
  /\ pollTick < MaxTick
  /\ pollTick' = pollTick + 1
  /\ polling' = FALSE
  /\ UNCHANGED <<timers, slow>>

(* restartPoll().schedulePoll(): the timer that runs no longer counts.     *)
RestartAndSchedulePoll(live) ==
  /\ pollTick < MaxTick
  /\ pollTick' = pollTick + 1
  /\ polling' = TRUE
  /\ timers' = [timers EXCEPT ![pollTick + 1] = @ + 1]
  /\ slow' = live

(* fetch: every request of the page goes out, each in a slot of its own,   *)
(* the first ones that are free.                                           *)
Places(p, free) ==
  {out \in Injection(Requests[p], free) :
     \A s \in free, q \in Requests[p] : s < out[q] => s \in Range(out)}

Sent(reads, out, a) ==
  [s \in Slots |-> IF s \in Range(out)
                  THEN [Idle EXCEPT !.asked = a, !.out = TRUE, !.todo = AntiFunction(out)[s]]
                  ELSE reads[s]]

Fetch(p, a) ==
  \E out \in Places(p, {s \in Slots : ~flight[s].out}) : flight' = Sent(flight, out, a)

-----------------------------------------------------------------------------
Init ==
  /\ \E limited \in BOOLEAN : log = <<[topic |-> NoTopic, limited |-> limited]>>
  /\ version = "asked"
  /\ page \in Pages
  /\ asked = 1
  /\ polling = FALSE /\ pollTick = 0 /\ slow = FALSE
  /\ timers = [k \in 0 .. MaxTick |-> 0]
  /\ settles = 0
  /\ watch = [stream |-> NoStream, id |-> 0, settling |-> FALSE, fewer |-> FALSE, due |-> TRUE, heard |-> FALSE,
              read |-> [t \in Topics |-> Unread], newest |-> [t \in Topics |-> 0]]
  /\ opens = {}
  /\ \E out \in Places(page, Slots) : flight = Sent([s \in Slots |-> Idle], out, 1)
  /\ shown = [t \in Topics |-> Unread]
  /\ spoiled = FALSE
  /\ faults = 0

(* The cluster: something changes.  Only a change of a client gives a      *)
(* client a limit or takes it away.                                        *)
Change(t, limited) ==
  /\ Len(log) < MaxIndex
  /\ t # LimitTopic => ~limited
  /\ log' = Append(log, [topic |-> t, limited |-> limited])
  /\ UNCHANGED <<version, page, asked, polls, settles, watch, opens, flight,
                 shown, spoiled, faults>>

(* agentMsg: the version arrives, and the stream of a screen that answered *)
(* without one opens.                                                      *)
AgentAnswers(v) ==
  /\ version = "asked"
  /\ version' = v
  /\ opens' = IF watch.due \/ Live(watch) \/ Streams("asked", PageTopics[page])
              THEN opens ELSE opens \cup WatchScreen(watch, v)
  /\ UNCHANGED <<log, page, asked, polls, settles, watch, flight, shown, spoiled, faults>>

(* enter: the person opens a screen, goes back to one, or moves the        *)
(* session.  What was asked before no longer matches.                      *)
Enter(p) ==
  /\ asked < MaxAsked /\ pollTick < MaxTick
  /\ page' = p
  /\ asked' = asked + 1
  /\ watch' = Entered(watch)
  /\ pollTick' = pollTick + 1
  /\ polling' = FALSE
  /\ Fetch(p, asked + 1)
  /\ shown' = [t \in Topics |-> Unread]
  /\ spoiled' = FALSE
  /\ UNCHANGED <<cluster, timers, slow, settles, opens, faults>>

(* A request reads the next thing it is about.  Without a limited client   *)
(* the read of the counts is skipped: withoutLimits notes EveryIndex.      *)
ReadOn(r) ==
  LET step == Head(r.todo)
  IN  CASE step \in Topics -> [r EXCEPT !.todo = Tail(@), !.read[step] = TableIndex(step)]
        [] step = Limits /\ ~Limited -> [r EXCEPT !.todo = <<>>, !.read[CountTopic] = EveryIndex]
        [] OTHER -> [r EXCEPT !.todo = Tail(@)]

ReadNext(s) ==
  /\ flight[s].out /\ flight[s].todo # <<>>
  /\ flight' = [flight EXCEPT ![s] = ReadOn(@)]
  /\ UNCHANGED <<cluster, page, asked, polls, settles, watch, opens, shown, spoiled, faults>>

(* A mutated TakeAnswer: an error sets no poll.                            *)
TakeAnswerOrStop(s, read, fails) ==
  LET now == [KeepRead(watch, read) EXCEPT !.due = FALSE]
  IN  /\ flight[s].asked = asked
      /\ watch' = now
      /\ settles' = IF now.settling /\ ~watch.settling THEN settles + 1 ELSE settles
      /\ opens' = IF watch.due THEN opens \cup WatchScreen(now, version) ELSE opens
      /\ IF fails THEN UNCHANGED polls ELSE SchedulePoll(Live(watch))
      /\ shown' = [t \in Topics |-> IF read[t] # Unread THEN read[t] ELSE shown[t]]
      /\ spoiled' = (spoiled \/ fails)

(* takeAnswer of an answer to the read of the screen: its indexes are kept,*)
(* the first one opens the stream, the page shows it and the next poll is  *)
(* set.  A failed read carries no index and leaves the rows; takeError     *)
(* sets the poll too.                                                      *)
TakeAnswer(s, read, fails) ==
  LET kept == KeepRead(watch, read)
      now  == [kept EXCEPT !.due = FALSE]
  IN  /\ flight[s].asked = asked
      /\ watch' = now
      /\ settles' = IF now.settling /\ ~watch.settling THEN settles + 1 ELSE settles
      /\ opens' = IF watch.due THEN opens \cup WatchScreen(now, version) ELSE opens
      /\ SchedulePoll(Live(watch))
      /\ shown' = [t \in Topics |-> IF read[t] # Unread THEN read[t] ELSE shown[t]]
      /\ spoiled' = (spoiled \/ fails)

(* An answer to an ask that is over is dropped.                            *)
DropAnswer(s) ==
  /\ flight[s].asked # asked
  /\ UNCHANGED <<polls, settles, watch, opens, shown, spoiled>>

Answer(s) ==
  /\ flight[s].out /\ flight[s].todo = <<>>
  /\ flight' = [flight EXCEPT ![s] = Idle]
  /\ TakeAnswer(s, flight[s].read, FALSE) \/ DropAnswer(s)
  /\ UNCHANGED <<cluster, page, asked, faults>>

FailedAnswer(s) ==
  /\ flight[s].out /\ faults < MaxFaults
  /\ faults' = faults + 1
  /\ flight' = [flight EXCEPT ![s] = Idle]
  /\ TakeAnswer(s, Idle.read, TRUE) \/ DropAnswer(s)
  /\ UNCHANGED <<cluster, page, asked>>

(* poll: a timer fires.  One set before a restart asks for nothing.        *)
PollFires(tick) ==
  /\ timers[tick] > 0
  /\ timers' = [timers EXCEPT ![tick] = @ - 1]
  /\ IF tick = pollTick
     THEN polling' = FALSE /\ Fetch(page, asked)
     ELSE UNCHANGED <<polling, flight>>
  /\ UNCHANGED <<cluster, page, asked, pollTick, slow, settles, watch, opens,
                 shown, spoiled, faults>>

(* settled: the burst is over, and the screen reads again unless it read   *)
(* all of it meanwhile.  The timer may be one a screen before this set.    *)
SettleFires ==
  /\ settles > 0
  /\ settles' = settles - 1
  /\ watch' = [watch EXCEPT !.settling = FALSE, !.newest = [t \in Topics |-> 0]]
  /\ IF Stale(watch) THEN Fetch(page, asked) ELSE UNCHANGED flight
  /\ UNCHANGED <<cluster, page, asked, polls, opens, shown, spoiled, faults>>

(* A mutated StreamOpens: the timer that runs keeps its pace.              *)
StreamOpensAtThatPace(o) ==
  /\ o \in opens
  /\ opens' = opens \ {o}
  /\ watch' = IF o.id # watch.id THEN watch
              ELSE [watch EXCEPT !.heard = FALSE,
                                 !.stream = [topics |-> o.topics,
                                             next |-> Min({o.from, Len(log)})]]
  /\ UNCHANGED <<cluster, page, asked, polls, settles, flight, shown, spoiled, faults>>

(* startWatch: the cluster opened a stream.  One opened for a screen that  *)
(* was left is closed.  Asked for an index past its newest event, the      *)
(* cluster starts at that event again.                                     *)
StreamOpens(o) ==
  /\ o \in opens
  /\ opens' = opens \ {o}
  /\ IF o.id # watch.id
     THEN UNCHANGED <<watch, polls>>
     ELSE /\ watch' = [watch EXCEPT !.stream = [topics |-> o.topics,
                                                next |-> Min({o.from, Len(log)})],
                                    !.heard = FALSE]
          /\ IF Live(watch) \/ ~polling THEN UNCHANGED polls
             ELSE RestartAndSchedulePoll(TRUE)
  /\ UNCHANGED <<cluster, page, asked, settles, flight, shown, spoiled, faults>>

(* The next event of the topics of the stream.                             *)
Waiting == {i \in DOMAIN log : i >= watch.stream.next /\ log[i].topic \in watch.stream.topics}

(* keepChange: a change the screen read already only waits for the next    *)
(* one; one of a topic it shows nothing of is kept.                        *)
StreamSends ==
  /\ Waiting # {}
  /\ LET i == Min(Waiting)
         t == log[i].topic
         w == [watch EXCEPT !.heard = TRUE, !.stream.next = i + 1]
     IN  watch' = CASE w.read[t] = EveryIndex -> Keep(w, t, i)
                    [] w.read[t] # Unread /\ i <= w.read[t] -> w
                    [] OTHER -> Await(w, t, i)
  /\ settles' = IF watch'.settling /\ ~watch.settling THEN settles + 1 ELSE settles
  /\ UNCHANGED <<cluster, page, asked, polls, opens, flight, shown, spoiled, faults>>

(* watchEnded: the stream stopped, or the cluster did not open it.  A page *)
(* that can follow fewer topics does when all of them were refused: no     *)
(* stream was up, or it ended within refusedWithin and sent nothing.  out  *)
(* are the requests still out.  The warning (noteWatchEnded) is left out.  *)
WatchEnded(out, atOnce) ==
  LET refusedAll == /\ Fewer[page] # {} /\ ~watch.fewer
                    /\ ~Live(watch) \/ (atOnce /\ ~watch.heard)
  IN  IF refusedAll
      THEN /\ watch' = [End(watch) EXCEPT !.fewer = TRUE]
           /\ opens' = out \cup WatchScreen(watch', version)
           /\ UNCHANGED polls
      ELSE /\ watch' = End(watch)
           /\ opens' = out
           /\ RestartAndSchedulePoll(FALSE)

StreamEnds(atOnce) ==
  /\ Live(watch) /\ faults < MaxFaults
  /\ faults' = faults + 1
  /\ WatchEnded(opens, atOnce)
  /\ UNCHANGED <<cluster, page, asked, settles, flight, shown, spoiled>>

StreamRefused(o) ==
  /\ o \in opens /\ faults < MaxFaults
  /\ faults' = faults + 1
  /\ IF o.id = watch.id THEN WatchEnded(opens \ {o}, FALSE)
     ELSE opens' = opens \ {o} /\ UNCHANGED <<watch, polls>>
  /\ UNCHANGED <<cluster, page, asked, settles, flight, shown, spoiled>>

(* done: something the person did on the screen ended, and it reads again. *)
Done ==
  /\ Fetch(page, asked)
  /\ UNCHANGED <<cluster, page, asked, polls, settles, watch, opens, shown, spoiled, faults>>

Next ==
  \/ \E t \in Topics, limited \in BOOLEAN : Change(t, limited)
  \/ \E v \in {"new", "old"} : AgentAnswers(v)
  \/ \E p \in Pages : Enter(p)
  \/ \E s \in Slots : ReadNext(s) \/ Answer(s) \/ FailedAnswer(s)
  \/ \E tick \in 0 .. MaxTick : PollFires(tick)
  \/ SettleFires
  \/ \E o \in opens : StreamOpens(o) \/ StreamRefused(o)
  \/ StreamSends
  \/ \E atOnce \in BOOLEAN : StreamEnds(atOnce)
  \/ Done

(* A request ends within defaultTimeout, a timer fires, the program takes  *)
(* its messages.  Nothing is assumed of the person or of the faults.       *)
Fairness ==
  /\ \A s \in Slots : WF_vars(ReadNext(s)) /\ WF_vars(Answer(s))
  /\ WF_vars(PollFires(pollTick))
  /\ WF_vars(SettleFires)

Spec == Init /\ [][Next]_vars /\ Fairness

-----------------------------------------------------------------------------
(* A read of the open screen that is out.                                  *)
Reading(s) == flight[s].out /\ flight[s].asked = asked

(* A current read that has yet to read t, or read it at i or later.        *)
WillShow(t, i) ==
  \E s \in Slots : /\ Reading(s)
                   /\ \/ \E k \in DOMAIN flight[s].todo : flight[s].todo[k] = t
                      \/ flight[s].read[t] >= i

(* An event still to come that the screen takes as news.                   *)
NewsToCome == \E j \in Waiting : watch.read[log[j].topic] < j

(* A page is never left behind a change its live stream has to tell it of: *)
(* a read that is out shows the change, the burst that waits reads again,  *)
(* or an event is to come that makes it read.  So it is whatever order     *)
(* answers, events and timers come in (keepRead, keepChange, settled,      *)
(* from, withoutLimits).  A screen with a failed read waits for its poll.  *)
NoLostChange ==
  ~spoiled =>
    \A i \in 2 .. Len(log) :
      LET t == log[i].topic
      IN  t \in watch.stream.topics /\ shown[t] < i =>
            WillShow(t, i) \/ (watch.settling /\ Stale(watch)) \/ NewsToCome

(* A screen never falls silent: its poll timer runs, or a read is out whose*)
(* answer sets it (schedulePoll, restartPoll, poll, enter).                *)
NeverSilent == (polling /\ timers[pollTick] > 0) \/ \E s \in Slots : Reading(s)

(* A screen has one poll timer that counts, never two that would double    *)
(* its requests.                                                           *)
OnePollTimer == timers[pollTick] = IF polling THEN 1 ELSE 0

(* A timer of a number to come was never set.                              *)
NoLaterTimer == \A k \in 0 .. MaxTick : k > pollTick => timers[k] = 0

(* A screen polls slowly only while a stream reports its changes, or while *)
(* the stream of the fewer topics is being opened; and fast only while     *)
(* none does (startWatch, watchEnded, pollEvery).                          *)
PollPace == polling => slow = Live(watch) \/ (slow /\ \E o \in opens : o.id = watch.id)

(* A burst that waits has its timer, and what the next read must bring is  *)
(* never kept without one: no change is stuck in newest.                   *)
BurstHasTimer ==
  /\ watch.settling => settles > 0
  /\ Stale(watch) => watch.settling

(* A screen asks for one stream at a time: none is asked for while one is  *)
(* open (watchOnAnswer, watchOnVersion, watchEnded).                       *)
OneStream ==
  LET mine == {o \in opens : o.id = watch.id}
  IN  Cardinality(mine) <= IF Live(watch) THEN 0 ELSE 1

(* What a screen is told and what it asks for keep step: the changes of a  *)
(* burst are never stuck, the streams and the pace of the poll agree.      *)
(* (keepChange, settled, startWatch, watchEnded)                           *)
WatchKeepsStep == TypeOK /\ BurstHasTimer /\ OneStream /\ PollPace

(* A settled burst asks the cluster only when the page is behind it: an    *)
(* answer that came meanwhile saves the request (stale).                   *)
SettleReadsOnlyNews ==
  [][settles' = settles - 1 /\ flight' # flight =>
       \E t \in Topics : shown[t] < TableIndex(t)]_vars

(* The page comes to show every change of what it watches, even when the   *)
(* stream fails or is refused: the poll heals it.                          *)
CatchesUp == <>[](\A t \in PageTopics[page] : shown[t] >= TableIndex(t))
=============================================================================
