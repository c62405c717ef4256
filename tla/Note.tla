--------------------------------- MODULE Note ---------------------------------
(***************************************************************************)
(* The status line (internal/ui/note.go, flash.go): one message at a time, *)
(* which a timer of its own takes off, and the note, a stream of its own   *)
(* that says what failed anywhere in the cluster, kept up over dropped     *)
(* streams and moves to another connection.                                *)
(*                                                                         *)
(* The cluster is a log of events in the order of their indexes: an event  *)
(* is of an object, in a failed state or not, and says that it came to     *)
(* that state or sends it again.                                           *)
(***************************************************************************)
EXTENDS Integers, SequencesExt, FiniteSetsExt

CONSTANTS
  Objects,    (* the allocations, deployments and clients                  *)
  NoteKept,   (* noteKept                                                  *)
  Happenings, (* bound: the logs there can be, sequences of events         *)
  MaxNotes, MaxNoteFaults, MaxMessages   (* bounds                         *)

ASSUME NoteAssumption ==
  /\ NoteKept \in Nat \ {0}
  /\ Happenings \subseteq Seq([of : Objects, index : Nat \ {0}, failed : BOOLEAN, reports : BOOLEAN])
  /\ \A log \in Happenings : \A i, j \in DOMAIN log : i < j => log[i].index <= log[j].index
  /\ {MaxNotes, MaxNoteFaults, MaxMessages} \subseteq Nat

VARIABLES
  happened,    (* how far the cluster is, in which log                     *)
  note,        (* noteState; taken is a ghost, the events it took          *)
  noteOut,     (* the commands and messages of the note                    *)
  feeds,       (* the streams of failures that were opened                 *)
  noteFaults,  (* how many faults the environment made                     *)
  flash,       (* flash, with the time it was set at                       *)
  timers,      (* the messages whose time is running                       *)
  screens,     (* how many screens were entered                            *)
  said         (* how many messages there were                             *)

noteVars == <<happened, note, noteOut, feeds, noteFaults, flash, timers, screens, said>>
clusterVars == <<happened, feeds, noteFaults>>
lineVars == <<flash, timers, screens, said>>

NoFeed == 0
Silent == [level |-> "none", at |-> 0, held |-> FALSE, ofAction |-> FALSE, ofNote |-> FALSE]
NewNote(id) == [id |-> id, feed |-> NoFeed, failing |-> {}, heard |-> FALSE, from |-> 0, taken |-> <<>>]

Events == SubSeq(happened.log, 1, happened.upto)
NewestIndex == Max({0} \cup {Events[i].index : i \in DOMAIN Events})

NoteInit ==
  /\ happened \in [log : Happenings, upto : {0}]
  /\ note = NewNote(0)
  /\ noteOut = {[kind |-> "open", id |-> 0, from |-> 0]}
  /\ feeds = <<>> /\ noteFaults = 0
  /\ flash = Silent /\ timers = {} /\ screens = 0 /\ said = 0

-----------------------------------------------------------------------------
(* The status line.                                                        *)

(* flashed, and Update: a message that was just shown gets its timer.      *)
Shows(level, held, ofAction, ofNote) ==
  /\ said < MaxMessages /\ said' = said + 1
  /\ flash' = [level |-> level, at |-> said', held |-> held, ofAction |-> ofAction, ofNote |-> ofNote]
  /\ timers' = timers \cup {said'}

(* say, busy, warn and fail, of what an action or a read came to.          *)
MessageShown ==
  /\ \/ \E held \in BOOLEAN : Shows("info", held, FALSE, FALSE)
     \/ Shows("warn", FALSE, FALSE, FALSE)
     \/ \E ofAction \in BOOLEAN : Shows("err", FALSE, ofAction, FALSE)
  /\ UNCHANGED <<clusterVars, note, noteOut, screens>>

(* quiet, and forget: an error of a read is out of date.                   *)
Forgotten == IF flash.level = "err" /\ ~flash.ofAction THEN Silent ELSE flash
ReadAnswered ==
  /\ flash' = Forgotten /\ flash' # flash
  /\ UNCHANGED <<clusterVars, note, noteOut, timers, screens, said>>

(* stack and back, with enter: what goes on goes on elsewhere.             *)
ScreenEntered ==
  /\ screens < MaxMessages /\ screens' = screens + 1
  /\ flash' = IF flash.held THEN Silent ELSE Forgotten
  /\ UNCHANGED <<clusterVars, note, noteOut, timers, said>>

(* A mutated Cleared: any timer clears the line.                           *)
ClearedByAny(at) == IF flash.held THEN flash ELSE Silent

(* clearFlash.                                                             *)
Cleared(at) == IF flash.held \/ flash.at > at THEN flash ELSE Silent

TimeIsUp(at) ==
  /\ at \in timers /\ timers' = timers \ {at}
  /\ flash' = Cleared(at)
  /\ UNCHANGED <<clusterVars, note, noteOut, screens, said>>

(* noteFailure: not over a message that matters more and is still fresh.   *)
Outranks == flash.level = "err" \/ flash.held \/ (flash.level = "warn" /\ ~flash.ofNote)
SaysFailure ==
  \/ Shows("warn", FALSE, FALSE, TRUE)
  \/ Outranks /\ UNCHANGED <<flash, timers, said>>

-----------------------------------------------------------------------------
(* The cluster, and the requests to it.                                    *)
Happens ==
  /\ happened.upto < Len(happened.log)
  /\ happened' = [happened EXCEPT !.upto =
       Max({i \in DOMAIN happened.log : happened.log[i].index = happened.log[@ + 1].index})]
  /\ UNCHANGED <<note, noteOut, feeds, noteFaults, lineVars>>

Swap(m, n) == noteOut' = (noteOut \ {m}) \cup n

(* open, the first time: at the event after the newest one.                *)
AsksIndex(m) ==
  /\ m.kind = "open" /\ m.from = 0
  /\ Swap(m, {[m EXCEPT !.from = NewestIndex + 1]})
  /\ UNCHANGED <<clusterVars, note, lineVars>>

OpensFeed(m) ==
  /\ m.kind = "open" /\ m.from > 0
  /\ feeds' = Append(feeds, [at |-> Cardinality({i \in DOMAIN Events : Events[i].index < m.from}), is |-> "open"])
  /\ Swap(m, {[kind |-> "opened", id |-> m.id, from |-> m.from, feed |-> Len(feeds'), err |-> "none"]})
  /\ UNCHANGED <<happened, note, noteFaults, lineVars>>

(* Either request fails: with no answer, or refused.                       *)
OpenFails(m) ==
  /\ m.kind = "open" /\ noteFaults < MaxNoteFaults /\ noteFaults' = noteFaults + 1
  /\ \E err \in {"unanswered", "refused"} :
       Swap(m, {[kind |-> "opened", id |-> m.id, from |-> 0, feed |-> NoFeed, err |-> err]})
  /\ UNCHANGED <<happened, note, feeds, lineVars>>

(* The stream ends by itself.                                              *)
FeedDrops(f) ==
  /\ feeds[f].is = "open" /\ noteFaults < MaxNoteFaults /\ noteFaults' = noteFaults + 1
  /\ feeds' = [feeds EXCEPT ![f].is = "ended"]
  /\ UNCHANGED <<happened, note, noteOut, lineVars>>

(* nextEvent: what waits on the stream, or its end; a closed one ends too. *)
FeedSends(m) ==
  /\ m.kind = "wait" /\ feeds[m.feed].is = "open"
  /\ \E upto \in feeds[m.feed].at + 1 .. Len(Events) :
       /\ feeds' = [feeds EXCEPT ![m.feed].at = upto]
       /\ Swap(m, {[kind |-> "events", feed |-> m.feed, after |-> feeds[m.feed].at, upto |-> upto]})
  /\ UNCHANGED <<happened, note, noteFaults, lineVars>>
FeedEnds(m) ==
  /\ m.kind = "wait" /\ feeds[m.feed].is # "open"
  /\ Swap(m, {[kind |-> "ended", feed |-> m.feed]})
  /\ UNCHANGED <<clusterVars, note, lineVars>>

-----------------------------------------------------------------------------
(* The messages of the note.                                               *)
Closed(f) == [feeds EXCEPT ![f].is = "closed"]
Stopped == IF note.feed = NoFeed THEN feeds ELSE Closed(note.feed)
Again == [kind |-> "again", id |-> note.id]

(* takeNoteOpened.                                                         *)
TakeOpened(m) ==
  /\ m.kind = "opened"
  /\ CASE m.err # "none" ->
            /\ Swap(m, IF m.err = "unanswered" /\ m.id = note.id THEN {Again} ELSE {})
            /\ UNCHANGED <<note, feeds>>
       [] m.err = "none" /\ m.id # note.id ->
            Swap(m, {}) /\ feeds' = Closed(m.feed) /\ UNCHANGED note
       [] OTHER ->
            /\ note' = [note EXCEPT !.feed = m.feed, !.heard = FALSE, !.from = m.from]
            /\ Swap(m, {[kind |-> "wait", feed |-> m.feed]}) /\ UNCHANGED feeds
  /\ UNCHANGED <<happened, noteFaults, lineVars>>

(* take, of one event, and what it says to show.                           *)
Known(failing, e) ==
  IF ~e.failed THEN failing \ {e.of}
  ELSE (IF Cardinality(failing) >= NoteKept THEN {} ELSE failing) \cup {e.of}
IsNews(failing, e) == e.failed /\ e.reports /\ e.of \notin failing

(* A mutated NextFrom: the next stream starts at the newest event read.    *)
NextFromIt(from, e) == Max({from, e.index})
NextFrom(from, e) == Max({from, e.index + 1})

(* takeNoteEvents: the events in turn, and the newest failure is shown.    *)
TakeEvents(m) ==
  LET places == [n \in 1 .. m.upto - m.after |-> m.after + n]
      known[n \in 0 .. Len(places)] ==
        IF n = 0 THEN note.failing ELSE Known(known[n - 1], Events[places[n]])
      news == {n \in DOMAIN places : IsNews(known[n - 1], Events[places[n]])}
      from == Max({NextFrom(note.from, Events[places[n]]) : n \in DOMAIN places})
  IN  /\ m.kind = "events" /\ m.feed = note.feed
      /\ note' = [note EXCEPT !.heard = TRUE, !.failing = known[Len(places)], !.from = from,
                              !.taken = @ \o places]
      /\ IF news = {} THEN UNCHANGED <<flash, timers, said>> ELSE SaysFailure
      /\ Swap(m, {[kind |-> "wait", feed |-> m.feed]})
      /\ UNCHANGED <<clusterVars, screens>>

(* takeNoteEnded: a stream that ended at once was refused.                 *)
TakeEnded(m) ==
  /\ m.kind = "ended" /\ m.feed = note.feed
  /\ note' = [note EXCEPT !.feed = NoFeed] /\ feeds' = Stopped
  /\ \E soon \in BOOLEAN : Swap(m, IF ~note.heard /\ soon THEN {} ELSE {Again})
  /\ UNCHANGED <<happened, noteFaults, lineVars>>

(* A mutated TakeAgain: whatever connection it was of.                     *)
TakeAgainAnyway(m) ==
  /\ m.kind = "again"
  /\ Swap(m, {[kind |-> "open", id |-> note.id, from |-> note.from]})
  /\ UNCHANGED <<clusterVars, note, lineVars>>

(* takeNoteAgain.                                                          *)
TakeAgain(m) ==
  /\ m.kind = "again"
  /\ Swap(m, IF m.id = note.id THEN {[kind |-> "open", id |-> note.id, from |-> note.from]} ELSE {})
  /\ UNCHANGED <<clusterVars, note, lineVars>>

(* Update: what is of a stream the note does not read is dropped.          *)
TakeStale(m) ==
  /\ m.kind \in {"events", "ended"} /\ m.feed # note.feed
  /\ Swap(m, {})
  /\ UNCHANGED <<clusterVars, note, lineVars>>

(* restart and open: another region, or another cluster.                   *)
Restart ==
  /\ note.id < MaxNotes
  /\ note' = NewNote(note.id + 1) /\ feeds' = Stopped
  /\ noteOut' = noteOut \cup {[kind |-> "open", id |-> note.id + 1, from |-> 0]}
  /\ UNCHANGED <<happened, noteFaults, lineVars>>

NoteNext ==
  \/ MessageShown \/ ReadAnswered \/ ScreenEntered \/ \E at \in timers : TimeIsUp(at)
  \/ Happens \/ Restart \/ \E f \in DOMAIN feeds : FeedDrops(f)
  \/ \E m \in noteOut :
       \/ AsksIndex(m) \/ OpensFeed(m) \/ OpenFails(m) \/ FeedSends(m) \/ FeedEnds(m)
       \/ TakeOpened(m) \/ TakeEvents(m) \/ TakeEnded(m) \/ TakeAgain(m) \/ TakeStale(m)

-----------------------------------------------------------------------------
(* What goes on for the connection in use.                                 *)
NoteFollowing ==
  {m \in noteOut : IF m.kind \in {"open", "opened", "again"} THEN m.id = note.id
                   ELSE m.feed = note.feed}

(* One thing goes on to follow the failures of a connection, and it goes   *)
(* on over drops and restarts of the cluster, until the cluster refuses    *)
(* it (takeNoteOpened, takeNoteEnded, takeNoteAgain).                      *)
FollowsOn ==
  [][\/ Cardinality(NoteFollowing') = 1
     \/ /\ NoteFollowing' = {}
        /\ \/ NoteFollowing = {}
           \/ \E m \in NoteFollowing : m.kind = "opened" /\ m.err = "refused"
           \/ \E m \in NoteFollowing : m.kind = "ended" /\ ~note.heard]_noteVars

(* The note takes the events in their order and each once, over however    *)
(* many streams, and where the next stream starts it has taken every index *)
(* since the first it took (open, takeNoteEvents).                         *)
EachEventOnce ==
  /\ \A i, j \in DOMAIN note.taken : i < j => note.taken[i] < note.taken[j]
  /\ note.taken # <<>> =>
       {Events[p].index : p \in ToSet(note.taken)} =
         {e \in {Events[p].index : p \in DOMAIN Events} :
            e >= Events[note.taken[1]].index /\ e < note.from}

(* A message goes when its own time is up, however many timers of earlier  *)
(* ones run; before that, only with another screen or as the error of a    *)
(* read that was answered since (clearFlash, forget, enter).               *)
MessageHasItsTime ==
  [][flash # Silent /\ flash' = Silent /\ flash.at \in timers' =>
       screens' # screens \/ (flash.level = "err" /\ ~flash.ofAction)]_noteVars
=============================================================================
