------------------------------ MODULE JobLogs -------------------------------
(***************************************************************************)
(* The logs of a job (internal/ui/joblogs.go): what a task writes in every *)
(* allocation that runs it, each read by a stream of its own, while a      *)
(* deployment replaces the allocations, the page reads them again and the  *)
(* person switches between the two outputs, leaves and comes back.         *)
(*                                                                         *)
(* An allocation is its number, the newest the highest, and the version of *)
(* the job it runs.  A stream is the reading it was opened for, its        *)
(* allocation and its source: a reading opens each allocation once.        *)
(***************************************************************************)
EXTENDS Integers, SequencesExt

CONSTANTS
  JobSources,     (* stdout and stderr                                     *)
  JobLogLimit,    (* jobLogLimit                                           *)
  Unversioned,    (* the scope of a log that is not of one version         *)
  MaxJobAllocs, MaxReadings, MaxJobAsked, MaxJobFaults   (* bounds         *)

ASSUME JobLogsAssumption ==
  /\ JobSources # {} /\ JobLogLimit \in Nat \ {0} /\ Unversioned \notin Nat
  /\ {MaxJobAllocs, MaxReadings, MaxJobAsked, MaxJobFaults} \subseteq Nat

VARIABLES
  jobAllocs,   (* the allocations that run the task                        *)
  jobMade,     (* how many there were                                      *)
  jobPage,     (* the page                                                 *)
  jobOnTop,    (* it is on top                                             *)
  jobAsk,      (* Model.asked                                              *)
  jobOut,      (* its commands and messages                                *)
  jobStreams,  (* the streams that are open                                *)
  jobFaults    (* how many faults the environment made                     *)

jobLogsVars ==
  <<jobAllocs, jobMade, jobPage, jobOnTop, jobAsk, jobOut, jobStreams, jobFaults>>

Alloc(n, version) == [n |-> n, version |-> version]

(* inScope and the allocations of choices: running, of the version where   *)
(* the scope is one, the newest first.                                     *)
InScope(version, alloc) == version = Unversioned \/ alloc.version = version
Chosen(version, allocs) ==
  LET those == {a \in allocs : InScope(version, a)}
      UpTo(a) == {b \in those : b.n >= a.n}
  IN  [i \in 1 .. Cardinality(those) |-> CHOOSE a \in those : Cardinality(UpTo(a)) = i]

(* The page before it is opened: askLogScope read the allocations, and     *)
(* which task is asked where they run several (showLogScope, pickLogTask). *)
NoReading ==
  [version |-> Unversioned, source |-> CHOOSE s \in JobSources : TRUE, first |-> <<>>, opened |-> FALSE,
   all |-> <<>>, read |-> <<>>, reading |-> 0, streams |-> {}, text |-> {}]

JobLogsInit ==
  /\ jobAllocs = {Alloc(1, 1), Alloc(2, 1)} /\ jobMade = 2
  /\ \E version \in {Unversioned, 1} :
       jobPage = [NoReading EXCEPT !.version = version, !.first = Chosen(version, jobAllocs)]
  /\ jobOnTop = FALSE /\ jobAsk = 1 /\ jobOut = {} /\ jobStreams = {} /\ jobFaults = 0

-----------------------------------------------------------------------------
(* A deployment stops an allocation and starts another of a new version.   *)
Replace(a) ==
  /\ a \in jobAllocs /\ jobMade < MaxJobAllocs /\ jobMade' = jobMade + 1
  /\ jobAllocs' = (jobAllocs \ {a}) \cup {Alloc(jobMade + 1, 2)}
  /\ UNCHANGED <<jobPage, jobOnTop, jobAsk, jobOut, jobStreams, jobFaults>>

JobSwap(m, new) == jobOut' = (jobOut \ {m}) \cup new

-----------------------------------------------------------------------------
(* jobLogsState.stop: what the streams still send is dropped.              *)
Stopped(page) == [page EXCEPT !.streams = {}, !.reading = @ + 1]

(* read: a stream for each, the newest first and no more than the limit.   *)
Read(page, allocs) ==
  [Stopped(page) EXCEPT !.all = allocs,
     !.read = SubSeq(allocs, 1, Min({Len(allocs), JobLogLimit}))]
ReadOut(page, asked) ==
  {[kind |-> "log", asked |-> asked, stream |-> [reading |-> page.reading, alloc |-> a, source |-> page.source]]
     : a \in ToSet(page.read)}

(* reload: the allocations are read again.                                 *)
Reloading(page) == [Stopped(page) EXCEPT !.text = {}]
ReloadOut(page, asked) == {[kind |-> "allocs", asked |-> asked, reading |-> page.reading]}

(* The streams of the page are closed where it has others, or none.        *)
JobClosed(page) == jobStreams' = jobStreams \ (jobPage.streams \ page.streams)

-----------------------------------------------------------------------------
(* open: with the allocations the task was picked with, the first time.    *)
EnterJobLogs ==
  LET first == Read([jobPage EXCEPT !.first = <<>>, !.opened = TRUE], jobPage.first)
      again == Reloading(jobPage)
      page == IF jobPage.opened THEN again ELSE first
  IN  /\ ~jobOnTop /\ jobAsk < MaxJobAsked /\ jobPage.reading < MaxReadings
      /\ jobOnTop' = TRUE /\ jobAsk' = jobAsk + 1 /\ jobPage' = page
      /\ jobOut' = jobOut \cup (IF jobPage.opened THEN ReloadOut(page, jobAsk + 1) ELSE ReadOut(page, jobAsk + 1))
      /\ JobClosed(page)
      /\ UNCHANGED <<jobAllocs, jobMade, jobFaults>>

LeaveJobLogs ==
  /\ jobOnTop /\ jobAsk < MaxJobAsked
  /\ jobOnTop' = FALSE /\ jobAsk' = jobAsk + 1 /\ jobPage' = Stopped(jobPage)
  /\ JobClosed(jobPage')
  /\ UNCHANGED <<jobAllocs, jobMade, jobOut, jobFaults>>

(* reloadJobLogs.                                                          *)
ReloadJobLogs ==
  /\ jobOnTop /\ jobPage.reading < MaxReadings
  /\ jobPage' = Reloading(jobPage) /\ jobOut' = jobOut \cup ReloadOut(jobPage', jobAsk)
  /\ JobClosed(jobPage')
  /\ UNCHANGED <<jobAllocs, jobMade, jobOnTop, jobAsk, jobFaults>>

(* switchJobSource: the other output of the same allocations.              *)
SwitchJobSource(source) ==
  LET page == Read([jobPage EXCEPT !.source = source, !.text = {}], jobPage.all)
  IN  /\ jobOnTop /\ source # jobPage.source /\ jobPage.reading < MaxReadings
      /\ jobPage' = page /\ jobOut' = jobOut \cup ReadOut(page, jobAsk)
      /\ JobClosed(page)
      /\ UNCHANGED <<jobAllocs, jobMade, jobOnTop, jobAsk, jobFaults>>

-----------------------------------------------------------------------------
(* The cluster: the allocations, and a stream of one.                      *)
JobAnswer(m) ==
  /\ \/ m.kind = "allocs" /\ JobSwap(m, {[kind |-> "listed", asked |-> m.asked, reading |-> m.reading,
                                          allocs |-> jobAllocs]})
        /\ UNCHANGED jobStreams
     \/ m.kind = "log" /\ JobSwap(m, {[kind |-> "opened", asked |-> m.asked, stream |-> m.stream, failed |-> FALSE]})
        /\ jobStreams' = jobStreams \cup {m.stream}
  /\ UNCHANGED <<jobAllocs, jobMade, jobPage, jobOnTop, jobAsk, jobFaults>>

JobFails(m) ==
  /\ jobFaults < MaxJobFaults /\ jobFaults' = jobFaults + 1
  /\ \/ m.kind = "allocs" /\ JobSwap(m, {})
     \/ m.kind = "log" /\ JobSwap(m, {[kind |-> "opened", asked |-> m.asked, stream |-> m.stream, failed |-> TRUE]})
  /\ UNCHANGED <<jobAllocs, jobMade, jobPage, jobOnTop, jobAsk, jobStreams>>

(* waitForStream: a chunk, or the end once the allocation has stopped.  An *)
(* end with an error says nothing to the page, nor does anything wait then.*)
JobSends(m) ==
  /\ m.kind = "wait"
  /\ \/ m.stream \in jobStreams
        /\ JobSwap(m, {[kind |-> "chunk", asked |-> m.asked, stream |-> m.stream]}) /\ UNCHANGED jobFaults
     \/ (m.stream \notin jobStreams \/ m.stream.alloc \notin jobAllocs)
        /\ JobSwap(m, {[kind |-> "end", asked |-> m.asked, stream |-> m.stream]}) /\ UNCHANGED jobFaults
     \/ jobFaults < MaxJobFaults /\ jobFaults' = jobFaults + 1 /\ JobSwap(m, {})
  /\ UNCHANGED <<jobAllocs, jobMade, jobPage, jobOnTop, jobAsk, jobStreams>>

-----------------------------------------------------------------------------
(* take.  A message for another request of the session is dropped, and the *)
(* stream it holds is closed, as is one the page does not take (letGo).    *)
Line(stream, says) == [alloc |-> stream.alloc, source |-> stream.source, says |-> says]

(* reloaded: of the tasks there are now, this one, or none.                *)
TakeListed(m) ==
  LET page == Read(jobPage, Chosen(jobPage.version, m.allocs))
  IN  /\ m.kind = "listed"
      /\ IF m.asked = jobAsk /\ m.reading = jobPage.reading
         THEN jobPage' = page /\ JobSwap(m, ReadOut(page, jobAsk)) /\ JobClosed(page)
         ELSE JobSwap(m, {}) /\ UNCHANGED <<jobPage, jobStreams>>
      /\ UNCHANGED <<jobAllocs, jobMade, jobOnTop, jobAsk, jobFaults>>

(* A mutated TakeJobStream: the reading it was opened for is not looked at.*)
TakeJobStreamAnyway(m) ==
  /\ m.kind = "opened"
  /\ IF m.asked # jobAsk
     THEN jobStreams' = jobStreams \ {m.stream} /\ JobSwap(m, {}) /\ UNCHANGED jobPage
     ELSE /\ jobPage' = IF m.failed THEN [jobPage EXCEPT !.text = @ \cup {Line(m.stream, "could not read")}]
                        ELSE [jobPage EXCEPT !.streams = @ \cup {m.stream}]
          /\ JobSwap(m, IF m.failed THEN {} ELSE {[kind |-> "wait", asked |-> jobAsk, stream |-> m.stream]})
          /\ UNCHANGED jobStreams
  /\ UNCHANGED <<jobAllocs, jobMade, jobOnTop, jobAsk, jobFaults>>

TakeJobStream(m) ==
  /\ m.kind = "opened"
  /\ IF m.asked # jobAsk \/ m.stream.reading # jobPage.reading
     THEN jobStreams' = jobStreams \ {m.stream} /\ JobSwap(m, {}) /\ UNCHANGED jobPage
     ELSE /\ jobPage' = IF m.failed THEN [jobPage EXCEPT !.text = @ \cup {Line(m.stream, "could not read")}]
                        ELSE [jobPage EXCEPT !.streams = @ \cup {m.stream}]
          /\ JobSwap(m, IF m.failed THEN {} ELSE {[kind |-> "wait", asked |-> jobAsk, stream |-> m.stream]})
          /\ UNCHANGED jobStreams
  /\ UNCHANGED <<jobAllocs, jobMade, jobOnTop, jobAsk, jobFaults>>

TakeJobLines(m) ==
  /\ m.kind \in {"chunk", "end"}
  /\ IF m.asked # jobAsk \/ m.stream \notin jobPage.streams
     THEN JobSwap(m, {}) /\ UNCHANGED jobPage
     ELSE \/ /\ m.kind = "chunk" /\ jobPage' = [jobPage EXCEPT !.text = @ \cup {Line(m.stream, "wrote")}]
             /\ JobSwap(m, {[kind |-> "wait", asked |-> jobAsk, stream |-> m.stream]})
          \/ /\ m.kind = "end" /\ JobSwap(m, {})
             /\ jobPage' = [jobPage EXCEPT !.streams = @ \ {m.stream}, !.text = @ \cup {Line(m.stream, "stopped")}]
  /\ jobStreams' = IF m.kind = "end" THEN jobStreams \ {m.stream} ELSE jobStreams
  /\ UNCHANGED <<jobAllocs, jobMade, jobOnTop, jobAsk, jobFaults>>

JobLogsNext ==
  \/ \E a \in jobAllocs : Replace(a)
  \/ EnterJobLogs \/ LeaveJobLogs \/ ReloadJobLogs
  \/ \E source \in JobSources : SwitchJobSource(source)
  \/ \E m \in jobOut :
       JobAnswer(m) \/ JobFails(m) \/ JobSends(m) \/ TakeListed(m) \/ TakeJobStream(m) \/ TakeJobLines(m)


-----------------------------------------------------------------------------
(* Every line of the text is of an allocation that is read and of the      *)
(* output in the title, whatever was opened for another reading and comes  *)
(* late, and the text says of none that it stopped while a stream of it is *)
(* read (take).                                                            *)
JobTextIsOfNow ==
  /\ \A line \in jobPage.text : line.source = jobPage.source /\ line.alloc \in ToSet(jobPage.read)
  /\ \A stream \in jobPage.streams : stream.source = jobPage.source /\ stream.alloc \in ToSet(jobPage.read)
  /\ \A line \in jobPage.text, stream \in jobPage.streams :
       line.says = "stopped" => line.alloc # stream.alloc

(* A stream is read by the page, on its way to it, or closed, and the page *)
(* reads no more of them than the limit.                                   *)
NoJobStreamLeft ==
  /\ jobStreams \subseteq jobPage.streams \cup {m.stream : m \in {o \in jobOut : o.kind = "opened"}}
  /\ Cardinality(jobPage.streams) <= JobLogLimit
=============================================================================
