----------------------------- MODULE JobProofs ------------------------------
(* Theorems of what is seen and changed of a job, for any counts, versions, *)
(* logs, files, limits and bounds.  Counts and Deploy: what a submit may    *)
(* change of a job, and what the watch of its deploy says.  TaskLog and     *)
(* JobLogs: what the logs of a job show while it is deployed, that no       *)
(* stream of a log is left open, and that the text of a log is the log.     *)
EXTENDS Logs, Counts, Deploy, Extrema, FiniteSetTheorems, SequenceTheorems, TLAPS

-----------------------------------------------------------------------------
(* JobLogs: the streams of a job whose allocations are replaced.            *)
JobAllocs == [n : Nat, version : Nat]
Listing == {S \in SUBSET JobAllocs : IsFiniteSet(S) /\ \A a, b \in S : a.n = b.n => a = b}
JobStream == [reading : Nat, alloc : JobAllocs, source : JobSources]
JobLine == [alloc : JobAllocs, source : JobSources, says : {"could not read", "wrote", "stopped"}]
JobPage ==
  [version : Nat \cup {Unversioned}, source : JobSources, first : Seq(JobAllocs), opened : BOOLEAN,
   all : Seq(JobAllocs), read : Seq(JobAllocs), reading : Nat, streams : SUBSET JobStream,
   text : SUBSET JobLine]
AllocsMessage == [kind : {"allocs"}, asked : Nat, reading : Nat]
ListedMessage == [kind : {"listed"}, asked : Nat, reading : Nat, allocs : Listing]
OpenedMessage == [kind : {"opened"}, asked : Nat, stream : JobStream, failed : BOOLEAN]
StreamMessage == [kind : {"log", "wait", "chunk", "end"}, asked : Nat, stream : JobStream]
JobMessage == AllocsMessage \cup ListedMessage \cup OpenedMessage \cup StreamMessage

JobLogsTypeOK ==
  /\ jobAllocs \in Listing /\ jobMade \in Nat /\ \A a \in jobAllocs : a.n <= jobMade
  /\ jobPage \in JobPage /\ Len(jobPage.read) <= JobLogLimit
  /\ jobOnTop \in BOOLEAN /\ jobAsk \in Nat /\ jobFaults \in Nat
  /\ jobOut \subseteq JobMessage /\ jobStreams \subseteq JobStream

IsOfStream(m) == m.kind \in {"log", "opened", "wait", "chunk", "end"}
Opens(m) == m.kind \in {"log", "opened"}

(* A stream of the reading on the page is of an allocation that is read.    *)
IsOfRead(stream) ==
  /\ stream.reading <= jobPage.reading
  /\ stream.reading = jobPage.reading =>
       stream.alloc \in ToSet(jobPage.read) /\ stream.source = jobPage.source

(* While a reading waits for its allocations it has no streams, and the     *)
(* page no text.                                                            *)
WaitsForAllocs ==
  /\ jobPage.text = {} /\ jobPage.streams = {}
  /\ \A o \in jobOut : IsOfStream(o) => o.stream.reading # jobPage.reading

JobMessagesKnown ==
  \A m \in jobOut :
    /\ IsOfStream(m) => IsOfRead(m.stream)
    /\ ~IsOfStream(m) => m.reading <= jobPage.reading
                         /\ (m.reading = jobPage.reading => WaitsForAllocs)

(* A stream is opened once: until its answer nothing of it is open, nor     *)
(* where that says it could not be.                                         *)
OpensOnce ==
  /\ \A m, o \in jobOut : Opens(m) /\ Opens(o) /\ m.stream = o.stream => m = o
  /\ \A m \in jobOut : m.kind = "log" \/ (m.kind = "opened" /\ m.failed) => m.stream \notin jobStreams
  /\ \A s \in jobStreams : s.reading <= jobPage.reading

PageReadsItsOwn == \A s \in jobPage.streams : s.reading = jobPage.reading

NotOpenedYet == ~jobPage.opened => jobOut = {} /\ ~jobOnTop /\ jobPage.text = {} /\ jobPage.streams = {}

Reached == jobStreams \subseteq jobPage.streams \cup {m.stream : m \in {o \in jobOut : o.kind = "opened"}}

(* A stream of the page is not opened again, nor in its reading one of an   *)
(* allocation whose stream ended.                                           *)
EndsForGood ==
  \A m \in jobOut : Opens(m) =>
    /\ m.stream \notin jobPage.streams
    /\ \A line \in jobPage.text :
         line.says = "stopped" /\ m.stream.reading = jobPage.reading => line.alloc # m.stream.alloc

JobLogsInv ==
  /\ JobLogsTypeOK /\ JobMessagesKnown /\ OpensOnce /\ PageReadsItsOwn /\ NotOpenedYet /\ Reached
  /\ EndsForGood /\ JobTextIsOfNow

(* The allocations a reading is of are those of its scope, the newest       *)
(* first.                                                                   *)
LEMMA ChosenIs ==
  ASSUME NEW version, NEW allocs \in Listing
  PROVE  /\ Chosen(version, allocs) \in Seq({a \in allocs : InScope(version, a)})
         /\ \A i, j \in 1 .. Len(Chosen(version, allocs)) :
              i < j => Chosen(version, allocs)[i].n > Chosen(version, allocs)[j].n
         /\ Chosen(version, allocs) \in Seq(JobAllocs)
<1> DEFINE those == {a \in allocs : InScope(version, a)}
           UpTo(a) == {b \in those : b.n >= a.n}
           count == Cardinality(those)
           rank == [a \in those |-> Cardinality(UpTo(a))]
<1>1. those \in SUBSET allocs /\ allocs \in SUBSET JobAllocs /\ IsFiniteSet(allocs)
  BY DEF Listing
<1>2. IsFiniteSet(those) /\ count \in Nat
  <2>1. IsFiniteSet(those)
    BY <1>1, FS_Subset
  <2> QED
    BY <2>1, FS_CardinalityType
<1>3. \A a \in those : a.n \in Nat
  BY <1>1 DEF JobAllocs
<1>4. \A a, b \in those : a.n = b.n => a = b
  BY <1>1 DEF Listing
<1> HIDE DEF those
<1>5. ASSUME NEW a \in those
      PROVE  IsFiniteSet(UpTo(a)) /\ Cardinality(UpTo(a)) \in 1 .. count
  <2>1. UpTo(a) \in SUBSET those /\ UpTo(a) # {}
    BY <1>3
  <2> HIDE DEF UpTo
  <2>2. IsFiniteSet(UpTo(a)) /\ Cardinality(UpTo(a)) <= count
    BY <1>2, <2>1, FS_Subset
  <2>3. Cardinality(UpTo(a)) \in Nat /\ Cardinality(UpTo(a)) # 0
    BY <2>1, <2>2, FS_CardinalityType, FS_EmptySet
  <2> QED
    BY <1>2, <2>2, <2>3
<1>6. ASSUME NEW a \in those, NEW b \in those, a.n > b.n
      PROVE  Cardinality(UpTo(a)) < Cardinality(UpTo(b))
  <2>1. UpTo(a) \in SUBSET UpTo(b) /\ b \in UpTo(b) /\ b \notin UpTo(a)
    BY <1>3, <1>6
  <2>2. /\ IsFiniteSet(UpTo(b)) /\ Cardinality(UpTo(a)) \in 1 .. count
        /\ Cardinality(UpTo(b)) \in 1 .. count
    BY <1>5
  <2> HIDE DEF UpTo
  <2>3. Cardinality(UpTo(a)) <= Cardinality(UpTo(b)) /\ Cardinality(UpTo(a)) # Cardinality(UpTo(b))
    BY <2>1, <2>2, FS_Subset
  <2> QED
    BY <2>2, <2>3
<1>7. ASSUME NEW i \in 1 .. count PROVE \E a \in those : Cardinality(UpTo(a)) = i
  <2> SUFFICES ASSUME \A a \in those : Cardinality(UpTo(a)) # i PROVE FALSE
    OBVIOUS
  <2>1. rank \in [those -> (1 .. count) \ {i}]
    <3>1. \A a \in those : Cardinality(UpTo(a)) \in (1 .. count) \ {i}
      BY <1>5
    <3> HIDE DEF UpTo
    <3> QED
      BY <3>1
  <2>2. IsFiniteSet((1 .. count) \ {i}) /\ Cardinality((1 .. count) \ {i}) < count
    <3>1. IsFiniteSet(1 .. count) /\ Cardinality(1 .. count) = count
      <4> HIDE DEF count
      <4> QED
        BY <1>2, FS_Interval
    <3>2. IsFiniteSet((1 .. count) \ {i}) /\ Cardinality((1 .. count) \ {i}) = count - 1
      BY <3>1, FS_RemoveElement
    <3> QED
      BY <1>2, <3>2
  <2>3. PICK a \in those, b \in those : a # b /\ rank[a] = rank[b]
    <3> HIDE DEF rank
    <3> QED
      BY <1>2, <2>1, <2>2, FS_PigeonHole
  <2>4. Cardinality(UpTo(a)) = Cardinality(UpTo(b))
    <3> HIDE DEF UpTo
    <3> QED
      BY <2>3
  <2>5. Cardinality(UpTo(a)) \in 1 .. count /\ Cardinality(UpTo(b)) \in 1 .. count
    BY <1>5
  <2>6. a.n > b.n \/ b.n > a.n
    BY <1>3, <1>4, <2>3
  <2> HIDE DEF UpTo
  <2> QED
    BY <1>6, <2>4, <2>5, <2>6
<1> DEFINE At(i) == CHOOSE a \in those : Cardinality(UpTo(a)) = i
<1>8. \A i \in 1 .. count : At(i) \in those /\ Cardinality(UpTo(At(i))) = i
  <2> HIDE DEF UpTo
  <2> QED
    BY <1>7
<1>9. Chosen(version, allocs) = [i \in 1 .. count |-> At(i)]
  BY DEF Chosen, those
<1> HIDE DEF At, UpTo
<1>10. /\ Chosen(version, allocs) \in Seq(those) /\ Len(Chosen(version, allocs)) = count
       /\ \A i \in 1 .. count : Chosen(version, allocs)[i] = At(i)
  BY <1>2, <1>8, <1>9
<1>11. ASSUME NEW i \in 1 .. count, NEW j \in 1 .. count, i < j PROVE At(i).n > At(j).n
  <2>1. /\ At(i) \in those /\ At(j) \in those /\ Cardinality(UpTo(At(i))) = i
        /\ Cardinality(UpTo(At(j))) = j
    BY <1>8
  <2>2. ~(At(j).n > At(i).n) /\ At(i) # At(j)
    BY <1>2, <1>6, <1>11, <2>1
  <2> QED
    BY <1>3, <1>4, <2>1, <2>2
<1>12. Chosen(version, allocs) \in Seq(JobAllocs)
  BY <1>1, <1>10
<1> QED
  BY <1>10, <1>11, <1>12 DEF those

LEMMA StoppedIs ==
  ASSUME NEW p \in JobPage
  PROVE  /\ Stopped(p) \in JobPage /\ Stopped(p).reading = p.reading + 1 /\ Stopped(p).streams = {}
         /\ Stopped(p).text = p.text /\ Stopped(p).read = p.read /\ Stopped(p).source = p.source
         /\ Stopped(p).opened = p.opened
<1>1. PICK reading \in Nat : reading = p.reading + 1
  BY DEF JobPage
<1>2. Stopped(p) = [p EXCEPT !.streams = {}, !.reading = reading]
  BY <1>1 DEF Stopped
<1> QED
  BY <1>1, <1>2 DEF JobPage

(* A reading is of no more allocations than the limit, and of its own.      *)
LEMMA ReadIs ==
  ASSUME NEW p \in JobPage, NEW allocs \in Seq(JobAllocs)
  PROVE  /\ Read(p, allocs) \in JobPage /\ Len(Read(p, allocs).read) <= JobLogLimit
         /\ Read(p, allocs).reading = p.reading + 1 /\ Read(p, allocs).streams = {}
         /\ Read(p, allocs).text = p.text /\ Read(p, allocs).source = p.source
         /\ Read(p, allocs).opened = p.opened
<1> DEFINE n == Min({Len(allocs), JobLogLimit})
           some == SubSeq(allocs, 1, n)
<1>1. Len(allocs) \in Nat /\ JobLogLimit \in Nat
  BY JobLogsAssumption
<1>2. n \in Nat /\ n <= Len(allocs) /\ n <= JobLogLimit
  BY <1>1, MinIs
<1> HIDE DEF n
<1>3. some \in Seq(JobAllocs) /\ Len(some) <= JobLogLimit
  <2>1. \A i \in 1 .. n : allocs[i] \in JobAllocs
    BY <1>1, <1>2
  <2>2. some \in Seq(JobAllocs) /\ Len(some) = IF 1 <= n THEN n ELSE 0
    BY <1>2, <2>1, SubSeqProperties
  <2> QED
    BY <1>1, <1>2, <2>2
<1>4. PICK q \in JobPage : q = Stopped(p) /\ q.reading = p.reading + 1 /\ q.streams = {}
                            /\ q.text = p.text /\ q.source = p.source /\ q.opened = p.opened
  BY StoppedIs
<1>5. Read(p, allocs) = [q EXCEPT !.all = allocs, !.read = some]
  BY <1>4 DEF Read, n
<1> HIDE DEF some
<1> QED
  BY <1>3, <1>4, <1>5 DEF JobPage

LEMMA ReloadingIs ==
  ASSUME NEW p \in JobPage
  PROVE  /\ Reloading(p) \in JobPage /\ Reloading(p).reading = p.reading + 1
         /\ Reloading(p).streams = {} /\ Reloading(p).text = {} /\ Reloading(p).read = p.read
         /\ Reloading(p).source = p.source /\ Reloading(p).opened = p.opened
<1>1. PICK q \in JobPage : /\ q = Stopped(p) /\ q.reading = p.reading + 1 /\ q.streams = {}
                          /\ q.read = p.read /\ q.source = p.source /\ q.opened = p.opened
  BY StoppedIs
<1>2. Reloading(p) = [q EXCEPT !.text = {}]
  BY <1>1 DEF Reloading
<1> QED
  BY <1>1, <1>2 DEF JobPage

(* The pages before a reading starts that are not the one there is.         *)
LEMMA PagesAre ==
  ASSUME JobLogsTypeOK
  PROVE  /\ [jobPage EXCEPT !.first = <<>>, !.opened = TRUE] \in JobPage
         /\ \A source \in JobSources : [jobPage EXCEPT !.source = source, !.text = {}] \in JobPage
<1>1. <<>> \in Seq(JobAllocs)
  OBVIOUS
<1> QED
  BY <1>1 DEF JobLogsTypeOK, JobPage

LEMMA JobMessageIs ==
  ASSUME NEW m \in JobMessage
  PROVE  /\ m.asked \in Nat
         /\ IsOfStream(m) => m.stream \in JobStream /\ m.stream.reading \in Nat
         /\ ~IsOfStream(m) => m.kind \in {"allocs", "listed"} /\ m.reading \in Nat
         /\ m.kind = "listed" => m.allocs \in Listing
         /\ m.kind = "opened" => m.failed \in BOOLEAN
         /\ Opens(m) => IsOfStream(m)
BY DEF JobMessage, AllocsMessage, ListedMessage, OpenedMessage, StreamMessage, IsOfStream, Opens, JobStream

(* A stream of each allocation that is read.                                *)
OpensEach(new, p) ==
  \A m \in new : /\ m.kind = "log" /\ m.stream.reading = p.reading
                 /\ m.stream.alloc \in ToSet(p.read) /\ m.stream.source = p.source
                 /\ \A o \in new : o.stream = m.stream => o = m

(* A reading starts, or the one there is stops: what comes for an earlier   *)
(* one is known by its number, and the streams of the page are closed.      *)
LEMMA TurnKeeps ==
  ASSUME JobLogsInv, UNCHANGED <<jobAllocs, jobMade, jobFaults>>, jobOnTop' \in BOOLEAN, jobAsk' \in Nat,
         jobPage' \in JobPage, Len(jobPage'.read) <= JobLogLimit,
         jobPage'.reading = jobPage.reading + 1, jobPage'.streams = {}, jobPage'.opened,
         \/ jobPage'.text = {}
         \/ /\ jobPage'.text = jobPage.text /\ jobPage'.source = jobPage.source
            /\ jobPage'.read = jobPage.read,
         jobStreams' = jobStreams \ jobPage.streams,
         NEW new \in SUBSET JobMessage, NEW kept \in SUBSET jobOut,
         \A m \in jobOut : m.kind = "opened" => m \in kept, jobOut' = kept \cup new,
         jobPage'.text = {} \/ new = {},
         \/ OpensEach(new, jobPage')
         \/ jobPage'.text = {} /\ \A m \in new : m.kind = "allocs" /\ m.reading = jobPage'.reading
  PROVE  JobLogsInv'
<1>1. jobPage \in JobPage /\ jobPage.reading \in Nat /\ jobOut \subseteq JobMessage
  BY DEF JobLogsInv, JobLogsTypeOK, JobPage
<1>2. \A m \in kept : /\ m \in JobMessage
                      /\ IsOfStream(m) => m.stream.reading \in Nat /\ m.stream.reading <= jobPage.reading
                      /\ ~IsOfStream(m) => m.reading \in Nat /\ m.reading <= jobPage.reading
  BY <1>1, JobMessageIs DEF JobLogsInv, JobMessagesKnown, IsOfRead
<1>3. JobLogsTypeOK'
  BY <1>2 DEF JobLogsInv, JobLogsTypeOK
<1>4. \A m \in jobOut' : \/ m \in kept /\ m \in jobOut
                         \/ m \in new /\ m.kind \in {"log", "allocs"}
  BY DEF OpensEach
<1>5. \A m \in new : m.kind = "log" => IsOfStream(m) /\ m.stream.reading = jobPage.reading + 1
  BY DEF IsOfStream, OpensEach
<1>6. \A m \in new : m.kind = "allocs" => ~IsOfStream(m) /\ m.reading = jobPage.reading + 1
                                          /\ jobPage'.text = {} /\ \A o \in new : o.kind = "allocs"
  BY DEF IsOfStream, OpensEach
<1>7. JobMessagesKnown'
  <2>1. ASSUME NEW m \in jobOut', IsOfStream(m) PROVE IsOfRead(m.stream)'
    <3>1. CASE m \in kept
      BY <1>1, <1>2, <2>1, <3>1 DEF IsOfRead
    <3>2. CASE m \in new /\ m.kind = "log"
      BY <1>1, <2>1, <3>2 DEF IsOfRead, OpensEach
    <3> QED
      BY <1>4, <1>6, <2>1, <3>1, <3>2
  <2>2. ASSUME NEW m \in jobOut', ~IsOfStream(m)
        PROVE  m.reading <= jobPage'.reading /\ (m.reading = jobPage'.reading => WaitsForAllocs')
    <3>1. CASE m \in kept
      BY <1>1, <1>2, <2>2, <3>1
    <3>2. CASE m \in new /\ m.kind = "allocs"
      <4>1. ASSUME NEW o \in jobOut', IsOfStream(o) PROVE o.stream.reading # jobPage'.reading
        BY <1>1, <1>2, <1>4, <1>6, <3>2, <4>1
      <4> QED
        BY <1>1, <1>6, <3>2, <4>1 DEF WaitsForAllocs
    <3> QED
      BY <1>4, <1>5, <2>2, <3>1, <3>2
  <2> QED
    BY <2>1, <2>2 DEF JobMessagesKnown, IsOfStream
<1>8. OpensOnce'
  <2>1. \A s \in jobStreams' : s \in jobStreams /\ s.reading \in Nat /\ s.reading <= jobPage.reading
    BY DEF JobLogsInv, JobLogsTypeOK, OpensOnce, JobStream
  <2>2. ASSUME NEW m \in jobOut', NEW o \in jobOut', Opens(m), Opens(o), m.stream = o.stream
        PROVE  m = o
    <3>1. /\ m \in kept \/ (m \in new /\ m.kind = "log")
          /\ o \in kept \/ (o \in new /\ o.kind = "log")
      BY <1>4, <2>2 DEF Opens
    <3>2. IsOfStream(m) /\ IsOfStream(o)
      BY <2>2 DEF Opens, IsOfStream
    <3>3. CASE m \in kept /\ o \in kept
      BY <2>2, <3>3 DEF JobLogsInv, OpensOnce
    <3>4. CASE m \in new /\ o \in new /\ m.kind = "log"
      BY <2>2, <3>4 DEF OpensEach
    <3> QED
      BY <1>1, <1>2, <1>5, <2>2, <3>1, <3>2, <3>3, <3>4
  <2>3. ASSUME NEW m \in jobOut', m.kind = "log" \/ (m.kind = "opened" /\ m.failed)
        PROVE  m.stream \notin jobStreams'
    <3>1. CASE m \in kept
      BY <2>1, <2>3, <3>1 DEF JobLogsInv, OpensOnce
    <3>2. CASE m \in new /\ m.kind = "log"
      BY <1>1, <1>5, <2>1, <3>2
    <3> QED
      BY <1>4, <2>3, <3>1, <3>2
  <2>4. \A s \in jobStreams' : s.reading <= jobPage'.reading
    BY <1>1, <2>1
  <2> QED
    BY <2>2, <2>3, <2>4 DEF OpensOnce, Opens
<1>9. PageReadsItsOwn' /\ NotOpenedYet'
  BY DEF PageReadsItsOwn, NotOpenedYet
<1>10. Reached'
  BY DEF JobLogsInv, Reached
<1>11. JobTextIsOfNow'
  BY DEF JobLogsInv, JobTextIsOfNow
<1>12. EndsForGood'
  <2> SUFFICES ASSUME NEW m \in jobOut', Opens(m), NEW line \in jobPage'.text,
                      m.stream.reading = jobPage'.reading
               PROVE  FALSE
    BY DEF EndsForGood, Opens
  <2>1. m \in kept /\ IsOfStream(m)
    BY DEF Opens, IsOfStream
  <2> QED
    BY <1>1, <1>2, <2>1
<1> QED
  BY <1>3, <1>7, <1>8, <1>9, <1>10, <1>11, <1>12 DEF JobLogsInv

(* What stands for a message that is taken, answered or lost: at most one   *)
(* other of the same stream or reading.                                     *)
StandsFor(new, m) ==
  /\ \A o, p \in new : o = p
  /\ \A o \in new :
       IF IsOfStream(m)
       THEN o.kind \in {"opened", "wait", "chunk", "end"} /\ o.stream = m.stream
            /\ (o.kind = "opened" => m.kind = "log")
       ELSE o.kind = "listed" /\ o.reading = m.reading

(* The page takes what is of its reading.                                   *)
PageTakes(m) ==
  /\ jobPage'.read = jobPage.read /\ jobPage'.source = jobPage.source
  /\ jobPage'.reading = jobPage.reading /\ jobPage'.opened = jobPage.opened
  /\ \/ jobPage' = jobPage
     \/ /\ IsOfStream(m) /\ m.stream.reading = jobPage.reading
        /\ \A s \in jobPage'.streams : s \in jobPage.streams \/ (s = m.stream /\ m.kind = "opened")
        /\ \A line \in jobPage'.text :
             \/ line \in jobPage.text
             \/ /\ line.source = m.stream.source /\ line.alloc = m.stream.alloc
                /\ line.says = "stopped" =>
                     m.kind = "end" /\ m.stream \in jobPage.streams /\ m.stream \notin jobPage'.streams

LEMMA SwapKeeps ==
  ASSUME JobLogsInv, UNCHANGED <<jobAllocs, jobMade, jobOnTop, jobAsk>>, jobFaults' \in Nat,
         NEW m \in jobOut, NEW new \in SUBSET JobMessage, jobOut' = (jobOut \ {m}) \cup new,
         StandsFor(new, m), jobPage' \in JobPage, PageTakes(m),
         \/ jobStreams' \subseteq jobStreams
         \/ m.kind = "log" /\ jobStreams' = jobStreams \cup {m.stream} /\ \A o \in new : ~o.failed,
         Reached'
  PROVE  JobLogsInv'
<1> USE DEF StandsFor, PageTakes
<1>1. jobPage \in JobPage /\ jobPage.reading \in Nat /\ jobOut \subseteq JobMessage /\ m \in JobMessage
  BY DEF JobLogsInv, JobLogsTypeOK, JobPage
<1>2. IsOfStream(m) => m.stream \in JobStream /\ IsOfRead(m.stream)
  BY <1>1, JobMessageIs DEF JobLogsInv, JobMessagesKnown
<1>3. jobStreams' \subseteq JobStream /\ \A s \in jobStreams' : s.reading <= jobPage.reading
  <2>1. m.kind = "log" => IsOfStream(m)
    BY DEF IsOfStream
  <2> QED
    BY <1>2, <2>1 DEF JobLogsInv, JobLogsTypeOK, OpensOnce, IsOfRead
<1>4. JobLogsTypeOK'
  BY <1>1, <1>3 DEF JobLogsInv, JobLogsTypeOK
<1>5. \A o \in jobOut' : \/ o \in jobOut /\ o # m
                         \/ o \in new /\ IsOfStream(o) /\ IsOfStream(m) /\ o.stream = m.stream
                         \/ o \in new /\ ~IsOfStream(o) /\ ~IsOfStream(m) /\ o.reading = m.reading
  BY DEF IsOfStream
<1>6. \A stream : IsOfRead(stream)' <=> IsOfRead(stream)
  BY DEF IsOfRead
<1>7. JobMessagesKnown'
  <2>1. ASSUME NEW o \in jobOut', IsOfStream(o) PROVE IsOfRead(o.stream)'
    BY <1>2, <1>5, <1>6, <2>1 DEF JobLogsInv, JobMessagesKnown
  <2>2. ASSUME NEW o \in jobOut', ~IsOfStream(o)
        PROVE  o.reading <= jobPage'.reading /\ (o.reading = jobPage'.reading => WaitsForAllocs')
    <3>1. PICK known \in jobOut : ~IsOfStream(known) /\ known.reading = o.reading
      BY <1>5, <2>2
    <3>2. /\ known.reading <= jobPage.reading
          /\ known.reading = jobPage.reading => WaitsForAllocs
      BY <3>1 DEF JobLogsInv, JobMessagesKnown
    <3>3. ASSUME WaitsForAllocs PROVE WaitsForAllocs'
      <4>1. \A p \in jobOut' : IsOfStream(p) => p.stream.reading # jobPage.reading
        BY <1>5, <3>3 DEF WaitsForAllocs
      <4>2. jobPage' = jobPage
        BY <3>3 DEF WaitsForAllocs
      <4> QED
        BY <3>3, <4>1, <4>2 DEF WaitsForAllocs
    <3> QED
      BY <3>1, <3>2, <3>3
  <2> QED
    BY <2>1, <2>2 DEF JobMessagesKnown, IsOfStream
<1>8. OpensOnce'
  <2>1. \A o \in new : Opens(o) => o.kind = "opened" /\ m.kind = "log" /\ o.stream = m.stream
    BY DEF Opens, IsOfStream
  <2>2. \A o \in jobOut : Opens(o) /\ m.kind = "log" /\ o.stream = m.stream => o = m
    BY DEF JobLogsInv, OpensOnce, Opens
  <2>3. ASSUME NEW o \in jobOut', NEW p \in jobOut', Opens(o), Opens(p), o.stream = p.stream
        PROVE  o = p
    BY <2>1, <2>2, <2>3 DEF JobLogsInv, OpensOnce
  <2>4. ASSUME NEW o \in jobOut', o.kind = "log" \/ (o.kind = "opened" /\ o.failed)
        PROVE  o.stream \notin jobStreams'
    <3>1. Opens(o)
      BY <2>4 DEF Opens
    <3>2. CASE o \in jobOut /\ o # m
      BY <2>2, <2>4, <3>1, <3>2 DEF JobLogsInv, OpensOnce
    <3>3. CASE o \in new
      BY <2>1, <2>4, <3>1, <3>3 DEF JobLogsInv, OpensOnce
    <3> QED
      BY <3>2, <3>3
  <2> QED
    BY <1>3, <2>3, <2>4 DEF OpensOnce, Opens
<1>9. PageReadsItsOwn'
  BY DEF JobLogsInv, PageReadsItsOwn
<1>10. NotOpenedYet'
  BY DEF JobLogsInv, NotOpenedYet
<1>11. /\ \A s \in jobPage.streams : s \in JobStream /\ s.reading = jobPage.reading /\ s.source = jobPage.source
       /\ \A s \in jobPage'.streams : s \in JobStream /\ s.reading = jobPage.reading /\ s.source = jobPage.source
  BY <1>1, <1>2 DEF JobLogsInv, JobTextIsOfNow, PageReadsItsOwn, JobPage, IsOfRead
<1>12. \A s \in jobPage'.streams, t \in jobPage.streams : s.alloc = t.alloc => s = t
  BY <1>11 DEF JobStream
<1>13. JobTextIsOfNow'
  <2>1. /\ \A line \in jobPage'.text : line.source = jobPage'.source /\ line.alloc \in ToSet(jobPage'.read)
        /\ \A s \in jobPage'.streams : s.source = jobPage'.source /\ s.alloc \in ToSet(jobPage'.read)
    BY <1>2 DEF JobLogsInv, JobTextIsOfNow, IsOfRead
  <2>2. ASSUME NEW line \in jobPage'.text, NEW s \in jobPage'.streams, line.says = "stopped"
        PROVE  line.alloc # s.alloc
    <3>1. CASE line \in jobPage.text /\ s \in jobPage.streams
      BY <2>2, <3>1 DEF JobLogsInv, JobTextIsOfNow
    <3>2. CASE line \in jobPage.text /\ s = m.stream /\ m.kind = "opened" /\ m.stream.reading = jobPage.reading
      BY <2>2, <3>2 DEF JobLogsInv, EndsForGood, Opens
    <3>3. CASE line.alloc = m.stream.alloc /\ m.stream \in jobPage.streams /\ m.stream \notin jobPage'.streams
      BY <1>12, <3>3
    <3> QED
      BY <2>2, <3>1, <3>2, <3>3
  <2> QED
    BY <2>1, <2>2 DEF JobTextIsOfNow
<1>14. EndsForGood'
  <2> SUFFICES ASSUME NEW o \in jobOut', Opens(o)
               PROVE  /\ o.stream \notin jobPage'.streams
                      /\ \A line \in jobPage'.text :
                           line.says = "stopped" /\ o.stream.reading = jobPage'.reading => line.alloc # o.stream.alloc
    BY DEF EndsForGood, Opens
  <2>1. PICK p \in jobOut : Opens(p) /\ p.stream = o.stream /\ (p = m => m.kind = "log")
    BY <1>5 DEF Opens, IsOfStream
  <2>2. /\ o.stream \notin jobPage.streams /\ p.stream \in JobStream /\ IsOfRead(p.stream)
        /\ \A line \in jobPage.text :
             line.says = "stopped" /\ o.stream.reading = jobPage.reading => line.alloc # o.stream.alloc
    BY <1>1, <2>1, JobMessageIs DEF JobLogsInv, EndsForGood, JobMessagesKnown
  <2>3. m.kind = "opened" => o.stream # m.stream
    BY <2>1 DEF JobLogsInv, OpensOnce, Opens
  <2>4. \A t \in jobPage.streams :
          o.stream.reading = jobPage.reading /\ o.stream.alloc = t.alloc => o.stream = t
    BY <1>11, <2>1, <2>2 DEF JobStream, IsOfRead
  <2> QED
    BY <2>2, <2>3, <2>4
<1> QED
  BY <1>4, <1>7, <1>8, <1>9, <1>10, <1>13, <1>14 DEF JobLogsInv

(* What a reading asks for is that, or the list.                            *)
LEMMA ReadOutIs ==
  ASSUME NEW p \in JobPage, NEW asked \in Nat
  PROVE  ReadOut(p, asked) \in SUBSET JobMessage /\ OpensEach(ReadOut(p, asked), p)
<1> DEFINE LogOf(a) == [kind |-> "log", asked |-> asked,
                        stream |-> [reading |-> p.reading, alloc |-> a, source |-> p.source]]
<1>1. \A a \in ToSet(p.read) : a \in JobAllocs
  BY DEF JobPage, ToSet
<1>2. \A a \in ToSet(p.read) : LogOf(a) \in JobMessage
  BY <1>1 DEF JobPage, JobMessage, StreamMessage, JobStream
<1>3. ReadOut(p, asked) = {LogOf(a) : a \in ToSet(p.read)}
  BY DEF ReadOut
<1> QED
  BY <1>2, <1>3 DEF OpensEach

LEMMA ReloadOutIs ==
  ASSUME NEW p \in JobPage, NEW asked \in Nat
  PROVE  /\ ReloadOut(p, asked) \in SUBSET JobMessage
         /\ \A m \in ReloadOut(p, asked) : m.kind = "allocs" /\ m.reading = p.reading
BY DEF ReloadOut, JobMessage, AllocsMessage, JobPage

LEMMA EnterJobKeeps == ASSUME JobLogsInv, EnterJobLogs PROVE JobLogsInv'
<1>1. jobPage \in JobPage /\ jobAsk \in Nat /\ jobAsk + 1 \in Nat /\ jobFaults \in Nat
  BY DEF JobLogsInv, JobLogsTypeOK
<1>2. CASE jobPage.opened
  <2>1. jobPage' = Reloading(jobPage) /\ jobOut' = jobOut \cup ReloadOut(jobPage', jobAsk + 1)
    BY <1>2 DEF EnterJobLogs
  <2>2. /\ jobPage' \in JobPage /\ jobPage'.reading = jobPage.reading + 1 /\ jobPage'.streams = {}
        /\ jobPage'.text = {} /\ jobPage'.read = jobPage.read /\ jobPage'.opened
    BY <1>1, <1>2, <2>1, ReloadingIs
  <2>3. PICK new \in SUBSET JobMessage :
          /\ jobOut' = jobOut \cup new
          /\ \A m \in new : m.kind = "allocs" /\ m.reading = jobPage'.reading
    BY <1>1, <2>1, <2>2, ReloadOutIs
  <2>4. jobStreams' = jobStreams \ jobPage.streams
    BY <2>1, <2>2 DEF EnterJobLogs, JobClosed
  <2>5. Len(jobPage'.read) <= JobLogLimit
    BY <2>2 DEF JobLogsInv, JobLogsTypeOK
  <2>6. /\ UNCHANGED <<jobAllocs, jobMade, jobFaults>> /\ jobOnTop' = TRUE /\ jobAsk' = jobAsk + 1
    BY DEF EnterJobLogs
  <2> QED
    BY <1>1, <2>2, <2>3, <2>4, <2>5, <2>6, TurnKeeps
<1>3. CASE ~jobPage.opened
  <2> DEFINE opening == [jobPage EXCEPT !.first = <<>>, !.opened = TRUE]
  <2>1. jobPage' = Read(opening, jobPage.first) /\ jobOut' = jobOut \cup ReadOut(jobPage', jobAsk + 1)
    BY <1>3 DEF EnterJobLogs
  <2>2. /\ opening \in JobPage /\ jobPage.first \in Seq(JobAllocs)
        /\ opening.reading = jobPage.reading /\ opening.text = {} /\ opening.opened
    <3>1. jobPage.text = {}
      BY <1>3 DEF JobLogsInv, NotOpenedYet
    <3>2. opening \in JobPage
      BY PagesAre DEF JobLogsInv
    <3> QED
      BY <1>1, <3>1, <3>2 DEF JobPage
  <2> HIDE DEF opening
  <2>3. /\ jobPage' \in JobPage /\ jobPage'.reading = jobPage.reading + 1 /\ jobPage'.streams = {}
        /\ jobPage'.text = {} /\ jobPage'.opened /\ Len(jobPage'.read) <= JobLogLimit
    BY <2>1, <2>2, ReadIs
  <2>4. PICK new \in SUBSET JobMessage : jobOut' = jobOut \cup new /\ OpensEach(new, jobPage')
    BY <1>1, <2>1, <2>3, ReadOutIs
  <2>5. jobStreams' = jobStreams \ jobPage.streams
    BY <1>3, <2>3 DEF EnterJobLogs, JobClosed, JobLogsInv, NotOpenedYet
  <2>6. /\ UNCHANGED <<jobAllocs, jobMade, jobFaults>> /\ jobOnTop' = TRUE /\ jobAsk' = jobAsk + 1
    BY DEF EnterJobLogs
  <2> QED
    BY <1>1, <2>3, <2>4, <2>5, <2>6, TurnKeeps
<1> QED
  BY <1>2, <1>3

LEMMA LeaveJobKeeps == ASSUME JobLogsInv, LeaveJobLogs PROVE JobLogsInv'
<1>1. jobPage \in JobPage /\ jobAsk \in Nat /\ jobAsk + 1 \in Nat
  BY DEF JobLogsInv, JobLogsTypeOK
<1>2. jobPage' = Stopped(jobPage) /\ jobOut' = jobOut \cup {} /\ jobPage.opened
  BY DEF LeaveJobLogs, JobLogsInv, NotOpenedYet
<1>3. /\ jobPage' \in JobPage /\ jobPage'.reading = jobPage.reading + 1 /\ jobPage'.streams = {}
      /\ jobPage'.text = jobPage.text /\ jobPage'.read = jobPage.read
      /\ jobPage'.source = jobPage.source /\ jobPage'.opened
  BY <1>1, <1>2, StoppedIs
<1>4. jobStreams' = jobStreams \ jobPage.streams
  BY <1>3 DEF LeaveJobLogs, JobClosed
<1>5. Len(jobPage'.read) <= JobLogLimit
  BY <1>3 DEF JobLogsInv, JobLogsTypeOK
<1>6. UNCHANGED <<jobAllocs, jobMade, jobFaults>> /\ jobOnTop' = FALSE /\ jobAsk' = jobAsk + 1
  BY DEF LeaveJobLogs
<1>7. {} \in SUBSET JobMessage /\ OpensEach({}, jobPage') /\ jobOut \in SUBSET jobOut
  BY DEF OpensEach
<1> QED
  BY <1>1, <1>2, <1>3, <1>4, <1>5, <1>6, <1>7, TurnKeeps

LEMMA ReloadJobKeeps == ASSUME JobLogsInv, ReloadJobLogs PROVE JobLogsInv'
<1>1. jobPage \in JobPage /\ jobAsk \in Nat /\ jobOnTop
  BY DEF JobLogsInv, JobLogsTypeOK, ReloadJobLogs
<1>2. jobPage' = Reloading(jobPage) /\ jobOut' = jobOut \cup ReloadOut(jobPage', jobAsk)
  BY DEF ReloadJobLogs
<1>3. jobPage.opened
  BY <1>1 DEF JobLogsInv, NotOpenedYet
<1>4. /\ jobPage' \in JobPage /\ jobPage'.reading = jobPage.reading + 1 /\ jobPage'.streams = {}
      /\ jobPage'.text = {} /\ jobPage'.read = jobPage.read /\ jobPage'.opened
  BY <1>1, <1>2, <1>3, ReloadingIs
<1>5. PICK new \in SUBSET JobMessage :
        /\ jobOut' = jobOut \cup new
        /\ \A m \in new : m.kind = "allocs" /\ m.reading = jobPage'.reading
  BY <1>1, <1>2, <1>4, ReloadOutIs
<1>6. jobStreams' = jobStreams \ jobPage.streams
  BY <1>4 DEF ReloadJobLogs, JobClosed
<1>7. Len(jobPage'.read) <= JobLogLimit
  BY <1>4 DEF JobLogsInv, JobLogsTypeOK
<1>8. UNCHANGED <<jobAllocs, jobMade, jobFaults, jobOnTop, jobAsk>>
  BY DEF ReloadJobLogs
<1> QED
  BY <1>1, <1>4, <1>5, <1>6, <1>7, <1>8, TurnKeeps

LEMMA SwitchJobKeeps ==
  ASSUME JobLogsInv, NEW source \in JobSources, SwitchJobSource(source)
  PROVE  JobLogsInv'
<1>1. jobPage \in JobPage /\ jobAsk \in Nat /\ jobOnTop /\ jobPage.all \in Seq(JobAllocs)
  BY DEF JobLogsInv, JobLogsTypeOK, JobPage, SwitchJobSource
<1> DEFINE other == [jobPage EXCEPT !.source = source, !.text = {}]
<1>2. jobPage' = Read(other, jobPage.all) /\ jobOut' = jobOut \cup ReadOut(jobPage', jobAsk)
  BY DEF SwitchJobSource
<1>3. other \in JobPage /\ other.reading = jobPage.reading /\ other.text = {} /\ other.opened
  <2>1. jobPage.opened
    BY <1>1 DEF JobLogsInv, NotOpenedYet
  <2>2. other \in JobPage
    BY PagesAre DEF JobLogsInv
  <2> QED
    BY <1>1, <2>1, <2>2 DEF JobPage
<1> HIDE DEF other
<1>4. /\ jobPage' \in JobPage /\ jobPage'.reading = jobPage.reading + 1 /\ jobPage'.streams = {}
      /\ jobPage'.text = {} /\ jobPage'.opened /\ Len(jobPage'.read) <= JobLogLimit
  BY <1>1, <1>2, <1>3, ReadIs
<1>5. PICK new \in SUBSET JobMessage : jobOut' = jobOut \cup new /\ OpensEach(new, jobPage')
  BY <1>1, <1>2, <1>4, ReadOutIs
<1>6. jobStreams' = jobStreams \ jobPage.streams
  BY <1>4 DEF SwitchJobSource, JobClosed
<1>7. UNCHANGED <<jobAllocs, jobMade, jobFaults, jobOnTop, jobAsk>>
  BY DEF SwitchJobSource
<1> QED
  BY <1>1, <1>4, <1>5, <1>6, <1>7, TurnKeeps

(* The allocations come: the text was empty since they were asked for.      *)
LEMMA TakeListedKeeps ==
  ASSUME JobLogsInv, NEW m \in jobOut, TakeListed(m)
  PROVE  JobLogsInv'
<1>1. jobPage \in JobPage /\ jobAsk \in Nat /\ jobFaults \in Nat /\ m \in JobMessage
  BY DEF JobLogsInv, JobLogsTypeOK
<1>2. m.kind = "listed" /\ ~IsOfStream(m) /\ m.allocs \in Listing
      /\ UNCHANGED <<jobAllocs, jobMade, jobOnTop, jobAsk, jobFaults>>
  BY <1>1, JobMessageIs DEF TakeListed, IsOfStream
<1>3. CASE m.asked = jobAsk /\ m.reading = jobPage.reading
  <2>1. jobPage' = Read(jobPage, Chosen(jobPage.version, m.allocs))
        /\ jobOut' = (jobOut \ {m}) \cup ReadOut(jobPage', jobAsk)
    BY <1>3 DEF TakeListed, JobSwap
  <2>2. jobPage.text = {} /\ jobPage.opened
    BY <1>2, <1>3 DEF JobLogsInv, JobMessagesKnown, WaitsForAllocs, NotOpenedYet
  <2>3. /\ jobPage' \in JobPage /\ jobPage'.reading = jobPage.reading + 1 /\ jobPage'.streams = {}
        /\ jobPage'.text = {} /\ jobPage'.opened /\ Len(jobPage'.read) <= JobLogLimit
    BY <1>1, <1>2, <2>1, <2>2, ChosenIs, ReadIs
  <2>4. PICK new \in SUBSET JobMessage : jobOut' = (jobOut \ {m}) \cup new /\ OpensEach(new, jobPage')
    BY <1>1, <2>1, <2>3, ReadOutIs
  <2>5. jobStreams' = jobStreams \ jobPage.streams
    BY <1>3, <2>1, <2>3 DEF TakeListed, JobClosed
  <2>6. jobOut \ {m} \in SUBSET jobOut /\ \A o \in jobOut : o.kind = "opened" => o \in jobOut \ {m}
    BY <1>2
  <2>7. jobOnTop' \in BOOLEAN /\ jobAsk' \in Nat
    BY <1>2 DEF JobLogsInv, JobLogsTypeOK
  <2> QED
    BY <1>2, <2>3, <2>4, <2>5, <2>6, <2>7, TurnKeeps
<1>4. CASE ~(m.asked = jobAsk /\ m.reading = jobPage.reading)
  <2>1. jobOut' = (jobOut \ {m}) \cup {} /\ UNCHANGED <<jobPage, jobStreams>>
    BY <1>4 DEF TakeListed, JobSwap
  <2>2. Reached'
    BY <1>2, <2>1 DEF JobLogsInv, Reached
  <2>3. {} \in SUBSET JobMessage /\ StandsFor({}, m) /\ PageTakes(m)
    BY <2>1 DEF StandsFor, PageTakes
  <2> QED
    BY <1>1, <1>2, <2>1, <2>2, <2>3, SwapKeeps
<1> QED
  BY <1>3, <1>4

(* The cluster answers, an answer is lost, a stream sends.                  *)
LEMMA JobClusterKeeps ==
  ASSUME JobLogsInv, NEW m \in jobOut, JobAnswer(m) \/ JobFails(m) \/ JobSends(m)
  PROVE  JobLogsInv'
<1>1. /\ jobPage \in JobPage /\ jobAsk \in Nat /\ jobFaults \in Nat /\ m \in JobMessage
      /\ jobAllocs \in Listing
  BY DEF JobLogsInv, JobLogsTypeOK
<1>2. UNCHANGED <<jobAllocs, jobMade, jobPage, jobOnTop, jobAsk>> /\ jobFaults' \in Nat
  BY <1>1 DEF JobAnswer, JobFails, JobSends
<1>3. m.asked \in Nat /\ (IsOfStream(m) => m.stream \in JobStream) /\ (~IsOfStream(m) => m.reading \in Nat)
  BY <1>1, JobMessageIs
<1> DEFINE listed == [kind |-> "listed", asked |-> m.asked, reading |-> m.reading, allocs |-> jobAllocs]
           opened(failed) == [kind |-> "opened", asked |-> m.asked, stream |-> m.stream, failed |-> failed]
           says(kind) == [kind |-> kind, asked |-> m.asked, stream |-> m.stream]
<1>4. CASE m.kind = "allocs" /\ JobAnswer(m)
  <2>1. jobOut' = (jobOut \ {m}) \cup {listed} /\ UNCHANGED jobStreams /\ ~IsOfStream(m)
    BY <1>4 DEF JobAnswer, JobSwap, IsOfStream
  <2>2. {listed} \in SUBSET JobMessage /\ listed.kind = "listed" /\ listed.reading = m.reading
    BY <1>1, <1>3, <2>1 DEF JobMessage, ListedMessage
  <2> HIDE DEF listed
  <2>3. Reached'
    BY <1>2, <1>4, <2>1 DEF JobLogsInv, Reached
  <2>4. StandsFor({listed}, m) /\ PageTakes(m)
    BY <1>2, <2>1, <2>2 DEF StandsFor, PageTakes
  <2> QED
    BY <1>1, <1>2, <2>1, <2>2, <2>3, <2>4, SwapKeeps
<1>5. CASE m.kind = "log" /\ JobAnswer(m)
  <2>1. /\ jobOut' = (jobOut \ {m}) \cup {opened(FALSE)} /\ jobStreams' = jobStreams \cup {m.stream}
        /\ IsOfStream(m)
    BY <1>5 DEF JobAnswer, JobSwap, IsOfStream
  <2>2. /\ {opened(FALSE)} \in SUBSET JobMessage /\ opened(FALSE).kind = "opened"
        /\ opened(FALSE).stream = m.stream /\ ~opened(FALSE).failed
    BY <1>3, <2>1 DEF JobMessage, OpenedMessage
  <2> HIDE DEF opened
  <2>3. Reached'
    BY <1>2, <1>5, <2>1, <2>2 DEF JobLogsInv, Reached
  <2>4. StandsFor({opened(FALSE)}, m) /\ PageTakes(m)
    BY <1>2, <1>5, <2>1, <2>2 DEF StandsFor, PageTakes
  <2> QED
    BY <1>1, <1>2, <1>5, <2>1, <2>2, <2>3, <2>4, SwapKeeps
<1>6. CASE m.kind = "allocs" /\ JobFails(m)
  <2>1. jobOut' = (jobOut \ {m}) \cup {} /\ UNCHANGED jobStreams /\ ~IsOfStream(m)
    BY <1>6 DEF JobFails, JobSwap, IsOfStream
  <2>2. Reached' /\ {} \in SUBSET JobMessage
    BY <1>2, <1>6, <2>1 DEF JobLogsInv, Reached
  <2>3. StandsFor({}, m) /\ PageTakes(m)
    BY <1>2, <2>1 DEF StandsFor, PageTakes
  <2> QED
    BY <1>1, <1>2, <2>1, <2>2, <2>3, SwapKeeps
<1>7. CASE m.kind = "log" /\ JobFails(m)
  <2>1. /\ jobOut' = (jobOut \ {m}) \cup {opened(TRUE)} /\ UNCHANGED jobStreams /\ IsOfStream(m)
    BY <1>7 DEF JobFails, JobSwap, IsOfStream
  <2>2. /\ {opened(TRUE)} \in SUBSET JobMessage /\ opened(TRUE).kind = "opened"
        /\ opened(TRUE).stream = m.stream
    BY <1>3, <2>1 DEF JobMessage, OpenedMessage
  <2> HIDE DEF opened
  <2>3. Reached'
    BY <1>2, <1>7, <2>1 DEF JobLogsInv, Reached
  <2>4. StandsFor({opened(TRUE)}, m) /\ PageTakes(m)
    BY <1>2, <1>7, <2>1, <2>2 DEF StandsFor, PageTakes
  <2> QED
    BY <1>1, <1>2, <1>7, <2>1, <2>2, <2>3, <2>4, SwapKeeps
<1>8. CASE JobSends(m)
  <2>1. m.kind = "wait" /\ IsOfStream(m) /\ UNCHANGED jobStreams
    BY <1>8 DEF JobSends, IsOfStream
  <2>2. ASSUME NEW kind \in {"chunk", "end"}
        PROVE  /\ says(kind) \in JobMessage /\ says(kind).kind = kind /\ says(kind).stream = m.stream
    BY <1>3, <2>1 DEF JobMessage, StreamMessage
  <2>3. \/ jobOut' = (jobOut \ {m}) \cup {says("chunk")}
        \/ jobOut' = (jobOut \ {m}) \cup {says("end")}
        \/ jobOut' = (jobOut \ {m}) \cup {}
    BY <1>8 DEF JobSends, JobSwap
  <2> HIDE DEF says
  <2>4. PICK new \in SUBSET JobMessage :
          /\ jobOut' = (jobOut \ {m}) \cup new /\ StandsFor(new, m)
    <3>1. says("chunk") \in JobMessage /\ says("end") \in JobMessage
      BY <2>2
    <3>2. {says("chunk")} \in SUBSET JobMessage /\ {says("end")} \in SUBSET JobMessage
          /\ {} \in SUBSET JobMessage
      BY <3>1
    <3>3. StandsFor({says("chunk")}, m) /\ StandsFor({says("end")}, m) /\ StandsFor({}, m)
      BY <2>1, <2>2 DEF StandsFor
    <3> QED
      BY <2>3, <3>2, <3>3
  <2>5. Reached'
    BY <1>2, <2>1, <2>4 DEF JobLogsInv, Reached
  <2>6. PageTakes(m)
    BY <1>2 DEF PageTakes
  <2> QED
    BY <1>1, <1>2, <2>1, <2>4, <2>5, <2>6, SwapKeeps
<1> QED
  BY <1>4, <1>5, <1>6, <1>7, <1>8 DEF JobAnswer, JobFails

(* A stream that opened, of the reading or late.                            *)
LEMMA TakeJobStreamKeeps ==
  ASSUME JobLogsInv, NEW m \in jobOut, TakeJobStream(m)
  PROVE  JobLogsInv'
<1>1. jobPage \in JobPage /\ jobAsk \in Nat /\ jobFaults \in Nat /\ m \in JobMessage
  BY DEF JobLogsInv, JobLogsTypeOK
<1>2. m.kind = "opened" /\ IsOfStream(m) /\ m.stream \in JobStream /\ m.failed \in BOOLEAN
      /\ UNCHANGED <<jobAllocs, jobMade, jobOnTop, jobAsk, jobFaults>>
  BY <1>1, JobMessageIs DEF TakeJobStream, IsOfStream
<1>3. CASE m.asked # jobAsk \/ m.stream.reading # jobPage.reading
  <2>1. jobOut' = (jobOut \ {m}) \cup {} /\ jobStreams' = jobStreams \ {m.stream} /\ jobPage' = jobPage
    BY <1>3 DEF TakeJobStream, JobSwap
  <2>2. Reached' /\ {} \in SUBSET JobMessage
    BY <2>1 DEF JobLogsInv, Reached
  <2>3. StandsFor({}, m) /\ PageTakes(m)
    BY <2>1 DEF StandsFor, PageTakes
  <2> QED
    BY <1>1, <1>2, <2>1, <2>2, <2>3, SwapKeeps
<1>4. CASE m.asked = jobAsk /\ m.stream.reading = jobPage.reading /\ m.failed
  <2>1. PICK line \in JobLine : line = Line(m.stream, "could not read")
    BY <1>2 DEF Line, JobLine, JobStream
  <2>2. /\ jobOut' = (jobOut \ {m}) \cup {} /\ UNCHANGED jobStreams
        /\ jobPage' = [jobPage EXCEPT !.text = @ \cup {line}]
    BY <1>4, <2>1 DEF TakeJobStream, JobSwap
  <2>3. /\ jobPage' \in JobPage /\ jobPage'.text = jobPage.text \cup {line}
        /\ jobPage'.streams = jobPage.streams /\ jobPage'.read = jobPage.read
        /\ jobPage'.source = jobPage.source /\ jobPage'.reading = jobPage.reading
        /\ jobPage'.opened = jobPage.opened
    BY <1>1, <2>2 DEF JobPage
  <2>4. line.source = m.stream.source /\ line.alloc = m.stream.alloc /\ line.says # "stopped"
    BY <2>1 DEF Line
  <2>5. Reached'
    <3>1. m.stream \notin jobStreams
      BY <1>2, <1>4 DEF JobLogsInv, OpensOnce
    <3> QED
      BY <2>2, <2>3, <3>1 DEF JobLogsInv, Reached
  <2>6. {} \in SUBSET JobMessage
    OBVIOUS
  <2>8. StandsFor({}, m)
    BY <1>2 DEF StandsFor
  <2>9. PageTakes(m) /\ jobStreams' \subseteq jobStreams
    BY <1>2, <1>4, <2>2, <2>3, <2>4 DEF PageTakes
  <2> QED
    BY <1>1, <1>2, <1>4, <2>2, <2>3, <2>5, <2>6, <2>8, <2>9, SwapKeeps
<1>5. CASE m.asked = jobAsk /\ m.stream.reading = jobPage.reading /\ ~m.failed
  <2>1. PICK wait : wait = [kind |-> "wait", asked |-> jobAsk, stream |-> m.stream]
    OBVIOUS
  <2>2. {wait} \in SUBSET JobMessage /\ wait.kind = "wait" /\ wait.stream = m.stream
    BY <1>1, <1>2, <2>1 DEF JobMessage, StreamMessage
  <2>3. /\ jobOut' = (jobOut \ {m}) \cup {wait} /\ UNCHANGED jobStreams
        /\ jobPage' = [jobPage EXCEPT !.streams = @ \cup {m.stream}]
    BY <1>5, <2>1 DEF TakeJobStream, JobSwap
  <2>4. /\ jobPage' \in JobPage /\ jobPage'.text = jobPage.text
        /\ jobPage'.streams = jobPage.streams \cup {m.stream} /\ jobPage'.read = jobPage.read
        /\ jobPage'.source = jobPage.source /\ jobPage'.reading = jobPage.reading
        /\ jobPage'.opened = jobPage.opened
    BY <1>1, <1>2, <2>3 DEF JobPage
  <2>5. Reached'
    BY <2>3, <2>4 DEF JobLogsInv, Reached
  <2>8. StandsFor({wait}, m)
    BY <1>2, <2>2 DEF StandsFor
  <2>9. PageTakes(m) /\ jobStreams' \subseteq jobStreams
    BY <1>2, <1>5, <2>2, <2>3, <2>4 DEF PageTakes
  <2> QED
    BY <1>1, <1>2, <1>5, <2>2, <2>3, <2>4, <2>5, <2>8, <2>9, SwapKeeps
<1> QED
  BY <1>2, <1>3, <1>4, <1>5

(* A chunk, or the end of a stream.                                         *)
LEMMA TakeJobLinesKeeps ==
  ASSUME JobLogsInv, NEW m \in jobOut, TakeJobLines(m)
  PROVE  JobLogsInv'
<1>1. jobPage \in JobPage /\ jobAsk \in Nat /\ jobFaults \in Nat /\ m \in JobMessage
  BY DEF JobLogsInv, JobLogsTypeOK
<1>2. m.kind \in {"chunk", "end"} /\ IsOfStream(m) /\ m.stream \in JobStream
      /\ UNCHANGED <<jobAllocs, jobMade, jobOnTop, jobAsk, jobFaults>>
      /\ jobStreams' = IF m.kind = "end" THEN jobStreams \ {m.stream} ELSE jobStreams
  BY <1>1, JobMessageIs DEF TakeJobLines, IsOfStream
<1>3. CASE m.asked # jobAsk \/ m.stream \notin jobPage.streams
  <2>1. jobOut' = (jobOut \ {m}) \cup {} /\ jobPage' = jobPage /\ jobStreams' \subseteq jobStreams
    BY <1>2, <1>3 DEF TakeJobLines, JobSwap
  <2>2. Reached' /\ {} \in SUBSET JobMessage
    BY <1>2, <2>1 DEF JobLogsInv, Reached
  <2>3. StandsFor({}, m) /\ PageTakes(m)
    BY <2>1 DEF StandsFor, PageTakes
  <2> QED
    BY <1>1, <1>2, <2>1, <2>2, <2>3, SwapKeeps
<1>4. CASE m.asked = jobAsk /\ m.stream \in jobPage.streams /\ m.kind = "chunk"
  <2>1. PICK line \in JobLine : line = Line(m.stream, "wrote")
    BY <1>2 DEF Line, JobLine, JobStream
  <2>2. PICK wait : wait = [kind |-> "wait", asked |-> jobAsk, stream |-> m.stream]
    OBVIOUS
  <2>3. {wait} \in SUBSET JobMessage /\ wait.kind = "wait" /\ wait.stream = m.stream
    BY <1>1, <1>2, <2>2 DEF JobMessage, StreamMessage
  <2>4. /\ jobOut' = (jobOut \ {m}) \cup {wait} /\ jobStreams' = jobStreams
        /\ jobPage' = [jobPage EXCEPT !.text = @ \cup {line}]
    BY <1>2, <1>4, <2>1, <2>2 DEF TakeJobLines, JobSwap
  <2>5. /\ jobPage' \in JobPage /\ jobPage'.text = jobPage.text \cup {line}
        /\ jobPage'.streams = jobPage.streams /\ jobPage'.read = jobPage.read
        /\ jobPage'.source = jobPage.source /\ jobPage'.reading = jobPage.reading
        /\ jobPage'.opened = jobPage.opened
    BY <1>1, <2>4 DEF JobPage
  <2>6. line.source = m.stream.source /\ line.alloc = m.stream.alloc /\ line.says # "stopped"
        /\ m.stream.reading = jobPage.reading
    BY <1>4, <2>1 DEF Line, JobLogsInv, PageReadsItsOwn
  <2>7. Reached'
    BY <1>4, <2>4, <2>5 DEF JobLogsInv, Reached
  <2>8. StandsFor({wait}, m)
    BY <1>2, <2>3 DEF StandsFor
  <2>9. PageTakes(m) /\ jobStreams' \subseteq jobStreams
    BY <1>2, <1>4, <2>3, <2>4, <2>5, <2>6 DEF PageTakes
  <2> QED
    BY <1>1, <1>2, <2>3, <2>4, <2>5, <2>6, <2>7, <2>8, <2>9, SwapKeeps
<1>5. CASE m.asked = jobAsk /\ m.stream \in jobPage.streams /\ m.kind = "end"
  <2>1. PICK line \in JobLine : line = Line(m.stream, "stopped")
    BY <1>2 DEF Line, JobLine, JobStream
  <2>2. /\ jobOut' = (jobOut \ {m}) \cup {} /\ jobStreams' = jobStreams \ {m.stream}
        /\ jobPage' = [jobPage EXCEPT !.streams = @ \ {m.stream}, !.text = @ \cup {line}]
    BY <1>2, <1>5, <2>1 DEF TakeJobLines, JobSwap
  <2>3. /\ jobPage' \in JobPage /\ jobPage'.text = jobPage.text \cup {line}
        /\ jobPage'.streams = jobPage.streams \ {m.stream} /\ jobPage'.read = jobPage.read
        /\ jobPage'.source = jobPage.source /\ jobPage'.reading = jobPage.reading
        /\ jobPage'.opened = jobPage.opened
    BY <1>1, <2>2 DEF JobPage
  <2>4. line.source = m.stream.source /\ line.alloc = m.stream.alloc
        /\ m.stream.reading = jobPage.reading
    BY <1>5, <2>1 DEF Line, JobLogsInv, PageReadsItsOwn
  <2>5. Reached'
    BY <1>5, <2>2, <2>3 DEF JobLogsInv, Reached
  <2>6. {} \in SUBSET JobMessage
    OBVIOUS
  <2>8. StandsFor({}, m)
    BY <1>2 DEF StandsFor
  <2>9. PageTakes(m) /\ jobStreams' \subseteq jobStreams
    BY <1>2, <1>5, <2>2, <2>3, <2>4 DEF PageTakes
  <2> QED
    BY <1>1, <1>2, <2>2, <2>3, <2>4, <2>5, <2>6, <2>8, <2>9, SwapKeeps
<1> QED
  BY <1>2, <1>3, <1>4, <1>5

(* A deployment: the numbers of the allocations stay different.             *)
LEMMA ReplaceKeeps ==
  ASSUME JobLogsInv, NEW a \in jobAllocs, Replace(a)
  PROVE  JobLogsInv'
<1>1. UNCHANGED <<jobPage, jobOnTop, jobAsk, jobOut, jobStreams, jobFaults>>
  BY DEF Replace
<1>2. /\ jobAllocs \in SUBSET JobAllocs /\ IsFiniteSet(jobAllocs) /\ jobMade \in Nat
      /\ \A b, c \in jobAllocs : b.n = c.n => b = c
      /\ \A b \in jobAllocs : b.n <= jobMade
  BY DEF JobLogsInv, JobLogsTypeOK, Listing
<1>3. PICK made \in JobAllocs : made = Alloc(jobMade + 1, 2) /\ made.n = jobMade + 1
  <2>1. Alloc(jobMade + 1, 2) \in JobAllocs /\ Alloc(jobMade + 1, 2).n = jobMade + 1
    BY <1>2 DEF Alloc, JobAllocs
  <2> QED
    BY <2>1
<1>4. jobAllocs' = (jobAllocs \ {a}) \cup {made} /\ jobMade' = jobMade + 1
  BY <1>3 DEF Replace
<1>5. \A b \in jobAllocs : b.n \in Nat /\ b.n # made.n
  BY <1>2, <1>3 DEF JobAllocs
<1>6. jobAllocs' \in Listing /\ jobMade' \in Nat /\ \A b \in jobAllocs' : b.n <= jobMade'
  <2>1. IsFiniteSet(jobAllocs')
    BY <1>2, <1>4, FS_RemoveElement, FS_AddElement
  <2>2. \A b, c \in jobAllocs' : b.n = c.n => b = c
    BY <1>2, <1>4, <1>5
  <2>3. \A b \in jobAllocs' : b.n <= jobMade'
    BY <1>2, <1>3, <1>4, <1>5
  <2> QED
    BY <1>2, <1>3, <1>4, <2>1, <2>2, <2>3 DEF Listing
<1>7. JobLogsTypeOK'
  BY <1>1, <1>6 DEF JobLogsInv, JobLogsTypeOK
<1>8. /\ JobMessagesKnown' /\ OpensOnce' /\ PageReadsItsOwn' /\ NotOpenedYet' /\ Reached'
      /\ EndsForGood' /\ JobTextIsOfNow'
  BY <1>1 DEF JobLogsInv, JobMessagesKnown, WaitsForAllocs, IsOfRead, IsOfStream, Opens, OpensOnce,
              PageReadsItsOwn, NotOpenedYet, Reached, EndsForGood, JobTextIsOfNow
<1> QED
  BY <1>7, <1>8 DEF JobLogsInv

LEMMA JobLogsStep == JobLogsInv /\ [JobLogsNext]_jobLogsVars => JobLogsInv'
<1> SUFFICES ASSUME JobLogsInv, [JobLogsNext]_jobLogsVars PROVE JobLogsInv'
  OBVIOUS
<1>1. CASE UNCHANGED jobLogsVars
  BY <1>1 DEF jobLogsVars, JobLogsInv, JobLogsTypeOK, JobMessagesKnown, WaitsForAllocs, IsOfRead, IsOfStream,
              Opens, OpensOnce, PageReadsItsOwn, NotOpenedYet, Reached, EndsForGood, JobTextIsOfNow
<1>2. CASE \E a \in jobAllocs : Replace(a)
  BY <1>2, ReplaceKeeps
<1>3. CASE EnterJobLogs \/ LeaveJobLogs \/ ReloadJobLogs
  BY <1>3, EnterJobKeeps, LeaveJobKeeps, ReloadJobKeeps
<1>4. CASE \E source \in JobSources : SwitchJobSource(source)
  BY <1>4, SwitchJobKeeps
<1>5. CASE \E m \in jobOut :
             JobAnswer(m) \/ JobFails(m) \/ JobSends(m) \/ TakeListed(m) \/ TakeJobStream(m) \/ TakeJobLines(m)
  BY <1>5, JobClusterKeeps, TakeListedKeeps, TakeJobStreamKeeps, TakeJobLinesKeeps
<1> QED
  BY <1>1, <1>2, <1>3, <1>4, <1>5 DEF JobLogsNext

LEMMA JobLogsFirst == JobLogsInit => JobLogsInv
<1> SUFFICES ASSUME JobLogsInit PROVE JobLogsInv
  OBVIOUS
<1>1. jobAllocs = {Alloc(1, 1), Alloc(2, 1)} /\ jobMade = 2
  BY DEF JobLogsInit
<1>2. jobAllocs \in Listing
  <2>1. IsFiniteSet({Alloc(1, 1)} \cup {Alloc(2, 1)})
    <3>1. IsFiniteSet({Alloc(1, 1)})
      BY FS_Singleton, Zenon
    <3> QED
      BY <3>1, FS_AddElement, Zenon
  <2>2. jobAllocs = {Alloc(1, 1)} \cup {Alloc(2, 1)}
    BY <1>1
  <2>3. jobAllocs \in SUBSET JobAllocs /\ \A a, b \in jobAllocs : a.n = b.n => a = b
    BY <1>1 DEF Alloc, JobAllocs
  <2> QED
    BY <2>1, <2>2, <2>3 DEF Listing
<1>3. PICK version \in {Unversioned, 1} :
        jobPage = [NoReading EXCEPT !.version = version, !.first = Chosen(version, jobAllocs)]
  BY DEF JobLogsInit
<1>4. PICK first \in Seq(JobAllocs) : first = Chosen(version, jobAllocs)
  BY <1>2, ChosenIs
<1>5. PICK source \in JobSources : source = CHOOSE s \in JobSources : TRUE
  BY JobLogsAssumption
<1>6. PICK e : e = <<>> /\ e \in Seq(JobAllocs) /\ Len(e) = 0
  <2>1. <<>> \in Seq(JobAllocs) /\ Len(<<>>) = 0
    OBVIOUS
  <2> QED
    BY <2>1
<1>7. NoReading = [version |-> Unversioned, source |-> source, first |-> e, opened |-> FALSE, all |-> e,
                   read |-> e, reading |-> 0, streams |-> {}, text |-> {}]
  BY <1>5, <1>6 DEF NoReading
<1>8. /\ jobPage \in JobPage /\ jobPage.read = e /\ ~jobPage.opened /\ jobPage.text = {}
      /\ jobPage.streams = {}
  <2>1. jobPage = [version |-> version, source |-> source, first |-> first, opened |-> FALSE, all |-> e,
                   read |-> e, reading |-> 0, streams |-> {}, text |-> {}]
    BY <1>3, <1>4, <1>7
  <2>2. version \in Nat \cup {Unversioned}
    OBVIOUS
  <2> QED
    BY <1>6, <2>1, <2>2 DEF JobPage
<1>9. JobLogsTypeOK
  <2>1. \A a \in jobAllocs : a.n <= jobMade
    BY <1>1 DEF Alloc
  <2>2. Len(jobPage.read) <= JobLogLimit
    BY <1>6, <1>8, JobLogsAssumption
  <2>3. /\ jobOnTop \in BOOLEAN /\ jobAsk \in Nat /\ jobFaults \in Nat /\ jobMade \in Nat
        /\ jobOut = {} /\ jobStreams = {}
    BY DEF JobLogsInit
  <2> QED
    BY <1>2, <1>8, <2>1, <2>2, <2>3 DEF JobLogsTypeOK
<1>10. /\ JobMessagesKnown /\ OpensOnce /\ PageReadsItsOwn /\ NotOpenedYet /\ Reached /\ EndsForGood /\ JobTextIsOfNow
  BY <1>8 DEF JobLogsInit, JobMessagesKnown, OpensOnce, PageReadsItsOwn, NotOpenedYet, Reached, EndsForGood, JobTextIsOfNow
<1> QED
  BY <1>9, <1>10 DEF JobLogsInv

LEMMA JobLogsInductive == JobLogsInit /\ [][JobLogsNext]_jobLogsVars => []JobLogsInv
BY JobLogsFirst, JobLogsStep, PTL

(* Whatever opens late, is replaced by a deployment, stops or fails, every  *)
(* line of the text is of an allocation that is read now and of the output  *)
(* in the title, and so is every stream that still writes into it; and an   *)
(* allocation the text says has stopped has none of them (jobLogsPage.take, *)
(* jobLogsState.stop).                                                      *)
THEOREM JobTextStays == JobLogsInit /\ [][JobLogsNext]_jobLogsVars => []JobTextIsOfNow
<1>1. JobLogsInv => JobTextIsOfNow
  BY DEF JobLogsInv
<1> QED
  BY <1>1, JobLogsInductive, PTL

(* Every stream of a log of the job that is open is read by the page or on  *)
(* its way to it, where it is closed if it is not taken; and the page never *)
(* reads more of them than jobLogLimit (letGo, closeStream, read).          *)
THEOREM NoJobStreamStays == JobLogsInit /\ [][JobLogsNext]_jobLogsVars => []NoJobStreamLeft
<1>1. JobLogsInv => NoJobStreamLeft
  <2> SUFFICES ASSUME JobLogsInv PROVE NoJobStreamLeft
    OBVIOUS
  <2> DEFINE n == Len(jobPage.read)
             count == [i \in 1 .. n |-> [reading |-> jobPage.reading, alloc |-> jobPage.read[i],
                                         source |-> jobPage.source]]
             most == {count[i] : i \in 1 .. n}
  <2>1. n \in Nat /\ n <= JobLogLimit /\ JobLogLimit \in Nat /\ jobPage.read \in Seq(JobAllocs)
    BY JobLogsAssumption DEF JobLogsInv, JobLogsTypeOK, JobPage
  <2>2. ASSUME NEW s \in jobPage.streams PROVE s \in most
    <3>1. /\ s \in JobStream /\ s.reading = jobPage.reading /\ s.source = jobPage.source
          /\ s.alloc \in ToSet(jobPage.read)
      BY DEF JobLogsInv, JobLogsTypeOK, JobPage, PageReadsItsOwn, JobTextIsOfNow
    <3>2. PICK i \in 1 .. n : jobPage.read[i] = s.alloc
      BY <2>1, <3>1 DEF ToSet
    <3>3. s = [reading |-> s.reading, alloc |-> s.alloc, source |-> s.source]
      BY <3>1 DEF JobStream
    <3> QED
      BY <3>1, <3>2, <3>3
  <2> HIDE DEF n
  <2>3. IsFiniteSet(1 .. n) /\ Cardinality(1 .. n) = n
    BY <2>1, FS_Interval
  <2>4. count \in Surjection(1 .. n, most)
    BY DEF Surjection
  <2> HIDE DEF count, most
  <2>5. IsFiniteSet(most) /\ Cardinality(most) <= n /\ Cardinality(most) \in Nat
    BY <2>3, <2>4, FS_Surjection, FS_CardinalityType
  <2>6. jobPage.streams \in SUBSET most
    BY <2>2
  <2>7. Cardinality(jobPage.streams) <= Cardinality(most) /\ Cardinality(jobPage.streams) \in Nat
    BY <2>5, <2>6, FS_Subset, FS_CardinalityType
  <2>8. Cardinality(jobPage.streams) <= JobLogLimit
    BY <2>1, <2>5, <2>7
  <2> QED
    BY <2>8 DEF JobLogsInv, Reached, NoJobStreamLeft
<1> QED
  BY <1>1, JobLogsInductive, PTL

-----------------------------------------------------------------------------
(* TaskLog: the streams of the log of a task.                               *)

(* What is known of a stream: whether it is open, and has ended.            *)
IsTail(st) == {"ctx", "shut"} \subseteq DOMAIN st

(* A stream whose end is on its way sends nothing more.                     *)
TailsInv ==
  /\ DOMAIN tails = 1 .. MaxStreams /\ \A i \in 1 .. MaxStreams : IsTail(tails[i])
  /\ "stream" \in DOMAIN reader
  /\ \A m \in sent : m.kind \in {"stream", "wait", "lines", "end"} => m.stream \in 1 .. MaxStreams
  /\ \A m \in sent : m.kind = "end" => tails[m.stream].shut \/ tails[m.stream].ctx = "cancelled"
  /\ NoTailLeft

LEMMA NoTailIs == IsTail(NoTail) /\ NoTail.ctx = "none" /\ ~NoTail.shut
BY DEF IsTail, NoTail

(* What a frame changes of a stream.                                        *)
LEMMA FrameOf ==
  ASSUME NEW st, IsTail(st), NEW frame
  PROVE  LET new == Taken(Uncut(st, frame)) IN IsTail(new) /\ new.ctx = st.ctx /\ new.shut = st.shut
<1>1. IsTail(Uncut(st, frame)) /\ Uncut(st, frame).ctx = st.ctx /\ Uncut(st, frame).shut = st.shut
  BY DEF IsTail, Uncut
<1>2. ASSUME NEW un, IsTail(un)
      PROVE  IsTail(Taken(un)) /\ Taken(un).ctx = un.ctx /\ Taken(un).shut = un.shut
  BY <1>2 DEF IsTail, Taken
<1> QED
  BY <1>1, <1>2

LEMMA ClosedTailIs ==
  ASSUME TailsInv, NEW s
  PROVE  LET closed == ClosedTail(s)
         IN  /\ DOMAIN closed = 1 .. MaxStreams /\ \A j \in 1 .. MaxStreams : IsTail(closed[j])
             /\ \A j \in 1 .. MaxStreams : /\ closed[j] = tails[j] \/ closed[j].ctx = "cancelled"
                                           /\ j = s => closed[j].ctx = "cancelled"
<1> DEFINE st == [NoTail EXCEPT !.ctx = "cancelled", !.source = tails[s].source, !.chunk = tails[s].chunk,
                                !.shut = tails[s].shut, !.err = tails[s].err]
<1>1. IsTail(st) /\ st.ctx = "cancelled"
  BY DEF IsTail, NoTail
<1>2. ClosedTail(s) = IF s = 0 THEN tails ELSE [tails EXCEPT ![s] = st]
  BY DEF ClosedTail
<1> HIDE DEF st
<1>3. \A j \in 1 .. MaxStreams : j # 0
  OBVIOUS
<1> QED
  BY <1>1, <1>2, <1>3 DEF TailsInv

(* A step that opens no stream: what is open stays with its reader.         *)
LEMMA TailsKeep ==
  ASSUME TailsInv, "stream" \in DOMAIN reader',
         DOMAIN tails' = 1 .. MaxStreams, \A i \in 1 .. MaxStreams : IsTail(tails'[i]),
         \A m \in sent' : \/ m \in sent
                          \/ m.kind \in {"wait", "lines"} /\ m.stream \in 1 .. MaxStreams
                          \/ m.kind = "end" /\ m.stream \in 1 .. MaxStreams /\ tails'[m.stream].shut
                          \/ m.kind \in {"info", "open", "back", "listed", "part"},
         \A i \in 1 .. MaxStreams :
           \/ tails'[i].ctx = "cancelled"
           \/ tails'[i].ctx = tails[i].ctx /\ (tails[i].shut => tails'[i].shut),
         \A i \in 1 .. MaxStreams :
           \/ tails'[i].ctx # "live" \/ tails'[i].shut \/ reader'.stream = i
           \/ /\ reader.stream # i
              /\ \A m \in sent : m.kind = "stream" /\ m.stream = i => m \in sent'
  PROVE  TailsInv'
<1>1. \A m \in sent' : m.kind \in {"stream", "wait", "lines", "end"} => m.stream \in 1 .. MaxStreams
  BY DEF TailsInv
<1>2. \A m \in sent' : m.kind = "end" => tails'[m.stream].shut \/ tails'[m.stream].ctx = "cancelled"
  <2> SUFFICES ASSUME NEW m \in sent', m.kind = "end", m \in sent
               PROVE  tails'[m.stream].shut \/ tails'[m.stream].ctx = "cancelled"
    OBVIOUS
  <2>1. m.stream \in 1 .. MaxStreams /\ (tails[m.stream].shut \/ tails[m.stream].ctx = "cancelled")
    BY DEF TailsInv
  <2> QED
    BY <2>1
<1>3. NoTailLeft'
  <2> SUFFICES ASSUME NEW i \in 1 .. MaxStreams, tails'[i].ctx = "live", ~tails'[i].shut, reader'.stream # i
               PROVE  \E m \in sent' : m.kind = "stream" /\ m.stream = i
    BY DEF NoTailLeft
  <2>1. tails[i].ctx = "live" /\ ~tails[i].shut /\ reader.stream # i
    OBVIOUS
  <2>2. PICK m \in sent : m.kind = "stream" /\ m.stream = i
    BY <2>1 DEF TailsInv, NoTailLeft
  <2> QED
    BY <2>1, <2>2
<1> QED
  BY <1>1, <1>2, <1>3 DEF TailsInv

(* A step of which the streams know nothing.                                *)
LEMMA TailsAside ==
  ASSUME TailsInv, UNCHANGED tails, "stream" \in DOMAIN reader', reader'.stream = reader.stream,
         \A m \in sent' : \/ m \in sent
                          \/ m.kind \in {"wait", "lines"} /\ m.stream \in 1 .. MaxStreams
                          \/ m.kind = "end" /\ m.stream \in 1 .. MaxStreams /\ tails[m.stream].shut
                          \/ m.kind \in {"info", "open", "back", "listed", "part"},
         \A m \in sent : m.kind = "stream" => m \in sent'
  PROVE  TailsInv'
<1>1. \A i \in 1 .. MaxStreams :
        \/ tails[i].ctx # "live" \/ tails[i].shut \/ reader'.stream = i \/ reader.stream # i
  OBVIOUS
<1> QED
  BY <1>1, TailsKeep DEF TailsInv

LEMMA TaskMoves ==
  ASSUME TailsInv, \/ \E source \in Sources, break \in BOOLEAN : Write(source, break)
                   \/ Dies \/ ReadEarlier \/ UNCHANGED taskLogVars
  PROVE  TailsInv'
<1>1. /\ UNCHANGED tails /\ (UNCHANGED reader \/ reader' = [reader EXCEPT !.asking = TRUE])
      /\ sent \subseteq sent' /\ \A m \in sent' : m \in sent \/ m.kind = "back"
  <2>1. CASE ReadEarlier
    <3>1. sent \subseteq sent' /\ \A m \in sent' : m \in sent \/ m.kind = "back"
      BY <2>1 DEF ReadEarlier
    <3> QED
      BY <2>1, <3>1 DEF ReadEarlier
  <2>2. CASE ~ReadEarlier
    BY <2>2 DEF Write, Dies, taskLogVars
  <2> QED
    BY <2>1, <2>2
<1>2. "stream" \in DOMAIN reader' /\ reader'.stream = reader.stream
  BY <1>1 DEF TailsInv
<1> QED
  BY <1>1, <1>2, TailsAside

(* The goroutine of a stream runs while the page reads it, or ends.         *)
LEMMA TailMoves ==
  ASSUME TailsInv, NEW i \in 1 .. MaxStreams, FrameComes(i) \/ FramesEnd(i) \/ Quits(i)
  PROVE  TailsInv'
<1>1. UNCHANGED <<reader, sent>> /\ IsTail(tails[i]) /\ DOMAIN tails = 1 .. MaxStreams
  BY DEF FrameComes, FramesEnd, Quits, TailsInv
<1>2. PICK st : tails' = [tails EXCEPT ![i] = st] /\ IsTail(st) /\
                \/ st.ctx = "cancelled"
                \/ st.ctx = tails[i].ctx /\ (tails[i].shut => st.shut) /\ reader.stream = i
  <2>1. CASE FrameComes(i)
    <3>1. PICK frame : tails' = [tails EXCEPT ![i] = Taken(Uncut(tails[i], frame))]
      BY <1>1, <2>1 DEF FrameComes
    <3>2. PICK st : st = Taken(Uncut(tails[i], frame))
      OBVIOUS
    <3>3. IsTail(st) /\ st.ctx = tails[i].ctx /\ st.shut = tails[i].shut
      BY <1>1, <3>2, FrameOf
    <3>4. reader.stream = i
      BY <2>1 DEF FrameComes, Runs
    <3> QED
      BY <3>1, <3>2, <3>3, <3>4
  <2>2. CASE FramesEnd(i)
    <3> DEFINE over == [tails[i] EXCEPT !.shut = TRUE, !.chunk = tails[i].held, !.held = NoSpan]
    <3>1. PICK st : tails' = [tails EXCEPT ![i] = st] /\ (st = over \/ \E err \in BOOLEAN : st = [over EXCEPT !.err = err])
      BY <2>2 DEF FramesEnd
    <3>2. IsTail(over) /\ over.ctx = tails[i].ctx /\ over.shut
      BY <1>1 DEF IsTail
    <3> HIDE DEF over
    <3>3. IsTail(st) /\ st.ctx = tails[i].ctx /\ st.shut
      BY <3>1, <3>2 DEF IsTail
    <3> QED
      BY <2>2, <3>1, <3>3 DEF FramesEnd, Runs
  <2>3. CASE Quits(i)
    <3>1. PICK st : st = [NoTail EXCEPT !.ctx = "cancelled", !.shut = TRUE]
      OBVIOUS
    <3>2. IsTail(st) /\ st.ctx = "cancelled"
      BY <3>1 DEF IsTail, NoTail
    <3> QED
      BY <2>3, <3>1, <3>2 DEF Quits
  <2> QED
    BY <2>1, <2>2, <2>3
<1>3. /\ DOMAIN tails' = 1 .. MaxStreams /\ tails'[i] = st
      /\ \A j \in 1 .. MaxStreams : j # i => tails'[j] = tails[j]
  BY <1>1, <1>2
<1>4. \A j \in 1 .. MaxStreams :
        \/ tails'[j].ctx # "live" \/ tails'[j].shut \/ reader'.stream = j \/ reader.stream # j
  BY <1>1
<1> QED
  BY <1>1, <1>2, <1>3, <1>4, TailsKeep DEF TailsInv

(* The end of the log is read, a stream opens: it is on its way to the page.*)
LEMMA OpenLogKeeps ==
  ASSUME TailsInv, NEW m \in sent, OpenLog(m)
  PROVE  TailsInv'
<1>1. UNCHANGED reader /\ DOMAIN tails = 1 .. MaxStreams /\ m.kind = "open"
  BY DEF OpenLog, TailsInv
<1> DEFINE st(n) == [NoTail EXCEPT !.ctx = "live", !.source = m.source, !.finished = m.finished, !.at = n,
                                   !.end = m.end, !.ended = m.ended, !.opened = Bytes(m.source)]
<1>2. PICK i \in 1 .. MaxStreams, n \in {Max({OldestKept(m.source) * FileSize, Bytes(m.source) - LogTail})} :
        /\ tails[i] = NoTail /\ tails' = [tails EXCEPT ![i] = st(n)]
        /\ Swapped(m, [kind |-> "stream", asked |-> m.asked, source |-> m.source, stream |-> i])
  BY DEF OpenLog
<1>3. IsTail(st(n)) /\ ~st(n).shut
  BY DEF IsTail, NoTail
<1> HIDE DEF st
<1>4. PICK on : /\ on.kind = "stream" /\ on.stream = i /\ sent' = (sent \ {m}) \cup {on}
  BY <1>2 DEF Swapped
<1>5. /\ DOMAIN tails' = 1 .. MaxStreams /\ \A j \in 1 .. MaxStreams : j # i => tails'[j] = tails[j]
      /\ \A j \in 1 .. MaxStreams : IsTail(tails'[j])
  BY <1>1, <1>2, <1>3 DEF TailsInv
<1>6. \A o \in sent' : o \in sent \/ o = on
  BY <1>4
<1>7. \A o \in sent' : o.kind \in {"stream", "wait", "lines", "end"} => o.stream \in 1 .. MaxStreams
  BY <1>4, <1>6 DEF TailsInv
<1>8. \A o \in sent' : o.kind = "end" => tails'[o.stream].shut \/ tails'[o.stream].ctx = "cancelled"
  <2> SUFFICES ASSUME NEW o \in sent', o.kind = "end"
               PROVE  tails'[o.stream].shut \/ tails'[o.stream].ctx = "cancelled"
    OBVIOUS
  <2>1. /\ o \in sent /\ o.stream \in 1 .. MaxStreams
        /\ tails[o.stream].shut \/ tails[o.stream].ctx = "cancelled"
    BY <1>4, <1>6 DEF TailsInv
  <2>2. o.stream # i
    BY <1>2, <2>1, NoTailIs
  <2> QED
    BY <1>5, <2>1, <2>2
<1>9. NoTailLeft'
  <2> SUFFICES ASSUME NEW j \in 1 .. MaxStreams, tails'[j].ctx = "live", ~tails'[j].shut, reader'.stream # j
               PROVE  \E o \in sent' : o.kind = "stream" /\ o.stream = j
    BY DEF NoTailLeft
  <2>1. CASE j = i
    BY <1>4, <2>1
  <2>2. CASE j # i
    <3>1. PICK o \in sent : o.kind = "stream" /\ o.stream = j
      BY <1>1, <1>5, <2>2 DEF TailsInv, NoTailLeft
    <3> QED
      BY <1>1, <1>4, <3>1
  <2> QED
    BY <2>1, <2>2
<1> QED
  BY <1>1, <1>5, <1>7, <1>8, <1>9 DEF TailsInv

(* What is answered, or fails.                                              *)
LEMMA TaskAnswered ==
  ASSUME TailsInv, NEW m \in sent, ReadLogEnd(m) \/ LogEndUnread(m) \/ ListFiles(m) \/ ReadFiles(m) \/ LogFails(m)
  PROVE  TailsInv'
<1>1. UNCHANGED <<tails, reader>> /\ m.kind # "stream"
  BY DEF ReadLogEnd, LogEndUnread, ListFiles, ReadFiles, LogFails
<1>2. /\ \A o \in sent' : o \in sent \/ o.kind \in {"open", "listed", "part"}
      /\ \A o \in sent : o # m => o \in sent'
  BY DEF ReadLogEnd, LogEndUnread, ListFiles, ReadFiles, LogFails, Swapped, Dropped
<1> QED
  BY <1>1, <1>2, TailsAside DEF TailsInv

(* A chunk or the end of a stream comes.                                    *)
LEMMA TailComes ==
  ASSUME TailsInv, NEW m \in sent, ChunkComes(m) \/ EndComes(m)
  PROVE  TailsInv'
<1>1. /\ UNCHANGED reader /\ m.kind = "wait" /\ m.stream \in 1 .. MaxStreams
      /\ DOMAIN tails = 1 .. MaxStreams /\ IsTail(tails[m.stream])
  BY DEF ChunkComes, EndComes, TailsInv
<1>2. CASE ChunkComes(m)
  <2>1. PICK st, given : /\ st = [tails[m.stream] EXCEPT !.chunk = NoSpan, !.given = given]
                         /\ tails' = [tails EXCEPT ![m.stream] = st]
    <3>1. tails' = [tails EXCEPT ![m.stream].chunk = NoSpan,
                                 ![m.stream].given = Min({@ + Size(tails[m.stream].chunk), tails[m.stream].there})]
      BY Zenon, <1>2 DEF ChunkComes
    <3> QED
      BY ONLY <1>1, <3>1
  <2>2. IsTail(st) /\ st.ctx = tails[m.stream].ctx /\ st.shut = tails[m.stream].shut
    BY <1>1, <2>1 DEF IsTail
  <2>3. /\ \A o \in sent' : o \in sent \/ (o.kind = "lines" /\ o.stream = m.stream)
        /\ \A o \in sent : o # m => o \in sent'
    <3>1. PICK new : /\ new.kind = "lines" /\ new.stream = m.stream
                     /\ sent' = (sent \ {m}) \cup {new}
      BY <1>2 DEF ChunkComes, Swapped
    <3> QED
      BY Zenon, <3>1
  <2>4. /\ DOMAIN tails' = 1 .. MaxStreams /\ \A i \in 1 .. MaxStreams : IsTail(tails'[i])
        /\ \A i \in 1 .. MaxStreams : tails'[i].ctx = tails[i].ctx /\ tails'[i].shut = tails[i].shut
    BY <1>1, <2>1, <2>2 DEF TailsInv
  <2>5. \A o \in sent' : o \in sent \/ (o.kind = "lines" /\ o.stream \in 1 .. MaxStreams)
    BY <1>1, <2>3
  <2>6. \A o \in sent : o.kind = "stream" => o \in sent'
    BY <1>1, <2>3
  <2> QED
    BY <1>1, <2>4, <2>5, <2>6, TailsKeep DEF TailsInv
<1>3. CASE EndComes(m)
  <2>1. UNCHANGED tails
    BY <1>3 DEF EndComes
  <2>2. /\ \A o \in sent' : \/ o \in sent
                            \/ o.kind = "end" /\ o.stream = m.stream /\ tails[m.stream].shut
        /\ \A o \in sent : o # m => o \in sent'
    BY <1>3 DEF EndComes, Swapped, Dropped
  <2> QED
    BY <1>1, <2>1, <2>2, TailsAside DEF TailsInv
<1> QED
  BY Zenon, <1>2, <1>3

(* The page is left, or opened again: its stream is closed.                 *)
LEMMA PageCloses ==
  ASSUME TailsInv, tails' = ClosedTail(reader.stream), "stream" \in DOMAIN reader',
         \A m \in sent' : m \in sent \/ m.kind = "info", sent \subseteq sent'
  PROVE  TailsInv'
<1>1. /\ DOMAIN tails' = 1 .. MaxStreams /\ \A i \in 1 .. MaxStreams : IsTail(tails'[i])
      /\ \A i \in 1 .. MaxStreams : /\ tails'[i] = tails[i] \/ tails'[i].ctx = "cancelled"
                                    /\ i = reader.stream => tails'[i].ctx = "cancelled"
  BY ClosedTailIs
<1>2. \A i \in 1 .. MaxStreams :
        \/ tails'[i].ctx = "cancelled"
        \/ tails'[i].ctx = tails[i].ctx /\ (tails[i].shut => tails'[i].shut)
  BY <1>1
<1>3. \A i \in 1 .. MaxStreams :
        \/ tails'[i].ctx # "live" \/ tails'[i].shut \/ reader'.stream = i
        \/ /\ reader.stream # i
           /\ \A m \in sent : m.kind = "stream" /\ m.stream = i => m \in sent'
  BY <1>1
<1> QED
  BY <1>1, <1>2, <1>3, TailsKeep

LEMMA PersonLeaves ==
  ASSUME TailsInv, (\E source \in Sources : SwitchSource(source)) \/ LeaveLog \/ ReturnToLog
  PROVE  TailsInv'
<1>1. ASSUME NEW source, NEW asked, OpenLogPage(source, asked, sent) PROVE TailsInv'
  <2>1. tails' = ClosedTail(reader.stream) /\ "stream" \in DOMAIN reader'
    BY <1>1 DEF OpenLogPage, NotRead
  <2>2. sent \subseteq sent' /\ \A m \in sent' : m \in sent \/ m.kind = "info"
    BY <1>1 DEF OpenLogPage
  <2> QED
    BY <2>1, <2>2, PageCloses
<1>2. CASE LeaveLog
  <2>1. tails' = ClosedTail(reader.stream) /\ "stream" \in DOMAIN reader' /\ sent' = sent
    BY <1>2 DEF LeaveLog, TailsInv
  <2> QED
    BY <2>1, PageCloses
<1> QED
  BY <1>1, <1>2 DEF SwitchSource, ReturnToLog

(* A stream comes to the page: it reads it, or closes it.                   *)
LEMMA TakeStreamKeeps ==
  ASSUME TailsInv, NEW m \in sent, TakeStream(m)
  PROVE  TailsInv'
<1>1. m.kind = "stream" /\ m.stream \in 1 .. MaxStreams /\ "stream" \in DOMAIN reader
  BY DEF TakeStream, TailsInv
<1>2. CASE m.asked = ask /\ m.source = reader.source /\ reader.stream = 0
  <2>1. UNCHANGED tails /\ "stream" \in DOMAIN reader' /\ reader'.stream = m.stream
    BY <1>1, <1>2 DEF TakeStream
  <2>2. /\ \A o \in sent' : o \in sent \/ (o.kind = "wait" /\ o.stream = m.stream)
        /\ \A o \in sent : o # m => o \in sent'
    BY <1>2 DEF TakeStream, Swapped
  <2>3. \A i \in 1 .. MaxStreams :
          \/ reader'.stream = i
          \/ reader.stream # i /\ \A o \in sent : o.kind = "stream" /\ o.stream = i => o \in sent'
    <3>1. \A i \in 1 .. MaxStreams : i # 0
      OBVIOUS
    <3> QED
      BY <1>2, <2>1, <2>2, <3>1
  <2> QED
    BY <1>1, <2>1, <2>2, <2>3, TailsKeep DEF TailsInv
<1>3. CASE ~(m.asked = ask /\ m.source = reader.source /\ reader.stream = 0)
  <2>1. tails' = ClosedTail(m.stream) /\ sent' = sent \ {m} /\ reader' = reader
    BY <1>3 DEF TakeStream, Dropped
  <2>2. /\ DOMAIN tails' = 1 .. MaxStreams /\ \A i \in 1 .. MaxStreams : IsTail(tails'[i])
        /\ \A i \in 1 .. MaxStreams : /\ tails'[i] = tails[i] \/ tails'[i].ctx = "cancelled"
                                      /\ i = m.stream => tails'[i].ctx = "cancelled"
    BY <2>1, ClosedTailIs
  <2>3. \A i \in 1 .. MaxStreams :
          \/ tails'[i].ctx = "cancelled"
          \/ tails'[i].ctx = tails[i].ctx /\ (tails[i].shut => tails'[i].shut)
    BY <2>2
  <2>4. \A i \in 1 .. MaxStreams :
          \/ tails'[i].ctx # "live" \/ tails'[i].shut \/ reader'.stream = i
          \/ /\ reader.stream # i
             /\ \A o \in sent : o.kind = "stream" /\ o.stream = i => o \in sent'
    BY <2>1, <2>2
  <2> QED
    BY <1>1, <2>1, <2>2, <2>3, <2>4, TailsKeep
<1> QED
  BY <1>2, <1>3

(* What is read of a stream, or of an earlier part.                         *)
LEMMA TakeReadKeeps ==
  ASSUME TailsInv, NEW m \in sent, TakeLines(m) \/ TakePart(m)
  PROVE  TailsInv'
<1>1. UNCHANGED tails /\ m.kind \in {"lines", "part"} /\ "stream" \in DOMAIN reader
      /\ (m.kind = "lines" => m.stream \in 1 .. MaxStreams)
  BY DEF TakeLines, TakePart, TailsInv
<1>2. /\ \A o \in sent' : o \in sent \/ (m.kind = "lines" /\ o.kind = "wait" /\ o.stream = m.stream)
      /\ \A o \in sent : o # m => o \in sent'
  BY DEF TakeLines, TakePart, Swapped, Dropped
<1>3. "stream" \in DOMAIN reader' /\ reader'.stream = reader.stream
  <2>1. CASE TakeLines(m) /\ m.asked = ask /\ m.stream = reader.stream
    <3> DEFINE told == [reader EXCEPT
                 !.before = IF @ = NoMark THEN m.start ELSE @,
                 !.more = IF reader.before = NoMark THEN ~AtStart(m.start) ELSE @]
    <3>1. reader' = Added(told, m.lines)
      BY <2>1 DEF TakeLines
    <3>2. "stream" \in DOMAIN told /\ told.stream = reader.stream
      BY <1>1
    <3> HIDE DEF told
    <3> QED
      BY <3>1, <3>2 DEF Added
  <2>2. CASE TakeLines(m) /\ ~(m.asked = ask /\ m.stream = reader.stream)
    BY <1>1, <2>2 DEF TakeLines
  <2>3. CASE TakePart(m)
    BY <1>1, <2>3 DEF TakePart
  <2> QED
    BY <2>1, <2>2, <2>3
<1> QED
  BY <1>1, <1>2, <1>3, TailsAside

(* The end of a stream: nothing of it is left open.                         *)
LEMMA TakeEndKeeps ==
  ASSUME TailsInv, NEW m \in sent, TakeEnd(m)
  PROVE  TailsInv'
<1>1. /\ m.kind = "end" /\ UNCHANGED tails /\ sent' = sent \ {m} /\ m.stream \in 1 .. MaxStreams
      /\ tails[m.stream].shut \/ tails[m.stream].ctx = "cancelled"
  BY DEF TakeEnd, Dropped, TailsInv
<1>2. "stream" \in DOMAIN reader'
      /\ (reader'.stream = reader.stream \/ (reader'.stream = 0 /\ reader.stream = m.stream))
  BY DEF TakeEnd, TailsInv
<1>3. \A i \in 1 .. MaxStreams :
        \/ tails'[i].ctx # "live" \/ tails'[i].shut \/ reader'.stream = i
        \/ /\ reader.stream # i
           /\ \A o \in sent : o.kind = "stream" /\ o.stream = i => o \in sent'
  BY <1>1, <1>2
<1> QED
  BY <1>1, <1>2, <1>3, TailsKeep DEF TailsInv

LEMMA TailsStep == TailsInv /\ [TaskLogNext]_taskLogVars => TailsInv'
<1> SUFFICES ASSUME TailsInv, [TaskLogNext]_taskLogVars PROVE TailsInv'
  OBVIOUS
<1>1. CASE \/ \E source \in Sources, break \in BOOLEAN : Write(source, break)
           \/ Dies \/ ReadEarlier \/ UNCHANGED taskLogVars
  BY <1>1, TaskMoves
<1>2. CASE \E i \in 1 .. MaxStreams : FrameComes(i) \/ FramesEnd(i) \/ Quits(i)
  BY <1>2, TailMoves
<1>3. CASE \E m \in sent : Answers(m) \/ Arrives(m) \/ LogEndUnread(m) \/ LogFails(m)
  BY <1>3, OpenLogKeeps, TaskAnswered, TailComes, TakeStreamKeeps, TakeReadKeeps, TakeEndKeeps
     DEF Answers, Arrives
<1>4. CASE (\E source \in Sources : SwitchSource(source)) \/ LeaveLog \/ ReturnToLog
  BY <1>4, PersonLeaves
<1> QED
  BY <1>1, <1>2, <1>3, <1>4 DEF TaskLogNext

LEMMA TailsFirst == TaskLogInit => TailsInv
<1> SUFFICES ASSUME TaskLogInit PROVE TailsInv
  OBVIOUS
<1>1. tails = [i \in 1 .. MaxStreams |-> NoTail]
  BY DEF TaskLogInit
<1>2. DOMAIN tails = 1 .. MaxStreams /\ \A i \in 1 .. MaxStreams : tails[i] = NoTail
  BY <1>1
<1>3. "stream" \in DOMAIN reader
  BY DEF TaskLogInit, NotRead
<1>4. \A m \in sent : m.kind = "info"
  BY DEF TaskLogInit
<1> QED
  BY <1>2, <1>3, <1>4, NoTailIs DEF TailsInv, NoTailLeft

(* Every stream of the log of a task is read by the page, on its way to it  *)
(* or ended: whatever was left, opened again or switched while it opened,   *)
(* no request goes on that nobody reads (letGo, release, closeStream).      *)
THEOREM NoTailStays == TaskLogInit /\ [][TaskLogNext]_taskLogVars => []NoTailLeft
<1>1. TailsInv => NoTailLeft
  BY DEF TailsInv
<1> QED
  BY <1>1, TailsFirst, TailsStep, PTL

(* Of both pages at once: no stream of a log goes on that nobody reads.     *)
THEOREM NoLogStreamStays == LogsSpec => []NoLogStreamLeft
<1>1. LogsSpec => (TaskLogInit /\ [][TaskLogNext]_taskLogVars)
                  /\ (JobLogsInit /\ [][JobLogsNext]_jobLogsVars)
  BY DEF LogsSpec, LogsInit
<1>2. NoTailLeft /\ NoJobStreamLeft => NoLogStreamLeft
  BY DEF NoLogStreamLeft
<1> QED
  BY <1>1, <1>2, NoTailStays, NoJobStreamStays, PTL

-----------------------------------------------------------------------------
(* TaskLog: the text of a log is the log.                                   *)

(* A break at a place of a log, a place where a line begins, and one that   *)
(* is not the break of the line before it.                                  *)
BreakAt(log, p) == p < Len(log) /\ log[p + 1]
Edge(log, p) == p = 0 \/ (p > 0 /\ BreakAt(log, p - 1))
Fair(log, p) == Edge(log, p) \/ (p < Len(log) /\ ~BreakAt(log, p))

LogLine == [source : Sources, from : Nat, to : Nat, ends : Nat, timed : BOOLEAN]
LogMark == [source : Sources, file : Nat, offset : Nat]
LogSpan == [from : Nat, to : Nat]

(* A line of a log, and where the next one begins.                          *)
LineOf(log, line) ==
  line.from <= line.to /\ line.to <= Len(log) /\ \A p \in line.from .. line.to - 1 : ~BreakAt(log, p)
Follows(log, to, p) ==
  \/ BreakAt(log, to) /\ p = to + 1
  \/ to < Len(log) /\ ~BreakAt(log, to) /\ p = to

(* Lines of a log that follow one another.                                  *)
Chained(source, log, lines) ==
  /\ lines \in Seq(LogLine)
  /\ \A i \in 1 .. Len(lines) : lines[i].source = source /\ LineOf(log, lines[i])
  /\ \A i \in 1 .. Len(lines) - 1 : Follows(log, lines[i].to, lines[i + 1].from)

(* A mark that a text may be read before.                                   *)
MarkIn(source, log, mark) ==
  mark \in LogMark /\ mark.source = source /\ PlaceOf(mark) <= Len(log) /\ Fair(log, PlaceOf(mark))

(* What a stream holds: of its log, up to the place it was sent to.         *)
Held(log, st) ==
  /\ st.at <= Len(log)
  /\ Size(st.held) >= 0 /\ Size(st.chunk) >= 0 /\ st.chunk.to <= st.at /\ st.held.to <= st.at
  /\ Size(st.held) > 0 => /\ st.held.to = st.at /\ ~st.unended /\ ~st.shut
                          /\ \A p \in st.held.from .. st.held.to - 1 : ~BreakAt(log, p)
  /\ Size(st.chunk) > 0 /\ Size(st.held) > 0 =>
       st.chunk.to = st.held.from /\ BreakAt(log, st.chunk.to - 1)
  /\ Size(st.chunk) > 0 /\ Size(st.held) = 0 =>
       st.chunk.to = st.at /\ (~st.shut => (st.unended <=> ~BreakAt(log, st.at - 1)))

(* The first of the log that the page has not been given yet.               *)
Ahead(st) ==
  IF Size(st.chunk) > 0 THEN st.chunk.from ELSE IF Size(st.held) > 0 THEN st.held.from ELSE st.at

(* Where a stream began, and where its next frame begins.                   *)
Begun(log, st) ==
  /\ st.fresh => /\ st.next = NoMark /\ st.start = NoMark /\ ~st.cut
  /\ ~st.fresh => /\ st.next \in LogMark /\ st.next.source = st.source /\ PlaceOf(st.next) = st.at
                  /\ st.at > 0 /\ st.next.file = (st.at - 1) \div FileSize
  /\ st.start = NoMark => /\ Size(st.chunk) = 0 /\ Size(st.held) = 0 /\ ~st.unended
                          /\ st.given = 0
                          /\ st.fresh \/ st.cut \/ Edge(log, st.at)
  /\ st.start # NoMark => /\ st.start \in LogMark /\ st.start.source = st.source
                          /\ ~st.cut /\ Edge(log, PlaceOf(st.start)) /\ PlaceOf(st.start) <= Ahead(st)

(* What of the log was there when it was opened.                            *)
EndKnown(log, st) ==
  /\ st.opened - LogTail <= st.at /\ st.ended <= st.opened /\ st.opened <= Len(log)
  /\ st.finished => st.opened = Len(log)
  /\ ~st.finished => IF st.ended = 0 THEN st.end = NoMark
                     ELSE /\ st.end \in LogMark /\ PlaceOf(st.end) = st.ended
                          /\ st.end.offset \in 1 .. FileSize

(* What was there when the log was opened goes out first.                   *)
Counted(st) ==
  st.start # NoMark =>
    LET from == PlaceOf(st.start)
    IN  /\ st.opened - LogTail <= from
        /\ st.given <= st.there /\ st.given <= Ahead(st) - from
        /\ st.finished => st.there = EveryByte
        /\ ~st.finished => /\ st.there = IF st.ended > from THEN st.ended - from ELSE 0
                           /\ st.given \in {Ahead(st) - from, st.there}
                           /\ st.unended => IF Size(st.chunk) > 0 THEN Size(st.chunk) > LogTail
                                            ELSE st.given = st.there

TailShape ==
  [ctx : {"live"}, source : Sources, finished : BOOLEAN, at : Nat, fresh : BOOLEAN,
   held : LogSpan, unended : BOOLEAN, cut : BOOLEAN, next : LogMark \cup {NoMark},
   chunk : LogSpan, shut : BOOLEAN, err : BOOLEAN,
   end : LogMark \cup {NoMark}, start : LogMark \cup {NoMark}, there : Nat, given : Nat,
   ended : Nat, opened : Nat]

TailOK(log, st) ==
  st \in TailShape /\ Held(log, st) /\ Begun(log, st) /\ EndKnown(log, st) /\ Counted(st)

(* What is ahead follows the line that was given last; and of a stream that *)
(* has given none, it is where it began.                                    *)
Joins(log, st, to) ==
  /\ st.start # NoMark
  /\ Size(st.chunk) + Size(st.held) > 0 => Follows(log, to, Ahead(st))
  /\ Size(st.chunk) + Size(st.held) = 0 /\ ~st.shut =>
       IF st.unended THEN to = st.at ELSE to = st.at - 1 /\ BreakAt(log, to)
Untold(st) ==
  \/ st.start = NoMark
  \/ Ahead(st) = PlaceOf(st.start) /\ Size(st.chunk) + Size(st.held) > 0

(* The streams and messages of the page.                                    *)
Brings(m) == m.kind \in {"stream", "wait", "lines", "end"}
Opening(m) == m.kind \in {"info", "open", "stream"}
Earlier(m) == m.kind \in {"back", "listed", "part"}

LogsTyped ==
  /\ logs \in [Sources -> Seq(BOOLEAN)] /\ \A s \in Sources : Bytes(s) <= MaxBytes[s]
  /\ dead \in BOOLEAN /\ ask \in Nat /\ switches \in Nat /\ DOMAIN tails = 1 .. MaxStreams

TailsOK ==
  \A i \in 1 .. MaxStreams : tails[i].ctx = "live" =>
    TailOK(logs[tails[i].source], tails[i]) /\ (tails[i].finished => dead)

Tokens ==
  /\ \A i \in 1 .. MaxStreams : tails[i] = NoTail \/ tails[i].ctx \in {"live", "cancelled"}
  /\ \A m \in sent : Brings(m) => m.stream \in 1 .. MaxStreams /\ tails[m.stream].ctx # "none"
  /\ \A m, n \in sent : Brings(m) /\ Brings(n) /\ m.stream = n.stream => m = n
  /\ \A m \in sent : m.kind = "stream" => /\ tails[m.stream].ctx = "live"
                                          /\ tails[m.stream].source = m.source
                                          /\ tails[m.stream].fresh
  /\ reader.stream # 0 => /\ reader.stream \in 1 .. MaxStreams
                          /\ tails[reader.stream].ctx = "live"
                          /\ tails[reader.stream].source = reader.source
                          /\ \A m \in sent : Brings(m) /\ m.stream = reader.stream =>
                               m.kind # "stream" /\ m.asked = ask

(* What an answer says of the end of a log.                                 *)
EndRead(m) ==
  m.kind = "open" =>
    /\ m.ended <= Bytes(m.source) /\ m.ended \in Nat /\ m.finished \in BOOLEAN
    /\ m.finished => dead /\ m.ended = Bytes(m.source)
    /\ ~m.finished => IF m.ended = 0 THEN m.end = NoMark
                      ELSE /\ m.end \in LogMark /\ PlaceOf(m.end) = m.ended
                           /\ m.end.offset \in 1 .. FileSize
    /\ m.end \in LogMark \cup {NoMark}

Openers ==
  /\ \A m \in sent : m.asked <= ask /\ m.asked \in Nat /\ (Opening(m) => m.source \in Sources)
  /\ \A m, n \in sent : Opening(m) /\ Opening(n) /\ m.asked = n.asked /\ m.source = n.source => m = n
  /\ \A m \in sent : Opening(m) /\ m.asked = ask /\ m.source = reader.source =>
       reader = NotRead(reader.source)
  /\ \A m \in sent : EndRead(m)

PartOK(log, at, part) ==
  /\ Chained(at.source, log, part.lines)
  /\ IF part.lines = <<>> THEN part.from = at
     ELSE /\ MarkIn(at.source, log, part.from) /\ part.lines[1].from = PlaceOf(part.from)
          /\ Follows(log, part.lines[Len(part.lines)].to, PlaceOf(at))

(* A read of the log before a mark, and what came of it.                    *)
EarlierOK(m) ==
  /\ m.at.source \in Sources /\ MarkIn(m.at.source, logs[m.at.source], m.at)
  /\ m.kind # "part" => m.room \in Nat \ {0}
  /\ m.kind = "listed" => m.oldest \in Nat
  /\ m.kind = "part" => m.failed \in BOOLEAN
  /\ m.kind = "part" /\ ~m.failed => PartOK(logs[m.at.source], m.at, m.part)

Parts == \A m \in sent : Earlier(m) => EarlierOK(m)

ReaderShape ==
  [source : Sources, stream : Nat, finished : BOOLEAN, before : LogMark \cup {NoMark},
   more : BOOLEAN, asking : BOOLEAN, lines : Seq(LogLine), dropped : BOOLEAN]

Page ==
  LET log == logs[reader.source]
      text == reader.lines
  IN  /\ reader \in ReaderShape
      /\ Chained(reader.source, log, text) /\ Len(text) <= MaxTextLines
      /\ (reader.before = NoMark) <=> (text = <<>>)
      /\ reader.before = NoMark => ~reader.more
      /\ reader.before # NoMark => MarkIn(reader.source, log, reader.before)
      /\ text # <<>> /\ ~reader.dropped => PlaceOf(reader.before) = text[1].from

(* What the stream that is read has given, and what it has ahead.           *)
Given ==
  LET log == logs[reader.source]
      text == reader.lines
      st == tails[reader.stream]
  IN  \A m \in sent : m.kind \in {"wait", "lines"} /\ m.stream = reader.stream =>
        /\ m.kind = "wait" =>
             IF text = <<>> THEN Untold(st) ELSE Joins(log, st, text[Len(text)].to)
        /\ m.kind = "lines" =>
             /\ Chained(reader.source, log, m.lines) /\ m.lines # <<>> /\ m.start = st.start
             /\ Joins(log, st, m.lines[Len(m.lines)].to)
             /\ IF text = <<>> THEN m.lines[1].from = PlaceOf(st.start)
                ELSE Follows(log, text[Len(text)].to, m.lines[1].from)

TextInv == LogsTyped /\ TailsOK /\ Tokens /\ Openers /\ Parts /\ Page /\ Given /\ OldHaveNoTime

(* Places of a log, as files and offsets.                                   *)
LEMMA SizesAre ==
  /\ FileSize \in Nat \ {0} /\ LogTail \in Nat \ {0} /\ LogStep \in Nat \ {0, 1}
  /\ MaxTextLines \in Nat \ {0} /\ KeptFiles \in Nat \ {0} /\ LogTail <= FileSize
BY TaskLogAssumption

LEMMA DivIs ==
  ASSUME NEW p \in Nat, NEW f \in Nat \ {0}
  PROVE  /\ p \div f \in Nat /\ p % f \in 0 .. f - 1 /\ p = ((p \div f) * f) + (p % f)
OBVIOUS

LEMMA TimesIs ==
  ASSUME NEW j \in Nat, NEW k \in Nat
  PROVE  /\ j <= k => j * FileSize <= k * FileSize
         /\ j < k => j * FileSize + FileSize <= k * FileSize
         /\ (k + 1) * FileSize = k * FileSize + FileSize
BY SizesAre

LEMMA FileIs ==
  ASSUME NEW p \in Nat, NEW k \in Nat
  PROVE  /\ k * FileSize \in Nat
         /\ k * FileSize <= p /\ p < k * FileSize + FileSize => p \div FileSize = k /\ p % FileSize = p - k * FileSize
         /\ p \div FileSize = k => k * FileSize <= p /\ p < k * FileSize + FileSize
<1> DEFINE q == p \div FileSize
           r == p % FileSize
<1>1. q \in Nat /\ r \in 0 .. FileSize - 1 /\ p = (q * FileSize) + r /\ FileSize \in Nat \ {0}
  BY SizesAre, DivIs
<1> HIDE DEF q, r
<1>2. k * FileSize \in Nat /\ q * FileSize \in Nat
  BY <1>1
<1>3. k * FileSize <= p /\ p < k * FileSize + FileSize => ~(q < k) /\ ~(k < q)
  BY <1>1, <1>2, TimesIs
<1>4. k * FileSize <= p /\ p < k * FileSize + FileSize => q = k
  BY <1>1, <1>3
<1>5. q = k => r = p - k * FileSize /\ k * FileSize <= p /\ p < k * FileSize + FileSize
  BY <1>1, <1>2
<1>6. p \div FileSize = q /\ p % FileSize = r
  BY DEF q, r
<1> QED
  BY <1>2, <1>4, <1>5, <1>6

(* A log only grows.                                                        *)
Grows(log, new) ==
  /\ log \in Seq(BOOLEAN) /\ new \in Seq(BOOLEAN)
  /\ Len(log) <= Len(new) /\ \A p \in 1 .. Len(log) : new[p] = log[p]

LEMMA BreaksStay ==
  ASSUME NEW log, NEW new, Grows(log, new)
  PROVE  /\ Len(log) \in Nat /\ Len(new) \in Nat /\ Len(log) <= Len(new)
         /\ \A p \in Nat : p < Len(log) => BreakAt(new, p) = BreakAt(log, p)
<1>1. Len(log) \in Nat /\ Len(new) \in Nat
  BY DEF Grows
<1>2. ASSUME NEW p \in Nat, p < Len(log) PROVE BreakAt(new, p) = BreakAt(log, p)
  <2>1. p + 1 \in 1 .. Len(log) /\ p < Len(new)
    BY <1>1, <1>2 DEF Grows
  <2>2. new[p + 1] = log[p + 1]
    BY <2>1 DEF Grows
  <2> QED
    BY <1>2, <2>1, <2>2 DEF BreakAt
<1> QED
  BY <1>1, <1>2 DEF Grows

LEMMA EdgesStay ==
  ASSUME NEW log, NEW new, Grows(log, new), NEW p \in Nat
  PROVE  (Edge(log, p) => Edge(new, p)) /\ (Fair(log, p) => Fair(new, p))
<1>1. /\ Len(log) \in Nat /\ Len(new) \in Nat /\ Len(log) <= Len(new)
      /\ \A q \in Nat : q < Len(log) => BreakAt(new, q) = BreakAt(log, q)
  BY BreaksStay
<1>2. Edge(log, p) => Edge(new, p)
  <2> SUFFICES ASSUME p > 0, BreakAt(log, p - 1) PROVE BreakAt(new, p - 1)
    BY DEF Edge
  <2>1. p - 1 \in Nat /\ p - 1 < Len(log)
    BY DEF BreakAt
  <2> QED
    BY <1>1, <2>1
<1> QED
  BY <1>1, <1>2 DEF Fair

LEMMA FollowsStay ==
  ASSUME NEW log, NEW new, Grows(log, new), NEW to \in Nat, NEW p, Follows(log, to, p)
  PROVE  Follows(new, to, p)
<1>1. to < Len(log)
  BY DEF Follows, BreakAt
<1> QED
  BY <1>1, BreaksStay DEF Follows

LEMMA LinesStay ==
  ASSUME NEW log, NEW new, Grows(log, new), NEW line \in LogLine, LineOf(log, line)
  PROVE  LineOf(new, line)
<1>1. line.from \in Nat /\ line.to \in Nat
  BY DEF LogLine
<1>2. ASSUME NEW p \in line.from .. line.to - 1 PROVE ~BreakAt(new, p)
  <2>1. p \in Nat /\ p < Len(log) /\ ~BreakAt(log, p)
    BY <1>1, BreaksStay DEF LineOf
  <2> QED
    BY <2>1, BreaksStay
<1> QED
  BY <1>1, <1>2, BreaksStay DEF LineOf

LEMMA ChainStays ==
  ASSUME NEW log, NEW new, Grows(log, new), NEW source, NEW lines, Chained(source, log, lines)
  PROVE  Chained(source, new, lines)
<1>1. lines \in Seq(LogLine)
  BY DEF Chained
<1>2. ASSUME NEW i \in 1 .. Len(lines) PROVE LineOf(new, lines[i])
  BY <1>1, LinesStay DEF Chained
<1>3. ASSUME NEW i \in 1 .. Len(lines) - 1 PROVE Follows(new, lines[i].to, lines[i + 1].from)
  <2>1. Follows(log, lines[i].to, lines[i + 1].from) /\ lines[i] \in LogLine
    BY <1>1 DEF Chained
  <2>2. lines[i].to \in Nat
    BY <2>1 DEF LogLine
  <2> QED
    BY <2>1, <2>2, FollowsStay
<1> QED
  BY <1>1, <1>2, <1>3 DEF Chained

LEMMA MarkNat ==
  ASSUME NEW mark \in LogMark
  PROVE  PlaceOf(mark) \in Nat /\ mark.source \in Sources /\ mark # NoMark /\ mark.file \in Nat
         /\ mark.offset \in Nat /\ mark.file * FileSize \in Nat
<1>1. mark.source \in Sources /\ mark.file \in Nat /\ mark.offset \in Nat
  BY DEF LogMark
<1>2. mark.file * FileSize \in Nat
  BY <1>1, SizesAre
<1>3. NoMark.source \notin Sources
  BY TaskLogAssumption DEF NoMark
<1> QED
  BY <1>1, <1>2, <1>3 DEF PlaceOf

LEMMA MarkStays ==
  ASSUME NEW log, NEW new, Grows(log, new), NEW source, NEW mark, MarkIn(source, log, mark)
  PROVE  MarkIn(source, new, mark)
<1>1. PlaceOf(mark) \in Nat
  BY MarkNat DEF MarkIn
<1> QED
  BY <1>1, EdgesStay, BreaksStay DEF MarkIn

LEMMA ShapeIs ==
  ASSUME NEW st \in TailShape
  PROVE  /\ st.source \in Sources /\ st.at \in Nat /\ st.opened \in Nat /\ st.ended \in Nat
         /\ st.there \in Nat /\ st.given \in Nat
         /\ st.held.from \in Nat /\ st.held.to \in Nat /\ st.chunk.from \in Nat /\ st.chunk.to \in Nat
         /\ Size(st.held) \in Int /\ Size(st.chunk) \in Int
         /\ st.unended \in BOOLEAN /\ st.cut \in BOOLEAN /\ st.fresh \in BOOLEAN
         /\ st.shut \in BOOLEAN /\ st.finished \in BOOLEAN /\ st.err \in BOOLEAN
         /\ st.start # NoMark => st.start \in LogMark
         /\ st.next # NoMark => st.next \in LogMark
         /\ st.end # NoMark => st.end \in LogMark
         /\ st.held \in LogSpan /\ st.chunk \in LogSpan /\ st.ctx = "live"
<1>1. st.held \in LogSpan /\ st.chunk \in LogSpan
  BY DEF TailShape
<1>2. \A span \in LogSpan : span.from \in Nat /\ span.to \in Nat /\ Size(span) \in Int
  BY DEF LogSpan, Size
<1> QED
  BY <1>1, <1>2 DEF TailShape

LEMMA TailStays ==
  ASSUME NEW log, NEW new, Grows(log, new), NEW st, TailOK(log, st), ~st.finished \/ new = log
  PROVE  TailOK(new, st)
<1>1. /\ Len(log) \in Nat /\ Len(new) \in Nat /\ Len(log) <= Len(new)
      /\ \A q \in Nat : q < Len(log) => BreakAt(new, q) = BreakAt(log, q)
  BY BreaksStay
<1>2. /\ st.at \in Nat /\ st.held.from \in Nat /\ st.held.to \in Nat /\ st.chunk.from \in Nat
      /\ st.chunk.to \in Nat /\ st.opened \in Nat
      /\ st.start # NoMark => st.start \in LogMark
  BY ShapeIs DEF TailOK
<1>3. Held(log, st) /\ st.at <= Len(log)
  BY DEF TailOK, Held
<1>4. ASSUME Size(st.held) > 0, NEW p \in st.held.from .. st.held.to - 1 PROVE ~BreakAt(new, p)
  <2>1. ~BreakAt(log, p) /\ st.held.to = st.at
    BY <1>3, <1>4 DEF Held
  <2>2. p \in Nat /\ p < Len(log)
    BY <1>1, <1>2, <1>3, <2>1
  <2> QED
    BY <1>1, <2>1, <2>2
<1>5. Size(st.chunk) > 0 => /\ BreakAt(new, st.chunk.to - 1) = BreakAt(log, st.chunk.to - 1)
                            /\ BreakAt(new, st.at - 1) = BreakAt(log, st.at - 1)
  <2> SUFFICES ASSUME Size(st.chunk) > 0
               PROVE  /\ BreakAt(new, st.chunk.to - 1) = BreakAt(log, st.chunk.to - 1)
                      /\ BreakAt(new, st.at - 1) = BreakAt(log, st.at - 1)
    OBVIOUS
  <2>1. st.chunk.to <= st.at /\ st.chunk.to > st.chunk.from
    BY <1>2, <1>3 DEF Held, Size
  <2>2. st.chunk.to - 1 \in Nat /\ st.chunk.to - 1 < Len(log) /\ st.at - 1 \in Nat /\ st.at - 1 < Len(log)
    BY <1>1, <1>2, <1>3, <2>1
  <2> QED
    BY <1>1, <2>2
<1>6. Held(new, st)
  BY <1>1, <1>2, <1>3, <1>4, <1>5 DEF Held
<1>7. Begun(new, st)
  <2>1. Edge(log, st.at) => Edge(new, st.at)
    BY <1>2, EdgesStay
  <2>2. st.start # NoMark => (Edge(log, PlaceOf(st.start)) => Edge(new, PlaceOf(st.start)))
    BY <1>2, MarkNat, EdgesStay
  <2>3. Begun(log, st)
    BY DEF TailOK
  <2> QED
    BY <2>1, <2>2, <2>3 DEF Begun
<1>8. EndKnown(new, st)
  BY <1>1, <1>2 DEF TailOK, EndKnown
<1> QED
  BY <1>6, <1>7, <1>8 DEF TailOK

LEMMA JoinStays ==
  ASSUME NEW log, NEW new, Grows(log, new), NEW st \in TailShape, NEW to \in Nat, Joins(log, st, to)
  PROVE  Joins(new, st, to)
<1>1. Follows(log, to, Ahead(st)) => Follows(new, to, Ahead(st))
  BY FollowsStay
<1>2. BreakAt(log, to) => BreakAt(new, to)
  <2>1. BreakAt(log, to) => to < Len(log)
    BY DEF BreakAt
  <2>2. to < Len(log) => BreakAt(new, to) = BreakAt(log, to)
    BY BreaksStay
  <2> QED
    BY <2>1, <2>2
<1> QED
  BY <1>1, <1>2 DEF Joins

LEMMA PartStays ==
  ASSUME NEW log, NEW new, Grows(log, new), NEW at \in LogMark, NEW part, PartOK(log, at, part)
  PROVE  PartOK(new, at, part)
<1>1. Chained(at.source, new, part.lines)
  BY ChainStays DEF PartOK
<1>2. ASSUME part.lines # <<>>
      PROVE  /\ MarkIn(at.source, new, part.from)
             /\ Follows(new, part.lines[Len(part.lines)].to, PlaceOf(at))
  <2>1. part.lines \in Seq(LogLine) /\ part.lines[Len(part.lines)] \in LogLine
    BY <1>2, <1>1 DEF Chained
  <2>2. part.lines[Len(part.lines)].to \in Nat
    BY <2>1 DEF LogLine
  <2> QED
    BY <1>2, <2>2, FollowsStay, MarkStays DEF PartOK
<1> QED
  BY <1>1, <1>2 DEF PartOK

(* A finite set of places in their order, each by how many are not after it.*)
InOrder(S) == [n \in 1 .. Cardinality(S) |-> CHOOSE s \in S : Cardinality({t \in S : t <= s}) = n]

LEMMA InOrderIs ==
  ASSUME NEW S \in SUBSET Nat, IsFiniteSet(S)
  PROVE  /\ Cardinality(S) \in Nat
         /\ \A i \in 1 .. Cardinality(S) : InOrder(S)[i] \in S
         /\ \A i, j \in 1 .. Cardinality(S) : i < j => InOrder(S)[i] < InOrder(S)[j]
         /\ \A s \in S : \E i \in 1 .. Cardinality(S) : InOrder(S)[i] = s
<1> DEFINE count == Cardinality(S)
           UpTo(s) == {t \in S : t <= s}
           rank == [s \in S |-> Cardinality(UpTo(s))]
<1>1. count \in Nat
  BY FS_CardinalityType
<1>2. ASSUME NEW s \in S PROVE IsFiniteSet(UpTo(s)) /\ Cardinality(UpTo(s)) \in 1 .. count
  <2>1. UpTo(s) \in SUBSET S /\ UpTo(s) # {}
    OBVIOUS
  <2> HIDE DEF UpTo
  <2>2. IsFiniteSet(UpTo(s)) /\ Cardinality(UpTo(s)) <= count
    BY <2>1, FS_Subset
  <2>3. Cardinality(UpTo(s)) \in Nat /\ Cardinality(UpTo(s)) # 0
    BY <2>1, <2>2, FS_CardinalityType, FS_EmptySet
  <2> QED
    BY <1>1, <2>2, <2>3
<1>0. \A s \in S : s \in Nat
  OBVIOUS
<1>3. ASSUME NEW s \in S, NEW t \in S, s < t PROVE Cardinality(UpTo(s)) < Cardinality(UpTo(t))
  <2>0. \A x \in S : x \in Nat /\ (x <= s => x <= t) /\ s \in Nat /\ t \in Nat
    BY <1>3, <1>0
  <2>1. UpTo(s) \in SUBSET UpTo(t) /\ t \in UpTo(t) /\ t \notin UpTo(s)
    <3>1. UpTo(s) \in SUBSET UpTo(t)
      BY <2>0
    <3>2. t <= t /\ ~(t <= s)
      BY <1>3, <2>0
    <3> QED
      BY <3>1, <3>2
  <2>2. /\ IsFiniteSet(UpTo(t)) /\ Cardinality(UpTo(s)) \in 1 .. count
        /\ Cardinality(UpTo(t)) \in 1 .. count
    BY <1>2
  <2> HIDE DEF UpTo
  <2>3. Cardinality(UpTo(s)) <= Cardinality(UpTo(t)) /\ Cardinality(UpTo(s)) # Cardinality(UpTo(t))
    BY <2>1, <2>2, FS_Subset
  <2> QED
    BY <2>2, <2>3
<1>4. ASSUME NEW i \in 1 .. count PROVE \E s \in S : Cardinality(UpTo(s)) = i
  <2> SUFFICES ASSUME \A s \in S : Cardinality(UpTo(s)) # i PROVE FALSE
    OBVIOUS
  <2>1. rank \in [S -> (1 .. count) \ {i}]
    <3>1. \A s \in S : Cardinality(UpTo(s)) \in (1 .. count) \ {i}
      BY <1>2
    <3> HIDE DEF UpTo
    <3> QED
      BY <3>1
  <2>2. IsFiniteSet((1 .. count) \ {i}) /\ Cardinality((1 .. count) \ {i}) < count
    <3>1. IsFiniteSet(1 .. count) /\ Cardinality(1 .. count) = count
      <4> HIDE DEF count
      <4> QED
        BY <1>1, FS_Interval
    <3>2. IsFiniteSet((1 .. count) \ {i}) /\ Cardinality((1 .. count) \ {i}) = count - 1
      BY <3>1, FS_RemoveElement
    <3> QED
      BY <1>1, <3>2
  <2>3. PICK s \in S, t \in S : s # t /\ rank[s] = rank[t]
    <3> HIDE DEF rank
    <3> QED
      BY <2>1, <2>2, FS_PigeonHole
  <2>4. Cardinality(UpTo(s)) = Cardinality(UpTo(t))
    <3> HIDE DEF UpTo
    <3> QED
      BY <2>3
  <2>5. Cardinality(UpTo(s)) \in 1 .. count /\ Cardinality(UpTo(t)) \in 1 .. count
    BY <1>2
  <2>6. s < t \/ t < s
    BY <2>3
  <2> HIDE DEF UpTo
  <2> QED
    BY <1>3, <2>4, <2>5, <2>6
<1> DEFINE At(i) == CHOOSE s \in S : Cardinality(UpTo(s)) = i
<1>5. \A i \in 1 .. count : At(i) \in S /\ Cardinality(UpTo(At(i))) = i
  <2> HIDE DEF UpTo
  <2> QED
    BY <1>4
<1>6. InOrder(S) = [i \in 1 .. count |-> At(i)]
  BY DEF InOrder
<1> HIDE DEF At, UpTo
<1>7. \A i \in 1 .. count : InOrder(S)[i] = At(i)
  BY <1>6
<1>8. ASSUME NEW i \in 1 .. count, NEW j \in 1 .. count, i < j PROVE At(i) < At(j)
  <2>1. /\ At(i) \in S /\ At(j) \in S /\ Cardinality(UpTo(At(i))) = i
        /\ Cardinality(UpTo(At(j))) = j
    BY <1>5
  <2>2. PICK a \in S, b \in S : a = At(i) /\ b = At(j)
    BY <2>1
  <2>3. Cardinality(UpTo(a)) = i /\ Cardinality(UpTo(b)) = j
    BY <2>1, <2>2
  <2>4. i \in Nat /\ j \in Nat
    BY <1>1
  <2>5. ~(b < a)
    BY <1>3, <1>8, <2>3, <2>4
  <2>6. a # b
    BY <1>8, <2>3, <2>4
  <2>7. a < b
    BY <1>0, <2>5, <2>6
  <2> QED
    BY <2>2, <2>7
<1>9. ASSUME NEW s \in S PROVE \E i \in 1 .. count : At(i) = s
  <2> DEFINE i == Cardinality(UpTo(s))
  <2>1. i \in 1 .. count
    BY <1>2
  <2>2. At(i) \in S /\ Cardinality(UpTo(At(i))) = i
    BY <1>5, <2>1
  <2>3. PICK t \in S : t = At(i)
    BY <2>2
  <2>4. Cardinality(UpTo(t)) = i /\ Cardinality(UpTo(s)) = i /\ i \in Nat
    BY <1>1, <2>1, <2>2, <2>3
  <2>5. ~(t < s) /\ ~(s < t)
    BY <1>3, <2>4
  <2>6. At(i) = s
    BY <1>0, <2>3, <2>5
  <2> QED
    BY <2>1, <2>6
<1> QED
  BY <1>1, <1>5, <1>7, <1>8, <1>9

LEMMA BreaksAre ==
  ASSUME NEW source, NEW span \in LogSpan, logs[source] \in Seq(BOOLEAN), span.to <= Bytes(source)
  PROVE  /\ Breaks(source, span) \in SUBSET (span.from .. span.to - 1)
         /\ \A p \in span.from .. span.to - 1 : p \in Breaks(source, span) <=> BreakAt(logs[source], p)
<1>1. span.from \in Nat /\ span.to \in Nat /\ Len(logs[source]) \in Nat
  BY DEF LogSpan
<1>2. \A p \in span.from .. span.to - 1 : BreakAt(logs[source], p) = logs[source][p + 1]
  <2> SUFFICES ASSUME NEW p \in span.from .. span.to - 1 PROVE BreakAt(logs[source], p) = logs[source][p + 1]
    OBVIOUS
  <2>1. p < Len(logs[source]) /\ p + 1 \in 1 .. Len(logs[source])
    BY <1>1 DEF Bytes
  <2>2. logs[source][p + 1] \in BOOLEAN
    BY <2>1
  <2> QED
    BY <2>1, <2>2 DEF BreakAt
<1> QED
  BY <1>2 DEF Breaks

(* The lines of a part of a log that is there.                              *)
LEMMA LinesAre ==
  ASSUME NEW source \in Sources, NEW span \in LogSpan, logs[source] \in Seq(BOOLEAN),
         span.from < span.to, span.to <= Bytes(source)
  PROVE  LET lines == LinesOf(source, span)
             log == logs[source]
             last == lines[Len(lines)]
         IN  /\ Chained(source, log, lines) /\ lines # <<>> /\ lines[1].from = span.from
             /\ \A i \in 1 .. Len(lines) : /\ ~lines[i].timed /\ lines[i].ends \in Nat
                                           /\ span.from < lines[i].ends /\ lines[i].ends <= span.to
             /\ \A i, j \in 1 .. Len(lines) : j <= i => lines[j].ends <= lines[i].ends
             /\ \A i \in 1 .. Len(lines) : i > 1 => Edge(log, lines[i].from)
             /\ last.to = IF BreakAt(log, span.to - 1) THEN span.to - 1 ELSE span.to
<1> DEFINE log == logs[source]
           breaks == Breaks(source, span)
           starts == {span.from} \cup {i + 1 : i \in breaks \ {span.to - 1}}
           count == Cardinality(starts)
           ToOf(start) == Min({span.to} \cup {i \in breaks : i >= start})
           LineAt(start) == [source |-> source, from |-> start, to |-> ToOf(start),
                             ends |-> Min({ToOf(start) + 1, span.to}), timed |-> FALSE]
           lines == LinesOf(source, span)
<1>1. span.from \in Nat /\ span.to \in Nat /\ Len(log) \in Nat /\ span.to <= Len(log)
  BY DEF LogSpan, Bytes
<1>2. /\ breaks \in SUBSET (span.from .. span.to - 1)
      /\ \A p \in span.from .. span.to - 1 : p \in breaks <=> BreakAt(log, p)
  BY BreaksAre
<1> HIDE DEF breaks
<1>3. /\ starts \in SUBSET (span.from .. span.to - 1)
      /\ span.from \in starts
      /\ \A b \in breaks : b + 1 < span.to => b + 1 \in starts
      /\ \A s \in starts : s = span.from \/ s - 1 \in breaks
  BY <1>1, <1>2
<1> HIDE DEF starts
<1>4. IsFiniteSet(starts) /\ starts \in SUBSET Nat /\ \A s \in starts : s \in Nat
  <2>1. IsFiniteSet(span.from .. span.to - 1)
    <3>1. PICK a \in Int, b \in Int : a = span.from /\ b = span.to - 1
      BY <1>1
    <3> QED
      BY <3>1, FS_Interval
  <2>2. \A s \in span.from .. span.to - 1 : s \in Nat
    BY <1>1
  <2> QED
    BY <1>3, <2>1, <2>2, FS_Subset
<1>5. /\ count \in Nat
      /\ \A i \in 1 .. count : InOrder(starts)[i] \in starts
      /\ \A i, j \in 1 .. count : i < j => InOrder(starts)[i] < InOrder(starts)[j]
      /\ \A s \in starts : \E i \in 1 .. count : InOrder(starts)[i] = s
  BY <1>4, InOrderIs
<1> DEFINE At(i) == InOrder(starts)[i]
<1>6. lines = [n \in 1 .. count |-> LineAt(At(n))]
  <2>1. Size(span) # 0
    BY <1>1 DEF Size
  <2>2. lines = [n \in 1 .. count |-> LineAt(CHOOSE s \in starts : Cardinality({t \in starts : t <= s}) = n)]
    BY <2>1 DEF LinesOf, starts, breaks
  <2>3. \A n \in 1 .. count : At(n) = CHOOSE s \in starts : Cardinality({t \in starts : t <= s}) = n
    BY DEF InOrder
  <2> HIDE DEF LineAt, At, lines
  <2>4. \A n \in 1 .. count : LineAt(At(n)) = LineAt(CHOOSE s \in starts : Cardinality({t \in starts : t <= s}) = n)
    BY <2>3
  <2> HIDE DEF count
  <2> QED
    BY <2>2, <2>4
<1>7. ASSUME NEW s \in starts
      PROVE  /\ ToOf(s) \in Nat /\ s <= ToOf(s) /\ ToOf(s) <= span.to
             /\ ToOf(s) # span.to => ToOf(s) \in breaks
             /\ \A b \in breaks : b >= s => ToOf(s) <= b
  <2> DEFINE S == {span.to} \cup {i \in breaks : i >= s}
  <2>1. s \in Nat /\ s < span.to
    BY <1>1, <1>3, <1>4
  <2>2. S \in SUBSET Nat /\ S # {} /\ \A n \in S : s <= n
    <3>1. \A b \in breaks : b \in Nat
      BY <1>1, <1>2
    <3> QED
      BY <1>1, <2>1, <3>1
  <2>3. span.to \in S /\ \A n \in S : n = span.to \/ n \in breaks
    OBVIOUS
  <2>4. \A b \in breaks : b >= s => b \in S
    OBVIOUS
  <2> HIDE DEF S
  <2>5. Min(S) \in S /\ \A n \in S : Min(S) <= n
    BY <2>2, MinIs
  <2>6. ToOf(s) = Min(S)
    BY DEF S
  <2> HIDE DEF ToOf
  <2> QED
    BY <2>2, <2>3, <2>4, <2>5, <2>6
<1> HIDE DEF ToOf
<1>8. ASSUME NEW s \in starts
      PROVE  /\ LineAt(s) \in LogLine /\ LineAt(s).source = source /\ LineOf(log, LineAt(s))
             /\ LineAt(s).ends = (IF ToOf(s) = span.to THEN span.to ELSE ToOf(s) + 1)
             /\ LineAt(s).from = s /\ LineAt(s).to = ToOf(s) /\ ~LineAt(s).timed
  <2>1. ToOf(s) \in Nat /\ s <= ToOf(s) /\ ToOf(s) <= span.to /\ s \in Nat /\ span.from <= s
    BY <1>1, <1>3, <1>4, <1>7
  <2>2. Min({ToOf(s) + 1, span.to}) = IF ToOf(s) = span.to THEN span.to ELSE ToOf(s) + 1
    <3>1. {ToOf(s) + 1, span.to} \in SUBSET Nat /\ {ToOf(s) + 1, span.to} # {}
      BY <1>1, <2>1
    <3>2. PICK least : least = Min({ToOf(s) + 1, span.to})
      OBVIOUS
    <3>3. least \in {ToOf(s) + 1, span.to} /\ \A n \in {ToOf(s) + 1, span.to} : least <= n
      BY <3>1, <3>2, MinIs
    <3> QED
      BY <1>1, <2>1, <3>2, <3>3
  <2>3. ASSUME NEW p \in s .. ToOf(s) - 1 PROVE ~BreakAt(log, p)
    <3>1. p \in span.from .. span.to - 1 /\ p >= s /\ ~(ToOf(s) <= p)
      BY <1>1, <2>1
    <3> QED
      BY <1>2, <1>7, <3>1
  <2>4. LineAt(s) \in LogLine
    <3>1. (IF ToOf(s) = span.to THEN span.to ELSE ToOf(s) + 1) \in Nat
      BY <1>1, <2>1
    <3> QED
      BY <2>1, <2>2, <3>1 DEF LogLine
  <2>5. LineOf(log, LineAt(s))
    BY <1>1, <2>1, <2>3 DEF LineOf
  <2> QED
    BY <2>2, <2>4, <2>5
<1> HIDE DEF LineAt, At
<1>9. /\ \A i \in 1 .. count : At(i) \in starts /\ lines[i] = LineAt(At(i))
      /\ Len(lines) = count /\ lines \in Seq(LogLine)
      /\ \A i, j \in 1 .. count : i < j => At(i) < At(j)
      /\ \A s \in starts : \E i \in 1 .. count : At(i) = s
  <2>1. \A i \in 1 .. count : At(i) \in starts
    BY <1>5 DEF At
  <2>2. lines \in Seq(LogLine) /\ Len(lines) = count
    BY <1>5, <1>6, <1>8, <2>1
  <2> QED
    BY <1>5, <1>6, <2>1, <2>2 DEF At
<1> HIDE DEF lines, count
<1>10. count \in Nat /\ count > 0 /\ At(1) = span.from
  <2>1. PICK i \in 1 .. count : At(i) = span.from
    BY <1>3, <1>9
  <2>2. count \in Nat /\ count > 0 /\ 1 \in 1 .. count
    BY <1>5, <2>1 DEF count
  <2>3. At(1) \in Nat /\ span.from <= At(1)
    <3>1. PICK s \in starts : s = At(1)
      BY <1>9, <2>2
    <3> QED
      BY <1>1, <1>3, <1>4, <3>1
  <2>4. i # 1 => At(1) < At(i)
    BY <1>9, <2>1, <2>2
  <2> QED
    BY <1>1, <2>1, <2>2, <2>3, <2>4
<1>11. ASSUME NEW i \in 1 .. count - 1
       PROVE  /\ ToOf(At(i)) \in breaks /\ At(i + 1) = ToOf(At(i)) + 1
              /\ ToOf(At(i)) < span.to
  <2>1. i \in 1 .. count /\ i + 1 \in 1 .. count /\ i < i + 1
    BY <1>10
  <2>2. PICK s \in starts, t \in starts : s = At(i) /\ t = At(i + 1)
    BY <1>9, <2>1
  <2>3. s < t /\ s \in Nat /\ t \in Nat /\ t < span.to /\ span.from <= s
    BY <1>1, <1>3, <1>4, <1>9, <2>1, <2>2
  <2>4. t - 1 \in breaks /\ t - 1 >= s
    BY <1>1, <1>3, <2>3
  <2>5. ToOf(s) \in Nat /\ ToOf(s) <= t - 1 /\ s <= ToOf(s)
    BY <1>7, <2>4
  <2>6. ToOf(s) \in breaks /\ ToOf(s) + 1 < span.to
    BY <1>1, <1>7, <2>3, <2>5
  <2>7. PICK j \in 1 .. count : At(j) = ToOf(s) + 1
    BY <1>3, <1>9, <2>6
  <2>8. j \in Nat /\ i \in Nat
    BY <1>10
  <2>9. ~(j < i) /\ j # i
    <3>1. j < i => At(j) < At(i)
      BY <1>9, <2>1
    <3> QED
      BY <2>2, <2>3, <2>5, <2>7, <3>1
  <2>10. j = i + 1 \/ i + 1 < j
    BY <2>8, <2>9
  <2>11. i + 1 < j => At(i + 1) < At(j)
    BY <1>9, <2>1
  <2>12. t = ToOf(s) + 1
    BY <2>2, <2>3, <2>5, <2>7, <2>10, <2>11
  <2> QED
    BY <2>2, <2>3, <2>6, <2>12, <1>1, <2>5
<1>12. ASSUME NEW i \in 1 .. Len(lines) - 1 PROVE Follows(log, lines[i].to, lines[i + 1].from)
  <2>1. i \in 1 .. count - 1 /\ i \in 1 .. count /\ i + 1 \in 1 .. count
    BY <1>9, <1>10
  <2>2. lines[i].to = ToOf(At(i)) /\ lines[i + 1].from = At(i + 1)
    BY <1>8, <1>9, <2>1
  <2>3. BreakAt(log, ToOf(At(i)))
    BY <1>2, <1>11, <2>1
  <2> QED
    BY <1>11, <2>1, <2>2, <2>3 DEF Follows
<1>13. Chained(source, log, lines)
  <2>1. \A i \in 1 .. Len(lines) : lines[i].source = source /\ LineOf(log, lines[i])
    BY <1>8, <1>9
  <2> QED
    BY <1>9, <1>12, <2>1 DEF Chained
<1>14. lines # <<>> /\ lines[1].from = span.from
  BY <1>8, <1>9, <1>10
<1>15. ASSUME NEW i \in 1 .. Len(lines)
       PROVE  /\ ~lines[i].timed /\ lines[i].ends \in Nat
              /\ span.from < lines[i].ends /\ lines[i].ends <= span.to
              /\ i > 1 => Edge(log, lines[i].from)
  <2>1. PICK s \in starts : s = At(i)
    BY <1>9
  <2>2. /\ lines[i].ends = (IF ToOf(s) = span.to THEN span.to ELSE ToOf(s) + 1) /\ ~lines[i].timed
        /\ lines[i].from = s
    BY <1>8, <1>9, <2>1
  <2>3. ToOf(s) \in Nat /\ s <= ToOf(s) /\ ToOf(s) <= span.to /\ span.from <= s /\ s \in Nat
    BY <1>1, <1>3, <1>4, <1>7
  <2>4. ASSUME i > 1 PROVE Edge(log, s)
    <3>1. 1 \in 1 .. count /\ i \in 1 .. count /\ 1 < i
      BY <1>9, <1>10, <2>4
    <3>2. At(1) < At(i)
      BY <1>9, <3>1
    <3>3. s # span.from /\ s - 1 \in breaks
      BY <1>1, <1>3, <1>10, <2>1, <2>3, <3>2
    <3>4. BreakAt(log, s - 1) /\ s > 0
      BY <1>1, <1>2, <2>3, <3>3
    <3> QED
      BY <3>4 DEF Edge
  <2> QED
    BY <1>1, <2>2, <2>3, <2>4
<1>16. ASSUME NEW i \in 1 .. Len(lines), NEW j \in 1 .. Len(lines), j <= i
       PROVE  lines[j].ends <= lines[i].ends
  <2>1. PICK s \in starts, t \in starts : s = At(i) /\ t = At(j)
    BY <1>9
  <2>2. t <= s /\ s \in Nat /\ t \in Nat
    <3>1. j < i \/ j = i
      BY <1>9, <1>10, <1>16
    <3> QED
      BY <1>4, <1>9, <2>1, <3>1
  <2>3. /\ ToOf(s) \in Nat /\ s <= ToOf(s) /\ ToOf(s) <= span.to
        /\ ToOf(t) \in Nat /\ t <= ToOf(t) /\ ToOf(t) <= span.to
    BY <1>7
  <2>4. ToOf(t) <= ToOf(s)
    BY <1>7, <2>2, <2>3
  <2>5. /\ lines[i].ends = (IF ToOf(s) = span.to THEN span.to ELSE ToOf(s) + 1)
        /\ lines[j].ends = (IF ToOf(t) = span.to THEN span.to ELSE ToOf(t) + 1)
    BY <1>8, <1>9, <2>1
  <2> QED
    BY <1>1, <2>3, <2>4, <2>5
<1>17. lines[Len(lines)].to = IF BreakAt(log, span.to - 1) THEN span.to - 1 ELSE span.to
  <2>1. PICK s \in starts : s = At(count)
    BY <1>9, <1>10
  <2>2. lines[Len(lines)].to = ToOf(s)
    BY <1>8, <1>9, <1>10, <2>1
  <2>3. /\ ToOf(s) \in Nat /\ s <= ToOf(s) /\ ToOf(s) <= span.to /\ span.from <= s /\ s \in Nat
        /\ s < span.to
    BY <1>1, <1>3, <1>4, <1>7
  <2>4. \A x \in starts : x <= s
    <3> SUFFICES ASSUME NEW x \in starts PROVE x <= s
      OBVIOUS
    <3>1. PICK j \in 1 .. count : At(j) = x
      BY <1>9
    <3>2. j = count \/ j < count
      BY <1>10
    <3>3. j < count => At(j) < At(count)
      BY <1>9, <1>10
    <3> QED
      BY <1>4, <2>1, <3>1, <3>2, <3>3
  <2>5. ToOf(s) # span.to => ToOf(s) = span.to - 1 /\ BreakAt(log, span.to - 1)
    <3> SUFFICES ASSUME ToOf(s) # span.to PROVE ToOf(s) = span.to - 1 /\ BreakAt(log, span.to - 1)
      OBVIOUS
    <3>1. ToOf(s) \in breaks
      BY <1>7
    <3>2. ~(ToOf(s) + 1 < span.to)
      BY <1>3, <2>3, <2>4, <3>1
    <3> QED
      BY <1>1, <1>2, <2>3, <3>1, <3>2
  <2>6. ToOf(s) = span.to => ~BreakAt(log, span.to - 1)
    <3> SUFFICES ASSUME ToOf(s) = span.to, BreakAt(log, span.to - 1) PROVE FALSE
      OBVIOUS
    <3>1. span.to - 1 \in breaks /\ span.to - 1 >= s
      BY <1>1, <1>2, <2>3
    <3> QED
      BY <1>1, <1>7, <3>1
  <2> QED
    BY <2>2, <2>5, <2>6
<1> QED
  BY <1>13, <1>14, <1>15, <1>16, <1>17 DEF lines

LEMMA TwoOf ==
  ASSUME NEW a \in Int, NEW b \in Int
  PROVE  Max({a, b}) = (IF a >= b THEN a ELSE b) /\ Min({a, b}) = (IF a <= b THEN a ELSE b)
<1>1. \E x \in {a, b} : \A y \in {a, b} : x >= y
  OBVIOUS
<1>2. PICK x \in {a, b} : x = Max({a, b}) /\ \A y \in {a, b} : x >= y
  BY <1>1 DEF Max
<1>3. \E z \in {a, b} : \A y \in {a, b} : z <= y
  OBVIOUS
<1>4. PICK z \in {a, b} : z = Min({a, b}) /\ \A y \in {a, b} : z <= y
  BY <1>3 DEF Min
<1> QED
  BY <1>2, <1>4

LEMMA MarkOfIs ==
  ASSUME NEW source \in Sources, NEW p \in Nat
  PROVE  /\ MarkOf(source, p) \in LogMark /\ MarkOf(source, p).source = source
         /\ PlaceOf(MarkOf(source, p)) = p /\ MarkOf(source, p).file = p \div FileSize
         /\ MarkOf(source, p).offset = p % FileSize /\ p % FileSize \in 0 .. FileSize - 1
<1>1. /\ p \div FileSize \in Nat /\ p % FileSize \in 0 .. FileSize - 1
      /\ p = ((p \div FileSize) * FileSize) + (p % FileSize)
  BY SizesAre, DivIs
<1> QED
  BY <1>1, SizesAre DEF MarkOf, PlaceOf, LogMark

(* The file a place is in.                                                  *)
LEMMA FileOf ==
  ASSUME NEW p \in Nat
  PROVE  LET base == (p \div FileSize) * FileSize
         IN  /\ p \div FileSize \in Nat /\ base \in Nat /\ base <= p /\ p < base + FileSize
             /\ FileEnd(p) = base + FileSize /\ p % FileSize = p - base
             /\ \A e \in p + 1 .. FileEnd(p) :
                  (e - 1) \div FileSize = p \div FileSize /\ EndOffset(e) = e - base
<1> DEFINE k == p \div FileSize
           base == k * FileSize
<1>1. k \in Nat
  BY SizesAre, DivIs
<1>2. /\ base \in Nat /\ base <= p /\ p < base + FileSize /\ p % FileSize = p - base
      /\ (k + 1) * FileSize = base + FileSize /\ FileSize \in Nat
  BY <1>1, FileIs, TimesIs, SizesAre
<1>3. FileEnd(p) = base + FileSize
  BY <1>2 DEF FileEnd
<1>4. ASSUME NEW e \in p + 1 .. FileEnd(p)
      PROVE  (e - 1) \div FileSize = k /\ EndOffset(e) = e - base
  <2> HIDE DEF k
  <2>1. e - 1 \in Nat /\ base <= e - 1 /\ e - 1 < base + FileSize
    BY <1>2, <1>3
  <2>2. PICK q \in Nat : q = e - 1
    BY <2>1
  <2>3. q \div FileSize = k /\ q % FileSize = q - k * FileSize
    BY <1>1, <2>1, <2>2, FileIs
  <2> QED
    BY <1>2, <2>1, <2>2, <2>3 DEF EndOffset
<1> QED
  BY <1>1, <1>2, <1>3, <1>4

(* What a frame is of the log, and where its file has it.                   *)
LEMMA FramesAre ==
  ASSUME NEW st \in TailShape, logs[st.source] \in Seq(BOOLEAN), st.at <= Bytes(st.source),
         Begun(logs[st.source], st), NEW frame \in Frames(st)
  PROVE  /\ frame.data \in LogSpan /\ frame.data.from = st.at /\ st.at < frame.data.to
         /\ frame.data.to <= Bytes(st.source) /\ frame.data.to <= FileEnd(st.at)
         /\ \/ frame.data.to >= st.at + LogTail \/ frame.data.to = FileEnd(st.at)
            \/ frame.data.to >= st.opened
         /\ FrontOf(st, frame) \in LogMark /\ FrontOf(st, frame).source = st.source
         /\ PlaceOf(FrontOf(st, frame)) = st.at /\ FrontOf(st, frame).file = st.at \div FileSize
         /\ st.fresh => FrameStart(st, frame) = FrontOf(st, frame)
<1> DEFINE at == st.at
           k == at \div FileSize
           base == k * FileSize
           inFile == st.next # NoMark /\ st.next.file = k
           one == {[mark |-> k, offset |-> EndOffset(e), data |-> [from |-> at, to |-> e]] : e \in ReadTo(st, at)}
           most == Min({FileEnd(at), Bytes(st.source)})
           merged == {[f EXCEPT !.data.to = e] : f \in one, e \in at + 1 .. most}
<1>1. /\ at \in Nat /\ st.opened \in Nat /\ st.source \in Sources /\ Bytes(st.source) \in Nat
      /\ st.fresh \in BOOLEAN
  BY ShapeIs DEF Bytes
<1>2. /\ k \in Nat /\ base \in Nat /\ base <= at /\ at < base + FileSize
      /\ FileEnd(at) = base + FileSize /\ at % FileSize = at - base /\ FileSize \in Nat /\ LogTail \in Nat
      /\ \A e \in at + 1 .. FileEnd(at) : EndOffset(e) = e - base
  BY <1>1, FileOf, SizesAre
<1> HIDE DEF k, base
<1>3. ASSUME NEW e \in ReadTo(st, at)
      PROVE  /\ e \in at + 1 .. FileEnd(at) /\ e <= Bytes(st.source)
             /\ e >= at + LogTail \/ e = FileEnd(at) \/ e >= st.opened
  <2> DEFINE S == {at + LogTail, FileEnd(at), Bytes(st.source)}
             T == {at + LogTail, FileEnd(at), st.opened}
  <2>1. e \in at + 1 .. Min(S) /\ e >= Min(T)
    BY DEF ReadTo
  <2>2. S \in SUBSET Nat /\ S # {} /\ T \in SUBSET Nat /\ T # {}
    BY <1>1, <1>2
  <2>3. FileEnd(at) \in S /\ Bytes(st.source) \in S
    OBVIOUS
  <2>4. \A n \in T : n = at + LogTail \/ n = FileEnd(at) \/ n = st.opened
    OBVIOUS
  <2> HIDE DEF S, T
  <2>5. Min(S) \in Nat /\ Min(S) <= FileEnd(at) /\ Min(S) <= Bytes(st.source) /\ Min(T) \in T
    BY <2>2, <2>3, MinIs
  <2>6. PICK least \in Nat, low \in T : least = Min(S) /\ low = Min(T)
    BY <2>5
  <2>7. low \in Nat
    BY <2>2
  <2>8. e \in Nat /\ e > at /\ e <= FileEnd(at) /\ e <= Bytes(st.source) /\ e >= low /\ FileEnd(at) \in Nat
    BY <1>1, <1>2, <2>1, <2>5, <2>6
  <2>9. low = at + LogTail \/ low = FileEnd(at) \/ low = st.opened
    BY <2>4
  <2> QED
    BY <1>1, <2>8, <2>9
<1>4. \A e \in at + 1 .. most : e \in at + 1 .. FileEnd(at) /\ e <= Bytes(st.source)
  <2>1. most = IF FileEnd(at) <= Bytes(st.source) THEN FileEnd(at) ELSE Bytes(st.source)
    <3>1. PICK a \in Int, b \in Int : a = FileEnd(at) /\ b = Bytes(st.source)
      BY <1>1, <1>2
    <3> QED
      BY <3>1, TwoOf
  <2> HIDE DEF most
  <2> QED
    BY <1>1, <1>2, <2>1
<1> HIDE DEF most
<1>0. Frames(st) = IF inFile \/ at % FileSize = 0
                   THEN one \cup {f \in merged : EndOffset(f.data.to) >= f.offset} ELSE one
  BY DEF Frames, k, most
<1>5. PICK f \in at + 1 .. FileEnd(at), e \in at + 1 .. FileEnd(at) :
        /\ frame.mark = k /\ frame.offset = f - base /\ frame.data = [from |-> at, to |-> e]
        /\ f <= e /\ e <= Bytes(st.source)
        /\ f = e \/ inFile \/ at % FileSize = 0
        /\ f >= at + LogTail \/ f = FileEnd(at) \/ f >= st.opened
  <2>1. CASE frame \in one
    <3>1. PICK e \in ReadTo(st, at) :
            frame = [mark |-> k, offset |-> EndOffset(e), data |-> [from |-> at, to |-> e]]
      BY <2>1
    <3>2. /\ e \in at + 1 .. FileEnd(at) /\ e <= Bytes(st.source)
          /\ e >= at + LogTail \/ e = FileEnd(at) \/ e >= st.opened
      BY <1>3
    <3>3. EndOffset(e) = e - base /\ e <= e
      BY <1>1, <1>2, <3>2
    <3> QED
      BY <3>1, <3>2, <3>3
  <2>2. CASE frame \notin one
    <3>1. /\ inFile \/ at % FileSize = 0
          /\ frame \in merged /\ EndOffset(frame.data.to) >= frame.offset
      <4> HIDE DEF one, merged
      <4>1. frame \in IF inFile \/ at % FileSize = 0
                      THEN one \cup {f \in merged : EndOffset(f.data.to) >= f.offset} ELSE one
        BY <1>0
      <4> QED
        BY <2>2, <4>1
    <3>2. PICK g \in one, e \in at + 1 .. most : frame = [g EXCEPT !.data.to = e]
      BY <3>1
    <3>3. PICK f \in ReadTo(st, at) :
            g = [mark |-> k, offset |-> EndOffset(f), data |-> [from |-> at, to |-> f]]
      BY <3>2
    <3>4. frame.mark = k /\ frame.offset = EndOffset(f) /\ frame.data = [from |-> at, to |-> e]
      BY <3>2, <3>3
    <3>5. /\ f \in at + 1 .. FileEnd(at) /\ e \in at + 1 .. FileEnd(at) /\ e <= Bytes(st.source)
          /\ f >= at + LogTail \/ f = FileEnd(at) \/ f >= st.opened
      BY <1>3, <1>4
    <3>6. EndOffset(f) = f - base /\ EndOffset(e) = e - base
      BY <1>2, <3>5
    <3>7. EndOffset(e) >= EndOffset(f)
      BY <3>1, <3>4
    <3>8. f <= e
      BY <1>1, <1>2, <3>5, <3>6, <3>7
    <3> QED
      BY <3>1, <3>4, <3>5, <3>6, <3>8
  <2> QED
    BY <2>1, <2>2
<1> HIDE DEF one, merged
<1>6. /\ frame.data \in LogSpan /\ frame.data.from = at /\ at < frame.data.to
      /\ frame.data.to <= Bytes(st.source) /\ frame.data.to <= FileEnd(at)
      /\ frame.data.to >= at + LogTail \/ frame.data.to = FileEnd(at) \/ frame.data.to >= st.opened
  <2>1. e \in Nat /\ f \in Nat /\ at < e /\ e <= FileEnd(at)
    BY <1>1, <1>2
  <2>2. frame.data.from = at /\ frame.data.to = e
    BY <1>5
  <2>3. frame.data \in LogSpan
    BY <1>1, <1>5, <2>1 DEF LogSpan
  <2>4. e >= at + LogTail \/ e = FileEnd(at) \/ e >= st.opened
    <3>1. (f >= at + LogTail \/ f = FileEnd(at) \/ f >= st.opened) /\ f <= e
      BY <1>5
    <3>2. at + LogTail \in Nat
      BY <1>1, SizesAre
    <3>3. FileEnd(at) \in Nat
      <4>1. base \in Nat /\ FileSize \in Nat /\ FileEnd(at) = base + FileSize
        BY <1>2
      <4> QED
        BY <4>1
    <3> QED
      BY <1>1, <2>1, <3>1, <3>2, <3>3
  <2> QED
    BY <1>5, <2>1, <2>2, <2>3, <2>4
<1>7. FrameStart(st, frame).source = st.source /\ FrameStart(st, frame).file = k
  BY <1>5 DEF FrameStart
<1>8. ASSUME ~inFile
      PROVE  FrameStart(st, frame).offset = at - base
  <2>1. FrameStart(st, frame).offset = Max({(f - base) - (e - at), 0})
    BY <1>5 DEF FrameStart, Size
  <2>2. (f - base) - (e - at) \in Int
    BY ONLY <1>1, <1>2
  <2>3. PICK z \in Int : z = (f - base) - (e - at)
    BY <2>2
  <2>4. Max({z, 0}) = IF z >= 0 THEN z ELSE 0
    BY ONLY TwoOf, z \in Int
  <2>5. f = e \/ at = base
    <3>1. f = e \/ at % FileSize = 0
      BY <1>5, <1>8
    <3>2. at \in Nat /\ base \in Nat /\ at % FileSize = at - base
      BY <1>1, <1>2
    <3> QED
      BY ONLY <3>1, <3>2
  <2>6. f \in Nat /\ e \in Nat /\ f <= e /\ f > at
    <3>1. PICK n \in Nat : n = FileEnd(at)
      BY <1>1, <1>2
    <3>2. f \in at + 1 .. n /\ e \in at + 1 .. n /\ f <= e
      BY <1>5, <3>1
    <3>3. at \in Nat
      BY <1>1
    <3> QED
      BY ONLY <3>2, <3>3, n \in Nat
  <2>7. (IF z >= 0 THEN z ELSE 0) = at - base
    <3>1. at \in Nat /\ base \in Nat /\ base <= at
      BY <1>1, <1>2
    <3> QED
      BY ONLY <2>3, <2>5, <2>6, <3>1
  <2> QED
    BY <2>1, <2>3, <2>4, <2>7
<1>9. ASSUME ~inFile
      PROVE  FrameStart(st, frame) \in LogMark /\ PlaceOf(FrameStart(st, frame)) = at
  <2>1. FrameStart(st, frame) = [source |-> st.source, file |-> k, offset |-> at - base]
    BY <1>7, <1>8, <1>9 DEF FrameStart
  <2> QED
    BY <1>1, <1>2, <2>1 DEF LogMark, PlaceOf, base
<1>10. inFile => /\ st.next \in LogMark /\ st.next.source = st.source /\ PlaceOf(st.next) = at /\ st.next.file = k
                 /\ ~st.fresh
  BY <1>1 DEF Begun
<1>11. FrontOf(st, frame) = IF inFile THEN st.next ELSE FrameStart(st, frame)
  BY <1>5 DEF FrontOf
<1>12. PICK front : front = FrontOf(st, frame)
  OBVIOUS
<1>13. front \in LogMark /\ front.source = st.source /\ PlaceOf(front) = at /\ front.file = k
       /\ (st.fresh => FrameStart(st, frame) = front)
  BY <1>7, <1>9, <1>10, <1>11, <1>12
<1> QED
  BY <1>6, <1>12, <1>13 DEF k

(* The first break of a part of a log.                                      *)
LEMMA FirstBreak ==
  ASSUME NEW source, NEW span \in LogSpan, logs[source] \in Seq(BOOLEAN), span.to <= Bytes(source),
         Breaks(source, span) # {}
  PROVE  LET first == Min(Breaks(source, span))
         IN  /\ first \in Nat /\ span.from <= first /\ first < span.to /\ BreakAt(logs[source], first)
             /\ \A p \in span.from .. first - 1 : ~BreakAt(logs[source], p)
<1> DEFINE S == Breaks(source, span)
<1>1. span.from \in Nat /\ span.to \in Nat
  BY DEF LogSpan
<1>2. /\ S \in SUBSET (span.from .. span.to - 1)
      /\ \A p \in span.from .. span.to - 1 : p \in S <=> BreakAt(logs[source], p)
  BY BreaksAre
<1> HIDE DEF S
<1>3. S \in SUBSET Nat /\ S # {}
  BY <1>1, <1>2 DEF S
<1>4. PICK first \in S : first = Min(S) /\ \A n \in S : first <= n
  BY <1>3, MinIs
<1>5. first \in Nat /\ span.from <= first /\ first < span.to /\ BreakAt(logs[source], first)
  BY <1>1, <1>2
<1>6. ASSUME NEW p \in span.from .. first - 1 PROVE ~BreakAt(logs[source], p)
  <2>1. p \in span.from .. span.to - 1 /\ ~(first <= p)
    BY <1>1, <1>5
  <2> QED
    BY <1>2, <1>4, <2>1
<1> QED
  BY <1>4, <1>5, <1>6 DEF S

(* A count no log reaches.                                                  *)
LEMMA EveryByteIs == EveryByte \in Nat /\ \A s \in Sources : MaxBytes[s] \in Nat /\ MaxBytes[s] < EveryByte
<1> DEFINE S == {MaxBytes[s] : s \in Sources}
<1>1. Sources # {} /\ IsFiniteSet(Sources) /\ \A s \in Sources : MaxBytes[s] \in Nat
  BY TaskLogAssumption
<1>2. S \in SUBSET Nat /\ S # {} /\ IsFiniteSet(S)
  <2>1. MaxBytes \in Surjection(Sources, S)
    BY TaskLogAssumption DEF Surjection
  <2>2. IsFiniteSet(S)
    BY <1>1, <2>1, FS_Surjection
  <2> QED
    BY <1>1, <2>2
<1>3. \A s \in Sources : MaxBytes[s] \in S
  OBVIOUS
<1>4. EveryByte = Max(S) + 1
  BY DEF EveryByte
<1> HIDE DEF S
<1>5. /\ Cardinality(S) \in Nat
      /\ \A i \in 1 .. Cardinality(S) : InOrder(S)[i] \in S
      /\ \A i, j \in 1 .. Cardinality(S) : i < j => InOrder(S)[i] < InOrder(S)[j]
      /\ \A s \in S : \E i \in 1 .. Cardinality(S) : InOrder(S)[i] = s
  BY <1>2, InOrderIs
<1>6. PICK n \in Nat : n = Cardinality(S)
  BY <1>5
<1>7. n > 0
  <2>1. PICK s \in S : TRUE
    BY <1>2
  <2>2. PICK i \in 1 .. n : InOrder(S)[i] = s
    BY <1>5, <1>6
  <2> QED
    BY <2>2
<1>8. n \in 1 .. n /\ InOrder(S)[n] \in S
  BY <1>5, <1>6, <1>7
<1>9. \A y \in S : InOrder(S)[n] >= y
  <2> SUFFICES ASSUME NEW y \in S PROVE InOrder(S)[n] >= y
    OBVIOUS
  <2>1. PICK i \in 1 .. n : InOrder(S)[i] = y
    BY <1>5, <1>6
  <2>2. i < n \/ i = n
    OBVIOUS
  <2>3. i < n => InOrder(S)[i] < InOrder(S)[n]
    BY <1>5, <1>6, <1>8
  <2>4. PICK z \in Nat : z = InOrder(S)[n]
    BY <1>2, <1>8
  <2>5. y \in Nat
    BY <1>2
  <2> QED
    BY <2>1, <2>2, <2>3, <2>4, <2>5
<1>10. Max(S) \in S /\ \A y \in S : Max(S) >= y
  BY <1>8, <1>9 DEF Max
<1>11. PICK most \in Nat : most = Max(S)
  BY <1>2, <1>10
<1> QED
  BY <1>1, <1>3, <1>4, <1>10, <1>11

(* How much of what begins in a frame was there when the log was opened.    *)
LEMMA ThereIs ==
  ASSUME NEW log, log \in Seq(BOOLEAN), NEW st \in TailShape, EndKnown(log, st),
         NEW start \in LogMark, NEW next \in LogMark,
         start.file = st.at \div FileSize, next.file = st.at \div FileSize,
         st.at <= PlaceOf(start), PlaceOf(start) < PlaceOf(next), PlaceOf(next) <= FileEnd(st.at),
         \/ PlaceOf(next) >= st.at + LogTail \/ PlaceOf(next) = FileEnd(st.at)
         \/ PlaceOf(next) >= st.opened
  PROVE  /\ st.finished => ThereFrom(st, start, next) = EveryByte
         /\ ~st.finished => ThereFrom(st, start, next) = IF st.ended > PlaceOf(start)
                                                         THEN st.ended - PlaceOf(start) ELSE 0
<1>1. st.finished => ThereFrom(st, start, next) = EveryByte
  BY DEF ThereFrom
<1> SUFFICES ASSUME ~st.finished
             PROVE  ThereFrom(st, start, next) = IF st.ended > PlaceOf(start) THEN st.ended - PlaceOf(start) ELSE 0
  BY <1>1
<1> DEFINE k == st.at \div FileSize
           base == k * FileSize
<1>2. st.at \in Nat /\ st.ended \in Nat /\ st.opened \in Nat
  BY ShapeIs
<1>3. /\ k \in Nat /\ base \in Nat /\ base <= st.at /\ st.at < base + FileSize
      /\ FileEnd(st.at) = base + FileSize
  BY <1>2, FileOf
<1>4. FileSize \in Nat /\ LogTail \in Nat /\ LogTail <= FileSize
  BY SizesAre
<1> HIDE DEF k
<1>9. ASSUME NEW g \in Nat
      PROVE  /\ g * FileSize \in Nat
             /\ g = k => g * FileSize = base
             /\ g = k + 1 => g * FileSize = base + FileSize
             /\ g < k => (g * FileSize) + FileSize <= base
             /\ g > k + 1 => base + FileSize + FileSize <= g * FileSize
  <2>1. g * FileSize \in Nat
    BY <1>4
  <2>2. (k + 1) * FileSize = base + FileSize
    BY <1>3, TimesIs
  <2>3. g < k => (g * FileSize) + FileSize <= base
    BY <1>3, TimesIs
  <2>4. k + 1 \in Nat
    BY <1>3
  <2>5. g > k + 1 => ((k + 1) * FileSize) + FileSize <= g * FileSize
    BY <2>4, TimesIs
  <2> QED
    BY <2>1, <2>2, <2>3, <2>5
<1>10. \A mark \in LogMark : PlaceOf(mark) = (mark.file * FileSize) + mark.offset
  BY DEF PlaceOf
<1>11. PlaceOf(start) = base + start.offset /\ PlaceOf(next) = base + next.offset
  BY <1>10 DEF k
<1> HIDE DEF base
<1>5. PICK from \in Nat, to \in Nat, f \in Nat, t \in Nat :
        /\ from = PlaceOf(start) /\ to = PlaceOf(next) /\ f = start.offset /\ t = next.offset
        /\ from = base + f /\ to = base + t
  <2> QED
    BY <1>11, MarkNat
<1>6. st.ended <= st.opened /\ st.opened - LogTail <= st.at
  BY DEF EndKnown
<1>7. CASE st.ended = 0
  <2>1. ThereFrom(st, start, next) = 0
    BY <1>7 DEF EndKnown, ThereFrom
  <2> QED
    BY <1>5, <1>7, <2>1
<1>8. CASE st.ended # 0
  <2>1. st.end \in LogMark /\ PlaceOf(st.end) = st.ended /\ st.end.offset \in 1 .. FileSize /\ st.end # NoMark
    BY <1>8, MarkNat DEF EndKnown
  <2>2. PICK g \in Nat, e \in Nat : g = st.end.file /\ e = st.end.offset
    BY <2>1, MarkNat
  <2>3. PICK z \in Nat : /\ z = g * FileSize /\ st.ended = z + e /\ e >= 1 /\ e <= FileSize
                         /\ g = k => z = base
                         /\ g = k + 1 => z = base + FileSize
                         /\ g < k => z + FileSize <= base
                         /\ g > k + 1 => base + FileSize + FileSize <= z
    <3>1. st.ended = (g * FileSize) + e
      BY <1>10, <2>1, <2>2
    <3>2. e >= 1 /\ e <= FileSize
      BY <1>4, <2>1, <2>2
    <3> QED
      BY <1>9, <3>1, <3>2
  <2>4. PICK there : there = ThereFrom(st, start, next)
    OBVIOUS
  <2>5. there = IF g = k THEN Max({e - f, 0}) ELSE IF g = k + 1 THEN (t - f) + e ELSE 0
    BY <1>5, <2>1, <2>2, <2>4 DEF ThereFrom, k
  <2>6. CASE g = k
    <3>1. Max({e - f, 0}) = IF e - f >= 0 THEN e - f ELSE 0
      <4>1. PICK d \in Int : d = e - f
        BY <1>5, <2>2
      <4>2. 0 \in Int
        OBVIOUS
      <4> QED
        BY <4>1, <4>2, TwoOf
    <3>2. z = base
      BY <2>3, <2>6
    <3>3. there = IF e - f >= 0 THEN e - f ELSE 0
      BY <2>5, <2>6, <3>1
    <3>4. there = IF st.ended > from THEN st.ended - from ELSE 0
      <4>1. \A x, y, w \in Nat : (IF x - y >= 0 THEN x - y ELSE 0)
                               = IF w + x > w + y THEN (w + x) - (w + y) ELSE 0
        OBVIOUS
      <4>2. st.ended = base + e /\ from = base + f /\ base \in Nat
        BY <1>3, <1>5, <2>3, <3>2
      <4> QED
        BY ONLY <4>1, <4>2, <3>3, f \in Nat, e \in Nat
    <3> QED
      BY <1>5, <2>4, <3>4
  <2>7. CASE g = k + 1
    <3>1. z = base + FileSize /\ g # k
      BY <1>3, <2>3, <2>7
    <3>2. to = base + FileSize
      <4>1. st.ended > base + FileSize
        BY <1>3, <1>4, <2>3, <3>1
      <4>2. to <= base + FileSize /\ (to >= st.at + LogTail \/ to = base + FileSize \/ to >= st.opened)
        BY <1>3, <1>5
      <4> QED
        BY <1>2, <1>3, <1>4, <1>6, <4>1, <4>2
    <3>3. t = FileSize /\ from < base + FileSize
      BY <1>3, <1>4, <1>5, <3>2
    <3>4. (t - f) + e = st.ended - from /\ st.ended > from
      <4>1. \A x, y, w, v \in Nat : y < v => (v - y) + x = (w + v + x) - (w + y)
        OBVIOUS
      <4>2. st.ended = base + FileSize + e /\ from = base + f /\ f < FileSize
        BY <1>3, <1>4, <1>5, <2>3, <3>1, <3>3
      <4>3. (t - f) + e = st.ended - from
        BY ONLY <1>3, <1>4, <3>3, <4>1, <4>2, f \in Nat, e \in Nat
      <4>4. st.ended > from
        BY ONLY <1>3, <1>4, <4>2, f \in Nat, e \in Nat
      <4> QED
        BY <4>3, <4>4
    <3>5. there = (t - f) + e
      BY <2>5, <2>7, <3>1
    <3> QED
      BY <1>5, <2>4, <3>4, <3>5
  <2>8. CASE g < k
    <3>1. z + FileSize <= base
      BY <2>3, <2>8
    <3>2. ~(st.ended > from)
      BY <1>2, <1>3, <1>4, <1>5, <2>3, <3>1
    <3>3. there = 0
      BY <1>3, <2>5, <2>8
    <3> QED
      BY <1>5, <2>4, <3>2, <3>3
  <2>9. CASE g > k + 1
    <3>1. base + FileSize + FileSize <= z
      BY <2>3, <2>9
    <3> QED
      BY <1>2, <1>3, <1>4, <1>6, <2>3, <3>1
  <2> QED
    BY <1>3, <2>6, <2>7, <2>8, <2>9
<1> QED
  BY <1>7, <1>8

(* What a frame makes of a stream before what is whole goes out: the rest   *)
(* of a line whose start was not read is left out, the first text that is   *)
(* not begins it, and what comes after goes on.                             *)
StaysCut(log, st, un) ==
  /\ st.start = NoMark /\ un.start = NoMark /\ Size(un.held) = 0 /\ un.held.to = un.at
  /\ un.cut \/ Edge(log, un.at)
BeginsHere(log, st, un) ==
  /\ st.start = NoMark /\ ~un.cut /\ un.start \in LogMark /\ un.start.source = st.source
  /\ st.at <= PlaceOf(un.start) /\ PlaceOf(un.start) < un.at /\ Edge(log, PlaceOf(un.start))
  /\ un.held = [from |-> PlaceOf(un.start), to |-> un.at]
  /\ st.finished => un.there = EveryByte
  /\ ~st.finished => un.there = IF st.ended > PlaceOf(un.start) THEN st.ended - PlaceOf(un.start) ELSE 0
GoesOn(log, st, un) ==
  /\ st.start # NoMark /\ ~un.cut /\ un.start = st.start /\ un.there = st.there
  /\ un.held.to = un.at
  /\ un.held.from = IF Size(st.held) > 0 THEN st.held.from
                    ELSE IF st.unended /\ BreakAt(log, st.at) THEN st.at + 1 ELSE st.at

LEMMA UncutIs ==
  ASSUME NEW st, NEW log, log = logs[st.source], log \in Seq(BOOLEAN), TailOK(log, st),
         NEW frame \in Frames(st)
  PROVE  LET un == Uncut(st, frame)
         IN  /\ un \in TailShape
             /\ un.source = st.source /\ un.finished = st.finished /\ un.chunk = st.chunk
             /\ un.shut = st.shut /\ un.err = st.err /\ un.end = st.end
             /\ un.given = st.given /\ un.ended = st.ended /\ un.opened = st.opened
             /\ ~un.fresh /\ ~un.unended /\ st.at < un.at /\ un.at <= Len(log)
             /\ un.next \in LogMark /\ un.next.source = st.source /\ PlaceOf(un.next) = un.at
             /\ un.next.file = (un.at - 1) \div FileSize
             /\ StaysCut(log, st, un) \/ BeginsHere(log, st, un) \/ GoesOn(log, st, un)
<1> DEFINE at == st.at
           to == frame.data.to
           front == FrontOf(st, frame)
           breaks == Breaks(st.source, frame.data)
           cut == IF st.fresh THEN ~AtStart(FrameStart(st, frame)) ELSE st.cut
           data == IF ~cut THEN frame.data
                   ELSE IF breaks = {} THEN [frame.data EXCEPT !.from = to]
                   ELSE [frame.data EXCEPT !.from = Min(breaks) + 1]
           next == [front EXCEPT !.offset = front.offset + Size(frame.data)]
           start == [front EXCEPT !.offset = front.offset + Size(frame.data) - Size(data)]
           begins == st.start = NoMark /\ Size(data) > 0
           joins == st.unended /\ Size(data) > 0
           rest == IF joins /\ data.from \in breaks THEN [data EXCEPT !.from = data.from + 1] ELSE data
<1>0. PICK un : un = Uncut(st, frame)
  OBVIOUS
<1>1. /\ st \in TailShape /\ Held(log, st) /\ Begun(log, st) /\ EndKnown(log, st) /\ Counted(st)
      /\ at <= Len(log) /\ Len(log) = Bytes(st.source)
  BY DEF TailOK, Held, Bytes
<1>2. /\ st.source \in Sources /\ at \in Nat /\ st.opened \in Nat /\ st.ended \in Nat
      /\ st.held \in LogSpan /\ st.held.from \in Nat /\ st.held.to \in Nat
      /\ st.unended \in BOOLEAN /\ st.cut \in BOOLEAN /\ st.fresh \in BOOLEAN /\ Len(log) \in Nat
      /\ st.there \in Nat
  BY <1>1, ShapeIs
<1>3. /\ frame.data \in LogSpan /\ frame.data.from = at /\ at < to /\ to <= Len(log) /\ to <= FileEnd(at)
      /\ to >= at + LogTail \/ to = FileEnd(at) \/ to >= st.opened
      /\ front \in LogMark /\ front.source = st.source /\ PlaceOf(front) = at
      /\ front.file = at \div FileSize
      /\ st.fresh => FrameStart(st, frame) = front
  BY <1>1, FramesAre
<1>4. to \in Nat /\ Size(frame.data) = to - at
  BY <1>3 DEF LogSpan, Size
<1>5. /\ breaks \in SUBSET (at .. to - 1)
      /\ \A p \in at .. to - 1 : p \in breaks <=> BreakAt(log, p)
  BY <1>1, <1>3, BreaksAre
<1>6. breaks # {} => LET first == Min(breaks)
                     IN  first \in Nat /\ at <= first /\ first < to /\ BreakAt(log, first)
  BY <1>1, <1>3, FirstBreak
<1> HIDE DEF front, breaks, cut
<1>7. /\ data \in LogSpan /\ data.to = to /\ at <= data.from /\ data.from <= to
      /\ data.from \in Nat /\ Size(data) = to - data.from
      /\ ~cut => data.from = at
      /\ cut /\ breaks = {} => data.from = to
      /\ cut /\ breaks # {} => Edge(log, data.from)
  <2>1. CASE ~cut
    BY <1>2, <1>3, <1>4, <2>1 DEF Size
  <2>2. CASE cut /\ breaks = {}
    <3>1. data = [frame.data EXCEPT !.from = to]
      BY <2>2
    <3> QED
      BY <1>2, <1>3, <1>4, <2>2, <3>1 DEF Size, LogSpan
  <2>3. CASE cut /\ breaks # {}
    <3>1. PICK first \in Nat : first = Min(breaks) /\ at <= first /\ first < to /\ BreakAt(log, first)
      BY <1>6, <2>3
    <3>2. data = [frame.data EXCEPT !.from = first + 1]
      BY <2>3, <3>1
    <3>3. Edge(log, first + 1)
      BY <3>1 DEF Edge
    <3> QED
      BY <1>2, <1>3, <1>4, <2>3, <3>1, <3>2, <3>3 DEF Size, LogSpan
  <2> QED
    BY <2>1, <2>2, <2>3
<1> HIDE DEF data
<1>8. /\ next \in LogMark /\ next.source = st.source /\ PlaceOf(next) = to
      /\ next.file = at \div FileSize
  <2>1. PICK n \in Nat : n = front.offset + Size(frame.data) /\ PlaceOf(front) + (to - at) = (front.file * FileSize) + n
    <3>1. PICK o \in Nat, z \in Nat : o = front.offset /\ z = front.file * FileSize
      BY <1>3, MarkNat
    <3>2. PlaceOf(front) = z + o
      BY <3>1 DEF PlaceOf
    <3>3. o + (to - at) \in Nat /\ (z + o) + (to - at) = z + (o + (to - at))
      BY <1>2, <1>3, <1>4, <3>1
    <3> QED
      BY <1>4, <3>1, <3>2, <3>3
  <2>2. next = [front EXCEPT !.offset = n]
    BY <2>1
  <2>3. next \in LogMark /\ next.source = front.source /\ next.file = front.file /\ next.offset = n
    BY <1>3, <2>2 DEF LogMark
  <2>4. PlaceOf(next) = (front.file * FileSize) + n
    BY <2>3 DEF PlaceOf
  <2> QED
    BY <1>2, <1>3, <1>4, <2>1, <2>3, <2>4
<1>9. /\ start \in LogMark /\ start.source = st.source /\ PlaceOf(start) = data.from
      /\ start.file = at \div FileSize
  <2>1. PICK n \in Nat : /\ n = front.offset + Size(frame.data) - Size(data)
                         /\ PlaceOf(front) + (data.from - at) = (front.file * FileSize) + n
    <3>1. PICK o \in Nat, z \in Nat : o = front.offset /\ z = front.file * FileSize
      BY <1>3, MarkNat
    <3>2. PlaceOf(front) = z + o
      BY <3>1 DEF PlaceOf
    <3>3. PICK a \in Nat, b \in Nat, c \in Nat : a = at /\ b = data.from /\ c = to /\ a <= b /\ b <= c
      BY <1>2, <1>4, <1>7
    <3>4. PICK n \in Nat : n = (o + (c - a)) - (c - b) /\ (z + o) + (b - a) = z + n
      BY ONLY <3>3, o \in Nat, z \in Nat
    <3>5. n = front.offset + Size(frame.data) - Size(data)
      <4>1. Size(frame.data) = c - a /\ Size(data) = c - b
        BY <1>4, <1>7, <3>3
      <4> QED
        BY <3>1, <3>4, <4>1
    <3>6. PlaceOf(front) + (data.from - at) = (front.file * FileSize) + n
      BY <3>1, <3>2, <3>3, <3>4
    <3> QED
      BY <3>4, <3>5, <3>6
  <2>2. start = [front EXCEPT !.offset = n]
    BY <2>1
  <2>3. start \in LogMark /\ start.source = front.source /\ start.file = front.file /\ start.offset = n
    BY <1>3, <2>2 DEF LogMark
  <2>4. PlaceOf(start) = (front.file * FileSize) + n
    BY <2>3 DEF PlaceOf
  <2> QED
    BY <1>2, <1>3, <1>4, <1>7, <2>1, <2>3, <2>4
<1>10. at \div FileSize = (to - 1) \div FileSize
  <2>1. to \in at + 1 .. FileEnd(at)
    <3>1. FileEnd(at) \in Nat
      <4>1. PICK base \in Nat : FileEnd(at) = base + FileSize
        BY <1>2, FileOf
      <4> QED
        BY <4>1, SizesAre
    <3> QED
      BY <1>2, <1>3, <1>4, <3>1
  <2> QED
    BY <1>2, <2>1, FileOf
<1>11. begins => /\ st.finished => ThereFrom(st, start, next) = EveryByte
                 /\ ~st.finished => ThereFrom(st, start, next) = IF st.ended > data.from
                                                                 THEN st.ended - data.from ELSE 0
                 /\ ThereFrom(st, start, next) \in Nat
  <2> HIDE DEF start, next
  <2> SUFFICES ASSUME begins
               PROVE /\ st.finished => ThereFrom(st, start, next) = EveryByte
                     /\ ~st.finished => ThereFrom(st, start, next) = IF st.ended > data.from
                                                                 THEN st.ended - data.from ELSE 0
                     /\ ThereFrom(st, start, next) \in Nat
    OBVIOUS
  <2>1. data.from < to
    BY <1>4, <1>7
  <2>2. /\ st.finished => ThereFrom(st, start, next) = EveryByte
        /\ ~st.finished => ThereFrom(st, start, next) = IF st.ended > PlaceOf(start)
                                                         THEN st.ended - PlaceOf(start) ELSE 0
    BY <1>1, <1>3, <1>7, <1>8, <1>9, <2>1, ThereIs
  <2>3. PICK there : there = ThereFrom(st, start, next)
    OBVIOUS
  <2>4. st.finished \in BOOLEAN
    BY <1>1, ShapeIs
  <2> QED
    BY <1>2, <1>7, <1>9, <2>2, <2>3, <2>4, EveryByteIs
<1> HIDE DEF start, next
<1>12. /\ rest \in LogSpan /\ rest.to = to /\ rest.from \in Nat /\ rest.from <= to
       /\ rest.from = IF joins /\ BreakAt(log, data.from) THEN data.from + 1 ELSE data.from
  <2>1. Size(data) > 0 => data.from \in at .. to - 1
    BY <1>2, <1>4, <1>7
  <2>2. joins => (data.from \in breaks <=> BreakAt(log, data.from))
    BY <1>5, <2>1
  <2>3. CASE joins /\ data.from \in breaks
    <3>1. PICK d \in LogSpan, f \in Nat : d = data /\ f = data.from
      BY <1>7
    <3>2. rest = [d EXCEPT !.from = f + 1]
      BY <2>3, <3>1
    <3>3. rest \in LogSpan /\ rest.from = f + 1 /\ rest.to = d.to
      BY <3>2 DEF LogSpan
    <3> QED
      BY <1>4, <1>7, <2>1, <2>2, <2>3, <3>1, <3>3
  <2>4. CASE ~(joins /\ data.from \in breaks)
    <3>1. rest = data
      BY <2>4
    <3> QED
      BY <1>7, <2>2, <2>4, <3>1
  <2> QED
    BY <2>3, <2>4
<1>13. Joined(st.held, rest) = IF Size(st.held) = 0 THEN rest ELSE [from |-> st.held.from, to |-> to]
  <2>1. [st.held EXCEPT !.to = to] = [from |-> st.held.from, to |-> to]
    BY <1>2 DEF LogSpan
  <2> HIDE DEF rest
  <2> QED
    BY <1>12, <2>1 DEF Joined
<1>14. PICK cutNow \in BOOLEAN, startNow \in LogMark \cup {NoMark}, thereNow \in Nat, unendedNow \in BOOLEAN,
            heldNow \in LogSpan :
         /\ cutNow = (cut /\ breaks = {})
         /\ startNow = (IF begins THEN start ELSE st.start)
         /\ thereNow = (IF begins THEN ThereFrom(st, start, next) ELSE st.there)
         /\ unendedNow = (st.unended /\ ~joins)
         /\ heldNow = Joined(st.held, rest)
  <2>1. (cut /\ breaks = {}) \in BOOLEAN /\ (st.unended /\ ~joins) \in BOOLEAN
    OBVIOUS
  <2>2. (IF begins THEN start ELSE st.start) \in LogMark \cup {NoMark}
    BY <1>1, <1>9, ShapeIs
  <2>3. (IF begins THEN ThereFrom(st, start, next) ELSE st.there) \in Nat
    BY <1>2, <1>11
  <2>4. Joined(st.held, rest) \in LogSpan
    <3>1. [from |-> st.held.from, to |-> to] \in LogSpan
      BY <1>2, <1>4 DEF LogSpan
    <3> HIDE DEF rest
    <3> QED
      BY <1>12, <1>13, <3>1
  <2> HIDE DEF begins, joins, rest
  <2> QED
    BY <2>1, <2>2, <2>3, <2>4
<1>15. un = [st EXCEPT !.fresh = FALSE, !.cut = cutNow, !.next = next, !.at = to, !.start = startNow,
                       !.there = thereNow, !.unended = unendedNow, !.held = heldNow]
  <2>1. un = [st EXCEPT !.fresh = FALSE, !.cut = cut /\ breaks = {}, !.next = next, !.at = to,
                        !.start = IF begins THEN start ELSE @,
                        !.there = IF begins THEN ThereFrom(st, start, next) ELSE @,
                        !.unended = @ /\ ~joins, !.held = Joined(@, rest)]
    BY <1>0 DEF Uncut, front, breaks, cut, data, next, start
  <2> QED
    BY <1>14, <2>1
<1>16. /\ un \in TailShape
       /\ un.source = st.source /\ un.finished = st.finished
       /\ un.chunk = st.chunk /\ un.shut = st.shut /\ un.err = st.err /\ un.end = st.end
       /\ un.given = st.given /\ un.ended = st.ended /\ un.opened = st.opened
       /\ un.fresh = FALSE /\ un.cut = cutNow /\ un.next = next /\ un.at = to
       /\ un.start = startNow /\ un.there = thereNow /\ un.unended = unendedNow /\ un.held = heldNow
  <2>1. PICK nextNow \in LogMark \cup {NoMark}, toNow \in Nat : nextNow = next /\ toNow = to
    BY <1>4, <1>8
  <2>2. PICK half : half = [st EXCEPT !.fresh = FALSE, !.cut = cutNow, !.next = nextNow, !.at = toNow]
    OBVIOUS
  <2>3. un = [half EXCEPT !.start = startNow, !.there = thereNow, !.unended = unendedNow, !.held = heldNow]
    BY <1>15, <2>1, <2>2
  <2>4. st \in TailShape
    BY <1>1
  <2>5. /\ half \in TailShape
        /\ half.source = st.source /\ half.finished = st.finished
        /\ half.chunk = st.chunk /\ half.shut = st.shut /\ half.err = st.err /\ half.end = st.end
        /\ half.given = st.given /\ half.ended = st.ended /\ half.opened = st.opened
        /\ half.fresh = FALSE /\ half.cut = cutNow /\ half.next = nextNow /\ half.at = toNow
    BY ONLY <2>2, <2>4, cutNow \in BOOLEAN, nextNow \in LogMark \cup {NoMark}, toNow \in Nat DEF TailShape
  <2>6. /\ un \in TailShape
        /\ un.source = half.source /\ un.finished = half.finished
        /\ un.chunk = half.chunk /\ un.shut = half.shut /\ un.err = half.err /\ un.end = half.end
        /\ un.given = half.given /\ un.ended = half.ended /\ un.opened = half.opened
        /\ un.fresh = half.fresh /\ un.cut = half.cut /\ un.next = half.next /\ un.at = half.at
        /\ un.start = startNow /\ un.there = thereNow /\ un.unended = unendedNow /\ un.held = heldNow
    BY ONLY <2>3, <2>5, startNow \in LogMark \cup {NoMark}, thereNow \in Nat, unendedNow \in BOOLEAN,
            heldNow \in LogSpan DEF TailShape
  <2>7. cutNow \in BOOLEAN /\ unendedNow \in BOOLEAN
    OBVIOUS
  <2> QED
    BY ONLY <2>1, <2>5, <2>6, <2>7
<1>17. CASE st.start = NoMark /\ ~begins
  <2>1. Size(st.held) = 0 /\ ~st.unended /\ (st.fresh \/ st.cut \/ Edge(log, at))
    <3>1. Size(st.held) \in Int
      BY <1>1, ShapeIs
    <3> QED
      BY <1>1, <1>17, <3>1 DEF Begun, Held
  <2>2. Size(data) = 0 /\ data.from = to
    BY <1>4, <1>7, <1>17
  <2>3. heldNow = rest /\ rest.from = to /\ rest.to = to
    BY <1>12, <1>13, <1>14, <2>1, <2>2
  <2>4. Size(un.held) = 0 /\ un.held.to = un.at
    BY <1>4, <1>16, <2>3 DEF Size
  <2>5. ~un.cut => Edge(log, un.at)
    <3>1. ~(cut /\ breaks = {}) => cut /\ breaks # {}
      BY <1>2, <1>3, <1>4, <1>7, <2>2
    <3>2. un.cut = (cut /\ breaks = {}) /\ un.at = to
      BY <1>14, <1>16
    <3> QED
      BY <1>7, <2>2, <3>1, <3>2
  <2>6. un.start = NoMark /\ ~un.unended
    BY <1>14, <1>16, <1>17, <2>1
  <2>7. StaysCut(log, st, un)
    BY <1>17, <2>4, <2>5, <2>6 DEF StaysCut
  <2> QED
    BY <1>0, <1>3, <1>8, <1>10, <1>16, <2>6, <2>7
<1>18. CASE st.start = NoMark /\ begins
  <2>1. Size(st.held) = 0 /\ ~st.unended /\ (st.fresh \/ st.cut \/ Edge(log, at))
    <3>1. Size(st.held) \in Int
      BY <1>1, ShapeIs
    <3> QED
      BY <1>1, <1>18, <3>1 DEF Begun, Held
  <2>2. data.from < to
    BY <1>4, <1>7, <1>18
  <2>3. rest.from = data.from /\ rest.to = to /\ heldNow = rest
    BY <1>12, <1>13, <1>14, <2>1
  <2>4. un.held = [from |-> data.from, to |-> to]
    <3>1. un.held = rest /\ rest \in LogSpan
      BY <1>12, <1>16, <2>3
    <3> HIDE DEF rest
    <3> QED
      BY <2>3, <3>1 DEF LogSpan
  <2>5. ~(cut /\ breaks = {})
    BY <1>4, <1>7, <2>2
  <2>6. Edge(log, data.from)
    <3>1. CASE cut
      BY <1>7, <2>5, <3>1
    <3>2. CASE ~cut
      <4>1. data.from = at
        BY <1>7, <3>2
      <4>2. st.fresh => PlaceOf(front) = 0
        BY <1>3, <3>2 DEF cut, AtStart
      <4>3. st.fresh => Edge(log, at)
        BY <1>3, <4>2 DEF Edge
      <4>4. ~st.fresh => ~st.cut
        BY <3>2 DEF cut
      <4> QED
        BY <2>1, <4>1, <4>3, <4>4
    <3> QED
      BY <3>1, <3>2
  <2>7. un.start = start /\ un.there = ThereFrom(st, start, next) /\ ~un.cut /\ ~un.unended
    BY <1>14, <1>16, <1>18, <2>1, <2>5
  <2>8. BeginsHere(log, st, un)
    BY <1>7, <1>9, <1>11, <1>16, <1>18, <2>2, <2>4, <2>6, <2>7 DEF BeginsHere
  <2> QED
    BY <1>0, <1>3, <1>8, <1>10, <1>16, <2>7, <2>8
<1>19. CASE st.start # NoMark
  <2>1. ~st.fresh /\ ~st.cut /\ ~begins
    BY <1>1, <1>19 DEF Begun
  <2>2. ~cut /\ data.from = at /\ Size(data) > 0
    BY <1>2, <1>3, <1>4, <1>7, <2>1 DEF cut
  <2>3. un.start = st.start /\ un.there = st.there /\ ~un.cut /\ ~un.unended
    BY <1>14, <1>16, <2>1, <2>2
  <2>4. /\ un.held.to = to
        /\ un.held.from = IF Size(st.held) > 0 THEN st.held.from
                          ELSE IF st.unended /\ BreakAt(log, at) THEN at + 1 ELSE at
    <3>1. Size(st.held) \in Int /\ Size(st.held) >= 0
      BY <1>1, ShapeIs DEF Held
    <3>2. rest.to = to /\ rest.from = IF st.unended /\ BreakAt(log, at) THEN at + 1 ELSE at
      BY <1>12, <2>2
    <3> HIDE DEF rest
    <3>3. CASE Size(st.held) = 0
      BY <1>13, <1>14, <1>16, <3>2, <3>3
    <3>4. CASE Size(st.held) > 0
      <4>1. un.held = [from |-> st.held.from, to |-> to]
        BY <1>13, <1>14, <1>16, <3>1, <3>4
      <4> QED
        BY <3>4, <4>1
    <3> QED
      BY <3>1, <3>3, <3>4
  <2>5. GoesOn(log, st, un)
    BY <1>16, <1>19, <2>3, <2>4 DEF GoesOn
  <2> QED
    BY <1>0, <1>3, <1>8, <1>10, <1>16, <2>3, <2>5
<1> QED
  BY <1>17, <1>18, <1>19

(* What goes out of what is held: up to its last break, or all of it where  *)
(* the rest is long.                                                        *)
TakenAs(log, un, new) ==
  /\ new \in TailShape
  /\ new.source = un.source /\ new.finished = un.finished /\ new.shut = un.shut
  /\ new.end = un.end /\ new.given = un.given /\ new.ended = un.ended /\ new.opened = un.opened
  /\ new.fresh = un.fresh /\ new.cut = un.cut /\ new.next = un.next /\ new.at = un.at
  /\ new.start = un.start /\ new.there = un.there
  /\ \E whole \in Nat :
       /\ un.held.from <= whole /\ whole <= un.held.to
       /\ whole = un.held.from \/ BreakAt(log, whole - 1)
       /\ \A p \in whole .. un.held.to - 1 : ~BreakAt(log, p)
       /\ \/ /\ un.held.to - whole > LogTail /\ new.unended
             /\ new.chunk = un.held /\ new.held = NoSpan
          \/ /\ ~new.unended /\ new.chunk = [from |-> un.held.from, to |-> whole]
             /\ new.held = [from |-> whole, to |-> un.held.to]

LEMMA TakenIs ==
  ASSUME NEW un \in TailShape, NEW log, log = logs[un.source], log \in Seq(BOOLEAN),
         un.held.from <= un.held.to, un.held.to <= Len(log), ~un.unended, NEW new, new = Taken(un)
  PROVE  TakenAs(log, un, new)
<1> DEFINE h == un.held
           breaks == Breaks(un.source, h)
           ends == {h.from} \cup {i + 1 : i \in breaks}
           long == h.to - Max(ends) > LogTail
<1>1. /\ h \in LogSpan /\ h.from \in Nat /\ h.to \in Nat /\ un.source \in Sources
      /\ un.shut \in BOOLEAN /\ un.err \in BOOLEAN /\ un.given \in Nat /\ LogTail \in Nat
  BY ShapeIs, SizesAre
<1>2. /\ breaks \in SUBSET (h.from .. h.to - 1)
      /\ \A p \in h.from .. h.to - 1 : p \in breaks <=> BreakAt(log, p)
  BY <1>1, BreaksAre DEF Bytes
<1> HIDE DEF breaks
<1>3. ends \in SUBSET (0 .. h.to) /\ ends # {}
  <2>1. h.from \in 0 .. h.to
    <3>1. h.from <= h.to
      OBVIOUS
    <3> QED
      BY ONLY <1>1, <3>1
  <2>2. ASSUME NEW i \in breaks PROVE i + 1 \in 0 .. h.to
    <3>1. i \in h.from .. h.to - 1
      BY <1>2
    <3> QED
      BY ONLY <1>1, <3>1
  <2> QED
    BY <2>1, <2>2
<1>4. PICK whole \in ends : whole = Max(ends) /\ \A n \in ends : n <= whole
  <2> HIDE DEF ends
  <2> QED
    BY <1>1, <1>3, MaxIs
<1>5. whole \in Nat /\ h.from <= whole /\ whole <= h.to
  BY <1>1, <1>3, <1>4
<1>6. whole = h.from \/ BreakAt(log, whole - 1)
  <2> SUFFICES ASSUME whole # h.from PROVE BreakAt(log, whole - 1)
    OBVIOUS
  <2>1. PICK i \in breaks : whole = i + 1
    BY <1>4
  <2>2. i \in h.from .. h.to - 1 /\ i = whole - 1
    BY <1>1, <1>2, <2>1
  <2> QED
    BY <1>2, <2>2
<1>7. ASSUME NEW p \in whole .. h.to - 1 PROVE ~BreakAt(log, p)
  <2>1. p \in h.from .. h.to - 1 /\ ~(p + 1 <= whole)
    BY <1>1, <1>5
  <2>2. p \notin breaks
    BY <1>4, <2>1
  <2> QED
    BY <1>2, <2>1, <2>2
<1>8. PICK chunk \in LogSpan, held \in LogSpan, unended \in BOOLEAN :
        /\ chunk = (IF long THEN h ELSE [from |-> h.from, to |-> whole])
        /\ held = (IF long THEN NoSpan ELSE [h EXCEPT !.from = whole])
        /\ unended = (un.unended \/ long)
  <2>1. [from |-> h.from, to |-> whole] \in LogSpan /\ NoSpan \in LogSpan /\ [h EXCEPT !.from = whole] \in LogSpan
    BY <1>1, <1>5 DEF LogSpan, NoSpan
  <2> HIDE DEF long
  <2> QED
    BY <1>1, <2>1
<1>9. new = [un EXCEPT !.chunk = chunk, !.held = held, !.unended = unended]
  <2>1. new = [un EXCEPT !.chunk = IF long THEN h ELSE [from |-> h.from, to |-> whole],
                         !.held = IF long THEN NoSpan ELSE [h EXCEPT !.from = whole],
                         !.unended = un.unended \/ long]
    BY <1>4 DEF Taken, breaks
  <2> QED
    BY <1>8, <2>1
<1>10. /\ new \in TailShape
       /\ new.source = un.source /\ new.finished = un.finished /\ new.shut = un.shut
       /\ new.end = un.end /\ new.given = un.given /\ new.ended = un.ended /\ new.opened = un.opened
       /\ new.fresh = un.fresh /\ new.cut = un.cut /\ new.next = un.next /\ new.at = un.at
       /\ new.start = un.start /\ new.there = un.there
       /\ new.chunk = chunk /\ new.held = held /\ new.unended = unended
  BY ONLY <1>9, un \in TailShape, chunk \in LogSpan, held \in LogSpan, unended \in BOOLEAN DEF TailShape
<1>11. [h EXCEPT !.from = whole] = [from |-> whole, to |-> h.to]
  BY <1>1 DEF LogSpan
<1>12. \/ /\ h.to - whole > LogTail /\ new.unended
          /\ new.chunk = h /\ new.held = NoSpan
       \/ /\ ~new.unended /\ new.chunk = [from |-> h.from, to |-> whole]
          /\ new.held = [from |-> whole, to |-> h.to]
  <2>1. long <=> h.to - whole > LogTail
    BY <1>4
  <2> HIDE DEF long
  <2> QED
    BY <1>8, <1>10, <1>11, <2>1
<1> QED
  BY <1>5, <1>6, <1>7, <1>10, <1>12 DEF TakenAs

(* What is taken of what is held is held as it should be.                   *)
LEMMA TakenHeld ==
  ASSUME NEW un \in TailShape, NEW log, log = logs[un.source], log \in Seq(BOOLEAN),
         un.held.from <= un.held.to, un.held.to = un.at, un.at <= Len(log), ~un.unended, ~un.shut,
         NEW new, new = Taken(un)
  PROVE  /\ Held(log, new) /\ Ahead(new) = un.held.from
         /\ Size(new.chunk) + Size(new.held) = Size(un.held)
         /\ new.unended => Size(new.chunk) > LogTail
<1>0. un.held.to <= Len(log)
  OBVIOUS
<1>1. TakenAs(log, un, new)
  BY <1>0, TakenIs
<1>2. PICK whole \in Nat :
           /\ un.held.from <= whole /\ whole <= un.held.to
           /\ whole = un.held.from \/ BreakAt(log, whole - 1)
           /\ \A p \in whole .. un.held.to - 1 : ~BreakAt(log, p)
           /\ \/ /\ un.held.to - whole > LogTail /\ new.unended
                 /\ new.chunk = un.held /\ new.held = NoSpan
              \/ /\ ~new.unended /\ new.chunk = [from |-> un.held.from, to |-> whole]
                 /\ new.held = [from |-> whole, to |-> un.held.to]
  BY <1>1 DEF TakenAs
<1>3. PICK from \in Nat, at \in Nat, tail \in Nat :
        /\ from = un.held.from /\ at = un.at /\ tail = LogTail /\ from <= whole /\ whole <= at
        /\ tail > 0 /\ un.held.to = at
  BY <1>2, ShapeIs, SizesAre
<1>6. new \in TailShape /\ new.shut = un.shut /\ new.at = un.at
  BY <1>1 DEF TakenAs
<1>4. CASE new.unended
  <2>1. /\ at - whole > tail /\ new.chunk = un.held /\ new.held = NoSpan /\ new.at = at
    BY <1>6, <1>2, <1>3, <1>4
  <2>2. /\ new.chunk.from = from /\ new.chunk.to = at /\ Size(new.chunk) = at - from
        /\ Size(new.held) = 0 /\ Size(un.held) = at - from /\ new.held.to = 0
    BY <1>3, <2>1 DEF Size, NoSpan
  <2>3. at - 1 \in whole .. at - 1 /\ at - from > tail
    BY <1>3, <2>1
  <2>4. ~BreakAt(log, at - 1)
    BY <1>2, <1>3, <2>3
  <2>5. at - from > 0 /\ at - from >= 0 /\ at - from \in Int /\ at <= at /\ 0 <= at
    BY <1>3, <2>3
  <2>6. Held(log, new)
    BY <1>6, <1>3, <1>4, <2>1, <2>2, <2>4, <2>5 DEF Held
  <2> QED
    BY <1>3, <2>2, <2>3, <2>5, <2>6 DEF Ahead
<1>5. CASE ~new.unended
  <2>1. new.chunk = [from |-> from, to |-> whole] /\ new.held = [from |-> whole, to |-> at] /\ new.at = at
    BY <1>6, <1>2, <1>3, <1>5
  <2>2. /\ new.chunk.from = from /\ new.chunk.to = whole /\ Size(new.chunk) = whole - from
        /\ new.held.from = whole /\ new.held.to = at
        /\ Size(new.held) = at - whole /\ Size(un.held) = at - from
    BY <1>3, <2>1 DEF Size
  <2>3. \A p \in whole .. at - 1 : ~BreakAt(log, p)
    BY <1>2, <1>3
  <2>4. /\ whole - from \in Nat /\ at - whole \in Nat /\ (whole - from) + (at - whole) = at - from
        /\ whole - from > 0 => whole # from
        /\ at - whole = 0 => whole = at
        /\ whole - from = 0 => whole = from
    <3>1. \A x, y, z \in Nat : x <= y /\ y <= z =>
            /\ y - x \in Nat /\ z - y \in Nat /\ (y - x) + (z - y) = z - x
            /\ y - x > 0 => y # x
            /\ z - y = 0 => y = z
            /\ y - x = 0 => y = x
      OBVIOUS
    <3> QED
      BY ONLY <1>3, <3>1, whole \in Nat
  <2>5. whole - from > 0 => BreakAt(log, whole - 1)
    BY <1>2, <1>3, <2>4
  <2>6. Held(log, new)
    <3>1. new.at <= Len(log) /\ new.chunk.to <= new.at /\ new.held.to <= new.at /\ Size(new.chunk) >= 0 /\ Size(new.held) >= 0
      BY <1>6, <1>3, <2>1, <2>2, <2>4
    <3>2. Size(new.held) > 0 => /\ new.held.to = new.at /\ ~new.unended /\ ~new.shut
                                /\ \A p \in new.held.from .. new.held.to - 1 : ~BreakAt(log, p)
      BY <1>6, <1>5, <2>1, <2>2, <2>3
    <3>3. Size(new.chunk) > 0 /\ Size(new.held) > 0 =>
            new.chunk.to = new.held.from /\ BreakAt(log, new.chunk.to - 1)
      BY <2>2, <2>5
    <3>4. Size(new.chunk) > 0 /\ Size(new.held) = 0 =>
            new.chunk.to = new.at /\ BreakAt(log, new.at - 1)
      BY <2>1, <2>2, <2>4, <2>5
    <3> QED
      BY <1>5, <3>1, <3>2, <3>3, <3>4 DEF Held
  <2>7. Ahead(new) = from
    <3>1. CASE whole - from > 0
      BY <2>2, <3>1 DEF Ahead
    <3>2. CASE whole - from = 0 /\ at - whole > 0
      BY <2>2, <2>4, <3>2 DEF Ahead
    <3>3. CASE whole - from = 0 /\ at - whole = 0
      BY <2>1, <2>2, <2>4, <3>3 DEF Ahead
    <3> QED
      BY <2>4, <3>1, <3>2, <3>3
  <2> QED
    BY <1>3, <1>5, <2>2, <2>4, <2>6, <2>7
<1> QED
  BY <1>6, <1>4, <1>5, ShapeIs

(* What goes on in a stream of which the page knows nothing yet.            *)
Keeps(log, st, new) ==
  /\ TailOK(log, new) /\ new.source = st.source /\ new.finished = st.finished
  /\ new.opened = st.opened /\ new.ended = st.ended
  /\ st.start # NoMark => new.start = st.start
  /\ \A to \in Nat : Joins(log, st, to) => Joins(log, new, to)
  /\ Untold(st) => Untold(new)

(* A frame of its log keeps a stream as it should be, and what it has ahead *)
(* joined to what it gave.                                                  *)
LEMMA FrameKeeps ==
  ASSUME NEW st, NEW log, log = logs[st.source], log \in Seq(BOOLEAN), TailOK(log, st),
         ~st.shut, Size(st.chunk) = 0, NEW frame \in Frames(st), NEW new, new = Taken(Uncut(st, frame))
  PROVE  Keeps(log, st, new)
<1> SUFFICES /\ TailOK(log, new) /\ new.source = st.source /\ new.finished = st.finished
             /\ new.opened = st.opened /\ new.ended = st.ended
             /\ st.start # NoMark => new.start = st.start
             /\ \A to \in Nat : Joins(log, st, to) => Joins(log, new, to)
             /\ Untold(st) => Untold(new)
  BY DEF Keeps
<1>0. PICK un : un = Uncut(st, frame)
  OBVIOUS
<1>1. /\ un \in TailShape
      /\ un.source = st.source /\ un.finished = st.finished
      /\ un.shut = st.shut /\ un.end = st.end
      /\ un.given = st.given /\ un.ended = st.ended /\ un.opened = st.opened
      /\ ~un.fresh /\ ~un.unended /\ st.at < un.at /\ un.at <= Len(log)
      /\ un.next \in LogMark /\ un.next.source = st.source /\ PlaceOf(un.next) = un.at
      /\ un.next.file = (un.at - 1) \div FileSize
      /\ StaysCut(log, st, un) \/ BeginsHere(log, st, un) \/ GoesOn(log, st, un)
  BY <1>0, UncutIs
<1>2. /\ st \in TailShape /\ Held(log, st) /\ Begun(log, st) /\ EndKnown(log, st) /\ Counted(st)
  BY DEF TailOK
<1>3. PICK at \in Nat, now \in Nat, from \in Nat :
        at = st.at /\ now = un.at /\ from = un.held.from /\ at < now
  BY <1>1, <1>2, ShapeIs
<1>4. /\ st.held.from \in Nat /\ st.held.to \in Nat /\ Size(st.held) = st.held.to - st.held.from
      /\ Size(st.held) >= 0
      /\ Size(st.held) > 0 => st.held.to = at
      /\ un.held.to \in Nat /\ Size(un.held) = un.held.to - from
  BY <1>1, <1>2, <1>3, ShapeIs DEF Held, Size
<1>5. Ahead(st) = IF Size(st.held) > 0 THEN st.held.from ELSE at
  BY <1>3 DEF Ahead
<1>6. un.held.to = now
  BY <1>1, <1>3 DEF StaysCut, BeginsHere, GoesOn
<1>7. from <= now
  <2>1. CASE StaysCut(log, st, un)
    BY <1>4, <1>6, <2>1 DEF StaysCut
  <2>2. CASE BeginsHere(log, st, un)
    <3>1. from = PlaceOf(un.start) /\ PlaceOf(un.start) < now
      BY <1>3, <2>2 DEF BeginsHere
    <3> QED
      BY <1>3, <3>1
  <2>3. CASE GoesOn(log, st, un)
    <3>1. from = IF Size(st.held) > 0 THEN st.held.from
                 ELSE IF st.unended /\ BreakAt(log, at) THEN at + 1 ELSE at
      BY <1>3, <2>3 DEF GoesOn
    <3> QED
      BY <1>3, <1>4, <3>1
  <2> QED
    BY <1>1, <2>1, <2>2, <2>3
<1>8. /\ un.held.from <= un.held.to /\ un.held.to = un.at /\ ~un.shut /\ log = logs[un.source]
      /\ new = Taken(un)
  BY <1>0, <1>1, <1>3, <1>6, <1>7
<1>9. /\ Held(log, new) /\ Ahead(new) = from
      /\ Size(new.chunk) + Size(new.held) = now - from
      /\ new.unended => Size(new.chunk) > LogTail
  BY <1>1, <1>3, <1>4, <1>6, <1>8, TakenHeld
<1>10. TakenAs(log, un, new)
  BY <1>1, <1>6, <1>3, <1>8, TakenIs
<1>11. /\ new \in TailShape
       /\ new.source = st.source /\ new.finished = st.finished /\ ~new.shut
       /\ new.end = st.end /\ new.given = st.given /\ new.ended = st.ended /\ new.opened = st.opened
       /\ ~new.fresh /\ new.cut = un.cut /\ new.next = un.next /\ new.at = now
       /\ new.start = un.start /\ new.there = un.there
  BY <1>1, <1>3, <1>10 DEF TakenAs
<1>12. EndKnown(log, new)
  <2>1. st.opened - LogTail <= now
    <3>1. st.opened - LogTail <= at /\ st.opened \in Nat /\ LogTail \in Nat
      BY <1>2, <1>3, ShapeIs, SizesAre DEF EndKnown
    <3> QED
      BY <1>3, <3>1
  <2> QED
    BY <1>2, <1>11, <2>1 DEF EndKnown
<1>13. /\ Size(new.chunk) \in Int /\ Size(new.held) \in Int /\ LogTail \in Nat /\ LogTail > 0
       /\ Size(new.chunk) >= 0 /\ Size(new.held) >= 0
  BY <1>9, <1>11, ShapeIs, SizesAre DEF Held
<1>14. new.next \in LogMark /\ new.next.source = new.source /\ PlaceOf(new.next) = new.at /\ new.at > 0
       /\ new.next.file = (new.at - 1) \div FileSize
  BY <1>1, <1>3, <1>11
<1>15. CASE StaysCut(log, st, un)
  <2>1. /\ new.start = NoMark /\ now - from = 0 /\ (new.cut \/ Edge(log, now)) /\ st.start = NoMark
    BY <1>3, <1>4, <1>6, <1>11, <1>15 DEF StaysCut
  <2>2. Size(new.chunk) = 0 /\ Size(new.held) = 0 /\ ~new.unended
    BY <1>9, <1>13, <2>1
  <2>3. new.given = 0
    BY <1>2, <1>11, <2>1 DEF Begun
  <2>4. Begun(log, new)
    BY <1>11, <1>14, <2>1, <2>2, <2>3 DEF Begun
  <2>5. Counted(new)
    BY <2>1 DEF Counted
  <2>6. TailOK(log, new)
    BY <1>9, <1>11, <1>12, <2>4, <2>5 DEF TailOK
  <2>7. \A to \in Nat : ~Joins(log, st, to)
    BY <2>1 DEF Joins
  <2> QED
    BY <1>11, <2>1, <2>6, <2>7 DEF Untold
<1>16. CASE BeginsHere(log, st, un)
  <2>1. /\ st.start = NoMark /\ ~new.cut /\ new.start \in LogMark /\ new.start.source = new.source
        /\ from = PlaceOf(new.start) /\ Edge(log, from) /\ at <= from /\ from < now
        /\ new.finished => new.there = EveryByte
        /\ ~new.finished => new.there = IF new.ended > from THEN new.ended - from ELSE 0
    BY <1>3, <1>11, <1>16 DEF BeginsHere
  <2>2. new.start # NoMark
    BY <2>1, MarkNat
  <2>3. new.given = 0
    BY <1>2, <1>11, <2>1 DEF Begun
  <2>4. Begun(log, new)
    <3>1. PlaceOf(new.start) <= Ahead(new)
      BY <1>3, <1>9, <2>1
    <3> QED
      BY <1>11, <1>14, <2>1, <2>2, <3>1 DEF Begun
  <2>5. Counted(new)
    <3>1. new.opened - LogTail <= from
      <4>1. st.opened - LogTail <= at /\ st.opened \in Nat /\ LogTail \in Nat
        BY <1>2, <1>3, ShapeIs, SizesAre DEF EndKnown
      <4> QED
        BY <1>3, <1>11, <2>1, <4>1
    <3>2. new.there \in Nat /\ new.given <= new.there /\ Ahead(new) - from = 0
      BY <1>3, <1>9, <1>11, <2>3, ShapeIs
    <3>3. new.unended => Size(new.chunk) > 0
      BY <1>9, <1>13
    <3> QED
      BY <1>9, <2>1, <2>3, <3>1, <3>2, <3>3 DEF Counted
  <2>6. TailOK(log, new)
    BY <1>9, <1>11, <1>12, <2>4, <2>5 DEF TailOK
  <2>7. \A to \in Nat : ~Joins(log, st, to)
    BY <2>1 DEF Joins
  <2>8. Untold(new)
    <3>1. now - from > 0
      BY <1>3, <2>1
    <3> QED
      BY <1>9, <2>1, <3>1 DEF Untold
  <2> QED
    BY <1>11, <2>1, <2>6, <2>7, <2>8
<1>17. CASE GoesOn(log, st, un)
  <2>1. /\ st.start # NoMark /\ ~new.cut /\ new.start = st.start /\ new.there = st.there
        /\ from = IF Size(st.held) > 0 THEN st.held.from
                  ELSE IF st.unended /\ BreakAt(log, at) THEN at + 1 ELSE at
    BY <1>3, <1>11, <1>17 DEF GoesOn
  <2>2. PICK start \in Nat : start = PlaceOf(st.start) /\ st.start \in LogMark
    BY <1>2, <2>1, MarkNat, ShapeIs
  <2>3. Ahead(st) \in Nat /\ start <= Ahead(st) /\ Ahead(st) <= from
    BY <1>2, <1>3, <1>4, <1>5, <2>1, <2>2 DEF Begun
  <2>4. Begun(log, new)
    <3>1. new.start \in LogMark /\ new.start.source = new.source /\ Edge(log, PlaceOf(new.start))
      BY <1>2, <1>11, <2>1 DEF Begun
    <3>2. PlaceOf(new.start) <= Ahead(new)
      BY <1>3, <1>9, <2>1, <2>2, <2>3
    <3> QED
      BY <1>11, <1>14, <2>1, <3>1, <3>2 DEF Begun
  <2>5. Counted(new)
    <3>1. /\ st.opened - LogTail <= start /\ st.given <= st.there /\ st.given <= Ahead(st) - start
          /\ st.finished => st.there = EveryByte
          /\ ~st.finished => /\ st.there = IF st.ended > start THEN st.ended - start ELSE 0
                             /\ st.given \in {Ahead(st) - start, st.there}
                             /\ st.unended => st.given = st.there
      BY <1>2, <2>1, <2>2 DEF Counted
    <3>2. st.given \in Nat /\ st.there \in Nat
      BY <1>2, ShapeIs
    <3>3. st.given <= from - start
      BY <1>3, <2>2, <2>3, <3>1, <3>2
    <3>4. ~st.finished => st.given \in {from - start, st.there}
      <4>1. Ahead(st) = from \/ st.unended
        BY <1>5, <2>1
      <4> QED
        BY <3>1, <4>1
    <3>5. new.unended => Size(new.chunk) > LogTail /\ Size(new.chunk) > 0
      BY <1>9, <1>13
    <3>6. PlaceOf(new.start) = start /\ Ahead(new) = from
      BY <1>9, <2>1, <2>2
    <3> QED
      BY <1>11, <2>1, <3>1, <3>3, <3>4, <3>5, <3>6 DEF Counted
  <2>6. TailOK(log, new)
    BY <1>9, <1>11, <1>12, <2>4, <2>5 DEF TailOK
  <2>7. ASSUME NEW to \in Nat, Joins(log, st, to) PROVE Joins(log, new, to)
    <3>1. Size(st.chunk) + Size(st.held) = Size(st.held) /\ Size(st.held) \in Int
      BY <1>4
    <3>2. CASE Size(st.held) > 0
      <4>1. Follows(log, to, from)
        BY <1>5, <2>1, <2>7, <3>1, <3>2 DEF Joins
      <4>2. now - from > 0
        BY <1>3, <1>4, <2>1, <3>2
      <4> QED
        BY <1>9, <2>1, <4>1, <4>2 DEF Joins
    <3>3. CASE Size(st.held) = 0
      <4>1. IF st.unended THEN to = at ELSE to = at - 1 /\ BreakAt(log, to)
        BY <1>3, <2>7, <3>1, <3>3 DEF Joins
      <4>2. from = IF st.unended /\ BreakAt(log, at) THEN at + 1 ELSE at
        BY <1>4, <2>1, <3>3
      <4>3. Follows(log, to, from)
        <5>1. at < Len(log) /\ Len(log) \in Nat
          BY <1>1, <1>3
        <5>2. CASE st.unended
          BY <1>3, <4>1, <4>2, <5>1, <5>2 DEF Follows
        <5>3. CASE ~st.unended
          BY <1>3, <4>1, <4>2, <5>1, <5>3 DEF Follows
        <5> QED
          BY <5>2, <5>3
      <4>4. now - from = 0 => ~new.unended /\ to = now - 1 /\ BreakAt(log, to)
        <5> SUFFICES ASSUME now - from = 0 PROVE ~new.unended /\ to = now - 1 /\ BreakAt(log, to)
          OBVIOUS
        <5>1. from = now
          BY <1>3
        <5>2. st.unended /\ BreakAt(log, at) /\ from = at + 1
          BY <1>3, <4>2, <5>1
        <5>3. to = at /\ to = now - 1
          BY <1>3, <4>1, <5>1, <5>2
        <5>4. ~new.unended
          BY <1>9, <1>13
        <5> QED
          BY <5>2, <5>3, <5>4
      <4>5. new.start # NoMark /\ new.at = now
        BY <1>11, <2>1
      <4>6. Size(new.chunk) + Size(new.held) = 0 => ~new.unended /\ to = new.at - 1 /\ BreakAt(log, to)
        BY ONLY <1>9, <4>4, <4>5
      <4>7. Follows(log, to, Ahead(new))
        BY ONLY <1>9, <4>3
      <4> QED
        BY ONLY <4>5, <4>6, <4>7 DEF Joins
    <3> QED
      BY <1>4, <3>1, <3>2, <3>3
  <2>8. Untold(st) => Untold(new)
    <3> SUFFICES ASSUME Untold(st) PROVE Untold(new)
      OBVIOUS
    <3>1. Size(st.held) > 0 /\ Ahead(st) = start
      BY <1>4, <2>1, <2>2 DEF Untold
    <3>2. from = start /\ now - from > 0
      BY <1>3, <1>4, <1>5, <2>1, <3>1
    <3> QED
      BY <1>9, <2>1, <2>2, <3>2 DEF Untold
  <2> QED
    BY <1>11, <2>1, <2>6, <2>7, <2>8
<1> QED
  BY <1>1, <1>15, <1>16, <1>17

(* The end of its frames sends what is held.                                *)
Over(st, new) ==
  \/ new = [st EXCEPT !.shut = TRUE, !.chunk = st.held, !.held = NoSpan]
  \/ \E err \in BOOLEAN : new = [st EXCEPT !.shut = TRUE, !.chunk = st.held, !.held = NoSpan, !.err = err]

LEMMA EndKeeps ==
  ASSUME NEW st, NEW log, log = logs[st.source], TailOK(log, st), ~st.shut, Size(st.chunk) = 0,
         NEW new, Over(st, new)
  PROVE  Keeps(log, st, new)
<1>1. /\ st \in TailShape /\ Held(log, st) /\ Begun(log, st) /\ EndKnown(log, st) /\ Counted(st)
  BY DEF TailOK
<1>2. /\ st.held \in LogSpan /\ NoSpan \in LogSpan /\ Size(NoSpan) = 0 /\ NoSpan.to = 0 /\ st.at \in Nat
      /\ Size(st.held) \in Int /\ Size(st.held) >= 0 /\ st.held.to <= st.at
  BY <1>1, ShapeIs DEF LogSpan, NoSpan, Held, Size
<1>3. /\ new \in TailShape
      /\ new.ctx = st.ctx /\ new.source = st.source /\ new.finished = st.finished
      /\ new.chunk = st.held /\ new.shut = TRUE /\ new.end = st.end
      /\ new.given = st.given /\ new.ended = st.ended /\ new.opened = st.opened
      /\ new.fresh = st.fresh /\ new.cut = st.cut /\ new.next = st.next /\ new.at = st.at
      /\ new.start = st.start /\ new.there = st.there /\ new.unended = st.unended /\ new.held = NoSpan
  <2>1. CASE new = [st EXCEPT !.shut = TRUE, !.chunk = st.held, !.held = NoSpan]
    BY ONLY <1>1, <1>2, <2>1 DEF TailShape
  <2>2. CASE \E err \in BOOLEAN : new = [st EXCEPT !.shut = TRUE, !.chunk = st.held, !.held = NoSpan, !.err = err]
    <3>1. PICK err \in BOOLEAN : new = [st EXCEPT !.shut = TRUE, !.chunk = st.held, !.held = NoSpan, !.err = err]
      BY <2>2
    <3> QED
      BY ONLY <1>1, <1>2, <3>1, err \in BOOLEAN DEF TailShape
  <2> QED
    BY <2>1, <2>2 DEF Over
<1>4. Size(new.chunk) = Size(st.held) /\ Size(new.held) = 0
  BY <1>2, <1>3
<1>5. Ahead(new) = Ahead(st)
  <2>1. Ahead(st) = IF Size(st.held) > 0 THEN st.held.from ELSE st.at
    BY DEF Ahead
  <2> QED
    BY <1>2, <1>3, <1>4, <2>1 DEF Ahead
<1>6. Held(log, new)
  <2>1. st.at <= Len(log) /\ 0 <= st.at
    BY <1>1, <1>2 DEF Held
  <2>2. Size(st.held) > 0 => st.held.to = st.at
    BY <1>1 DEF Held
  <2> QED
    BY <1>2, <1>3, <1>4, <2>1, <2>2 DEF Held
<1>7. Begun(log, new)
  BY <1>1, <1>3, <1>4, <1>5 DEF Begun
<1>8. EndKnown(log, new)
  BY <1>1, <1>3 DEF EndKnown
<1>9. Counted(new)
  <2>1. st.unended => Size(st.held) = 0
    BY <1>1, <1>2 DEF Held
  <2>2. st.start # NoMark /\ ~st.finished /\ st.unended => st.given = st.there
    BY <1>1 DEF Counted
  <2> QED
    BY <1>1, <1>3, <1>4, <1>5, <2>1, <2>2 DEF Counted
<1>10. TailOK(log, new)
  BY <1>3, <1>6, <1>7, <1>8, <1>9 DEF TailOK
<1>11. Size(new.chunk) + Size(new.held) = Size(st.chunk) + Size(st.held)
  BY <1>2, <1>4
<1>12. \A to \in Nat : Joins(log, st, to) => Joins(log, new, to)
  BY <1>3, <1>5, <1>11 DEF Joins
<1>13. Untold(st) => Untold(new)
  BY <1>3, <1>5, <1>11 DEF Untold
<1> QED
  BY <1>3, <1>10, <1>12, <1>13 DEF Keeps

(* What a chunk comes as: its lines, those of them with a time that are not *)
(* counted as there when the log was opened.                                *)
ChunkLines(st, new, out) ==
  LET lines == LinesOf(st.source, st.chunk)
      old == {i \in DOMAIN lines :
                \A j \in 1 .. i : st.given + lines[j].ends - st.chunk.from <= st.there}
  IN  /\ new = [st EXCEPT !.chunk = NoSpan, !.given = Min({@ + Size(st.chunk), st.there})]
      /\ out = [i \in DOMAIN lines |-> [lines[i] EXCEPT !.timed = i \notin old]]

LEMMA LinesOfChunk ==
  ASSUME NEW st, NEW log, log = logs[st.source], log \in Seq(BOOLEAN), TailOK(log, st), Size(st.chunk) > 0,
         NEW new, NEW out, ChunkLines(st, new, out)
  PROVE  /\ Chained(st.source, log, out) /\ out # <<>> /\ out[1].from = st.chunk.from
         /\ out[Len(out)].to = IF BreakAt(log, st.chunk.to - 1) THEN st.chunk.to - 1 ELSE st.chunk.to
         /\ \A i \in 1 .. Len(out) :
              /\ out[i].ends \in Nat /\ st.chunk.from < out[i].ends /\ out[i].ends <= st.chunk.to
              /\ out[i].timed => st.given + out[i].ends - st.chunk.from > st.there
              /\ ~out[i].timed => st.given + out[i].ends - st.chunk.from <= st.there
<1> DEFINE lines == LinesOf(st.source, st.chunk)
           old == {i \in DOMAIN lines :
                     \A j \in 1 .. i : st.given + lines[j].ends - st.chunk.from <= st.there}
<1>1. st \in TailShape /\ Held(log, st)
  BY DEF TailOK
<1>2. /\ st.source \in Sources /\ st.chunk \in LogSpan /\ st.chunk.from \in Nat /\ st.chunk.to \in Nat
      /\ st.at \in Nat /\ st.given \in Nat /\ st.there \in Nat
  BY <1>1, ShapeIs
<1>3. st.chunk.from < st.chunk.to /\ st.chunk.to <= Bytes(st.source)
  BY <1>1, <1>2 DEF Held, Size, Bytes
<1>4. /\ Chained(st.source, log, lines) /\ lines # <<>> /\ lines[1].from = st.chunk.from
      /\ \A i \in 1 .. Len(lines) : /\ ~lines[i].timed /\ lines[i].ends \in Nat
                                    /\ st.chunk.from < lines[i].ends /\ lines[i].ends <= st.chunk.to
      /\ \A i, j \in 1 .. Len(lines) : j <= i => lines[j].ends <= lines[i].ends
      /\ lines[Len(lines)].to = IF BreakAt(log, st.chunk.to - 1) THEN st.chunk.to - 1 ELSE st.chunk.to
  BY <1>2, <1>3, LinesAre
<1>5. out = [i \in DOMAIN lines |-> [lines[i] EXCEPT !.timed = i \notin old]]
  BY DEF ChunkLines
<1> HIDE DEF lines
<1>6. PICK count \in Nat : count = Len(lines) /\ DOMAIN lines = 1 .. count /\ lines \in Seq(LogLine) /\ count > 0
  BY <1>4 DEF Chained
<1>7. \A i \in 1 .. count : lines[i] \in LogLine
  BY <1>6
<1>8. \A i \in 1 .. count : (i \notin old) \in BOOLEAN
  OBVIOUS
<1>9. ASSUME NEW i \in 1 .. count
      PROVE  /\ out[i] \in LogLine /\ out[i].source = lines[i].source /\ out[i].from = lines[i].from
             /\ out[i].to = lines[i].to /\ out[i].ends = lines[i].ends /\ out[i].timed = (i \notin old)
  <2>1. PICK timed \in BOOLEAN : timed = (i \notin old)
    BY <1>8
  <2>2. PICK line \in LogLine : line = lines[i]
    BY <1>7
  <2>3. out[i] = [line EXCEPT !.timed = timed]
    BY <1>5, <1>6, <2>1, <2>2
  <2>4. /\ out[i] \in LogLine /\ out[i].source = line.source /\ out[i].from = line.from
        /\ out[i].to = line.to /\ out[i].ends = line.ends /\ out[i].timed = timed
    BY ONLY <2>3, line \in LogLine, timed \in BOOLEAN DEF LogLine
  <2> QED
    BY <2>1, <2>2, <2>4
<1>10. out \in Seq(LogLine) /\ Len(out) = count
  <2>1. out \in [1 .. count -> LogLine]
    <3>1. out = [i \in 1 .. count |-> out[i]]
      BY <1>5, <1>6
    <3> QED
      BY <1>9, <3>1
  <2> QED
    BY <2>1
<1>11. Chained(st.source, log, out)
  <2>1. ASSUME NEW i \in 1 .. count PROVE out[i].source = st.source /\ LineOf(log, out[i])
    <3>1. lines[i].source = st.source /\ LineOf(log, lines[i])
      BY <1>4, <1>6 DEF Chained
    <3> QED
      BY <1>9, <3>1 DEF LineOf
  <2>2. ASSUME NEW i \in 1 .. count - 1 PROVE Follows(log, out[i].to, out[i + 1].from)
    <3>1. Follows(log, lines[i].to, lines[i + 1].from)
      BY <1>4, <1>6 DEF Chained
    <3>2. i \in 1 .. count /\ i + 1 \in 1 .. count
      OBVIOUS
    <3> QED
      BY <1>9, <3>1, <3>2
  <2> QED
    BY <1>10, <2>1, <2>2 DEF Chained
<1>12. 1 \in 1 .. count /\ count \in 1 .. count
  BY <1>6
<1>13. ASSUME NEW i \in 1 .. count
       PROVE  /\ out[i].ends \in Nat /\ st.chunk.from < out[i].ends /\ out[i].ends <= st.chunk.to
              /\ out[i].timed => st.given + out[i].ends - st.chunk.from > st.there
              /\ ~out[i].timed => st.given + out[i].ends - st.chunk.from <= st.there
  <2>1. lines[i].ends \in Nat /\ st.chunk.from < lines[i].ends /\ lines[i].ends <= st.chunk.to
    BY <1>4, <1>6
  <2>2. CASE i \in old
    <3>1. i \in 1 .. i
      OBVIOUS
    <3>2. st.given + lines[i].ends - st.chunk.from <= st.there
      BY <2>2, <3>1
    <3> QED
      BY <1>9, <2>1, <2>2, <3>2
  <2>3. CASE i \notin old
    <3>1. PICK j \in 1 .. i : ~(st.given + lines[j].ends - st.chunk.from <= st.there)
      BY <1>6, <2>3
    <3>2. j \in 1 .. count /\ j <= i
      OBVIOUS
    <3>3. lines[j].ends <= lines[i].ends /\ lines[j].ends \in Nat
      BY <1>4, <1>6, <3>2
    <3>4. st.given + lines[i].ends - st.chunk.from > st.there
      <4>1. \A g, a, b, f, t \in Nat : ~(g + a - f <= t) /\ a <= b => g + b - f > t
        OBVIOUS
      <4> QED
        BY ONLY <1>2, <2>1, <3>1, <3>3, <4>1
    <3> QED
      BY <1>9, <2>1, <2>3, <3>4
  <2> QED
    BY <2>2, <2>3
<1>14. out # <<>> /\ out[1].from = st.chunk.from
  BY <1>4, <1>6, <1>9, <1>10, <1>12
<1>15. out[Len(out)].to = IF BreakAt(log, st.chunk.to - 1) THEN st.chunk.to - 1 ELSE st.chunk.to
  BY <1>4, <1>6, <1>9, <1>10, <1>12
<1> QED
  BY <1>10, <1>11, <1>13, <1>14, <1>15

(* The counts of a stream that waits with a chunk: where its lines end, and *)
(* what was there when the log was opened.                                  *)
LEMMA ChunkCounts ==
  ASSUME NEW st, NEW log, Len(log) \in Nat, Len(log) < EveryByte, TailOK(log, st), Size(st.chunk) > 0,
         NEW ends \in Nat, st.chunk.from < ends, ends <= st.chunk.to
  PROVE  /\ st.given + ends - st.chunk.from > st.there => ends > st.ended
         /\ st.given + ends - st.chunk.from <= st.there =>
              ends <= st.opened /\ (st.finished \/ st.ended > 0)
<1>1. st \in TailShape /\ Held(log, st) /\ Begun(log, st) /\ EndKnown(log, st) /\ Counted(st)
  BY DEF TailOK
<1>2. st.start # NoMark /\ Ahead(st) = st.chunk.from /\ st.chunk.to <= Len(log)
  <2>1. st.chunk.to <= st.at /\ st.at <= Len(log) /\ st.at \in Nat /\ st.chunk.to \in Nat
    BY <1>1, ShapeIs DEF Held
  <2> QED
    BY <1>1, <2>1 DEF Begun, Ahead
<1>3. PICK from \in Nat, first \in Nat, to \in Nat, given \in Nat, there \in Nat, ended \in Nat, opened \in Nat,
           size \in Nat, every \in Nat :
        /\ from = PlaceOf(st.start) /\ first = st.chunk.from /\ to = st.chunk.to /\ given = st.given
        /\ there = st.there /\ ended = st.ended /\ opened = st.opened /\ size = Len(log) /\ every = EveryByte
  BY <1>1, <1>2, ShapeIs, MarkNat, EveryByteIs
<1>4. /\ from <= first /\ first < ends /\ ends <= to /\ to <= size /\ size < every
      /\ given <= there /\ given <= first - from /\ ended <= opened /\ opened <= size
      /\ st.finished => there = every /\ opened = size
      /\ ~st.finished => /\ there = IF ended > from THEN ended - from ELSE 0
                         /\ given \in {first - from, there}
  <2>1. from <= first
    BY <1>1, <1>2, <1>3 DEF Begun
  <2>2. /\ given <= there /\ given <= first - from
        /\ st.finished => there = every
        /\ ~st.finished => /\ there = IF ended > from THEN ended - from ELSE 0
                           /\ given \in {first - from, there}
    BY <1>1, <1>2, <1>3 DEF Counted
  <2>3. ended <= opened /\ opened <= size /\ (st.finished => opened = size)
    BY <1>1, <1>3 DEF EndKnown
  <2> QED
    BY <1>2, <1>3, <2>1, <2>2, <2>3
<1>5. /\ given + ends - first > there => ends > ended
      /\ given + ends - first <= there => ends <= opened /\ (st.finished \/ ended > 0)
  <2>1. CASE st.finished
    BY ONLY <1>4, <2>1, from \in Nat, first \in Nat, to \in Nat, given \in Nat, there \in Nat, ended \in Nat,
            opened \in Nat, size \in Nat, every \in Nat, ends \in Nat
  <2>2. CASE ~st.finished /\ given = there
    BY ONLY <1>4, <2>2, from \in Nat, first \in Nat, to \in Nat, given \in Nat, there \in Nat, ended \in Nat,
            opened \in Nat, size \in Nat, every \in Nat, ends \in Nat
  <2>3. CASE ~st.finished /\ given = first - from
    BY ONLY <1>4, <2>3, from \in Nat, first \in Nat, to \in Nat, given \in Nat, there \in Nat, ended \in Nat,
            opened \in Nat, size \in Nat, every \in Nat, ends \in Nat
  <2> QED
    BY <1>4, <2>1, <2>2, <2>3
<1> QED
  BY <1>3, <1>5

LEMMA ChunkKeeps ==
  ASSUME NEW st, NEW log, log = logs[st.source], log \in Seq(BOOLEAN), TailOK(log, st), Size(st.chunk) > 0,
         NEW new, NEW out, ChunkLines(st, new, out)
  PROVE  /\ TailOK(log, new) /\ new.source = st.source /\ new.finished = st.finished
         /\ new.opened = st.opened /\ new.ended = st.ended /\ new.start = st.start
         /\ Joins(log, new, out[Len(out)].to)
         /\ Untold(st) => out[1].from = PlaceOf(st.start)
         /\ \A to : Joins(log, st, to) => Follows(log, to, out[1].from)
<1>1. st \in TailShape /\ Held(log, st) /\ Begun(log, st) /\ EndKnown(log, st) /\ Counted(st)
  BY DEF TailOK
<1>2. st.start # NoMark /\ Ahead(st) = st.chunk.from
  BY <1>1 DEF Begun, Ahead
<1>3. /\ st.chunk.from \in Nat /\ st.chunk.to \in Nat /\ st.held.from \in Nat /\ st.held.to \in Nat
      /\ st.at \in Nat /\ st.given \in Nat /\ st.there \in Nat /\ st.ended \in Nat /\ st.opened \in Nat
      /\ Size(st.chunk) = st.chunk.to - st.chunk.from /\ Size(st.held) = st.held.to - st.held.from
      /\ Size(st.held) >= 0 /\ Size(st.chunk) \in Int /\ Size(st.held) \in Int
      /\ st.unended \in BOOLEAN /\ st.shut \in BOOLEAN
  BY <1>1, ShapeIs DEF Held, Size
<1>4. PICK from \in Nat, first \in Nat, to \in Nat, given \in Nat, there \in Nat, size \in Nat :
        /\ from = PlaceOf(st.start) /\ first = st.chunk.from /\ to = st.chunk.to /\ given = st.given
        /\ there = st.there /\ size = Size(st.chunk) /\ size = to - first /\ size > 0
  <2>1. PlaceOf(st.start) \in Nat
    BY <1>1, <1>2, ShapeIs, MarkNat
  <2>2. Size(st.chunk) \in Nat
    BY <1>3
  <2> QED
    BY <1>3, <2>1, <2>2
<1>5. PICK next \in Nat : next = Min({given + size, there}) /\ next = IF given + size <= there THEN given + size ELSE there
  <2>1. PICK sum \in Nat : sum = given + size
    BY <1>4
  <2>2. PICK a \in Int, b \in Int : a = sum /\ b = there
    OBVIOUS
  <2>3. Min({a, b}) = IF a <= b THEN a ELSE b
    BY TwoOf
  <2> QED
    BY <2>1, <2>2, <2>3
<1>6. new = [st EXCEPT !.chunk = NoSpan, !.given = next]
  <2>1. new = [st EXCEPT !.chunk = NoSpan, !.given = Min({st.given + Size(st.chunk), st.there})]
    BY DEF ChunkLines
  <2> QED
    BY <1>4, <1>5, <2>1
<1>7. NoSpan \in LogSpan /\ Size(NoSpan) = 0 /\ NoSpan.to = 0
  BY DEF NoSpan, LogSpan, Size
<1>8. /\ new \in TailShape /\ new.source = st.source /\ new.finished = st.finished
      /\ new.chunk = NoSpan /\ new.shut = st.shut /\ new.end = st.end
      /\ new.given = next /\ new.ended = st.ended /\ new.opened = st.opened
      /\ new.fresh = st.fresh /\ new.cut = st.cut /\ new.next = st.next /\ new.at = st.at
      /\ new.start = st.start /\ new.there = st.there /\ new.unended = st.unended /\ new.held = st.held
  BY ONLY <1>1, <1>6, <1>7, next \in Nat DEF TailShape
<1>9. Size(new.chunk) = 0 /\ Size(new.held) = Size(st.held)
  BY <1>7, <1>8
<1>10. Held(log, new)
  BY <1>1, <1>3, <1>7, <1>8, <1>9 DEF Held
<1>11. Ahead(new) = to /\ first < to /\ first - from >= 0
  <2>1. Ahead(new) = IF Size(st.held) > 0 THEN st.held.from ELSE st.at
    BY <1>8, <1>9 DEF Ahead
  <2>2. Ahead(new) = to
    BY <1>1, <1>3, <1>4, <2>1 DEF Held
  <2>3. from <= first
    BY <1>1, <1>2, <1>4 DEF Begun
  <2> QED
    BY <1>4, <2>2, <2>3
<1>12. Begun(log, new)
  <2>1. st.start \in LogMark /\ st.start.source = st.source /\ ~st.cut /\ Edge(log, PlaceOf(st.start))
    BY <1>1, <1>2 DEF Begun
  <2>2. PlaceOf(new.start) <= Ahead(new)
    BY <1>4, <1>8, <1>11
  <2> QED
    BY <1>1, <1>2, <1>8, <2>1, <2>2 DEF Begun
<1>13. EndKnown(log, new)
  BY <1>1, <1>8 DEF EndKnown
<1>14. Counted(new)
  <2>1. PICK ended \in Nat, opened \in Nat, tail \in Nat :
          ended = st.ended /\ opened = st.opened /\ tail = LogTail
    BY <1>3, SizesAre
  <2>2. /\ opened - tail <= from /\ given <= there /\ given <= first - from /\ ended <= opened
        /\ st.finished => there = EveryByte
        /\ ~st.finished => /\ there = IF ended > from THEN ended - from ELSE 0
                           /\ given \in {first - from, there}
                           /\ st.unended => size > tail
    BY <1>1, <1>2, <1>4, <2>1 DEF Counted, EndKnown
  <2>a. next = (IF given + size <= there THEN given + size ELSE there) /\ size = to - first
    BY <1>4, <1>5
  <2>b. given <= there /\ given <= first - from /\ from <= first
    BY <1>11, <2>2
  <2>3. next <= there /\ next <= to - from
    BY ONLY <2>a, <2>b, from \in Nat, first \in Nat, to \in Nat,
            given \in Nat, there \in Nat, size \in Nat, next \in Nat
  <2>c. opened - tail <= from /\ ended <= opened
    BY <2>2
  <2>4. ~st.finished => next \in {to - from, there}
    <3> SUFFICES ASSUME ~st.finished PROVE next = to - from \/ next = there
      OBVIOUS
    <3>1. given = first - from \/ given = there
      BY <2>2
    <3> QED
      BY ONLY <2>a, <3>1, <1>11, from \in Nat, first \in Nat, to \in Nat,
              given \in Nat, there \in Nat, size \in Nat, next \in Nat
  <2>5. ~st.finished /\ st.unended => next = there
    <3> SUFFICES ASSUME ~st.finished, st.unended PROVE next = there
      OBVIOUS
    <3>1. there = (IF ended > from THEN ended - from ELSE 0) /\ given \in {first - from, there} /\ size > tail
      BY <2>2
    <3>2. CASE given = there
      BY ONLY <2>a, <3>2, from \in Nat, first \in Nat, to \in Nat,
            given \in Nat, there \in Nat, size \in Nat, next \in Nat
    <3>3. CASE given = first - from
      BY ONLY <2>a, <2>b, <2>c, <3>1, <3>3, from \in Nat, first \in Nat, to \in Nat,
            given \in Nat, there \in Nat, size \in Nat, next \in Nat,
            ended \in Nat, opened \in Nat, tail \in Nat
    <3> QED
      BY <3>1, <3>2, <3>3
  <2>6. PlaceOf(new.start) = from /\ Ahead(new) = to
    BY <1>4, <1>8, <1>11
  <2> QED
    BY <1>4, <1>8, <1>9, <2>1, <2>2, <2>3, <2>4, <2>5, <2>6 DEF Counted
<1>15. TailOK(log, new)
  BY <1>8, <1>10, <1>12, <1>13, <1>14 DEF TailOK
<1>16. /\ out # <<>> /\ out[1].from = st.chunk.from
       /\ out[Len(out)].to = IF BreakAt(log, st.chunk.to - 1) THEN st.chunk.to - 1 ELSE st.chunk.to
  BY LinesOfChunk
<1>17. PICK last : last = out[Len(out)].to
  OBVIOUS
<1>18. Joins(log, new, last)
  <2>1. last = IF BreakAt(log, to - 1) THEN to - 1 ELSE to
    BY <1>4, <1>16, <1>17
  <2>2. new.start # NoMark
    BY <1>2, <1>8
  <2>3. Size(st.held) > 0 => Follows(log, last, Ahead(new))
    <3> SUFFICES ASSUME Size(st.held) > 0 PROVE Follows(log, last, to)
      BY <1>11
    <3>1. BreakAt(log, to - 1)
      BY <1>1, <1>4 DEF Held
    <3>2. last = to - 1 /\ to = last + 1
      BY <1>4, <2>1, <3>1
    <3> QED
      BY <3>1, <3>2 DEF Follows
  <2>4. Size(st.held) = 0 /\ ~st.shut =>
          IF st.unended THEN last = st.at ELSE last = st.at - 1 /\ BreakAt(log, last)
    <3> SUFFICES ASSUME Size(st.held) = 0, ~st.shut
                 PROVE  IF st.unended THEN last = st.at ELSE last = st.at - 1 /\ BreakAt(log, last)
      OBVIOUS
    <3>1. to = st.at /\ (st.unended <=> ~BreakAt(log, st.at - 1))
      BY <1>1, <1>4 DEF Held
    <3> QED
      BY <2>1, <3>1
  <2>5. Size(new.chunk) + Size(new.held) = Size(st.held)
    BY <1>3, <1>9
  <2> QED
    BY <1>8, <2>2, <2>3, <2>4, <2>5 DEF Joins
<1>19. Untold(st) => out[1].from = PlaceOf(st.start)
  BY <1>2, <1>16 DEF Untold
<1>20. \A p : Joins(log, st, p) => Follows(log, p, out[1].from)
  <2> SUFFICES ASSUME NEW p, Joins(log, st, p) PROVE Follows(log, p, out[1].from)
    OBVIOUS
  <2>1. Size(st.chunk) + Size(st.held) > 0
    BY <1>3
  <2> QED
    BY <1>2, <1>16, <2>1 DEF Joins
<1> QED
  BY <1>8, <1>15, <1>17, <1>18, <1>19, <1>20

(* Where a log that is kept begins.                                         *)
LEMMA OldestIs ==
  ASSUME NEW source, logs[source] \in Seq(BOOLEAN)
  PROVE  /\ Bytes(source) \in Nat /\ OldestKept(source) \in Nat
         /\ OldestKept(source) * FileSize \in Nat /\ OldestKept(source) * FileSize <= Bytes(source)
<1>1. PICK bytes \in Nat : bytes = Bytes(source)
  BY DEF Bytes
<1>2. PICK last \in Nat : last = Max({bytes - 1, 0}) /\ last <= bytes
  <2>1. PICK a \in Int : a = bytes - 1
    OBVIOUS
  <2>2. Max({a, 0}) = IF a >= 0 THEN a ELSE 0
    BY TwoOf
  <2> QED
    BY <2>1, <2>2
<1>3. PICK newest \in Nat : newest = Newest(source) /\ newest * FileSize <= last
  <2>1. last \div FileSize \in Nat /\ (last \div FileSize) * FileSize <= last
    BY FileOf
  <2> QED
    BY <1>1, <1>2, <2>1 DEF Newest
<1>4. PICK oldest \in Nat : oldest = OldestKept(source) /\ (oldest = 0 \/ oldest <= newest)
  <2>1. PICK a \in Int : a = newest - KeptFiles + 1 /\ a <= newest
    BY SizesAre
  <2>2. Max({a, 0}) = IF a >= 0 THEN a ELSE 0
    BY TwoOf
  <2> QED
    BY <1>3, <2>1, <2>2 DEF OldestKept
<1>5. oldest * FileSize \in Nat /\ newest * FileSize \in Nat /\ 0 * FileSize = 0
  BY SizesAre
<1>6. oldest <= newest => oldest * FileSize <= newest * FileSize
  BY TimesIs
<1>7. oldest * FileSize <= bytes
  BY <1>2, <1>3, <1>4, <1>5, <1>6
<1> QED
  BY <1>1, <1>4, <1>5, <1>7

(* The end of a log by its file.                                            *)
LEMMA LogEndIs ==
  ASSUME NEW source \in Sources, logs[source] \in Seq(BOOLEAN)
  PROVE  /\ LogEnd(source) \in LogMark \cup {NoMark}
         /\ ~dead => IF Bytes(source) = 0 THEN LogEnd(source) = NoMark
                     ELSE /\ LogEnd(source) \in LogMark /\ PlaceOf(LogEnd(source)) = Bytes(source)
                          /\ LogEnd(source).offset \in 1 .. FileSize
<1>1. PICK bytes \in Nat : bytes = Bytes(source)
  BY DEF Bytes
<1>2. CASE dead \/ bytes = 0
  BY <1>1, <1>2 DEF LogEnd
<1>3. CASE ~dead /\ bytes # 0
  <2>1. PICK p \in Nat : p = bytes - 1
    BY <1>3
  <2>2. PICK last : last = MarkOf(source, p)
    OBVIOUS
  <2>3. /\ last \in LogMark /\ PlaceOf(last) = p /\ last.offset \in 0 .. FileSize - 1
    BY <2>2, MarkOfIs
  <2>4. LogEnd(source) = [last EXCEPT !.offset = last.offset + 1]
    BY <1>1, <1>3, <2>1, <2>2 DEF LogEnd
  <2>5. PICK z \in Nat, o \in Nat : z = last.file * FileSize /\ o = last.offset /\ p = z + o
    BY <2>3, MarkNat DEF PlaceOf
  <2>6. PICK end : end = [last EXCEPT !.offset = o + 1]
    OBVIOUS
  <2>7. end \in LogMark /\ end.offset = o + 1 /\ end.file = last.file
    BY <2>3, <2>6 DEF LogMark
  <2>8. PlaceOf(end) = z + (o + 1)
    BY <2>5, <2>7 DEF PlaceOf
  <2>9. bytes = z + (o + 1)
    BY ONLY <2>1, <2>5, bytes \in Nat, p \in Nat, z \in Nat, o \in Nat
  <2>10. end.offset \in 1 .. FileSize
    BY <2>3, <2>5, <2>7, SizesAre
  <2> QED
    BY <1>1, <1>3, <2>4, <2>5, <2>6, <2>7, <2>8, <2>9, <2>10
<1> QED
  BY <1>2, <1>3

(* A stream as it opens.                                                    *)
LEMMA OpensOK ==
  ASSUME NEW m, m.source \in Sources, logs[m.source] \in Seq(BOOLEAN),
         m.ended \in Nat, m.ended <= Bytes(m.source), m.finished \in BOOLEAN,
         m.end \in LogMark \cup {NoMark},
         ~m.finished => IF m.ended = 0 THEN m.end = NoMark
                        ELSE /\ m.end \in LogMark /\ PlaceOf(m.end) = m.ended
                             /\ m.end.offset \in 1 .. FileSize,
         NEW st,
         st = [NoTail EXCEPT !.ctx = "live", !.source = m.source, !.finished = m.finished,
                 !.at = Max({OldestKept(m.source) * FileSize, Bytes(m.source) - LogTail}),
                 !.end = m.end, !.ended = m.ended, !.opened = Bytes(m.source)]
  PROVE  /\ TailOK(logs[m.source], st) /\ st.ctx = "live" /\ st.source = m.source /\ st.fresh
         /\ st.finished = m.finished /\ st.start = NoMark
<1>1. PICK bytes \in Nat, oldest \in Nat, tail \in Nat :
        /\ bytes = Bytes(m.source) /\ oldest = OldestKept(m.source) * FileSize /\ tail = LogTail
        /\ oldest <= bytes /\ bytes = Len(logs[m.source])
  BY OldestIs, SizesAre DEF Bytes
<1>2. PICK at \in Nat : at = Max({oldest, bytes - tail}) /\ at <= bytes /\ bytes - tail <= at
  <2>1. PICK a \in Int, b \in Int : a = oldest /\ b = bytes - tail
    OBVIOUS
  <2>2. Max({a, b}) = IF a >= b THEN a ELSE b
    BY TwoOf
  <2>3. tail > 0
    BY <1>1, SizesAre
  <2> QED
    BY <1>1, <2>1, <2>2, <2>3
<1>3. st = [NoTail EXCEPT !.ctx = "live", !.source = m.source, !.finished = m.finished,
                 !.at = at, !.end = m.end, !.ended = m.ended, !.opened = bytes]
  BY <1>1, <1>2
<1>4. st = [ctx |-> "live", source |-> m.source, finished |-> m.finished, at |-> at, fresh |-> TRUE,
            held |-> NoSpan, unended |-> FALSE, cut |-> FALSE, next |-> NoMark,
            chunk |-> NoSpan, shut |-> FALSE, err |-> FALSE,
            end |-> m.end, start |-> NoMark, there |-> 0, given |-> 0,
            ended |-> m.ended, opened |-> bytes]
  BY ONLY <1>3 DEF NoTail
<1>5. NoSpan \in LogSpan /\ Size(NoSpan) = 0 /\ NoSpan.to = 0
  BY DEF NoSpan, LogSpan, Size
<1>6. st \in TailShape
  <2>1. m.source \in Sources /\ m.finished \in BOOLEAN /\ m.end \in LogMark \cup {NoMark} /\ m.ended \in Nat
    OBVIOUS
  <2> QED
    BY ONLY <1>4, <1>5, <2>1, at \in Nat, bytes \in Nat DEF TailShape
<1>7. /\ st.ctx = "live" /\ st.source = m.source /\ st.finished = m.finished /\ st.at = at /\ st.fresh = TRUE
      /\ st.held = NoSpan /\ st.unended = FALSE /\ st.cut = FALSE /\ st.next = NoMark
      /\ st.chunk = NoSpan /\ st.shut = FALSE /\ st.end = m.end /\ st.start = NoMark
      /\ st.given = 0 /\ st.ended = m.ended /\ st.opened = bytes
  BY ONLY <1>4
<1>8. Held(logs[m.source], st)
  BY <1>1, <1>2, <1>5, <1>7 DEF Held
<1>9. Begun(logs[m.source], st)
  BY <1>5, <1>7 DEF Begun
<1>10. EndKnown(logs[m.source], st)
  BY <1>1, <1>2, <1>7 DEF EndKnown
<1>11. Counted(st)
  BY <1>7 DEF Counted
<1> QED
  BY <1>6, <1>7, <1>8, <1>9, <1>10, <1>11 DEF TailOK

(* The rest of the lines that follow one another, and two such in a row.    *)
From(lines, k, rest) ==
  /\ rest \in Seq(LogLine) /\ Len(rest) = Len(lines) - k + 1 /\ rest # <<>>
  /\ \A i \in 1 .. Len(rest) : rest[i] = lines[k + i - 1]
  /\ rest[1] = lines[k] /\ rest[Len(rest)] = lines[Len(lines)]

LEMMA RestOf ==
  ASSUME NEW lines \in Seq(LogLine), NEW k \in 1 .. Len(lines), NEW rest, rest = SubSeq(lines, k, Len(lines))
  PROVE  From(lines, k, rest)
<1>1. PICK count \in Nat : count = Len(lines)
  OBVIOUS
<1>2. rest \in Seq(LogLine) /\ Len(rest) = count - k + 1 /\ \A i \in 1 .. count - k + 1 : rest[i] = lines[k + i - 1]
  BY <1>1
<1>3. k \in Nat /\ 1 <= k /\ k <= count
  BY <1>1
<1>4. 1 \in 1 .. count - k + 1 /\ count - k + 1 \in 1 .. count - k + 1 /\ count - k + 1 > 0
  BY <1>3
<1>5. rest[1] = lines[k + 1 - 1] /\ rest[count - k + 1] = lines[k + (count - k + 1) - 1]
  BY <1>2, <1>4
<1>6. k + 1 - 1 = k /\ k + (count - k + 1) - 1 = count
  BY <1>3
<1>7. rest # <<>>
  <2>1. PICK c \in Nat : c = count - k + 1 /\ c > 0
    BY <1>4
  <2>2. Len(rest) = c
    BY <1>2, <2>1
  <2> QED
    BY ONLY <2>1, <2>2
<1> QED
  BY <1>1, <1>2, <1>5, <1>6, <1>7 DEF From

LEMMA ChainRest ==
  ASSUME NEW source, NEW log, NEW lines, Chained(source, log, lines), NEW k \in 1 .. Len(lines),
         NEW rest, rest = SubSeq(lines, k, Len(lines))
  PROVE  Chained(source, log, rest)
<1>1. lines \in Seq(LogLine)
  BY DEF Chained
<1>2. PICK count \in Nat : count = Len(lines)
  BY <1>1
<1>3. /\ rest \in Seq(LogLine) /\ Len(rest) = count - k + 1
      /\ \A i \in 1 .. Len(rest) : rest[i] = lines[k + i - 1]
  <2>1. From(lines, k, rest)
    BY <1>1, RestOf
  <2> QED
    BY <1>2, <2>1 DEF From
<1>4. k \in Nat /\ 1 <= k /\ k <= count
  BY <1>2
<1>5. ASSUME NEW i \in 1 .. Len(rest) PROVE rest[i].source = source /\ LineOf(log, rest[i])
  <2>1. k + i - 1 \in 1 .. count
    BY <1>3, <1>4
  <2> QED
    BY <1>2, <1>3, <2>1 DEF Chained
<1>6. ASSUME NEW i \in 1 .. Len(rest) - 1 PROVE Follows(log, rest[i].to, rest[i + 1].from)
  <2>1. PICK j \in 1 .. count - 1 : j = k + i - 1
    BY <1>3, <1>4
  <2>2. i \in 1 .. Len(rest) /\ i + 1 \in 1 .. Len(rest) /\ k + (i + 1) - 1 = j + 1
    BY <1>3, <1>4, <2>1
  <2>3. rest[i] = lines[j] /\ rest[i + 1] = lines[j + 1]
    BY <1>3, <2>1, <2>2
  <2> QED
    BY <1>2, <2>3 DEF Chained
<1> QED
  BY <1>3, <1>5, <1>6 DEF Chained

LEMMA BothOf ==
  ASSUME NEW a \in Seq(LogLine), NEW b \in Seq(LogLine), NEW both, both = a \o b
  PROVE  /\ both \in Seq(LogLine) /\ Len(both) = Len(a) + Len(b)
         /\ \A i \in 1 .. Len(a) : both[i] = a[i]
         /\ \A i \in 1 .. Len(b) : both[Len(a) + i] = b[i]
         /\ a = <<>> => both = b
         /\ b = <<>> => both = a
OBVIOUS

LEMMA ChainBoth ==
  ASSUME NEW source, NEW log, NEW a, NEW b, Chained(source, log, a), Chained(source, log, b),
         a # <<>> /\ b # <<>> => Follows(log, a[Len(a)].to, b[1].from), NEW both, both = a \o b
  PROVE  Chained(source, log, both)
<1>1. a \in Seq(LogLine) /\ b \in Seq(LogLine)
  BY DEF Chained
<1>2. PICK m \in Nat, n \in Nat : m = Len(a) /\ n = Len(b)
  BY <1>1
<1>3. /\ both \in Seq(LogLine) /\ Len(both) = m + n
      /\ \A i \in 1 .. m : both[i] = a[i]
      /\ \A i \in 1 .. n : both[m + i] = b[i]
  BY <1>1, <1>2, BothOf
<1>4. ASSUME NEW i \in 1 .. m + n PROVE both[i].source = source /\ LineOf(log, both[i])
  <2>1. CASE i <= m
    <3>1. i \in 1 .. m
      BY <2>1
    <3> QED
      BY <1>2, <1>3, <3>1 DEF Chained
  <2>2. CASE i > m
    <3>1. PICK j \in 1 .. n : i = m + j
      <4>1. i - m \in 1 .. n /\ i = m + (i - m)
        BY <2>2
      <4> QED
        BY <4>1
    <3> QED
      BY <1>2, <1>3, <3>1 DEF Chained
  <2>3. i <= m \/ i > m
    BY ONLY m \in Nat, n \in Nat, i \in 1 .. m + n
  <2> QED
    BY ONLY <2>1, <2>2, <2>3
<1>5. ASSUME NEW i \in 1 .. (m + n) - 1 PROVE Follows(log, both[i].to, both[i + 1].from)
  <2>1. CASE i < m
    <3>1. i \in 1 .. m - 1 /\ i \in 1 .. m /\ i + 1 \in 1 .. m
      BY <2>1
    <3> QED
      BY <1>2, <1>3, <3>1 DEF Chained
  <2>2. CASE i = m
    <3>1. m \in 1 .. m /\ 1 \in 1 .. n
      BY <2>2
    <3>2. both[i] = a[m] /\ both[i + 1] = b[1]
      BY <1>3, <2>2, <3>1
    <3>3. a # <<>> /\ b # <<>>
      BY <1>2, <3>1
    <3> QED
      BY <1>2, <3>2, <3>3
  <2>3. CASE i > m
    <3>1. PICK j \in 1 .. n - 1 : i = m + j
      <4>1. i - m \in 1 .. n - 1 /\ i = m + (i - m)
        BY <2>3
      <4> QED
        BY <4>1
    <3>2. j \in 1 .. n /\ j + 1 \in 1 .. n /\ i + 1 = m + (j + 1)
      BY <3>1
    <3>3. both[i] = b[j] /\ both[i + 1] = b[j + 1]
      BY <1>3, <3>1, <3>2
    <3> QED
      BY <1>2, <3>3 DEF Chained
  <2>4. i < m \/ i = m \/ i > m
    BY ONLY m \in Nat, n \in Nat, i \in 1 .. (m + n) - 1
  <2> QED
    BY ONLY <2>1, <2>2, <2>3, <2>4
<1> QED
  BY <1>3, <1>4, <1>5 DEF Chained

(* How much of what is read back belongs to a line whose start was not.     *)
LEMMA CutIs ==
  ASSUME NEW source, NEW span \in LogSpan, logs[source] \in Seq(BOOLEAN), span.from < span.to,
         span.to <= Bytes(source), NEW reached \in BOOLEAN, ~reached => span.from + 1 < span.to
  PROVE  LET cut == CutLength(source, span, reached)
         IN  /\ cut \in Nat /\ span.from + cut <= span.to
             /\ Fair(logs[source], span.from + cut)
<1> DEFINE log == logs[source]
           searched == IF reached THEN span ELSE [span EXCEPT !.to = span.to - 1]
           breaks == Breaks(source, searched)
<1>0. PICK from \in Nat, to \in Nat : from = span.from /\ to = span.to /\ from < to
  BY DEF LogSpan
<1>1. PICK last \in Nat : /\ searched \in LogSpan /\ searched.from = from /\ searched.to = last
                          /\ last <= to /\ from < last
  <2>1. CASE reached
    BY <1>0, <2>1
  <2>2. CASE ~reached
    <3>1. PICK less \in Nat : less = to - 1 /\ from < less /\ less <= to
      BY <1>0, <2>2
    <3>2. searched = [span EXCEPT !.to = less]
      BY <1>0, <2>2, <3>1
    <3>3. [span EXCEPT !.to = less] \in LogSpan /\ [span EXCEPT !.to = less].from = span.from
          /\ [span EXCEPT !.to = less].to = less
      BY DEF LogSpan
    <3> QED
      BY <1>0, <3>1, <3>2, <3>3
  <2> QED
    BY <2>1, <2>2
<1> HIDE DEF searched
<1>2. PICK read \in LogSpan : read = searched /\ read.from = from /\ read.to = last
  BY <1>1
<1>3. last <= Bytes(source) /\ Len(log) = Bytes(source) /\ Len(log) \in Nat
  BY <1>0, <1>1 DEF Bytes
<1>4. /\ Breaks(source, read) \in SUBSET (from .. last - 1)
      /\ \A p \in from .. last - 1 : p \in Breaks(source, read) <=> BreakAt(log, p)
  BY <1>2, <1>3, BreaksAre
<1>5. CutLength(source, span, reached) =
        IF from = 0 \/ Size(span) = 0 \/ Breaks(source, read) = {} THEN 0 ELSE Min(Breaks(source, read)) + 1 - from
  BY <1>0, <1>2 DEF CutLength, searched
<1>6. Size(span) # 0
  BY <1>0 DEF Size
<1>7. CASE from = 0 \/ Breaks(source, read) = {}
  <2>1. CutLength(source, span, reached) = 0
    BY <1>5, <1>7
  <2>2. Fair(log, from)
    <3>1. CASE from = 0
      BY <3>1 DEF Fair, Edge
    <3>2. CASE Breaks(source, read) = {}
      <4>1. from \in from .. last - 1
        BY <1>1
      <4>2. ~BreakAt(log, from) /\ from < Len(log)
        BY <1>1, <1>3, <1>4, <3>2, <4>1
      <4> QED
        BY <4>2 DEF Fair
    <3> QED
      BY <1>7, <3>1, <3>2
  <2> QED
    BY <1>0, <2>1, <2>2
<1>8. CASE ~(from = 0 \/ Breaks(source, read) = {})
  <2>1. PICK first \in Nat : /\ first = Min(Breaks(source, read)) /\ from <= first /\ first < last
                             /\ BreakAt(log, first)
    BY <1>2, <1>3, <1>8, FirstBreak
  <2>2. CutLength(source, span, reached) = first + 1 - from
    BY <1>5, <1>6, <1>8, <2>1
  <2>3. first + 1 - from \in Nat /\ from + (first + 1 - from) = first + 1 /\ first + 1 <= to
    BY <1>1, <2>1
  <2>4. Fair(log, first + 1)
    BY <2>1 DEF Fair, Edge
  <2> QED
    BY <1>0, <2>2, <2>3, <2>4
<1> QED
  BY <1>7, <1>8

(* What is read back comes before where it was read for.                    *)
LEMMA PartIs ==
  ASSUME NEW at, at.source \in Sources, logs[at.source] \in Seq(BOOLEAN),
         MarkIn(at.source, logs[at.source], at), NEW room \in Nat \ {0}, NEW oldest \in Nat
  PROVE  PartOK(logs[at.source], at, PartBefore(at, room, oldest))
<1> DEFINE log == logs[at.source]
           end == PlaceOf(at)
           from == Max({end - LogStep, oldest * FileSize})
           span == [from |-> from, to |-> end]
           reached == span.from = oldest * FileSize
           cut == CutLength(at.source, span, reached)
           rest == [span EXCEPT !.from = span.from + cut]
           all == LinesOf(at.source, rest)
           lines == SubSeq(all, Max({1, Len(all) - room + 1}), Len(all))
           first == IF lines = <<>> THEN end ELSE lines[1].from
           part == PartBefore(at, room, oldest)
<1>1. /\ at \in LogMark /\ end \in Nat /\ end <= Len(log) /\ Fair(log, end) /\ Len(log) \in Nat
      /\ Bytes(at.source) = Len(log)
  BY MarkNat DEF MarkIn, Bytes
<1>2. part = IF at.file < oldest \/ Size(span) = 0
             THEN [lines |-> <<>>, from |-> at, before |-> 0]
             ELSE [lines |-> lines,
                   from |-> IF first = end THEN at ELSE MarkOf(at.source, first),
                   before |-> first - oldest * FileSize - (IF reached THEN cut ELSE 0)]
  BY DEF PartBefore
<1>3. Chained(at.source, log, <<>>)
  BY DEF Chained
<1> HIDE DEF part
<1>4. CASE at.file < oldest \/ Size(span) = 0
  <2>1. part.lines = <<>> /\ part.from = at
    BY <1>2, <1>4
  <2> QED
    BY <1>3, <2>1 DEF PartOK, part
<1>5. CASE ~(at.file < oldest \/ Size(span) = 0)
  <2>1. PICK lo \in Nat, step \in Nat : lo = oldest * FileSize /\ step = LogStep /\ step > 1 /\ lo <= end
    <3>1. at.file \in Nat /\ at.offset \in Nat /\ end = (at.file * FileSize) + at.offset /\ at.file * FileSize \in Nat
      BY <1>1, MarkNat DEF PlaceOf
    <3>2. oldest <= at.file
      BY <1>5, <3>1
    <3>3. oldest * FileSize \in Nat /\ oldest * FileSize <= at.file * FileSize
      <4>1. PICK j \in Nat : j = at.file
        BY <3>1
      <4>2. oldest <= j => oldest * FileSize <= j * FileSize
        BY TimesIs
      <4>3. oldest * FileSize \in Nat
        BY SizesAre
      <4> QED
        BY <3>2, <4>1, <4>2, <4>3
    <3> HIDE DEF end
    <3> QED
      BY <3>1, <3>3, SizesAre
  <2>2. PICK x \in Nat : /\ x = from /\ x <= end
                         /\ x = lo \/ x + step = end
    <3>1. PICK a \in Int, b \in Int : a = end - step /\ b = lo
      BY <1>1
    <3>2. Max({a, b}) = IF a >= b THEN a ELSE b
      BY TwoOf
    <3> HIDE DEF end
    <3> QED
      BY <1>1, <2>1, <3>1, <3>2
  <2>3. /\ span \in LogSpan /\ span.from = x /\ span.to = end /\ Size(span) = end - x /\ x < end
        /\ reached \in BOOLEAN
    <3>1. span = [from |-> x, to |-> end]
      BY <2>2
    <3> HIDE DEF from, end
    <3>2. x # end
      BY <1>1, <1>5, <3>1 DEF Size
    <3> QED
      BY <1>1, <2>2, <3>1, <3>2 DEF Size, LogSpan
  <2>4. ~reached => x + 1 < end
    BY <1>1, <2>1, <2>2, <2>3
  <2> HIDE DEF span, reached
  <2>5. PICK c \in Nat : c = cut /\ x + c <= end /\ Fair(log, x + c)
    <3> HIDE DEF end
    <3> QED
      BY <1>1, <2>3, <2>4, CutIs
  <2>6. rest \in LogSpan /\ rest.from = x + c /\ rest.to = end
    <3>1. rest = [span EXCEPT !.from = x + c]
      BY <2>3, <2>5
    <3>2. x + c \in Nat
      OBVIOUS
    <3> HIDE DEF rest, end
    <3> QED
      BY <2>3, <3>1, <3>2 DEF LogSpan
  <2>7. part.lines = lines /\ part.from = IF first = end THEN at ELSE MarkOf(at.source, first)
    BY <1>2, <1>5 DEF span, reached
  <2> HIDE DEF cut, rest
  <2>8. CASE x + c = end
    <3>1. Size(rest) = 0
      BY <1>1, <2>6, <2>8 DEF Size
    <3>2. all = <<>>
      BY <3>1 DEF LinesOf
    <3>3. lines = <<>>
      <4>1. Len(all) = 0
        BY <3>2
      <4>2. PICK k \in Int : k = Max({1, Len(all) - room + 1}) /\ k >= 1
        <5>1. PICK a \in Int, b \in Int : a = 1 /\ b = 0 - room + 1
          OBVIOUS
        <5>2. Max({a, b}) = IF a >= b THEN a ELSE b
          BY TwoOf
        <5> QED
          BY <4>1, <5>1, <5>2
      <4>3. SubSeq(<<>>, k, 0) = <<>>
        BY <4>2
      <4> QED
        BY <3>2, <4>1, <4>2, <4>3
    <3>4. part.lines = <<>> /\ part.from = at
      BY <2>7, <3>3
    <3> QED
      BY <1>3, <3>4 DEF PartOK, part
  <2>9. CASE x + c < end
    <3>1. /\ Chained(at.source, log, all) /\ all # <<>> /\ all[1].from = x + c
          /\ \A i \in 1 .. Len(all) : i > 1 => Edge(log, all[i].from)
          /\ all[Len(all)].to = IF BreakAt(log, end - 1) THEN end - 1 ELSE end
      <4> HIDE DEF end
      <4> QED
        BY <1>1, <2>6, <2>9, LinesAre
    <3> HIDE DEF all
    <3>2. PICK n \in Nat : n = Len(all) /\ n > 0 /\ all \in Seq(LogLine)
      BY <3>1 DEF Chained
    <3>3. PICK k \in 1 .. n : k = Max({1, Len(all) - room + 1})
      <4>1. PICK a \in Int, b \in Int : a = 1 /\ b = n - room + 1 /\ b <= n
        OBVIOUS
      <4>2. Max({a, b}) = IF a >= b THEN a ELSE b
        BY TwoOf
      <4> QED
        BY <3>2, <4>1, <4>2
    <3>4. lines = SubSeq(all, k, Len(all))
      BY <3>3
    <3> HIDE DEF lines
    <3>5. /\ lines # <<>> /\ lines[1] = all[k] /\ lines[Len(lines)] = all[n] /\ Chained(at.source, log, lines)
      <4>1. lines # <<>> /\ lines[1] = all[k] /\ lines[Len(lines)] = all[n]
        <5>1. From(all, k, lines)
          BY <3>2, <3>4, RestOf
        <5> QED
          BY <3>2, <5>1 DEF From
      <4>2. Chained(at.source, log, lines)
        BY <3>1, <3>2, <3>4, ChainRest
      <4> QED
        BY <4>1, <4>2
    <3>6. PICK start \in Nat : start = lines[1].from /\ first = start /\ start <= Len(log) /\ Fair(log, start)
      <4>1. all[k] \in LogLine /\ LineOf(log, all[k])
        BY <3>1, <3>2 DEF Chained
      <4>2. PICK p \in Nat, q \in Nat : p = all[k].from /\ q = all[k].to /\ p <= q /\ q <= Len(log)
        BY <4>1 DEF LogLine, LineOf
      <4>3. p <= Len(log)
        BY <1>1, <4>2
      <4>4. Fair(log, p)
        <5>1. CASE k = 1
          BY <2>5, <3>1, <4>2, <5>1
        <5>2. CASE k # 1
          BY <3>1, <3>2, <4>2, <5>2 DEF Fair
        <5> QED
          BY <5>1, <5>2
      <4>5. p = lines[1].from
        BY <3>5, <4>2
      <4> QED
        BY <3>5, <4>3, <4>4, <4>5
    <3>7. MarkIn(at.source, log, part.from) /\ lines[1].from = PlaceOf(part.from)
      <4>1. CASE first = end
        BY <2>7, <3>6, <4>1
      <4>2. CASE first # end
        <5>1. part.from = MarkOf(at.source, start)
          BY <2>7, <3>6, <4>2
        <5>2. /\ MarkOf(at.source, start) \in LogMark /\ MarkOf(at.source, start).source = at.source
              /\ PlaceOf(MarkOf(at.source, start)) = start
          BY MarkOfIs
        <5> QED
          BY <3>6, <5>1, <5>2 DEF MarkIn
      <4> QED
        BY <4>1, <4>2
    <3>8. Follows(log, lines[Len(lines)].to, end)
      <4>1. lines[Len(lines)].to = IF BreakAt(log, end - 1) THEN end - 1 ELSE end
        BY <3>1, <3>2, <3>5
      <4>2. end # 0 /\ end = (end - 1) + 1
        <5> HIDE DEF end
        <5> QED
          BY <1>1, <2>9
      <4> HIDE DEF end
      <4>3. CASE BreakAt(log, end - 1)
        BY <4>1, <4>2, <4>3 DEF Follows
      <4>4. CASE ~BreakAt(log, end - 1)
        BY <1>1, <4>1, <4>2, <4>4 DEF Follows, Fair, Edge
      <4> QED
        BY <4>3, <4>4
    <3> QED
      BY <2>7, <3>5, <3>7, <3>8 DEF PartOK, part
  <2> QED
    BY <1>1, <2>5, <2>8, <2>9
<1> QED
  BY <1>4, <1>5

(* The task writes and stops.                                               *)
LEMMA LogIs ==
  ASSUME LogsTyped, NEW s \in Sources
  PROVE  /\ logs[s] \in Seq(BOOLEAN) /\ Bytes(s) = Len(logs[s]) /\ Len(logs[s]) \in Nat
         /\ Len(logs[s]) < EveryByte
<1>1. logs[s] \in Seq(BOOLEAN) /\ Bytes(s) <= MaxBytes[s]
  BY DEF LogsTyped
<1>2. PICK n \in Nat, most \in Nat, every \in Nat :
        n = Len(logs[s]) /\ most = MaxBytes[s] /\ every = EveryByte /\ most < every
  BY <1>1, EveryByteIs
<1> QED
  BY <1>1, <1>2 DEF Bytes

LEMMA WriteGrows ==
  ASSUME LogsTyped, NEW source \in Sources, NEW break \in BOOLEAN, Write(source, break)
  PROVE  /\ \A s \in Sources : Grows(logs[s], logs'[s]) /\ Len(logs[s]) <= Len(logs'[s])
         /\ ~dead /\ UNCHANGED <<dead, tails, reader, onTop, ask, sent, switches, logFaults>>
         /\ LogsTyped'
<1>1. logs' = [logs EXCEPT ![source] = Append(logs[source], break)] /\ ~dead /\ Bytes(source) < MaxBytes[source]
      /\ UNCHANGED <<dead, tails, reader, onTop, ask, sent, switches, logFaults>>
  BY DEF Write
<1>2. logs \in [Sources -> Seq(BOOLEAN)]
  BY DEF LogsTyped
<1>3. PICK old \in Seq(BOOLEAN), new \in Seq(BOOLEAN) :
        old = logs[source] /\ new = Append(old, break) /\ Len(new) = Len(old) + 1
        /\ \A p \in 1 .. Len(old) : new[p] = old[p]
  <2>1. PICK old \in Seq(BOOLEAN) : old = logs[source]
    BY <1>2
  <2>2. PICK new : new = Append(old, break)
    OBVIOUS
  <2>3. new \in Seq(BOOLEAN) /\ Len(new) = Len(old) + 1 /\ \A p \in 1 .. Len(old) : new[p] = old[p]
    BY ONLY <2>2, old \in Seq(BOOLEAN), break \in BOOLEAN
  <2> QED
    BY <2>1, <2>2, <2>3
<1>4. logs' = [logs EXCEPT ![source] = new]
  BY <1>1, <1>3
<1>5. ASSUME NEW s \in Sources PROVE Grows(logs[s], logs'[s]) /\ Len(logs[s]) <= Len(logs'[s])
  <2>1. CASE s = source
    <3>1. logs[s] = old /\ logs'[s] = new
      BY <1>2, <1>3, <1>4, <2>1
    <3> QED
      BY <1>3, <3>1 DEF Grows
  <2>2. CASE s # source
    <3>1. logs'[s] = logs[s] /\ logs[s] \in Seq(BOOLEAN)
      BY <1>2, <1>4, <2>2
    <3> QED
      BY <3>1 DEF Grows
  <2> QED
    BY <2>1, <2>2
<1>6. logs' \in [Sources -> Seq(BOOLEAN)]
  BY <1>2, <1>4
<1>7. ASSUME NEW s \in Sources PROVE Bytes(s)' <= MaxBytes[s]
  <2>1. CASE s = source
    <3>1. logs'[s] = new /\ Bytes(s) = Len(old) /\ Bytes(s) < MaxBytes[s]
      BY <1>1, <1>2, <1>3, <1>4, <2>1 DEF Bytes
    <3>2. PICK n \in Nat, most \in Nat : n = Len(old) /\ most = MaxBytes[s]
      BY EveryByteIs
    <3> QED
      BY <1>3, <3>1, <3>2 DEF Bytes
  <2>2. CASE s # source
    <3>1. logs'[s] = logs[s] /\ Bytes(s) <= MaxBytes[s]
      BY <1>2, <1>4, <2>2 DEF LogsTyped
    <3> QED
      BY <3>1 DEF Bytes
  <2> QED
    BY <2>1, <2>2
<1> QED
  BY <1>1, <1>5, <1>6, <1>7 DEF LogsTyped

LEMMA PartsGrow ==
  ASSUME Parts, \A s \in Sources : Grows(logs[s], logs'[s]), UNCHANGED sent
  PROVE  Parts'
<1> SUFFICES ASSUME NEW m \in sent, Earlier(m)
             PROVE  /\ m.at.source \in Sources /\ MarkIn(m.at.source, logs'[m.at.source], m.at)
                    /\ m.kind # "part" => m.room \in Nat \ {0}
                    /\ m.kind = "listed" => m.oldest \in Nat
                    /\ m.kind = "part" => m.failed \in BOOLEAN
                    /\ m.kind = "part" /\ ~m.failed => PartOK(logs'[m.at.source], m.at, m.part)
  BY DEF Parts, EarlierOK
<1>1. /\ m.at.source \in Sources /\ MarkIn(m.at.source, logs[m.at.source], m.at)
      /\ m.kind # "part" => m.room \in Nat \ {0}
      /\ m.kind = "listed" => m.oldest \in Nat
      /\ m.kind = "part" => m.failed \in BOOLEAN
      /\ m.kind = "part" /\ ~m.failed => PartOK(logs[m.at.source], m.at, m.part)
  BY DEF Parts, EarlierOK
<1>2. Grows(logs[m.at.source], logs'[m.at.source]) /\ m.at \in LogMark
  BY <1>1 DEF MarkIn
<1>3. MarkIn(m.at.source, logs'[m.at.source], m.at)
  BY <1>1, <1>2, MarkStays
<1>4. m.kind = "part" /\ ~m.failed => PartOK(logs'[m.at.source], m.at, m.part)
  BY <1>1, <1>2, PartStays
<1> QED
  BY <1>1, <1>3, <1>4

LEMMA WriteKeeps ==
  ASSUME TextInv, NEW source \in Sources, NEW break \in BOOLEAN, Write(source, break)
  PROVE  TextInv'
<1>1. /\ LogsTyped /\ TailsOK /\ Tokens /\ Openers /\ Parts /\ Page /\ Given /\ OldHaveNoTime
  BY DEF TextInv
<1>2. /\ \A s \in Sources : Grows(logs[s], logs'[s]) /\ Len(logs[s]) <= Len(logs'[s])
      /\ ~dead /\ UNCHANGED <<dead, tails, reader, onTop, ask, sent, switches, logFaults>>
      /\ LogsTyped'
  BY <1>1, WriteGrows
<1> DEFINE log == logs[reader.source]
           new == logs'[reader.source]
           st == tails[reader.stream]
<1>3. TailsOK'
  <2> SUFFICES ASSUME NEW i \in 1 .. MaxStreams, tails[i].ctx = "live"
               PROVE  TailOK(logs'[tails[i].source], tails[i]) /\ (tails[i].finished => dead)
    BY <1>2 DEF TailsOK
  <2>1. TailOK(logs[tails[i].source], tails[i]) /\ ~tails[i].finished
    BY <1>1, <1>2 DEF TailsOK
  <2>2. tails[i].source \in Sources
    BY <2>1, ShapeIs DEF TailOK
  <2> QED
    BY <1>2, <2>1, <2>2, TailStays
<1>4. Tokens'
  BY <1>1, <1>2 DEF Tokens, Brings
<1>5. Openers'
  <2>1. \A m \in sent : m.kind = "open" => /\ m.ended <= Bytes(m.source)' /\ ~m.finished
    <3> SUFFICES ASSUME NEW m \in sent, m.kind = "open" PROVE m.ended <= Bytes(m.source)' /\ ~m.finished
      OBVIOUS
    <3>1. m.ended <= Bytes(m.source) /\ m.ended \in Nat /\ ~m.finished /\ m.source \in Sources
      BY <1>1, <1>2 DEF Openers, Opening, EndRead
    <3>2. Len(logs[m.source]) <= Len(logs'[m.source]) /\ Len(logs[m.source]) \in Nat /\ Len(logs'[m.source]) \in Nat
      BY <1>1, <1>2, <3>1, LogIs DEF Grows
    <3> QED
      BY <3>1, <3>2 DEF Bytes
  <2> QED
    BY <1>1, <1>2, <2>1 DEF Openers, Opening, EndRead
<1>6. Parts'
  BY <1>1, <1>2, PartsGrow
<1>7. reader.source \in Sources /\ Grows(log, new) /\ reader.lines \in Seq(LogLine)
  BY <1>1, <1>2 DEF Page, ReaderShape
<1>8. Page'
  <2>1. Chained(reader.source, log, reader.lines) => Chained(reader.source, new, reader.lines)
    BY <1>7, ChainStays
  <2>2. MarkIn(reader.source, log, reader.before) => MarkIn(reader.source, new, reader.before)
    BY <1>7, MarkStays
  <2> QED
    BY <1>1, <1>2, <2>1, <2>2 DEF Page
<1>9. Given'
  <2> SUFFICES ASSUME NEW m \in sent, m.kind \in {"wait", "lines"}, m.stream = reader.stream
               PROVE  /\ m.kind = "wait" =>
                           IF reader.lines = <<>> THEN Untold(st) ELSE Joins(new, st, reader.lines[Len(reader.lines)].to)
                      /\ m.kind = "lines" =>
                           /\ Chained(reader.source, new, m.lines) /\ m.lines # <<>> /\ m.start = st.start
                           /\ Joins(new, st, m.lines[Len(m.lines)].to)
                           /\ IF reader.lines = <<>> THEN m.lines[1].from = PlaceOf(st.start)
                              ELSE Follows(new, reader.lines[Len(reader.lines)].to, m.lines[1].from)
    BY <1>2 DEF Given
  <2>1. /\ m.kind = "wait" =>
             IF reader.lines = <<>> THEN Untold(st) ELSE Joins(log, st, reader.lines[Len(reader.lines)].to)
        /\ m.kind = "lines" =>
             /\ Chained(reader.source, log, m.lines) /\ m.lines # <<>> /\ m.start = st.start
             /\ Joins(log, st, m.lines[Len(m.lines)].to)
             /\ IF reader.lines = <<>> THEN m.lines[1].from = PlaceOf(st.start)
                ELSE Follows(log, reader.lines[Len(reader.lines)].to, m.lines[1].from)
    BY <1>1 DEF Given
  <2>2. st \in TailShape
    <3>1. reader.stream # 0 /\ reader.stream \in 1 .. MaxStreams /\ st.ctx = "live"
      BY <1>1 DEF Tokens, Brings
    <3> QED
      BY <1>1, <3>1 DEF TailsOK, TailOK
  <2>3. reader.lines # <<>> => reader.lines[Len(reader.lines)].to \in Nat
    <3>1. reader.lines # <<>> => reader.lines[Len(reader.lines)] \in LogLine
      BY <1>7
    <3> QED
      BY <3>1 DEF LogLine
  <2>4. Chained(reader.source, log, m.lines) /\ m.lines # <<>> =>
          m.lines[Len(m.lines)].to \in Nat /\ Chained(reader.source, new, m.lines)
    <3>1. Chained(reader.source, log, m.lines) /\ m.lines # <<>> => m.lines[Len(m.lines)] \in LogLine
      BY DEF Chained
    <3>2. Chained(reader.source, log, m.lines) => Chained(reader.source, new, m.lines)
      BY <1>7, ChainStays
    <3> QED
      BY <3>1, <3>2 DEF LogLine
  <2>5. \A to \in Nat : Joins(log, st, to) => Joins(new, st, to)
    BY <1>7, <2>2, JoinStays
  <2>6. \A to \in Nat : \A p : Follows(log, to, p) => Follows(new, to, p)
    BY <1>7, FollowsStay
  <2> HIDE DEF log, new, st
  <2> QED
    BY <2>1, <2>3, <2>4, <2>5, <2>6
<1>10. OldHaveNoTime'
  BY <1>1, <1>2 DEF OldHaveNoTime
<1> QED
  BY <1>2, <1>3, <1>4, <1>5, <1>6, <1>8, <1>9, <1>10 DEF TextInv

LEMMA DiesKeeps == ASSUME TextInv, Dies PROVE TextInv'
<1>1. /\ LogsTyped /\ TailsOK /\ Tokens /\ Openers /\ Parts /\ Page /\ Given /\ OldHaveNoTime
  BY DEF TextInv
<1>2. dead' = TRUE /\ ~dead /\ UNCHANGED <<logs, tails, reader, onTop, ask, sent, switches, logFaults>>
  BY DEF Dies
<1>3. LogsTyped'
  BY <1>1, <1>2 DEF LogsTyped, Bytes
<1>4. TailsOK' /\ Parts' /\ Page' /\ Given' /\ OldHaveNoTime'
  BY <1>1, <1>2 DEF TailsOK, Parts, EarlierOK, Page, Given, OldHaveNoTime
<1>5. Tokens'
  BY <1>1, <1>2 DEF Tokens, Brings
<1>6. Openers'
  BY <1>1, <1>2 DEF Openers, Opening, EndRead, Bytes
<1> QED
  BY <1>3, <1>4, <1>5, <1>6 DEF TextInv

(* The goroutine of the stream that is read goes on.                        *)
LEMMA ReadIsLive ==
  ASSUME TextInv, reader.stream # 0
  PROVE  LET st == tails[reader.stream]
             log == logs[reader.source]
         IN  /\ reader.stream \in 1 .. MaxStreams /\ st.ctx = "live" /\ st.source = reader.source
             /\ reader.source \in Sources /\ log \in Seq(BOOLEAN)
             /\ TailOK(log, st) /\ (st.finished => dead)
<1>1. LogsTyped /\ Tokens /\ TailsOK /\ Page
  BY DEF TextInv
<1>2. /\ reader.stream \in 1 .. MaxStreams /\ tails[reader.stream].ctx = "live"
      /\ tails[reader.stream].source = reader.source
  BY <1>1 DEF Tokens
<1>3. reader.source \in Sources
  BY <1>1 DEF Page, ReaderShape
<1> QED
  BY <1>1, <1>2, <1>3, LogIs DEF TailsOK

LEMMA TailRuns ==
  ASSUME TextInv, NEW i \in 1 .. MaxStreams, i = reader.stream, NEW new,
         Keeps(logs[tails[i].source], tails[i], new), tails' = [tails EXCEPT ![i] = new],
         UNCHANGED <<logs, dead, reader, ask, sent, switches>>
  PROVE  TextInv'
<1>1. /\ LogsTyped /\ TailsOK /\ Tokens /\ Openers /\ Parts /\ Page /\ Given /\ OldHaveNoTime
  BY DEF TextInv
<1> DEFINE st == tails[i]
           log == logs[st.source]
<1>2. /\ st.ctx = "live" /\ st.source = reader.source /\ (st.finished => dead) /\ i # 0
  BY ReadIsLive
<1>3. /\ TailOK(log, new) /\ new.source = st.source /\ new.finished = st.finished
      /\ new.opened = st.opened /\ new.ended = st.ended /\ new.ctx = "live"
      /\ st.start # NoMark => new.start = st.start
      /\ \A to \in Nat : Joins(log, st, to) => Joins(log, new, to)
      /\ Untold(st) => Untold(new)
  BY ShapeIs DEF Keeps, TailOK
<1>4. DOMAIN tails = 1 .. MaxStreams
  BY <1>1 DEF LogsTyped
<1>5. /\ DOMAIN tails' = 1 .. MaxStreams /\ tails'[i] = new
      /\ \A j \in 1 .. MaxStreams : j # i => tails'[j] = tails[j]
  BY <1>4
<1> HIDE DEF st, log
<1>6. LogsTyped'
  BY <1>1, <1>5 DEF LogsTyped, Bytes
<1>7. TailsOK'
  <2> SUFFICES ASSUME NEW j \in 1 .. MaxStreams, tails'[j].ctx = "live"
               PROVE  TailOK(logs[tails'[j].source], tails'[j]) /\ (tails'[j].finished => dead)
    BY DEF TailsOK
  <2>1. CASE j = i
    BY <1>2, <1>3, <1>5, <2>1 DEF log
  <2>2. CASE j # i
    BY <1>1, <1>5, <2>2 DEF TailsOK
  <2> QED
    BY <2>1, <2>2
<1>8. \A j \in 1 .. MaxStreams : tails'[j].ctx = tails[j].ctx /\ tails'[j].source = tails[j].source
  BY <1>2, <1>3, <1>5 DEF st
<1>9. Tokens'
  <2>1. \A j \in 1 .. MaxStreams : tails'[j] = NoTail \/ tails'[j].ctx \in {"live", "cancelled"}
    BY <1>1, <1>3, <1>5 DEF Tokens
  <2>2. ASSUME NEW m \in sent, m.kind = "stream"
        PROVE  /\ tails'[m.stream].ctx = "live" /\ tails'[m.stream].source = m.source /\ tails'[m.stream].fresh
    <3>1. /\ m.stream \in 1 .. MaxStreams /\ tails[m.stream].ctx = "live" /\ tails[m.stream].source = m.source
          /\ tails[m.stream].fresh /\ m.stream # i
      BY <1>1, <1>2, <2>2 DEF Tokens, Brings
    <3> QED
      BY <1>5, <3>1
  <2>3. \A m \in sent : Brings(m) => m.stream \in 1 .. MaxStreams /\ tails'[m.stream].ctx # "none"
    BY <1>1, <1>8 DEF Tokens
  <2>4. /\ \A m, n \in sent : Brings(m) /\ Brings(n) /\ m.stream = n.stream => m = n
        /\ reader.stream \in 1 .. MaxStreams
        /\ tails'[reader.stream].ctx = "live"
        /\ tails'[reader.stream].source = reader.source
        /\ \A m \in sent : Brings(m) /\ m.stream = reader.stream => m.kind # "stream" /\ m.asked = ask
    BY <1>1, <1>2, <1>8 DEF Tokens, st
  <2> QED
    BY <2>1, <2>2, <2>3, <2>4 DEF Tokens, Brings
<1>10. Openers' /\ Parts' /\ Page'
  BY <1>1 DEF Openers, Opening, EndRead, Parts, EarlierOK, Earlier, Page, Bytes
<1>11. Given'
  <2> SUFFICES ASSUME NEW m \in sent, m.kind \in {"wait", "lines"}, m.stream = i
               PROVE  /\ m.kind = "wait" =>
                           IF reader.lines = <<>> THEN Untold(new) ELSE Joins(log, new, reader.lines[Len(reader.lines)].to)
                      /\ m.kind = "lines" =>
                           /\ Chained(reader.source, log, m.lines) /\ m.lines # <<>> /\ m.start = new.start
                           /\ Joins(log, new, m.lines[Len(m.lines)].to)
                           /\ IF reader.lines = <<>> THEN m.lines[1].from = PlaceOf(new.start)
                              ELSE Follows(log, reader.lines[Len(reader.lines)].to, m.lines[1].from)
    BY <1>2, <1>5 DEF Given, log
  <2>1. /\ m.kind = "wait" =>
             IF reader.lines = <<>> THEN Untold(st) ELSE Joins(log, st, reader.lines[Len(reader.lines)].to)
        /\ m.kind = "lines" =>
             /\ Chained(reader.source, log, m.lines) /\ m.lines # <<>> /\ m.start = st.start
             /\ Joins(log, st, m.lines[Len(m.lines)].to)
             /\ IF reader.lines = <<>> THEN m.lines[1].from = PlaceOf(st.start)
                ELSE Follows(log, reader.lines[Len(reader.lines)].to, m.lines[1].from)
    BY <1>1, <1>2 DEF Given, log, st
  <2>2. reader.lines # <<>> => reader.lines[Len(reader.lines)].to \in Nat
    <3>1. reader.lines \in Seq(LogLine)
      BY <1>1 DEF Page, ReaderShape
    <3>2. reader.lines # <<>> => reader.lines[Len(reader.lines)] \in LogLine
      BY <3>1
    <3> QED
      BY <3>2 DEF LogLine
  <2>3. Chained(reader.source, log, m.lines) /\ m.lines # <<>> => m.lines[Len(m.lines)].to \in Nat
    <3>1. Chained(reader.source, log, m.lines) /\ m.lines # <<>> => m.lines[Len(m.lines)] \in LogLine
      BY DEF Chained
    <3> QED
      BY <3>1 DEF LogLine
  <2>4. Joins(log, st, m.lines[Len(m.lines)].to) => st.start # NoMark
    BY DEF Joins
  <2> QED
    BY <1>3, <2>1, <2>2, <2>3, <2>4
<1>12. OldHaveNoTime'
  <2> SUFFICES ASSUME NEW m \in sent, m.kind = "lines", tails'[m.stream].ctx = "live", NEW n \in DOMAIN m.lines
               PROVE  IF m.lines[n].timed THEN m.lines[n].ends > tails'[m.stream].ended
                      ELSE /\ m.lines[n].ends <= tails'[m.stream].opened
                           /\ tails'[m.stream].finished \/ tails'[m.stream].ended > 0
    BY DEF OldHaveNoTime
  <2>1. m.stream \in 1 .. MaxStreams
    BY <1>1 DEF Tokens, Brings
  <2>2. tails[m.stream].ctx = "live" /\ tails'[m.stream].ended = tails[m.stream].ended
        /\ tails'[m.stream].opened = tails[m.stream].opened
        /\ tails'[m.stream].finished = tails[m.stream].finished
    BY <1>3, <1>5, <1>8, <2>1 DEF st
  <2> QED
    BY <1>1, <2>2 DEF OldHaveNoTime
<1> QED
  BY <1>6, <1>7, <1>9, <1>10, <1>11, <1>12 DEF TextInv

LEMMA FrameComesKeeps ==
  ASSUME TextInv, NEW i \in 1 .. MaxStreams, FrameComes(i)
  PROVE  TextInv'
<1>1. reader.stream = i /\ ~tails[i].shut /\ Size(tails[i].chunk) = 0 /\ i # 0
  BY DEF FrameComes, Runs
<1>2. /\ tails[i].source = reader.source /\ logs[reader.source] \in Seq(BOOLEAN)
      /\ TailOK(logs[reader.source], tails[i])
  BY <1>1, ReadIsLive
<1>3. PICK frame \in Frames(tails[i]) : tails' = [tails EXCEPT ![i] = Taken(Uncut(tails[i], frame))]
  BY DEF FrameComes
<1>4. PICK st, new : st = tails[i] /\ new = Taken(Uncut(st, frame)) /\ tails' = [tails EXCEPT ![i] = new]
  BY <1>3
<1>5. Keeps(logs[st.source], st, new)
  BY <1>1, <1>2, <1>4, FrameKeeps
<1> QED
  BY <1>1, <1>4, <1>5, TailRuns DEF FrameComes

LEMMA FramesEndKeeps ==
  ASSUME TextInv, NEW i \in 1 .. MaxStreams, FramesEnd(i)
  PROVE  TextInv'
<1>1. reader.stream = i /\ ~tails[i].shut /\ Size(tails[i].chunk) = 0 /\ i # 0
  <2>1. Runs(i)
    BY Zenon DEF FramesEnd
  <2>2. MaxStreams \in Nat
    BY TaskLogAssumption
  <2> QED
    BY ONLY <2>1, <2>2, i \in 1 .. MaxStreams DEF Runs
<1>2. tails[i].source = reader.source /\ TailOK(logs[reader.source], tails[i])
  BY <1>1, ReadIsLive
<1>3. PICK st : st = tails[i]
  OBVIOUS
<1>4. PICK over : over = [st EXCEPT !.shut = TRUE, !.chunk = st.held, !.held = NoSpan]
  OBVIOUS
<1>5. \/ tails' = [tails EXCEPT ![i] = over]
      \/ \E err \in BOOLEAN : tails' = [tails EXCEPT ![i] = [over EXCEPT !.err = err]]
  BY <1>3, <1>4 DEF FramesEnd
<1>6. PICK new : tails' = [tails EXCEPT ![i] = new] /\ Over(st, new)
  <2>1. Over(st, over) /\ \A err \in BOOLEAN : Over(st, [over EXCEPT !.err = err])
    BY <1>4 DEF Over
  <2> QED
    BY <1>5, <2>1
<1>7. Keeps(logs[st.source], st, new)
  BY <1>1, <1>2, <1>3, <1>6, EndKeeps
<1> QED
  BY <1>1, <1>3, <1>6, <1>7, TailRuns DEF FramesEnd

(* What a step keeps that leaves the streams and what they bring as they    *)
(* are, or closes streams and lets go of what they bring.                   *)
Aside(j) ==
  \/ tails'[j] = tails[j]
  \/ /\ tails'[j].ctx = "cancelled" /\ tails[j].ctx # "none"
     /\ \A m \in sent' : m.kind = "stream" => m.stream # j
ReaderAside ==
  \/ reader'.stream = 0
  \/ /\ reader'.stream = reader.stream /\ reader'.source = reader.source /\ reader'.lines = reader.lines
     /\ ask' = ask /\ tails'[reader.stream] = tails[reader.stream]

LEMMA AsideKeeps ==
  ASSUME TextInv, DOMAIN tails' = 1 .. MaxStreams, \A j \in 1 .. MaxStreams : Aside(j),
         ReaderAside, \A n \in sent' : Brings(n) => n \in sent,
         UNCHANGED <<logs, dead>>, ask' \in Nat, switches' \in Nat
  PROVE  LogsTyped' /\ TailsOK' /\ Tokens' /\ Given' /\ OldHaveNoTime'
<1>1. /\ LogsTyped /\ TailsOK /\ Tokens /\ Given /\ OldHaveNoTime
  BY DEF TextInv
<1>2. LogsTyped'
  BY <1>1 DEF LogsTyped, Bytes
<1>3. ASSUME NEW j \in 1 .. MaxStreams, tails'[j].ctx = "live" PROVE tails'[j] = tails[j]
  BY <1>3 DEF Aside
<1>4. TailsOK'
  BY <1>1, <1>3 DEF TailsOK
<1>5. Tokens'
  <2>1. \A j \in 1 .. MaxStreams : tails'[j] = NoTail \/ tails'[j].ctx \in {"live", "cancelled"}
    BY <1>1 DEF Tokens, Aside
  <2>2. \A j \in 1 .. MaxStreams : tails[j].ctx # "none" => tails'[j].ctx # "none"
    BY DEF Aside
  <2>3. \A m \in sent' : Brings(m) => m.stream \in 1 .. MaxStreams /\ tails'[m.stream].ctx # "none"
    BY <1>1, <2>2 DEF Tokens
  <2>4. \A m, n \in sent' : Brings(m) /\ Brings(n) /\ m.stream = n.stream => m = n
    BY <1>1 DEF Tokens
  <2>5. \A m \in sent' : m.kind = "stream" => /\ tails'[m.stream].ctx = "live"
                                              /\ tails'[m.stream].source = m.source
                                              /\ tails'[m.stream].fresh
    <3> SUFFICES ASSUME NEW m \in sent', m.kind = "stream"
                 PROVE  /\ tails'[m.stream].ctx = "live" /\ tails'[m.stream].source = m.source
                        /\ tails'[m.stream].fresh
      OBVIOUS
    <3>1. m \in sent /\ m.stream \in 1 .. MaxStreams
      BY <1>1 DEF Tokens, Brings
    <3>2. tails'[m.stream] = tails[m.stream]
      BY <3>1 DEF Aside
    <3> QED
      BY <1>1, <3>1, <3>2 DEF Tokens
  <2>6. CASE reader'.stream = 0
    BY <2>1, <2>3, <2>4, <2>5, <2>6 DEF Tokens, Brings
  <2>7. CASE reader'.stream # 0
    <3>1. /\ reader'.stream = reader.stream /\ reader'.source = reader.source /\ ask' = ask
          /\ tails'[reader.stream] = tails[reader.stream] /\ reader.stream # 0
      BY <2>7 DEF ReaderAside
    <3>2. /\ reader.stream \in 1 .. MaxStreams
          /\ tails'[reader.stream].ctx = "live"
          /\ tails'[reader.stream].source = reader.source
          /\ \A m \in sent' : Brings(m) /\ m.stream = reader.stream => m.kind # "stream" /\ m.asked = ask
      BY <1>1, <3>1 DEF Tokens
    <3> QED
      BY <2>1, <2>3, <2>4, <2>5, <3>1, <3>2 DEF Tokens, Brings
  <2> QED
    BY <2>6, <2>7
<1>6. \A m \in sent' : m.kind \in {"wait", "lines", "stream", "end"} => m \in sent /\ m.stream \in 1 .. MaxStreams
  BY <1>1 DEF Tokens, Brings
<1>7. Given'
  <2>1. CASE reader'.stream = 0
    BY <1>6, <2>1 DEF Given
  <2>2. CASE reader'.stream # 0
    <3>1. /\ reader'.stream = reader.stream /\ reader'.source = reader.source /\ reader'.lines = reader.lines
          /\ tails'[reader.stream] = tails[reader.stream]
      BY <2>2 DEF ReaderAside
    <3> QED
      BY <1>1, <1>6, <3>1 DEF Given
  <2> QED
    BY <2>1, <2>2
<1>8. OldHaveNoTime'
  <2> SUFFICES ASSUME NEW m \in sent', m.kind = "lines", tails'[m.stream].ctx = "live", NEW n \in DOMAIN m.lines
               PROVE  IF m.lines[n].timed THEN m.lines[n].ends > tails'[m.stream].ended
                      ELSE /\ m.lines[n].ends <= tails'[m.stream].opened
                           /\ tails'[m.stream].finished \/ tails'[m.stream].ended > 0
    BY DEF OldHaveNoTime
  <2>1. m \in sent /\ tails'[m.stream] = tails[m.stream]
    BY <1>3, <1>6
  <2> QED
    BY <1>1, <2>1 DEF OldHaveNoTime
<1> QED
  BY <1>2, <1>4, <1>5, <1>7, <1>8

LEMMA TailClosed ==
  ASSUME TextInv, NEW i \in 0 .. MaxStreams, tails' = ClosedTail(i),
         i # 0 => tails[i].ctx # "none" /\ \A m \in sent' : m.kind = "stream" => m.stream # i
  PROVE  /\ DOMAIN tails' = 1 .. MaxStreams /\ \A j \in 1 .. MaxStreams : Aside(j)
         /\ \A j \in 1 .. MaxStreams : j # i => tails'[j] = tails[j]
<1>1. DOMAIN tails = 1 .. MaxStreams
  BY DEF TextInv, LogsTyped
<1>2. CASE i = 0
  BY <1>1, <1>2 DEF ClosedTail, Aside
<1>3. CASE i # 0
  <2>1. PICK new : new.ctx = "cancelled" /\ tails' = [tails EXCEPT ![i] = new]
    <3>1. PICK st : st = tails[i]
      OBVIOUS
    <3>2. PICK new : new = [NoTail EXCEPT !.ctx = "cancelled", !.source = st.source,
                              !.chunk = st.chunk, !.shut = st.shut, !.err = st.err]
      OBVIOUS
    <3>3. new.ctx = "cancelled"
      BY <3>2 DEF NoTail
    <3>4. tails' = [tails EXCEPT ![i] = new]
      BY <1>3, <3>1, <3>2 DEF ClosedTail
    <3> QED
      BY <3>3, <3>4
  <2>2. i \in 1 .. MaxStreams
    BY <1>3, TaskLogAssumption
  <2>3. DOMAIN tails' = 1 .. MaxStreams /\ tails'[i] = new /\ \A j \in 1 .. MaxStreams : j # i => tails'[j] = tails[j]
    BY ONLY <1>1, <2>1, <2>2
  <2> QED
    BY <1>3, <2>1, <2>3 DEF Aside
<1> QED
  BY <1>2, <1>3

LEMMA OpenersStay ==
  ASSUME Openers,
         \A n \in sent' : n \in sent \/ (~Opening(n) /\ n.asked \in Nat /\ n.asked <= ask),
         UNCHANGED <<logs, dead, ask, switches>>, reader'.source = reader.source,
         \A n \in sent' : Opening(n) /\ n.asked = ask /\ n.source = reader.source => reader' = reader
  PROVE  Openers'
<1>1. \A m \in sent' : m.asked <= ask /\ m.asked \in Nat /\ (Opening(m) => m.source \in Sources)
  BY DEF Openers
<1>2. \A m, n \in sent' : Opening(m) /\ Opening(n) /\ m.asked = n.asked /\ m.source = n.source => m = n
  BY DEF Openers
<1>3. \A m \in sent' : Opening(m) /\ m.asked = ask /\ m.source = reader.source =>
       reader' = NotRead(reader.source)
  BY DEF Openers
<1>4. \A m \in sent' : EndRead(m)'
  <2> SUFFICES ASSUME NEW m \in sent' PROVE EndRead(m)'
    OBVIOUS
  <2>1. CASE m \in sent
    <3>1. EndRead(m)
      BY <2>1 DEF Openers
    <3> QED
      BY <3>1 DEF EndRead, Bytes
  <2>2. CASE ~Opening(m)
    BY <2>2 DEF EndRead, Opening
  <2> QED
    BY <2>1, <2>2
<1> QED
  BY <1>1, <1>2, <1>3, <1>4 DEF Openers, Opening

LEMMA OpenersMove ==
  ASSUME Openers, NEW m \in sent, Opening(m), NEW new, Opening(new), new.asked = m.asked,
         new.source = m.source, EndRead(new), sent' = (sent \ {m}) \cup {new},
         UNCHANGED <<logs, dead, ask, switches, reader>>
  PROVE  Openers'
<1>1. \A n \in sent' : n.asked <= ask /\ n.asked \in Nat /\ (Opening(n) => n.source \in Sources)
  BY DEF Openers
<1>2. ASSUME NEW n \in sent', NEW k \in sent', Opening(n), Opening(k), n.asked = k.asked, n.source = k.source
      PROVE  n = k
  <2>1. CASE n = new /\ k # new
    <3>1. k \in sent /\ k # m
      BY <2>1
    <3> QED
      BY <1>2, <2>1, <3>1 DEF Openers
  <2>2. CASE n # new /\ k = new
    <3>1. n \in sent /\ n # m
      BY <2>2
    <3> QED
      BY <1>2, <2>2, <3>1 DEF Openers
  <2>3. CASE n # new /\ k # new
    <3>1. n \in sent /\ k \in sent
      BY <2>3
    <3> QED
      BY <1>2, <3>1 DEF Openers
  <2> QED
    BY <2>1, <2>2, <2>3
<1>3. \A n \in sent' : Opening(n) /\ n.asked = ask /\ n.source = reader.source =>
       reader = NotRead(reader.source)
  BY DEF Openers
<1>4. \A n \in sent' : EndRead(n)'
  <2>1. \A n \in sent' : EndRead(n)
    BY DEF Openers
  <2> QED
    BY <2>1 DEF EndRead, Bytes
<1> QED
  BY <1>1, <1>2, <1>3, <1>4 DEF Openers, Opening

LEMMA PartsStay ==
  ASSUME Parts, UNCHANGED logs, \A n \in sent' : Earlier(n) => n \in sent \/ EarlierOK(n)
  PROVE  Parts'
BY DEF Parts, Earlier, EarlierOK

LEMMA QuitsKeeps ==
  ASSUME TextInv, NEW i \in 1 .. MaxStreams, Quits(i)
  PROVE  TextInv'
<1>1. /\ LogsTyped /\ Tokens /\ Openers /\ Parts /\ Page
  BY DEF TextInv
<1>2. PICK new : new.ctx = "cancelled" /\ tails' = [tails EXCEPT ![i] = new]
  <2>1. PICK new : new = [NoTail EXCEPT !.ctx = "cancelled", !.shut = TRUE]
    OBVIOUS
  <2>2. new.ctx = "cancelled"
    BY <2>1 DEF NoTail
  <2> QED
    BY <2>1, <2>2 DEF Quits
<1>3. tails[i].ctx = "cancelled" /\ UNCHANGED <<logs, dead, reader, onTop, ask, sent, switches, logFaults>>
  BY DEF Quits
<1>4. DOMAIN tails' = 1 .. MaxStreams /\ tails'[i] = new /\ \A j \in 1 .. MaxStreams : j # i => tails'[j] = tails[j]
  BY <1>1, <1>2 DEF LogsTyped
<1>5. \A j \in 1 .. MaxStreams : Aside(j)
  BY <1>1, <1>2, <1>3, <1>4 DEF Aside, Tokens
<1>6. ReaderAside
  BY <1>1, <1>3, <1>4 DEF ReaderAside, Tokens
<1>7. LogsTyped' /\ TailsOK' /\ Tokens' /\ Given' /\ OldHaveNoTime'
  <2>1. ask' \in Nat /\ switches' \in Nat
    BY <1>1, <1>3 DEF LogsTyped
  <2> QED
    BY <1>3, <1>4, <1>5, <1>6, <2>1, AsideKeeps
<1>8. Openers'
  BY <1>1, <1>3 DEF Openers, Opening, EndRead, Bytes
<1>9. Parts' /\ Page'
  BY <1>1, <1>3 DEF Parts, EarlierOK, Page
<1> QED
  BY <1>7, <1>8, <1>9 DEF TextInv

(* The streams and the reader stay, and no new message is of a stream.      *)
LEMMA SentAside ==
  ASSUME TextInv, UNCHANGED <<logs, dead, tails, ask, switches>>,
         reader'.stream = reader.stream, reader'.source = reader.source, reader'.lines = reader.lines,
         \A n \in sent' : Brings(n) => n \in sent
  PROVE  LogsTyped' /\ TailsOK' /\ Tokens' /\ Given' /\ OldHaveNoTime'
<1>1. DOMAIN tails' = 1 .. MaxStreams /\ ask' \in Nat /\ switches' \in Nat
  BY DEF TextInv, LogsTyped
<1> QED
  BY <1>1, AsideKeeps DEF Aside, ReaderAside

LEMMA ReadLogEndKeeps ==
  ASSUME TextInv, NEW m \in sent, ReadLogEnd(m)
  PROVE  TextInv'
<1>1. /\ LogsTyped /\ Openers /\ Parts /\ Page
  BY DEF TextInv
<1>2. PICK new : /\ new = [kind |-> "open", asked |-> m.asked, source |-> m.source, finished |-> dead,
                           end |-> LogEnd(m.source), ended |-> Bytes(m.source)]
                 /\ sent' = (sent \ {m}) \cup {new}
  BY DEF ReadLogEnd, Swapped
<1>3. m.kind = "info" /\ UNCHANGED <<logs, dead, tails, reader, onTop, ask, switches, logFaults>>
  BY DEF ReadLogEnd
<1>4. /\ new.kind = "open" /\ new.asked = m.asked /\ new.source = m.source /\ new.finished = dead
      /\ new.end = LogEnd(m.source) /\ new.ended = Bytes(m.source)
  BY ONLY <1>2
<1>5. m.source \in Sources
  BY <1>1, <1>3 DEF Openers, Opening
<1>6. EndRead(new)
  <2>1. logs[m.source] \in Seq(BOOLEAN) /\ dead \in BOOLEAN
    BY <1>1, <1>5 DEF LogsTyped
  <2>2. Bytes(m.source) \in Nat
    BY <2>1 DEF Bytes
  <2> QED
    BY <1>4, <1>5, <2>1, <2>2, LogEndIs DEF EndRead
<1>7. Openers'
  BY <1>1, <1>2, <1>3, <1>4, <1>6, OpenersMove DEF Opening
<1>8. Parts'
  BY <1>1, <1>2, <1>3, <1>4, PartsStay DEF Earlier
<1>9. LogsTyped' /\ TailsOK' /\ Tokens' /\ Given' /\ OldHaveNoTime'
  BY <1>2, <1>3, <1>4, SentAside DEF Brings
<1>10. Page'
  BY <1>1, <1>3 DEF Page
<1> QED
  BY <1>7, <1>8, <1>9, <1>10 DEF TextInv

(* Of an end that was not read nothing is known.                            *)
LEMMA LogEndUnreadKeeps ==
  ASSUME TextInv, NEW m \in sent, LogEndUnread(m)
  PROVE  TextInv'
<1>1. /\ LogsTyped /\ Openers /\ Parts /\ Page
  BY DEF TextInv
<1>2. PICK new : /\ new = [kind |-> "open", asked |-> m.asked, source |-> m.source, finished |-> FALSE,
                           end |-> NoMark, ended |-> 0]
                 /\ sent' = (sent \ {m}) \cup {new}
  BY DEF LogEndUnread, Swapped
<1>3. m.kind = "info" /\ UNCHANGED <<logs, dead, tails, reader, onTop, ask, switches>>
  BY DEF LogEndUnread
<1>4. /\ new.kind = "open" /\ new.asked = m.asked /\ new.source = m.source /\ new.finished = FALSE
      /\ new.end = NoMark /\ new.ended = 0
  BY ONLY <1>2
<1>5. EndRead(new)
  <2>1. m.source \in Sources
    BY <1>1, <1>3 DEF Openers, Opening
  <2>2. Bytes(new.source) \in Nat
    BY <1>1, <1>4, <2>1 DEF LogsTyped, Bytes
  <2>3. 0 <= Bytes(new.source)
    BY <2>2
  <2>4. new.finished \in BOOLEAN /\ ~new.finished
    BY <1>4, Zenon
  <2>5. /\ new.ended <= Bytes(new.source) /\ new.ended \in Nat /\ new.ended = 0
        /\ new.end = NoMark /\ new.end \in LogMark \cup {NoMark}
    BY <1>4, <2>3
  <2> QED
    BY <2>4, <2>5 DEF EndRead
<1>6. Openers'
  <2>1. Opening(m) /\ Opening(new)
    BY <1>3, <1>4 DEF Opening
  <2>2. sent' = (sent \ {m}) \cup {new} /\ new.asked = m.asked /\ new.source = m.source
    BY <1>2, <1>4
  <2> QED
    BY <1>1, <1>3, <1>5, <2>1, <2>2, OpenersMove
<1>7. Parts'
  BY <1>1, <1>2, <1>3, <1>4, PartsStay DEF Earlier
<1>8. LogsTyped' /\ TailsOK' /\ Tokens' /\ Given' /\ OldHaveNoTime'
  BY <1>2, <1>3, <1>4, SentAside DEF Brings
<1>9. Page'
  BY <1>1, <1>3 DEF Page
<1> QED
  BY <1>6, <1>7, <1>8, <1>9 DEF TextInv

(* A message of a read back comes in place of another.                      *)
LEMMA EarlierMoves ==
  ASSUME TextInv, NEW m \in sent, NEW new, Earlier(new), EarlierOK(new), new.asked = m.asked,
         sent' = (sent \ {m}) \cup {new}, UNCHANGED <<logs, dead, tails, reader, ask, switches>>
  PROVE  TextInv'
<1>1. /\ LogsTyped /\ Openers /\ Parts /\ Page
  BY DEF TextInv
<1>2. ~Opening(new) /\ ~Brings(new)
  BY DEF Earlier, Opening, Brings
<1>3. Openers'
  <2>1. new.asked \in Nat /\ new.asked <= ask
    BY <1>1 DEF Openers
  <2> QED
    BY <1>1, <1>2, <2>1, OpenersStay
<1>4. Parts'
  BY <1>1, PartsStay
<1>5. LogsTyped' /\ TailsOK' /\ Tokens' /\ Given' /\ OldHaveNoTime'
  BY <1>2, SentAside
<1>6. Page'
  BY <1>1 DEF Page
<1> QED
  BY <1>3, <1>4, <1>5, <1>6 DEF TextInv

LEMMA ListFilesKeeps ==
  ASSUME TextInv, NEW m \in sent, ListFiles(m)
  PROVE  TextInv'
<1>1. PICK new : /\ new = [kind |-> "listed", asked |-> m.asked, at |-> m.at, room |-> m.room,
                           oldest |-> OldestKept(m.at.source)]
                 /\ sent' = (sent \ {m}) \cup {new}
  BY DEF ListFiles, Swapped
<1>2. m.kind = "back" /\ UNCHANGED <<logs, dead, tails, reader, onTop, ask, switches, logFaults>>
  BY DEF ListFiles
<1>3. new.kind = "listed" /\ new.asked = m.asked /\ new.at = m.at /\ new.room = m.room
      /\ new.oldest = OldestKept(m.at.source)
  BY ONLY <1>1
<1>4. EarlierOK(m)
  BY <1>2 DEF TextInv, Parts, Earlier
<1>5. OldestKept(m.at.source) \in Nat
  BY <1>4, OldestIs DEF TextInv, LogsTyped, EarlierOK
<1>6. Earlier(new) /\ EarlierOK(new)
  BY <1>2, <1>3, <1>4, <1>5 DEF Earlier, EarlierOK
<1> QED
  BY <1>1, <1>2, <1>3, <1>6, EarlierMoves

LEMMA ReadFilesKeeps ==
  ASSUME TextInv, NEW m \in sent, ReadFiles(m)
  PROVE  TextInv'
<1>1. m.kind = "listed" /\ UNCHANGED <<logs, dead, tails, reader, onTop, ask, switches, logFaults>>
  BY DEF ReadFiles
<1>2. EarlierOK(m)
  BY <1>1 DEF TextInv, Parts, Earlier
<1>3. PICK part : part = PartBefore(m.at, m.room, m.oldest)
  OBVIOUS
<1>4. PartOK(logs[m.at.source], m.at, part)
  BY <1>1, <1>2, <1>3, PartIs DEF TextInv, LogsTyped, EarlierOK
<1>5. PICK new :
        /\ sent' = (sent \ {m}) \cup {new}
        /\ \/ new = [kind |-> "part", asked |-> m.asked, at |-> m.at, failed |-> TRUE]
           \/ new = [kind |-> "part", asked |-> m.asked, at |-> m.at, failed |-> FALSE, part |-> part]
  BY <1>3 DEF ReadFiles, Swapped
<1>6. /\ new.kind = "part" /\ new.asked = m.asked /\ new.at = m.at /\ new.failed \in BOOLEAN
      /\ ~new.failed => new.part = part
  <2>1. CASE new = [kind |-> "part", asked |-> m.asked, at |-> m.at, failed |-> TRUE]
    BY ONLY <2>1
  <2>2. CASE new = [kind |-> "part", asked |-> m.asked, at |-> m.at, failed |-> FALSE, part |-> part]
    BY ONLY <2>2
  <2> QED
    BY <1>5, <2>1, <2>2
<1>7. Earlier(new) /\ EarlierOK(new)
  BY <1>2, <1>4, <1>6 DEF Earlier, EarlierOK
<1> QED
  BY <1>1, <1>5, <1>6, <1>7, EarlierMoves

LEMMA LogFailsKeeps ==
  ASSUME TextInv, NEW m \in sent, LogFails(m)
  PROVE  TextInv'
<1>1. m.kind \in {"info", "back"} /\ UNCHANGED <<logs, dead, tails, reader, onTop, ask, switches>>
  BY DEF LogFails
<1>2. CASE m.kind = "info"
  <2>1. sent' = sent \ {m}
    BY <1>2 DEF LogFails, Dropped
  <2>2. /\ LogsTyped /\ Openers /\ Parts /\ Page
    BY DEF TextInv
  <2>3. Openers'
    BY <1>1, <2>1, <2>2, OpenersStay
  <2>4. Parts'
    BY <1>1, <2>1, <2>2, PartsStay
  <2>5. LogsTyped' /\ TailsOK' /\ Tokens' /\ Given' /\ OldHaveNoTime'
    BY <1>1, <2>1, SentAside
  <2>6. Page'
    BY <1>1, <2>2 DEF Page
  <2> QED
    BY <2>3, <2>4, <2>5, <2>6 DEF TextInv
<1>3. CASE m.kind = "back"
  <2>1. PICK new : /\ new = [kind |-> "part", asked |-> m.asked, at |-> m.at, failed |-> TRUE]
                   /\ sent' = (sent \ {m}) \cup {new}
    BY <1>3 DEF LogFails, Swapped
  <2>2. new.kind = "part" /\ new.asked = m.asked /\ new.at = m.at /\ new.failed = TRUE
    BY ONLY <2>1
  <2>3. EarlierOK(m)
    BY <1>3 DEF TextInv, Parts, Earlier
  <2>4. Earlier(new) /\ EarlierOK(new)
    BY <2>2, <2>3 DEF Earlier, EarlierOK
  <2> QED
    BY <1>1, <2>1, <2>2, <2>4, EarlierMoves
<1> QED
  BY <1>1, <1>2, <1>3

LEMMA ReadEarlierKeeps ==
  ASSUME TextInv, ReadEarlier
  PROVE  TextInv'
<1>1. /\ LogsTyped /\ Openers /\ Parts /\ Page
  BY DEF TextInv
<1>2. PICK new : /\ new = [kind |-> "back", asked |-> ask, at |-> reader.before,
                           room |-> MaxTextLines - Len(reader.lines)]
                 /\ sent' = sent \cup {new}
  BY DEF ReadEarlier
<1>3. /\ reader.more /\ Len(reader.lines) < MaxTextLines /\ reader' = [reader EXCEPT !.asking = TRUE]
      /\ UNCHANGED <<logs, dead, tails, onTop, ask, switches, logFaults>>
  BY DEF ReadEarlier
<1>4. /\ reader \in ReaderShape /\ reader.lines \in Seq(LogLine) /\ reader.source \in Sources
      /\ MarkIn(reader.source, logs[reader.source], reader.before)
  BY <1>1, <1>3 DEF Page, ReaderShape
<1>5. new.kind = "back" /\ new.asked = ask /\ new.at = reader.before /\ new.room \in Nat \ {0}
  <2>1. /\ new.kind = "back" /\ new.asked = ask /\ new.at = reader.before
        /\ new.room = MaxTextLines - Len(reader.lines)
    BY ONLY <1>2
  <2>2. PICK most \in Nat, n \in Nat : most = MaxTextLines /\ n = Len(reader.lines) /\ n < most
    <3>1. MaxTextLines \in Nat /\ Len(reader.lines) \in Nat
      BY <1>4, SizesAre
    <3> QED
      BY <1>3, <3>1
  <2>3. most - n \in Nat \ {0}
    BY <2>2
  <2> QED
    BY <2>1, <2>2, <2>3
<1>6. reader' \in ReaderShape
  BY <1>3, <1>4 DEF ReaderShape
<1>7. /\ reader'.source = reader.source /\ reader'.stream = reader.stream /\ reader'.lines = reader.lines
      /\ reader'.before = reader.before /\ reader'.more = reader.more /\ reader'.dropped = reader.dropped
  BY <1>3, <1>4 DEF ReaderShape
<1>8. Page'
  BY <1>1, <1>3, <1>6, <1>7 DEF Page
<1>9. EarlierOK(new) /\ Earlier(new) /\ ~Opening(new) /\ ~Brings(new)
  <2>1. new.at.source = reader.source
    BY <1>4, <1>5 DEF MarkIn
  <2> QED
    BY <1>4, <1>5, <2>1 DEF EarlierOK, Earlier, Opening, Brings
<1>10. Parts'
  BY <1>1, <1>2, <1>3, <1>9, PartsStay
<1>11. Openers'
  <2>1. ASSUME NEW n \in sent', Opening(n), n.asked = ask, n.source = reader.source
        PROVE  FALSE
    <3>1. n \in sent
      BY <1>2, <1>9, <2>1
    <3>2. reader = NotRead(reader.source)
      BY <1>1, <2>1, <3>1 DEF Openers
    <3>3. ~reader.more
      BY <3>2 DEF NotRead
    <3> QED
      BY <1>3, <3>3
  <2>2. ask \in Nat
    BY <1>1 DEF LogsTyped
  <2>3. \A n \in sent' : n \in sent \/ (~Opening(n) /\ n.asked \in Nat /\ n.asked <= ask)
    BY <1>2, <1>5, <1>9, <2>2
  <2> QED
    BY <1>1, <1>3, <1>7, <2>1, <2>3, OpenersStay
<1>12. LogsTyped' /\ TailsOK' /\ Tokens' /\ Given' /\ OldHaveNoTime'
  <2>1. \A n \in sent' : Brings(n) => n \in sent
    BY <1>2, <1>9
  <2> QED
    BY <1>3, <1>7, <2>1, SentAside
<1> QED
  BY <1>8, <1>10, <1>11, <1>12 DEF TextInv

LEMMA OpenLogText ==
  ASSUME TextInv, NEW m \in sent, OpenLog(m)
  PROVE  TextInv'
<1>1. /\ LogsTyped /\ TailsOK /\ Tokens /\ Openers /\ Parts /\ Page /\ Given /\ OldHaveNoTime
  BY DEF TextInv
<1>2. m.kind = "open" /\ UNCHANGED <<logs, dead, reader, onTop, ask, switches, logFaults>>
  BY DEF OpenLog
<1>3. PICK i \in 1 .. MaxStreams :
        /\ tails[i] = NoTail
        /\ tails' = [tails EXCEPT ![i] =
             [NoTail EXCEPT !.ctx = "live", !.source = m.source, !.finished = m.finished,
                !.at = Max({OldestKept(m.source) * FileSize, Bytes(m.source) - LogTail}),
                !.end = m.end, !.ended = m.ended, !.opened = Bytes(m.source)]]
        /\ Swapped(m, [kind |-> "stream", asked |-> m.asked, source |-> m.source, stream |-> i])
  BY DEF OpenLog
<1>4. PICK st :
        st = [NoTail EXCEPT !.ctx = "live", !.source = m.source, !.finished = m.finished,
                !.at = Max({OldestKept(m.source) * FileSize, Bytes(m.source) - LogTail}),
                !.end = m.end, !.ended = m.ended, !.opened = Bytes(m.source)]
  OBVIOUS
<1>5. PICK new : /\ new = [kind |-> "stream", asked |-> m.asked, source |-> m.source, stream |-> i]
                 /\ sent' = (sent \ {m}) \cup {new}
  BY <1>3 DEF Swapped
<1>6. tails' = [tails EXCEPT ![i] = st]
  BY <1>3, <1>4
<1>7. new.kind = "stream" /\ new.asked = m.asked /\ new.source = m.source /\ new.stream = i
  BY ONLY <1>5
<1>8. /\ m.source \in Sources /\ m.ended \in Nat /\ m.ended <= Bytes(m.source) /\ m.finished \in BOOLEAN
      /\ m.end \in LogMark \cup {NoMark} /\ (m.finished => dead)
      /\ ~m.finished => IF m.ended = 0 THEN m.end = NoMark
                        ELSE /\ m.end \in LogMark /\ PlaceOf(m.end) = m.ended
                             /\ m.end.offset \in 1 .. FileSize
  BY <1>1, <1>2 DEF Openers, Opening, EndRead
<1>9. /\ TailOK(logs[m.source], st) /\ st.ctx = "live" /\ st.source = m.source /\ st.fresh
      /\ st.finished = m.finished
  <2>1. logs[m.source] \in Seq(BOOLEAN)
    BY <1>1, <1>8 DEF LogsTyped
  <2> QED
    BY <1>4, <1>8, <2>1, OpensOK
<1>10. DOMAIN tails' = 1 .. MaxStreams /\ tails'[i] = st /\ \A j \in 1 .. MaxStreams : j # i => tails'[j] = tails[j]
  BY <1>1, <1>6 DEF LogsTyped
<1>11. \A n \in sent : Brings(n) => n.stream # i
  BY <1>1, <1>3 DEF Tokens, NoTail
<1>12. reader.stream # i /\ (reader.stream # 0 => tails'[reader.stream] = tails[reader.stream])
  <2>1. CASE reader.stream = 0
    BY <2>1
  <2>2. CASE reader.stream # 0
    <3>1. reader.stream \in 1 .. MaxStreams /\ tails[reader.stream].ctx = "live"
      BY <1>1, <2>2 DEF Tokens
    <3> QED
      BY <1>3, <1>10, <3>1 DEF NoTail
  <2> QED
    BY <2>1, <2>2
<1>13. \A n \in sent' : n = new \/ (n \in sent /\ (Brings(n) =>
         n.stream \in 1 .. MaxStreams /\ n.stream # i /\ tails'[n.stream] = tails[n.stream]))
  <2>1. \A n \in sent : Brings(n) => n.stream \in 1 .. MaxStreams
    BY <1>1 DEF Tokens
  <2> QED
    BY <1>5, <1>10, <1>11, <2>1
<1>14. LogsTyped'
  BY <1>1, <1>2, <1>10 DEF LogsTyped, Bytes
<1>15. TailsOK'
  <2> SUFFICES ASSUME NEW j \in 1 .. MaxStreams, tails'[j].ctx = "live"
               PROVE  TailOK(logs[tails'[j].source], tails'[j]) /\ (tails'[j].finished => dead)
    BY <1>2 DEF TailsOK
  <2>1. CASE j = i
    BY <1>8, <1>9, <1>10, <2>1
  <2>2. CASE j # i
    BY <1>1, <1>10, <2>2 DEF TailsOK
  <2> QED
    BY <2>1, <2>2
<1>16. Tokens'
  <2>1. \A j \in 1 .. MaxStreams : tails'[j] = NoTail \/ tails'[j].ctx \in {"live", "cancelled"}
    BY <1>1, <1>9, <1>10 DEF Tokens
  <2>2. \A n \in sent' : Brings(n) => n.stream \in 1 .. MaxStreams /\ tails'[n.stream].ctx # "none"
    BY <1>1, <1>7, <1>9, <1>10, <1>13 DEF Tokens
  <2>3. \A n, k \in sent' : Brings(n) /\ Brings(k) /\ n.stream = k.stream => n = k
    BY <1>1, <1>7, <1>13 DEF Tokens
  <2>4. \A n \in sent' : n.kind = "stream" => /\ tails'[n.stream].ctx = "live"
                                              /\ tails'[n.stream].source = n.source
                                              /\ tails'[n.stream].fresh
    <3> SUFFICES ASSUME NEW n \in sent', n.kind = "stream"
                 PROVE  tails'[n.stream].ctx = "live" /\ tails'[n.stream].source = n.source /\ tails'[n.stream].fresh
      OBVIOUS
    <3>1. CASE n = new
      BY <1>7, <1>9, <1>10, <3>1
    <3>2. CASE n # new
      <4>1. n \in sent /\ tails'[n.stream] = tails[n.stream]
        BY <1>13, <3>2 DEF Brings
      <4> QED
        BY <1>1, <4>1 DEF Tokens
    <3> QED
      BY <3>1, <3>2
  <2>5. reader.stream # 0 =>
          /\ reader.stream \in 1 .. MaxStreams
          /\ tails'[reader.stream].ctx = "live"
          /\ tails'[reader.stream].source = reader.source
          /\ \A n \in sent' : Brings(n) /\ n.stream = reader.stream => n.kind # "stream" /\ n.asked = ask
    BY <1>1, <1>7, <1>12, <1>13 DEF Tokens
  <2> QED
    BY <1>2, <2>1, <2>2, <2>3, <2>4, <2>5 DEF Tokens, Brings
<1>17. Openers'
  <2>1. EndRead(new) /\ Opening(new) /\ Opening(m)
    BY <1>2, <1>7 DEF EndRead, Opening
  <2> QED
    BY <1>1, <1>2, <1>5, <1>7, <2>1, OpenersMove
<1>18. Parts'
  BY <1>1, <1>2, <1>5, <1>7, PartsStay DEF Earlier
<1>19. Page'
  BY <1>1, <1>2 DEF Page
<1>20. \A n \in sent' : n.kind \in {"wait", "lines"} => n \in sent /\ tails'[n.stream] = tails[n.stream]
  BY <1>7, <1>13 DEF Brings
<1>21. Given' /\ OldHaveNoTime'
  BY <1>1, <1>2, <1>12, <1>20 DEF Given, OldHaveNoTime
<1> QED
  BY <1>14, <1>15, <1>16, <1>17, <1>18, <1>19, <1>21 DEF TextInv

(* What is brought of a stream moves on from one message to the next.       *)
TailIsAs(j) ==
  \/ tails'[j] = tails[j]
  \/ /\ tails'[j].ctx = tails[j].ctx /\ tails'[j].ctx # "none"
     /\ tails[j].ctx = "live" => tails'[j].source = tails[j].source /\ tails'[j].fresh = tails[j].fresh

LEMMA TokenMoves ==
  ASSUME Tokens, NEW m \in sent, Brings(m), NEW new, new.kind # "stream", new.stream = m.stream,
         Brings(new), new.asked = m.asked, sent' = (sent \ {m}) \cup {new},
         \A j \in 1 .. MaxStreams : TailIsAs(j),
         reader'.stream = reader.stream, reader'.source = reader.source, UNCHANGED ask
  PROVE  Tokens'
<1>1. \A j \in 1 .. MaxStreams : tails'[j] = NoTail \/ tails'[j].ctx \in {"live", "cancelled"}
  <2>1. NoTail.ctx = "none"
    BY DEF NoTail
  <2>2. \A j \in 1 .. MaxStreams : tails[j] = NoTail \/ tails[j].ctx \in {"live", "cancelled"}
    BY DEF Tokens
  <2> QED
    BY <2>1, <2>2 DEF TailIsAs
<1>2. \A j \in 1 .. MaxStreams :
        /\ tails'[j].ctx = tails[j].ctx
        /\ tails[j].ctx = "live" => tails'[j].source = tails[j].source /\ tails'[j].fresh = tails[j].fresh
  BY DEF TailIsAs
<1>3. m.stream \in 1 .. MaxStreams
  BY DEF Tokens
<1>4. \A n \in sent' : n = new \/ (n \in sent /\ n # m)
  OBVIOUS
<1>5. \A n \in sent' : Brings(n) => n.stream \in 1 .. MaxStreams /\ tails'[n.stream].ctx # "none"
  BY <1>2, <1>4 DEF Tokens
<1>6. \A n, k \in sent' : Brings(n) /\ Brings(k) /\ n.stream = k.stream => n = k
  BY <1>4 DEF Tokens
<1>7. \A n \in sent' : n.kind = "stream" => /\ tails'[n.stream].ctx = "live"
                                            /\ tails'[n.stream].source = n.source
                                            /\ tails'[n.stream].fresh
  <2> SUFFICES ASSUME NEW n \in sent', n.kind = "stream"
               PROVE  tails'[n.stream].ctx = "live" /\ tails'[n.stream].source = n.source /\ tails'[n.stream].fresh
    OBVIOUS
  <2>1. n \in sent /\ n.stream \in 1 .. MaxStreams
    BY <1>4 DEF Tokens, Brings
  <2> QED
    BY <1>2, <2>1 DEF Tokens
<1>8. reader.stream # 0 =>
        /\ reader.stream \in 1 .. MaxStreams
        /\ tails'[reader.stream].ctx = "live"
        /\ tails'[reader.stream].source = reader.source
        /\ \A n \in sent' : Brings(n) /\ n.stream = reader.stream => n.kind # "stream" /\ n.asked = ask
  <2> SUFFICES ASSUME reader.stream # 0
               PROVE  /\ reader.stream \in 1 .. MaxStreams
                      /\ tails'[reader.stream].ctx = "live"
                      /\ tails'[reader.stream].source = reader.source
                      /\ \A n \in sent' : Brings(n) /\ n.stream = reader.stream => n.kind # "stream" /\ n.asked = ask
    OBVIOUS
  <2>1. reader.stream \in 1 .. MaxStreams /\ tails[reader.stream].ctx = "live"
        /\ tails[reader.stream].source = reader.source
    BY DEF Tokens
  <2>2. \A n \in sent : Brings(n) /\ n.stream = reader.stream => n.kind # "stream" /\ n.asked = ask
    BY DEF Tokens
  <2>3. \A n \in sent' : Brings(n) /\ n.stream = reader.stream => n.kind # "stream" /\ n.asked = ask
    BY <1>4, <2>2
  <2> QED
    BY <1>2, <2>1, <2>3
<1> QED
  BY <1>1, <1>5, <1>6, <1>7, <1>8 DEF Tokens, Brings

LEMMA PageStays ==
  ASSUME Page, UNCHANGED logs, reader' \in ReaderShape, reader'.source = reader.source,
         reader'.lines = reader.lines, reader'.before = reader.before, reader'.more = reader.more,
         reader'.dropped = reader.dropped
  PROVE  Page'
BY DEF Page

LEMMA EndComesText ==
  ASSUME TextInv, NEW m \in sent, EndComes(m)
  PROVE  TextInv'
<1>1. /\ LogsTyped /\ TailsOK /\ Tokens /\ Openers /\ Parts /\ Page /\ Given /\ OldHaveNoTime
  BY DEF TextInv
<1>2. m.kind = "wait" /\ UNCHANGED <<logs, dead, tails, reader, onTop, ask, switches, logFaults>>
  BY DEF EndComes
<1>3. PICK new :
        /\ new = [kind |-> "end", asked |-> m.asked, stream |-> m.stream]
        /\ sent' = sent \ {m} \/ sent' = (sent \ {m}) \cup {new}
  BY DEF EndComes, Swapped, Dropped
<1>4. new.kind = "end" /\ new.asked = m.asked /\ new.stream = m.stream
  BY ONLY <1>3
<1>5. \A n \in sent' : n = new \/ n \in sent
  BY <1>3
<1>6. Openers'
  <2>1. m.asked \in Nat /\ m.asked <= ask
    BY <1>1 DEF Openers
  <2>2. \A n \in sent' : n \in sent \/ (~Opening(n) /\ n.asked \in Nat /\ n.asked <= ask)
    BY <1>4, <1>5, <2>1 DEF Opening
  <2> QED
    BY <1>1, <1>2, <2>2, OpenersStay
<1>7. Parts'
  BY <1>1, <1>2, <1>4, <1>5, PartsStay DEF Earlier
<1>8. Page'
  BY <1>1, <1>2 DEF Page
<1>9. CASE sent' = sent \ {m}
  <2>1. LogsTyped' /\ TailsOK' /\ Tokens' /\ Given' /\ OldHaveNoTime'
    BY <1>2, <1>9, SentAside
  <2> QED
    BY <1>6, <1>7, <1>8, <2>1 DEF TextInv
<1>10. CASE sent' = (sent \ {m}) \cup {new}
  <2>1. LogsTyped' /\ TailsOK'
    BY <1>1, <1>2 DEF LogsTyped, TailsOK, Bytes
  <2>2. Tokens'
    <3>1. Brings(m) /\ Brings(new) /\ new.kind # "stream"
      BY <1>2, <1>4 DEF Brings
    <3>2. \A j \in 1 .. MaxStreams : TailIsAs(j)
      BY <1>2 DEF TailIsAs
    <3> QED
      BY <1>1, <1>2, <1>4, <1>10, <3>1, <3>2, TokenMoves
  <2>3. Given' /\ OldHaveNoTime'
    BY <1>1, <1>2, <1>4, <1>5 DEF Given, OldHaveNoTime
  <2> QED
    BY <1>6, <1>7, <1>8, <2>1, <2>2, <2>3 DEF TextInv
<1> QED
  BY <1>3, <1>9, <1>10

LEMMA TakeEndText ==
  ASSUME TextInv, NEW m \in sent, TakeEnd(m)
  PROVE  TextInv'
<1>1. /\ LogsTyped /\ Tokens /\ Openers /\ Parts /\ Page
  BY DEF TextInv
<1>2. /\ m.kind = "end" /\ sent' = sent \ {m} /\ UNCHANGED <<logs, dead, tails, onTop, ask, switches, logFaults>>
      /\ reader' = reader \/ (m.stream = reader.stream /\ reader' = [reader EXCEPT !.stream = 0])
  BY DEF TakeEnd, Dropped
<1>3. reader \in ReaderShape
  BY <1>1 DEF Page
<1>4. /\ reader' \in ReaderShape /\ reader'.source = reader.source
      /\ reader'.lines = reader.lines /\ reader'.before = reader.before /\ reader'.more = reader.more
      /\ reader'.dropped = reader.dropped
      /\ reader' = reader \/ (m.stream = reader.stream /\ reader'.stream = 0)
  BY <1>2, <1>3 DEF ReaderShape
<1>5. Openers'
  <2>1. ASSUME NEW n \in sent', Opening(n), n.asked = ask, n.source = reader.source
        PROVE  reader' = reader
    <3>1. reader = NotRead(reader.source)
      BY <1>1, <1>2, <2>1 DEF Openers
    <3>2. reader.stream = 0
      BY <3>1 DEF NotRead
    <3>3. m.stream \in 1 .. MaxStreams
      BY <1>1, <1>2 DEF Tokens, Brings
    <3> QED
      BY <1>4, <3>2, <3>3
  <2> QED
    BY <1>1, <1>2, <1>4, <2>1, OpenersStay
<1>6. Parts'
  BY <1>1, <1>2, PartsStay
<1>7. Page'
  BY <1>1, <1>2, <1>4, PageStays
<1>8. LogsTyped' /\ TailsOK' /\ Tokens' /\ Given' /\ OldHaveNoTime'
  <2>1. DOMAIN tails' = 1 .. MaxStreams /\ ask' \in Nat /\ switches' \in Nat
    BY <1>1, <1>2 DEF LogsTyped
  <2>2. ReaderAside
    BY <1>2, <1>4 DEF ReaderAside
  <2>3. \A j \in 1 .. MaxStreams : Aside(j)
    BY <1>2 DEF Aside
  <2> QED
    BY <1>2, <2>1, <2>2, <2>3, AsideKeeps
<1> QED
  BY <1>5, <1>6, <1>7, <1>8 DEF TextInv

(* The page closes what it reads and goes on without a stream.              *)
LEMMA ReaderLeaves ==
  ASSUME TextInv, tails' = ClosedTail(reader.stream), reader'.stream = 0,
         \A n \in sent' : Brings(n) => n \in sent, UNCHANGED <<logs, dead>>, ask' \in Nat, switches' \in Nat
  PROVE  LogsTyped' /\ TailsOK' /\ Tokens' /\ Given' /\ OldHaveNoTime'
<1>1. Tokens
  BY DEF TextInv
<1>2. reader.stream \in 0 .. MaxStreams
  BY <1>1, TaskLogAssumption DEF Tokens
<1>3. reader.stream # 0 => /\ tails[reader.stream].ctx # "none"
                           /\ \A m \in sent' : m.kind = "stream" => m.stream # reader.stream
  BY <1>1 DEF Tokens, Brings
<1>4. /\ DOMAIN tails' = 1 .. MaxStreams /\ \A j \in 1 .. MaxStreams : Aside(j)
  BY <1>2, <1>3, TailClosed
<1> QED
  BY <1>4, AsideKeeps DEF ReaderAside

LEMMA LeaveLogText ==
  ASSUME TextInv, LeaveLog
  PROVE  TextInv'
<1>1. /\ LogsTyped /\ Tokens /\ Openers /\ Parts /\ Page
  BY DEF TextInv
<1>2. /\ ask' = ask + 1 /\ tails' = ClosedTail(reader.stream) /\ reader' = [reader EXCEPT !.stream = 0]
      /\ UNCHANGED <<logs, dead, sent, switches, logFaults>>
  BY DEF LeaveLog
<1>3. reader \in ReaderShape /\ ask \in Nat /\ switches \in Nat
  BY <1>1 DEF Page, LogsTyped
<1>4. /\ reader' \in ReaderShape /\ reader'.source = reader.source
      /\ reader'.lines = reader.lines /\ reader'.before = reader.before /\ reader'.more = reader.more
      /\ reader'.dropped = reader.dropped /\ reader'.stream = 0
  BY <1>2, <1>3 DEF ReaderShape
<1>5. LogsTyped' /\ TailsOK' /\ Tokens' /\ Given' /\ OldHaveNoTime'
  BY <1>2, <1>3, <1>4, ReaderLeaves
<1>6. Openers'
  <2>1. \A n \in sent : n.asked \in Nat /\ n.asked <= ask
    BY <1>1 DEF Openers
  <2>2. \A n \in sent : n.asked <= ask' /\ n.asked # ask'
    BY <1>2, <1>3, <2>1
  <2>3. \A n \in sent : EndRead(n)'
    BY <1>1, <1>2 DEF Openers, EndRead, Bytes
  <2> QED
    BY <1>1, <1>2, <2>2, <2>3 DEF Openers, Opening
<1>7. Parts'
  BY <1>1, <1>2, PartsStay
<1>8. Page'
  BY <1>1, <1>2, <1>4, PageStays
<1> QED
  BY <1>5, <1>6, <1>7, <1>8 DEF TextInv

(* The page is opened: nothing of it is read.                               *)
LEMMA PageOpens ==
  ASSUME TextInv, NEW source \in Sources, ask' \in Nat, ask <= ask', switches' \in Nat,
         OpenLogPage(source, ask', sent), UNCHANGED <<logs, dead>>,
         \A n \in sent : Opening(n) /\ n.asked = ask' => n.source # source
  PROVE  TextInv'
<1>1. /\ LogsTyped /\ Tokens /\ Openers /\ Parts /\ Page
  BY DEF TextInv
<1>2. PICK new : /\ new = [kind |-> "info", asked |-> ask', source |-> source]
                 /\ sent' = sent \cup {new}
  BY DEF OpenLogPage
<1>3. tails' = ClosedTail(reader.stream) /\ reader' = NotRead(source)
  BY DEF OpenLogPage
<1>4. new.kind = "info" /\ new.asked = ask' /\ new.source = source
  BY ONLY <1>2
<1>5. /\ reader'.source = source /\ reader'.stream = 0 /\ reader'.before = NoMark /\ reader'.more = FALSE
      /\ reader'.lines = <<>>
  BY <1>3 DEF NotRead
<1>6. reader' \in ReaderShape
  <2>1. <<>> \in Seq(LogLine) /\ 0 \in Nat
    OBVIOUS
  <2> QED
    BY <1>3, <2>1 DEF NotRead, ReaderShape
<1>7. Page'
  <2>1. Chained(source, logs[source], <<>>)
    BY DEF Chained
  <2>2. Len(<<>>) <= MaxTextLines
    BY SizesAre
  <2> QED
    BY <1>5, <1>6, <2>1, <2>2 DEF Page
<1>8. LogsTyped' /\ TailsOK' /\ Tokens' /\ Given' /\ OldHaveNoTime'
  <2>1. \A n \in sent' : Brings(n) => n \in sent
    BY <1>2, <1>4 DEF Brings
  <2> QED
    BY <1>3, <1>5, <2>1, ReaderLeaves
<1>9. Parts'
  BY <1>1, <1>2, <1>4, PartsStay DEF Earlier
<1>10. Openers'
  <2>1. \A n \in sent' : n.asked \in Nat /\ n.asked <= ask' /\ (Opening(n) => n.source \in Sources)
    <3>1. \A n \in sent : n.asked \in Nat /\ n.asked <= ask /\ (Opening(n) => n.source \in Sources)
      BY <1>1 DEF Openers
    <3>2. ask \in Nat
      BY <1>1 DEF LogsTyped
    <3> QED
      BY <1>2, <1>4, <3>1, <3>2
  <2>2. \A n, k \in sent' : Opening(n) /\ Opening(k) /\ n.asked = k.asked /\ n.source = k.source => n = k
    BY <1>1, <1>2, <1>4 DEF Openers
  <2>3. \A n \in sent' : Opening(n) /\ n.asked = ask' /\ n.source = reader'.source =>
          reader' = NotRead(reader'.source)
    <3>1. reader' = NotRead(reader'.source)
      BY <1>3, <1>5
    <3> QED
      BY <1>2, <1>4, <1>5, <3>1
  <2>4. \A n \in sent' : EndRead(n)'
    <3>1. \A n \in sent' : EndRead(n)
      BY <1>1, <1>2, <1>4 DEF Openers, EndRead
    <3> QED
      BY <3>1 DEF EndRead, Bytes
  <2> QED
    BY <2>1, <2>2, <2>3, <2>4 DEF Openers, Opening
<1> QED
  BY <1>7, <1>8, <1>9, <1>10 DEF TextInv

(* The page does not read the log of a source again that it switched away   *)
(* from while the stream of it is still on its way.                         *)
NotSwitchedBack ==
  \A source \in Sources : SwitchSource(source) =>
    \A m \in sent : Opening(m) /\ m.asked = ask => m.source # source

LEMMA SwitchSourceText ==
  ASSUME TextInv, NEW source \in Sources, SwitchSource(source), NotSwitchedBack
  PROVE  TextInv'
<1>1. /\ source # reader.source /\ switches < MaxSwitches /\ switches' = switches + 1
      /\ OpenLogPage(source, ask, sent) /\ UNCHANGED <<logs, dead, ask>>
  BY DEF SwitchSource
<1>2. ask \in Nat /\ switches' \in Nat
  BY <1>1 DEF TextInv, LogsTyped
<1>3. \A n \in sent : Opening(n) /\ n.asked = ask => n.source # source
  BY DEF NotSwitchedBack
<1> QED
  BY <1>1, <1>2, <1>3, PageOpens

LEMMA ReturnToLogText ==
  ASSUME TextInv, ReturnToLog
  PROVE  TextInv'
<1>1. ask' = ask + 1 /\ OpenLogPage(reader.source, ask + 1, sent) /\ UNCHANGED <<logs, dead, switches>>
  BY DEF ReturnToLog
<1>2. ask \in Nat /\ switches \in Nat /\ reader.source \in Sources
  BY DEF TextInv, LogsTyped, Page, ReaderShape
<1>3. \A n \in sent : n.asked \in Nat /\ n.asked <= ask
  BY DEF TextInv, Openers
<1>4. \A n \in sent : n.asked # ask'
  BY <1>1, <1>2, <1>3
<1> QED
  BY <1>1, <1>2, <1>4, PageOpens

LEMMA StreamIsRead ==
  ASSUME TextInv, NEW m \in sent, m.kind = "stream", m.asked = ask, m.source = reader.source, reader.stream = 0,
         reader' = [reader EXCEPT !.stream = m.stream, !.finished = tails[m.stream].finished],
         Swapped(m, [kind |-> "wait", asked |-> ask, stream |-> m.stream]),
         UNCHANGED <<logs, dead, tails, onTop, ask, switches, logFaults>>
  PROVE  TextInv'
<1>1. /\ LogsTyped /\ TailsOK /\ Tokens /\ Openers /\ Parts /\ Page /\ Given /\ OldHaveNoTime
  BY DEF TextInv
<1>2. PICK new : /\ new = [kind |-> "wait", asked |-> ask, stream |-> m.stream]
                 /\ sent' = (sent \ {m}) \cup {new}
  BY DEF Swapped
<1>3. new.kind = "wait" /\ new.asked = ask /\ new.stream = m.stream
  BY ONLY <1>2
<1>4. /\ m.stream \in 1 .. MaxStreams /\ tails[m.stream].ctx = "live" /\ tails[m.stream].source = reader.source
      /\ tails[m.stream].fresh
  BY <1>1 DEF Tokens, Brings
<1>5. TailOK(logs[reader.source], tails[m.stream])
  BY <1>1, <1>4 DEF TailsOK
<1>6. Untold(tails[m.stream]) /\ tails[m.stream].finished \in BOOLEAN
  BY <1>4, <1>5, ShapeIs DEF TailOK, Begun, Untold
<1>7. reader.lines = <<>>
  BY <1>1 DEF Openers, Opening, NotRead
<1>8. reader \in ReaderShape /\ m.stream \in Nat
  BY <1>1, <1>4, TaskLogAssumption DEF Page
<1>9. /\ reader' \in ReaderShape /\ reader'.source = reader.source
      /\ reader'.lines = reader.lines /\ reader'.before = reader.before /\ reader'.more = reader.more
      /\ reader'.dropped = reader.dropped /\ reader'.stream = m.stream
  BY <1>6, <1>8 DEF ReaderShape
<1>10. \A n \in sent : Brings(n) /\ n.stream = m.stream => n = m
  BY <1>1 DEF Tokens, Brings
<1>11. \A n \in sent' : n = new \/ (n \in sent /\ n # m)
  BY <1>2
<1>12. LogsTyped' /\ TailsOK'
  BY <1>1 DEF LogsTyped, TailsOK, Bytes
<1>13. Tokens'
  <2>1. \A j \in 1 .. MaxStreams : tails[j] = NoTail \/ tails[j].ctx \in {"live", "cancelled"}
    BY <1>1 DEF Tokens
  <2>2. \A n \in sent' : Brings(n) => n.stream \in 1 .. MaxStreams /\ tails[n.stream].ctx # "none"
    BY <1>1, <1>3, <1>4, <1>11 DEF Tokens
  <2>3. \A n, k \in sent' : Brings(n) /\ Brings(k) /\ n.stream = k.stream => n = k
    BY <1>1, <1>3, <1>10, <1>11 DEF Tokens
  <2>4. \A n \in sent' : n.kind = "stream" => /\ tails[n.stream].ctx = "live"
                                              /\ tails[n.stream].source = n.source
                                              /\ tails[n.stream].fresh
    BY <1>1, <1>3, <1>11 DEF Tokens
  <2>5. \A n \in sent' : Brings(n) /\ n.stream = m.stream => n.kind # "stream" /\ n.asked = ask
    BY <1>3, <1>10, <1>11
  <2> QED
    BY <1>4, <1>9, <2>1, <2>2, <2>3, <2>4, <2>5 DEF Tokens, Brings
<1>14. Openers'
  <2>1. ask \in Nat /\ ask <= ask
    BY <1>1 DEF LogsTyped
  <2>2. \A n \in sent' : n \in sent \/ (~Opening(n) /\ n.asked \in Nat /\ n.asked <= ask)
    BY <1>3, <1>11, <2>1 DEF Opening
  <2>3. \A n \in sent' : ~(Opening(n) /\ n.asked = ask /\ n.source = reader.source)
    BY <1>1, <1>3, <1>11 DEF Openers, Opening
  <2> QED
    BY <1>1, <1>9, <2>2, <2>3, OpenersStay
<1>15. Parts'
  BY <1>1, <1>3, <1>11, PartsStay DEF Earlier
<1>16. Page'
  BY <1>1, <1>9, PageStays
<1>17. \A n \in sent' : n.kind \in {"wait", "lines"} /\ n.stream = m.stream => n = new
  BY <1>10, <1>11 DEF Brings
<1>18. Given'
  BY <1>3, <1>6, <1>7, <1>9, <1>17 DEF Given
<1>19. OldHaveNoTime'
  BY <1>1, <1>3, <1>11 DEF OldHaveNoTime
<1> QED
  BY <1>12, <1>13, <1>14, <1>15, <1>16, <1>18, <1>19 DEF TextInv

LEMMA TakeStreamText ==
  ASSUME TextInv, NEW m \in sent, TakeStream(m)
  PROVE  TextInv'
<1>1. /\ LogsTyped /\ Tokens /\ Openers /\ Parts /\ Page
  BY DEF TextInv
<1>2. m.kind = "stream" /\ UNCHANGED <<logs, dead, onTop, ask, switches, logFaults>>
  BY DEF TakeStream
<1>3. CASE m.asked = ask /\ m.source = reader.source /\ reader.stream = 0
  <2>1. /\ reader' = [reader EXCEPT !.stream = m.stream, !.finished = tails[m.stream].finished]
        /\ Swapped(m, [kind |-> "wait", asked |-> ask, stream |-> m.stream])
        /\ UNCHANGED tails
    BY <1>3 DEF TakeStream
  <2> QED
    BY <1>2, <1>3, <2>1, StreamIsRead
<1>4. CASE ~(m.asked = ask /\ m.source = reader.source /\ reader.stream = 0)
  <2>1. tails' = ClosedTail(m.stream) /\ sent' = sent \ {m} /\ UNCHANGED reader
    BY <1>4 DEF TakeStream, Dropped
  <2>2. /\ m.stream \in 1 .. MaxStreams /\ tails[m.stream].ctx = "live" /\ reader.stream # m.stream
    BY <1>1, <1>2 DEF Tokens, Brings
  <2>3. \A n \in sent' : n.kind = "stream" => n.stream # m.stream
    BY <1>1, <1>2, <2>1 DEF Tokens, Brings
  <2>4. /\ DOMAIN tails' = 1 .. MaxStreams /\ \A j \in 1 .. MaxStreams : Aside(j)
        /\ \A j \in 1 .. MaxStreams : j # m.stream => tails'[j] = tails[j]
    <3>1. m.stream \in 0 .. MaxStreams
      BY <2>2, TaskLogAssumption
    <3> QED
      BY <2>1, <2>2, <2>3, <3>1, TailClosed
  <2>5. ReaderAside
    <3>1. reader.stream = 0 \/ reader.stream \in 1 .. MaxStreams
      BY <1>1 DEF Tokens
    <3> QED
      BY <1>2, <2>1, <2>2, <2>4, <3>1 DEF ReaderAside
  <2>6. LogsTyped' /\ TailsOK' /\ Tokens' /\ Given' /\ OldHaveNoTime'
    <3>1. ask' \in Nat /\ switches' \in Nat
      BY <1>1, <1>2 DEF LogsTyped
    <3> QED
      BY <1>2, <2>1, <2>4, <2>5, <3>1, AsideKeeps
  <2>7. Openers'
    BY <1>1, <1>2, <2>1, OpenersStay
  <2>8. Parts' /\ Page'
    BY <1>1, <1>2, <2>1, PartsStay DEF Page
  <2> QED
    BY <2>6, <2>7, <2>8 DEF TextInv
<1> QED
  BY <1>3, <1>4

(* What is given of a stream that goes on.                                  *)
Gives(log, st, new, out) ==
  /\ TailOK(log, new) /\ new.ctx = "live" /\ new.source = st.source /\ new.finished = st.finished
  /\ new.fresh = st.fresh /\ new.start = st.start /\ new.ended = st.ended /\ new.opened = st.opened
  /\ st.finished => dead
  /\ Chained(st.source, log, out) /\ out # <<>> /\ Joins(log, new, out[Len(out)].to)
  /\ Untold(st) => out[1].from = PlaceOf(st.start)
  /\ \A to : Joins(log, st, to) => Follows(log, to, out[1].from)
  /\ \A n \in DOMAIN out :
       IF out[n].timed THEN out[n].ends > new.ended
       ELSE out[n].ends <= new.opened /\ (new.finished \/ new.ended > 0)

LEMMA LinesCome ==
  ASSUME LogsTyped, TailsOK, NEW i \in 1 .. MaxStreams, tails[i].ctx = "live", Size(tails[i].chunk) > 0,
         NEW new, NEW out, ChunkLines(tails[i], new, out)
  PROVE  Gives(logs[tails[i].source], tails[i], new, out)
<1> DEFINE st == tails[i]
           log == logs[st.source]
<1>1. TailOK(log, st) /\ (st.finished => dead)
  BY DEF TailsOK
<1>2. st.source \in Sources /\ st \in TailShape
  BY <1>1, ShapeIs DEF TailOK
<1>3. log \in Seq(BOOLEAN) /\ Len(log) \in Nat /\ Len(log) < EveryByte
  BY <1>2, LogIs
<1>4. /\ TailOK(log, new) /\ new.source = st.source /\ new.finished = st.finished
      /\ new.opened = st.opened /\ new.ended = st.ended /\ new.start = st.start
      /\ Joins(log, new, out[Len(out)].to)
      /\ Untold(st) => out[1].from = PlaceOf(st.start)
      /\ \A to : Joins(log, st, to) => Follows(log, to, out[1].from)
  BY <1>1, <1>3, ChunkKeeps
<1>5. /\ Chained(st.source, log, out) /\ out # <<>>
      /\ \A k \in 1 .. Len(out) :
              /\ out[k].ends \in Nat /\ st.chunk.from < out[k].ends /\ out[k].ends <= st.chunk.to
              /\ out[k].timed => st.given + out[k].ends - st.chunk.from > st.there
              /\ ~out[k].timed => st.given + out[k].ends - st.chunk.from <= st.there
  BY <1>1, <1>3, LinesOfChunk
<1>6. new.ctx = "live"
  BY <1>4 DEF TailOK, TailShape
<1>7. new.fresh = st.fresh
  BY <1>2 DEF ChunkLines, TailShape
<1> HIDE DEF st, log
<1>8. ASSUME NEW k \in 1 .. Len(out)
      PROVE  IF out[k].timed THEN out[k].ends > new.ended
             ELSE out[k].ends <= new.opened /\ (new.finished \/ new.ended > 0)
  <2>1. /\ out[k].ends \in Nat /\ st.chunk.from < out[k].ends /\ out[k].ends <= st.chunk.to
        /\ out[k].timed => st.given + out[k].ends - st.chunk.from > st.there
        /\ ~out[k].timed => st.given + out[k].ends - st.chunk.from <= st.there
    BY <1>5
  <2>2. PICK ends \in Nat : ends = out[k].ends
    BY <2>1
  <2>3. Size(st.chunk) > 0
    BY DEF st
  <2>4. /\ st.given + ends - st.chunk.from > st.there => ends > st.ended
        /\ st.given + ends - st.chunk.from <= st.there =>
             ends <= st.opened /\ (st.finished \/ st.ended > 0)
    BY <1>1, <1>3, <2>1, <2>2, <2>3, ChunkCounts
  <2> QED
    BY <1>4, <2>1, <2>2, <2>4
<1>9. DOMAIN out = 1 .. Len(out)
  BY <1>5 DEF Chained
<1> QED
  BY <1>1, <1>4, <1>5, <1>6, <1>7, <1>8, <1>9 DEF st, log, Gives

LEMMA ChunkComesText ==
  ASSUME TextInv, NEW m \in sent, ChunkComes(m), IsTail(tails[m.stream])
  PROVE  TextInv'
<1>1. /\ LogsTyped /\ TailsOK /\ Tokens /\ Openers /\ Parts /\ Page /\ Given /\ OldHaveNoTime
  BY DEF TextInv
<1>2. m.kind = "wait" /\ Size(tails[m.stream].chunk) > 0
      /\ UNCHANGED <<logs, dead, reader, onTop, ask, switches, logFaults>>
  BY DEF ChunkComes
<1>3. PICK i : i = m.stream
  OBVIOUS
<1>4. i \in 1 .. MaxStreams /\ tails[i].ctx # "none"
  BY <1>1, <1>2, <1>3 DEF Tokens, Brings
<1>5. PICK st : st = tails[i]
  OBVIOUS
<1>6. PICK new, out, brought :
        /\ ChunkLines(st, new, out) /\ tails' = [tails EXCEPT ![i] = new]
        /\ brought = [kind |-> "lines", asked |-> m.asked, stream |-> i, start |-> st.start, lines |-> out]
        /\ sent' = (sent \ {m}) \cup {brought}
  <2> DEFINE tail == tails[m.stream]
             lines == LinesOf(tail.source, tail.chunk)
             old == {n \in DOMAIN lines :
                       \A j \in 1 .. n : tail.given + lines[j].ends - tail.chunk.from <= tail.there}
             next == [tail EXCEPT !.chunk = NoSpan, !.given = Min({@ + Size(tail.chunk), tail.there})]
             given == [n \in DOMAIN lines |-> [lines[n] EXCEPT !.timed = n \notin old]]
             message == [kind |-> "lines", asked |-> m.asked, stream |-> m.stream, start |-> tail.start,
                         lines |-> given]
  <2>1. ChunkLines(tail, next, given)
    BY DEF ChunkLines
  <2>2. tails' = [tails EXCEPT ![m.stream] = next]
    <3>1. tails' = [tails EXCEPT ![m.stream].chunk = NoSpan,
                                 ![m.stream].given = Min({@ + Size(tail.chunk), tail.there})]
      BY DEF ChunkComes
    <3>2. DOMAIN tails = 1 .. MaxStreams /\ m.stream \in 1 .. MaxStreams
      BY ONLY <1>1, <1>3, <1>4 DEF LogsTyped
    <3> QED
      BY ONLY <3>1, <3>2
  <2>3. sent' = (sent \ {m}) \cup {message}
    BY DEF ChunkComes, Swapped
  <2>4. message = [kind |-> "lines", asked |-> m.asked, stream |-> m.stream, start |-> tail.start, lines |-> given]
    OBVIOUS
  <2> HIDE DEF next, given, message
  <2> QED
    BY <1>3, <1>5, <2>1, <2>2, <2>3, <2>4
<1>7. /\ brought.kind = "lines" /\ brought.asked = m.asked /\ brought.stream = i /\ brought.start = st.start
      /\ brought.lines = out
  BY ONLY <1>6
<1>8. new.ctx = st.ctx
  <2>1. IsTail(st) /\ ChunkLines(st, new, out)
    BY <1>3, <1>5, <1>6
  <2> QED
    BY ONLY <2>1 DEF ChunkLines, IsTail
<1>9. DOMAIN tails' = 1 .. MaxStreams /\ tails'[i] = new /\ \A j \in 1 .. MaxStreams : j # i => tails'[j] = tails[j]
  BY <1>1, <1>4, <1>6 DEF LogsTyped
<1> DEFINE log == logs[st.source]
<1>10. st.ctx = "live" => Gives(log, st, new, out)
  BY <1>1, <1>2, <1>3, <1>4, <1>5, <1>6, LinesCome
<1>11. LogsTyped'
  BY <1>1, <1>2, <1>9 DEF LogsTyped, Bytes
<1>12. TailsOK'
  <2> SUFFICES ASSUME NEW j \in 1 .. MaxStreams, tails'[j].ctx = "live"
               PROVE  TailOK(logs[tails'[j].source], tails'[j]) /\ (tails'[j].finished => dead)
    BY <1>2 DEF TailsOK
  <2>1. CASE j = i
    BY <1>8, <1>9, <1>10, <2>1 DEF Gives
  <2>2. CASE j # i
    BY <1>1, <1>9, <2>2 DEF TailsOK
  <2> QED
    BY <2>1, <2>2
<1>13. Tokens'
  <2>1. Brings(m) /\ Brings(brought) /\ brought.kind # "stream"
    BY <1>2, <1>7 DEF Brings
  <2>2. \A j \in 1 .. MaxStreams : TailIsAs(j)
    BY <1>4, <1>5, <1>8, <1>9, <1>10 DEF TailIsAs, Gives
  <2> QED
    BY <1>1, <1>2, <1>3, <1>6, <1>7, <2>1, <2>2, TokenMoves
<1>14. \A n \in sent' : n = brought \/ n \in sent
  BY <1>6
<1>15. Openers'
  <2>1. m.asked \in Nat /\ m.asked <= ask
    BY <1>1 DEF Openers
  <2>2. \A n \in sent' : n \in sent \/ (~Opening(n) /\ n.asked \in Nat /\ n.asked <= ask)
    BY <1>7, <1>14, <2>1 DEF Opening
  <2> QED
    BY <1>1, <1>2, <2>2, OpenersStay
<1>16. Parts'
  BY <1>1, <1>2, <1>7, <1>14, PartsStay DEF Earlier
<1>17. Page'
  BY <1>1, <1>2 DEF Page
<1>18. \A n \in sent' : Brings(n) => n = brought \/ (n \in sent /\ n.stream # i /\ n.stream \in 1 .. MaxStreams
                                                     /\ tails'[n.stream] = tails[n.stream])
  <2>1. \A n \in sent : Brings(n) /\ n.stream = i => n = m
    BY <1>1, <1>2, <1>3 DEF Tokens, Brings
  <2>2. \A n \in sent : Brings(n) => n.stream \in 1 .. MaxStreams
    BY <1>1 DEF Tokens
  <2>3. \A n \in sent' : n = brought \/ (n \in sent /\ n # m)
    BY <1>6
  <2> QED
    BY <1>9, <2>1, <2>2, <2>3
<1>19. Given'
  <2> SUFFICES ASSUME NEW n \in sent', n.kind \in {"wait", "lines"}, n.stream = reader.stream
               PROVE  /\ n.kind = "wait" =>
                           IF reader.lines = <<>> THEN Untold(tails'[reader.stream])
                           ELSE Joins(logs[reader.source], tails'[reader.stream], reader.lines[Len(reader.lines)].to)
                      /\ n.kind = "lines" =>
                           /\ Chained(reader.source, logs[reader.source], n.lines) /\ n.lines # <<>>
                           /\ n.start = tails'[reader.stream].start
                           /\ Joins(logs[reader.source], tails'[reader.stream], n.lines[Len(n.lines)].to)
                           /\ IF reader.lines = <<>> THEN n.lines[1].from = PlaceOf(tails'[reader.stream].start)
                              ELSE Follows(logs[reader.source], reader.lines[Len(reader.lines)].to, n.lines[1].from)
    BY <1>2 DEF Given
  <2>1. CASE n = brought
    <3>1. reader.stream = i /\ st.ctx = "live" /\ st.source = reader.source
      <4>1. reader.stream = i /\ reader.stream # 0
        BY <1>4, <1>7, <2>1
      <4> QED
        BY <1>1, <1>5, <4>1 DEF Tokens
    <3>2. IF reader.lines = <<>> THEN Untold(st) ELSE Joins(log, st, reader.lines[Len(reader.lines)].to)
      BY <1>1, <1>2, <1>3, <1>5, <3>1 DEF Given
    <3> QED
      BY <1>7, <1>9, <1>10, <2>1, <3>1, <3>2 DEF Gives
  <2>2. CASE n # brought
    <3>1. n \in sent /\ tails'[reader.stream] = tails[reader.stream]
      BY <1>18, <2>2 DEF Brings
    <3> QED
      BY <1>1, <3>1 DEF Given
  <2> QED
    BY <2>1, <2>2
<1>20. OldHaveNoTime'
  <2> SUFFICES ASSUME NEW n \in sent', n.kind = "lines", tails'[n.stream].ctx = "live", NEW k \in DOMAIN n.lines
               PROVE  IF n.lines[k].timed THEN n.lines[k].ends > tails'[n.stream].ended
                      ELSE /\ n.lines[k].ends <= tails'[n.stream].opened
                           /\ tails'[n.stream].finished \/ tails'[n.stream].ended > 0
    BY DEF OldHaveNoTime
  <2>1. CASE n = brought
    BY <1>7, <1>8, <1>9, <1>10, <2>1 DEF Gives
  <2>2. CASE n # brought
    <3>1. n \in sent /\ tails'[n.stream] = tails[n.stream]
      BY <1>18, <2>2 DEF Brings
    <3> QED
      BY <1>1, <3>1 DEF OldHaveNoTime
  <2> QED
    BY <2>1, <2>2
<1> QED
  BY <1>11, <1>12, <1>13, <1>15, <1>16, <1>17, <1>19, <1>20 DEF TextInv

(* What a stream has not given yet is in its log.                           *)
LEMMA StartIsIn ==
  ASSUME NEW log, NEW st, Len(log) \in Nat, TailOK(log, st), st.start # NoMark
  PROVE  MarkIn(st.source, log, st.start)
<1>1. st \in TailShape /\ Held(log, st) /\ Begun(log, st)
  BY DEF TailOK
<1>2. /\ st.start \in LogMark /\ st.start.source = st.source /\ Edge(log, PlaceOf(st.start))
      /\ PlaceOf(st.start) <= Ahead(st)
  BY <1>1 DEF Begun
<1>3. PICK at \in Nat, chunkFrom \in Nat, chunkTo \in Nat, heldFrom \in Nat, heldTo \in Nat, place \in Nat, len \in Nat :
        /\ at = st.at /\ chunkFrom = st.chunk.from /\ chunkTo = st.chunk.to /\ heldFrom = st.held.from
        /\ heldTo = st.held.to /\ place = PlaceOf(st.start) /\ len = Len(log)
  BY <1>1, <1>2, ShapeIs, MarkNat
<1>4. at <= len /\ chunkTo <= at /\ heldTo <= at
  BY <1>1, <1>3 DEF Held
<1>5. /\ Size(st.chunk) = chunkTo - chunkFrom /\ Size(st.held) = heldTo - heldFrom
  BY <1>3 DEF Size
<1>6. Ahead(st) = IF chunkTo - chunkFrom > 0 THEN chunkFrom ELSE IF heldTo - heldFrom > 0 THEN heldFrom ELSE at
  BY <1>3, <1>5 DEF Ahead
<1>7. place <= IF chunkTo - chunkFrom > 0 THEN chunkFrom ELSE IF heldTo - heldFrom > 0 THEN heldFrom ELSE at
  BY <1>2, <1>3, <1>6
<1>8. place <= len
  BY ONLY place \in Nat, len \in Nat, at \in Nat, chunkFrom \in Nat, chunkTo \in Nat, heldFrom \in Nat,
          heldTo \in Nat, <1>4, <1>7
<1> QED
  BY <1>2, <1>3, <1>8 DEF MarkIn, Fair

(* A text with lines put after it: the last of all that there is room for.  *)
PutAfter(source, log, text, lines, rest, dropped) ==
  /\ Chained(source, log, rest) /\ rest # <<>> /\ Len(rest) <= MaxTextLines
  /\ rest[Len(rest)] = lines[Len(lines)]
  /\ ~dropped => rest[1] = IF text = <<>> THEN lines[1] ELSE text[1]

LEMMA AddedIs ==
  ASSUME NEW source, NEW log, NEW text, NEW lines, Chained(source, log, text), Chained(source, log, lines),
         lines # <<>>, text # <<>> => Follows(log, text[Len(text)].to, lines[1].from),
         NEW all, all = text \o lines, NEW rest, rest = SubSeq(all, Max({1, Len(all) - MaxTextLines + 1}), Len(all))
  PROVE  PutAfter(source, log, text, lines, rest, Len(all) > MaxTextLines)
<1>1. text \in Seq(LogLine) /\ lines \in Seq(LogLine)
  BY DEF Chained
<1>2. Chained(source, log, all)
  BY ChainBoth
<1>3. /\ all \in Seq(LogLine) /\ Len(all) = Len(text) + Len(lines)
      /\ \A i \in 1 .. Len(text) : all[i] = text[i]
      /\ \A i \in 1 .. Len(lines) : all[Len(text) + i] = lines[i]
      /\ text = <<>> => all = lines
  BY <1>1, BothOf
<1>4. PICK n \in Nat, b \in Nat, most \in Nat, m \in Nat :
        /\ n = Len(text) /\ b = Len(lines) /\ most = MaxTextLines /\ m = Len(all) /\ m = n + b /\ b > 0 /\ most > 0
        /\ (n = 0) <=> (text = <<>>)
  BY <1>1, <1>3, SizesAre
<1>5. PICK k \in 1 .. m : k = Max({1, m - most + 1}) /\ m - k + 1 <= most /\ (m <= most => k = 1)
  <2>1. PICK a \in Int : a = m - most + 1
    OBVIOUS
  <2>2. Max({1, a}) = IF 1 >= a THEN 1 ELSE a
    BY TwoOf
  <2>3. PICK k \in Int : k = Max({1, m - most + 1}) /\ k = (IF 1 >= a THEN 1 ELSE a)
    BY <2>1, <2>2
  <2>4. m \in Nat /\ n \in Nat /\ b \in Nat /\ most \in Nat /\ a \in Int /\ k \in Int
    OBVIOUS
  <2>5. m = n + b /\ b > 0 /\ most > 0
    BY <1>4
  <2>6. k \in 1 .. m /\ m - k + 1 <= most /\ (m <= most => k = 1)
    BY ONLY <2>1, <2>3, <2>4, <2>5
  <2> QED
    BY <2>3, <2>6
<1>6. rest = SubSeq(all, k, m)
  BY <1>4, <1>5
<1>7. /\ rest \in Seq(LogLine) /\ Len(rest) = m - k + 1 /\ rest # <<>>
      /\ rest[1] = all[k] /\ rest[Len(rest)] = all[m]
  <2>1. k \in 1 .. Len(all) /\ rest = SubSeq(all, k, Len(all)) /\ m = Len(all)
    BY <1>4, <1>6
  <2>2. /\ rest \in Seq(LogLine) /\ Len(rest) = Len(all) - k + 1 /\ rest # <<>>
        /\ rest[1] = all[k] /\ rest[Len(rest)] = all[Len(all)]
    <3>1. all \in Seq(LogLine)
      BY <1>3
    <3> QED
      <4>1. From(all, k, rest)
        BY ONLY <2>1, <3>1, RestOf
      <4> QED
        BY ONLY <4>1 DEF From
  <2> QED
    BY <2>1, <2>2
<1>8. Chained(source, log, rest)
  BY <1>2, <1>4, <1>6, ChainRest
<1>9. all[m] = lines[b] /\ (n > 0 => all[1] = text[1]) /\ (n = 0 => all[1] = lines[1])
  BY <1>3, <1>4
<1>10. Len(rest) <= MaxTextLines
  BY <1>4, <1>5, <1>7
<1>11. rest[Len(rest)] = lines[Len(lines)]
  BY <1>4, <1>7, <1>9
<1>12. ~(Len(all) > MaxTextLines) => rest[1] = IF text = <<>> THEN lines[1] ELSE text[1]
  <2> SUFFICES ASSUME ~(Len(all) > MaxTextLines)
               PROVE  rest[1] = IF text = <<>> THEN lines[1] ELSE text[1]
    OBVIOUS
  <2>1. m <= most
    BY <1>4
  <2>2. rest[1] = all[1]
    BY <1>5, <1>7, <2>1
  <2>3. CASE text = <<>>
    BY <1>4, <1>9, <2>2, <2>3
  <2>4. CASE text # <<>>
    <3>1. n > 0
      BY <1>4, <2>4
    <3> QED
      BY <1>9, <2>2, <2>4, <3>1
  <2> QED
    BY <2>3, <2>4
<1> QED
  BY <1>7, <1>8, <1>10, <1>11, <1>12 DEF PutAfter

(* The lines that come are put to the text.                                 *)
LEMMA LinesAreRead ==
  ASSUME TextInv, NEW m \in sent, m.kind = "lines", m.asked = ask, m.stream = reader.stream,
         reader' = Added([reader EXCEPT
               !.before = IF @ = NoMark THEN m.start ELSE @,
               !.more = IF reader.before = NoMark THEN ~AtStart(m.start) ELSE @], m.lines),
         Swapped(m, [kind |-> "wait", asked |-> ask, stream |-> m.stream]),
         UNCHANGED <<logs, dead, tails, onTop, ask, switches, logFaults>>
  PROVE  TextInv'
<1>1. /\ LogsTyped /\ TailsOK /\ Tokens /\ Openers /\ Parts /\ Page /\ Given /\ OldHaveNoTime
  BY DEF TextInv
<1>2. PICK new : /\ new = [kind |-> "wait", asked |-> ask, stream |-> m.stream]
                 /\ sent' = (sent \ {m}) \cup {new}
  BY DEF Swapped
<1>3. new.kind = "wait" /\ new.asked = ask /\ new.stream = m.stream
  BY ONLY <1>2
<1>4. m.stream \in 1 .. MaxStreams /\ reader.stream # 0
  BY <1>1 DEF Tokens, Brings
<1> DEFINE st == tails[reader.stream]
           log == logs[reader.source]
           text == reader.lines
<1>5. /\ st.ctx = "live" /\ st.source = reader.source /\ reader.source \in Sources
      /\ TailOK(log, st) /\ log \in Seq(BOOLEAN)
  BY <1>4, ReadIsLive
<1>6. /\ Chained(reader.source, log, m.lines) /\ m.lines # <<>> /\ m.start = st.start
      /\ Joins(log, st, m.lines[Len(m.lines)].to)
      /\ IF text = <<>> THEN m.lines[1].from = PlaceOf(st.start)
         ELSE Follows(log, text[Len(text)].to, m.lines[1].from)
  BY <1>1 DEF Given
<1>7. m.start # NoMark /\ MarkIn(reader.source, log, m.start)
  <2>1. st.start # NoMark
    BY <1>6 DEF Joins
  <2>2. Len(log) \in Nat
    BY <1>5
  <2> QED
    BY <1>5, <1>6, <2>1, <2>2, StartIsIn
<1>8. /\ reader \in ReaderShape
      /\ Chained(reader.source, log, text) /\ Len(text) <= MaxTextLines
      /\ (reader.before = NoMark) <=> (text = <<>>)
      /\ reader.before # NoMark => MarkIn(reader.source, log, reader.before)
      /\ text # <<>> /\ ~reader.dropped => PlaceOf(reader.before) = text[1].from
  BY <1>1 DEF Page
<1>9. PICK all, rest : /\ all = text \o m.lines
                       /\ rest = SubSeq(all, Max({1, Len(all) - MaxTextLines + 1}), Len(all))
  OBVIOUS
<1>10. /\ Chained(reader.source, log, rest) /\ rest # <<>> /\ Len(rest) <= MaxTextLines
       /\ rest[Len(rest)] = m.lines[Len(m.lines)]
       /\ ~(Len(all) > MaxTextLines) => rest[1] = IF text = <<>> THEN m.lines[1] ELSE text[1]
  <2>1. /\ Chained(reader.source, log, text) /\ Chained(reader.source, log, m.lines) /\ m.lines # <<>>
        /\ text # <<>> => Follows(log, text[Len(text)].to, m.lines[1].from)
    BY <1>6, <1>8
  <2>2. PutAfter(reader.source, log, text, m.lines, rest, Len(all) > MaxTextLines)
    BY ONLY <1>9, <2>1, AddedIs
  <2> QED
    BY <2>2 DEF PutAfter
<1>11. PICK before, more : /\ before = IF reader.before = NoMark THEN m.start ELSE reader.before
                           /\ more = IF reader.before = NoMark THEN ~AtStart(m.start) ELSE reader.more
                           /\ reader' = Added([reader EXCEPT !.before = before, !.more = more], m.lines)
  <2>1. PICK before, more : /\ before = IF reader.before = NoMark THEN m.start ELSE reader.before
                            /\ more = IF reader.before = NoMark THEN ~AtStart(m.start) ELSE reader.more
    OBVIOUS
  <2>2. [reader EXCEPT
               !.before = IF @ = NoMark THEN m.start ELSE @,
               !.more = IF reader.before = NoMark THEN ~AtStart(m.start) ELSE @] =
        [reader EXCEPT !.before = before, !.more = more]
    BY <1>8, <2>1 DEF ReaderShape
  <2> QED
    BY <2>1, <2>2
<1>12. PICK dropped \in BOOLEAN :
         /\ dropped = (reader.dropped \/ Len(all) > MaxTextLines)
         /\ reader' = [reader EXCEPT !.before = before, !.more = more, !.lines = rest, !.dropped = dropped]
  <2>1. PICK page : page = [reader EXCEPT !.before = before, !.more = more]
    OBVIOUS
  <2>2. reader' = [page EXCEPT !.lines = rest, !.dropped = page.dropped \/ Len(all) > MaxTextLines]
        /\ page.lines = text /\ page.dropped = reader.dropped
    <3>1. page.lines = text /\ page.dropped = reader.dropped
      BY ONLY <1>8, <2>1 DEF ReaderShape
    <3> QED
      BY <1>9, <1>11, <2>1, <3>1 DEF Added
  <2>3. PICK dropped \in BOOLEAN : dropped = (reader.dropped \/ Len(all) > MaxTextLines)
    OBVIOUS
  <2>4. reader' = [page EXCEPT !.lines = rest, !.dropped = dropped]
    BY <2>2, <2>3
  <2>5. reader' = [reader EXCEPT !.before = before, !.more = more, !.lines = rest, !.dropped = dropped]
    BY ONLY <1>8, <2>1, <2>4 DEF ReaderShape
  <2> QED
    BY <2>3, <2>5
<1>13. before # NoMark /\ MarkIn(reader.source, log, before) /\ before \in LogMark /\ more \in BOOLEAN
  <2>1. before # NoMark /\ MarkIn(reader.source, log, before)
    BY <1>7, <1>8, <1>11
  <2>2. reader.more \in BOOLEAN
    BY <1>8 DEF ReaderShape
  <2> QED
    BY <1>11, <2>1, <2>2 DEF MarkIn, AtStart
<1>14. /\ reader' \in ReaderShape /\ reader'.source = reader.source /\ reader'.stream = reader.stream
       /\ reader'.lines = rest /\ reader'.before = before /\ reader'.dropped = dropped
  <2>1. rest \in Seq(LogLine)
    BY <1>10 DEF Chained
  <2> QED
    BY ONLY <1>8, <1>12, <1>13, <2>1, dropped \in BOOLEAN DEF ReaderShape
<1>15. ~dropped => PlaceOf(before) = rest[1].from
  <2> SUFFICES ASSUME ~dropped PROVE PlaceOf(before) = rest[1].from
    OBVIOUS
  <2>1. ~reader.dropped /\ rest[1] = IF text = <<>> THEN m.lines[1] ELSE text[1]
    BY <1>10, <1>12
  <2> QED
    BY <1>6, <1>8, <1>11, <2>1
<1>16. Page'
  BY <1>10, <1>13, <1>14, <1>15 DEF Page
<1>17. \A n \in sent' : n = new \/ (n \in sent /\ n # m)
  BY <1>2
<1>18. LogsTyped' /\ TailsOK'
  BY <1>1 DEF LogsTyped, TailsOK, Bytes
<1>19. Tokens'
  <2>1. Brings(m) /\ Brings(new) /\ new.kind # "stream"
    BY <1>3 DEF Brings
  <2>2. \A j \in 1 .. MaxStreams : TailIsAs(j)
    BY DEF TailIsAs
  <2> QED
    BY <1>1, <1>2, <1>3, <1>14, <2>1, <2>2, TokenMoves
<1>20. Openers'
  <2>1. ask \in Nat /\ ask <= ask
    BY <1>1 DEF LogsTyped
  <2>2. \A n \in sent' : n \in sent \/ (~Opening(n) /\ n.asked \in Nat /\ n.asked <= ask)
    BY <1>3, <1>17, <2>1 DEF Opening
  <2>3. \A n \in sent' : ~(Opening(n) /\ n.asked = ask /\ n.source = reader.source)
    <3> SUFFICES ASSUME NEW n \in sent', Opening(n), n.asked = ask, n.source = reader.source PROVE FALSE
      OBVIOUS
    <3>1. n \in sent
      BY <1>3, <1>17 DEF Opening
    <3>2. reader = NotRead(reader.source)
      BY <1>1, <3>1 DEF Openers
    <3> QED
      BY <1>4, <3>2 DEF NotRead
  <2> QED
    BY <1>1, <1>14, <2>2, <2>3, OpenersStay
<1>21. Parts'
  BY <1>1, <1>3, <1>17, PartsStay DEF Earlier
<1>22. \A n \in sent' : n.kind \in {"wait", "lines"} /\ n.stream = reader.stream => n = new
  <2>1. \A n \in sent : Brings(n) /\ n.stream = reader.stream => n = m
    <3>1. \A n, o \in sent : Brings(n) /\ Brings(o) /\ n.stream = o.stream => n = o
      BY <1>1 DEF Tokens
    <3>2. m \in sent /\ Brings(m) /\ m.stream = reader.stream
      BY <1>1 DEF Brings
    <3> QED
      BY ONLY <3>1, <3>2
  <2> QED
    BY <1>17, <2>1 DEF Brings
<1>23. Given'
  BY <1>3, <1>6, <1>10, <1>14, <1>22 DEF Given
<1>24. OldHaveNoTime'
  BY <1>1, <1>3, <1>17 DEF OldHaveNoTime
<1> QED
  BY <1>16, <1>18, <1>19, <1>20, <1>21, <1>23, <1>24 DEF TextInv

LEMMA TakeLinesText ==
  ASSUME TextInv, NEW m \in sent, TakeLines(m)
  PROVE  TextInv'
<1>1. m.kind = "lines" /\ UNCHANGED <<logs, dead, tails, onTop, ask, switches, logFaults>>
  BY DEF TakeLines
<1>2. CASE m.asked = ask /\ m.stream = reader.stream
  BY <1>1, <1>2, LinesAreRead DEF TakeLines
<1>3. CASE ~(m.asked = ask /\ m.stream = reader.stream)
  <2>1. sent' = sent \ {m} /\ UNCHANGED reader
    BY <1>3 DEF TakeLines, Dropped
  <2>2. Openers /\ Parts /\ Page
    BY DEF TextInv
  <2>3. Openers' /\ Parts' /\ Page'
    BY <1>1, <2>1, <2>2, OpenersStay, PartsStay DEF Page
  <2>4. LogsTyped' /\ TailsOK' /\ Tokens' /\ Given' /\ OldHaveNoTime'
    BY <1>1, <2>1, SentAside
  <2> QED
    BY <2>3, <2>4 DEF TextInv
<1> QED
  BY <1>2, <1>3

PutOn(a, b, both) ==
  /\ both \in Seq(LogLine) /\ Len(both) = Len(a) + Len(b) /\ both # <<>>
  /\ both[Len(both)] = b[Len(b)]
  /\ a = <<>> => both = b
  /\ a # <<>> => both[1] = a[1]

LEMMA PutBefore ==
  ASSUME NEW a \in Seq(LogLine), NEW b \in Seq(LogLine), b # <<>>, NEW both, both = a \o b
  PROVE  PutOn(a, b, both)
<1>1. /\ both \in Seq(LogLine) /\ Len(both) = Len(a) + Len(b)
      /\ \A i \in 1 .. Len(a) : both[i] = a[i]
      /\ \A i \in 1 .. Len(b) : both[Len(a) + i] = b[i]
      /\ a = <<>> => both = b
  BY BothOf
<1>2. PICK n \in Nat, k \in Nat : n = Len(a) /\ k = Len(b) /\ k > 0 /\ (a # <<>> => n > 0)
  OBVIOUS
<1>3. both[n + k] = b[k] /\ (n > 0 => both[1] = a[1])
  BY <1>1, <1>2
<1>4. both # <<>>
  BY <1>1, <1>2
<1> QED
  BY <1>1, <1>2, <1>3, <1>4 DEF PutOn

(* What was read back is put before the text.                               *)
LEMMA PartIsPut ==
  ASSUME TextInv, NEW m \in sent, m.kind = "part", m.asked = ask, Fits(m), sent' = sent \ {m},
         reader' = [reader EXCEPT !.asking = FALSE, !.lines = m.part.lines \o @,
                                  !.before = m.part.from, !.more = m.part.before > 0],
         UNCHANGED <<logs, dead, tails, onTop, ask, switches, logFaults>>
  PROVE  TextInv'
<1>1. /\ LogsTyped /\ TailsOK /\ Tokens /\ Openers /\ Parts /\ Page /\ Given /\ OldHaveNoTime
  BY DEF TextInv
<1> DEFINE log == logs[reader.source]
           text == reader.lines
           part == m.part
<1>2. /\ ~m.failed /\ m.at = reader.before /\ ~reader.dropped /\ Len(text) + Len(part.lines) <= MaxTextLines
  BY DEF Fits
<1>3. EarlierOK(m)
  BY <1>1 DEF Parts, Earlier
<1>4. /\ MarkIn(m.at.source, logs[m.at.source], m.at) /\ PartOK(logs[m.at.source], m.at, part)
  BY <1>2, <1>3 DEF EarlierOK
<1>5. reader.before # NoMark
  <2>1. m.at \in LogMark
    BY <1>4 DEF MarkIn
  <2> QED
    BY <1>2, <2>1, MarkNat
<1>6. /\ reader \in ReaderShape
      /\ Chained(reader.source, log, text) /\ text # <<>>
      /\ MarkIn(reader.source, log, reader.before) /\ PlaceOf(reader.before) = text[1].from
  BY <1>1, <1>2, <1>5 DEF Page
<1>7. m.at.source = reader.source
  BY <1>2, <1>6 DEF MarkIn
<1>8. /\ Chained(reader.source, log, part.lines)
      /\ part.lines = <<>> => part.from = reader.before
      /\ part.lines # <<>> => /\ MarkIn(reader.source, log, part.from) /\ part.lines[1].from = PlaceOf(part.from)
                              /\ Follows(log, part.lines[Len(part.lines)].to, text[1].from)
  <2>1. PartOK(log, reader.before, part)
    BY <1>2, <1>4, <1>7
  <2> QED
    BY <1>2, <1>6, <1>7, <2>1 DEF PartOK
<1>9. PICK both : both = part.lines \o text
  OBVIOUS
<1>10. Chained(reader.source, log, both)
  BY <1>6, <1>8, <1>9, ChainBoth
<1>11. /\ part.lines \in Seq(LogLine) /\ text \in Seq(LogLine)
  BY <1>6, <1>8 DEF Chained
<1>12. /\ both \in Seq(LogLine) /\ Len(both) = Len(part.lines) + Len(text) /\ both # <<>>
       /\ both[Len(both)] = text[Len(text)]
       /\ part.lines = <<>> => both = text
       /\ part.lines # <<>> => both[1] = part.lines[1]
  <2>1. PutOn(part.lines, text, both)
    BY <1>6, <1>9, <1>11, PutBefore
  <2> QED
    BY <2>1 DEF PutOn
<1>13. Len(both) <= MaxTextLines
  <2>1. PICK n \in Nat, k \in Nat, most \in Nat : n = Len(part.lines) /\ k = Len(text) /\ most = MaxTextLines
    <3>1. Len(part.lines) \in Nat /\ Len(text) \in Nat /\ MaxTextLines \in Nat
      BY <1>11, SizesAre
    <3> QED
      BY ONLY <3>1
  <2>2. k + n <= most => n + k <= most
    OBVIOUS
  <2> QED
    BY <1>2, <1>12, <2>1, <2>2
<1>14. MarkIn(reader.source, log, part.from) /\ part.from \in LogMark /\ part.from # NoMark
       /\ both[1].from = PlaceOf(part.from)
  <2>1. MarkIn(reader.source, log, part.from)
    BY <1>6, <1>8
  <2>2. part.from \in LogMark
    BY <2>1 DEF MarkIn
  <2>3. both[1].from = PlaceOf(part.from)
    BY <1>6, <1>8, <1>12
  <2> QED
    BY <2>1, <2>2, <2>3, MarkNat
<1>15. PICK more, from : /\ more = (part.before > 0) /\ from = part.from
         /\ reader' = [reader EXCEPT !.asking = FALSE, !.lines = both, !.before = from, !.more = more]
  <2>1. PICK more : more = (part.before > 0)
    OBVIOUS
  <2>2. reader' = [reader EXCEPT !.asking = FALSE, !.lines = both, !.before = part.from, !.more = more]
    BY <1>6, <1>9, <2>1 DEF ReaderShape
  <2> QED
    BY <2>1, <2>2
<1>16. from \in LogMark /\ more \in BOOLEAN
  <2>1. more \in BOOLEAN
    <3>1. (part.before > 0) \in BOOLEAN
      OBVIOUS
    <3> QED
      BY <1>15, <3>1
  <2> QED
    BY <1>14, <1>15, <2>1
<1>17. /\ reader' \in ReaderShape /\ reader'.source = reader.source /\ reader'.stream = reader.stream
       /\ reader'.lines = both /\ reader'.before = from /\ reader'.dropped = reader.dropped
  BY ONLY <1>6, <1>12, <1>15, <1>16 DEF ReaderShape
<1>18. Page'
  BY <1>10, <1>12, <1>13, <1>14, <1>15, <1>17 DEF Page
<1>19. LogsTyped' /\ TailsOK' /\ OldHaveNoTime'
  BY <1>1 DEF LogsTyped, TailsOK, OldHaveNoTime, Bytes
<1>20. Tokens'
  BY <1>1, <1>17 DEF Tokens, Brings
<1>21. Openers'
  <2>1. \A n \in sent' : ~(Opening(n) /\ n.asked = ask /\ n.source = reader.source)
    <3> SUFFICES ASSUME NEW n \in sent', Opening(n), n.asked = ask, n.source = reader.source PROVE FALSE
      OBVIOUS
    <3>1. reader = NotRead(reader.source)
      BY <1>1 DEF Openers
    <3> QED
      BY <1>5, <3>1 DEF NotRead
  <2> QED
    BY <1>1, <1>17, <2>1, OpenersStay
<1>22. Parts'
  BY <1>1, PartsStay
<1>23. Given'
  BY Zenon, <1>1, <1>6, <1>12, <1>17 DEF Given
<1> QED
  BY <1>18, <1>19, <1>20, <1>21, <1>22, <1>23 DEF TextInv

LEMMA TakePartText ==
  ASSUME TextInv, NEW m \in sent, TakePart(m)
  PROVE  TextInv'
<1>1. m.kind = "part" /\ sent' = sent \ {m} /\ UNCHANGED <<logs, dead, tails, onTop, ask, switches, logFaults>>
  BY DEF TakePart, Dropped
<1>2. CASE m.asked = ask /\ Fits(m)
  BY <1>1, <1>2, PartIsPut DEF TakePart
<1>3. CASE ~(m.asked = ask /\ Fits(m))
  <2>1. Openers /\ Parts /\ Page
    BY DEF TextInv
  <2>2. reader' = reader \/ reader' = [reader EXCEPT !.asking = FALSE]
    BY <1>3 DEF TakePart
  <2>3. reader \in ReaderShape
    BY <2>1 DEF Page
  <2>4. /\ reader' \in ReaderShape /\ reader'.source = reader.source /\ reader'.stream = reader.stream
        /\ reader'.lines = reader.lines /\ reader'.before = reader.before /\ reader'.more = reader.more
        /\ reader'.dropped = reader.dropped /\ (~reader.asking => reader' = reader)
    BY <2>2, <2>3 DEF ReaderShape
  <2>5. \A n \in sent' : Opening(n) /\ n.asked = ask /\ n.source = reader.source => reader' = reader
    <3> SUFFICES ASSUME NEW n \in sent', Opening(n), n.asked = ask, n.source = reader.source
                 PROVE  reader' = reader
      OBVIOUS
    <3>1. reader = NotRead(reader.source)
      BY <1>1, <2>1 DEF Openers
    <3>2. ~reader.asking
      BY <3>1 DEF NotRead
    <3> QED
      BY <2>4, <3>2
  <2>6. Openers'
    BY <1>1, <2>1, <2>4, <2>5, OpenersStay
  <2>7. Parts' /\ Page'
    BY <1>1, <2>1, <2>4, PartsStay, PageStays
  <2>8. LogsTyped' /\ TailsOK' /\ Tokens' /\ Given' /\ OldHaveNoTime'
    BY <1>1, <2>4, SentAside
  <2> QED
    BY <2>6, <2>7, <2>8 DEF TextInv
<1> QED
  BY <1>2, <1>3

LEMMA TextFirst == TaskLogInit => TextInv
<1> SUFFICES ASSUME TaskLogInit PROVE TextInv
  OBVIOUS
<1>1. /\ logs \in Written /\ dead = FALSE /\ tails = [i \in 1 .. MaxStreams |-> NoTail]
      /\ ask = 1 /\ switches = 0
  BY DEF TaskLogInit
<1>2. PICK s \in Sources : reader = NotRead(s)
  BY DEF TaskLogInit
<1>3. PICK new : sent = {new} /\ new = [kind |-> "info", asked |-> 1, source |-> reader.source]
  BY DEF TaskLogInit
<1>4. new.kind = "info" /\ new.asked = 1 /\ new.source = reader.source
  BY ONLY <1>3
<1>5. /\ reader.source = s /\ reader.stream = 0 /\ reader.before = NoMark /\ reader.more = FALSE
      /\ reader.lines = <<>>
  BY <1>2 DEF NotRead
<1>6. LogsTyped
  <2>1. logs \in [Sources -> Seq(BOOLEAN)]
    BY <1>1, TaskLogAssumption
  <2>2. \A o \in Sources : Len(logs[o]) <= MaxBytes[o]
    BY <1>1, TaskLogAssumption
  <2> QED
    BY <1>1, <2>1, <2>2 DEF LogsTyped, Bytes
<1>7. \A i \in 1 .. MaxStreams : tails[i] = NoTail /\ tails[i].ctx = "none"
  BY <1>1 DEF NoTail
<1>8. TailsOK
  BY <1>7 DEF TailsOK
<1>9. Tokens
  BY <1>3, <1>4, <1>5, <1>7 DEF Tokens, Brings
<1>10. Openers
  BY <1>1, <1>2, <1>3, <1>4, <1>5 DEF Openers, Opening, EndRead
<1>11. Parts
  BY <1>3, <1>4 DEF Parts, Earlier
<1>12. Page
  <2>1. <<>> \in Seq(LogLine) /\ 0 \in Nat /\ Len(<<>>) <= MaxTextLines
    BY SizesAre
  <2>2. reader \in ReaderShape
    BY <1>2, <2>1 DEF NotRead, ReaderShape
  <2>3. Chained(reader.source, logs[reader.source], <<>>)
    BY DEF Chained
  <2> QED
    BY <1>5, <2>1, <2>2, <2>3 DEF Page
<1>13. Given /\ OldHaveNoTime
  BY <1>3, <1>4 DEF Given, OldHaveNoTime
<1> QED
  BY <1>6, <1>8, <1>9, <1>10, <1>11, <1>12, <1>13 DEF TextInv

LEMMA TextIsWritten == TextInv => LogAsWritten
<1> SUFFICES ASSUME TextInv PROVE LogAsWritten
  OBVIOUS
<1> DEFINE log == logs[reader.source]
           text == reader.lines
<1>1. LogsTyped /\ Page /\ OldHaveNoTime
  BY DEF TextInv
<1>2. reader.source \in Sources /\ log \in Seq(BOOLEAN)
  BY <1>1 DEF Page, ReaderShape, LogsTyped
<1>3. text \in Seq(LogLine) /\ Chained(reader.source, log, text)
  BY <1>1 DEF Page, Chained
<1>4. ASSUME NEW i \in 1 .. Len(text)
      PROVE  text[i] \in LogLine /\ text[i].source = reader.source /\ LineOf(log, text[i])
  BY <1>3 DEF Chained
<1>5. ASSUME NEW i \in 1 .. Len(text)
      PROVE  Breaks(reader.source, text[i]) = {}
  <2>1. PICK from \in Nat, to \in Nat, n \in Nat : from = text[i].from /\ to = text[i].to /\ n = Len(log)
    BY <1>2, <1>4 DEF LogLine
  <2>2. to <= n /\ \A p \in from .. to - 1 : ~BreakAt(log, p)
    BY <1>4, <2>1 DEF LineOf
  <2>3. \A p \in from .. to - 1 : ~log[p + 1]
    <3> SUFFICES ASSUME NEW p \in from .. to - 1 PROVE ~log[p + 1]
      OBVIOUS
    <3>1. p < n
      BY <2>2
    <3> QED
      BY <2>1, <2>2, <3>1 DEF BreakAt
  <2> QED
    BY <2>1, <2>3 DEF Breaks
<1>6. ASSUME NEW i \in 1 .. Len(text) - 1
      PROVE  text[i + 1].from = IF log[text[i].to + 1] THEN text[i].to + 1 ELSE text[i].to
  <2>1. Follows(log, text[i].to, text[i + 1].from)
    BY <1>3 DEF Chained
  <2> QED
    BY <2>1 DEF Follows, BreakAt
<1>7. TextIsTheLog
  <2>1. DOMAIN text = 1 .. Len(text) /\ Len(text) \in Nat
    BY <1>3
  <2>2. \A i \in DOMAIN text : text[i].source = reader.source /\ Breaks(text[i].source, text[i]) = {}
    BY <1>4, <1>5, <2>1
  <2>3. \A i \in 1 .. Len(text) - 1 :
          text[i + 1].from = IF logs[text[i].source][text[i].to + 1] THEN text[i].to + 1 ELSE text[i].to
    BY <1>4, <1>6, <2>1
  <2>4. ~reader.dropped /\ text # <<>> => PlaceOf(reader.before) = text[1].from
    BY <1>1 DEF Page
  <2> QED
    BY <2>2, <2>3, <2>4 DEF TextIsTheLog
<1> QED
  BY <1>1, <1>7 DEF LogAsWritten

LEMMA TextStep == TextInv /\ TailsInv /\ [TaskLogNext /\ NotSwitchedBack]_taskLogVars => TextInv'
<1> SUFFICES ASSUME TextInv, TailsInv, [TaskLogNext /\ NotSwitchedBack]_taskLogVars PROVE TextInv'
  OBVIOUS
<1>1. CASE UNCHANGED taskLogVars
  <2>1. UNCHANGED <<logs, dead, tails, reader, onTop, ask, sent, switches, logFaults>>
    BY <1>1 DEF taskLogVars
  <2>2. LogsTyped' /\ TailsOK'
    BY Zenon, <2>1 DEF TextInv, LogsTyped, TailsOK, Bytes
  <2>3. Tokens' /\ Openers'
    <3>1. UNCHANGED <<logs, dead, tails, reader, ask, sent, switches>>
      BY <2>1
    <3>2. Tokens'
      BY <3>1 DEF TextInv, Tokens, Brings
    <3>3. Openers'
      <4>1. \A m \in sent : EndRead(m)'
        BY <3>1 DEF TextInv, Openers, EndRead, Bytes
      <4> QED
        BY <3>1, <4>1 DEF TextInv, Openers, Opening
    <3> QED
      BY <3>2, <3>3
  <2>4. Parts'
    BY Zenon, <2>1 DEF TextInv, Parts, EarlierOK, EndRead
  <2>5. Page' /\ Given' /\ OldHaveNoTime'
    BY Zenon, <2>1 DEF TextInv, Page, Given, OldHaveNoTime, Brings, Opening
  <2> QED
    BY <2>2, <2>3, <2>4, <2>5 DEF TextInv
<1>2. CASE \E source \in Sources, break \in BOOLEAN : Write(source, break)
  BY <1>2, WriteKeeps
<1>3. CASE Dies
  BY <1>3, DiesKeeps
<1>4. CASE \E i \in 1 .. MaxStreams : FrameComes(i) \/ FramesEnd(i) \/ Quits(i)
  BY <1>4, FrameComesKeeps, FramesEndKeeps, QuitsKeeps
<1>5. CASE \E m \in sent : Answers(m) \/ Arrives(m) \/ LogEndUnread(m) \/ LogFails(m)
  <2> SUFFICES ASSUME NEW m \in sent, Answers(m) \/ Arrives(m) \/ LogEndUnread(m) \/ LogFails(m)
               PROVE  TextInv'
    BY <1>5
  <2>1. CASE Answers(m)
    BY <2>1, ReadLogEndKeeps, OpenLogText, ListFilesKeeps, ReadFilesKeeps DEF Answers
  <2>2. CASE ChunkComes(m)
    <3>1. IsTail(tails[m.stream])
      BY <2>2 DEF ChunkComes, TailsInv
    <3> QED
      BY <2>2, <3>1, ChunkComesText
  <2>3. CASE Arrives(m) /\ ~ChunkComes(m)
    BY <2>3, EndComesText, TakeStreamText, TakeLinesText, TakeEndText, TakePartText DEF Arrives
  <2>4. CASE LogEndUnread(m) \/ LogFails(m)
    BY <2>4, LogEndUnreadKeeps, LogFailsKeeps
  <2> QED
    BY <2>1, <2>2, <2>3, <2>4
<1>6. CASE (\E source \in Sources : SwitchSource(source)) /\ NotSwitchedBack
  BY <1>6, SwitchSourceText
<1>7. CASE LeaveLog \/ ReturnToLog
  BY <1>7, LeaveLogText, ReturnToLogText
<1>8. CASE ReadEarlier
  BY <1>8, ReadEarlierKeeps
<1> QED
  BY <1>1, <1>2, <1>3, <1>4, <1>5, <1>6, <1>7, <1>8 DEF TaskLogNext

(* The text of a log is the log, line after line and byte by byte, each     *)
(* line with the time that is its own, whatever is written, read back, sent *)
(* late, left or opened again, and whether or not the end of the log could  *)
(* be read: but for a person who switches away from a source and back to it *)
(* before its stream is there, of whom it is false (keep, release).         *)
THEOREM TextStays == TaskLogInit /\ [][TaskLogNext /\ NotSwitchedBack]_taskLogVars => []LogAsWritten
<1>1. [TaskLogNext /\ NotSwitchedBack]_taskLogVars => [TaskLogNext]_taskLogVars
  OBVIOUS
<1> QED
  BY <1>1, TailsFirst, TailsStep, TextFirst, TextStep, TextIsWritten, PTL

-----------------------------------------------------------------------------
(* Counts: from a file to the cluster.                                      *)

EditState == [on : {TRUE}, fresh : BOOLEAN, file : Sizes, opened : Sizes \cup {Unopened}]
CountsRequest ==
  [of : {"plan", "submit"}, step : {"read", "send"}, state : EditState, at : Nat, count : Sizes]
PlanShown == [there : {TRUE}, state : EditState, index : Nat, refused : BOOLEAN]

CountsTypeOK ==
  /\ job \in [index : Nat, count : Sizes, source : Sizes, changes : Nat]
  /\ editing \in EditState \cup {NoEdit}
  /\ planShown \in PlanShown \cup {NoPlan}
  /\ requests \subseteq CountsRequest

(* Every index that is remembered is one the cluster has had.               *)
IndexesPast ==
  /\ job.index <= job.changes
  /\ planShown # NoPlan => planShown.index <= job.changes
  /\ \A r \in requests : r.at <= job.changes

(* A submit that keeps the count has the one the job runs with, as long as  *)
(* the job has the index of its plan.                                       *)
KeptIsTheCount ==
  \A r \in requests :
    /\ r.of = "submit" /\ r.step = "send" /\ r.state.opened = r.state.file
    /\ r.at = job.index /\ job.index # Gone
    => r.count = job.count

CountsInv == CountsTypeOK /\ IndexesPast /\ KeptIsTheCount

(* A change has a new index: no request that is out was planned at it.      *)
LEMMA ChangedKeeps ==
  ASSUME CountsInv, NEW count \in Sizes, NEW source \in Sizes, Changed(count, source),
         UNCHANGED requests,
         planShown' \in {planShown, NoPlan}, editing' \in {editing, NoEdit}
  PROVE  CountsInv'
<1>1. job' = [index |-> job.changes + 1, count |-> count, source |-> source,
              changes |-> job.changes + 1]
  BY DEF Changed
<1>2. CountsTypeOK'
  BY <1>1 DEF CountsInv, CountsTypeOK
<1>3. job.changes \in Nat /\ requests \subseteq CountsRequest
  BY DEF CountsInv, CountsTypeOK
<1>4. IndexesPast'
  <2>1. \A r \in requests : r.at \in Nat /\ r.at <= job.changes
    BY <1>3 DEF CountsInv, IndexesPast, CountsRequest
  <2>2. planShown' # NoPlan => planShown'.index <= job.changes + 1
    <3> SUFFICES ASSUME planShown' # NoPlan PROVE planShown'.index <= job.changes + 1
      OBVIOUS
    <3>1. planShown' = planShown /\ planShown \in PlanShown
      BY DEF CountsInv, CountsTypeOK
    <3>2. planShown.index \in Nat /\ planShown.index <= job.changes
      BY <3>1 DEF CountsInv, IndexesPast, PlanShown
    <3> QED
      BY <1>3, <3>1, <3>2
  <2> QED
    BY <1>1, <1>3, <2>1, <2>2 DEF IndexesPast
<1>5. KeptIsTheCount'
  <2>1. \A r \in requests : r.at # job.changes + 1
    BY <1>3 DEF CountsInv, IndexesPast, CountsRequest
  <2> QED
    BY <1>1, <2>1 DEF KeptIsTheCount
<1> QED
  BY <1>2, <1>4, <1>5 DEF CountsInv

(* Fewer requests, or a plan of the index there is, break nothing.          *)
LEMMA FewerRequestsKeep ==
  ASSUME CountsInv, requests' \subseteq requests, UNCHANGED job, editing' = editing,
         planShown' = planShown
           \/ (planShown' \in PlanShown /\ planShown'.index = job.index)
  PROVE  CountsInv'
<1>1. CountsTypeOK'
  BY DEF CountsInv, CountsTypeOK
<1>2. IndexesPast'
  BY DEF CountsInv, IndexesPast, CountsTypeOK
<1>3. KeptIsTheCount'
  BY DEF CountsInv, KeptIsTheCount
<1> QED
  BY <1>1, <1>2, <1>3 DEF CountsInv

(* A request that goes out has yet to read.                                 *)
LEMMA RequestKeeps ==
  ASSUME CountsInv, NEW of \in {"plan", "submit"}, NEW state \in EditState,
         NEW at \in Nat, at <= job.changes, Requests(Request(of, state, at))
  PROVE  CountsInv'
<1> DEFINE r == Request(of, state, at)
<1>1. r \in CountsRequest /\ r.step = "read" /\ r.at = at
  BY DEF Request, CountsRequest, EditState
<1>2. requests' = requests \cup {r} /\ UNCHANGED <<job, editing, planShown>>
  BY DEF Requests
<1> HIDE DEF r
<1>3. CountsTypeOK'
  BY <1>1, <1>2 DEF CountsInv, CountsTypeOK
<1>4. IndexesPast'
  BY <1>1, <1>2 DEF CountsInv, IndexesPast
<1>5. KeptIsTheCount'
  BY <1>1, <1>2 DEF CountsInv, KeptIsTheCount
<1> QED
  BY <1>3, <1>4, <1>5 DEF CountsInv

LEMMA CountsStep == CountsInv /\ [CountsNext]_countsVars => CountsInv'
<1> SUFFICES ASSUME CountsInv, [CountsNext]_countsVars PROVE CountsInv'
  OBVIOUS
<1>0. /\ job \in [index : Nat, count : Sizes, source : Sizes, changes : Nat]
      /\ requests \subseteq CountsRequest /\ job.index <= job.changes
  BY DEF CountsInv, CountsTypeOK, IndexesPast
<1>1. CASE ScaleJob
  <2>1. PICK n \in Sizes : Changed(n, job.source)
    BY <1>1 DEF ScaleJob
  <2>2. job.source \in Sizes /\ UNCHANGED <<editing, planShown, requests>>
    BY <1>0, <1>1 DEF ScaleJob, Others
  <2> QED
    BY <2>1, <2>2, ChangedKeeps
<1>2. CASE AnotherSubmits
  <2>1. PICK n \in Sizes : Changed(n, n)
    BY <1>2 DEF AnotherSubmits
  <2> QED
    BY <1>2, <2>1, ChangedKeeps DEF AnotherSubmits, Others
<1>3. CASE Purge
  <2>1. job' = [job EXCEPT !.index = Gone, !.changes = @ + 1] /\ UNCHANGED <<editing, planShown, requests>>
    BY <1>3 DEF Purge, Others
  <2>2. CountsTypeOK'
    <3>1. Gone \in Nat /\ job.changes + 1 \in Nat
      BY <1>0 DEF Gone
    <3>2. job' \in [index : Nat, count : Sizes, source : Sizes, changes : Nat]
      BY <1>0, <2>1, <3>1
    <3> QED
      BY <2>1, <3>2 DEF CountsInv, CountsTypeOK
  <2>3. job'.index = Gone /\ job'.changes = job.changes + 1
    BY <1>0, <2>1
  <2>4. \A r \in requests : r.at \in Nat /\ r.at <= job.changes + 1
    BY <1>0 DEF CountsInv, IndexesPast, CountsRequest
  <2>5. planShown # NoPlan => planShown.index <= job.changes + 1
    <3>1. planShown # NoPlan => planShown.index \in Nat
      BY DEF CountsInv, CountsTypeOK, PlanShown
    <3> QED
      BY <1>0, <3>1 DEF CountsInv, IndexesPast
  <2>6. IndexesPast'
    BY <1>0, <2>1, <2>3, <2>4, <2>5 DEF IndexesPast, Gone
  <2>7. KeptIsTheCount'
    BY <2>3 DEF KeptIsTheCount
  <2> QED
    BY <2>2, <2>6, <2>7 DEF CountsInv
<1>4. CASE OpenEditor
  <2>1. editing' \in EditState
    <3>1. PICK fresh \in BOOLEAN, n \in Sizes, was \in Sizes \cup {Unopened} :
            editing' = [on |-> TRUE, fresh |-> fresh, file |-> n, opened |-> was]
      BY <1>0, <1>4 DEF OpenEditor
    <3> QED
      BY <3>1 DEF EditState
  <2>2. UNCHANGED <<job, planShown, requests>>
    BY <1>4 DEF OpenEditor
  <2> QED
    BY <2>1, <2>2 DEF CountsInv, CountsTypeOK, IndexesPast, KeptIsTheCount
<1>5. CASE PlanJob
  <2>1. editing.on /\ Requests(Request("plan", editing, 0))
    BY <1>5 DEF PlanJob
  <2>2. editing \in EditState
    BY <2>1 DEF CountsInv, CountsTypeOK, NoEdit
  <2> QED
    BY <1>0, <2>1, <2>2, RequestKeeps
<1>6. planShown.there => /\ planShown \in PlanShown /\ planShown.state \in EditState
                         /\ planShown.index \in Nat /\ planShown.index <= job.changes
  <2> SUFFICES ASSUME planShown.there
               PROVE  /\ planShown \in PlanShown /\ planShown.state \in EditState
                      /\ planShown.index \in Nat /\ planShown.index <= job.changes
    OBVIOUS
  <2>1. planShown # NoPlan
    BY DEF NoPlan
  <2>2. planShown \in PlanShown
    BY <2>1 DEF CountsInv, CountsTypeOK
  <2> QED
    BY <2>1, <2>2 DEF CountsInv, IndexesPast, PlanShown
<1>7. CASE Replan
  BY <1>0, <1>6, <1>7, RequestKeeps DEF Replan
<1>8. CASE SubmitJob
  <2>1. SubmitIndex \in Nat /\ SubmitIndex <= job.changes
    BY <1>0, <1>6, <1>8 DEF SubmitJob, SubmitIndex
  <2> QED
    BY <1>6, <1>8, <2>1, RequestKeeps DEF SubmitJob
<1>9. CASE KeepCounts
  <2>1. PICK r \in requests :
          /\ r.step = "read"
          /\ requests' = (requests \ {r}) \cup {[r EXCEPT !.step = "send", !.count = Kept(r)]}
    BY <1>9 DEF KeepCounts
  <2> DEFINE planned == [r EXCEPT !.step = "send", !.count = Kept(r)]
  <2>2. UNCHANGED <<job, editing, planShown>>
    BY <1>9 DEF KeepCounts
  <2>3. r \in CountsRequest /\ Kept(r) \in Sizes
    BY <1>0 DEF Kept, CountsRequest, EditState
  <2>4. planned \in CountsRequest /\ planned.at = r.at /\ planned.state = r.state /\ planned.count = Kept(r)
    BY <2>3 DEF CountsRequest
  <2> HIDE DEF planned
  <2>5. requests' = (requests \ {r}) \cup {planned}
    BY <2>1 DEF planned
  <2>6. CountsTypeOK'
    BY <2>2, <2>4, <2>5 DEF CountsInv, CountsTypeOK
  <2>7. IndexesPast'
    BY <2>2, <2>4, <2>5 DEF CountsInv, IndexesPast
  <2>8. KeptIsTheCount'
    BY <2>2, <2>4, <2>5 DEF CountsInv, KeptIsTheCount, Kept
  <2> QED
    BY <2>6, <2>7, <2>8 DEF CountsInv
<1>10. CASE PlanAnswered
  <2>1. PICK r \in requests, failed \in BOOLEAN :
          /\ requests' = requests \ {r}
          /\ planShown' = [there |-> TRUE, state |-> r.state, index |-> job.index,
                           refused |-> failed \/ (r.state.fresh /\ job.index # Gone)]
    BY <1>10 DEF PlanAnswered
  <2>2. r.state \in EditState /\ r.state.fresh \in BOOLEAN
    BY <1>0 DEF CountsRequest, EditState
  <2>3. planShown' \in PlanShown /\ planShown'.index = job.index
    BY <1>0, <2>1, <2>2 DEF PlanShown
  <2> QED
    BY <1>10, <2>1, <2>3, FewerRequestsKeep DEF PlanAnswered
<1>11. CASE RegisterAnswered
  <2>1. PICK r \in requests :
          /\ requests' = requests \ {r}
          /\ IF Takes(r) THEN Changed(r.count, r.state.file) ELSE UNCHANGED job
          /\ IF Takes(r) THEN planShown' = NoPlan /\ editing' = NoEdit
                         ELSE UNCHANGED <<planShown, editing>>
    BY <1>11 DEF RegisterAnswered
  <2>2. r.count \in Sizes /\ r.state.file \in Sizes
    BY <1>0 DEF CountsRequest, EditState
  <2>3. CASE Takes(r)
    <3>1. job' = [index |-> job.changes + 1, count |-> r.count, source |-> r.state.file,
                  changes |-> job.changes + 1]
      BY <2>1, <2>3 DEF Changed
    <3>2. CountsTypeOK'
      BY <1>0, <2>1, <2>2, <2>3, <3>1 DEF CountsInv, CountsTypeOK
    <3>3. \A q \in requests : q.at \in Nat /\ q.at <= job.changes
      BY <1>0 DEF CountsInv, IndexesPast, CountsRequest
    <3>4. IndexesPast' /\ KeptIsTheCount'
      BY <1>0, <2>1, <2>3, <3>1, <3>3 DEF IndexesPast, KeptIsTheCount
    <3> QED
      BY <3>2, <3>4 DEF CountsInv
  <2>4. CASE ~Takes(r)
    BY <2>1, <2>4, FewerRequestsKeep
  <2> QED
    BY <2>3, <2>4
<1>12. CASE RequestFails
  BY <1>12, FewerRequestsKeep DEF RequestFails
<1>13. CASE MakesNamespace
  <2>1. UNCHANGED <<job, editing, planShown, requests>>
    BY <1>13 DEF MakesNamespace, LookUp, RegisterNamespace, AnotherMakesIt
  <2> QED
    BY <2>1, FewerRequestsKeep
<1>14. CASE UNCHANGED countsVars
  BY <1>14, FewerRequestsKeep DEF countsVars
<1> QED
  BY <1>1, <1>2, <1>3, <1>4, <1>5, <1>7, <1>8, <1>9, <1>10, <1>11, <1>12, <1>13, <1>14
     DEF CountsNext, CountsOfJob

LEMMA CountsFirst == CountsInit => CountsInv
<1> SUFFICES ASSUME CountsInit PROVE CountsInv
  OBVIOUS
<1>1. job.index = 1 /\ job.changes = 1 /\ requests = {} /\ planShown = NoPlan
  BY DEF CountsInit
<1>2. CountsTypeOK
  BY DEF CountsInit, CountsTypeOK
<1> QED
  BY <1>1, <1>2 DEF CountsInv, IndexesPast, KeptIsTheCount

(* Whoever scales the job and when, a submit that leaves the count alone    *)
(* leaves the one it runs with (keepCounts, RegisterOpts).                  *)
THEOREM ScalesStand == CountsInit /\ [][CountsNext]_countsVars => ScaleStands
<1> DEFINE Stands ==
      \A r \in requests \ requests' :
        r.of = "submit" /\ r.state.opened = r.state.file /\ job' # job /\ job.index # Gone
          => job'.count = job.count
<1>1. CountsInv /\ [CountsNext]_countsVars => Stands
  <2> SUFFICES ASSUME CountsInv, [CountsNext]_countsVars, NEW r \in requests \ requests',
                      r.of = "submit", r.state.opened = r.state.file, job' # job, job.index # Gone
               PROVE  job'.count = job.count
    OBVIOUS
  <2>1. RegisterAnswered
    BY DEF CountsNext, CountsOfJob, MakesNamespace, ScaleJob, AnotherSubmits, Purge, Others,
       OpenEditor, PlanJob, Replan, SubmitJob, Requests, KeepCounts, PlanAnswered, RequestFails,
       LookUp, RegisterNamespace, AnotherMakesIt, countsVars
  <2>2. r.step = "send" /\ Takes(r) /\ Changed(r.count, r.state.file)
    BY <2>1 DEF RegisterAnswered
  <2>3. job'.count = r.count
    BY <2>2 DEF Changed
  <2>4. r.at = job.index
    BY <2>2 DEF Takes
  <2> QED
    BY <2>2, <2>3, <2>4 DEF CountsInv, KeptIsTheCount
<1>2. ScaleStands <=> [][Stands]_countsVars
  BY PTL DEF ScaleStands
<1> HIDE DEF Stands
<1> QED
  BY CountsFirst, CountsStep, <1>1, <1>2, PTL

-----------------------------------------------------------------------------
(* Deploy: what the watch of a deploy says.                                 *)

EvalSeen == [index : Nat, status : {"none", "pending", "placed", "complete"}]
DeployRead ==
  [step : {"version", "eval", "deployment", "answer"}, version : Nat, index : Nat,
   eval : EvalSeen, deployment : Nat]

DeployTypeOK ==
  /\ cluster \in [type : {"service", "batch"}, index : Nat,
                  versions : Seq([index : Nat, deploys : BOOLEAN]),
                  evals : SUBSET EvalSeen, updates : Nat, deployed : SUBSET Nat]
  /\ watch \in [version : Nat, index : Nat, eval : EvalSeen, read : BOOLEAN, deployment : Nat]
  /\ reads \subseteq DeployRead

(* What a sequence holds at a place is one of what the sequence is of.      *)
LEMMA ItemIs ==
  ASSUME NEW S, NEW s \in Seq(S), NEW i \in DOMAIN s
  PROVE  s[i] \in S
OBVIOUS

(* The scheduler is through with a version: it has its deployment, makes    *)
(* none, or is not the newest any more.                                     *)
Settled(v) ==
  v \in cluster.deployed \/ ~cluster.versions[v].deploys \/ v < Len(cluster.versions)

(* It has no deployment, and gets none.                                     *)
Undeployed(v) == v \notin cluster.deployed /\ Settled(v)

(* Every version has its evaluation until it is settled, and an evaluation  *)
(* that was placed has settled every version there was.                     *)
ClusterInv ==
  /\ Len(cluster.versions) > 0
  /\ \A e \in cluster.evals : e.index <= cluster.index /\ e # NoEval
  /\ \A v \in DOMAIN cluster.versions : cluster.versions[v].index <= cluster.index
  /\ \A v \in cluster.deployed : v \in DOMAIN cluster.versions /\ cluster.versions[v].deploys
  /\ cluster.type = "batch" => \A v \in DOMAIN cluster.versions : ~cluster.versions[v].deploys
  /\ \A v \in DOMAIN cluster.versions :
       Settled(v) \/ \E e \in cluster.evals : e.index = cluster.versions[v].index
  /\ \A e \in cluster.evals : e.status \in {"placed", "complete"} =>
       \A v \in DOMAIN cluster.versions : cluster.versions[v].index <= e.index => Settled(v)

(* An evaluation that says its version is settled.                          *)
EvalSettles(e, index) == e = NoEval \/ (e.status = "complete" /\ e.index >= index)

IsVersion(v, index) == v \in DOMAIN cluster.versions /\ index = cluster.versions[v].index

ReadInv(r) ==
  /\ r.step # "version" => IsVersion(r.version, r.index)
  /\ r.step \in {"version", "eval"} => r.deployment = NoVersion
  /\ r.deployment \in {NoVersion, r.version}
  /\ r.step \in {"deployment", "answer"} /\ EvalSettles(r.eval, r.index) => Settled(r.version)
  /\ /\ r.step = "answer" /\ r.deployment = NoVersion
     /\ cluster.type = "batch" \/ EvalSettles(r.eval, r.index)
     => Undeployed(r.version)

WatchInv ==
  /\ watch.version # NoVersion => IsVersion(watch.version, watch.index)
  /\ watch.deployment \in {NoVersion, watch.version}
  /\ /\ watch.read /\ watch.deployment = NoVersion
     /\ cluster.type = "batch" \/ EvalSettles(watch.eval, watch.index)
     => watch.version \in DOMAIN cluster.versions /\ Undeployed(watch.version)

DeployInv == DeployTypeOK /\ ClusterInv /\ (\A r \in reads : ReadInv(r)) /\ WatchInv

ClusterMoves == Register \/ NodeUpdates \/ Schedules \/ Completes \/ Collects

(* What a step of the cluster leaves of a version: settled stays settled,   *)
(* and one that gets no deployment gets none.                               *)
LEMMA ClusterKeeps ==
  ASSUME DeployTypeOK, ClusterInv, ClusterMoves
  PROVE  /\ cluster'.type = cluster.type
         /\ \A v \in DOMAIN cluster.versions :
              /\ v \in DOMAIN cluster'.versions /\ cluster'.versions[v] = cluster.versions[v]
              /\ Settled(v) => Settled(v)'
              /\ Undeployed(v) => Undeployed(v)'
<1>0. /\ cluster.versions \in Seq([index : Nat, deploys : BOOLEAN]) /\ cluster.deployed \subseteq Nat
      /\ DOMAIN cluster.versions = 1 .. Len(cluster.versions) /\ Len(cluster.versions) \in Nat
  BY DEF DeployTypeOK
<1>1. CASE Register
  <2>1. PICK d \in BOOLEAN :
          /\ cluster'.type = cluster.type /\ cluster'.deployed = cluster.deployed
          /\ cluster'.versions = Append(cluster.versions, [index |-> cluster.index + 1, deploys |-> d])
    BY <1>1 DEF Register, DeployTypeOK
  <2>2. Len(cluster'.versions) = Len(cluster.versions) + 1
        /\ DOMAIN cluster'.versions = 1 .. Len(cluster.versions) + 1
        /\ \A v \in DOMAIN cluster.versions : cluster'.versions[v] = cluster.versions[v]
    BY <1>0, <2>1
  <2> QED
    BY <1>0, <2>1, <2>2 DEF Settled, Undeployed
<1>2. CASE NodeUpdates \/ Completes \/ Collects
  <2>1. /\ cluster'.type = cluster.type /\ cluster'.deployed = cluster.deployed
        /\ cluster'.versions = cluster.versions
    BY <1>2 DEF NodeUpdates, Completes, Collects, DeployTypeOK
  <2> QED
    BY <1>0, <2>1 DEF Settled, Undeployed
<1>3. CASE Schedules
  <2> DEFINE newest == Len(cluster.versions)
  <2>1. /\ cluster'.type = cluster.type /\ cluster'.versions = cluster.versions
        /\ cluster'.deployed = IF cluster.versions[newest].deploys THEN cluster.deployed \cup {newest}
                               ELSE cluster.deployed
    BY <1>3 DEF Schedules, DeployTypeOK
  <2> QED
    BY <1>0, <2>1 DEF Settled, Undeployed
<1> QED
  BY <1>1, <1>2, <1>3 DEF ClusterMoves

(* The newest evaluation is one there is, or there is none.                 *)
LEMMA NewestEvalIs ==
  ASSUME DeployTypeOK, ClusterInv
  PROVE  NewestEval \in EvalSeen /\ (NewestEval \in cluster.evals \/ cluster.evals = {})
<1>0. cluster.evals \subseteq EvalSeen /\ cluster.index \in Nat /\ NoEval \in EvalSeen
  BY DEF DeployTypeOK, EvalSeen, NoEval
<1>1. CASE cluster.evals = {}
  BY <1>0, <1>1 DEF NewestEval
<1>2. CASE cluster.evals # {}
  <2> DEFINE S == {e.index : e \in cluster.evals}
  <2>1. S \in SUBSET (0 .. cluster.index) /\ S # {}
    BY <1>0, <1>2 DEF ClusterInv, EvalSeen
  <2>2. Max(S) \in S /\ \A n \in S : n <= Max(S)
    BY <1>0, <2>1, MaxIs
  <2>3. PICK e \in cluster.evals : e.index = Max(S)
    BY <2>2
  <2>4. \A other \in cluster.evals : other.index \in S /\ other.index \in Nat /\ e.index \in Nat
    BY <1>0 DEF EvalSeen
  <2> HIDE DEF S
  <2>5. \A other \in cluster.evals : e.index >= other.index
    BY <2>2, <2>3, <2>4
  <2>6. NewestEval \in cluster.evals
    BY <1>2, <2>5 DEF NewestEval
  <2> QED
    BY <1>0, <2>6
<1> QED
  BY <1>1, <1>2

(* An evaluation changes its status: the others stay as they are.           *)
LEMMA StatusKeeps ==
  ASSUME NEW e \in cluster.evals, NEW status, cluster.evals \subseteq EvalSeen
  PROVE  /\ \A f \in StatusOf(e, status) :
              f \in cluster.evals \/ (f.index = e.index /\ f.status = status /\ f = [e EXCEPT !.status = status])
         /\ \A f \in cluster.evals : \E g \in StatusOf(e, status) : g.index = f.index
<1>1. [e EXCEPT !.status = status].index = e.index /\ [e EXCEPT !.status = status].status = status
  BY DEF EvalSeen
<1> QED
  BY <1>1 DEF StatusOf

LEMMA ClusterStep ==
  ASSUME DeployTypeOK, ClusterInv, ClusterMoves
  PROVE  cluster' \in [type : {"service", "batch"}, index : Nat,
                  versions : Seq([index : Nat, deploys : BOOLEAN]),
                  evals : SUBSET EvalSeen, updates : Nat, deployed : SUBSET Nat] /\ ClusterInv'
<1> DEFINE Clusters == [type : {"service", "batch"}, index : Nat,
                  versions : Seq([index : Nat, deploys : BOOLEAN]),
                  evals : SUBSET EvalSeen, updates : Nat, deployed : SUBSET Nat]
<1>0. /\ cluster \in Clusters /\ cluster.index \in Nat /\ cluster.updates \in Nat
      /\ cluster.versions \in Seq([index : Nat, deploys : BOOLEAN]) /\ cluster.deployed \subseteq Nat
      /\ DOMAIN cluster.versions = 1 .. Len(cluster.versions) /\ Len(cluster.versions) \in Nat
      /\ cluster.evals \subseteq EvalSeen
  BY DEF DeployTypeOK
<1>k. /\ cluster'.type = cluster.type
      /\ \A v \in DOMAIN cluster.versions :
           /\ v \in DOMAIN cluster'.versions /\ cluster'.versions[v] = cluster.versions[v]
           /\ Settled(v) => Settled(v)'
  BY ClusterKeeps
<1>v. \A v \in DOMAIN cluster.versions :
        cluster.versions[v].index \in Nat /\ cluster.versions[v].deploys \in BOOLEAN
  <2>1. \A v \in DOMAIN cluster.versions : cluster.versions[v] \in [index : Nat, deploys : BOOLEAN]
    <3> DEFINE Versions == [index : Nat, deploys : BOOLEAN]
    <3>1. cluster.versions \in Seq(Versions)
      BY <1>0
    <3> HIDE DEF Versions
    <3>2. \A v \in DOMAIN cluster.versions : cluster.versions[v] \in Versions
      BY <3>1, ItemIs
    <3> QED
      BY <3>2 DEF Versions
  <2> QED
    BY <2>1
<1>p. Pending(cluster.index + 1) \in EvalSeen /\ Pending(cluster.index + 1).index = cluster.index + 1
      /\ Pending(cluster.index + 1).status = "pending" /\ Pending(cluster.index + 1) # NoEval
  BY <1>0 DEF Pending, EvalSeen, NoEval
<1>1. CASE Register
  <2>1. PICK d \in BOOLEAN :
          /\ cluster' = [cluster EXCEPT !.index = @ + 1, !.evals = @ \cup {Pending(cluster.index + 1)},
                            !.versions = Append(@, [index |-> cluster.index + 1, deploys |-> d])]
          /\ cluster.type = "batch" => ~d
    BY <1>1 DEF Register
  <2>2. /\ cluster'.index = cluster.index + 1 /\ cluster'.deployed = cluster.deployed
        /\ cluster'.evals = cluster.evals \cup {Pending(cluster.index + 1)}
        /\ cluster'.versions = Append(cluster.versions, [index |-> cluster.index + 1, deploys |-> d])
    BY <1>0, <2>1
  <2>3. cluster'.versions \in Seq([index : Nat, deploys : BOOLEAN])
    BY <1>0, <2>2
  <2>4. cluster' \in Clusters
    <3>1. cluster.index + 1 \in Nat /\ cluster.evals \cup {Pending(cluster.index + 1)} \subseteq EvalSeen
          /\ Append(cluster.versions, [index |-> cluster.index + 1, deploys |-> d]) \in Seq([index : Nat, deploys : BOOLEAN])
      BY <1>0, <1>p, <2>2, <2>3
    <3> QED
      BY <1>0, <2>1, <3>1
  <2> DEFINE new == Len(cluster.versions) + 1
  <2>5. /\ Len(cluster'.versions) = new /\ DOMAIN cluster'.versions = 1 .. new
        /\ cluster'.versions[new] = [index |-> cluster.index + 1, deploys |-> d]
        /\ \A v \in DOMAIN cluster'.versions : v = new \/ v \in DOMAIN cluster.versions
    BY <1>0, <2>2
  <2>6. Len(cluster'.versions) > 0
    BY <1>0, <2>5
  <2>7. \A e \in cluster'.evals : e.index <= cluster'.index /\ e # NoEval
    BY <1>0, <1>p, <2>2 DEF ClusterInv, EvalSeen
  <2>8. \A v \in DOMAIN cluster'.versions : cluster'.versions[v].index <= cluster'.index
    BY <1>0, <1>k, <1>v, <2>2, <2>5 DEF ClusterInv
  <2>9. \A v \in cluster'.deployed : v \in DOMAIN cluster'.versions /\ cluster'.versions[v].deploys
    BY <1>k, <2>2 DEF ClusterInv
  <2>10. cluster'.type = "batch" => \A v \in DOMAIN cluster'.versions : ~cluster'.versions[v].deploys
    BY <1>k, <2>1, <2>5 DEF ClusterInv
  <2>11. \A v \in DOMAIN cluster.versions : Settled(v)'
    BY <1>0, <2>5 DEF Settled
  <2>12. \A v \in DOMAIN cluster'.versions :
           Settled(v)' \/ \E e \in cluster'.evals : e.index = cluster'.versions[v].index
    BY <1>p, <2>2, <2>5, <2>11
  <2>13. \A e \in cluster'.evals : e.status \in {"placed", "complete"} =>
           \A v \in DOMAIN cluster'.versions : cluster'.versions[v].index <= e.index => Settled(v)'
    <3> SUFFICES ASSUME NEW e \in cluster'.evals, e.status \in {"placed", "complete"},
                        NEW v \in DOMAIN cluster'.versions, cluster'.versions[v].index <= e.index
                 PROVE  Settled(v)'
      OBVIOUS
    <3>1. e \in cluster.evals
      BY <1>p, <2>2
    <3>2. e.index \in Nat /\ e.index <= cluster.index
      BY <1>0, <3>1 DEF ClusterInv, EvalSeen
    <3>3. v # new
      BY <1>0, <2>5, <3>2
    <3> QED
      BY <2>5, <2>11, <3>3
  <2> QED
    BY <2>4, <2>6, <2>7, <2>8, <2>9, <2>10, <2>12, <2>13 DEF ClusterInv
<1>2. CASE NodeUpdates
  <2>1. cluster' = [cluster EXCEPT !.index = @ + 1, !.updates = @ + 1,
                                !.evals = @ \cup {Pending(cluster.index + 1)}]
    BY <1>2 DEF NodeUpdates
  <2>2. /\ cluster'.index = cluster.index + 1 /\ cluster'.deployed = cluster.deployed
        /\ cluster'.evals = cluster.evals \cup {Pending(cluster.index + 1)}
        /\ cluster'.versions = cluster.versions
    BY <1>0, <2>1
  <2>3. cluster' \in Clusters
    <3>1. cluster.index + 1 \in Nat /\ cluster.updates + 1 \in Nat
          /\ cluster.evals \cup {Pending(cluster.index + 1)} \subseteq EvalSeen
      BY <1>0, <1>p
    <3> QED
      BY <1>0, <2>1, <3>1
  <2>4. \A e \in cluster'.evals : e.index <= cluster'.index /\ e # NoEval
    BY <1>0, <1>p, <2>2 DEF ClusterInv, EvalSeen
  <2>5. \A v \in DOMAIN cluster'.versions : cluster'.versions[v].index <= cluster'.index
    BY <1>0, <1>v, <2>2 DEF ClusterInv
  <2>6. \A v \in DOMAIN cluster'.versions :
           Settled(v)' \/ \E e \in cluster'.evals : e.index = cluster'.versions[v].index
    BY <1>k, <2>2 DEF ClusterInv
  <2>7. \A e \in cluster'.evals : e.status \in {"placed", "complete"} =>
           \A v \in DOMAIN cluster'.versions : cluster'.versions[v].index <= e.index => Settled(v)'
    BY <1>k, <1>p, <2>2 DEF ClusterInv
  <2> QED
    BY <1>k, <2>2, <2>3, <2>4, <2>5, <2>6, <2>7 DEF ClusterInv
<1>3. CASE Schedules
  <2> DEFINE newest == Len(cluster.versions)
             deployed == IF cluster.versions[newest].deploys THEN cluster.deployed \cup {newest}
                         ELSE cluster.deployed
  <2>1. PICK e \in cluster.evals :
          cluster' = [cluster EXCEPT !.evals = StatusOf(e, "placed"), !.deployed = deployed]
    BY <1>3 DEF Schedules
  <2>2. /\ cluster'.index = cluster.index /\ cluster'.deployed = deployed
        /\ cluster'.evals = StatusOf(e, "placed") /\ cluster'.versions = cluster.versions
    BY <1>0, <2>1
  <2>3. newest \in DOMAIN cluster.versions
    BY <1>0 DEF ClusterInv
  <2>4. [e EXCEPT !.status = "placed"] \in EvalSeen
    BY <1>0 DEF EvalSeen
  <2>5. cluster' \in Clusters
    <3>1. deployed \subseteq Nat /\ StatusOf(e, "placed") \subseteq EvalSeen
      BY <1>0, <2>3, <2>4 DEF StatusOf
    <3> HIDE DEF deployed
    <3> QED
      BY <1>0, <2>1, <3>1
  <2>6. \A v \in DOMAIN cluster.versions : Settled(v)'
    BY <1>0, <1>v, <2>2 DEF Settled
  <2>7. \A f \in cluster'.evals : f.index <= cluster'.index /\ f # NoEval
    BY <2>2, StatusKeeps, <1>0 DEF ClusterInv, NoEval
  <2>8. \A v \in cluster'.deployed : v \in DOMAIN cluster'.versions /\ cluster'.versions[v].deploys
    BY <2>2, <2>3 DEF ClusterInv
  <2> QED
    BY <1>k, <2>2, <2>5, <2>6, <2>7, <2>8 DEF ClusterInv
<1>4. CASE Completes
  <2>1. PICK e \in cluster.evals :
          e.status = "placed" /\ cluster' = [cluster EXCEPT !.evals = StatusOf(e, "complete")]
    BY <1>4 DEF Completes
  <2>2. /\ cluster'.index = cluster.index /\ cluster'.deployed = cluster.deployed
        /\ cluster'.evals = StatusOf(e, "complete") /\ cluster'.versions = cluster.versions
    BY <1>0, <2>1
  <2>3. [e EXCEPT !.status = "complete"] \in EvalSeen
    BY <1>0 DEF EvalSeen
  <2>4. cluster' \in Clusters
    <3>1. StatusOf(e, "complete") \subseteq EvalSeen
      BY <1>0, <2>3 DEF StatusOf
    <3> QED
      BY <1>0, <2>1, <3>1
  <2>5. \A f \in cluster'.evals : f.index <= cluster'.index /\ f # NoEval
    BY <2>2, StatusKeeps, <1>0 DEF ClusterInv, NoEval
  <2>6. \A v \in DOMAIN cluster'.versions :
           Settled(v)' \/ \E f \in cluster'.evals : f.index = cluster'.versions[v].index
    BY <1>0, <1>k, <2>2, StatusKeeps DEF ClusterInv
  <2>7. \A f \in cluster'.evals : f.status \in {"placed", "complete"} =>
           \A v \in DOMAIN cluster'.versions : cluster'.versions[v].index <= f.index => Settled(v)'
    BY <1>0, <1>k, <2>1, <2>2, StatusKeeps DEF ClusterInv
  <2> QED
    BY <1>k, <2>2, <2>4, <2>5, <2>6, <2>7 DEF ClusterInv
<1>5. CASE Collects
  <2>1. PICK e \in cluster.evals :
          e.status = "complete" /\ cluster' = [cluster EXCEPT !.evals = @ \ {e}]
    BY <1>5 DEF Collects
  <2>2. /\ cluster'.index = cluster.index /\ cluster'.deployed = cluster.deployed
        /\ cluster'.evals = cluster.evals \ {e} /\ cluster'.versions = cluster.versions
    BY <1>0, <2>1
  <2>3. cluster' \in Clusters
    BY <1>0, <2>1
  <2>4. \A v \in DOMAIN cluster'.versions :
           Settled(v)' \/ \E f \in cluster'.evals : f.index = cluster'.versions[v].index
    <3> SUFFICES ASSUME NEW v \in DOMAIN cluster.versions, ~Settled(v)
                 PROVE  \E f \in cluster'.evals : f.index = cluster'.versions[v].index
      BY <1>k, <2>2
    <3>1. PICK f \in cluster.evals : f.index = cluster.versions[v].index
      BY DEF ClusterInv
    <3>2. f # e
      BY <1>0, <1>v, <2>1, <3>1 DEF ClusterInv, EvalSeen
    <3> QED
      BY <2>2, <3>1, <3>2
  <2> QED
    BY <1>k, <2>2, <2>3, <2>4 DEF ClusterInv
<1> QED
  BY <1>1, <1>2, <1>3, <1>4, <1>5 DEF ClusterMoves

(* A step of the cluster leaves every read, and the page, as true as before.*)
LEMMA AtPageKeeps ==
  ASSUME DeployInv, ClusterMoves, AtPage
  PROVE  DeployInv'
<1>1. DeployTypeOK /\ ClusterInv
  BY DEF DeployInv
<1>2. ClusterInv' /\ DeployTypeOK'
  BY <1>1, ClusterStep DEF AtPage, DeployTypeOK
<1>3. /\ cluster'.type = cluster.type
      /\ \A v \in DOMAIN cluster.versions :
           /\ v \in DOMAIN cluster'.versions /\ cluster'.versions[v] = cluster.versions[v]
           /\ Settled(v) => Settled(v)'
           /\ Undeployed(v) => Undeployed(v)'
  BY <1>1, ClusterKeeps
<1>4. ASSUME NEW r \in reads PROVE ReadInv(r)'
  <2>1. ReadInv(r)
    BY DEF DeployInv
  <2>2. r.step \in {"version", "eval", "deployment", "answer"}
    BY <1>1 DEF DeployTypeOK, DeployRead
  <2>3. CASE r.step = "version"
    BY <2>1, <2>3 DEF ReadInv
  <2>4. CASE r.step # "version"
    <3>1. r.version \in DOMAIN cluster.versions
      BY <2>1, <2>4 DEF ReadInv, IsVersion
    <3> QED
      BY <1>3, <2>1, <3>1 DEF ReadInv, IsVersion, EvalSettles
  <2> QED
    BY <2>3, <2>4
<1>5. WatchInv'
  <2>1. watch' = watch /\ WatchInv
    BY DEF AtPage, DeployInv
  <2> QED
    BY <1>3, <2>1 DEF WatchInv, IsVersion, EvalSettles
<1> QED
  BY <1>2, <1>4, <1>5 DEF DeployInv, AtPage

(* A read that goes out, or on, is as the others are.                       *)
LEMMA ReadsKeep ==
  ASSUME DeployInv, UNCHANGED <<cluster, watch>>, reads' \subseteq DeployRead,
         \A r \in reads' : r \in reads \/ ReadInv(r)
  PROVE  DeployInv'
<1>1. DeployTypeOK' /\ ClusterInv' /\ WatchInv'
  BY DEF DeployInv, DeployTypeOK, ClusterInv, WatchInv, Settled, Undeployed, IsVersion
<1>2. ASSUME NEW r \in reads' PROVE ReadInv(r)'
  <2>1. ReadInv(r)
    BY DEF DeployInv
  <2> QED
    BY <2>1 DEF ReadInv, Settled, Undeployed, IsVersion
<1> QED
  BY <1>1, <1>2 DEF DeployInv

LEMMA DeployStep == DeployInv /\ [DeployNext]_deployVars => DeployInv'
<1> SUFFICES ASSUME DeployInv, [DeployNext]_deployVars PROVE DeployInv'
  OBVIOUS
<1>0. /\ DeployTypeOK /\ ClusterInv /\ WatchInv /\ reads \subseteq DeployRead
      /\ NoEval \in EvalSeen /\ NoVersion \in Nat /\ NoVersion = 0
      /\ DOMAIN cluster.versions = 1 .. Len(cluster.versions) /\ Len(cluster.versions) \in Nat
  BY DEF DeployInv, DeployTypeOK, EvalSeen, NoEval, NoVersion
<1>1. CASE ClusterMoves
  BY <1>1, AtPageKeeps DEF ClusterMoves, Register, NodeUpdates, Schedules, Completes, Collects
<1>2. CASE Fetch
  <2> DEFINE r == [step |-> IF watch.version = NoVersion THEN "version" ELSE After("version"),
                   version |-> watch.version, index |-> watch.index, eval |-> NoEval,
                   deployment |-> NoVersion]
  <2>1. UNCHANGED <<cluster, watch>> /\ reads' = reads \cup {r}
    BY <1>2 DEF Fetch
  <2>2. r \in DeployRead
    BY <1>0 DEF DeployTypeOK, DeployRead, After
  <2>3. ReadInv(r)
    BY <1>0 DEF ReadInv, WatchInv, After
  <2> HIDE DEF r
  <2> QED
    BY <1>0, <2>1, <2>2, <2>3, ReadsKeep
<1>3. ASSUME NEW r \in reads, Reads(r) PROVE DeployInv'
  <2>1. UNCHANGED <<cluster, watch>> /\ reads' = (reads \ {r}) \cup {Found(r)} /\ r.step # "answer"
    BY <1>3 DEF Reads
  <2>2. r \in DeployRead /\ ReadInv(r)
    BY <1>0 DEF DeployInv
  <2>3. CASE r.step = "version"
    <3> DEFINE newest == Len(cluster.versions)
    <3>1. newest \in DOMAIN cluster.versions /\ Last(cluster.versions) = cluster.versions[newest]
      BY <1>0 DEF ClusterInv, Last
    <3>2. cluster.versions[newest] \in [index : Nat, deploys : BOOLEAN]
      <4> DEFINE Versions == [index : Nat, deploys : BOOLEAN]
      <4>1. cluster.versions \in Seq(Versions)
        BY <1>0 DEF DeployTypeOK
      <4> HIDE DEF Versions
      <4>2. cluster.versions[newest] \in Versions
        BY <3>1, <4>1, ItemIs
      <4> QED
        BY <4>2 DEF Versions
    <3>3. Found(r) = [[r EXCEPT !.step = "eval"] EXCEPT !.version = newest,
                                                        !.index = cluster.versions[newest].index]
      BY <2>3, <3>1 DEF Found, After
    <3>4. /\ Found(r).step = "eval" /\ Found(r).version = newest
          /\ Found(r).index = cluster.versions[newest].index
          /\ Found(r).deployment = r.deployment /\ Found(r) \in DeployRead
      BY <1>0, <2>2, <3>2, <3>3 DEF DeployRead
    <3>5. ReadInv(Found(r))
      BY <2>2, <2>3, <3>1, <3>4 DEF ReadInv, IsVersion
    <3> QED
      BY <1>0, <2>1, <3>4, <3>5, ReadsKeep
  <2>4. CASE r.step = "eval"
    <3>1. Found(r) = [[r EXCEPT !.step = "deployment"] EXCEPT !.eval = NewestEval]
      BY <2>4 DEF Found, After
    <3>2. NewestEval \in EvalSeen /\ (NewestEval \in cluster.evals \/ cluster.evals = {})
      BY <1>0, NewestEvalIs
    <3>3. /\ Found(r).step = "deployment" /\ Found(r).version = r.version /\ Found(r).index = r.index
          /\ Found(r).eval = NewestEval /\ Found(r).deployment = r.deployment /\ Found(r) \in DeployRead
      BY <2>2, <3>1, <3>2 DEF DeployRead
    <3>4. IsVersion(r.version, r.index) /\ r.deployment = NoVersion
      BY <2>2, <2>4 DEF ReadInv
    <3>5. EvalSettles(NewestEval, r.index) => Settled(r.version)
      <4>1. CASE cluster.evals = {}
        BY <1>0, <3>4, <4>1 DEF ClusterInv, IsVersion
      <4>2. CASE NewestEval \in cluster.evals
        <5>1. NewestEval # NoEval
          BY <1>0, <4>2 DEF ClusterInv
        <5> SUFFICES ASSUME NewestEval.status = "complete", NewestEval.index >= r.index
                     PROVE  Settled(r.version)
          BY <5>1 DEF EvalSettles
        <5>2. r.index = cluster.versions[r.version].index /\ r.version \in DOMAIN cluster.versions
          BY <3>4 DEF IsVersion
        <5>3. r.index \in Nat /\ NewestEval.index \in Nat
          BY <2>2, <3>2 DEF DeployRead, EvalSeen
        <5> QED
          BY <1>0, <4>2, <5>2, <5>3 DEF ClusterInv
      <4> QED
        BY <3>2, <4>1, <4>2
    <3>6. ReadInv(Found(r))
      BY <3>3, <3>4, <3>5 DEF ReadInv
    <3> QED
      BY <1>0, <2>1, <3>3, <3>6, ReadsKeep
  <2>5. CASE r.step = "deployment"
    <3>1. Found(r) = [[r EXCEPT !.step = "answer"] EXCEPT !.deployment = DeploymentOf(r.version)]
      BY <2>5 DEF Found, After
    <3>2. DeploymentOf(r.version) \in Nat
      BY <1>0, <2>2 DEF DeploymentOf, DeployRead
    <3>3. /\ Found(r).step = "answer" /\ Found(r).version = r.version /\ Found(r).index = r.index
          /\ Found(r).eval = r.eval /\ Found(r).deployment = DeploymentOf(r.version)
          /\ Found(r) \in DeployRead
      BY <2>2, <3>1, <3>2 DEF DeployRead
    <3>4. /\ IsVersion(r.version, r.index)
          /\ EvalSettles(r.eval, r.index) => Settled(r.version)
      BY <2>2, <2>5 DEF ReadInv
    <3>5. cluster.type = "batch" => Settled(r.version)
      BY <1>0, <3>4 DEF ClusterInv, Settled, IsVersion
    <3>6. DeploymentOf(r.version) = NoVersion => r.version \notin cluster.deployed
      BY <1>0, <3>4 DEF DeploymentOf, IsVersion
    <3>7. ReadInv(Found(r))
      BY <3>3, <3>4, <3>5, <3>6 DEF ReadInv, Undeployed, DeploymentOf
    <3> QED
      BY <1>0, <2>1, <3>3, <3>7, ReadsKeep
  <2> QED
    BY <2>1, <2>2, <2>3, <2>4, <2>5 DEF DeployRead
<1>4. ASSUME NEW r \in reads, ReadFails(r) PROVE DeployInv'
  BY <1>0, <1>4, ReadsKeep DEF ReadFails
<1>5. ASSUME NEW r \in reads, TakeDeploy(r) PROVE DeployInv'
  <2>1. r.step = "answer" /\ reads' = reads \ {r} /\ cluster' = cluster
    BY <1>5 DEF TakeDeploy
  <2>2. r \in DeployRead /\ ReadInv(r)
    BY <1>0 DEF DeployInv
  <2>3. CASE ~Ours(r)
    BY <1>0, <1>5, <2>1, <2>3, ReadsKeep DEF TakeDeploy
  <2>4. CASE Ours(r)
    <3>1. watch' = [version |-> r.version, index |-> r.index, eval |-> r.eval, read |-> TRUE,
                    deployment |-> r.deployment]
      BY <1>5, <2>4 DEF TakeDeploy
    <3>2. DeployTypeOK'
      BY <1>0, <2>1, <2>2, <3>1 DEF DeployTypeOK, DeployRead
    <3>3. ClusterInv'
      BY <1>0, <2>1 DEF ClusterInv, Settled
    <3>4. WatchInv'
      BY <2>1, <2>2, <3>1 DEF ReadInv, WatchInv, IsVersion, Undeployed, Settled
    <3>5. \A q \in reads' : ReadInv(q)'
      BY <2>1 DEF DeployInv, ReadInv, Settled, Undeployed, IsVersion
    <3> QED
      BY <3>2, <3>3, <3>4, <3>5 DEF DeployInv
  <2> QED
    BY <2>3, <2>4
<1>6. CASE UNCHANGED deployVars
  BY <1>0, <1>6, ReadsKeep DEF deployVars
<1> QED
  BY <1>1, <1>2, <1>3, <1>4, <1>5, <1>6 DEF DeployNext, ClusterMoves

LEMMA DeployFirst == DeployInit => DeployInv
<1> SUFFICES ASSUME DeployInit PROVE DeployInv
  OBVIOUS
<1>1. PICK type \in {"service", "batch"}, deploys \in BOOLEAN :
        /\ type = "batch" => ~deploys
        /\ cluster = [type |-> type, index |-> 1, versions |-> <<[index |-> 1, deploys |-> deploys]>>,
                      evals |-> {[index |-> 1, status |-> "pending"]}, updates |-> 0, deployed |-> {}]
  BY DEF DeployInit
<1>2. /\ watch = [version |-> NoVersion, index |-> 0, eval |-> NoEval, read |-> FALSE,
                  deployment |-> NoVersion]
      /\ reads = {}
  BY DEF DeployInit
<1>3. /\ <<[index |-> 1, deploys |-> deploys]>> \in Seq([index : Nat, deploys : BOOLEAN])
      /\ [index |-> 1, status |-> "pending"] \in EvalSeen /\ NoEval \in EvalSeen
  BY DEF EvalSeen, NoEval
<1>4. DeployTypeOK
  BY <1>1, <1>2, <1>3 DEF DeployTypeOK, NoVersion
<1>5. /\ cluster.versions = <<[index |-> 1, deploys |-> deploys]>> /\ Len(cluster.versions) = 1
      /\ DOMAIN cluster.versions = {1} /\ cluster.versions[1] = [index |-> 1, deploys |-> deploys]
  BY <1>1
<1>6. ClusterInv
  <2>1. /\ cluster.index = 1 /\ cluster.type = type /\ cluster.deployed = {}
        /\ cluster.evals = {[index |-> 1, status |-> "pending"]}
    BY <1>1
  <2>2. \A v \in DOMAIN cluster.versions : v = 1 /\ cluster.versions[v].index = 1
                                           /\ cluster.versions[v].deploys = deploys
    BY <1>5
  <2>3. \A e \in cluster.evals : e.index = 1 /\ e.status = "pending" /\ e # NoEval
    BY <2>1 DEF NoEval
  <2>4. \E e \in cluster.evals : e.index = 1
    BY <2>1
  <2> QED
    BY <1>1, <1>5, <2>1, <2>2, <2>3, <2>4 DEF ClusterInv
<1>7. WatchInv
  BY <1>2 DEF WatchInv
<1> QED
  BY <1>2, <1>4, <1>6, <1>7 DEF DeployInv

LEMMA DeployInductive == DeployInit /\ [][DeployNext]_deployVars => []DeployInv
BY DeployFirst, DeployStep, PTL

(* Where the watch of a deploy says that its version gets no deployment, it *)
(* gets none: the evaluation is read before the deployment, and one that is *)
(* complete, or gone, has settled the version (readDeploy, standing).       *)
THEOREM NoDeploymentTrue == DeployInit /\ [][DeployNext]_deployVars => []NoDeploymentIsTrue
<1>1. DeployInv => NoDeploymentIsTrue
  <2> SUFFICES ASSUME DeployInv, SaysNoDeployment PROVE watch.version \notin cluster.deployed
    BY DEF NoDeploymentIsTrue
  <2>1. cluster.type = "batch" \/ EvalSettles(watch.eval, watch.index)
    BY DEF SaysNoDeployment, MakesNoDeployment, EvalSettles
  <2> QED
    BY <2>1 DEF DeployInv, WatchInv, SaysNoDeployment, Undeployed
<1> QED
  BY <1>1, DeployInductive, PTL

(* The page stays at the version it read first, and shows no deployment of  *)
(* another one (take).                                                      *)
THEOREM VersionStays == DeployInit /\ [][DeployNext]_deployVars => OneVersionThroughout
<1> DEFINE Stays == /\ watch.version # NoVersion => watch'.version = watch.version
                    /\ watch'.deployment \in {NoVersion, watch'.version}
<1>1. DeployInv /\ [DeployNext]_deployVars => Stays
  <2> SUFFICES ASSUME DeployInv, [DeployNext]_deployVars PROVE Stays
    OBVIOUS
  <2>1. CASE watch' = watch
    BY <2>1 DEF DeployInv, WatchInv
  <2>2. ASSUME NEW r \in reads, TakeDeploy(r), Ours(r) PROVE Stays
    <3>1. watch' = [version |-> r.version, index |-> r.index, eval |-> r.eval, read |-> TRUE,
                    deployment |-> r.deployment]
      BY <2>2 DEF TakeDeploy
    <3>2. r.deployment \in {NoVersion, r.version}
      BY DEF DeployInv, ReadInv
    <3> QED
      BY <2>2, <3>1, <3>2 DEF Ours
  <2>3. watch' = watch \/ \E r \in reads : TakeDeploy(r) /\ Ours(r)
    BY DEF DeployNext, Register, NodeUpdates, Schedules, Completes, Collects, AtPage, Fetch, Reads,
       ReadFails, TakeDeploy, deployVars
  <2> QED
    BY <2>1, <2>2, <2>3
<1>2. OneVersionThroughout <=> [][Stays]_deployVars
  BY PTL DEF OneVersionThroughout
<1> HIDE DEF Stays
<1> QED
  BY DeployInductive, <1>1, <1>2, PTL
=============================================================================
