------------------------------- MODULE TaskLog -------------------------------
(***************************************************************************)
(* The log of a task on the screen: the stream that follows it from its    *)
(* last part on (internal/nomad/logs.go), the reads that go back in it     *)
(* (internal/nomad/logback.go), and the page that puts both into one text  *)
(* (internal/ui/logs.go).                                                  *)
(*                                                                         *)
(* A log is its bytes, and a byte is its place.  The cluster keeps it in   *)
(* numbered files of one size and takes the oldest away.  What is read is  *)
(* a span of places, so a text that repeats a part of the log or leaves    *)
(* one out shows in the places of its lines.                               *)
(***************************************************************************)
EXTENDS Integers, SequencesExt

CONSTANTS
  Sources,       (* what a task writes to: stdout and stderr               *)
  FileSize,      (* a log is turned over into a new file at this size      *)
  KeptFiles,     (* how many files of a log the cluster keeps              *)
  LogTail,       (* logTail, and what one read of the cluster takes        *)
  LogStep,       (* logStep                                                *)
  MaxTextLines,  (* maxTextLines                                           *)
  Written,       (* what the logs may hold when the page is opened first   *)
  MaxBytes, MaxAsked, MaxStreams, MaxSwitches, MaxLogFaults   (* bounds    *)

(* A log is turned over later than at what one read takes of it, and a read *)
(* back is of more than a byte.                                             *)
ASSUME TaskLogAssumption ==
  /\ Sources # {} /\ IsFiniteSet(Sources) /\ "none" \notin Sources
  /\ {FileSize, KeptFiles, LogTail, LogStep, MaxTextLines} \subseteq Nat \ {0}
  /\ LogTail <= FileSize /\ LogStep > 1
  /\ Written \subseteq [Sources -> Seq(BOOLEAN)] /\ MaxBytes \in [Sources -> Nat]
  /\ \A text \in Written, s \in Sources : Len(text[s]) <= MaxBytes[s]
  /\ {MaxAsked, MaxStreams, MaxSwitches, MaxLogFaults} \subseteq Nat

VARIABLES
  logs,      (* what the task wrote to each source: TRUE is a line break   *)
  dead,      (* the task has stopped                                       *)
  tails,     (* the streams that were opened                               *)
  reader,    (* the page                                                   *)
  onTop,     (* the page is on top                                         *)
  ask,       (* Model.asked                                                *)
  sent,      (* the commands and messages of the page                      *)
  switches,  (* how often the page changed its source                      *)
  logFaults  (* how many faults the environment made                       *)

taskLogVars == <<logs, dead, tails, reader, onTop, ask, sent, switches, logFaults>>

(* LogMark: a place of a log by its file.                                  *)
NoMark == [source |-> "none", file |-> 0, offset |-> 0]
MarkOf(source, place) ==
  [source |-> source, file |-> place \div FileSize, offset |-> place % FileSize]
PlaceOf(mark) == mark.file * FileSize + mark.offset
AtStart(mark) == mark # NoMark /\ PlaceOf(mark) = 0

NoSpan == [from |-> 0, to |-> 0]
Size(span) == span.to - span.from
Joined(a, b) == IF Size(a) = 0 THEN b ELSE [a EXCEPT !.to = b.to]

Breaks(source, span) == {i \in span.from .. span.to - 1 : logs[source][i + 1]}

(* linesOf: the lines of a chunk, with and without (to) the break that     *)
(* ends them.  The break at the end of the chunk starts none.              *)
LinesOf(source, span) ==
  LET starts == {span.from} \cup {i + 1 : i \in Breaks(source, span) \ {span.to - 1}}
      LineAt(start) ==
        LET to == Min({span.to} \cup {i \in Breaks(source, span) : i >= start})
        IN  [source |-> source, from |-> start, to |-> to, ends |-> Min({to + 1, span.to}), timed |-> FALSE]
      Nth(n) == CHOOSE start \in starts : Cardinality({other \in starts : other <= start}) = n
  IN  IF Size(span) = 0 THEN <<>> ELSE [n \in 1 .. Cardinality(starts) |-> LineAt(Nth(n))]

Bytes(source) == Len(logs[source])
EveryByte == Max({MaxBytes[s] : s \in Sources}) + 1   (* math.MaxInt64        *)
Newest(source) == Max({Bytes(source) - 1, 0}) \div FileSize
OldestKept(source) == Max({Newest(source) - KeptFiles + 1, 0})

(* A stream: the place the cluster has sent it to, and of wholeLines what  *)
(* is held, whether a line was sent without its break, whether the start   *)
(* of a line is missing and where the next frame of the file begins.       *)
(* chunk is what its goroutine waits to send.  end, start, there and given *)
(* are those of LogStream.  ended and opened are ghosts: how long the log  *)
(* was when its end was read (0 if that read failed), and when the stream  *)
(* opened.                                                                 *)
NoTail == [ctx |-> "none", source |-> "none", finished |-> FALSE, at |-> 0, fresh |-> TRUE,
           held |-> NoSpan, unended |-> FALSE, cut |-> FALSE, next |-> NoMark,
           chunk |-> NoSpan, shut |-> FALSE, err |-> FALSE,
           end |-> NoMark, start |-> NoMark, there |-> 0, given |-> 0,
           ended |-> 0, opened |-> 0]

NotRead(source) == [source |-> source, stream |-> 0, finished |-> FALSE, before |-> NoMark,
                    more |-> FALSE, asking |-> FALSE, lines |-> <<>>, dropped |-> FALSE]

TaskLogInit ==
  /\ logs \in Written /\ dead = FALSE
  /\ tails = [i \in 1 .. MaxStreams |-> NoTail]
  /\ \E s \in Sources : reader = NotRead(s)
  /\ onTop = TRUE /\ ask = 1 /\ switches = 0 /\ logFaults = 0
  /\ sent = {[kind |-> "info", asked |-> 1, source |-> reader.source]}

-----------------------------------------------------------------------------
(* The task.  A stream that falls a whole log behind is not modelled.      *)
Write(source, break) ==
  /\ ~dead
  /\ Bytes(source) < MaxBytes[source]
  /\ LET next == Append(logs[source], break)
         oldest == Max({Len(next) - 1, 0}) \div FileSize - KeptFiles + 1
     IN  /\ \A i \in 1 .. MaxStreams :
              tails[i].ctx = "live" /\ tails[i].source = source => tails[i].at >= oldest * FileSize
         /\ logs' = [logs EXCEPT ![source] = next]
  /\ UNCHANGED <<dead, tails, reader, onTop, ask, sent, switches, logFaults>>

Dies == ~dead /\ dead' = TRUE /\ UNCHANGED <<logs, tails, reader, onTop, ask, sent, switches, logFaults>>
-----------------------------------------------------------------------------
(* Client.Logs: whether the task is dead and where its log ends, in one    *)
(* step since a dead task writes no more, then the stream.                 *)
Swapped(m, new) == sent' = (sent \ {m}) \cup {new}
Dropped(m) == sent' = sent \ {m}

(* logEnd, where its read is answered: not read of a dead task, nor known  *)
(* of an empty log.                                                        *)
LogEnd(source) ==
  IF dead \/ Bytes(source) = 0 THEN NoMark
  ELSE LET last == MarkOf(source, Bytes(source) - 1) IN [last EXCEPT !.offset = @ + 1]

ReadLogEnd(m) ==
  /\ m.kind = "info"
  /\ Swapped(m, [kind |-> "open", asked |-> m.asked, source |-> m.source, finished |-> dead,
                 end |-> LogEnd(m.source), ended |-> Bytes(m.source)])
  /\ UNCHANGED <<logs, dead, tails, reader, onTop, ask, switches, logFaults>>

(* The read of the end fails, which logEnd keeps to itself: the stream     *)
(* opens all the same, and nothing of the log is known to be old.          *)
LogEndUnread(m) ==
  /\ m.kind = "info" /\ ~dead /\ logFaults < MaxLogFaults
  /\ logFaults' = logFaults + 1
  /\ Swapped(m, [kind |-> "open", asked |-> m.asked, source |-> m.source, finished |-> FALSE,
                 end |-> NoMark, ended |-> 0])
  /\ UNCHANGED <<logs, dead, tails, reader, onTop, ask, switches>>

OpenLog(m) ==
  /\ m.kind = "open"
  /\ \E i \in 1 .. MaxStreams :
       /\ tails[i] = NoTail /\ \A j \in 1 .. i - 1 : tails[j] # NoTail
       /\ tails' = [tails EXCEPT ![i] =
            [NoTail EXCEPT !.ctx = "live", !.source = m.source, !.finished = m.finished,
               !.at = Max({OldestKept(m.source) * FileSize, Bytes(m.source) - LogTail}),
               !.end = m.end, !.ended = m.ended, !.opened = Bytes(m.source)]]
       /\ Swapped(m, [kind |-> "stream", asked |-> m.asked, source |-> m.source, stream |-> i])
  /\ UNCHANGED <<logs, dead, reader, onTop, ask, switches, logFaults>>

(* Refused, or no answer: of the allocation, or of a read back.            *)
LogFails(m) ==
  /\ m.kind \in {"info", "back"} /\ logFaults < MaxLogFaults
  /\ logFaults' = logFaults + 1
  /\ IF m.kind = "info" THEN Dropped(m)
     ELSE Swapped(m, [kind |-> "part", asked |-> m.asked, at |-> m.at, failed |-> TRUE])
  /\ UNCHANGED <<logs, dead, tails, reader, onTop, ask, switches>>

-----------------------------------------------------------------------------
(* The goroutine of a stream (streamLines).  The cluster reads a part of   *)
(* a file at a time: as much as there is, what was there when the stream   *)
(* opened at least.  A frame may merge two reads under the offset of the   *)
(* first, which matters in the first frame of a file only: that one is one *)
(* read, unless it begins where the file does.                             *)
EndOffset(end) == ((end - 1) % FileSize) + 1
FileEnd(place) == (place \div FileSize + 1) * FileSize

ReadTo(st, place) ==
  {e \in place + 1 .. Min({place + LogTail, FileEnd(place), Bytes(st.source)}) :
     e >= Min({place + LogTail, FileEnd(place), st.opened})}

Frames(st) ==
  LET at == st.at
      inFile == st.next # NoMark /\ st.next.file = at \div FileSize
      one == {[mark |-> at \div FileSize, offset |-> EndOffset(e), data |-> [from |-> at, to |-> e]]
                : e \in ReadTo(st, at)}
      merged == {[f EXCEPT !.data.to = e] : f \in one, e \in at + 1 .. Min({FileEnd(at), Bytes(st.source)})}
  IN  IF inFile \/ at % FileSize = 0
      THEN one \cup {f \in merged : EndOffset(f.data.to) >= f.offset}
      ELSE one

(* frameStart.                                                             *)
FrameStart(st, frame) ==
  [source |-> st.source, file |-> frame.mark, offset |-> Max({frame.offset - Size(frame.data), 0})]

(* wholeLines.frontOf.                                                     *)
FrontOf(st, frame) ==
  IF st.next # NoMark /\ st.next.file = frame.mark THEN st.next ELSE FrameStart(st, frame)

(* wholeLines.thereFrom: how much of what is kept from start on the log    *)
(* held when it was opened.                                                *)
ThereFrom(st, start, next) ==
  IF st.finished THEN EveryByte
  ELSE IF st.end = NoMark THEN 0
  ELSE IF st.end.file = start.file THEN Max({st.end.offset - start.offset, 0})
  ELSE IF st.end.file = start.file + 1 THEN next.offset - start.offset + st.end.offset
  ELSE 0

(* wholeLines.add, up to what it holds back: the rest of a line whose      *)
(* start was not read is dropped, and the break of a line that was sent    *)
(* without it.                                                             *)
Uncut(st, frame) ==
  LET front == FrontOf(st, frame)
      cut == IF st.fresh THEN ~AtStart(FrameStart(st, frame)) ELSE st.cut
      breaks == Breaks(st.source, frame.data)
      data == IF ~cut THEN frame.data
              ELSE IF breaks = {} THEN [frame.data EXCEPT !.from = frame.data.to]
              ELSE [frame.data EXCEPT !.from = Min(breaks) + 1]
      next == [front EXCEPT !.offset = @ + Size(frame.data)]
      start == [front EXCEPT !.offset = @ + Size(frame.data) - Size(data)]
      begins == st.start = NoMark /\ Size(data) > 0
      joins == st.unended /\ Size(data) > 0
  IN  [st EXCEPT !.fresh = FALSE, !.cut = cut /\ breaks = {}, !.next = next, !.at = frame.data.to,
         !.start = IF begins THEN start ELSE @,
         !.there = IF begins THEN ThereFrom(st, start, next) ELSE @,
         !.unended = @ /\ ~joins,
         !.held = Joined(@, IF joins /\ data.from \in breaks THEN [data EXCEPT !.from = @ + 1] ELSE data)]

(* The rest of add: what goes out is whole up to its last break, or all of *)
(* it where the line held is longer than logTail.                          *)
Taken(st) ==
  LET breaks == Breaks(st.source, st.held)
      whole == Max({st.held.from} \cup {i + 1 : i \in breaks})
      long == st.held.to - whole > LogTail
  IN  [st EXCEPT !.chunk = IF long THEN st.held ELSE [from |-> st.held.from, to |-> whole],
                 !.held = IF long THEN NoSpan ELSE [@ EXCEPT !.from = whole],
                 !.unended = @ \/ long]

(* It reads the next frame when the last chunk is taken.  What it reads of *)
(* the log before the page has it, it may read then.                       *)
Runs(i) == reader.stream = i /\ ~tails[i].shut /\ Size(tails[i].chunk) = 0

FrameComes(i) ==
  /\ Runs(i)
  /\ \E frame \in Frames(tails[i]) : tails' = [tails EXCEPT ![i] = Taken(Uncut(@, frame))]
  /\ UNCHANGED <<logs, dead, reader, onTop, ask, sent, switches, logFaults>>

(* The frames end: of a dead task where it stopped writing, of another one *)
(* with an error, or without.  What is held is sent (rest).                *)
FramesEnd(i) ==
  LET st == tails[i]
      over == [st EXCEPT !.shut = TRUE, !.chunk = st.held, !.held = NoSpan]
  IN  /\ Runs(i)
      /\ \/ st.finished /\ st.at = Bytes(st.source) /\ tails' = [tails EXCEPT ![i] = over]
            /\ UNCHANGED logFaults
         \/ /\ logFaults < MaxLogFaults /\ logFaults' = logFaults + 1
            /\ \E err \in BOOLEAN : tails' = [tails EXCEPT ![i] = [over EXCEPT !.err = err]]
      /\ UNCHANGED <<logs, dead, reader, onTop, ask, sent, switches>>

(* cancel: the goroutine returns without sending what it has.              *)
Quits(i) ==
  /\ tails[i].ctx = "cancelled" /\ ~(tails[i].shut /\ Size(tails[i].chunk) = 0)
  /\ tails' = [tails EXCEPT ![i] = [NoTail EXCEPT !.ctx = "cancelled", !.shut = TRUE]]
  /\ UNCHANGED <<logs, dead, reader, onTop, ask, sent, switches, logFaults>>

-----------------------------------------------------------------------------
(* waitForStream.  A chunk comes with what LogStream.Start and Old say.    *)
ChunkComes(m) ==
  LET st == tails[m.stream]
      lines == LinesOf(st.source, st.chunk)
      old == {i \in DOMAIN lines :
                \A j \in 1 .. i : st.given + lines[j].ends - st.chunk.from <= st.there}
  IN  /\ m.kind = "wait" /\ Size(st.chunk) > 0
      /\ tails' = [tails EXCEPT ![m.stream].chunk = NoSpan,
                               ![m.stream].given = Min({@ + Size(st.chunk), st.there})]
      /\ Swapped(m, [kind |-> "lines", asked |-> m.asked, stream |-> m.stream, start |-> st.start,
                     lines |-> [i \in DOMAIN lines |-> [lines[i] EXCEPT !.timed = i \notin old]]])
      /\ UNCHANGED <<logs, dead, reader, onTop, ask, switches, logFaults>>

(* The end: an error is shown and says nothing to the page, and with both  *)
(* there the error comes first.                                            *)
EndComes(m) ==
  LET st == tails[m.stream]
  IN  /\ m.kind = "wait"
      /\ \/ st.err /\ Dropped(m)
         \/ /\ ~st.err /\ st.shut /\ Size(st.chunk) = 0
            /\ Swapped(m, [kind |-> "end", asked |-> m.asked, stream |-> m.stream])
      /\ UNCHANGED <<logs, dead, tails, reader, onTop, ask, switches, logFaults>>

-----------------------------------------------------------------------------
(* The page.                                                               *)
(* What a cancelled stream holds goes nowhere.                             *)
ClosedTail(i) ==
  IF i = 0 THEN tails
  ELSE LET st == tails[i]
       IN  [tails EXCEPT ![i] = [NoTail EXCEPT !.ctx = "cancelled", !.source = st.source,
                                   !.chunk = st.chunk, !.shut = st.shut, !.err = st.err]]

(* logsPage.open: from the start of what the cluster still has.  Requests  *)
(* alike in all but who sent them first are one, until one is answered.    *)
OpenLogPage(source, asked, out) ==
  /\ Cardinality({i \in 1 .. MaxStreams : tails[i] # NoTail})
       + Cardinality({m \in sent : m.kind \in {"info", "open"}}) < MaxStreams
  /\ tails' = ClosedTail(reader.stream)
  /\ reader' = NotRead(source)
  /\ sent' = out \cup {[kind |-> "info", asked |-> asked, source |-> source]}

(* switchSource: the ask of the page goes on.                              *)
SwitchSource(source) ==
  /\ onTop /\ source # reader.source
  /\ switches < MaxSwitches /\ switches' = switches + 1
  /\ OpenLogPage(source, ask, sent)
  /\ UNCHANGED <<logs, dead, onTop, ask, logFaults>>

LeaveLog ==
  /\ onTop /\ ask < MaxAsked /\ onTop' = FALSE /\ ask' = ask + 1
  /\ tails' = ClosedTail(reader.stream)
  /\ reader' = [reader EXCEPT !.stream = 0]
  /\ UNCHANGED <<logs, dead, sent, switches, logFaults>>

ReturnToLog ==
  /\ ~onTop /\ ask < MaxAsked /\ onTop' = TRUE /\ ask' = ask + 1
  /\ OpenLogPage(reader.source, ask + 1, sent)
  /\ UNCHANGED <<logs, dead, switches, logFaults>>

(* A mutated TakeStream: a stream the page has no use for is left alone.   *)
TakeStreamOnly(m) ==
  /\ m.kind = "stream"
  /\ IF m.asked = ask /\ m.source = reader.source /\ reader.stream = 0
     THEN /\ reader' = [reader EXCEPT !.stream = m.stream, !.finished = tails[m.stream].finished]
          /\ Swapped(m, [kind |-> "wait", asked |-> ask, stream |-> m.stream])
     ELSE Dropped(m) /\ UNCHANGED reader
  /\ UNCHANGED <<logs, dead, tails, onTop, ask, switches, logFaults>>

(* logStreamMsg: letGo, keep and release.                                  *)
TakeStream(m) ==
  /\ m.kind = "stream"
  /\ IF m.asked = ask /\ m.source = reader.source /\ reader.stream = 0
     THEN /\ reader' = [reader EXCEPT !.stream = m.stream, !.finished = tails[m.stream].finished]
          /\ Swapped(m, [kind |-> "wait", asked |-> ask, stream |-> m.stream])
          /\ UNCHANGED tails
     ELSE tails' = ClosedTail(m.stream) /\ Dropped(m) /\ UNCHANGED reader
  /\ UNCHANGED <<logs, dead, onTop, ask, switches, logFaults>>

(* textContent.addChunk and dropOld.                                       *)
Added(page, lines) ==
  LET all == page.lines \o lines
  IN  [page EXCEPT !.lines = SubSeq(all, Max({1, Len(all) - MaxTextLines + 1}), Len(all)),
                   !.dropped = @ \/ Len(all) > MaxTextLines]

(* logState.take of a chunk.                                               *)
TakeLines(m) ==
  /\ m.kind = "lines"
  /\ IF m.asked = ask /\ m.stream = reader.stream
     THEN /\ reader' = Added([reader EXCEPT
               !.before = IF @ = NoMark THEN m.start ELSE @,
               !.more = IF reader.before = NoMark THEN ~AtStart(m.start) ELSE @], m.lines)
          /\ Swapped(m, [kind |-> "wait", asked |-> ask, stream |-> m.stream])
     ELSE Dropped(m) /\ UNCHANGED reader
  /\ UNCHANGED <<logs, dead, tails, onTop, ask, switches, logFaults>>

(* logState.take of the end.                                               *)
TakeEnd(m) ==
  /\ m.kind = "end"
  /\ reader' = IF m.asked = ask /\ m.stream = reader.stream THEN [reader EXCEPT !.stream = 0] ELSE reader
  /\ Dropped(m)
  /\ UNCHANGED <<logs, dead, tails, onTop, ask, switches, logFaults>>

-----------------------------------------------------------------------------
(* Reading back.  readEarlier: not while a read is out, nor on a full      *)
(* text.                                                                   *)
ReadEarlier ==
  /\ onTop /\ reader.more /\ ~reader.asking /\ Len(reader.lines) < MaxTextLines
  /\ reader' = [reader EXCEPT !.asking = TRUE]
  /\ sent' = sent \cup {[kind |-> "back", asked |-> ask, at |-> reader.before,
                        room |-> MaxTextLines - Len(reader.lines)]}
  /\ UNCHANGED <<logs, dead, tails, onTop, ask, switches, logFaults>>

(* LogBefore, logSizes: the files there are.                               *)
ListFiles(m) ==
  /\ m.kind = "back"
  /\ Swapped(m, [kind |-> "listed", asked |-> m.asked, at |-> m.at, room |-> m.room,
                 oldest |-> OldestKept(m.at.source)])
  /\ UNCHANGED <<logs, dead, tails, reader, onTop, ask, switches, logFaults>>

(* cutLength: the end of a line whose start was not read.  A break at the  *)
(* very end is the one of a longer line, where there is more to read.      *)
CutLength(source, span, oldest) ==
  LET searched == IF oldest THEN span ELSE [span EXCEPT !.to = @ - 1]
      breaks == Breaks(source, searched)
  IN  IF span.from = 0 \/ Size(span) = 0 \/ breaks = {} THEN 0 ELSE Min(breaks) + 1 - span.from

(* A mutated PartBefore: the mark of the part is where its read began.     *)
PartAtRead(at, room, oldest) ==
  LET end == PlaceOf(at)
      span == [from |-> Max({end - LogStep, oldest * FileSize}), to |-> end]
      reached == span.from = oldest * FileSize
      cut == CutLength(at.source, span, reached)
      all == LinesOf(at.source, [span EXCEPT !.from = @ + cut])
      lines == SubSeq(all, Max({1, Len(all) - room + 1}), Len(all))
  IN  [lines |-> lines, from |-> MarkOf(at.source, span.from),
       before |-> span.from - oldest * FileSize]

(* readBack and joined: the lines of the step before a mark, the last of   *)
(* them that there is room for, and the mark of the first.                 *)
PartBefore(at, room, oldest) ==
  LET end == PlaceOf(at)
      span == [from |-> Max({end - LogStep, oldest * FileSize}), to |-> end]
      reached == span.from = oldest * FileSize
      cut == CutLength(at.source, span, reached)
      all == LinesOf(at.source, [span EXCEPT !.from = @ + cut])
      lines == SubSeq(all, Max({1, Len(all) - room + 1}), Len(all))
      first == IF lines = <<>> THEN end ELSE lines[1].from
      unreadable == IF reached THEN cut ELSE 0
  IN  IF at.file < oldest \/ Size(span) = 0
      THEN [lines |-> <<>>, from |-> at, before |-> 0]
      ELSE [lines |-> lines,
            from |-> IF first = end THEN at ELSE MarkOf(at.source, first),
            before |-> first - oldest * FileSize - unreadable]

(* readAt: a file that was taken away since is an error.                   *)
ReadFiles(m) ==
  LET part == PartBefore(m.at, m.room, m.oldest)
      gone == \E p \in Max({PlaceOf(m.at) - LogStep, m.oldest * FileSize}) .. PlaceOf(m.at) - 1 :
                p < OldestKept(m.at.source) * FileSize
  IN  /\ m.kind = "listed"
      /\ Swapped(m, IF m.at.file >= m.oldest /\ gone
                    THEN [kind |-> "part", asked |-> m.asked, at |-> m.at, failed |-> TRUE]
                    ELSE [kind |-> "part", asked |-> m.asked, at |-> m.at, failed |-> FALSE, part |-> part])
      /\ UNCHANGED <<logs, dead, tails, reader, onTop, ask, switches, logFaults>>

(* logState.earlier: read for the place the text starts at now, of a text  *)
(* that lost none of its lines and has room.                               *)
Fits(m) ==
  /\ ~m.failed
  /\ m.at = reader.before /\ ~reader.dropped
  /\ Len(reader.lines) + Len(m.part.lines) <= MaxTextLines

TakePart(m) ==
  /\ m.kind = "part"
  /\ reader' = IF m.asked # ask THEN reader
               ELSE IF ~Fits(m) THEN [reader EXCEPT !.asking = FALSE]
               ELSE [reader EXCEPT !.asking = FALSE, !.lines = m.part.lines \o @,
                                   !.before = m.part.from, !.more = m.part.before > 0]
  /\ Dropped(m)
  /\ UNCHANGED <<logs, dead, tails, onTop, ask, switches, logFaults>>

-----------------------------------------------------------------------------
Answers(m) == ReadLogEnd(m) \/ OpenLog(m) \/ ListFiles(m) \/ ReadFiles(m)
Arrives(m) == ChunkComes(m) \/ EndComes(m) \/ TakeStream(m) \/ TakeLines(m) \/ TakeEnd(m) \/ TakePart(m)

TaskLogNext ==
  \/ \E source \in Sources, break \in BOOLEAN : Write(source, break)
  \/ Dies
  \/ \E i \in 1 .. MaxStreams : FrameComes(i) \/ FramesEnd(i) \/ Quits(i)
  \/ \E m \in sent : Answers(m) \/ Arrives(m) \/ LogEndUnread(m) \/ LogFails(m)
  \/ \E source \in Sources : SwitchSource(source)
  \/ LeaveLog \/ ReturnToLog \/ ReadEarlier


-----------------------------------------------------------------------------
(* The text is the log: its lines follow one another in the log of the     *)
(* source under its title, byte by byte but for the breaks between them,   *)
(* whatever was read back while the stream went on (earlier, addBefore,    *)
(* LogBefore, wholeLines).                                                 *)
TextIsTheLog ==
  /\ \A i \in DOMAIN reader.lines :
       LET line == reader.lines[i]
       IN  line.source = reader.source /\ Breaks(line.source, line) = {}
  /\ \A i \in 1 .. Len(reader.lines) - 1 :
       LET line == reader.lines[i]
           next == reader.lines[i + 1]
       IN  next.from = IF logs[line.source][line.to + 1] THEN line.to + 1 ELSE line.to
  /\ ~reader.dropped /\ reader.lines # <<>> => PlaceOf(reader.before) = reader.lines[1].from

(* A line has the time it came if the task wrote its end after the log was *)
(* opened, and none if it was there before.  Where the end of the log      *)
(* could not be read no line is taken for old (logEnd, thereFrom,          *)
(* LogStream.Old).                                                         *)
OldHaveNoTime ==
  \A m \in sent : m.kind = "lines" /\ tails[m.stream].ctx = "live" =>
    \A i \in DOMAIN m.lines :
      LET line == m.lines[i]
          st == tails[m.stream]
      IN  IF line.timed THEN line.ends > st.ended
          ELSE line.ends <= st.opened /\ (st.finished \/ st.ended > 0)

(* A log on the screen is the log of the task: the lines of it, in order,  *)
(* each once, with the times that are theirs. (logState, wholeLines)       *)
LogAsWritten == TextIsTheLog /\ OldHaveNoTime

(* A stream is read by the page, on its way to it, or closed: no request   *)
(* goes on that nobody reads, whatever the page left, came back to or      *)
(* switched while the stream was opening (letGo, release, closeStream).    *)
NoTailLeft ==
  \A i \in 1 .. MaxStreams : tails[i].ctx = "live" =>
    \/ reader.stream = i \/ tails[i].shut
    \/ \E m \in sent : m.kind = "stream" /\ m.stream = i
=============================================================================
