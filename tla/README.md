# A TLA+ model of urga

urga is a terminal interface for a HashiCorp Nomad cluster. This directory is a model of the parts of it where
several things run at once: what is specified, what TLC checks on small instances, and what TLAPS proves for every
value of the constants.

Contents: [the system](#the-system), [modules](#modules), one section per module ([Watch](#watch), [Edit](#edit),
[Counts](#counts), [SavedSession](#savedsession-and-remembered), [Feed](#feed-and-stream), [TaskLog](#tasklog),
[JobLogs](#joblogs), [Deploy](#deploy), [Session](#session), [Note](#note), [Readings](#readings),
[Pages](#pages-and-browse), [Lists](#lists), [TextWindow](#textwindow)), [runs](#runs), [what the violation runs
show](#what-the-violation-runs-show), [proofs](#proofs), [what is not modelled](#what-is-not-modelled),
[plan](#plan), [how to run it](#how-to-run-it).

## The system

urga is one process. Its heart is a Bubble Tea program: a `Model` value and an `Update` that takes one message at a
time. Everything else runs beside it as a *command*, a goroutine that does one thing (a request, a timer, a wait for
a stream) and sends one message back. So there is never a data race on the model; what there is, is order:

* a message carries what was true when its command ran, and the model has moved on since;
* messages of commands started in one order come in another;
* the screen a message is for may have been left, and the same kind of screen opened again;
* timers and streams of the screen before still fire on the one after;
* while an editor or a shell has the terminal the program takes no message at all, and they wait.

Nearly every mechanism of `internal/ui` is an answer to that: `Model.asked` numbers the asks of a screen, the streams
and the note have an id, a connection has an attempt, a config snapshot a number, a save an index.

| Part | State it keeps | Operations | What is hard | What makes it correct |
| --- | --- | --- | --- | --- |
| Watch (`ui/watch.go`, `app.go`, `screen.go`) | `watchState`: stream, id, the indexes the page was read at, the changes of a burst; `polling`, `pollTick` | answers, poll and settle timers, stream opened / sends / ended / refused, enter | answers of two reads out of order, a change between a read and its stream, timers of a screen that was left | the page is not left behind a change it can know of; one poll timer; never silent |
| Edit (`ui/edit.go`, `variable.go`, `plan.go`) | `Model.editing`, temp files, `planState` | read for the editor, editor, finish, save, plan, submit, refusal, reopen, late reports | the program is held by the editor, answers come after the screen is left, others change the same thing | no text lost, no secret left on disk, nothing overwritten unseen |
| Saved session (`internal/config`, `ui/session.go`) | `Config`: session, `taken`, `written`, the file | snapshot, write, save on quit, load | writes in any order, cut off by the end of the process | the file moves on only, and has the last session after a quit |
| Session (`ui/screen.go`, `region.go`, `clusters.go`, `namespace.go`) | history of screens, `asked`, marks, region, connection, attempt | enter, push, back, switch of namespace, region, cluster; connect answers | answers of the region or cluster before, attempts given up | an answer is shown only where it was asked, a move that was given up does not happen |
| Note (`ui/note.go`) | one stream of failures per connection, id, where to go on | open, events, ended, again | two streams or none after switches | one stream, no failure said twice or missed |
| Feed and streams (`ui/feed.go`, `stream.go`, `nomad/events.go`) | a pump with a buffer between the cluster and the page | open, events, end, reconnect | a slow reader, an end with its error | every event once and in order |
| Logs (`ui/logs.go`, `joblogs.go`, `nomad/logs.go`, `logback.go`) | streams of one task or of all tasks of a job, earlier parts | open, lines, end, read earlier | earlier lines against a stream that goes on | no line twice, none left out |
| Usage, checks, queue (`ui/usage.go`, `checks.go`, `queue.go`, `timer.go`) | samples, timers | read, take, tick | chains of timers that double after a switch | one chain per screen |
| Plans and check-and-set writes (`nomad/plan.go`, `edit.go`, `varfile.go`) | none: an index travels with the text | plan, submit, save | the thing changes in between | a write replaces what its author saw |
| Lists and text (`ui/list.go`, `mark.go`, `sort.go`, `text.go`, `scroll.go`) | cursor, marks, filter, window | rows arrive, move, mark, find | rows come and go under the cursor | the cursor and the marks stay with their resource |
| Command line and keys (`ui/command.go`, `page.go`, `update.go`) | the line being typed | complete, route a key or a message | who gets a key | a key does one thing |
| Screens of the resources (`ui/jobs.go`, `alloc.go`, `node.go`, ...) | the rows of one answer | fetch, take, rows | little of their own | tables of what came |
| Files, shell, describe, copy | the terminal, a local file | run, save | what the operating system does | external |
| Client (`internal/nomad`) | none | one HTTP request per method, decoded | partial answers | external answers, chosen by the environment |
| Header, layout, colours, help | none | draw | none | a function of the state |
| Settings, licenses, release, `cmd/urga` | read once | start | none | - |

How they meet: every screen's read goes through `screen.fetch`, is labelled with the ask of the screen (`request`,
`wroteFor`) and comes back through `takeAnswer`, which shows it, drops it (`letGo`) or reports it
(`reportLate`). Watch is the reader of the indexes those answers carry, and the reason a screen reads again. Edit
uses the same label to find out whether the screen it started from is still open. The session is saved on each move.
The cluster answers them all and is changed by other people.

## Modules

| Module | What it is |
| --- | --- |
| `Watch`, `WatchProofs` | how an open screen keeps up with the cluster; proved: never silent, one poll timer, in step with its stream, no change lost |
| `Edit`, `EditProofs` | a thing of the cluster as a file in the editor of the person; proved: what a save replaces, the files, the texts |
| `Counts`, `Deploy`, `JobProofs` | the counts of a job between its file, its plan and the cluster, and a namespace made from its file; the watch of a deploy, read in four requests; their proofs, and those of the logs |
| `Remembered`, `SavedSession` | the promise of the saved session as an abstract specification; snapshots, writes, a lock and a temp file, which implement it |
| `Stream`, `Feed`, `LastingProofs` | the pump of a stream of events, its channel and the command that waits on it; the page of events, which reads streams of `Stream` one after another; the proofs of both, and of the saved session with its refinement |
| `TaskLog`, `JobLogs`, `Logs` | the log of a task, followed and read backwards; the logs of the allocations of a job; what both promise of their streams; proved in `JobProofs` |
| `Session`, `Note`, `Readings`, `SessionProofs` | the stack of screens, and the moves between namespaces, datacenters, regions and clusters; the status line, one message and the failures of the cluster; the chains of readings of the rows, of a screen and of the header; their proofs |
| `Pages`, `Browse`, `Lists`, `ScreenProofs` | the pages as tables (where they read, what they watch, their keys), and a person who goes through them; the rows of a screen under the cursor; their proofs |
| `TextWindow`, `TextProofs` | the window over a text; proved: what it keeps of its rows, its place, the matches of a word |
| `Extrema` | what the proofs need of extrema of sets of naturals |

`Session`, `Feed` with `Stream`, and `Browse` with `Pages` are compositions of their own. The MC modules put several
modules into one run, and say so: nothing is shared between the parts of `MCReads`, `MCSession`, `MCScreen` and
`MCLasting`, so a behaviour of those is one of one of the parts (`part` says which), the other parts resting in one
first state. That checks each part as a run of its own would, and is no composition.

| MC module | Configurations | Parts |
| --- | --- | --- |
| `MCWatch` | `MCWatch.cfg`, `MCWatchKept.cfg` | pages and topics of real screens |
| `MCEdit` | `MCEdit.cfg`, `MCEditTwo.cfg` | a variable or a job; two variables |
| `MCLasting` | `MCLasting.cfg` | `Watch`, `SavedSession`, `Feed` |
| `MCReads` | `MCReads.cfg` | `Logs` (`TaskLog`, `JobLogs`), `Feed`, `Deploy`, `Counts` |
| `MCScreen` | `MCScreen.cfg` | `Browse`, `Lists`, `TextWindow` |
| `MCSession` | `MCSession.cfg` | `Session`, `Note`, `Readings` |
| `MCPages`, `MCCounts`, `MCFeed`, `MCLogTwice` | `MCPagesQueue.cfg`, `MCCountsNamespace.cfg`, `MCFeedTogether.cfg`, `MCLogTwice.cfg` | `Browse`; `Counts`; `Feed`; `TaskLog` |

In each module an operator or action has the name of the function it translates where there is one, and the comment
above it names the code otherwise. An operator whose comment begins "A mutated ..." is not part of the specification:
it is a plausible bug, with which the property beside it fails. `PROJECT.json` says which belongs to
which, and which lines each definition stands for.

What is external and only modelled from its use: Nomad (indexes grow; a blocking table index per topic; check-and-set
of a variable and `EnforceIndex` of a job; an event stream asked past its newest event starts at that event), Bubble
Tea (one message at a time, commands run beside it, `tea.ExecProcess` holds the event loop), the file system (a name
from `os.CreateTemp` is new, `os.Rename` is one step), the editor, other people.

## Watch

The cluster is `log`, the sequence of its changes; an index is a place in it. A page (`Pages`) watches topics
(`PageTopics`), reads them in one or more requests (`Requests`: what each reads, in order), and may follow fewer
topics when refused (`Fewer`: the clients page, whose allocations a token may not see). `flight` are the reads that
are out: each goes through its topics one step at a time while the log grows, and notes the index of each topic it
read (`nomad.Reads`); `Limits` is the step of `withoutLimits` that skips the counts of clients nobody limits and notes
`EveryIndex`. `watch` is `watchState` as it is in the code; `polling`, `pollTick`, `timers`, `slow` are the poll timer
(`timers[k]` counts the timers set with number k); `settles` counts the timers of bursts; `opens` the stream requests
that are out; `shown` is a ghost, the index the page shows each topic at.

| Actions | Code |
| --- | --- |
| `Answer`, `FailedAnswer`, `ReadNext` | `takeAnswer` with `took`, `keepRead`, `watchOnAnswer`, `schedulePoll`; `takeError`; a request of `fetch` |
| `Enter` | `enter`: a new ask, a new watch, the timer dropped, all requests of the page |
| `PollFires`, `SettleFires` | `poll`, `settled` |
| `StreamOpens`, `StreamSends`, `StreamEnds`, `StreamRefused` | `startWatch`, `keepChange`, `watchEnded`, `refusedAll` |
| `AgentAnswers` | `watchOnVersion` |
| `Done` | `done`: an action of the person ended and the screen reads again |
| `Change` | the rest of the cluster |

Properties: `NoLostChange` (the page is never behind a change its live stream has to tell it of, unless a read that
will show it is out, the burst will read, or an event that makes it read is to come), `NeverSilent`, `OnePollTimer`,
`WatchKeepsStep` (`TypeOK`; a burst has its timer, `BurstHasTimer`; a screen has one stream, `OneStream`; the poll is
slow only beside a stream, `PollPace`), `SettleReadsOnlyNews`, and the liveness property `CatchesUp`: a screen comes
to show every change even when streams fail, are refused or never open.

A read that fails takes its index with it; `NoLostChange` leaves a screen with a failed read (`spoiled`) to its poll,
as the code does. The text of the warnings is left out.

## Edit

`work` holds an edit on its way, by slot: the request that reads it, the message with its file, the exec message,
the editor, the message that it closed, the save or plan, the refusal, the plan message, the submit. A slot is one
command or one message, so their interleavings are all there. `disk` are the temp files, `kept` the ones the status
line named to the person, `editing` is `Model.editing`, `screens` the stack (lists and plans), `cluster` the version
of each thing (an index, 0 when it is deleted; whether it is held as a lock; whose text it has).

The person's texts are numbered as they are saved in the editor (`typed`); `over` are the texts that are settled: the
cluster took it, or the person wrote over it, gave it up in the editor, or left its plan. `known` in a submit is a
ghost: the versions the person was told a save replaces - the one in the file, the one a warning names, the one a
plan was made against.

| Actions | Code |
| --- | --- |
| `PressEdit`, `PressNew`, `ReadFile`, `WriteFile`, `ReadFails` | `editVariable`, `newVariable`, `jobFile`, `openEditor`, `writeTemp` |
| `TakeFile` (`StartEdit` or `KeepFile`) | `startEdit`, or `reportLate` with `release` |
| `OpenEditor`, `CloseEditor`, `EditorFails` | `terminalEditor.Edit` under `tea.ExecProcess`; `Blocked` while it runs |
| `FinishEdit` | `finishEdit`: read, removed, unchanged or sent as `m.editing` says |
| `SaveChecks`, `SaveFails`, `Peek`, `PeekFails` | `SubmitVariable`, `SubmitScheduler`; `variableConflict` and `checked`: two requests, so the variable may change, go or be locked in between |
| `TakeRefused` | `reopenEdit`, or `keepText` when the screen was left |
| `PlanAnswers`, `PlanRefused`, `TakePlan`, `PressReplan` | `planFor`, `reopening`, `planPage.take`, `replan` |
| `PressSubmit`, `SendAnswers`, `SendFails`, `TakePlanDone` | `submitPlan`, `SubmitJob`, `jobChanged` |
| `Change`, `Delete`, `Lock` | other people |

A lost answer is a disjunct of `SaveFails` and `SendFails`: the write went through and the person is told it failed.

`Together` is how many edits the person has in hand at once. In the passing runs it is 1: the person waits for the
editor of an edit before asking for another one on the same screen, but may leave the screen at any time, which takes
the edit out of hand and leaves its answers to come late. With 2 the code does what the finding `edit_two` says.
`NoTextLost` and `NothingSentUnchanged` are checked with 1 only; for two edits in hand the second is false.

Properties: `NoTextLost`, `FilesAccounted` (a temp file is there only while one edit uses it or when it keeps a text
the person was told of), `SavesOverKnown`, `NothingSentUnchanged`, and the liveness property `HandsBack`.

## Counts

`job` is the job of the name: its modify index, the count it runs with, what its file says. `editing` is the file in
hand with `opened`, the count it said when it was read (`JobCounts`), `planShown` the open plan, `requests` the
plans and submits on their way: each first reads the job that runs (`KeepCounts`), then asks (`PlanAnswered`,
`RegisterAnswered`), and others scale, submit, delete and make the job anew in between.

Property `ScaleStands`: a submit of an edit that leaves the count alone never changes the count the job runs with.
It stands because the submit carries the index the plan was answered at, so a scale after that is refused, and one
before it is read and kept. The plan that is shown may still be of another count: a scale between the two requests of
a plan is in the job at the index of the plan, so the submit keeps it, though the diff that was confirmed has not.

`MakesNamespace` is `CreateNamespace`: `LookUp`, then `RegisterNamespace`, with `AnotherMakesIt` in between. Only
`namespace_made` runs it.

## SavedSession and Remembered

`Remembered` is the promise: the file holds a session, a later one after each save, the last one after a quit; the
next run starts from it. `SavedSession` is how the code does it: `snapshot` numbers what `remember` is to write,
commands take the lock of `Config.Write` in any order, one older than the last written is skipped, `writeWhole` writes
a temp file and renames it; `SaveSession` takes a last snapshot on quitting and waits for its own write only. A
session (namespace, screen, number keys) is the number of changes made to it, which is what the promise is about.
`OpenGiven` is the one change that nothing is written for: a namespace named on the command line is opened over the
saved one.

`ImplementsRemembered` is `Kept!Spec` under the mapping `ended <- phase = "ended"`; `QuitSaves` and `NeverBack` say
the two halves of it directly; `WritesEnd` is liveness (`QuitEnds`: a quit ends the process; `GetsSaved`: a session that
stays and whose writes stop failing gets into the file).

## Feed and Stream

The cluster is `feedLog`, the sequence of its events; an event is its place in it, with an index and what it is of. What is
written at once (`Batches`) has one index, as the evaluations and allocations of a plan have. `streams` are the
requests that were opened: how far the cluster has sent (`at`), what of a batch the pump still hands on (`batch`), the
channel with its capacity (`buffer`), the error that waits, and whether the pump has returned (`shut`). `Stream` knows
nothing of the page: `Closed`, `Followed`, `Emptied` and `Over` are what its reader does to a stream.

`feedPage` is the page, `top` says whether it is on top, `feedAsked` is `Model.asked`, `here` the namespace of the session,
`out` the commands and messages of the page. A stream has the number of the ask that opened it.

| Actions | Code |
| --- | --- |
| `Receives`, `Sends`, `Returns`, `Ends` | the goroutine of `follow`, with the filter of `Client.feed` |
| `Again`, `Leave`, `Back`, `SwitchNamespace` | `show`, `stack`, `back`, `switchNamespace`, each with `closeStream` and `enter` (`EnterFeed`), which opens the page again (`feedPage.open`) |
| `Opens`, `OpenFails`, `TakeOpened` | the command of `open`; `take`, or `letGo` when the ask is over, or the stream is a second one |
| `NextEvents`, `NextEnd` | `nextEvent`: `waitOn` with `withWaiting` |
| `TakeEvents`, `TakeEnded` | `take` |

Properties: `FeedIsTheLog` (`ShownInOrder`: in the order they happened, none twice, those of the namespace only;
`NothingSkipped`: what is not newer than `last` is on the page, on its way, or went as the oldest), `NoStreamLeft` (an
open stream is the one of the page on top or on its way to it), and the liveness property `StreamsMoveOn` (`LetsGo`: a
closed stream lets its request go, with nobody reading its channel; `ShowsAtLast`: the page shows all of a stream that
goes on). With two events of one index `NothingSkipped` is false, see `feed_together`; the other runs have one event
to an index.

An ended page is not opened again by itself, in the code as in the model: `ShowsAtLast` is about a page whose stream
goes on.

## TaskLog

The log of a task is its bytes (`logs`, each a line break or not), kept by the cluster in files of `FileSize`, of
which `KeptFiles` stay. What is read is a span of places in it, so a text that repeats a part or leaves one out shows
it. `tails` are the streams that were opened, `reader` is the page (`logState` with its text), `sent` its commands and
messages with the ask they are for.

| Actions | Code |
| --- | --- |
| `Write`, `Dies` | the task; files are turned over and taken away |
| `ReadLogEnd`, `LogEndUnread`, `OpenLog`, `LogFails` | `Client.Logs`: how long the log is, then the stream from its last part. Where `logEnd` could not read the end it keeps that to itself, and the stream opens all the same |
| `FrameComes`, `FramesEnd`, `Quits` | `streamLines` with `wholeLines`: frames cut into whole lines, which of them were there before the stream (`thereFrom`, `Old`), the rest at the end |
| `ChunkComes`, `EndComes`, `TakeLines`, `TakeEnd` | `waitForStream`, `logState.take`, `ended` |
| `SwitchSource`, `LeaveLog`, `ReturnToLog` | `switchSource`, `stop` with the text kept in hand, `openStream`, `keep` |
| `ReadEarlier`, `ListFiles`, `ReadFiles`, `TakePart` | `readEarlier`; `logSizes`, `cutLength`, `joined`, `markAt`, `readBack`; `logState.earlier` |

Properties: `LogAsWritten` (`TextIsTheLog`: the lines of the text are those of the log, in order, each once;
`OldHaveNoTime`: a line with a time was written after the end was read, and one without was there before the stream
opened and before an end that was read) and `NoTailLeft` (part of `NoLogStreamLeft`). Where the end was not read
nothing is taken for old, and lines that were there have the time they came, as "an end that cannot be read" of
`internal/nomad/logs_test.go` wants it.

## JobLogs

An allocation is a number and a version; `jobPage` is `jobLogsPage` with its reading, `jobStreams` the streams that
are open, `jobOut` its commands and messages. A deployment replaces allocations (`Replace`) while the page reads the
list again (`ReloadJobLogs`, `TakeListed`), switches the output (`SwitchJobSource`), is left and come back to.

Properties: `JobTextIsOfNow` (every line is of an allocation that is read and of the output in the title, whatever
opens late, and the text says of none that it stopped while a stream of it is read) and `NoJobStreamLeft` (part of `NoLogStreamLeft`: no stream of a log goes on that nobody reads).

## Deploy

`cluster` is the job: its versions, its evaluations, the versions that have a deployment; `Register`, `NodeUpdates`,
`Schedules`, `Completes` and `Collects` are what Nomad does. `reads` are the reads that are out, each as far as it is:
the version, the evaluation, the deployment, the allocations (`Reads`, `ReadFails`), then `TakeDeploy`.

Properties: `NoDeploymentIsTrue` (where the page says that its version has no deployment, none is there and none
comes: `makesNoDeployment`, and why `readDeploy` reads the evaluation before the deployment) and
`OneVersionThroughout` (a page that knows its version stays with it).

## Session

`model` is the part of `Model` that says where the session is: connection, region, namespace, datacenter; the open
screen and the history under it; the marks and the question on it; `asked`, `firstAsk`, `attempt`, `connecting`. `out`
are the requests and messages that are out, with the label they have in the code: the ask (`answerMsg`), the
connection (`connectionMsg`), the attempt (`connectedMsg`), the region (`datacentersMsg`). `saved` is the session of
each cluster as `remember` took it last; `SavedSession` is what happens to it then.

Ghosts say what the code does not keep: `at` is where the rows of a screen were read, `known` where the datacenters
were asked, `of` where the row is that was marked or asked about. A mark in the code is only a name, and the model
compares names as the code does.

The operators `Entered`, `Stacked`, `CameBack`, `MovedTo`, `ListScreen`, `RegionForgotten`, `Restored` take a model and
return one, as the methods of `Model` do; `Enter` and `Arrive` make a step of one.

| Actions | Code |
| --- | --- |
| `Show`, `OpenDetail`, `Back` | `commit` with `show`, `push`, `back`, each through `arrive` |
| `SwitchNamespace`, `SwitchDatacenter`, `NarrowTo` | `switchNamespace`, `switchDatacenter`, `narrow`, with `followSession` or `back` |
| `SwitchRegion`, `SwitchCluster` | `switchRegion`; `switchCluster` and `stay` |
| `MarkRow`, `Ask`, `Confirm` | `mark`, `ask`, `applyConfirm` or `closeConfirm` |
| `Refresh`, `Fails` | the poll of the screen, a request that fails |
| `TakeRows`, `TakeDatacenters`, `TakeDone`, `TakeConnect` | `takeAnswer`; `takeConnection` with `keepDatacenters`; `done` and `doneLate`; `takeConnected` with `connected`, `takeConnectFailed` |

Properties: `AllIsOfHere` (`ShownIsOfHere`, `KnownIsOfHere`, `MarksAreOfHere`, `QuestionIsOfHere`: all that is on the
stack, known, marked or asked about is of the region and connection the session is on, and a list of the namespace is
of the namespace; `RememberedIsHere`, the comment of `arrive`: the saved session is never one screen behind), `DoneElsewhere`
(an action that ends where the session no longer is takes no mark off) and `MovesToLast` (a connect that was given up
does not move the session).

`Watch` and `Edit` take the label of the answers as given; here it is checked with all that moves the session.

## Note

`happened` is the log of the cluster's events and how far it is, `note` is `noteState`, `feeds` the streams of
failures, `noteOut` the commands and messages of the note; `flash` is the message of the status line, `timers` the
times of messages that still run.

| Actions | Code |
| --- | --- |
| `AsksIndex`, `OpensFeed`, `OpenFails`, `TakeOpened` | `noteState.open` from the newest event, or from where the stream before ended; `takeNoteOpened` |
| `FeedSends`, `FeedEnds`, `FeedDrops`, `TakeEvents`, `TakeEnded` | `takeNoteEvents` with `failureOf`, `take` and the failures it knows (`NoteKept`); `takeNoteEnded` |
| `TakeAgain`, `Restart`, `TakeStale` | `later`, `takeNoteAgain`; `restart` on a move; what is for a stream before |
| `MessageShown`, `ReadAnswered`, `ScreenEntered`, `TimeIsUp` | `say`, `busy`, `forget`, `clearFlash`; `Outranks` is what a failure gives way to |

Properties: `FollowsOn` (one thing goes on to follow the failures, over drops and moves, until the cluster refuses
it), `EachEventOnce`, and `MessageHasItsTime` (a message stays until its own time is up, whatever timers of others fire).
Events of one index are lost to a stream that ends between them as they are in `Feed`; `SomeHappenings` has two of
one index, which come together.

## Readings

`page` and `under` are the screens with the flag of their own chain, `rowsDue` the flag of the rows, `header` that of
the header; `awaited` the bag of reads and timers that are out, each with the label it has in the code.

Properties: `ReadingsGoOn` (`OneChainEach`: a flag that is set has exactly one read or timer behind it, one that is
clear has none; `HeaderGoesOn`: the header is read for as long as the session lasts, by one timer, and shows the place
the session is in).

## Pages and Browse

`Pages` has each page of the interface as the code has it: the namespace its rows are asked in, where and what it
watches, whether it follows the session, and its keys with the rows they are offered on. `Browse` opens pages from one
another, by name and from a row, asks, types, edits and plans, moves the session under all of it and deletes its
namespace. `called` is the call of the last step that changes the cluster, with the namespace it is made in and the one
that was meant.

Properties: `ReadOnlyChangesNothing`, `OneKeyOneThing` (of the keys on one press at most one is offered on a row),
`WatchesWhatItReads` (the events a page asks for are of all it shows) and `KeepsToTheNamespace` (what is done to a row
and what is opened from it is in the namespace of the row). `LeftOut` names the pages that are false for: the queue
for `WatchesWhatItReads` (run `pages_queue`), and the volume page for `OneKeyOneThing`: it puts `ctrl+r` (release a
claim) and the keys of an allocation (`ctrl+r`, restart all) on one row, where the first one is taken.

## Lists

`screen` holds the rows the page answered, `list` is `list` with its table, marks, order and filter, `history` the
screen under it; `usage` the rows whose reading is there, by which a column may be ordered.

Properties: `CursorStaysOnItsResource` (it is on the same resource while the list shows it, and on none when it went
by itself), `ActsOnWhatIsSeen` (a key acts on marks that are drawn, or on the row of the cursor, which is in the
window) and `UnmarksWhatItDid` (an action on all the marked rows that ends takes off the marks of what it was done to
and no others; one that fits only some of them, as purging does, takes the marks of the others too, as
`purge_test.go` wants it, and is left out of the property). A single call that fails leaves the marks as they are.

## TextWindow

`text` is `textContent`, `window` is `textModel` with `rowCache` (`kept`). A line is its number, its width and whether
the word is in it. `Refreshed` brings the kept rows up to date as `refresh` does, and `DrawnRows`, `DrawnCounts` are
the drawing made afresh, the reference definition.

Properties: `DrawnAsAfresh` (the rows kept are those of a window drawn afresh), `KeepsItsPlace` (a window that does
not follow keeps its row and its match, as lines come at either end), `EveryMatchIsReached`.

## Runs

| Run | States | Properties | Bounds and why they are enough |
| --- | --- | --- | --- |
| `watch` | 1.8 million | `NoLostChange`, `NeverSilent`, `OnePollTimer`, `SettleReadsOnlyNews` | the list of allocations (one request, one topic): two changes, two reads out, the screen entered twice, one fault: two answers cross each other, two changes, and a timer and a stream of the screen before. The screen of one deployment (two requests, two topics): three reads out, an older and a newer one of a topic beside one of the other |
| `watch_kept` | - | `NoLostChange` | violation, see below |
| `edit` | 0.5 million | `NoTextLost`, `FilesAccounted`, `SavesOverKnown`, `HandsBack` | one variable or one job of three versions, two texts, two edits on their way (one of a screen that was left), three files, one fault: a conflict can follow a warning about a conflict; two plans, two submits, a plan and a replan |
| `edit_two` | - | `NothingSentUnchanged` | violation, see below |
| `lasting` | 0.17 million | `WatchKeepsStep`, `CatchesUp`, `QuitSaves`, `NeverBack`, `WritesEnd`, `ImplementsRemembered`, `StreamsMoveOn` | the clients page (fewer topics, limits), a page that needs a version, one that watches nothing; one change, and a screen entered twice or one fault: refused, refused at once after opening, ended, never opened. Four moves and two faults over any number of runs: three snapshots and the last one compete for the lock. Two streams of events and one fault: refused, ended, ended with an error while an event waits |
| `feed_together` | - | `NothingSkipped` | violation, see below |
| `reads` | 3.4 million | `LogAsWritten`, `NoLogStreamLeft`, `JobTextIsOfNow`, `FeedIsTheLog`, `NoStreamLeft`, `NoDeploymentIsTrue`, `OneVersionThroughout`, `ScaleStands` | a log of five bytes in files of two, of which two are kept: turned over twice, so that a file is taken away under a read; three asks, a source switched once, a text of three lines. Three allocations, read three times. Three events of two namespaces, a page of two, a channel of one, entered three times: left and come back to with a stream still opening. Two versions, two reads out. Four changes of a job of counts 1 and 2, two requests out |
| `log_twice` | - | `TextIsTheLog` | violation, see below |
| `screen` | 0.3 million | `ReadOnlyChangesNothing`, `OneKeyOneThing`, `WatchesWhatItReads`, `KeepsToTheNamespace`, `EveryMatchIsReached`, `DrawnAsAfresh`, `ActsOnWhatIsSeen`, `KeepsItsPlace`, `CursorStaysOnItsResource`, `UnmarksWhatItDid` | three pages on top of one another (what is opened from what is opened from a list of all namespaces), two namespaces. Two resources in a window of one row, ordered by a reading against the order they come in. A text that keeps two lines of four, of one and two cells in a window of one or two cells and one row: every line is wrapped in some window |
| `session` | 1.8 million | `AllIsOfHere`, `DoneElsewhere`, `MovesToLast`, `FollowsOn`, `EachEventOnce`, `MessageHasItsTime`, `ReadingsGoOn` | a list of the namespace, one of the cluster, the datacenters to pick from and a detail; three asks: a move and a move after it with the answers of both out; two connects, of which one is given up, or an action that ends anywhere. Three events of two things, one fault, two messages. Three screens entered and one move of the readings. The clusters are symmetric |
| `pages_queue` | - | `WatchesWhatItReads` | violation, see below |
| `namespace_made` | - | `NoNamespaceReplaced` | violation, see below |

Where a run would not end in time, the MC module takes away a combination of bounds and says which: `BoundedFewer` (of
the clients page and its like, a screen entered twice or a fault, and not both; the run `watch` has both),
`BoundedTask` (no fault before the last time a log is entered), `BoundedFeed` (an event less then), `BoundedSession`
(an action or a second connect), `BoundedNote` (faults or all messages), `BoundedReadings` (one move, of either kind),
`Bounded` in `MCWatch` (three reads only on the screen with two requests, which is entered once), `BoundedPages` (on
the topmost page there is room for, no list opens but the jobs), `BoundedAnswers` (an answer under a question has a
row of another namespace and the same facts), `BoundedList` (one way of narrowing at a time, no order while narrowed
to what is in trouble, and readings only while ordered by them; the theorems have all of these together),
`BoundedText` (times only while nothing is filtered or searched for). `MaxSwitches = 1` leaves out a second switch of
the source, which `log_twice` has.

One more way in which the code does not do what it says is kept out by the shape of a property: `switchJobSource`, while
the allocations are being read again, reads those of the list before, until the answer comes; `JobTextIsOfNow` speaks of
the allocations that are read.

Deadlock is not checked: with every bound used up, or a session that only waits for the person, a state without a
successor is where the system may stop. `NeverSilent`, `CatchesUp`, `HandsBack` and `QuitEnds` say that it does not
stop where it may not.

The bounds are guards on what the environment and the person may do, named `Max...` and declared with the constants
of each module: changes of the cluster (`MaxIndex`, `MaxEvents`, `MaxChanges`, `MaxVersions`, `MaxBytes`), screens
entered (`MaxAsked`, `MaxAsks`, `MaxFeedAsked`, `MaxJobAsked`), what is out at once (`MaxFlight`, `MaxWork`,
`MaxRequests`, `MaxReadsOut`, `MaxStreams`), faults (`Max...Faults`), what the person does (`MaxTyped`, `MaxMoves`,
`MaxConnects`, `MaxWrites`, `MaxSwitches`, `MaxMessages`, `MaxPages`). Where a bound stops the code itself - a poll
that needs a free slot, a restart that needs a number - fairness asks only for what is enabled, and the properties are
of the states where it is.

Fairness. A request ends, with an answer or an error, within `defaultTimeout`; a timer fires; the program takes its
messages. A command hands its message to an unbuffered channel, whose senders wait in line, so a message is taken
once the program takes messages again: strong fairness of `Take` in `Edit`, since an editor may hold the program over
and over. The person closes an editor they opened. In `SavedSession` a write that has the lock goes on and the mutex
is given on. In `Feed` a pump that can go on does, and the command or message of each
ask is carried out. Nothing is assumed of other people, of faults, of streams, or of the person opening, leaving or
submitting anything. The other modules have no liveness property and no fairness; that their chains go on is stated as
a safety property instead (`FollowsOn`, `OneChainEach`, `HeaderGoesOn`: something is always out that goes on).

## What the violation runs show

* `watch_kept`. `settled()` drops every change kept in the burst, those of a topic the page showed nothing of
  (`EveryIndex`) included, though `keepChange` keeps them for an answer that shows the topic from before. On the
  clients page with two reads out: one answers without limits, a change of an allocation is kept, the burst ends, the
  other read answers with allocations from before the change. The page is behind until the slow poll.
* `edit_two`. `startEdit` overwrites `m.editing`, and `finishEdit` does not look whether the file that came back is the
  one of the edit it has. Press `e` on a second thing before the file of the first was read, and the two are taken in
  an order where the first's file is compared with the second's original: closed without a change it is still sent,
  as an edit of the second.
* `feed_together`. `feedPage.open` goes on from the index after the newest event the page has, but `follow` hands over
  the events of one index one by one. A page that is left, or shown again, after it took the first of two events of one
  index closes its stream with the second on the channel or not yet sent, and asks from the next index: the second never
  shows. `docs/keys.md` promises that the ones that happened meanwhile are added on top. (`takeNoteEvents` goes on in
  the same way.)
* `log_twice`. A log switched to the other source and back before anything answered has two streams of its source on
  the way, under one ask, since `reopenMsg` keeps it. When the first has ended before the second opens (the task is dead,
  or the stream was cut), `ended` has set `l.stream` to nil, so `keep` takes the second too, and the text has the log
  twice: a log of two bytes is enough, and no fault. `TestLogs_OneStreamPerLog` (`internal/ui/logs_test.go`) says "the
  first stream of stderr is kept, the other two are closed", and has the first one still open.
* `pages_queue`. The queue of a batch pool lists jobs of every namespace (`fetchAllQueues`), but the page asks for its
  events where the session is: a job of another namespace that joins or moves up is not reported, and shows with the
  slow poll. `internal/ui/page.go` promises that a change in a page's topics makes it out of date.
* `namespace_made`. `CreateNamespace` looks the name up and then registers. A namespace of the name that somebody makes
  in between is written over, which the comment of the function says it is there to prevent. Nomad has no
  check-and-set for namespaces, so the window can only be made smaller.

## Proofs

Every theorem is for all values of the constants: any namespaces, topics, requests, resources, rows, files and
versions, any number of screens, streams, timers, faults and moves. TLAPS checks every step; the assumptions are those
of the modules (`PagesAssumption`, `BoundsAssumption`, `SavedBounds`, `BrowseAssumption`, ...), which TLC evaluates on
every run, and the hypotheses named below. A theorem about a module with fairness is about `Init /\ [][Next]_vars`.

`Extrema` has what several proofs need of sets of naturals: `MinIs` and `MaxIs`, from the well-foundedness of `<` in
the library.

`WatchProofs` (Watch; every page, topic and request):

* `TypeCorrect`. Its lemmas follow the operators of the watch (`KeepReadType`, `WatchScreenType`, `FetchType`, ...).
* `ScreenNeverSilent`, `OneTimerCounts`: from `PollInv`, which is `TypeOK`, `OnePollTimer`, `NeverSilent` and
  `NoLaterTimer`. The last one is needed for induction: a restart takes the next number, and a timer with that number
  set before would be a second one that counts. `NeverSilent` needs `OnePollTimer` when the timer fires, and `polling`
  to be false only while a read is out.
* `KeepsStep` (`WatchKeepsStep`): from `StepInv`. Beside the property it says when a stream may be asked for at all: none
  is out while one is open or due (`StreamInv`), and none for a page that waits for the version of the agent.
* `SettlesOnNews` (`SettleReadsOnlyNews`): from `NewsInv`, the page shows what the watch has read, and no index the watch
  knows is of a change to come. A burst that reads again is then of a topic the page is behind.
* `NothingLost` (`NoLostChange`): from `LostInv`. A change the page is behind, and that is before where the stream
  starts, comes with a read that is out or waits in the burst (`Covered`), for the open stream and for each that is
  asked for. It is proved for a page with `Plain(page)`: one that reads all it watches and asks for no limits first.
  The hypothesis is needed. With limits `withoutLimits` answers `EveryIndex`, and `watch_kept` shows the change that is
  lost: the clients page alone asks for them.

`LastingProofs`, of the saved session (SavedSession; any number of moves and faults):

* `SavedInductive`: the invariant `SavedInv`. A snapshot that is out was taken in this run, is not the written one and
  is not after the session; one newer than `written` is not before the file (`OutIsLater`); numbers order snapshots as
  they were taken (`NumbersOrder`); the last snapshot of a run that quits is out and is of the session (`QuitIsOut`);
  a run that ended has it written (`EndIsWritten`). The middle ones are what makes the file move on only: when a
  write renames, everything still out with a greater number has data that is not before it.
* `LastSessionSaved`, `FileMovesOn`, `SavedTypes`, and `SavedImplementsRemembered`: every step of `SavedSession` is a
  step of `Remembered` or leaves its variables alone. `Renames` is `Save`, or `Quit` when it is the write the quit
  waits for.

`JobProofs`, of a submit and of the watch of a deploy (Counts and Deploy):

* `ScalesStand` (`ScaleStands`): from `CountsInv`. A submit that leaves the count alone and is for the index the job has
  now carries the count the job runs with (`KeptIsTheCount`), and no request is of an index to come (`IndexesPast`), so a
  change takes every request that is out past its index.
* `NoDeploymentTrue`, `VersionStays` (`NoDeploymentIsTrue`, `OneVersionThroughout`): from `DeployInv`. What a read found
  stands while the cluster goes on: an evaluation that is complete or gone has settled its version for good
  (`ClusterKeeps`), so a read that saw it before it asked for the deployment and found none is right for ever. In the
  other order it would not be, which is where the induction fails for the mutant.

`JobProofs`, of the logs (JobLogs and TaskLog):

* `JobTextStays` (`JobTextIsOfNow`): from `JobLogsInv`. A message has the number of the reading it was sent in, and one of
  an earlier reading, or of an earlier ask, is put into nothing; one of the reading of now is of an allocation that is
  read and of the output in the title (`PagesAre`, `StandsFor`). A reading of the same number is the same reading, which
  is why a reload that changes what is read takes a new number. A stream that ended is not opened again in its reading
  (`EndsForGood`), so what the text says to have stopped stays so. TLC checked `JobLogsInv` with two allocations at a time
  before it was proved. `Chosen`, the newest allocations up to the limit, is a function of the count of those before
  (`ChosenIs`), so that the proof needs no sort.
* `NoLogStreamStays` (`NoLogStreamLeft`): from `NoJobStreamStays` and `NoTailStays`, its two parts. Of a job it rests on
  `JobLogsInv`: a stream that is open is in the page or in the one message that opened it, and the page has at most one
  of each allocation it reads, hence no more than `JobLogLimit`. Of a task it rests on `TailsInv`: a message that brings a
  stream names one of them, the end of a stream comes only when it is closed, and a stream that is open is in a message,
  is the one that is read, or has ended.
* `TextStays` (`LogAsWritten`): from `TextInv`, under any interleaving of what is written, turned over,
  sent, read back, left and opened again. Its parts:
  - `TailsOK`, of each open stream: what it holds and has ready are bytes of its log, one after the other and up to where
    it has read (`Held`); it began on the edge of a line (`Begun`); what is counted of the part that was there before is
    what is left of it (`Counted`, `EndKnown`). A frame keeps this however it is cut (`FramesAre`, `UncutIs`,
    `TakenIs`, `FrameKeeps`): a stream whose start falls inside a line leaves the rest of that line out, and only the first text that
    is not of it begins the stream.
  - `Tokens`, `Openers`: each stream is brought by one message, and one message of an ask opens each source. So the page
    never reads two streams of one log, and nothing puts lines to a text but the one message of its stream.
  - `Parts`: a part read backwards ends where the text began when it was asked for, whatever file it was cut from.
  - `Page`, `Given`: the lines in hand follow one another with no byte between them but the breaks (`Chained`), and what
    the stream has ahead goes on where they end (`Joins`), or nothing was given yet (`Untold`). Each put of lines, after or
    before, keeps the chain, also when the oldest lines are dropped for room (`AddedIs`, `ChainBoth`).
  - `OldHaveNoTime` is a part of it: what is counted decides which lines get a time, and nothing is counted of a log
    whose end was not read.

  `TextStays` has the hypothesis `NotSwitchedBack`: no switch to a source whose opening, of the same ask, is still on its
  way. It is needed, and false in the code: two such switches read the log twice (`log_twice`).
  The run of `reads` looks at files of two bytes; the theorems are for files, limits and tails of any length.

`SessionProofs` (Session, Note and Readings):

* `OfHere`, `EndsElsewhere`, `ToTheLast` (`AllIsOfHere`, `DoneElsewhere`, `MovesToLast`): from `SessionInv`, which is
  `Standing` (the screens, marks, question and datacenters are of where the session is, under the history too),
  `Waiting` (an answer whose ask is the one that counts is of here; a connect that counts is to the cluster asked for
  last), `SavedFits` (the saved session is the open one) and `Room`. `Waiting` is the heart: the label of an answer
  says enough of where it was asked.
* `ChainsGoOn` (`ReadingsGoOn`): from `ReadingsInv`. What is out for a screen is of the ask of now or an earlier one
  (`AwaitedOK`), so that a new ask has nothing out yet.
* `GoesInItsTime` (`MessageHasItsTime`): from `LineInv`, the message on the line has the number said last.
* `OneFollows` (`FollowsOn`): from `FollowInv`. Each stream is held by one message, the note reads no stream it has not
  been told of, and exactly one message goes on for the note as it is.
* `TakesEachOnce` (`EachEventOnce`): from `FollowInv` and `OnceInv`. What is taken, what is on its way and what the
  stream has not sent make up the log without a gap: `Placed` says of each message where in the log it is. The events of
  a log are in the order of their indexes (`NoteAssumption`), as Nomad sends them.

`EditProofs` (Edit):

* `OverWhatIsKnown` (`SavesOverKnown`): from `ShapeInv`, what a slot at each stage holds, and what a warning, a plan and
  a submit know. For any number of edits in hand.
* `FilesKept`, `UnchangedStays` (`FilesAccounted`, `NothingSentUnchanged`): from `FilesInv`. There is one edit with the
  editor or on its way to it (`OneEdit`), it is what `Model.editing` describes, and no two slots have one file. Under
  `Together = 1`, one edit in hand at a time. The hypothesis is needed: with two the second is false (`edit_two`).
* `TextsKept` (`NoTextLost`): from `TextInv`, under `Together = 1`. A text that may go (its stage ends and nothing else
  has it) is settled: the cluster took it, or the person gave it up, wrote over it, or left its plan.

`LastingProofs`, of the events (Feed with Stream):

* `NoStreamStays` (`NoStreamLeft`): from `FeedInv`. A message has the number of its ask and of its stream, an ask has one
  message (`Labelled`), and the page reads the stream of its ask or none yet (`ReadsItsOwn`).
* `PageIsTheLog` (`FeedIsTheLog`): from `LogInv`. The page has what its namespace wrote up to its newest event
  (`PageHas`), an ask goes on after that (`Asks`), and what is in the message, on the channel, in the batch and still to
  be read by the pump is the rest of the log, in order (`Brought`). Under `Singles`, each event an index of its own: with
  two of one index it is false, which is what `feed_together` shows.

`ScreenProofs` (Lists, Pages and Browse):

* `ActsOnSeen`, `StaysOnItsResource`, `UnmarksDone` (`ActsOnWhatIsSeen`, `CursorStaysOnItsResource`,
  `UnmarksWhatItDid`): from `ListsInv`. The ids under a table are those of the answer, narrowed, each once and in the
  order of the sort (`ListShape`); the cursor is inside the window or on none (`InView`); the list is of the answer on the
  screen (`FromPage`). `ArrangedIs` is the lemma it rests on: a strict order puts any finite set in a row.
* `ReadOnlyHolds`, `NamespaceIsKept`, `WatchedIsRead` (`ReadOnlyChangesNothing`, `KeepsToTheNamespace`,
  `WatchesWhatItReads`): from `BrowseInv`. A lemma per page says of all its keys where they act and what they open
  (`Suits`). A page is then of a thing in a namespace, of none, or the logs of a list of all of them (`OwnOK`), and a row
  is of the namespace of its page (`RowOK`); in read-only mode no plan is on the stack (`Harmless`), not even under the
  open page. `WatchedIsRead` is of every page but the two of the queue, for which it is false (`pages_queue`); it is for
  any depth of the stack, and leaves out no page.
* `OneThingOfAKey` (`OneKeyOneThing`): from `BrowseInv`, whose `RowOK` says that a row has the facts of its page. A lemma
  per page says that its keys are apart (`KeysApart`): no two have one press, or the conditions they are offered under
  exclude each other, as for `enter` on a job and on a match, `s` on a version, `y` on a plan and `ctrl+s` on a
  deployment. It is of every page but the volume's, for which it is false.

`TextProofs` (TextWindow; any height, widths, lines and limit of a text):

* `TextDrawn` (`DrawnAsAfresh`): from `TextInv`. Every line there is has a number of its own (`Numbered`), the window is
  over the text as it is, and what it keeps is what a drawing made afresh would give (`Fresh`), unless nothing was drawn
  yet. `refresh` goes on from the kept rows when the id and the settings are those they were drawn for, and that is right
  only if the text of that id went on from the one that was drawn: some lines left at the front, some arrived at the end
  (`WentOn`). So between a change of the text and its layout a window is `Stale`: kept for such an earlier text, or not
  drawn yet; `RefreshedIs` says that bringing it up to date makes it `Fresh`. What `Measured` leaves out is right because
  the widest row of what is left is either the one known or measured again (`MeasuredIs`, `WidestOfBoth`).
* `TextKeepsPlace` (`KeepsItsPlace`): from `TextInv`. What was dropped at the front takes as many rows from the place as
  they were drawn as (`TopStays`, `GoneRows`), what is put in front adds as many (`FrontOfLines`, `StaysBehind`), and
  since the numbers of the lines are apart, a row that is still in the text is the same row (`ArrivedAreOthers`).
* `TextReachesMatches` (`EveryMatchIsReached`): from `TextInv`. The matches that were gone to are always a span, from the
  first one on to the last one, perhaps round the end of the text (`Span`, `SpanGrows`). If a press came to one of them
  again, the span would be of all matches; so each press comes to a new one until as many were gone to as there are
  (`AllGoneTo`, `PressesReach`).

The rows of a text, their counts and the presses are folds (`FlattenSeq`, `FoldSeq`, `FoldLeft`), which the community
modules define by the choice of a recursive function. `SumExists`, `GluedExists` and `PressedExists` prove that there is
such a function, place by place, by the induction of `Inducts` over a set of naturals (from `MinIs` of `Extrema`); with
that, `SumIs`, `FlatIs` and `AfterIs` say what the folds are, and no step unfolds one after that.

The proof of `NamespaceIsKept` found two places where the model was wrong, with four pages on top of one another, which
the run of three does not reach: a list opened from the overview was given a namespace of its own, which `openFaultList`
does not do; and a description of something of no namespace could have been an evaluation, with a key that opens the
allocations of it. Both are as in the code now.

Only model-checked:

* All liveness (`CatchesUp`, `HandsBack`, `WritesEnd`, `StreamsMoveOn`), which needs fairness and `ENABLED`. Every
  safety property of a passing run has a theorem.

## What is not modelled

* Edit: objects that Nomad saves without a check (ACL policies, roles and tokens, node metadata), and the payload of a
  dispatch. Edit lets every write of a temp file succeed: when it cannot be written the code says so, and the text is
  then nowhere. A plan in Edit is of the whole file; its counts are in Counts, for a job of one group.
* SavedSession has one urga at a time. Two share one file, and the sessions of all clusters are written by each as it
  loaded them. Power loss: `writeWhole` syncs the temp file and not the directory; the model has the process die, not
  the machine.
* Feed leaves out what an event says, its row and the cursor on it, and the faults of a stream are bounded together
  with those of its opening. Note leaves out the words of a failure.
* TaskLog leaves out the log of an agent (`agentlogs.go`), which has no earlier part, the chart of how much was written
  and the log saved to a file.
* Session lets a person name any namespace and region (`pick` and `knowsNamespace` refuse one the cluster has not
  answered). The deletion of the namespace the session is in is in Browse, the readings of the header in Readings, and
  the place of the cursor that `back` returns to in Lists.
* Readings leaves out what a reading says, Lists the columns and their width, TextWindow colours and the cells of a
  character, Browse the form of a dispatch, completion and the editing of a line.
* Files, the shell, copying and saving: the terminal and the file system do the work.
* The client of the cluster (`internal/nomad`) decodes one request per method; its answers are chosen by the
  environment. The methods that make several requests are modelled: `withoutLimits`, `variableConflict`,
  `keepCounts`, `CreateNamespace`, `readDeploy`, `Logs` and `readBack`.
* Header, layout, colours and help are functions of the state; the settings are read once; the rest is the build.

## Plan

1. Modelled, as above: Watch, Edit, Counts, SavedSession with Remembered, Feed with Stream, TaskLog, JobLogs, Deploy,
   Session, Note, Readings, Pages with Browse, Lists, TextWindow.
2. Proved, as above: every safety property of a passing run, of Watch, Edit, Counts, Deploy, SavedSession, Session,
   Note, Readings, Feed, TaskLog, JobLogs, Pages with Browse, Lists and TextWindow.
3. Then: an abstract specification of Session, "an answer is shown only where it was asked", that Session implements.
4. To model: the saves without a check, the log of an agent, the form of a dispatch, completion.

## How to run it

    tlc -workers 2 -config MCWatch.cfg MCWatch
    tlc -workers 2 -config MCEdit.cfg MCEdit
    tlc -workers 2 -config MCLasting.cfg MCLasting
    tlc -workers 2 -config MCReads.cfg MCReads
    tlc -workers 2 -config MCScreen.cfg MCScreen
    tlc -workers 2 -config MCSession.cfg MCSession
    tlapm Extrema.tla
    tlapm WatchProofs.tla
    tlapm EditProofs.tla
    tlapm JobProofs.tla
    tlapm SessionProofs.tla
    tlapm LastingProofs.tla
    tlapm ScreenProofs.tla
    tlapm TextProofs.tla

The community modules (`FiniteSetsExt`, `Functions`, `SequencesExt`) and the modules of TLAPS have to be on the
library path. The proofs of Edit, Session, Watch, the screens, the text and what lasts take some minutes
each, those of jobs and their logs more than ten.
