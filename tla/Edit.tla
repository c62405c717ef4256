-------------------------------- MODULE Edit --------------------------------
(***************************************************************************)
(* Editing a thing of the cluster as a file (internal/ui/edit.go, with     *)
(* variable.go, scheduler.go, plan.go and the parts of screen.go that      *)
(* report what came late).                                                 *)
(*                                                                         *)
(* The program takes one message at a time, and none while the editor has  *)
(* the terminal.  Requests run beside it, and their messages are taken in  *)
(* any order.  A variable and the scheduler configuration are saved at the *)
(* index they were read at; a job is planned first, and the plan submitted *)
(* at the index of the plan.                                               *)
(***************************************************************************)
EXTENDS Integers, Sequences, FiniteSets, Functions, SequencesExt

CONSTANTS
  Saved,      (* what is saved with check-and-set                          *)
  Planned,    (* jobs: planned, then submitted                             *)
  NoThing,
  Together,   (* how many edits the person has in hand at once             *)
  MaxAsked, MaxTyped, MaxIndex, MaxWork, MaxPaths, MaxEditFaults (* bounds *)

Things == Saved \cup Planned

ASSUME ThingsAssumption == Saved \cap Planned = {} /\ NoThing \notin Things

ASSUME EditBounds ==
  /\ Together \in Nat \ {0} /\ MaxAsked \in Nat \ {0} /\ MaxTyped \in Nat
  /\ MaxIndex \in Nat \ {0} /\ MaxWork \in Nat \ {0} /\ MaxPaths \in Nat \ {0}
  /\ MaxEditFaults \in Nat

VARIABLES
  asked,     (* Model.asked                                                *)
  screens,   (* Model.history and Model.screen: lists and plans            *)
  editing,   (* Model.editing                                              *)
  work,      (* requests, messages and editors, by slot                    *)
  disk,      (* the temp files                                             *)
  kept,      (* the files the status line named to the person              *)
  cluster,   (* the version of each thing                                  *)
  typed,     (* how many texts the person saved in the editor              *)
  over,      (* texts the cluster took, or the person gave up or replaced  *)
  editFaults (* how many faults the environment made                       *)

editVars == <<asked, screens, editing, work, disk, kept, cluster, typed, over, editFaults>>

Paths == 1 .. MaxPaths
Slots == 1 .. MaxWork
NoPath == 0

NoText == [of |-> NoThing, n |-> 0]

(* What a file holds: a text, and whether the reason of a refusal is at    *)
(* its top.                                                                *)
Content(text, header) == [text |-> text, header |-> header]
NoFile == Content(NoText, FALSE)

NoSubmit == [thing |-> NoThing, at |-> 0, fresh |-> FALSE, known |-> {}]

(* A page on the stack: a list, or the plan of a text.                     *)
List == [text |-> NoText, submit |-> NoSubmit]
Top == Last(screens)
IsPlan(page) == page.submit # NoSubmit

(* The zero of editFileMsg.                                                *)
NoEdit == [original |-> NoFile, submit |-> NoSubmit, asked |-> 0]

Idle == [stage |-> "idle", asked |-> 0, wrote |-> FALSE, path |-> NoPath,
         content |-> NoFile, submit |-> NoSubmit]

(* The stages at which the text is in the file, and content is what the    *)
(* file was opened with.                                                   *)
InFile == {"file", "exec", "editor", "edited", "failed"}

-----------------------------------------------------------------------------
Late(s) == work[s].asked # asked

(* What the person has in hand: an edit of the screen, or one the editor   *)
(* was asked for.                                                          *)
InHand == {s \in Slots : \/ work[s].stage \in {"exec", "editor", "edited", "failed"}
                         \/ work[s].stage # "idle" /\ ~Late(s)}

(* tea.ExecProcess: the editor has the terminal, and the program waits.    *)
Blocked == \E s \in Slots : work[s].stage = "editor"

FreeSlots == {s \in Slots : work[s].stage = "idle"}
FreeSlot == CHOOSE s \in FreeSlots : \A other \in FreeSlots : s <= other

(* os.CreateTemp: a name that no file has.                                 *)
FreePaths == {p \in Paths : disk[p] = NoFile}
FreePath == CHOOSE p \in FreePaths : \A other \in FreePaths : p <= other

Start(w) == /\ FreeSlots # {}
            /\ work' = [work EXCEPT ![FreeSlot] = w]

Becomes(s, w) == work' = [work EXCEPT ![s] = w]

At(s, stage) == [work[s] EXCEPT !.stage = stage]

(* A text of the person, as an element of over.                            *)
Typed(text) == {text.n} \cap 1 .. MaxTyped

(* The cluster takes a text of t.                                          *)
Accept(t, text) ==
  /\ cluster' = [cluster EXCEPT ![t].last = @ + 1, ![t].index = cluster[t].last + 1,
                                ![t].n = text.n]
  /\ over' = over \cup Typed(text)

-----------------------------------------------------------------------------
EditInit ==
  /\ asked = 1
  /\ screens = <<List>>
  /\ editing = NoEdit
  /\ work = [s \in Slots |-> Idle]
  /\ disk = [p \in Paths |-> NoFile]
  /\ kept = {}
  /\ cluster \in [Things -> {[index |-> i, last |-> i, locked |-> FALSE, n |-> -i] : i \in 0 .. 1}]
  /\ typed = 0
  /\ over = {}
  /\ editFaults = 0

(* The rest of the cluster: other people and the holders of locks.         *)
Others(t, now) ==
  /\ cluster' = [cluster EXCEPT ![t] = now]
  /\ UNCHANGED <<asked, screens, editing, work, disk, kept, typed, over, editFaults>>

Change(t) ==
  /\ cluster[t].last < MaxIndex /\ ~cluster[t].locked
  /\ LET i == cluster[t].last + 1
     IN  Others(t, [index |-> i, last |-> i, locked |-> FALSE, n |-> -i])

Delete(t) ==
  /\ cluster[t].index # 0 /\ cluster[t].last < MaxIndex /\ ~cluster[t].locked
  /\ Others(t, [cluster[t] EXCEPT !.index = 0, !.n = 0])

Lock(t) ==
  /\ t \in Saved /\ cluster[t].index # 0 /\ cluster[t].last < MaxIndex
  /\ Others(t, [cluster[t] EXCEPT !.locked = ~@])

-----------------------------------------------------------------------------
(* The person.                                                             *)

(* e: the thing under the cursor is read for the editor.                   *)
PressEdit(t) ==
  /\ ~Blocked /\ ~IsPlan(Top) /\ Cardinality(InHand) < Together
  /\ ~cluster[t].locked
  /\ Start([Idle EXCEPT !.stage = "read", !.asked = asked,
                        !.submit = [NoSubmit EXCEPT !.thing = t]])
  /\ UNCHANGED <<asked, screens, editing, disk, kept, cluster, typed, over, editFaults>>

(* n: a template is opened, and sent to make a new one.                    *)
PressNew(t) ==
  /\ ~Blocked /\ ~IsPlan(Top) /\ Cardinality(InHand) < Together
  /\ Start([Idle EXCEPT !.stage = "write", !.asked = asked,
                        !.content = Content([of |-> t, n |-> 0], FALSE),
                        !.submit = [thing |-> t, at |-> 0, fresh |-> TRUE, known |-> {0}]])
  /\ UNCHANGED <<asked, screens, editing, disk, kept, cluster, typed, over, editFaults>>

(* Another screen is opened on top of this one.                            *)
MoveOn ==
  /\ ~Blocked /\ asked < MaxAsked
  /\ screens' = Append(screens, List)
  /\ asked' = asked + 1
  /\ UNCHANGED <<editing, work, disk, kept, cluster, typed, over, editFaults>>

(* Escape: a plan that is left is given up.                                *)
Back ==
  /\ ~Blocked /\ asked < MaxAsked /\ Len(screens) > 1
  /\ screens' = Front(screens)
  /\ asked' = asked + 1
  /\ over' = over \cup Typed(Top.text)
  /\ UNCHANGED <<editing, work, disk, kept, cluster, typed, editFaults>>

(* submitPlan: the file goes at the index it was planned at.               *)
PressSubmit ==
  /\ ~Blocked /\ IsPlan(Top) /\ ~(Top.submit.fresh /\ Top.submit.at # 0)
  /\ cluster[Top.submit.thing].last < MaxIndex
  /\ Start([Idle EXCEPT !.stage = "send", !.asked = asked, !.wrote = TRUE,
                        !.content = Content(Top.text, FALSE), !.submit = Top.submit])
  /\ UNCHANGED <<asked, screens, editing, disk, kept, cluster, typed, over, editFaults>>

(* replan asks about the same file again.                                  *)
PressReplan ==
  /\ ~Blocked /\ IsPlan(Top)
  /\ Start([Idle EXCEPT !.stage = "replan", !.asked = asked,
                        !.content = Content(Top.text, FALSE), !.submit = Top.submit])
  /\ UNCHANGED <<asked, screens, editing, disk, kept, cluster, typed, over, editFaults>>

(* What the editor may leave in a file that holds content.                 *)
Written(content) ==
  {content, [content EXCEPT !.header = FALSE]} \cup
  {Content([of |-> content.text.of, n |-> typed + 1], h) :
     h \in IF typed < MaxTyped THEN {FALSE, content.header} ELSE {}}

(* The person closes the editor: with the file as it was, with a text of   *)
(* theirs, or with the lines of the reason deleted.  A text left as it was *)
(* is given up, one written over is replaced.                              *)
CloseEditor(s, content) ==
  /\ work[s].stage = "editor" /\ content \in Written(disk[work[s].path])
  /\ LET was == disk[work[s].path]
     IN  /\ disk' = [disk EXCEPT ![work[s].path] = content]
         /\ typed' = IF content.text.n > typed THEN content.text.n ELSE typed
         /\ over' = IF content = was \/ content.text # was.text THEN over \cup Typed(was.text)
                    ELSE over
  /\ Becomes(s, At(s, "edited"))
  /\ UNCHANGED <<asked, screens, editing, kept, cluster, editFaults>>

(* The editor ends with an error: what it left is given up.                *)
EditorFails(s) ==
  /\ work[s].stage = "editor" /\ editFaults < MaxEditFaults
  /\ editFaults' = editFaults + 1
  /\ over' = over \cup Typed(disk[work[s].path].text)
  /\ Becomes(s, At(s, "failed"))
  /\ UNCHANGED <<asked, screens, editing, disk, kept, cluster, typed>>

-----------------------------------------------------------------------------
(* The requests.                                                           *)

(* openEditor writes what it read to a temp file and hands it over.        *)
WritesFile(s, content, submit) ==
  /\ FreePaths # {}
  /\ disk' = [disk EXCEPT ![FreePath] = content]
  /\ Becomes(s, [work[s] EXCEPT !.stage = "file", !.path = FreePath,
                                !.content = content, !.submit = submit])
  /\ UNCHANGED <<asked, screens, editing, kept, cluster, typed, over, editFaults>>

ReadFile(s) ==
  LET t == work[s].submit.thing
      i == cluster[t].index
  IN  /\ work[s].stage = "read" /\ i # 0
      /\ WritesFile(s, Content([of |-> t, n |-> cluster[t].n], FALSE),
                    [thing |-> t, at |-> i, fresh |-> FALSE, known |-> {i}])

(* A template, or a refused edit with the reason at its top.               *)
WriteFile(s) == work[s].stage = "write" /\ WritesFile(s, work[s].content, work[s].submit)

(* The thing is gone: there is an error instead of a file.                 *)
ReadFails(s) ==
  /\ work[s].stage = "read" /\ cluster[work[s].submit.thing].index = 0
  /\ Becomes(s, Idle)
  /\ UNCHANGED <<asked, screens, editing, disk, kept, cluster, typed, over, editFaults>>

(* What the cluster takes: an edit of the version it has, of nothing for a *)
(* new one, of a thing no one holds.                                       *)
Takes(submit) ==
  LET now == cluster[submit.thing]
  IN  ~now.locked /\ now.index = IF submit.fresh THEN 0 ELSE submit.at

(* SubmitVariable, SubmitScheduler: saved at the index or refused; a       *)
(* refusal is looked into.                                                 *)
SaveChecks(s) ==
  /\ work[s].stage = "save"
  /\ IF Takes(work[s].submit)
     THEN Accept(work[s].submit.thing, work[s].content.text) /\ Becomes(s, Idle)
     ELSE Becomes(s, At(s, "peek")) /\ UNCHANGED <<cluster, over>>
  /\ UNCHANGED <<asked, screens, editing, disk, kept, typed, editFaults>>

(* The save fails, or goes through and its answer is lost.                 *)
SaveFails(s) ==
  /\ work[s].stage = "save" /\ editFaults < MaxEditFaults
  /\ editFaults' = editFaults + 1
  /\ \/ UNCHANGED <<cluster, over>>
     \/ Takes(work[s].submit) /\ Accept(work[s].submit.thing, work[s].content.text)
  /\ Becomes(s, At(s, "refused"))
  /\ UNCHANGED <<asked, screens, editing, disk, kept, typed>>

(* The edit goes back with the index the next save is to replace, which    *)
(* the reason at the top of the file says.                                 *)
Warned(s, i) ==
  Becomes(s, [At(s, "refused") EXCEPT !.submit.at = i, !.submit.fresh = (i = 0),
                                      !.submit.known = @ \cup {i}])

(* A mutated Peek: a locked one is sent at the index it has now.           *)
PeekThroughLocks(s, sees) ==
  LET now == cluster[work[s].submit.thing]
  IN  /\ work[s].stage = "peek"
      /\ IF now.locked /\ sees
         THEN Becomes(s, [At(s, "refused") EXCEPT !.submit.at = now.index])
         ELSE Warned(s, now.index)
      /\ UNCHANGED <<asked, screens, editing, disk, kept, cluster, typed, over, editFaults>>

(* variableConflict reads the variable again to say what happened to it.   *)
(* A token that is not management does not see a lock (sees): the variable *)
(* is held when it still has the index of the save.  A locked or held one  *)
(* is sent at the old index again.                                         *)
Peek(s, sees) ==
  LET now  == cluster[work[s].submit.thing]
      held == now.index # 0 /\ IF now.locked /\ sees THEN TRUE
                               ELSE now.index = work[s].submit.at
  IN  /\ work[s].stage = "peek"
      /\ IF held THEN Becomes(s, At(s, "refused")) ELSE Warned(s, now.index)
      /\ UNCHANGED <<asked, screens, editing, disk, kept, cluster, typed, over, editFaults>>

(* Reading it again failed: the edit goes back at the old index.           *)
PeekFails(s) ==
  /\ work[s].stage = "peek" /\ editFaults < MaxEditFaults
  /\ editFaults' = editFaults + 1
  /\ Becomes(s, At(s, "refused"))
  /\ UNCHANGED <<asked, screens, editing, disk, kept, cluster, typed, over>>

(* PlanJob: the plan shows what the submit replaces.                       *)
PlanAnswers(s) ==
  /\ work[s].stage \in {"plan", "replan"}
  /\ LET i == cluster[work[s].submit.thing].index
     IN  Becomes(s, [At(s, "planned") EXCEPT !.submit.at = i, !.submit.known = {i}])
  /\ UNCHANGED <<asked, screens, editing, disk, kept, cluster, typed, over, editFaults>>

(* The file does not parse, or names another job: an edit is reopened, a   *)
(* plan asked for again says so.                                           *)
PlanRefused(s) ==
  /\ work[s].stage \in {"plan", "replan"} /\ editFaults < MaxEditFaults
  /\ editFaults' = editFaults + 1
  /\ Becomes(s, IF work[s].stage = "plan" THEN At(s, "refused") ELSE Idle)
  /\ UNCHANGED <<asked, screens, editing, disk, kept, cluster, typed, over>>

(* SubmitJob at the index of the plan.  A job that changed since, or a     *)
(* failure, leaves the plan open.                                          *)
SendAnswers(s) ==
  /\ work[s].stage = "send"
  /\ IF Takes(work[s].submit)
     THEN Accept(work[s].submit.thing, work[s].content.text) /\ Becomes(s, At(s, "planDone"))
     ELSE Becomes(s, Idle) /\ UNCHANGED <<cluster, over>>
  /\ UNCHANGED <<asked, screens, editing, disk, kept, typed, editFaults>>

SendFails(s) ==
  /\ work[s].stage = "send" /\ editFaults < MaxEditFaults
  /\ editFaults' = editFaults + 1
  /\ \/ UNCHANGED <<cluster, over>>
     \/ Takes(work[s].submit) /\ Accept(work[s].submit.thing, work[s].content.text)
  /\ Becomes(s, Idle)
  /\ UNCHANGED <<asked, screens, editing, disk, kept, typed>>

-----------------------------------------------------------------------------
(* The program takes a message.                                            *)

(* startEdit: the file is the one being edited, and the editor is asked    *)
(* for the terminal.  It leaves with the ask of the screen it opened on.   *)
StartEdit(s) ==
  /\ editing' = [original |-> work[s].content, submit |-> work[s].submit, asked |-> asked]
  /\ Becomes(s, [Idle EXCEPT !.stage = "exec", !.path = work[s].path,
                             !.content = work[s].content])
  /\ UNCHANGED <<disk, kept>>

(* A file that comes late: the text of a person is kept and named, what    *)
(* the cluster keeps secret is removed (reportLate, release).              *)
KeepFile(s) ==
  /\ IF work[s].content.header
     THEN kept' = kept \cup {work[s].path} /\ UNCHANGED disk
     ELSE disk' = [disk EXCEPT ![work[s].path] = NoFile] /\ UNCHANGED kept
  /\ Becomes(s, Idle)
  /\ UNCHANGED editing

(* A mutated TakeFile: a late file is dropped like any late answer.        *)
TakeFileOrForget(s) ==
  /\ work[s].stage = "file"
  /\ IF Late(s) THEN Becomes(s, Idle) /\ UNCHANGED <<disk, kept, editing>> ELSE StartEdit(s)
  /\ UNCHANGED <<asked, screens, cluster, typed, over, editFaults>>

TakeFile(s) ==
  /\ work[s].stage = "file"
  /\ IF Late(s) THEN KeepFile(s) ELSE StartEdit(s)
  /\ UNCHANGED <<asked, screens, cluster, typed, over, editFaults>>

(* The exec message: the editor gets the terminal.                         *)
OpenEditor(s) ==
  /\ work[s].stage = "exec"
  /\ Becomes(s, At(s, "editor"))
  /\ UNCHANGED <<asked, screens, editing, disk, kept, cluster, typed, over, editFaults>>

(* The edited file is sent as the edit in hand says, whatever screen is    *)
(* open now.                                                               *)
SendEdit(s, content) ==
  Becomes(s, [Idle EXCEPT !.stage = IF editing.submit.thing \in Saved THEN "save" ELSE "plan",
                          !.asked = editing.asked, !.wrote = TRUE,
                          !.content = Content(content.text, FALSE),
                          !.submit = editing.submit])

(* finishEdit: the file is read and removed.  An unchanged one sends       *)
(* nothing.                                                                *)
FinishEdit(s) ==
  /\ work[s].stage \in {"edited", "failed"}
  /\ editing' = NoEdit
  /\ disk' = [disk EXCEPT ![work[s].path] = NoFile]
  /\ IF \/ work[s].stage = "failed"
        \/ disk[work[s].path] = editing.original
        \/ editing.submit = NoSubmit
     THEN Becomes(s, Idle) ELSE SendEdit(s, disk[work[s].path])
  /\ UNCHANGED <<asked, screens, kept, cluster, typed, over, editFaults>>

(* keepText writes the text of an edit that has no screen to open on.      *)
KeepText(s) ==
  /\ FreePaths # {}
  /\ disk' = [disk EXCEPT ![FreePath] = work[s].content]
  /\ kept' = kept \cup {FreePath}
  /\ Becomes(s, Idle)

(* A mutated TakeRefused: the refusal waits for its screen.                *)
TakeRefusedOnItsScreen(s) ==
  /\ work[s].stage = "refused" /\ ~Late(s)
  /\ Becomes(s, [At(s, "write") EXCEPT !.asked = asked, !.content.header = TRUE])
  /\ UNCHANGED <<asked, screens, editing, disk, kept, cluster, typed, over, editFaults>>

(* refusedEditMsg: the edit opens again with the reason at its top.        *)
TakeRefused(s) ==
  /\ work[s].stage = "refused"
  /\ IF Late(s) THEN KeepText(s)
     ELSE /\ Becomes(s, [At(s, "write") EXCEPT !.asked = asked, !.content.header = TRUE])
          /\ UNCHANGED <<disk, kept>>
  /\ UNCHANGED <<asked, screens, editing, cluster, typed, over, editFaults>>

(* A mutated TakePlan: a late plan is dropped like any late answer.        *)
TakePlanOrDrop(s) ==
  /\ work[s].stage = "planned"
  /\ IF Late(s) THEN UNCHANGED <<screens, asked>>
     ELSE /\ screens' = Append(screens, [text |-> work[s].content.text, submit |-> work[s].submit])
          /\ asked' = asked + 1
  /\ Becomes(s, Idle)
  /\ UNCHANGED <<editing, disk, kept, cluster, typed, over, editFaults>>

(* A plan arrives: in the place of the plan of the same job that is open,  *)
(* on top of the screen it was asked from, or late.  A late plan of an     *)
(* edit leaves its text in a file, one asked for again is dropped.         *)
TakePlan(s) ==
  /\ work[s].stage = "planned"
  /\ LET plan == [text |-> work[s].content.text, submit |-> work[s].submit]
     IN  CASE Late(s) /\ work[s].wrote -> KeepText(s) /\ UNCHANGED <<asked, screens>>
           [] Late(s) /\ ~work[s].wrote -> Becomes(s, Idle) /\ UNCHANGED <<asked, screens, disk, kept>>
           [] ~Late(s) /\ IsPlan(Top) /\ Top.submit.thing = plan.submit.thing ->
                /\ screens' = Append(Front(screens), plan)
                /\ Becomes(s, Idle) /\ UNCHANGED <<asked, disk, kept>>
           [] OTHER -> /\ screens' = Append(screens, plan)
                       /\ asked' = asked + 1
                       /\ Becomes(s, Idle) /\ UNCHANGED <<disk, kept>>
  /\ UNCHANGED <<editing, cluster, typed, over, editFaults>>

(* planDoneMsg: back to where the edit started, with the watch of the      *)
(* deploy on top unless the job launches others.                           *)
TakePlanDone(s) ==
  /\ work[s].stage = "planDone"
  /\ IF ~Late(s) /\ IsPlan(Top) /\ Top.submit.thing = work[s].submit.thing
     THEN \/ screens' = Front(screens) /\ asked' = asked + 1
          \/ screens' = Append(Front(screens), List) /\ asked' = asked + 2
     ELSE UNCHANGED <<screens, asked>>
  /\ Becomes(s, Idle)
  /\ UNCHANGED <<editing, disk, kept, cluster, typed, over, editFaults>>

TakesMessage(s) ==
  \/ TakeFile(s) \/ OpenEditor(s) \/ FinishEdit(s)
  \/ TakeRefused(s) \/ TakePlan(s) \/ TakePlanDone(s)

Answers(s) ==
  \/ ReadFile(s) \/ WriteFile(s) \/ ReadFails(s) \/ SaveChecks(s)
  \/ \E sees \in BOOLEAN : Peek(s, sees)
  \/ PlanAnswers(s) \/ SendAnswers(s)

Closes(s) == work[s].stage = "editor" /\ \E content \in Written(disk[work[s].path]) : CloseEditor(s, content)

EditNext ==
  \/ \E t \in Things : Change(t) \/ Delete(t) \/ Lock(t) \/ PressEdit(t) \/ PressNew(t)
  \/ MoveOn \/ Back \/ PressSubmit \/ PressReplan
  \/ \E s \in Slots : \/ (~Blocked /\ TakesMessage(s))
                       \/ Answers(s) \/ SaveFails(s) \/ PeekFails(s) \/ PlanRefused(s) \/ SendFails(s)
                       \/ Closes(s) \/ EditorFails(s)

(* A request ends within defaultTimeout; a message that waits is taken     *)
(* once the editor gave the terminal back, which the person does.          *)
EditFairness ==
  \A s \in Slots : /\ WF_editVars(Answers(s))
                  /\ SF_editVars(~Blocked /\ TakesMessage(s))
                  /\ WF_editVars(Closes(s))

-----------------------------------------------------------------------------
(* A text is somewhere the person gets it from: on its way in the program, *)
(* in a file, or in a plan.                                                *)
Held(n) ==
  \/ \E s \in Slots : work[s].stage \notin InFile /\ work[s].content.text.n = n
  \/ \E p \in Paths : disk[p].text.n = n
  \/ \E i \in DOMAIN screens : screens[i].text.n = n

(* What a person saved in the editor is never lost: the cluster took it,   *)
(* the person gave it up or wrote over it, or it is on its way, in a file  *)
(* or in a plan.  So it is when the cluster refuses it, when the answer    *)
(* comes after the screen was left, and when the text to open again is the *)
(* one that is late (reopening, reopenEdit, reportLate, keepText).         *)
NoTextLost == \A n \in 1 .. typed : n \in over \/ Held(n)

(* A temp file can hold what the cluster keeps secret.  It is there only   *)
(* while an edit uses it, or when it keeps a text of the person and the    *)
(* status line named it; and no two edits use one file (writeTemp,         *)
(* release, finishEdit).                                                   *)
FilesAccounted ==
  \A p \in Paths :
    LET users == {s \in Slots : work[s].path = p}
    IN  CASE p \in kept     -> disk[p].text.n >= 1 /\ users = {}
          [] p \notin kept -> Cardinality(users) = IF disk[p] = NoFile THEN 0 ELSE 1

(* A save or a submit replaces only a version the person opened, was       *)
(* warned about in the file, or saw the plan against: not one that came    *)
(* between a refusal and the read of what happened, and not the one behind *)
(* a lock (SubmitVariable, variableConflict, saveVariable, submitPlan).    *)
SavesOverKnown ==
  [][\A s \in Slots :
       work[s].stage \in {"save", "send"} /\ cluster' # cluster
         /\ work'[s].stage # work[s].stage =>
       cluster[work[s].submit.thing].index \in work[s].submit.known]_editVars

(* A file closed without a change sends nothing (finishEdit).              *)
NothingSentUnchanged ==
  [][\A s \in Slots :
       work[s].stage = "edited" /\ disk[work[s].path] = work[s].content
         => work'[s].stage \in {"edited", "idle"}]_editVars

(* What was saved in the editor comes back to the person or is settled: it *)
(* does not stay on its way.                                               *)
HandsBack ==
  \A n \in 1 .. MaxTyped :
    LET onItsWay == \E s \in Slots : /\ work[s].stage \in {"save", "peek", "plan", "planned",
                                                            "refused", "write"}
                                     /\ work[s].wrote /\ work[s].content.text.n = n
    IN  onItsWay ~> ~onItsWay
=============================================================================
