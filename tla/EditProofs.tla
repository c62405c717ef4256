----------------------------- MODULE EditProofs -----------------------------
(***************************************************************************)
(* Proofs about Edit, for any things and bounds: what a save may replace,  *)
(* and, with one edit in hand at once, that no text is lost and no file is *)
(* left behind.                                                            *)
(***************************************************************************)
EXTENDS Edit, Extrema, FiniteSetTheorems, SequenceTheorems, TLAPS

Stages == {"idle", "read", "write", "save", "peek", "plan", "replan", "planned",
           "refused", "send", "planDone"} \cup InFile

Text    == [of : Things \cup {NoThing}, n : Int]
Holding == [text : Text, header : BOOLEAN]
Submit  == [thing : Things \cup {NoThing}, at : Nat, fresh : BOOLEAN, known : SUBSET Nat]
Work    == [stage : Stages, asked : Nat, wrote : BOOLEAN, path : 0 .. MaxPaths,
            content : Holding, submit : Submit]
Page    == [text : Text, submit : Submit]
Version == [index : Nat, last : Nat, locked : BOOLEAN, n : Int]

OtherTypes ==
  /\ asked \in Nat /\ screens \in Seq(Page) /\ screens # <<>>
  /\ editing \in [original : Holding, submit : Submit, asked : Nat]
  /\ disk \in [Paths -> Holding] /\ kept \subseteq Paths
  /\ cluster \in [Things -> Version]
  /\ typed \in Nat /\ over \subseteq Nat /\ editFaults \in Nat

-----------------------------------------------------------------------------
(* What is saved, and over what.                                           *)

(* The version a submit replaces is one the person knows of; a new one of  *)
(* the things that are saved replaces none.                                *)
Fits(submit) ==
  /\ submit.thing \in Things /\ submit.at \in submit.known
  /\ submit.thing \in Saved /\ submit.fresh => submit.at = 0

(* What the stage of a slot says of it.                                    *)
Shaped(w) ==
  /\ w.stage = "idle" => w = Idle
  /\ w.stage \in InFile <=> w.path # NoPath
  /\ w.stage = "read" => w.content = NoFile /\ w.submit.thing \in Things
  /\ w.stage \notin {"idle", "read", "exec", "editor", "edited", "failed"} => Fits(w.submit)
  /\ w.stage \in {"save", "peek"} => w.submit.thing \in Saved
  /\ w.stage \in {"plan", "replan", "planned"} => w.submit.thing \in Planned
  /\ w.stage = "send" /\ w.submit.fresh => w.submit.at = 0
  /\ w.stage = "replan" => ~w.wrote
  /\ w.stage \in {"save", "peek", "plan", "refused"} => w.wrote

(* What is not in a slot.                                                  *)
OthersOK ==
  /\ OtherTypes
  /\ ~IsPlan(screens[1])
  /\ \A i \in DOMAIN screens :
       IsPlan(screens[i]) => Fits(screens[i].submit) /\ screens[i].submit.thing \in Planned
  /\ editing.submit # NoSubmit => Fits(editing.submit)

ShapeInv == OthersOK /\ work \in [Slots -> Work] /\ \A s \in Slots : Shaped(work[s])

-----------------------------------------------------------------------------
(* The files, with one edit in hand.                                       *)
WithEditor == {"exec", "editor", "edited", "failed"}
OnTheWay == {"read", "write", "file", "save", "peek", "refused", "plan"}

(* The edit of the screen.                                                 *)
Current(w) == w.stage \in WithEditor \/ (w.stage \in OnTheWay /\ w.asked = asked)

(* One edit is with the editor or has the screen, and it is the one that   *)
(* Model.editing is about.                                                 *)
OneEdit ==
  /\ \A s, t \in Slots : Current(work[s]) /\ Current(work[t]) => s = t
  /\ \A s \in Slots : work[s].stage \in WithEditor =>
       editing.original = work[s].content /\ editing.submit # NoSubmit

(* Nothing is asked of a screen to come.                                   *)
NotAhead == editing.asked <= asked /\ \A s \in Slots : work[s].asked <= asked

(* The slots that have a text to edit.                                     *)
OfEdit(w) ==
  w.stage \in {"write", "save", "peek", "refused", "plan"} \cup InFile
    \/ (w.stage = "planned" /\ w.wrote)

(* What a slot holds: a text of a thing, one of the person once it was     *)
(* sent, with a reason at its top only if it was.                          *)
Holds(w) ==
  /\ OfEdit(w) => w.content.text.of \in Things
  /\ w.content.header => w.content.text.n >= 1
  /\ w.stage \in {"save", "peek", "refused", "plan"} \/ (w.stage = "planned" /\ w.wrote)
       => w.content.text.n >= 1

(* The file a slot uses is its own, and as it was opened until the editor  *)
(* closes.                                                                 *)
OwnFile(w) ==
  w.stage \in InFile =>
    /\ w.path \notin kept /\ disk[w.path].text.of \in Things
    /\ w.stage # "edited" => disk[w.path] = w.content
    /\ disk[w.path] = w.content \/ disk[w.path].text.n >= 1

FilesApart ==
  /\ \A s, t \in Slots : work[s].path = work[t].path /\ work[s].path # NoPath => s = t
  /\ \A p \in kept : disk[p].text.n >= 1 /\ disk[p].text.of \in Things
  /\ \A p \in Paths \ kept : disk[p] # NoFile => \E s \in Slots : work[s].path = p

FilesFit == FilesApart /\ \A s \in Slots : OwnFile(work[s])

FilesInv ==
  /\ ShapeInv /\ OneEdit /\ NotAhead /\ FilesFit
  /\ \A s \in Slots : Holds(work[s])

-----------------------------------------------------------------------------
(* The texts, with one edit in hand.                                       *)

(* A text that needs no place any more, or never was one of the person.    *)
Settled(n) == n \in over \/ n <= 0

OnScreen(n) == \E i \in DOMAIN screens : screens[i].text.n = n

(* The slots that have the text of an open plan.                           *)
OfPlan(w) == w.stage \in {"replan", "send", "planDone"} \/ (w.stage = "planned" /\ ~w.wrote)

(* The slots of an edit that has a list under it while it is not late.     *)
OfList(w) == w.stage \in OnTheWay \/ (w.stage = "planned" /\ w.wrote)

NumbersInv ==
  /\ typed <= MaxTyped
  /\ \A s \in Slots : work[s].content.text.n <= typed
  /\ \A p \in Paths : disk[p].text.n <= typed
  /\ \A i \in DOMAIN screens : screens[i].text.n <= typed
  /\ \A t \in Things : cluster[t].n <= typed /\ Settled(cluster[t].n)

(* What is under an ask stays what it was.                                 *)
ScreensInv ==
  /\ \A s \in Slots : ~Late(s) =>
       /\ OfPlan(work[s]) => /\ IsPlan(Top) /\ Top.text = work[s].content.text
                             /\ Top.submit.thing = work[s].submit.thing
       /\ OfList(work[s]) => ~IsPlan(Top)
  /\ editing.submit # NoSubmit /\ editing.asked = asked => ~IsPlan(Top)

(* What a slot may let go of: its text is settled, or somewhere else.      *)
MayGo(w) ==
  /\ w.stage \in {"write", "file"} /\ ~w.content.header => Settled(w.content.text.n)
  /\ w.stage = "failed" => Settled(disk[w.path].text.n)
  /\ w.stage = "edited" /\ disk[w.path] = w.content => Settled(w.content.text.n)
  /\ OfPlan(w) => Settled(w.content.text.n) \/ OnScreen(w.content.text.n)
  /\ w.stage = "planDone" => Settled(w.content.text.n)

TextInv ==
  /\ FilesInv /\ NumbersInv /\ ScreensInv /\ NoTextLost
  /\ \A s \in Slots : MayGo(work[s])
-----------------------------------------------------------------------------
(* Lemmas: slots, paths and pages.                                         *)

LEMMA EmptyIs ==
  /\ NoText \in Text /\ NoFile \in Holding /\ NoSubmit \in Submit
  /\ Idle \in Work /\ Shaped(Idle) /\ List \in Page
  /\ NoEdit \in [original : Holding, submit : Submit, asked : Nat]
<1>1. NoText \in Text
  BY DEF NoText, Text
<1>2. NoFile \in Holding
  BY <1>1 DEF NoFile, Content, Holding
<1>3. NoSubmit \in Submit
  BY DEF NoSubmit, Submit
<1>4. Idle \in Work
  BY <1>2, <1>3, EditBounds DEF Idle, Work, Stages, NoPath
<1>5. Shaped(Idle)
  BY DEF Shaped, Idle, InFile, NoPath
<1> QED
  BY <1>1, <1>2, <1>3, <1>4, <1>5 DEF List, Page, NoEdit

LEMMA FreePathIs ==
  ASSUME FreePaths # {}
  PROVE  FreePath \in Paths /\ disk[FreePath] = NoFile
<1>1. FreePaths \in SUBSET Nat
  BY EditBounds DEF FreePaths, Paths
<1>2. \E p \in FreePaths : \A other \in FreePaths : p <= other
  BY <1>1, MinIs
<1>3. FreePath \in FreePaths
  BY <1>2 DEF FreePath
<1> QED
  BY <1>3 DEF FreePaths

LEMMA BecomesIs ==
  ASSUME work \in [Slots -> Work], NEW s \in Slots, NEW w \in Work, Becomes(s, w)
  PROVE  /\ work' \in [Slots -> Work] /\ work'[s] = w
         /\ \A t \in Slots \ {s} : work'[t] = work[t]
BY DEF Becomes

LEMMA StartIs ==
  ASSUME NEW w, Start(w)
  PROVE  FreeSlot \in Slots /\ work[FreeSlot].stage = "idle" /\ Becomes(FreeSlot, w)
<1>1. FreeSlots \in SUBSET Nat /\ FreeSlots # {}
  BY EditBounds DEF FreeSlots, Slots, Start
<1>2. \E s \in FreeSlots : \A other \in FreeSlots : s <= other
  BY <1>1, MinIs
<1>3. FreeSlot \in FreeSlots
  BY <1>2 DEF FreeSlot
<1> QED
  BY <1>3 DEF FreeSlots, Start, Becomes

LEMMA TopIs ==
  ASSUME screens \in Seq(Page), screens # <<>>
  PROVE  /\ Len(screens) \in Nat \ {0} /\ Len(screens) \in DOMAIN screens
         /\ Top = screens[Len(screens)] /\ Top \in Page
BY DEF Top, Last

LEMMA FrontIs ==
  ASSUME NEW pages \in Seq(Page), pages # <<>>
  PROVE  /\ Front(pages) \in Seq(Page) /\ Len(Front(pages)) = Len(pages) - 1
         /\ \A i \in 1 .. Len(pages) - 1 : Front(pages)[i] = pages[i]
<1>1. Len(pages) \in Nat /\ Len(pages) - 1 \in Nat /\ Front(pages) = SubSeq(pages, 1, Len(pages) - 1)
  BY DEF Front
<1>2. \A i \in 1 .. Len(pages) - 1 : pages[i] \in Page
  BY <1>1
<1> DEFINE n == Len(pages) - 1
           front == SubSeq(pages, 1, n)
<1>3. n \in Nat /\ \A i \in 1 .. n : pages[i] \in Page
  BY <1>1, <1>2
<1> HIDE DEF n
<1>4. /\ front \in Seq(Page)
      /\ Len(front) = IF 1 <= n THEN n - 1 + 1 ELSE 0
      /\ \A i \in 1 .. n - 1 + 1 : front[i] = pages[1 + i - 1]
  <2>1. 1 \in Int /\ n \in Int
    BY <1>3
  <2> QED
    BY <1>3, <2>1, SubSeqProperties
<1> HIDE DEF front
<1>5. Len(front) = n /\ \A i \in 1 .. n : front[i] = pages[i]
  BY <1>3, <1>4
<1> QED
  BY <1>1, <1>4, <1>5 DEF front, n

LEMMA AppendIs ==
  ASSUME NEW pages \in Seq(Page), NEW page \in Page
  PROVE  /\ Append(pages, page) \in Seq(Page) /\ Append(pages, page) # <<>>
         /\ Len(Append(pages, page)) = Len(pages) + 1
         /\ Append(pages, page)[Len(pages) + 1] = page
         /\ \A i \in 1 .. Len(pages) : Append(pages, page)[i] = pages[i]
OBVIOUS

(* A step of one slot.                                                     *)
LEMMA SlotShapes ==
  ASSUME ShapeInv, NEW s \in Slots, NEW w \in Work, Shaped(w), Becomes(s, w), OthersOK'
  PROVE  ShapeInv'
BY BecomesIs DEF ShapeInv

LEMMA StartShapes ==
  ASSUME ShapeInv, NEW w \in Work, Shaped(w), Start(w), OthersOK'
  PROVE  ShapeInv'
BY StartIs, SlotShapes

(* Pages that were open, and one more.                                     *)
LEMMA PushedOK ==
  ASSUME OthersOK, NEW pages \in Seq(Page),
         \A i \in DOMAIN pages : IsPlan(pages[i]) =>
           Fits(pages[i].submit) /\ pages[i].submit.thing \in Planned,
         NEW page \in Page,
         IsPlan(page) => Fits(page.submit) /\ page.submit.thing \in Planned,
         IF pages = <<>> THEN ~IsPlan(page) ELSE ~IsPlan(pages[1]),
         screens' = Append(pages, page), asked' \in Nat,
         UNCHANGED <<editing, disk, kept, cluster, typed, over, editFaults>>
  PROVE  OthersOK'
<1>1. screens' \in Seq(Page) /\ screens' # <<>>
  BY AppendIs
<1>2. \A i \in DOMAIN screens' : IsPlan(screens'[i]) =>
         Fits(screens'[i].submit) /\ screens'[i].submit.thing \in Planned
  BY AppendIs, <1>1
<1>3. ~IsPlan(screens'[1])
  <2>1. CASE pages = <<>>
    BY <2>1
  <2>2. CASE pages # <<>>
    <3>1. 1 \in 1 .. Len(pages)
      BY <2>2
    <3> QED
      BY <2>2, <3>1, AppendIs
  <2> QED
    BY <2>1, <2>2
<1>4. OtherTypes'
  BY <1>1 DEF OthersOK, OtherTypes
<1>5. editing' = editing
  OBVIOUS
<1> QED
  BY <1>2, <1>3, <1>4, <1>5 DEF OthersOK, IsPlan

LEMMA FrontFits ==
  ASSUME OthersOK
  PROVE  /\ Front(screens) \in Seq(Page)
         /\ \A i \in DOMAIN Front(screens) : IsPlan(Front(screens)[i]) =>
              Fits(Front(screens)[i].submit) /\ Front(screens)[i].submit.thing \in Planned
         /\ Front(screens) = <<>> <=> Len(screens) = 1
         /\ Front(screens) # <<>> => ~IsPlan(Front(screens)[1])
<1>1. screens \in Seq(Page) /\ screens # <<>> /\ Len(screens) \in Nat
  BY DEF OthersOK, OtherTypes
<1>2. /\ Front(screens) \in Seq(Page) /\ Len(Front(screens)) = Len(screens) - 1
      /\ \A i \in 1 .. Len(screens) - 1 : Front(screens)[i] = screens[i]
  BY <1>1, FrontIs
<1>3. DOMAIN Front(screens) = 1 .. Len(screens) - 1 /\ DOMAIN screens = 1 .. Len(screens)
  BY <1>1, <1>2
<1>4. \A i \in 1 .. Len(screens) - 1 : i \in 1 .. Len(screens)
  BY <1>1
<1>5. Front(screens) = <<>> <=> Len(screens) = 1
  BY <1>1, <1>2
<1>6. Front(screens) # <<>> => Front(screens)[1] = screens[1]
  <2> SUFFICES ASSUME Front(screens) # <<>> PROVE Front(screens)[1] = screens[1]
    OBVIOUS
  <2>1. Len(screens) # 1 /\ Len(screens) # 0
    BY <1>1, <1>5
  <2>2. PICK n \in Nat : n = Len(screens)
    BY <1>1
  <2>3. 1 \in 1 .. n - 1
    BY <2>1, <2>2
  <2> QED
    BY <1>2, <2>2, <2>3
<1> QED
  BY <1>2, <1>3, <1>4, <1>5, <1>6 DEF OthersOK

LEMMA TopFits ==
  ASSUME OthersOK
  PROVE  Top \in Page /\ (IsPlan(Top) => Fits(Top.submit) /\ Top.submit.thing \in Planned)
<1>1. screens \in Seq(Page) /\ screens # <<>>
  BY DEF OthersOK, OtherTypes
<1> QED
  BY <1>1, TopIs DEF OthersOK

(* A text the cluster takes.                                               *)
LEMMA AcceptIs ==
  ASSUME cluster \in [Things -> Version], NEW t \in Things, NEW text \in Text, Accept(t, text)
  PROVE  /\ cluster' \in [Things -> Version] /\ over' = over \cup Typed(text)
         /\ cluster'[t].n = text.n /\ \A u \in Things \ {t} : cluster'[u] = cluster[u]
<1>1. cluster[t].last + 1 \in Nat /\ text.n \in Int
  BY DEF Text, Version
<1>2. over' = over \cup Typed(text) /\
      cluster' = [cluster EXCEPT ![t].last = cluster[t].last + 1,
                    ![t].index = cluster[t].last + 1, ![t].n = text.n]
  BY DEF Accept
<1>3. PICK last \in Nat, n \in Int : last = cluster[t].last + 1 /\ n = text.n
  BY <1>1
<1>4. cluster' = [cluster EXCEPT ![t].last = last, ![t].index = last, ![t].n = n]
  BY <1>2, <1>3
<1>5. /\ cluster' \in [Things -> Version] /\ cluster'[t].n = n
      /\ \A u \in Things \ {t} : cluster'[u] = cluster[u]
  BY <1>4 DEF Version
<1> QED
  BY <1>2, <1>3, <1>5

LEMMA TypedIs ==
  ASSUME NEW text \in Text
  PROVE  Typed(text) \subseteq Nat /\ (text.n \in 1 .. MaxTyped => text.n \in Typed(text))
BY EditBounds DEF Typed, Text

-----------------------------------------------------------------------------
(* The shape of things is kept.                                            *)

LEMMA ShapeInit == EditInit => ShapeInv
<1> SUFFICES ASSUME EditInit PROVE ShapeInv
  OBVIOUS
<1>1. List \in Page /\ screens = <<List>> /\ ~IsPlan(List)
  BY EmptyIs DEF EditInit, List, IsPlan
<1>2. screens \in Seq(Page) /\ screens # <<>> /\ DOMAIN screens = {1} /\ screens[1] = List
  BY <1>1
<1>3. cluster \in [Things -> Version]
  <2>1. \A i \in 0 .. 1 : [index |-> i, last |-> i, locked |-> FALSE, n |-> -i] \in Version
    BY DEF Version
  <2> QED
    BY <2>1 DEF EditInit
<1>4. OtherTypes
  BY <1>2, <1>3, EmptyIs DEF EditInit, OtherTypes
<1>5. OthersOK
  BY <1>1, <1>2, <1>4 DEF EditInit, OthersOK, NoEdit
<1> QED
  BY <1>5, EmptyIs DEF EditInit, ShapeInv

(* The cluster alone changes.                                              *)
Besides == <<asked, screens, editing, work, disk, kept, typed, over, editFaults>>

LEMMA OthersAre ==
  ASSUME cluster \in [Things -> Version], NEW t \in Things, Change(t) \/ Delete(t) \/ Lock(t)
  PROVE  /\ cluster' \in [Things -> Version] /\ UNCHANGED Besides
         /\ \A u \in Things : cluster'[u].n <= 0 \/ cluster'[u].n = cluster[u].n
<1>1. PICK now : Others(t, now) /\ now \in Version /\ (now.n <= 0 \/ now.n = cluster[t].n)
  <2>1. CASE Change(t)
    <3>1. PICK i \in Nat : i = cluster[t].last + 1
      BY DEF Version
    <3>2. Others(t, [index |-> i, last |-> i, locked |-> FALSE, n |-> -i])
      BY <2>1, <3>1 DEF Change
    <3>3. [index |-> i, last |-> i, locked |-> FALSE, n |-> -i] \in Version /\ -i <= 0
      BY DEF Version
    <3> QED
      BY <3>2, <3>3
  <2>2. CASE Delete(t)
    <3>1. PICK now : now = [cluster[t] EXCEPT !.index = 0, !.n = 0]
      OBVIOUS
    <3>2. PICK none \in Nat : none = 0
      OBVIOUS
    <3>3. now = [cluster[t] EXCEPT !.index = none, !.n = none]
      BY <3>1, <3>2
    <3>4. cluster[t] \in Version /\ none \in Nat /\ none \in Int /\ none <= 0
      BY <3>2
    <3>5. now \in Version /\ now.n = none
      BY <3>3, <3>4 DEF Version
    <3>6. Others(t, now)
      BY <2>2, <3>1 DEF Delete
    <3> QED
      BY <3>4, <3>5, <3>6
  <2>3. CASE Lock(t)
    <3>1. PICK now : now = [cluster[t] EXCEPT !.locked = ~@]
      OBVIOUS
    <3>2. now \in Version /\ now.n = cluster[t].n
      BY <3>1 DEF Version
    <3> QED
      BY <2>3, <3>1, <3>2 DEF Lock
  <2> QED
    BY <2>1, <2>2, <2>3
<1>2. cluster' = [cluster EXCEPT ![t] = now] /\ UNCHANGED Besides
  BY <1>1 DEF Others, Besides
<1> QED
  BY <1>1, <1>2

LEMMA OthersShape ==
  ASSUME ShapeInv, NEW t \in Things, Change(t) \/ Delete(t) \/ Lock(t)
  PROVE  ShapeInv'
<1>1. cluster' \in [Things -> Version] /\ UNCHANGED Besides
  BY OthersAre DEF ShapeInv, OthersOK, OtherTypes
<1> QED
  BY <1>1 DEF Besides, ShapeInv, OthersOK, OtherTypes, Shaped

LEMMA AtIs ==
  ASSUME NEW s \in Slots, work[s] \in Work, NEW stage \in Stages
  PROVE  /\ At(s, stage) \in Work /\ At(s, stage).stage = stage
         /\ At(s, stage).asked = work[s].asked /\ At(s, stage).wrote = work[s].wrote
         /\ At(s, stage).path = work[s].path /\ At(s, stage).content = work[s].content
         /\ At(s, stage).submit = work[s].submit
BY DEF At, Work

(* Another stage of the same request.                                      *)
LEMMA AtShapes ==
  ASSUME ShapeInv, NEW s \in Slots, NEW stage \in Stages, Becomes(s, At(s, stage)), OthersOK',
         Shaped(At(s, stage))
  PROVE  ShapeInv'
BY AtIs, SlotShapes DEF ShapeInv

(* A slot that is done, with nothing but cluster, over and faults changed. *)
LEMMA IdleShapes ==
  ASSUME ShapeInv, NEW s \in Slots, Becomes(s, Idle), OthersOK'
  PROVE  ShapeInv'
BY EmptyIs, SlotShapes

LEMMA PressEditShapes ==
  ASSUME ShapeInv, NEW t \in Things, PressEdit(t)
  PROVE  /\ ShapeInv'
         /\ \E w \in Work : /\ Start(w) /\ w.stage = "read" /\ w.asked = asked
                            /\ w.path = NoPath /\ w.content = NoFile
<1> DEFINE submit == [NoSubmit EXCEPT !.thing = t]
           w == [Idle EXCEPT !.stage = "read", !.asked = asked, !.submit = submit]
<1>1. Start(w) /\ UNCHANGED <<asked, screens, editing, disk, kept, cluster, typed, over, editFaults>>
  BY DEF PressEdit
<1>2. submit \in Submit /\ submit.thing = t
  BY EmptyIs DEF Submit
<1> HIDE DEF submit
<1>3. /\ w \in Work /\ w.stage = "read" /\ w.path = NoPath /\ w.content = NoFile
      /\ w.submit = submit /\ w.asked = asked
  <2>1. asked \in Nat /\ "read" \in Stages
    BY DEF ShapeInv, OthersOK, OtherTypes, Stages
  <2>2. Idle.path = NoPath /\ Idle.content = NoFile
    BY DEF Idle
  <2> QED
    BY <1>2, <2>1, <2>2, EmptyIs DEF Work
<1> HIDE DEF w
<1>4. Shaped(w)
  BY <1>2, <1>3 DEF Shaped, InFile
<1>5. OthersOK'
  BY <1>1 DEF ShapeInv, OthersOK, OtherTypes
<1> QED
  BY <1>1, <1>3, <1>4, <1>5, StartShapes

LEMMA PressNewShapes ==
  ASSUME ShapeInv, NEW t \in Things, PressNew(t)
  PROVE  /\ ShapeInv'
         /\ \E w \in Work : /\ Start(w) /\ w.stage = "write" /\ w.asked = asked
                            /\ w.path = NoPath
                            /\ w.content = Content([of |-> t, n |-> 0], FALSE)
<1> DEFINE content == Content([of |-> t, n |-> 0], FALSE)
           submit == [thing |-> t, at |-> 0, fresh |-> TRUE, known |-> {0}]
           w == [Idle EXCEPT !.stage = "write", !.asked = asked, !.content = content,
                             !.submit = submit]
<1>1. Start(w) /\ UNCHANGED <<asked, screens, editing, disk, kept, cluster, typed, over, editFaults>>
  BY DEF PressNew
<1>2. submit \in Submit /\ Fits(submit) /\ content \in Holding
  BY DEF Submit, Fits, Content, Holding, Text
<1> HIDE DEF submit, content
<1>3. /\ w \in Work /\ w.stage = "write" /\ w.path = NoPath /\ w.submit = submit
      /\ w.asked = asked /\ w.content = content
  <2>1. asked \in Nat /\ "write" \in Stages
    BY DEF ShapeInv, OthersOK, OtherTypes, Stages
  <2>2. Idle.path = NoPath
    BY DEF Idle
  <2> QED
    BY <1>2, <2>1, <2>2, EmptyIs DEF Work
<1> HIDE DEF w
<1>4. Shaped(w)
  BY <1>2, <1>3 DEF Shaped, InFile
<1>5. OthersOK'
  BY <1>1 DEF ShapeInv, OthersOK, OtherTypes
<1> QED
  BY <1>1, <1>3, <1>4, <1>5, StartShapes DEF content

LEMMA MoveOnShapes == ASSUME ShapeInv, MoveOn PROVE ShapeInv'
<1>1. OthersOK'
  <2>1. OthersOK /\ screens \in Seq(Page) /\ asked' \in Nat
    BY DEF MoveOn, ShapeInv, OthersOK, OtherTypes
  <2>2. List \in Page /\ ~IsPlan(List)
    BY EmptyIs DEF IsPlan, List
  <2>3. \A i \in DOMAIN screens : IsPlan(screens[i]) =>
          Fits(screens[i].submit) /\ screens[i].submit.thing \in Planned
    BY <2>1 DEF OthersOK
  <2>4. screens # <<>> /\ ~IsPlan(screens[1])
    BY <2>1 DEF OthersOK, OtherTypes
  <2> QED
    BY <2>1, <2>2, <2>3, <2>4, PushedOK DEF MoveOn
<1> QED
  BY <1>1 DEF MoveOn, ShapeInv

LEMMA BackShapes == ASSUME ShapeInv, Back PROVE ShapeInv'
<1>1. /\ Front(screens) \in Seq(Page)
      /\ \A i \in DOMAIN Front(screens) : IsPlan(Front(screens)[i]) =>
              Fits(Front(screens)[i].submit) /\ Front(screens)[i].submit.thing \in Planned
  BY FrontFits DEF ShapeInv
<1>2. Front(screens) # <<>>
  <2>1. screens \in Seq(Page) /\ screens # <<>> /\ Len(screens) > 1
    BY DEF ShapeInv, OthersOK, OtherTypes, Back
  <2> QED
    BY <2>1, FrontIs
<1>3. Typed(Top.text) \subseteq Nat
  BY TopFits, TypedIs DEF ShapeInv, Page
<1>4. OtherTypes'
  <2>1. screens' \in Seq(Page) /\ screens' # <<>>
    BY <1>1, <1>2 DEF Back
  <2>2. asked \in Nat /\ over \subseteq Nat
    BY DEF ShapeInv, OthersOK, OtherTypes
  <2>3. asked' \in Nat
    BY <2>2 DEF Back
  <2>4. over' \subseteq Nat
    BY <1>3, <2>2 DEF Back
  <2>5. UNCHANGED <<editing, disk, kept, cluster, typed, editFaults>>
    BY DEF Back
  <2> QED
    BY <2>1, <2>3, <2>4, <2>5 DEF ShapeInv, OthersOK, OtherTypes
<1>5. \A i \in DOMAIN screens' : IsPlan(screens'[i]) =>
              Fits(screens'[i].submit) /\ screens'[i].submit.thing \in Planned
  BY <1>1 DEF Back
<1>6. OthersOK'
  <2>1. editing' = editing /\ ~IsPlan(screens'[1])
    BY <1>2, FrontFits DEF Back, ShapeInv
  <2> QED
    BY <1>4, <1>5, <2>1 DEF ShapeInv, OthersOK
<1> QED
  BY <1>6 DEF Back, ShapeInv

(* The screens and the edit in hand stay.                                  *)
LEMMA StayOK ==
  ASSUME OthersOK, UNCHANGED <<asked, screens, editing>>, disk' \in [Paths -> Holding],
         kept' \subseteq Paths, cluster' \in [Things -> Version], typed' \in Nat,
         over' \subseteq Nat, editFaults' \in Nat
  PROVE  OthersOK'
<1>1. screens' = screens /\ editing' = editing /\ asked' = asked
  OBVIOUS
<1>2. OtherTypes'
  BY <1>1 DEF OthersOK, OtherTypes
<1> QED
  BY <1>1, <1>2 DEF OthersOK, IsPlan

(* A text of the open plan is sent, or planned again.                      *)
LEMMA OfTopShapes ==
  ASSUME ShapeInv, IsPlan(Top), NEW stage \in {"send", "replan"}, NEW wrote \in BOOLEAN,
         stage = "replan" => ~wrote,
         stage = "send" => ~(Top.submit.fresh /\ Top.submit.at # 0),
         NEW w, w = [Idle EXCEPT !.stage = stage, !.asked = asked, !.wrote = wrote,
                          !.content = Content(Top.text, FALSE), !.submit = Top.submit],
         Start(w),
         UNCHANGED <<asked, screens, editing, disk, kept, cluster, typed, over, editFaults>>
  PROVE  /\ ShapeInv' /\ w \in Work /\ w.stage = stage /\ w.asked = asked
         /\ w.wrote = wrote /\ w.content = Content(Top.text, FALSE) /\ w.submit = Top.submit
<1>1. Top \in Page /\ Fits(Top.submit) /\ Top.submit.thing \in Planned
  BY TopFits DEF ShapeInv
<1>2. Content(Top.text, FALSE) \in Holding /\ Top.submit \in Submit
  BY <1>1 DEF Page, Content, Holding
<1>3. asked \in Nat /\ stage \in Stages
  BY DEF ShapeInv, OthersOK, OtherTypes, Stages
<1>4. Idle.path = NoPath
  BY DEF Idle
<1>5. w \in Work
  BY <1>2, <1>3, EmptyIs DEF Work
<1>6. /\ w.stage = stage /\ w.path = NoPath /\ w.wrote = wrote
      /\ w.content = Content(Top.text, FALSE) /\ w.submit = Top.submit /\ w.asked = asked
  BY <1>4, EmptyIs DEF Work
<1>7. Shaped(w)
  BY <1>1, <1>6, ThingsAssumption DEF Shaped, InFile
<1>8. OthersOK'
  BY DEF ShapeInv, OthersOK, OtherTypes
<1> QED
  BY <1>5, <1>6, <1>7, <1>8, StartShapes

LEMMA PressSubmitShapes ==
  ASSUME ShapeInv, PressSubmit
  PROVE  /\ ShapeInv'
         /\ \E w : /\ Start(w) /\ w.stage = "send" /\ w.asked = asked /\ w \in Work
                   /\ w.content = Content(Top.text, FALSE) /\ w.submit = Top.submit
<1> DEFINE w0 == [Idle EXCEPT !.stage = "send", !.asked = asked, !.wrote = TRUE,
                        !.content = Content(Top.text, FALSE), !.submit = Top.submit]
<1>1. PICK w : w = w0
  OBVIOUS
<1>2. Start(w)
  BY <1>1 DEF PressSubmit
<1> QED
  BY <1>1, <1>2, OfTopShapes DEF PressSubmit

LEMMA PressReplanShapes ==
  ASSUME ShapeInv, PressReplan
  PROVE  /\ ShapeInv'
         /\ \E w : /\ Start(w) /\ w.stage = "replan" /\ w.asked = asked /\ w \in Work
                   /\ w.content = Content(Top.text, FALSE) /\ w.submit = Top.submit
<1>1. Idle.wrote = FALSE
  BY DEF Idle
<1> DEFINE w0 == [Idle EXCEPT !.stage = "replan", !.asked = asked, !.wrote = FALSE,
                        !.content = Content(Top.text, FALSE), !.submit = Top.submit]
<1>2. PICK w : w = w0
  OBVIOUS
<1>3. Start(w)
  BY <1>1, <1>2 DEF PressReplan, Idle
<1> QED
  BY <1>2, <1>3, OfTopShapes DEF PressReplan
-----------------------------------------------------------------------------
(* The editor, the requests and the messages.                              *)

LEMMA WrittenIs ==
  ASSUME NEW was \in Holding, typed \in Nat, NEW content \in Written(was)
  PROVE  /\ content \in Holding
         /\ \/ content = was
            \/ content.text = was.text /\ ~content.header
            \/ /\ content.text = [of |-> was.text.of, n |-> typed + 1] /\ typed < MaxTyped
               /\ content.header \in {FALSE, was.header}
<1>1. CASE content \in {was, [was EXCEPT !.header = FALSE]}
  BY <1>1 DEF Holding
<1>2. CASE \E h \in {FALSE, was.header} :
             typed < MaxTyped /\ content = Content([of |-> was.text.of, n |-> typed + 1], h)
  <2>1. PICK h \in {FALSE, was.header} : typed < MaxTyped
          /\ content = Content([of |-> was.text.of, n |-> typed + 1], h)
    BY <1>2
  <2>2. was.text.of \in Things \cup {NoThing} /\ typed + 1 \in Int
    BY DEF Holding, Text
  <2>3. h \in BOOLEAN
    <3>1. was.header \in BOOLEAN
      BY DEF Holding
    <3> QED
      BY <3>1, Zenon
  <2> QED
    BY <2>1, <2>2, <2>3 DEF Content, Holding, Text
<1> QED
  BY <1>1, <1>2 DEF Written

LEMMA CloseEditorShapes ==
  ASSUME ShapeInv, NEW s \in Slots, NEW content, CloseEditor(s, content)
  PROVE  ShapeInv'
<1>1. /\ work[s] \in Work /\ Shaped(work[s]) /\ OthersOK /\ work[s].stage = "editor"
      /\ work[s].path \in Paths
  BY EditBounds DEF ShapeInv, CloseEditor, Shaped, InFile, Work, Paths, NoPath
<1>2. /\ disk \in [Paths -> Holding] /\ typed \in Nat /\ over \subseteq Nat
      /\ disk[work[s].path] \in Holding
  BY <1>1 DEF OthersOK, OtherTypes
<1>3. content \in Holding
  BY <1>2, WrittenIs DEF CloseEditor
<1>4. disk' \in [Paths -> Holding]
  BY <1>2, <1>3 DEF CloseEditor
<1>5. typed' \in Nat
  BY <1>2, <1>3 DEF CloseEditor, Holding, Text
<1>6. over' \subseteq Nat
  <2>1. Typed(disk[work[s].path].text) \subseteq Nat
    BY <1>2, TypedIs DEF Holding
  <2> QED
    BY <1>2, <2>1 DEF CloseEditor
<1>7. OthersOK'
  <2>1. UNCHANGED <<asked, screens, editing, kept, cluster, editFaults>>
    BY DEF CloseEditor
  <2> QED
    BY <1>1, <1>4, <1>5, <1>6, <2>1, StayOK DEF OthersOK, OtherTypes
<1>8. Shaped(At(s, "edited")) /\ "edited" \in Stages
  BY <1>1, AtIs DEF Shaped, Stages, InFile
<1> QED
  BY <1>7, <1>8, AtShapes DEF CloseEditor

LEMMA EditorFailsShapes ==
  ASSUME ShapeInv, NEW s \in Slots, EditorFails(s)
  PROVE  ShapeInv'
<1>1. /\ work[s] \in Work /\ Shaped(work[s]) /\ OthersOK /\ work[s].stage = "editor"
      /\ work[s].path \in Paths
  BY EditBounds DEF ShapeInv, EditorFails, Shaped, InFile, Work, Paths, NoPath
<1>2. Typed(disk[work[s].path].text) \subseteq Nat
  BY <1>1, TypedIs DEF OthersOK, OtherTypes, Holding
<1>3. OthersOK'
  <2>1. over' \subseteq Nat
    BY <1>1, <1>2 DEF EditorFails, OthersOK, OtherTypes
  <2>2. editFaults' \in Nat
    BY <1>1 DEF EditorFails, OthersOK, OtherTypes
  <2>3. UNCHANGED <<asked, screens, editing, disk, kept, cluster, typed>>
    BY DEF EditorFails
  <2> QED
    BY <1>1, <2>1, <2>2, <2>3, StayOK DEF OthersOK, OtherTypes
<1>4. Shaped(At(s, "failed")) /\ "failed" \in Stages
  BY <1>1, AtIs DEF Shaped, Stages, InFile
<1> QED
  BY <1>3, <1>4, AtShapes DEF EditorFails

(* A file with a content of its own is written.                            *)
LEMMA WritesFileShapes ==
  ASSUME ShapeInv, NEW s \in Slots, NEW content \in Holding, NEW submit \in Submit,
         Fits(submit), WritesFile(s, content, submit)
  PROVE  /\ ShapeInv' /\ FreePath \in Paths /\ disk[FreePath] = NoFile
         /\ disk' = [disk EXCEPT ![FreePath] = content]
         /\ \E w \in Work : /\ Becomes(s, w) /\ w.stage = "file" /\ w.path = FreePath
                            /\ w.content = content /\ w.asked = work[s].asked
<1> DEFINE w == [work[s] EXCEPT !.stage = "file", !.path = FreePath,
                                !.content = content, !.submit = submit]
<1>1. work[s] \in Work /\ OthersOK /\ Becomes(s, w)
  BY DEF ShapeInv, WritesFile
<1>2. FreePath \in Paths /\ disk[FreePath] = NoFile /\ FreePath \in 0 .. MaxPaths
      /\ FreePath # NoPath
  BY FreePathIs, EditBounds DEF WritesFile, Paths, NoPath
<1>3. "file" \in Stages
  BY DEF Stages, InFile
<1>4. /\ w \in Work /\ w.stage = "file" /\ w.path = FreePath /\ w.content = content
      /\ w.submit = submit /\ w.asked = work[s].asked
  BY <1>1, <1>2, <1>3 DEF Work
<1> HIDE DEF w
<1>5. Shaped(w)
  BY <1>2, <1>4 DEF Shaped, InFile
<1>6. OthersOK'
  BY <1>1, <1>2 DEF WritesFile, OthersOK, OtherTypes
<1>7. ShapeInv'
  BY <1>1, <1>4, <1>5, <1>6, SlotShapes
<1> QED
  BY <1>1, <1>2, <1>4, <1>7 DEF WritesFile

LEMMA ReadFileShapes ==
  ASSUME ShapeInv, NEW s \in Slots, ReadFile(s)
  PROVE  /\ ShapeInv'
         /\ \E t \in Things, submit \in Submit :
              /\ Fits(submit) /\ [of |-> t, n |-> cluster[t].n] \in Text
              /\ WritesFile(s, Content([of |-> t, n |-> cluster[t].n], FALSE), submit)
<1> DEFINE t == work[s].submit.thing
           i == cluster[t].index
           submit == [thing |-> t, at |-> i, fresh |-> FALSE, known |-> {i}]
           text == [of |-> t, n |-> cluster[t].n]
<1>1. WritesFile(s, Content(text, FALSE), submit)
  BY DEF ReadFile
<1>2. t \in Things /\ cluster[t] \in Version
  BY DEF ReadFile, ShapeInv, Shaped, OthersOK, OtherTypes
<1>3. submit \in Submit /\ Fits(submit) /\ text \in Text
  BY <1>2 DEF Submit, Fits, Version, Text
<1>4. Content(text, FALSE) \in Holding
  BY <1>3 DEF Content, Holding
<1> QED
  BY <1>1, <1>2, <1>3, <1>4, WritesFileShapes

LEMMA WriteFileShapes ==
  ASSUME ShapeInv, NEW s \in Slots, WriteFile(s)
  PROVE  /\ ShapeInv' /\ work[s].content \in Holding /\ work[s].submit \in Submit
         /\ Fits(work[s].submit) /\ WritesFile(s, work[s].content, work[s].submit)
<1>1. /\ work[s].content \in Holding /\ work[s].submit \in Submit /\ Fits(work[s].submit)
      /\ WritesFile(s, work[s].content, work[s].submit)
  BY DEF WriteFile, ShapeInv, Shaped, Work
<1> QED
  BY <1>1, WritesFileShapes
LEMMA AcceptOK ==
  ASSUME OthersOK, NEW t \in Things, NEW text \in Text,
         Accept(t, text) \/ UNCHANGED <<cluster, over>>,
         UNCHANGED <<asked, screens, editing, disk, kept, typed>>, editFaults' \in Nat
  PROVE  OthersOK'
<1>1. cluster \in [Things -> Version] /\ over \subseteq Nat /\ Typed(text) \subseteq Nat
  BY TypedIs DEF OthersOK, OtherTypes
<1>2. cluster' \in [Things -> Version] /\ over' \subseteq Nat
  BY <1>1, AcceptIs
<1>3. disk' \in [Paths -> Holding] /\ kept' \subseteq Paths /\ typed' \in Nat
  BY DEF OthersOK, OtherTypes
<1> QED
  BY <1>2, <1>3, StayOK

LEMMA FaultsOK ==
  ASSUME OthersOK, UNCHANGED <<asked, screens, editing, disk, kept, cluster, typed, over>>,
         editFaults' \in {editFaults, editFaults + 1}
  PROVE  OthersOK'
<1>1. /\ disk' \in [Paths -> Holding] /\ kept' \subseteq Paths /\ cluster' \in [Things -> Version]
      /\ typed' \in Nat /\ over' \subseteq Nat /\ editFaults' \in Nat
  BY DEF OthersOK, OtherTypes
<1> QED
  BY <1>1, StayOK

LEMMA RequestIs ==
  ASSUME ShapeInv, NEW s \in Slots
  PROVE  /\ work[s] \in Work /\ Shaped(work[s]) /\ OthersOK /\ editFaults \in Nat
         /\ work[s].content.text \in Text
         /\ work[s].stage \notin {"idle", "read", "exec", "editor", "edited", "failed"} =>
              work[s].submit.thing \in Things
BY DEF ShapeInv, OthersOK, OtherTypes, Work, Holding, Shaped, Fits

LEMMA SavedShapes ==
  ASSUME ShapeInv, NEW s \in Slots, SaveChecks(s) \/ SaveFails(s)
  PROVE  ShapeInv'
<1>1. work[s].stage = "save" /\ work[s].submit.thing \in Things
  BY RequestIs DEF SaveChecks, SaveFails
<1>2. OthersOK'
  <2>1. Accept(work[s].submit.thing, work[s].content.text) \/ UNCHANGED <<cluster, over>>
    BY DEF SaveChecks, SaveFails
  <2>2. UNCHANGED <<asked, screens, editing, disk, kept, typed>>
    BY DEF SaveChecks, SaveFails
  <2>3. editFaults' \in Nat
    BY RequestIs DEF SaveChecks, SaveFails
  <2> QED
    BY <1>1, <2>1, <2>2, <2>3, RequestIs, AcceptOK
<1>3. CASE Becomes(s, Idle)
  BY <1>2, <1>3, IdleShapes
<1>4. CASE Becomes(s, At(s, "peek"))
  <2>1. "peek" \in Stages
    BY DEF Stages
  <2>2. Shaped(At(s, "peek"))
    BY <1>1, <2>1, RequestIs, AtIs DEF Shaped, InFile
  <2> QED
    BY <1>2, <1>4, <2>1, <2>2, AtShapes
<1>5. CASE Becomes(s, At(s, "refused")) /\ work[s].stage = "save"
  <2>1. "refused" \in Stages
    BY DEF Stages
  <2>2. Shaped(At(s, "refused"))
    BY <1>1, <2>1, RequestIs, AtIs DEF Shaped, InFile
  <2> QED
    BY <1>2, <1>5, <2>1, <2>2, AtShapes
<1> QED
  BY <1>1, <1>3, <1>4, <1>5 DEF SaveChecks, SaveFails

(* The edit goes back with another version to replace.                     *)
LEMMA WarnedIs ==
  ASSUME NEW s \in Slots, work[s] \in Work, Fits(work[s].submit), NEW i \in Nat, Warned(s, i)
  PROVE  \E w \in Work : /\ Becomes(s, w) /\ w.stage = "refused" /\ Fits(w.submit)
                         /\ w.path = work[s].path /\ w.content = work[s].content
                         /\ w.asked = work[s].asked /\ w.wrote = work[s].wrote
                         /\ w.submit.thing = work[s].submit.thing
<1> DEFINE was == At(s, "refused")
           w == [was EXCEPT !.submit.at = i, !.submit.fresh = (i = 0),
                            !.submit.known = @ \cup {i}]
<1>1. was \in Work /\ was.stage = "refused" /\ was.path = work[s].path
      /\ was.content = work[s].content /\ was.asked = work[s].asked
      /\ was.wrote = work[s].wrote /\ was.submit = work[s].submit
  BY AtIs DEF Stages
<1> HIDE DEF was
<1>2. was.submit \in Submit
  BY <1>1 DEF Work
<1>3. PICK fresh \in BOOLEAN, known \in SUBSET Nat :
        fresh = (i = 0) /\ known = was.submit.known \cup {i}
  BY <1>2 DEF Submit
<1>4. PICK v : v = [was EXCEPT !.submit.at = i, !.submit.fresh = fresh,
                            !.submit.known = known]
  OBVIOUS
<1>5. Becomes(s, v)
  BY <1>3, <1>4 DEF Warned, was
<1>6. /\ v \in Work /\ v.stage = "refused" /\ v.path = was.path /\ v.content = was.content
      /\ v.asked = was.asked /\ v.wrote = was.wrote /\ v.submit.thing = was.submit.thing
      /\ v.submit.at = i /\ v.submit.fresh = fresh /\ v.submit.known = known
  BY <1>1, <1>2, <1>4 DEF Work, Submit
<1>7. Fits(v.submit)
  BY <1>1, <1>3, <1>6 DEF Fits
<1> QED
  BY <1>1, <1>5, <1>6, <1>7
LEMMA PeekShapes ==
  ASSUME ShapeInv, NEW s \in Slots, NEW sees \in BOOLEAN, Peek(s, sees)
  PROVE  /\ ShapeInv'
         /\ \E w \in Work : /\ Becomes(s, w) /\ w.stage = "refused"
                            /\ w.path = work[s].path /\ w.content = work[s].content
                            /\ w.asked = work[s].asked /\ w.wrote = work[s].wrote
<1>1. /\ work[s].stage = "peek" /\ Fits(work[s].submit) /\ work[s] \in Work
      /\ Shaped(work[s])
  BY DEF Peek, ShapeInv, Shaped
<1>2. cluster[work[s].submit.thing].index \in Nat
  BY <1>1 DEF ShapeInv, OthersOK, OtherTypes, Version, Fits
<1>3. "refused" \in Stages
  BY DEF Stages
<1>4. PICK w \in Work :
        /\ Becomes(s, w) /\ w.stage = "refused" /\ Fits(w.submit)
        /\ w.path = work[s].path /\ w.content = work[s].content
        /\ w.asked = work[s].asked /\ w.wrote = work[s].wrote
  <2>1. CASE Becomes(s, At(s, "refused"))
    BY <1>1, <1>3, <2>1, AtIs
  <2>2. CASE Warned(s, cluster[work[s].submit.thing].index)
    BY <1>1, <1>2, <2>2, WarnedIs
  <2> QED
    BY <2>1, <2>2 DEF Peek
<1>5. Shaped(w)
  BY <1>1, <1>4 DEF Shaped, InFile
<1>6. OthersOK'
  <2>1. UNCHANGED <<asked, screens, editing, disk, kept, cluster, typed, over, editFaults>>
    BY DEF Peek
  <2> QED
    BY <2>1, RequestIs, FaultsOK
<1> QED
  BY <1>4, <1>5, <1>6, SlotShapes

(* A failure on the way changes the stage alone.                           *)
LEMMA FailedShapes ==
  ASSUME ShapeInv, NEW s \in Slots, PeekFails(s) \/ PlanRefused(s) \/ ReadFails(s)
  PROVE  ShapeInv'
<1>1. OthersOK'
  <2>1. UNCHANGED <<asked, screens, editing, disk, kept, cluster, typed, over>>
        /\ editFaults' \in {editFaults, editFaults + 1}
    BY DEF PeekFails, PlanRefused, ReadFails
  <2> QED
    BY <2>1, RequestIs, FaultsOK
<1>2. CASE Becomes(s, Idle)
  BY <1>1, <1>2, IdleShapes
<1>3. CASE Becomes(s, At(s, "refused")) /\ work[s].stage \in {"peek", "plan"}
  <2>1. "refused" \in Stages
    BY DEF Stages
  <2>2. Shaped(At(s, "refused"))
    BY <1>3, <2>1, RequestIs, AtIs DEF Shaped, InFile
  <2> QED
    BY <1>1, <1>3, <2>1, <2>2, AtShapes
<1> QED
  BY <1>2, <1>3 DEF PeekFails, PlanRefused, ReadFails

LEMMA PlanAnswersShapes ==
  ASSUME ShapeInv, NEW s \in Slots, PlanAnswers(s)
  PROVE  /\ ShapeInv'
         /\ \E w \in Work : /\ Becomes(s, w) /\ w.stage = "planned"
                            /\ w.path = work[s].path /\ w.content = work[s].content
                            /\ w.asked = work[s].asked /\ w.wrote = work[s].wrote
                            /\ w.submit.thing = work[s].submit.thing
<1> DEFINE was == At(s, "planned")
<1>1. /\ work[s].stage \in {"plan", "replan"} /\ Fits(work[s].submit) /\ work[s] \in Work
      /\ Shaped(work[s])
  BY DEF PlanAnswers, ShapeInv, Shaped
<1>2. PICK i \in Nat : i = cluster[work[s].submit.thing].index
  BY <1>1 DEF ShapeInv, OthersOK, OtherTypes, Version, Fits
<1>3. PICK w : w = [was EXCEPT !.submit.at = i, !.submit.known = {i}]
  OBVIOUS
<1>4. Becomes(s, w)
  BY <1>2, <1>3 DEF PlanAnswers, was
<1>5. /\ was \in Work /\ was.stage = "planned" /\ was.path = work[s].path
      /\ was.content = work[s].content /\ was.asked = work[s].asked
      /\ was.wrote = work[s].wrote /\ was.submit = work[s].submit
  BY <1>1, AtIs DEF Stages
<1> HIDE DEF was
<1>6. /\ w \in Work /\ w.stage = "planned" /\ w.path = was.path /\ w.content = was.content
      /\ w.asked = was.asked /\ w.wrote = was.wrote /\ w.submit.thing = was.submit.thing
      /\ w.submit.at = i /\ w.submit.known = {i}
  BY <1>3, <1>5 DEF Work, Submit
<1>7. work[s].submit.thing \in Planned /\ work[s].submit.thing \notin Saved
  BY <1>1, ThingsAssumption DEF Shaped
<1>8. Shaped(w)
  BY <1>1, <1>5, <1>6, <1>7 DEF Shaped, Fits, InFile
<1>9. OthersOK'
  <2>1. UNCHANGED <<asked, screens, editing, disk, kept, cluster, typed, over, editFaults>>
    BY DEF PlanAnswers
  <2> QED
    BY <2>1, RequestIs, FaultsOK
<1> QED
  BY <1>4, <1>5, <1>6, <1>8, <1>9, SlotShapes

LEMMA SentShapes ==
  ASSUME ShapeInv, NEW s \in Slots, SendAnswers(s) \/ SendFails(s)
  PROVE  ShapeInv'
<1>1. work[s].stage = "send" /\ work[s].submit.thing \in Things
  BY RequestIs DEF SendAnswers, SendFails
<1>2. OthersOK'
  <2>1. Accept(work[s].submit.thing, work[s].content.text) \/ UNCHANGED <<cluster, over>>
    BY DEF SendAnswers, SendFails
  <2>2. UNCHANGED <<asked, screens, editing, disk, kept, typed>>
    BY DEF SendAnswers, SendFails
  <2>3. editFaults' \in Nat
    BY RequestIs DEF SendAnswers, SendFails
  <2> QED
    BY <1>1, <2>1, <2>2, <2>3, RequestIs, AcceptOK
<1>3. CASE Becomes(s, Idle)
  BY <1>2, <1>3, IdleShapes
<1>4. CASE Becomes(s, At(s, "planDone"))
  <2>1. "planDone" \in Stages
    BY DEF Stages
  <2>2. Shaped(At(s, "planDone"))
    BY <1>1, <2>1, RequestIs, AtIs DEF Shaped, InFile
  <2> QED
    BY <1>2, <1>4, <2>1, <2>2, AtShapes
<1> QED
  BY <1>3, <1>4 DEF SendAnswers, SendFails
(* The file goes to the editor, and its slot keeps what is in it.          *)
LEMMA StartEditIs ==
  ASSUME ShapeInv, NEW s \in Slots, StartEdit(s), work[s].stage = "file",
         UNCHANGED <<asked, screens, cluster, typed, over, editFaults>>
  PROVE  /\ ShapeInv' /\ Fits(work[s].submit)
         /\ \E w \in Work : /\ Becomes(s, w) /\ w.stage = "exec" /\ w.path = work[s].path
                            /\ w.content = work[s].content
<1> DEFINE w == [Idle EXCEPT !.stage = "exec", !.path = work[s].path,
                             !.content = work[s].content]
           new == [original |-> work[s].content, submit |-> work[s].submit, asked |-> asked]
<1>1. /\ work[s] \in Work /\ Shaped(work[s]) /\ Fits(work[s].submit) /\ OthersOK
      /\ asked \in Nat
  BY DEF ShapeInv, Shaped, InFile, OthersOK, OtherTypes
<1>2. editing' = new /\ Becomes(s, w) /\ UNCHANGED <<disk, kept>>
  BY DEF StartEdit
<1>3. work[s].path \in 0 .. MaxPaths /\ work[s].content \in Holding /\ "exec" \in Stages
  BY <1>1 DEF Work, Stages, InFile
<1>4. w \in Work /\ w.stage = "exec" /\ w.path = work[s].path /\ w.content = work[s].content
  BY <1>3, EmptyIs DEF Work
<1>5. work[s].path # NoPath
  BY <1>1 DEF Shaped, InFile
<1> HIDE DEF w
<1>6. Shaped(w)
  BY <1>4, <1>5 DEF Shaped, InFile
<1>7. /\ new \in [original : Holding, submit : Submit, asked : Nat]
      /\ new.submit = work[s].submit
  BY <1>1 DEF Work
<1> HIDE DEF new
<1>8. OtherTypes'
  BY <1>1, <1>2, <1>7 DEF OthersOK, OtherTypes
<1>9. OthersOK'
  <2>1. screens' = screens
    OBVIOUS
  <2> QED
    BY <1>1, <1>2, <1>7, <1>8, <2>1 DEF OthersOK, IsPlan
<1> QED
  BY <1>1, <1>2, <1>4, <1>6, <1>9, SlotShapes

(* A file that comes late is kept or removed.                              *)
LEMMA KeepFileShapes ==
  ASSUME ShapeInv, NEW s \in Slots, KeepFile(s), work[s].stage = "file",
         UNCHANGED <<asked, screens, cluster, typed, over, editFaults>>
  PROVE  ShapeInv'
<1>1. work[s].path \in Paths /\ OthersOK
  <2>1. work[s] \in Work /\ Shaped(work[s])
    BY DEF ShapeInv
  <2> QED
    BY <2>1, EditBounds DEF ShapeInv, Shaped, InFile, Work, Paths, NoPath
<1>2. Becomes(s, Idle) /\ editing' = editing
  BY DEF KeepFile
<1>3. disk' \in [Paths -> Holding] /\ kept' \subseteq Paths
  BY <1>1, EmptyIs DEF KeepFile, OthersOK, OtherTypes
<1>4. OthersOK'
  BY <1>1, <1>2, <1>3, StayOK DEF OthersOK, OtherTypes
<1> QED
  BY <1>2, <1>4, IdleShapes

LEMMA TakeFileShapes ==
  ASSUME ShapeInv, NEW s \in Slots, TakeFile(s)
  PROVE  ShapeInv'
BY StartEditIs, KeepFileShapes DEF TakeFile

LEMMA OpenEditorShapes ==
  ASSUME ShapeInv, NEW s \in Slots, OpenEditor(s)
  PROVE  ShapeInv'
<1>1. "editor" \in Stages
  BY DEF Stages, InFile
<1>2. Shaped(At(s, "editor"))
  BY <1>1, RequestIs, AtIs DEF OpenEditor, Shaped, InFile
<1>3. UNCHANGED <<asked, screens, editing, disk, kept, cluster, typed, over, editFaults>>
  BY DEF OpenEditor
<1>4. OthersOK'
  BY <1>3, RequestIs, FaultsOK
<1> QED
  BY <1>1, <1>2, <1>4, AtShapes DEF OpenEditor

(* What is sent is what the edit in hand says, with the text of the file.  *)
LEMMA SendEditIs ==
  ASSUME ShapeInv, NEW s \in Slots, NEW content \in Holding, SendEdit(s, content),
         editing.submit # NoSubmit
  PROVE  \E w \in Work : /\ Becomes(s, w) /\ Shaped(w) /\ w.stage \in {"save", "plan"}
                         /\ w.asked = editing.asked /\ w.wrote = TRUE /\ w.path = NoPath
                         /\ w.content = Content(content.text, FALSE)
<1> DEFINE stage0 == IF editing.submit.thing \in Saved THEN "save" ELSE "plan"
           text == Content(content.text, FALSE)
<1>1. Fits(editing.submit) /\ editing.asked \in Nat /\ editing.submit \in Submit
  BY DEF ShapeInv, OthersOK, OtherTypes
<1>2. PICK stage \in Stages : stage = stage0
  BY DEF Stages
<1>3. text \in Holding
  BY DEF Content, Holding
<1>4. PICK w : w = [Idle EXCEPT !.stage = stage, !.asked = editing.asked, !.wrote = TRUE,
                                !.content = text, !.submit = editing.submit]
  OBVIOUS
<1>5. Becomes(s, w)
  BY <1>2, <1>4 DEF SendEdit
<1> HIDE DEF text
<1>6. Idle.path = NoPath
  BY DEF Idle
<1>7. /\ w \in Work /\ w.stage = stage /\ w.asked = editing.asked /\ w.wrote = TRUE
      /\ w.path = NoPath /\ w.content = text /\ w.submit = editing.submit
  BY <1>1, <1>3, <1>4, <1>6, EmptyIs DEF Work
<1>8. stage = "save" => editing.submit.thing \in Saved
  BY <1>2
<1>9. stage = "plan" => editing.submit.thing \in Planned
  BY <1>1, <1>2 DEF Fits, Things
<1>10. stage \in {"save", "plan"}
  BY <1>2
<1>11. Shaped(w)
  BY <1>1, <1>7, <1>8, <1>9, <1>10 DEF Shaped, InFile
<1> QED
  BY <1>5, <1>7, <1>10, <1>11 DEF text

LEMMA FinishEditShapes ==
  ASSUME ShapeInv, NEW s \in Slots, FinishEdit(s)
  PROVE  ShapeInv'
<1>1. /\ work[s] \in Work /\ Shaped(work[s]) /\ OthersOK /\ work[s].path \in Paths
      /\ work[s].stage \in {"edited", "failed"}
  <2>1. work[s] \in Work /\ Shaped(work[s]) /\ OthersOK
    BY DEF ShapeInv
  <2> QED
    BY <2>1, EditBounds DEF FinishEdit, Shaped, InFile, Work, Paths, NoPath
<1>2. /\ editing' = NoEdit /\ disk' = [disk EXCEPT ![work[s].path] = NoFile]
      /\ UNCHANGED <<asked, screens, kept, cluster, typed, over, editFaults>>
  BY DEF FinishEdit
<1>3. OtherTypes'
  BY <1>1, <1>2, EmptyIs DEF OthersOK, OtherTypes
<1>4. OthersOK'
  <2>1. screens' = screens /\ editing'.submit = NoSubmit
    BY <1>2 DEF NoEdit
  <2> QED
    BY <1>1, <1>3, <2>1 DEF OthersOK, IsPlan
<1>5. CASE Becomes(s, Idle)
  BY <1>4, <1>5, IdleShapes
<1>6. CASE SendEdit(s, disk[work[s].path]) /\ editing.submit # NoSubmit
  <2>1. disk[work[s].path] \in Holding
    BY <1>1 DEF OthersOK, OtherTypes
  <2>2. PICK w \in Work : Becomes(s, w) /\ Shaped(w)
    BY <1>6, <2>1, SendEditIs
  <2> QED
    BY <1>4, <2>2, SlotShapes
<1> QED
  BY <1>5, <1>6 DEF FinishEdit

(* The text of an edit that has no screen goes to a file of its own.       *)
LEMMA KeepTextIs ==
  ASSUME ShapeInv, NEW s \in Slots, KeepText(s),
         UNCHANGED <<asked, screens, editing, cluster, typed, over, editFaults>>
  PROVE  /\ ShapeInv' /\ FreePath \in Paths /\ disk[FreePath] = NoFile
         /\ disk' = [disk EXCEPT ![FreePath] = work[s].content]
         /\ kept' = kept \cup {FreePath} /\ Becomes(s, Idle)
<1>1. /\ FreePath \in Paths /\ disk[FreePath] = NoFile /\ OthersOK
      /\ work[s].content \in Holding
  BY FreePathIs DEF KeepText, ShapeInv, Work
<1>2. disk' = [disk EXCEPT ![FreePath] = work[s].content]
      /\ kept' = kept \cup {FreePath} /\ Becomes(s, Idle)
  BY DEF KeepText
<1>3. disk' \in [Paths -> Holding] /\ kept' \subseteq Paths
  BY <1>1, <1>2 DEF OthersOK, OtherTypes
<1>4. OthersOK'
  BY <1>1, <1>3, StayOK DEF OthersOK, OtherTypes
<1> QED
  BY <1>1, <1>2, <1>4, IdleShapes
(* The list the program starts with stays under every plan.                *)
LEMMA UnderAPlan ==
  ASSUME OthersOK, IsPlan(Top)
  PROVE  Front(screens) # <<>> /\ ~IsPlan(Front(screens)[1])
<1>1. screens \in Seq(Page) /\ screens # <<>>
  BY DEF OthersOK, OtherTypes
<1>2. Len(screens) # 1
  BY <1>1, TopIs DEF OthersOK
<1> QED
  BY <1>2, FrontFits

LEMMA TakeRefusedIs ==
  ASSUME ShapeInv, NEW s \in Slots, work[s].stage = "refused",
         Becomes(s, [At(s, "write") EXCEPT !.asked = asked, !.content.header = TRUE]),
         UNCHANGED <<asked, screens, editing, disk, kept, cluster, typed, over, editFaults>>
  PROVE  /\ ShapeInv'
         /\ \E w \in Work : /\ Becomes(s, w) /\ w.stage = "write" /\ w.asked = asked
                            /\ w.path = NoPath /\ w.wrote = work[s].wrote
                            /\ w.content.text = work[s].content.text /\ w.content.header = TRUE
<1> DEFINE was == At(s, "write")
<1>1. /\ work[s] \in Work /\ Shaped(work[s]) /\ asked \in Nat
  BY DEF ShapeInv, OthersOK, OtherTypes
<1>2. /\ was \in Work /\ was.stage = "write" /\ was.path = work[s].path
      /\ was.content = work[s].content /\ was.wrote = work[s].wrote
      /\ was.submit = work[s].submit
  BY <1>1, AtIs DEF Stages
<1>3. PICK w : w = [was EXCEPT !.asked = asked, !.content.header = TRUE]
  OBVIOUS
<1>4. Becomes(s, w)
  BY <1>3
<1> HIDE DEF was
<1>5. /\ w \in Work /\ w.stage = "write" /\ w.path = was.path /\ w.asked = asked
      /\ w.wrote = was.wrote /\ w.submit = was.submit
      /\ w.content.text = was.content.text /\ w.content.header = TRUE
  BY <1>1, <1>2, <1>3 DEF Work, Holding
<1>6. w.path = NoPath
  BY <1>1, <1>2, <1>5 DEF Shaped, InFile
<1>7. Shaped(w)
  BY <1>1, <1>2, <1>5, <1>6 DEF Shaped, InFile
<1>8. OthersOK'
  BY FaultsOK DEF ShapeInv
<1> QED
  BY <1>2, <1>4, <1>5, <1>6, <1>7, <1>8, SlotShapes

LEMMA TakeRefusedShapes ==
  ASSUME ShapeInv, NEW s \in Slots, TakeRefused(s)
  PROVE  ShapeInv'
BY KeepTextIs, TakeRefusedIs DEF TakeRefused

LEMMA TakePlanShapes ==
  ASSUME ShapeInv, NEW s \in Slots, TakePlan(s)
  PROVE  ShapeInv'
<1> DEFINE plan == [text |-> work[s].content.text, submit |-> work[s].submit]
<1>1. /\ work[s].stage = "planned" /\ work[s] \in Work /\ Fits(work[s].submit)
      /\ work[s].submit.thing \in Planned /\ OthersOK
  BY DEF TakePlan, ShapeInv, Shaped
<1>2. plan \in Page /\ plan.submit = work[s].submit
  BY <1>1 DEF Page, Work, Holding
<1>3. /\ screens \in Seq(Page) /\ screens # <<>> /\ ~IsPlan(screens[1]) /\ asked \in Nat
      /\ \A i \in DOMAIN screens : IsPlan(screens[i]) =>
           Fits(screens[i].submit) /\ screens[i].submit.thing \in Planned
  BY <1>1 DEF OthersOK, OtherTypes
<1> HIDE DEF plan
<1>4. CASE KeepText(s) /\ UNCHANGED <<asked, screens>>
  BY <1>4, KeepTextIs DEF TakePlan
<1>5. CASE Becomes(s, Idle) /\ UNCHANGED <<asked, screens, disk, kept>>
  <2>1. OthersOK'
    BY <1>1, <1>5, FaultsOK DEF TakePlan
  <2> QED
    BY <1>5, <2>1, IdleShapes
<1>6. CASE /\ IsPlan(Top) /\ screens' = Append(Front(screens), plan)
           /\ Becomes(s, Idle) /\ UNCHANGED <<asked, disk, kept>>
  <2>1. Front(screens) # <<>> /\ ~IsPlan(Front(screens)[1])
    BY <1>1, <1>6, UnderAPlan
  <2>2. UNCHANGED <<editing, cluster, typed, over, editFaults>>
    BY DEF TakePlan
  <2>3. OthersOK'
    BY <1>1, <1>2, <1>3, <1>6, <2>1, <2>2, FrontFits, PushedOK
  <2> QED
    BY <1>6, <2>3, IdleShapes
<1>7. CASE /\ screens' = Append(screens, plan) /\ asked' = asked + 1
           /\ Becomes(s, Idle) /\ UNCHANGED <<disk, kept>>
  <2>1. UNCHANGED <<editing, cluster, typed, over, editFaults>> /\ asked' \in Nat
    BY <1>3, <1>7 DEF TakePlan
  <2>2. OthersOK'
    BY <1>1, <1>2, <1>3, <1>7, <2>1, PushedOK
  <2> QED
    BY <1>7, <2>2, IdleShapes
<1> QED
  BY <1>4, <1>5, <1>6, <1>7 DEF TakePlan, plan

LEMMA TakePlanDoneShapes ==
  ASSUME ShapeInv, NEW s \in Slots, TakePlanDone(s)
  PROVE  ShapeInv'
<1>1. /\ Becomes(s, Idle) /\ OthersOK
      /\ UNCHANGED <<editing, disk, kept, cluster, typed, over, editFaults>>
  BY DEF TakePlanDone, ShapeInv
<1>2. asked \in Nat
  BY <1>1 DEF OthersOK, OtherTypes
<1>3. CASE UNCHANGED <<screens, asked>>
  BY <1>1, <1>3, FaultsOK, IdleShapes
<1>4. CASE IsPlan(Top) /\ screens' = Front(screens) /\ asked' = asked + 1
  <2>1. screens' \in Seq(Page) /\ screens' # <<>> /\ ~IsPlan(screens'[1])
    BY <1>1, <1>4, UnderAPlan, FrontFits
  <2>2. \A i \in DOMAIN screens' : IsPlan(screens'[i]) =>
           Fits(screens'[i].submit) /\ screens'[i].submit.thing \in Planned
    BY <1>1, <1>4, FrontFits
  <2>3. OtherTypes' /\ editing' = editing
    BY <1>1, <1>2, <1>4, <2>1 DEF OthersOK, OtherTypes
  <2>4. OthersOK'
    BY <1>1, <2>1, <2>2, <2>3 DEF OthersOK
  <2> QED
    BY <1>1, <2>4, IdleShapes
<1>5. CASE IsPlan(Top) /\ screens' = Append(Front(screens), List) /\ asked' = asked + 2
  <2>1. Front(screens) # <<>> /\ ~IsPlan(Front(screens)[1]) /\ asked' \in Nat
    BY <1>1, <1>2, <1>5, UnderAPlan
  <2>2. List \in Page /\ ~IsPlan(List)
    BY EmptyIs DEF IsPlan, List
  <2>3. OthersOK'
    BY <1>1, <1>5, <2>1, <2>2, FrontFits, PushedOK
  <2> QED
    BY <1>1, <2>3, IdleShapes
<1> QED
  BY <1>3, <1>4, <1>5 DEF TakePlanDone

LEMMA ShapeInductive == ShapeInv /\ [EditNext]_editVars => ShapeInv'
<1> SUFFICES ASSUME ShapeInv, [EditNext]_editVars PROVE ShapeInv'
  OBVIOUS
<1>1. CASE UNCHANGED editVars
  <2>1. /\ UNCHANGED <<asked, screens, editing, disk, kept, cluster, typed, over, editFaults>>
        /\ work' = work
    BY <1>1 DEF editVars
  <2>2. OthersOK'
    BY <2>1, FaultsOK DEF ShapeInv
  <2> QED
    BY <2>1, <2>2 DEF ShapeInv
<1>2. CASE \E t \in Things : Change(t) \/ Delete(t) \/ Lock(t) \/ PressEdit(t) \/ PressNew(t)
  BY <1>2, OthersShape, PressEditShapes, PressNewShapes
<1>3. CASE MoveOn \/ Back \/ PressSubmit \/ PressReplan
  BY <1>3, MoveOnShapes, BackShapes, PressSubmitShapes, PressReplanShapes
<1>4. CASE \E s \in Slots : TakesMessage(s)
  BY <1>4, TakeFileShapes, OpenEditorShapes, FinishEditShapes, TakeRefusedShapes,
     TakePlanShapes, TakePlanDoneShapes DEF TakesMessage
<1>5. CASE \E s \in Slots : Answers(s) \/ SaveFails(s) \/ PeekFails(s) \/ PlanRefused(s) \/ SendFails(s)
  BY <1>5, ReadFileShapes, WriteFileShapes, FailedShapes, SavedShapes, PeekShapes,
     PlanAnswersShapes, SentShapes DEF Answers
<1>6. CASE \E s \in Slots : Closes(s) \/ EditorFails(s)
  BY <1>6, CloseEditorShapes, EditorFailsShapes DEF Closes
<1> QED
  BY <1>1, <1>2, <1>3, <1>4, <1>5, <1>6 DEF EditNext

LEMMA ShapeAlways == EditInit /\ [][EditNext]_editVars => []ShapeInv
BY ShapeInit, ShapeInductive, PTL

(* A save or a submit replaces only a version the person opened, was       *)
(* warned about, or saw the plan against, however many edits are in hand   *)
(* and whoever holds a lock: what variableConflict finds is what the next  *)
(* save names, and submitPlan goes at the index of its plan.               *)
THEOREM OverWhatIsKnown == EditInit /\ [][EditNext]_editVars => SavesOverKnown
<1> DEFINE X == \A s \in Slots :
       work[s].stage \in {"save", "send"} /\ cluster' # cluster
         /\ work'[s].stage # work[s].stage =>
       cluster[work[s].submit.thing].index \in work[s].submit.known
<1>1. ShapeInv /\ [EditNext]_editVars => [X]_editVars
  <2> SUFFICES ASSUME ShapeInv, EditNext, NEW s \in Slots, work[s].stage \in {"save", "send"},
                      cluster' # cluster, work'[s].stage # work[s].stage
               PROVE  cluster[work[s].submit.thing].index \in work[s].submit.known
    BY DEF editVars
  <2>1. work[s] \in Work /\ Shaped(work[s]) /\ work \in [Slots -> Work]
    BY DEF ShapeInv
  <2>2. work[s].submit.fresh => work[s].submit.at = 0
    BY <2>1 DEF Shaped, Fits, InFile
  <2>3. work[s].submit.at \in work[s].submit.known
    BY <2>1 DEF Shaped, Fits, InFile
  <2>4. PICK v \in Slots : /\ SaveChecks(v) \/ SaveFails(v) \/ SendAnswers(v) \/ SendFails(v)
                           /\ Takes(work[v].submit)
    <3>1. ~\E t \in Things : Change(t) \/ Delete(t) \/ Lock(t) \/ PressEdit(t) \/ PressNew(t)
      BY DEF Change, Delete, Lock, Others, PressEdit, PressNew
    <3>2. ~(MoveOn \/ Back \/ PressSubmit \/ PressReplan)
      BY DEF MoveOn, Back, PressSubmit, PressReplan
    <3>3. ~\E v \in Slots : TakesMessage(v)
      BY DEF TakesMessage, TakeFile, OpenEditor, FinishEdit, TakeRefused, TakePlan, TakePlanDone
    <3>4. ~\E v \in Slots : Closes(v) \/ EditorFails(v) \/ PeekFails(v) \/ PlanRefused(v)
      BY DEF Closes, CloseEditor, EditorFails, PeekFails, PlanRefused
    <3>5. ~\E v \in Slots : \/ ReadFile(v) \/ WriteFile(v) \/ ReadFails(v)
                           \/ (\E sees \in BOOLEAN : Peek(v, sees)) \/ PlanAnswers(v)
      BY DEF ReadFile, WriteFile, WritesFile, ReadFails, Peek, PlanAnswers
    <3>6. PICK v \in Slots : SaveChecks(v) \/ SaveFails(v) \/ SendAnswers(v) \/ SendFails(v)
      BY <3>1, <3>2, <3>3, <3>4, <3>5 DEF EditNext, Answers
    <3>7. Takes(work[v].submit)
      BY <3>6 DEF SaveChecks, SaveFails, SendAnswers, SendFails
    <3> QED
      BY <3>6, <3>7
  <2>5. v = s
    <3>1. PICK w : work' = [work EXCEPT ![v] = w]
      BY <2>4 DEF SaveChecks, SaveFails, SendAnswers, SendFails, Becomes
    <3> QED
      BY <2>1, <3>1
  <2>6. cluster[work[s].submit.thing].index = work[s].submit.at
    BY <2>2, <2>4, <2>5 DEF Takes
  <2> QED
    BY <2>3, <2>6
<1>2. SavesOverKnown <=> [][X]_editVars
  BY PTL DEF SavesOverKnown
<1> HIDE DEF X
<1> QED
  BY <1>1, <1>2, ShapeAlways, PTL

-----------------------------------------------------------------------------
(* The files are kept, one part at a time.                                 *)

(* A slot is with the editor exactly when it has a file that is in hand.   *)
LEMMA StagesApart ==
  /\ WithEditor \subseteq InFile /\ "file" \in InFile /\ "file" \in OnTheWay
  /\ \A x \in WithEditor : x \notin OnTheWay /\ x # "idle"
  /\ \A x \in OnTheWay : x # "idle"
BY DEF WithEditor, InFile, OnTheWay

(* One slot changes, and does not come to be the edit of the screen.       *)
LEMMA OneEditStays ==
  ASSUME work \in [Slots -> Work], OneEdit, NotAhead, asked \in Nat, asked' \in Nat,
         NEW s \in Slots, NEW w \in Work, Becomes(s, w),
         \/ asked' = asked /\ ((w.stage \in OnTheWay /\ w.asked = asked) => Current(work[s]))
         \/ asked' > asked /\ w.asked <= asked,
         w.stage \in WithEditor =>
           /\ Current(work[s])
           /\ editing'.original = w.content /\ editing'.submit # NoSubmit,
         editing' = editing \/ Current(work[s])
  PROVE  OneEdit'
<1>1. /\ work'[s] = w /\ \A t \in Slots \ {s} : work'[t] = work[t]
  BY BecomesIs
<1>2. \A t \in Slots : work[t] \in Work /\ work[t].asked \in Nat /\ work[t].asked <= asked
  BY DEF NotAhead, Work
<1>3. \A t \in Slots \ {s} : Current(work[t])' => Current(work[t])
  BY <1>1, <1>2 DEF Current
<1>4. Current(work[s])' => Current(work[s])
  <2>1. w.asked \in Nat
    BY DEF Work
  <2> QED
    BY <1>1, <2>1 DEF Current
<1>5. \A t, u \in Slots : Current(work[t])' /\ Current(work[u])' => t = u
  BY <1>3, <1>4 DEF OneEdit
<1>6. ASSUME NEW t \in Slots, work'[t].stage \in WithEditor
      PROVE  editing'.original = work'[t].content /\ editing'.submit # NoSubmit
  <2>1. CASE t = s
    BY <1>1, <1>6, <2>1
  <2>2. CASE t # s
    <3>1. work'[t] = work[t] /\ Current(work[t])
      BY <1>1, <1>6, <2>2 DEF Current
    <3>2. editing' = editing
      BY <2>2, <3>1 DEF OneEdit
    <3> QED
      BY <1>6, <3>1, <3>2 DEF OneEdit
  <2> QED
    BY <2>1, <2>2
<1> QED
  BY <1>5, <1>6 DEF OneEdit

(* What a slot and its file are.                                           *)
LEMMA FileTypes ==
  ASSUME ShapeInv
  PROVE  /\ work \in [Slots -> Work] /\ disk \in [Paths -> Holding] /\ kept \subseteq Paths
         /\ asked \in Nat
         /\ \A s \in Slots : /\ work[s].stage \in InFile <=> work[s].path # NoPath
                             /\ work[s].path # NoPath => work[s].path \in Paths
                             /\ work[s].content \in Holding /\ work[s].asked \in Nat
BY EditBounds DEF ShapeInv, OthersOK, OtherTypes, Shaped, Work, Paths, NoPath

(* A free path is no slot's and was not kept.                              *)
LEMMA FreeIsFree ==
  ASSUME ShapeInv, FilesFit, NEW p \in Paths, disk[p] = NoFile
  PROVE  p \notin kept /\ \A s \in Slots : work[s].path # p
<1>1. NoFile.text.n = 0 /\ NoFile.text.of \notin Things
  BY ThingsAssumption DEF NoFile, NoText, Content
<1>2. p # NoPath
  BY DEF Paths, NoPath
<1> QED
  BY <1>1, <1>2, FileTypes DEF FilesFit, FilesApart, OwnFile

(* The slot goes on with its file, or without one.                         *)
LEMMA FilesStay ==
  ASSUME ShapeInv, FilesFit, NEW s \in Slots, NEW w \in Work, Becomes(s, w),
         UNCHANGED <<disk, kept>>, w.path = work[s].path,
         w.stage \in InFile => /\ work[s].stage \in InFile /\ w.content = work[s].content
                               /\ w.stage = "edited" \/ work[s].stage # "edited"
  PROVE  FilesFit'
<1>1. work'[s] = w /\ \A t \in Slots \ {s} : work'[t] = work[t]
  BY BecomesIs, FileTypes
<1>2. \A t \in Slots : work'[t].path = work[t].path
  BY <1>1
<1>3. disk' = disk /\ kept' = kept
  OBVIOUS
<1>4. FilesApart'
  BY <1>2, <1>3 DEF FilesFit, FilesApart
<1>5. OwnFile(work[s])'
  BY <1>1, <1>3 DEF FilesFit, OwnFile
<1>6. \A t \in Slots \ {s} : OwnFile(work[t])'
  BY <1>1, <1>3 DEF FilesFit, OwnFile
<1> QED
  BY <1>4, <1>5, <1>6 DEF FilesFit

(* A new file gets a content, for a slot or for the person.                *)
LEMMA FileWritten ==
  ASSUME ShapeInv, FilesFit, NEW s \in Slots, NEW w \in Work, Becomes(s, w),
         NEW p \in Paths, disk[p] = NoFile, NEW content \in Holding, content.text.of \in Things,
         disk' = [disk EXCEPT ![p] = content], work[s].path = NoPath,
         \/ kept' = kept /\ w.path = p /\ w.stage = "file" /\ w.content = content
         \/ kept' = kept \cup {p} /\ w.path = NoPath /\ w.stage = "idle" /\ content.text.n >= 1
  PROVE  FilesFit'
<1>1. /\ work'[s] = w /\ \A t \in Slots \ {s} : work'[t] = work[t]
  BY BecomesIs, FileTypes
<1>2. p \notin kept /\ \A t \in Slots : work[t].path # p
  BY FreeIsFree
<1>3. disk'[p] = content /\ \A q \in Paths \ {p} : disk'[q] = disk[q]
  BY FileTypes
<1>4. p # NoPath /\ "idle" \notin InFile
  BY DEF Paths, NoPath, InFile
<1>5. \A t, u \in Slots : work'[t].path = work'[u].path /\ work'[t].path # NoPath => t = u
  BY <1>1, <1>2 DEF FilesFit, FilesApart
<1>6. \A q \in kept' : disk'[q].text.n >= 1 /\ disk'[q].text.of \in Things
  BY <1>2, <1>3, FileTypes DEF FilesFit, FilesApart
<1>7. \A q \in Paths \ kept' : disk'[q] # NoFile => \E t \in Slots : work'[t].path = q
  <2> SUFFICES ASSUME NEW q \in Paths \ kept', disk'[q] # NoFile
               PROVE  \E t \in Slots : work'[t].path = q
    OBVIOUS
  <2>1. CASE q = p
    BY <1>1, <2>1
  <2>2. CASE q # p
    <3>1. PICK t \in Slots : work[t].path = q
      BY <1>3, <2>2 DEF FilesFit, FilesApart
    <3>2. t # s
      BY <3>1 DEF Paths, NoPath
    <3> QED
      BY <1>1, <3>1, <3>2
  <2> QED
    BY <2>1, <2>2
<1>8. \A t \in Slots \ {s} : OwnFile(work[t])'
  <2> SUFFICES ASSUME NEW t \in Slots \ {s}, work[t].stage \in InFile
               PROVE  OwnFile(work[t])'
    BY <1>1 DEF OwnFile
  <2>1. work[t].path \in Paths /\ work[t].path # p /\ OwnFile(work[t])
    BY <1>2, FileTypes DEF FilesFit
  <2>2. disk'[work[t].path] = disk[work[t].path] /\ work'[t] = work[t]
    BY <1>1, <1>3, <2>1
  <2>3. work[t].path \notin kept'
    BY <2>1 DEF OwnFile
  <2> QED
    BY <2>1, <2>2, <2>3 DEF OwnFile
<1>9. OwnFile(work[s])'
  BY <1>1, <1>2, <1>3, <1>4 DEF OwnFile
<1> QED
  BY <1>5, <1>6, <1>7, <1>8, <1>9 DEF FilesFit, FilesApart

(* The file of a slot is removed, or kept for the person.                  *)
LEMMA FileLeft ==
  ASSUME ShapeInv, FilesFit, NEW s \in Slots, NEW w \in Work, Becomes(s, w),
         NEW p \in Paths, p = work[s].path, w.path = NoPath, w.stage \notin InFile,
         \/ kept' = kept /\ disk' = [disk EXCEPT ![p] = NoFile]
         \/ kept' = kept \cup {p} /\ disk' = disk /\ disk[p].text.n >= 1
  PROVE  FilesFit'
<1>1. /\ work'[s] = w /\ \A t \in Slots \ {s} : work'[t] = work[t]
  BY BecomesIs, FileTypes
<1>2. p # NoPath /\ work[s].stage \in InFile
  BY FileTypes DEF Paths, NoPath
<1>3. p \notin kept /\ disk[p].text.of \in Things /\ \A t \in Slots \ {s} : work[t].path # p
  BY <1>2 DEF FilesFit, FilesApart, OwnFile
<1>4. \A q \in Paths \ {p} : disk'[q] = disk[q]
  BY FileTypes
<1>5. \A t, u \in Slots : work'[t].path = work'[u].path /\ work'[t].path # NoPath => t = u
  BY <1>1 DEF FilesFit, FilesApart
<1>6. \A q \in kept' : disk'[q].text.n >= 1 /\ disk'[q].text.of \in Things
  <2>1. \A q \in kept : disk'[q] = disk[q]
    BY <1>3, <1>4, FileTypes
  <2> QED
    BY <1>3, <2>1 DEF FilesFit, FilesApart
<1>7. \A q \in Paths \ kept' : disk'[q] # NoFile => \E t \in Slots : work'[t].path = q
  <2> SUFFICES ASSUME NEW q \in Paths \ kept', disk'[q] # NoFile
               PROVE  \E t \in Slots : work'[t].path = q
    OBVIOUS
  <2>1. q # p
    BY FileTypes
  <2>2. PICK t \in Slots : work[t].path = q
    BY <1>4, <2>1 DEF FilesFit, FilesApart
  <2> QED
    BY <1>1, <2>1, <2>2
<1>8. \A t \in Slots \ {s} : OwnFile(work[t])'
  <2> SUFFICES ASSUME NEW t \in Slots \ {s}, work[t].stage \in InFile
               PROVE  OwnFile(work[t])'
    BY <1>1 DEF OwnFile
  <2>1. work[t].path \in Paths /\ work[t].path # p /\ OwnFile(work[t])
    BY <1>3, FileTypes DEF FilesFit
  <2>2. disk'[work[t].path] = disk[work[t].path] /\ work'[t] = work[t]
    BY <1>1, <1>4, <2>1
  <2>3. work[t].path \notin kept'
    BY <2>1 DEF OwnFile
  <2> QED
    BY <2>1, <2>2, <2>3 DEF OwnFile
<1>9. OwnFile(work[s])'
  BY <1>1 DEF OwnFile
<1> QED
  BY <1>5, <1>6, <1>7, <1>8, <1>9 DEF FilesFit, FilesApart

(* The editor leaves something in the file of its slot.                    *)
LEMMA FileEdited ==
  ASSUME ShapeInv, FilesFit, NEW s \in Slots, NEW w \in Work, Becomes(s, w),
         NEW p \in Paths, p = work[s].path, w.path = p, w.stage = "edited", kept' = kept,
         NEW content \in Holding, content.text.of \in Things,
         content = w.content \/ content.text.n >= 1,
         disk' = [disk EXCEPT ![p] = content]
  PROVE  FilesFit'
<1>1. /\ work'[s] = w /\ \A t \in Slots \ {s} : work'[t] = work[t]
  BY BecomesIs, FileTypes
<1>2. p # NoPath /\ work[s].stage \in InFile
  BY FileTypes DEF Paths, NoPath
<1>3. p \notin kept /\ \A t \in Slots \ {s} : work[t].path # p
  BY <1>2 DEF FilesFit, FilesApart, OwnFile
<1>4. disk'[p] = content /\ \A q \in Paths \ {p} : disk'[q] = disk[q]
  BY FileTypes
<1>5. \A t \in Slots : work'[t].path = work[t].path
  BY <1>1
<1>6. \A q \in kept : disk'[q] = disk[q]
  BY <1>3, <1>4, FileTypes
<1>7. \A q \in Paths \ kept : disk'[q] # NoFile => \E t \in Slots : work'[t].path = q
  BY <1>1, <1>4, <1>5 DEF FilesFit, FilesApart
<1>8. \A t \in Slots \ {s} : OwnFile(work[t])'
  <2> SUFFICES ASSUME NEW t \in Slots \ {s}, work[t].stage \in InFile
               PROVE  OwnFile(work[t])'
    BY <1>1 DEF OwnFile
  <2>1. work[t].path \in Paths /\ work[t].path # p /\ OwnFile(work[t])
    BY <1>3, FileTypes DEF FilesFit
  <2>2. disk'[work[t].path] = disk[work[t].path] /\ work'[t] = work[t]
    BY <1>1, <1>4, <2>1
  <2> QED
    BY <2>1, <2>2 DEF OwnFile
<1>9. OwnFile(work[s])'
  BY <1>1, <1>3, <1>4 DEF OwnFile
<1>10. FilesApart'
  BY <1>5, <1>6, <1>7 DEF FilesFit, FilesApart
<1> QED
  BY <1>8, <1>9, <1>10 DEF FilesFit

-----------------------------------------------------------------------------
(* The files are kept by every action.                                     *)

LEMMA FilesInit == EditInit => FilesInv
<1> SUFFICES ASSUME EditInit PROVE FilesInv
  OBVIOUS
<1>1. ShapeInv /\ asked = 1 /\ kept = {}
  BY ShapeInit DEF EditInit
<1>2. /\ \A s \in Slots : work[s].stage = "idle" /\ work[s].path = NoPath /\ work[s].asked = 0
                            /\ work[s].content.header = FALSE
      /\ editing.asked = 0 /\ \A p \in Paths : disk[p] = NoFile
  BY DEF EditInit, Idle, NoEdit, NoFile, Content
<1>3. /\ "idle" \notin InFile /\ "idle" \notin WithEditor /\ "idle" \notin OnTheWay
  BY DEF InFile, WithEditor, OnTheWay
<1>4. OneEdit /\ NotAhead
  BY <1>1, <1>2, <1>3 DEF OneEdit, Current, NotAhead
<1>5. FilesFit
  BY <1>1, <1>2, <1>3 DEF FilesFit, FilesApart, OwnFile
<1>6. \A s \in Slots : Holds(work[s])
  BY <1>2, <1>3 DEF Holds, OfEdit
<1> QED
  BY <1>1, <1>4, <1>5, <1>6 DEF FilesInv

(* A step of one slot, with its parts.                                     *)
LEMMA FilesStep ==
  ASSUME FilesInv, ShapeInv', NEW s \in Slots, NEW w \in Work, Becomes(s, w), Holds(w),
         OneEdit', FilesFit', w.asked <= asked', asked <= asked',
         editing' = editing \/ editing'.asked <= asked'
  PROVE  FilesInv'
<1>1. /\ work'[s] = w /\ \A t \in Slots \ {s} : work'[t] = work[t]
  BY BecomesIs, FileTypes DEF FilesInv
<1>2. /\ asked \in Nat /\ asked' \in Nat /\ editing.asked \in Nat
      /\ \A t \in Slots : work[t].asked \in Nat
  BY FileTypes DEF FilesInv, ShapeInv, OthersOK, OtherTypes
<1>3. \A t \in Slots : work'[t].asked <= asked'
  BY <1>1, <1>2 DEF FilesInv, NotAhead
<1>4. editing'.asked <= asked'
  BY <1>2 DEF FilesInv, NotAhead
<1>5. \A t \in Slots : Holds(work[t])'
  BY <1>1 DEF FilesInv, Holds, OfEdit
<1> QED
  BY <1>3, <1>4, <1>5 DEF FilesInv, NotAhead

(* A request or a message that goes on.                                    *)
LEMMA GoesOn ==
  ASSUME FilesInv, ShapeInv', NEW s \in Slots, NEW w \in Work, Becomes(s, w), Holds(w),
         UNCHANGED <<asked, editing, disk, kept>>, w.path = work[s].path, w.asked <= asked,
         (w.stage \in OnTheWay /\ w.asked = asked) => Current(work[s]),
         w.stage \in WithEditor => work[s].stage \in WithEditor,
         w.stage \in InFile => /\ work[s].stage \in InFile /\ w.content = work[s].content
                               /\ w.stage = "edited" \/ work[s].stage # "edited"
  PROVE  FilesInv'
<1>1. work \in [Slots -> Work] /\ asked \in Nat /\ OneEdit /\ NotAhead /\ FilesFit /\ ShapeInv
  BY FileTypes DEF FilesInv
<1>2. editing' = editing /\ asked' = asked
  OBVIOUS
<1>3. w.stage \in WithEditor =>
        /\ Current(work[s])
        /\ editing'.original = w.content /\ editing'.submit # NoSubmit
  BY <1>1, <1>2, StagesApart DEF OneEdit, Current
<1>4. OneEdit'
  BY <1>1, <1>2, <1>3, OneEditStays
<1>5. FilesFit'
  BY <1>1, FilesStay
<1> QED
  BY <1>1, <1>2, <1>4, <1>5, FilesStep

(* A slot that is done and had no file, and screens that may have changed. *)
LEMMA IdleFiles ==
  ASSUME FilesInv, ShapeInv', NEW s \in Slots, Becomes(s, Idle), work[s].stage \notin InFile,
         UNCHANGED <<editing, disk, kept>>, asked' \in Nat, asked' >= asked
  PROVE  FilesInv'
<1>1. work \in [Slots -> Work] /\ asked \in Nat /\ OneEdit /\ NotAhead /\ FilesFit /\ ShapeInv
  BY FileTypes DEF FilesInv
<1>2. /\ Idle \in Work /\ Idle.stage = "idle" /\ Idle.path = NoPath /\ Idle.asked = 0
      /\ Idle.content.header = FALSE
  BY EmptyIs DEF Idle, NoFile, Content
<1>3. "idle" \notin InFile /\ "idle" \notin WithEditor /\ "idle" \notin OnTheWay
  BY DEF InFile, WithEditor, OnTheWay
<1>4. Holds(Idle)
  BY <1>2, <1>3 DEF Holds, OfEdit
<1>5. work[s].path = NoPath
  BY <1>1, FileTypes
<1>6. OneEdit'
  <2>1. asked' = asked \/ asked' > asked
    BY <1>1
  <2> QED
    BY <1>1, <1>2, <1>3, <2>1, OneEditStays
<1>7. FilesFit'
  BY <1>1, <1>2, <1>3, <1>5, FilesStay
<1> QED
  BY <1>1, <1>2, <1>4, <1>6, <1>7, FilesStep

LEMMA ElsewhereFiles ==
  ASSUME FilesInv, ShapeInv', UNCHANGED <<work, editing, disk, kept>>,
         asked' \in Nat, asked' >= asked
  PROVE  FilesInv'
<1>1. /\ asked \in Nat /\ editing.asked \in Nat /\ work' = work
      /\ \A t \in Slots : work[t].asked \in Nat /\ work[t].asked <= asked
  BY FileTypes DEF FilesInv, NotAhead, ShapeInv, OthersOK, OtherTypes
<1>2. \A t \in Slots : Current(work[t])' => Current(work[t])
  BY <1>1 DEF Current
<1>3. OneEdit'
  BY <1>1, <1>2 DEF FilesInv, OneEdit
<1>4. NotAhead'
  BY <1>1 DEF FilesInv, NotAhead
<1>5. FilesFit' /\ \A s \in Slots : Holds(work[s])'
  BY DEF FilesInv, FilesFit, FilesApart, OwnFile, Holds, OfEdit
<1> QED
  BY <1>3, <1>4, <1>5 DEF FilesInv

(* With nothing in hand no slot is the edit of the screen.                 *)
LEMMA HandsFree ==
  ASSUME Together = 1, Cardinality(InHand) < Together
  PROVE  \A s \in Slots : ~Current(work[s])
<1>1. IsFiniteSet(Slots)
  BY EditBounds, FS_Interval DEF Slots
<1>2. InHand \in SUBSET Slots
  BY DEF InHand
<1>3. IsFiniteSet(InHand)
  BY <1>1, <1>2, FS_Subset
<1>4. Cardinality(InHand) \in Nat
  BY <1>3, FS_CardinalityType
<1>5. InHand = {}
  BY <1>3, <1>4, FS_EmptySet
<1> QED
  BY <1>5, StagesApart DEF InHand, Current, Late, WithEditor

LEMMA PressFiles ==
  ASSUME Together = 1, FilesInv, NEW t \in Things, PressEdit(t) \/ PressNew(t)
  PROVE  FilesInv'
<1>1. ShapeInv' /\ ShapeInv
  BY PressEditShapes, PressNewShapes DEF FilesInv
<1>2. PICK w \in Work : /\ Start(w) /\ w.stage \in {"read", "write"} /\ w.asked = asked
                        /\ w.path = NoPath
                        /\ \/ w.stage = "read" /\ w.content = NoFile
                           \/ w.content = Content([of |-> t, n |-> 0], FALSE)
  BY <1>1, PressEditShapes, PressNewShapes
<1>3. /\ UNCHANGED <<asked, editing, disk, kept>>
      /\ Cardinality(InHand) < Together
  BY DEF PressEdit, PressNew
<1>4. /\ FreeSlot \in Slots /\ work[FreeSlot].stage = "idle" /\ Becomes(FreeSlot, w)
  BY <1>2, StartIs
<1>5. \A s \in Slots : ~Current(work[s])
  BY <1>3, HandsFree
<1>6. w.stage \notin WithEditor /\ w.stage \notin InFile
  BY <1>2 DEF WithEditor, InFile
<1>7. work'[FreeSlot] = w /\ \A s \in Slots \ {FreeSlot} : work'[s] = work[s]
  BY <1>1, <1>4, FileTypes, BecomesIs
<1>8. OneEdit'
  <2>1. \A s \in Slots \ {FreeSlot} : ~Current(work[s])'
    BY <1>3, <1>5, <1>7 DEF Current
  <2>2. \A s \in Slots : work'[s].stage \notin WithEditor
    BY <1>5, <1>6, <1>7 DEF Current
  <2> QED
    BY <2>1, <2>2 DEF OneEdit
<1>9. Holds(w)
  BY <1>2 DEF Holds, OfEdit, NoFile, NoText, Content, InFile
<1>10. FilesFit'
  <2>1. work[FreeSlot].path = NoPath
    BY <1>1, <1>4, FileTypes DEF InFile
  <2> QED
    BY <1>1, <1>2, <1>3, <1>4, <1>6, <2>1, FilesStay DEF FilesInv
<1>11. w.asked <= asked' /\ asked <= asked' /\ editing' = editing
  BY <1>1, <1>2, <1>3, FileTypes
<1> QED
  BY <1>1, <1>4, <1>8, <1>9, <1>10, <1>11, FilesStep

LEMMA OfPlanFiles ==
  ASSUME FilesInv, PressSubmit \/ PressReplan
  PROVE  FilesInv'
<1>1. ShapeInv' /\ ShapeInv
  BY PressSubmitShapes, PressReplanShapes DEF FilesInv
<1>2. PICK w \in Work : /\ Start(w) /\ w.stage \in {"send", "replan"} /\ w.asked = asked
                        /\ w.content = Content(Top.text, FALSE)
  BY <1>1, PressSubmitShapes, PressReplanShapes
<1>3. UNCHANGED <<asked, editing, disk, kept>>
  BY DEF PressSubmit, PressReplan
<1>4. /\ FreeSlot \in Slots /\ work[FreeSlot].stage = "idle" /\ Becomes(FreeSlot, w)
  BY <1>2, StartIs
<1>5. w.stage \notin WithEditor /\ w.stage \notin InFile /\ w.stage \notin OnTheWay
  BY <1>2 DEF WithEditor, InFile, OnTheWay
<1>6. w.path = work[FreeSlot].path
  <2>1. work'[FreeSlot] = w
    BY <1>1, <1>4, FileTypes, BecomesIs
  <2>2. w.path = NoPath
    BY <1>1, <1>4, <1>5, <2>1 DEF ShapeInv, Shaped
  <2> QED
    BY <1>1, <1>4, <2>2, FileTypes DEF InFile
<1>7. Holds(w)
  BY <1>2 DEF Holds, OfEdit, Content, InFile
<1>8. w.asked <= asked
  BY <1>1, <1>2, FileTypes
<1> QED
  BY <1>1, <1>3, <1>4, <1>5, <1>6, <1>7, <1>8, GoesOn

LEMMA ScreenFiles ==
  ASSUME FilesInv, MoveOn \/ Back \/ \E t \in Things : Change(t) \/ Delete(t) \/ Lock(t)
  PROVE  FilesInv'
<1>1. ShapeInv' /\ ShapeInv
  BY MoveOnShapes, BackShapes, OthersShape DEF FilesInv
<1>2. UNCHANGED <<work, editing, disk, kept>> /\ asked' \in {asked, asked + 1}
  <2>1. CASE MoveOn \/ Back
    BY <2>1 DEF MoveOn, Back
  <2>2. CASE \E t \in Things : Change(t) \/ Delete(t) \/ Lock(t)
    BY <2>2, OthersAre DEF Besides, FilesInv, ShapeInv, OthersOK, OtherTypes
  <2> QED
    BY <2>1, <2>2
<1>3. asked' \in Nat /\ asked' >= asked
  BY <1>1, <1>2, FileTypes
<1> QED
  BY <1>1, <1>2, <1>3, ElsewhereFiles

(* What a slot that goes on may keep.                                      *)
LEMMA SlotIs ==
  ASSUME FilesInv, NEW s \in Slots
  PROVE  /\ ShapeInv /\ work[s] \in Work /\ Shaped(work[s]) /\ Holds(work[s])
         /\ work[s].asked <= asked /\ work[s].asked \in Nat /\ asked \in Nat
         /\ OwnFile(work[s]) /\ work[s].content \in Holding
         /\ work[s].path # NoPath => work[s].path \in Paths
         /\ disk \in [Paths -> Holding]
BY FileTypes DEF FilesInv, NotAhead, FilesFit, ShapeInv

LEMMA CloseEditorFiles ==
  ASSUME FilesInv, NEW s \in Slots, NEW content, CloseEditor(s, content)
  PROVE  FilesInv'
<1> DEFINE p == work[s].path
           w == At(s, "edited")
<1>1. /\ ShapeInv' /\ work[s].stage = "editor" /\ content \in Written(disk[p])
      /\ disk' = [disk EXCEPT ![p] = content] /\ Becomes(s, w)
      /\ UNCHANGED <<asked, editing, kept>>
  BY CloseEditorShapes DEF FilesInv, CloseEditor
<1>2. /\ p \in Paths /\ disk[p] = work[s].content /\ disk[p].text.of \in Things
      /\ disk[p] \in Holding
  BY <1>1, SlotIs DEF OwnFile, InFile, Shaped
<1>3. /\ w \in Work /\ w.stage = "edited" /\ w.path = p /\ w.content = work[s].content
      /\ w.asked = work[s].asked
  BY SlotIs, AtIs DEF Stages, InFile
<1> HIDE DEF w, p
<1>4. /\ content \in Holding /\ content.text.of \in Things
      /\ content = work[s].content \/ content.text.n >= 1
  <2>1. typed \in Nat
    BY DEF FilesInv, ShapeInv, OthersOK, OtherTypes
  <2>2. work[s].content.header => work[s].content.text.n >= 1
    BY SlotIs DEF Holds
  <2>3. /\ content \in Holding
        /\ \/ content = disk[p]
           \/ content.text = disk[p].text /\ ~content.header
           \/ /\ content.text = [of |-> disk[p].text.of, n |-> typed + 1] /\ typed < MaxTyped
              /\ content.header \in {FALSE, disk[p].header}
    BY <1>1, <1>2, <2>1, WrittenIs
  <2>4. CASE content = disk[p]
    BY <1>2, <2>3, <2>4
  <2>5. CASE content.text = disk[p].text /\ ~content.header /\ disk[p].header
    BY <1>2, <2>2, <2>3, <2>5
  <2>6. CASE content.text = disk[p].text /\ ~content.header /\ ~disk[p].header
    BY <1>2, <2>3, <2>6 DEF Holding
  <2>7. CASE content.text = [of |-> disk[p].text.of, n |-> typed + 1]
    BY <1>2, <2>1, <2>3, <2>7
  <2> QED
    BY <2>3, <2>4, <2>5, <2>6, <2>7
<1>5. OneEdit'
  <2>1. Current(work[s]) /\ w.stage \in WithEditor /\ w.stage \notin OnTheWay
    BY <1>1, <1>3 DEF Current, WithEditor, OnTheWay
  <2>2. editing.original = work[s].content /\ editing.submit # NoSubmit
    BY <1>1 DEF FilesInv, OneEdit, WithEditor
  <2>3. editing' = editing /\ asked' = asked
    BY <1>1
  <2>4. work \in [Slots -> Work] /\ asked \in Nat /\ OneEdit /\ NotAhead
    BY FileTypes DEF FilesInv
  <2> QED
    BY <1>1, <1>3, <2>1, <2>2, <2>3, <2>4, OneEditStays
<1>6. FilesFit'
  BY <1>1, <1>2, <1>3, <1>4, FileEdited DEF FilesInv, p
<1>7. Holds(w)
  BY <1>1, <1>3, SlotIs DEF Holds, OfEdit, InFile
<1>8. w.asked <= asked' /\ asked <= asked' /\ editing' = editing
  BY <1>1, <1>3, SlotIs
<1> QED
  BY <1>1, <1>3, <1>5, <1>6, <1>7, <1>8, FilesStep

LEMMA EditorFiles ==
  ASSUME FilesInv, NEW s \in Slots, EditorFails(s) \/ OpenEditor(s)
  PROVE  FilesInv'
<1>1. PICK stage \in {"failed", "editor"} :
        /\ Becomes(s, At(s, stage)) /\ work[s].stage \in {"exec", "editor"}
        /\ UNCHANGED <<asked, editing, disk, kept>>
  BY DEF EditorFails, OpenEditor
<1>2. ShapeInv'
  BY EditorFailsShapes, OpenEditorShapes DEF FilesInv
<1>3. PICK w \in Work : /\ w = At(s, stage) /\ w.stage = stage /\ w.path = work[s].path
                        /\ w.content = work[s].content /\ w.asked = work[s].asked
  BY SlotIs, AtIs DEF Stages, InFile
<1>4. Holds(w)
  BY <1>1, <1>3, SlotIs DEF Holds, OfEdit, InFile
<1>5. /\ w.stage \notin OnTheWay /\ work[s].stage \in WithEditor /\ work[s].stage \in InFile
      /\ work[s].stage # "edited"
  BY <1>1, <1>3 DEF OnTheWay, WithEditor, InFile
<1> QED
  BY <1>1, <1>2, <1>3, <1>4, <1>5, SlotIs, GoesOn

(* A slot that had no file gets one.                                       *)
LEMMA WritesFileFiles ==
  ASSUME FilesInv, NEW s \in Slots, NEW content \in Holding, NEW submit \in Submit,
         Fits(submit), WritesFile(s, content, submit), work[s].stage \in {"read", "write"},
         content.text.of \in Things, content.header => content.text.n >= 1
  PROVE  FilesInv'
<1>1. /\ ShapeInv' /\ FreePath \in Paths /\ disk[FreePath] = NoFile
      /\ disk' = [disk EXCEPT ![FreePath] = content]
  BY WritesFileShapes DEF FilesInv
<1>2. PICK w \in Work : /\ Becomes(s, w) /\ w.stage = "file" /\ w.path = FreePath
                        /\ w.content = content /\ w.asked = work[s].asked
  BY WritesFileShapes DEF FilesInv
<1>3. UNCHANGED <<asked, editing, kept>>
  BY DEF WritesFile
<1>4. FilesFit'
  <2>1. work[s].path = NoPath
    BY SlotIs DEF Shaped, InFile
  <2> QED
    BY <1>1, <1>2, <1>3, <2>1, FileWritten DEF FilesInv
<1>5. OneEdit'
  <2>1. w.stage \notin WithEditor /\ (w.asked = asked => Current(work[s]))
    BY <1>2 DEF WithEditor, OnTheWay, Current
  <2>2. editing' = editing /\ asked' = asked
    BY <1>3
  <2> QED
    BY <1>2, <2>1, <2>2, FileTypes, OneEditStays DEF FilesInv
<1>6. Holds(w)
  BY <1>2 DEF Holds, OfEdit
<1>7. w.asked <= asked' /\ asked <= asked' /\ editing' = editing
  BY <1>2, <1>3, SlotIs
<1> QED
  BY <1>1, <1>2, <1>4, <1>5, <1>6, <1>7, FilesStep

LEMMA OpenFiles ==
  ASSUME FilesInv, NEW s \in Slots, ReadFile(s) \/ WriteFile(s)
  PROVE  FilesInv'
<1>1. CASE ReadFile(s)
  <2>1. PICK t \in Things, submit \in Submit :
          /\ Fits(submit) /\ [of |-> t, n |-> cluster[t].n] \in Text
          /\ WritesFile(s, Content([of |-> t, n |-> cluster[t].n], FALSE), submit)
    BY <1>1, ReadFileShapes DEF FilesInv
  <2>2. PICK content : content = Content([of |-> t, n |-> cluster[t].n], FALSE)
    OBVIOUS
  <2>3. content \in Holding /\ content.text.of \in Things /\ content.header = FALSE
    BY <2>1, <2>2 DEF Content, Holding
  <2>4. work[s].stage = "read" /\ WritesFile(s, content, submit)
    BY <1>1, <2>1, <2>2 DEF ReadFile
  <2> QED
    BY <2>1, <2>3, <2>4, WritesFileFiles
<1>2. CASE WriteFile(s)
  <2>1. work[s].content.text.of \in Things
        /\ (work[s].content.header => work[s].content.text.n >= 1)
    BY <1>2, SlotIs DEF WriteFile, Holds, OfEdit
  <2> QED
    BY <1>2, <2>1, WriteFileShapes, WritesFileFiles DEF WriteFile, FilesInv
<1> QED
  BY <1>1, <1>2

(* A request that is answered, and goes on with the same text.             *)
LEMMA AnsweredFiles ==
  ASSUME FilesInv, ShapeInv', NEW s \in Slots, NEW w \in Work, Becomes(s, w),
         UNCHANGED <<asked, editing, disk, kept>>,
         w.content = work[s].content, w.asked = work[s].asked, w.wrote = work[s].wrote,
         w.path = work[s].path,
         \/ work[s].stage = "save" /\ w.stage = "peek"
         \/ work[s].stage \in {"save", "peek", "plan"} /\ w.stage = "refused"
         \/ work[s].stage \in {"plan", "replan"} /\ w.stage = "planned"
         \/ work[s].stage = "send" /\ w.stage = "planDone"
  PROVE  FilesInv'
<1>1. Holds(w)
  BY SlotIs DEF Holds, OfEdit, Shaped, InFile
<1>2. w.stage \notin WithEditor /\ w.stage \notin InFile
  BY DEF WithEditor, InFile
<1>3. (w.stage \in OnTheWay /\ w.asked = asked) => Current(work[s])
  BY DEF OnTheWay, Current
<1>4. w.asked <= asked
  BY SlotIs
<1> QED
  BY <1>1, <1>2, <1>3, <1>4, GoesOn

LEMMA AnswerFiles ==
  ASSUME FilesInv, NEW s \in Slots,
         \/ ReadFails(s) \/ SaveChecks(s) \/ SaveFails(s) \/ \E sees \in BOOLEAN : Peek(s, sees)
         \/ PeekFails(s) \/ PlanAnswers(s) \/ PlanRefused(s) \/ SendAnswers(s) \/ SendFails(s)
  PROVE  FilesInv'
<1>1. ShapeInv' /\ ShapeInv
  BY FailedShapes, SavedShapes, PeekShapes, PlanAnswersShapes, SentShapes DEF FilesInv
<1>2. UNCHANGED <<asked, editing, disk, kept>>
  BY DEF ReadFails, SaveChecks, SaveFails, Peek, PeekFails, PlanAnswers, PlanRefused,
         SendAnswers, SendFails
<1>3. CASE Becomes(s, Idle)
  <2>1. work[s].stage \notin InFile
    BY DEF ReadFails, SaveChecks, SaveFails, Peek, PeekFails, PlanAnswers, PlanRefused,
           SendAnswers, SendFails, InFile
  <2>2. asked' \in Nat /\ asked' >= asked
    BY <1>1, <1>2, FileTypes
  <2> QED
    BY <1>1, <1>2, <1>3, <2>1, <2>2, IdleFiles
<1>4. ASSUME NEW stage \in {"peek", "refused", "planDone"}, Becomes(s, At(s, stage)),
             \/ work[s].stage = "save" /\ stage = "peek"
             \/ work[s].stage \in {"save", "peek", "plan"} /\ stage = "refused"
             \/ work[s].stage = "send" /\ stage = "planDone"
      PROVE  FilesInv'
  <2>1. PICK w \in Work : /\ w = At(s, stage) /\ w.stage = stage /\ w.path = work[s].path
                          /\ w.content = work[s].content /\ w.asked = work[s].asked
                          /\ w.wrote = work[s].wrote
    BY SlotIs, AtIs DEF Stages, InFile
  <2> QED
    BY <1>1, <1>2, <1>4, <2>1, AnsweredFiles
<1>5. CASE ReadFails(s)
  BY <1>3, <1>5 DEF ReadFails
<1>6. CASE SaveChecks(s) \/ SaveFails(s)
  BY <1>3, <1>4, <1>6 DEF SaveChecks, SaveFails
<1>7. CASE PeekFails(s) \/ PlanRefused(s)
  BY <1>3, <1>4, <1>7 DEF PeekFails, PlanRefused
<1>8. CASE SendAnswers(s) \/ SendFails(s)
  BY <1>3, <1>4, <1>8 DEF SendAnswers, SendFails
<1>9. CASE \E sees \in BOOLEAN : Peek(s, sees)
  BY <1>1, <1>2, <1>9, PeekShapes, AnsweredFiles DEF Peek
<1>10. CASE PlanAnswers(s)
  BY <1>1, <1>2, <1>10, PlanAnswersShapes, AnsweredFiles DEF PlanAnswers
<1> QED
  BY <1>5, <1>6, <1>7, <1>8, <1>9, <1>10

LEMMA TakeFileFiles ==
  ASSUME FilesInv, NEW s \in Slots, TakeFile(s)
  PROVE  FilesInv'
<1>1. /\ ShapeInv' /\ ShapeInv /\ work[s].stage = "file"
      /\ UNCHANGED <<asked, screens, cluster, typed, over, editFaults>>
  BY TakeFileShapes DEF FilesInv, TakeFile
<1>2. /\ work[s].path \in Paths /\ disk[work[s].path] = work[s].content
  BY <1>1, SlotIs DEF OwnFile, Shaped, InFile
<1>3. CASE StartEdit(s) /\ ~Late(s)
  <2>1. PICK w \in Work : /\ Becomes(s, w) /\ w.stage = "exec" /\ w.path = work[s].path
                          /\ w.content = work[s].content /\ w.asked = 0
    <3>1. PICK w \in Work : /\ Becomes(s, w) /\ w.stage = "exec" /\ w.path = work[s].path
                            /\ w.content = work[s].content
      BY <1>1, <1>3, StartEditIs
    <3>2. work' = [work EXCEPT ![s] = w]
      BY <3>1 DEF Becomes
    <3>3. PICK none \in Nat : none = 0
      OBVIOUS
    <3>4. Idle.asked = none
      BY <3>3 DEF Idle
    <3>5. PICK v : v = [Idle EXCEPT !.stage = "exec", !.path = work[s].path,
                             !.content = work[s].content]
      OBVIOUS
    <3>6. v.asked = none
      BY <3>4, <3>5, EmptyIs DEF Work
    <3>7. Becomes(s, v)
      BY <1>3, <3>5 DEF StartEdit
    <3>8. work \in [Slots -> Work]
      BY <1>1, FileTypes
    <3>9. v = w
      BY <3>2, <3>7, <3>8 DEF Becomes
    <3> QED
      BY <3>1, <3>3, <3>6, <3>9
  <2>2. /\ editing'.original = work[s].content /\ editing'.submit = work[s].submit
        /\ editing'.asked = asked
    BY <1>3 DEF StartEdit
  <2>3. work[s].submit # NoSubmit
    <3>1. Fits(work[s].submit)
      BY <1>1, <1>3, StartEditIs
    <3> QED
      BY <3>1, ThingsAssumption DEF Fits, NoSubmit
  <2>4. Current(work[s])
    BY <1>1, <1>3 DEF Current, Late, OnTheWay
  <2>5. w.stage \notin OnTheWay /\ w.stage \in InFile
    BY <2>1 DEF OnTheWay, InFile
  <2>6. UNCHANGED <<disk, kept, asked>>
    BY <1>1, <1>3 DEF StartEdit
  <2>7. OneEdit'
    <3>1. asked' = asked
      BY <2>6
    <3> QED
      BY <2>1, <2>2, <2>3, <2>4, <2>5, <3>1, FileTypes, OneEditStays DEF FilesInv
  <2>8. FilesFit'
    BY <1>1, <2>1, <2>5, <2>6, FilesStay DEF FilesInv, InFile
  <2>9. Holds(w)
    BY <1>1, <2>1, SlotIs DEF Holds, OfEdit, InFile
  <2>10. w.asked <= asked' /\ asked <= asked' /\ editing'.asked <= asked'
    BY <2>1, <2>2, <2>6, SlotIs
  <2> QED
    BY <1>1, <2>1, <2>7, <2>8, <2>9, <2>10, FilesStep
<1>4. CASE KeepFile(s)
  <2>1. /\ Idle \in Work /\ Idle.stage = "idle" /\ Idle.path = NoPath /\ Idle.asked = 0
        /\ Idle.content.header = FALSE /\ "idle" \notin InFile /\ "idle" \notin WithEditor
        /\ "idle" \notin OnTheWay
    BY EmptyIs DEF Idle, NoFile, Content, InFile, WithEditor, OnTheWay
  <2>2. Becomes(s, Idle) /\ editing' = editing /\ asked' = asked
    BY <1>1, <1>4 DEF KeepFile
  <2>3. Holds(Idle)
    BY <2>1 DEF Holds, OfEdit
  <2>4. FilesFit'
    <3>1. CASE work[s].content.header
      <4>1. kept' = kept \cup {work[s].path} /\ disk' = disk
        BY <1>4, <3>1 DEF KeepFile
      <4>2. disk[work[s].path].text.n >= 1
        BY <1>2, <3>1, SlotIs DEF Holds
      <4> QED
        BY <1>2, <2>1, <2>2, <4>1, <4>2, FileLeft DEF FilesInv
    <3>2. CASE ~work[s].content.header
      <4>1. kept' = kept /\ disk' = [disk EXCEPT ![work[s].path] = NoFile]
        BY <1>4, <3>2 DEF KeepFile
      <4> QED
        BY <1>2, <2>1, <2>2, <4>1, FileLeft DEF FilesInv
    <3> QED
      BY <3>1, <3>2
  <2>5. OneEdit'
    BY <2>1, <2>2, FileTypes, OneEditStays DEF FilesInv
  <2>6. Idle.asked <= asked' /\ asked <= asked'
    BY <2>1, <2>2, SlotIs
  <2> QED
    BY <1>1, <2>1, <2>2, <2>3, <2>4, <2>5, <2>6, FilesStep
<1> QED
  BY <1>3, <1>4 DEF TakeFile

(* The file of the editor is removed, and what is sent is in hand.         *)
LEMMA FinishEditFiles ==
  ASSUME FilesInv, NEW s \in Slots, FinishEdit(s)
  PROVE  FilesInv'
<1> DEFINE p == work[s].path
<1>1. /\ ShapeInv' /\ ShapeInv /\ work[s].stage \in {"edited", "failed"}
      /\ disk' = [disk EXCEPT ![p] = NoFile] /\ editing' = NoEdit
      /\ UNCHANGED <<asked, screens, kept, cluster, typed, over, editFaults>>
  BY FinishEditShapes DEF FilesInv, FinishEdit
<1>2. /\ p \in Paths /\ disk[p] \in Holding /\ disk[p].text.of \in Things
      /\ editing.original = work[s].content /\ editing.submit # NoSubmit
      /\ Current(work[s]) /\ (disk[p] = work[s].content \/ disk[p].text.n >= 1)
  <2>1. work[s].stage \in InFile /\ work[s].stage \in WithEditor
    BY <1>1 DEF InFile, WithEditor
  <2>2. /\ p \in Paths /\ disk[p].text.of \in Things
        /\ disk[p] = work[s].content \/ disk[p].text.n >= 1
    BY <2>1, SlotIs DEF OwnFile, Shaped
  <2>3. disk[p] \in Holding
    BY <2>2, SlotIs
  <2>4. editing.original = work[s].content /\ editing.submit # NoSubmit
    BY <2>1 DEF FilesInv, OneEdit
  <2> QED
    BY <2>1, <2>2, <2>3, <2>4 DEF Current
<1>3. PICK w \in Work : /\ Becomes(s, w) /\ w.stage \in {"idle", "save", "plan"}
                        /\ w.path = NoPath /\ w.asked <= asked /\ Holds(w)
  <2>1. CASE Becomes(s, Idle)
    <3>1. /\ Idle \in Work /\ Idle.stage = "idle" /\ Idle.path = NoPath /\ Idle.asked = 0
          /\ Idle.content.header = FALSE
      BY EmptyIs DEF Idle, NoFile, Content
    <3>2. Holds(Idle)
      BY <3>1 DEF Holds, OfEdit, InFile
    <3> QED
      BY <2>1, <3>1, <3>2, SlotIs
  <2>2. CASE SendEdit(s, disk[p]) /\ disk[p] # editing.original
    <3>1. PICK w \in Work : /\ Becomes(s, w) /\ w.stage \in {"save", "plan"}
                            /\ w.asked = editing.asked /\ w.path = NoPath
                            /\ w.content = Content(disk[p].text, FALSE)
      BY <1>1, <1>2, <2>2, SendEditIs
    <3>2. disk[p].text.n >= 1
      BY <1>2, <2>2
    <3>3. w.content.text = disk[p].text /\ w.content.header = FALSE
      BY <3>1 DEF Content
    <3>4. Holds(w)
      BY <1>2, <3>2, <3>3 DEF Holds
    <3>5. editing.asked <= asked
      BY DEF FilesInv, NotAhead
    <3> QED
      BY <3>1, <3>4, <3>5
  <2> QED
    BY <2>1, <2>2, <1>1 DEF FinishEdit
<1>4. w.stage \notin InFile /\ w.stage \notin WithEditor
  BY <1>3 DEF InFile, WithEditor
<1>5. FilesFit'
  BY <1>1, <1>2, <1>3, <1>4, FileLeft DEF FilesInv
<1>6. asked' = asked /\ asked \in Nat
  BY <1>1, SlotIs
<1>7. OneEdit'
  BY <1>2, <1>3, <1>4, <1>6, FileTypes, OneEditStays DEF FilesInv
<1>8. w.asked <= asked' /\ asked <= asked' /\ editing'.asked <= asked'
  BY <1>1, <1>3, <1>6 DEF NoEdit
<1> QED
  BY <1>1, <1>3, <1>5, <1>7, <1>8, FilesStep

(* A text that has no screen goes to a file of its own.                    *)
LEMMA KeepTextFiles ==
  ASSUME FilesInv, NEW s \in Slots, KeepText(s),
         work[s].stage = "refused" \/ (work[s].stage = "planned" /\ work[s].wrote),
         UNCHANGED <<asked, screens, editing, cluster, typed, over, editFaults>>
  PROVE  FilesInv'
<1>1. /\ ShapeInv' /\ FreePath \in Paths /\ disk[FreePath] = NoFile
      /\ disk' = [disk EXCEPT ![FreePath] = work[s].content]
      /\ kept' = kept \cup {FreePath} /\ Becomes(s, Idle)
  BY KeepTextIs DEF FilesInv
<1>2. /\ Idle \in Work /\ Idle.stage = "idle" /\ Idle.path = NoPath /\ Idle.asked = 0
      /\ Idle.content.header = FALSE /\ "idle" \notin InFile /\ "idle" \notin WithEditor
      /\ "idle" \notin OnTheWay
  BY EmptyIs DEF Idle, NoFile, Content, InFile, WithEditor, OnTheWay
<1>3. Holds(Idle)
  BY <1>2 DEF Holds, OfEdit
<1>4. /\ work[s].content \in Holding /\ work[s].content.text.of \in Things
      /\ work[s].content.text.n >= 1 /\ work[s].path = NoPath
  BY SlotIs DEF Holds, OfEdit, Shaped, InFile
<1>5. FilesFit'
  BY <1>1, <1>2, <1>4, FileWritten DEF FilesInv
<1>6. asked' = asked /\ asked \in Nat /\ editing' = editing
  BY SlotIs
<1>7. OneEdit'
  BY <1>1, <1>2, <1>6, FileTypes, OneEditStays DEF FilesInv
<1> QED
  BY <1>1, <1>2, <1>3, <1>5, <1>6, <1>7, FilesStep

LEMMA TakeRefusedFiles ==
  ASSUME FilesInv, NEW s \in Slots, TakeRefused(s)
  PROVE  FilesInv'
<1>1. work[s].stage = "refused" /\ UNCHANGED <<asked, screens, editing, cluster, typed, over, editFaults>>
  BY DEF TakeRefused
<1>2. CASE KeepText(s)
  BY <1>1, <1>2, KeepTextFiles
<1>3. CASE /\ ~Late(s) /\ UNCHANGED <<disk, kept>>
           /\ Becomes(s, [At(s, "write") EXCEPT !.asked = asked, !.content.header = TRUE])
  <2>1. PICK w \in Work : /\ Becomes(s, w) /\ w.stage = "write" /\ w.asked = asked
                          /\ w.path = NoPath /\ w.content.text = work[s].content.text
    BY <1>1, <1>3, TakeRefusedIs DEF FilesInv
  <2>2. ShapeInv'
    BY TakeRefusedShapes DEF FilesInv
  <2>3. w.path = work[s].path
    BY <1>1, <2>1, SlotIs DEF Shaped, InFile
  <2>4. Current(work[s])
    BY <1>1, <1>3 DEF Current, Late, OnTheWay
  <2>5. w.stage \notin WithEditor /\ w.stage \notin InFile
    BY <2>1 DEF WithEditor, InFile
  <2>6. Holds(w)
    BY <1>1, <2>1, SlotIs DEF Holds, OfEdit
  <2>7. w.asked <= asked
    BY <2>1, SlotIs
  <2> QED
    BY <1>1, <1>3, <2>1, <2>2, <2>3, <2>4, <2>5, <2>6, <2>7, GoesOn
<1> QED
  BY <1>2, <1>3 DEF TakeRefused

LEMMA TakePlanFiles ==
  ASSUME FilesInv, NEW s \in Slots, TakePlan(s) \/ TakePlanDone(s)
  PROVE  FilesInv'
<1>1. ShapeInv' /\ ShapeInv
  BY TakePlanShapes, TakePlanDoneShapes DEF FilesInv
<1>2. CASE KeepText(s) /\ UNCHANGED <<asked, screens>> /\ TakePlan(s) /\ work[s].wrote
  BY <1>2, KeepTextFiles DEF TakePlan
<1>3. CASE /\ Becomes(s, Idle) /\ UNCHANGED <<editing, disk, kept>>
           /\ asked' \in {asked, asked + 1, asked + 2}
  <2>1. work[s].stage \notin InFile
    BY DEF TakePlan, TakePlanDone, InFile
  <2>2. asked' \in Nat /\ asked' >= asked
    BY <1>1, <1>3, FileTypes
  <2> QED
    BY <1>1, <1>3, <2>1, <2>2, IdleFiles
<1>4. CASE TakePlan(s)
  BY <1>2, <1>3, <1>4 DEF TakePlan
<1>5. CASE TakePlanDone(s)
  BY <1>3, <1>5 DEF TakePlanDone
<1> QED
  BY <1>4, <1>5

LEMMA FilesInductive == Together = 1 /\ FilesInv /\ [EditNext]_editVars => FilesInv'
<1> SUFFICES ASSUME Together = 1, FilesInv, [EditNext]_editVars PROVE FilesInv'
  OBVIOUS
<1>1. CASE UNCHANGED editVars
  <2>1. UNCHANGED <<work, editing, disk, kept, asked>> /\ asked \in Nat
    BY <1>1, FileTypes DEF editVars, FilesInv
  <2>2. ShapeInv'
    BY <1>1, ShapeInductive DEF FilesInv
  <2>3. asked' = asked /\ asked' >= asked
    BY <2>1
  <2> QED
    BY <2>1, <2>2, <2>3, ElsewhereFiles
<1>2. CASE \E t \in Things : Change(t) \/ Delete(t) \/ Lock(t) \/ PressEdit(t) \/ PressNew(t)
  BY <1>2, ScreenFiles, PressFiles
<1>3. CASE MoveOn \/ Back \/ PressSubmit \/ PressReplan
  BY <1>3, ScreenFiles, OfPlanFiles
<1>4. CASE \E s \in Slots : TakesMessage(s)
  BY <1>4, TakeFileFiles, EditorFiles, FinishEditFiles, TakeRefusedFiles, TakePlanFiles
     DEF TakesMessage
<1>5. CASE \E s \in Slots : Answers(s) \/ SaveFails(s) \/ PeekFails(s) \/ PlanRefused(s) \/ SendFails(s)
  BY <1>5, OpenFiles, AnswerFiles DEF Answers
<1>6. CASE \E s \in Slots : Closes(s) \/ EditorFails(s)
  BY <1>6, CloseEditorFiles, EditorFiles DEF Closes
<1> QED
  BY <1>1, <1>2, <1>3, <1>4, <1>5, <1>6 DEF EditNext

(* The files that are accounted for follow.                                *)
LEMMA FilesFollow == FilesInv => FilesAccounted
<1> SUFFICES ASSUME FilesInv, NEW p \in Paths
             PROVE  LET users == {s \in Slots : work[s].path = p}
                    IN  CASE p \in kept     -> disk[p].text.n >= 1 /\ users = {}
                          [] p \notin kept -> Cardinality(users) = IF disk[p] = NoFile THEN 0 ELSE 1
  BY DEF FilesAccounted
<1> DEFINE users == {s \in Slots : work[s].path = p}
<1>1. p # NoPath
  BY DEF Paths, NoPath
<1>2. \A s \in users : /\ OwnFile(work[s]) /\ work[s].stage \in InFile
                       /\ p \notin kept /\ disk[p].text.of \in Things
  BY <1>1, SlotIs DEF OwnFile, Shaped
<1>3. CASE p \in kept
  BY <1>2, <1>3 DEF FilesInv, FilesFit, FilesApart
<1>4. CASE p \notin kept /\ disk[p] = NoFile
  <2>1. users = {}
    BY <1>2, <1>4, ThingsAssumption DEF NoFile, NoText, Content
  <2> QED
    BY <1>4, <2>1, FS_EmptySet
<1>5. CASE p \notin kept /\ disk[p] # NoFile
  <2>1. PICK s \in Slots : work[s].path = p
    BY <1>5 DEF FilesInv, FilesFit, FilesApart
  <2>2. users = {s}
    BY <1>1, <2>1 DEF FilesInv, FilesFit, FilesApart
  <2> QED
    BY <1>5, <2>2, FS_Singleton
<1> QED
  BY <1>3, <1>4, <1>5

(* With one edit in hand, a temp file is there only while that edit or a   *)
(* late message uses it, or holds a text of the person that the status     *)
(* line named, and no two edits use one file: writeTemp takes a new name,  *)
(* finishEdit and release remove it, reportLate and keepText keep it.      *)
THEOREM FilesKept ==
  Together = 1 => (EditInit /\ [][EditNext]_editVars => []FilesAccounted)
<1>1. SUFFICES ASSUME Together = 1
               PROVE  EditInit /\ [][EditNext]_editVars => []FilesAccounted
  OBVIOUS
<1>2. FilesInv /\ [EditNext]_editVars => FilesInv'
  BY <1>1, FilesInductive
<1> QED
  BY <1>2, FilesInit, FilesFollow, PTL

(* With one edit in hand, a file that is closed without a change sends     *)
(* nothing: what finishEdit compares it with is what this very file was    *)
(* opened with.                                                            *)
THEOREM UnchangedStays ==
  Together = 1 => (EditInit /\ [][EditNext]_editVars => NothingSentUnchanged)
<1> DEFINE X == \A s \in Slots :
       work[s].stage = "edited" /\ disk[work[s].path] = work[s].content
         => work'[s].stage \in {"edited", "idle"}
<1>1. SUFFICES ASSUME Together = 1
               PROVE  EditInit /\ [][EditNext]_editVars => NothingSentUnchanged
  OBVIOUS
<1>2. FilesInv /\ [EditNext]_editVars => [X]_editVars
  <2> SUFFICES ASSUME FilesInv, EditNext, NEW s \in Slots, work[s].stage = "edited",
                      disk[work[s].path] = work[s].content
               PROVE  work'[s].stage \in {"edited", "idle"}
    BY DEF editVars
  <2>1. work \in [Slots -> Work] /\ disk[work[s].path] = editing.original
    BY FileTypes DEF FilesInv, OneEdit, WithEditor
  <2>2. CASE work' = [work EXCEPT ![s] = Idle]
    BY <2>1, <2>2 DEF Idle
  <2>3. CASE work'[s] = work[s]
    BY <2>3
  <2>4. ASSUME NEW t \in Slots, t # s, NEW w, Becomes(t, w)
        PROVE  work'[s] = work[s]
    BY <2>1, <2>4 DEF Becomes
  <2>5. ASSUME NEW w, Start(w)
        PROVE  work'[s] = work[s]
    BY <2>4, <2>5, StartIs
  <2>6. CASE \E t \in Things : Change(t) \/ Delete(t) \/ Lock(t) \/ PressEdit(t) \/ PressNew(t)
    BY <2>3, <2>5, <2>6 DEF Change, Delete, Lock, Others, PressEdit, PressNew
  <2>7. CASE MoveOn \/ Back \/ PressSubmit \/ PressReplan
    BY <2>3, <2>5, <2>7 DEF MoveOn, Back, PressSubmit, PressReplan
  <2>8. CASE FinishEdit(s)
    BY <2>1, <2>2, <2>8 DEF FinishEdit, Becomes
  <2>9. ASSUME NEW t \in Slots, TakesMessage(t), t # s
        PROVE  work'[s] = work[s]
    BY <2>4, <2>9 DEF TakesMessage, TakeFile, StartEdit, KeepFile, OpenEditor, FinishEdit, SendEdit,
                      TakeRefused, KeepText, TakePlan, TakePlanDone
  <2>10. ASSUME NEW t \in Slots, t # s,
                \/ Answers(t) \/ SaveFails(t) \/ PeekFails(t) \/ PlanRefused(t) \/ SendFails(t)
                \/ Closes(t) \/ EditorFails(t)
         PROVE  work'[s] = work[s]
    BY <2>4, <2>10 DEF Answers, ReadFile, WriteFile, WritesFile, ReadFails, SaveChecks, Peek, Warned,
                       PlanAnswers, SendAnswers, SaveFails, PeekFails, PlanRefused, SendFails,
                       Closes, CloseEditor, EditorFails
  <2>11. TakesMessage(s) => FinishEdit(s)
    BY DEF TakesMessage, TakeFile, OpenEditor, TakeRefused, TakePlan, TakePlanDone
  <2>12. ~(\/ Answers(s) \/ SaveFails(s) \/ PeekFails(s) \/ PlanRefused(s) \/ SendFails(s)
           \/ Closes(s) \/ EditorFails(s))
    BY DEF Answers, ReadFile, WriteFile, ReadFails, SaveChecks, Peek, PlanAnswers, SendAnswers,
           SaveFails, PeekFails, PlanRefused, SendFails, Closes, CloseEditor, EditorFails
  <2> QED
    BY <2>3, <2>6, <2>7, <2>8, <2>9, <2>10, <2>11, <2>12 DEF EditNext
<1>3. FilesInv /\ [EditNext]_editVars => FilesInv'
  BY <1>1, FilesInductive
<1>4. NothingSentUnchanged <=> [][X]_editVars
  BY PTL DEF NothingSentUnchanged
<1> HIDE DEF X
<1> QED
  BY <1>2, <1>3, <1>4, FilesInit, PTL

-----------------------------------------------------------------------------
(* The texts are kept, one part at a time.                                 *)

(* The numbers of the texts are numbers.                                   *)
LEMMA TextTypes ==
  ASSUME ShapeInv
  PROVE  /\ typed \in Nat /\ over \subseteq Nat /\ asked \in Nat /\ editing.asked \in Nat
         /\ screens \in Seq(Page) /\ screens # <<>> /\ DOMAIN screens = 1 .. Len(screens)
         /\ \A i \in DOMAIN screens : screens[i].text.n \in Int
         /\ \A p \in Paths : disk[p].text.n \in Int
         /\ \A t \in Things : cluster[t].n \in Int
         /\ \A s \in Slots : work[s].content.text.n \in Int /\ work[s].asked \in Nat
<1>1. OthersOK /\ OtherTypes
  BY DEF ShapeInv, OthersOK
<1>2. \A i \in DOMAIN screens : screens[i].text.n \in Int
  <2>1. \A i \in DOMAIN screens : screens[i] \in Page
    BY <1>1 DEF OtherTypes
  <2>2. \A page \in Page : page.text.n \in Int
    BY DEF Page, Text
  <2> QED
    BY <2>1, <2>2
<1>3. \A p \in Paths : disk[p].text.n \in Int
  BY <1>1 DEF OtherTypes, Holding, Text
<1>4. \A t \in Things : cluster[t].n \in Int
  BY <1>1 DEF OtherTypes, Version
<1>5. \A s \in Slots : work[s].content.text.n \in Int /\ work[s].asked \in Nat
  BY DEF ShapeInv, Work, Holding, Text
<1> QED
  BY <1>1, <1>2, <1>3, <1>4, <1>5 DEF OtherTypes

(* A text that was settled stays so.                                       *)
LEMMA SettledStays ==
  ASSUME over \subseteq over', NEW n, Settled(n)
  PROVE  Settled(n)'
BY DEF Settled

(* What the cluster took, or the person gave up, is settled.               *)
LEMMA TypedSettles ==
  ASSUME NEW text, text.n \in Int, text.n <= MaxTyped, over' = over \cup Typed(text)
  PROVE  Settled(text.n)' /\ over \subseteq over'
<1>1. text.n >= 1 => text.n \in 1 .. MaxTyped
  BY EditBounds
<1>2. over \subseteq over' /\ (text.n \in 1 .. MaxTyped => text.n \in over')
  BY DEF Typed
<1> QED
  BY <1>1, <1>2 DEF Settled

(* No text is lost when each place that loses one has it elsewhere.        *)
LEMMA TextsStay ==
  ASSUME work \in [Slots -> Work], NoTextLost, typed \in Nat, typed' = typed, over \subseteq over',
         NEW s \in Slots, NEW w \in Work, Becomes(s, w),
         \A n \in Nat : work[s].stage \notin InFile /\ work[s].content.text.n = n =>
                         Settled(n)' \/ Held(n)',
         disk' = disk \/ \A n \in Nat, p \in Paths :
                         disk[p].text.n = n => Settled(n)' \/ Held(n)',
         screens' = screens \/ \A n \in Nat : OnScreen(n) => Settled(n)' \/ Held(n)'
  PROVE  NoTextLost'
<1> SUFFICES ASSUME NEW n \in 1 .. typed, n \notin over' PROVE Held(n)'
  BY DEF NoTextLost
<1>1. Held(n) /\ ~Settled(n)' /\ n \in Nat
  BY DEF NoTextLost, Settled
<1>2. work'[s] = w /\ \A t \in Slots \ {s} : work'[t] = work[t]
  BY BecomesIs
<1>3. CASE \E t \in Slots : work[t].stage \notin InFile /\ work[t].content.text.n = n
  BY <1>1, <1>2, <1>3 DEF Held
<1>4. CASE \E p \in Paths : disk[p].text.n = n
  BY <1>1, <1>4 DEF Held
<1>5. CASE OnScreen(n)
  BY <1>1, <1>5 DEF Held, OnScreen
<1> QED
  BY <1>1, <1>3, <1>4, <1>5 DEF Held, OnScreen

(* What another slot may let go of, it may still.                          *)
LEMMA MayGoStays ==
  ASSUME NEW w, MayGo(w), over \subseteq over', w.content.text.n \in Int,
         w.stage \in InFile => disk'[w.path] = disk[w.path],
         \A n \in Int : OnScreen(n) => Settled(n)' \/ OnScreen(n)'
  PROVE  MayGo(w)'
<1> QED
  BY DEF MayGo, Settled, OfPlan, InFile

(* A step of one slot, with its parts.                                     *)
LEMMA TextStep ==
  ASSUME TextInv, FilesInv', NEW s \in Slots, NEW w \in Work, Becomes(s, w),
         over \subseteq over', NumbersInv', ScreensInv', NoTextLost', MayGo(w)',
         \A t \in Slots \ {s} : work[t].stage \in InFile =>
           disk'[work[t].path] = disk[work[t].path],
         \A n \in Int : OnScreen(n) => Settled(n)' \/ OnScreen(n)'
  PROVE  TextInv'
<1>1. ShapeInv
  BY DEF TextInv, FilesInv
<1>2. work'[s] = w /\ \A t \in Slots \ {s} : work'[t] = work[t]
  BY <1>1, BecomesIs, FileTypes
<1>3. ASSUME NEW t \in Slots \ {s}
      PROVE  MayGo(work[t])'
  <2>1. MayGo(work[t]) /\ work[t].content.text.n \in Int
    BY <1>1, TextTypes DEF TextInv
  <2>2. PICK v : v = work[t]
    OBVIOUS
  <2>3. MayGo(v)'
    BY <2>1, <2>2, MayGoStays
  <2> QED
    BY <1>2, <2>2, <2>3 DEF MayGo, OfPlan
<1>4. MayGo(work[s])'
  BY <1>2 DEF MayGo, OfPlan
<1> QED
  BY <1>3, <1>4 DEF TextInv

(* No text comes from nowhere.                                             *)
LEMMA NumbersStay ==
  ASSUME ShapeInv, NumbersInv, over \subseteq over', NEW s \in Slots, NEW w \in Work, Becomes(s, w),
         typed' = typed, w.content.text.n <= typed,
         disk' = disk \/ \E p \in Paths, content \in Holding :
                           disk' = [disk EXCEPT ![p] = content] /\ content.text.n <= typed,
         screens' = screens \/ \A i \in DOMAIN screens' : screens'[i].text.n <= typed,
         \A t \in Things : \/ cluster'[t].n = cluster[t].n
                           \/ \E n \in Int : cluster'[t].n = n /\ n <= typed /\ Settled(n)'
  PROVE  NumbersInv'
<1>1. work'[s] = w /\ \A t \in Slots \ {s} : work'[t] = work[t]
  BY BecomesIs, FileTypes
<1>2. \A t \in Slots : work'[t].content.text.n <= typed'
  BY <1>1 DEF NumbersInv
<1>3. \A p \in Paths : disk'[p].text.n <= typed'
  BY FileTypes DEF NumbersInv
<1>4. \A i \in DOMAIN screens' : screens'[i].text.n <= typed'
  BY DEF NumbersInv
<1>5. \A t \in Things : cluster'[t].n <= typed' /\ Settled(cluster[t].n)'
  <2> SUFFICES ASSUME NEW t \in Things
               PROVE  cluster'[t].n <= typed' /\ Settled(cluster[t].n)'
    OBVIOUS
  <2>1. cluster[t].n <= typed /\ Settled(cluster[t].n)
    BY DEF NumbersInv
  <2> QED
    BY <2>1 DEF Settled
<1> QED
  BY <1>2, <1>3, <1>4, <1>5 DEF NumbersInv

(* What a slot that is not late says of the screen.                        *)
Sees(w) ==
  /\ OfPlan(w) => /\ IsPlan(Top) /\ Top.text = w.content.text
                  /\ Top.submit.thing = w.submit.thing
  /\ OfList(w) => ~IsPlan(Top)

LEMMA SeesIt ==
  ASSUME TextInv, NEW s \in Slots, ~Late(s)
  PROVE  Sees(work[s])
BY DEF TextInv, ScreensInv, Sees

(* The screen stays, and a slot goes on.                                   *)
LEMMA ScreensStay ==
  ASSUME ShapeInv, ScreensInv, UNCHANGED <<asked, screens>>,
         editing' = editing \/ editing'.submit = NoSubmit \/ ~IsPlan(Top),
         NEW s \in Slots, NEW w \in Work, Becomes(s, w), w.asked = asked => Sees(w)
  PROVE  ScreensInv'
<1>1. work'[s] = w /\ \A t \in Slots \ {s} : work'[t] = work[t]
  BY BecomesIs, FileTypes
<1>2. Top' = Top /\ asked' = asked
  BY DEF Top
<1>3. \A t \in Slots \ {s} : ~Late(t)' =>
       /\ OfPlan(work[t])' => /\ IsPlan(Top)' /\ Top'.text = work'[t].content.text
                              /\ Top'.submit.thing = work'[t].submit.thing
       /\ OfList(work[t])' => ~IsPlan(Top)'
  BY <1>1, <1>2 DEF ScreensInv, Late, OfPlan, OfList, IsPlan
<1>4. ~Late(s)' =>
       /\ OfPlan(work[s])' => /\ IsPlan(Top)' /\ Top'.text = work'[s].content.text
                              /\ Top'.submit.thing = work'[s].submit.thing
       /\ OfList(work[s])' => ~IsPlan(Top)'
  BY <1>1, <1>2 DEF Sees, Late, OfPlan, OfList, IsPlan
<1>5. editing'.submit # NoSubmit /\ editing'.asked = asked' => ~IsPlan(Top)'
  BY <1>2 DEF ScreensInv, IsPlan
<1> QED
  BY <1>3, <1>4, <1>5 DEF ScreensInv

(* Another screen has asked: all that was asked is late.                   *)
LEMMA ScreensAhead ==
  ASSUME ShapeInv, NotAhead, asked' > asked, asked' \in Nat, editing' = editing,
         NEW s \in Slots, NEW w \in Work, Becomes(s, w), w.asked <= asked
  PROVE  ScreensInv'
<1>1. work'[s] = w /\ \A t \in Slots \ {s} : work'[t] = work[t]
  BY BecomesIs, FileTypes
<1>2. \A t \in Slots : work[t].asked \in Nat /\ work[t].asked <= asked
  BY TextTypes DEF NotAhead
<1>3. w.asked \in Nat /\ asked \in Nat /\ editing.asked \in Nat /\ editing.asked <= asked
  BY TextTypes DEF NotAhead, Work
<1>4. \A t \in Slots : Late(t)'
  BY <1>1, <1>2, <1>3 DEF Late
<1>5. editing'.asked # asked'
  BY <1>3
<1> QED
  BY <1>4, <1>5 DEF ScreensInv

(* A request or a message that goes on, and a text that goes with it.      *)
LEMMA TextGoesOn ==
  ASSUME TextInv, FilesInv', NEW s \in Slots, NEW w \in Work, Becomes(s, w),
         UNCHANGED <<asked, screens, editing, disk, typed>>, over \subseteq over',
         \A t \in Things : \/ cluster'[t].n = cluster[t].n
                           \/ \E n \in Int : cluster'[t].n = n /\ n <= typed /\ Settled(n)',
         w.content.text.n <= typed, w.asked = asked => Sees(w), MayGo(w)',
         \A n \in Nat : work[s].stage \notin InFile /\ work[s].content.text.n = n =>
           \/ w.stage \notin InFile /\ w.content.text.n = n
           \/ Settled(n)' \/ OnScreen(n)
  PROVE  TextInv'
<1>1. ShapeInv /\ NumbersInv /\ ScreensInv /\ NoTextLost /\ work \in [Slots -> Work]
  BY FileTypes DEF TextInv, FilesInv
<1>2. NumbersInv'
  BY <1>1, NumbersStay
<1>3. ScreensInv'
  BY <1>1, ScreensStay
<1>4. \A n : OnScreen(n) => OnScreen(n)' /\ Held(n)'
  BY DEF OnScreen, Held
<1>5. NoTextLost'
  <2>1. work'[s] = w
    BY <1>1, BecomesIs
  <2>2. \A n \in Nat : work[s].stage \notin InFile /\ work[s].content.text.n = n =>
                         Settled(n)' \/ Held(n)'
    BY <1>4, <2>1 DEF Held
  <2> QED
    BY <1>1, <2>2, TextTypes, TextsStay
<1> QED
  BY <1>2, <1>3, <1>4, <1>5, TextStep

(* The stages at which a slot may not let go of its text.                  *)
LEMMA HoldsOn ==
  ASSUME NEW w, \/ w.stage \in {"idle", "read", "save", "peek", "refused", "plan", "exec", "editor"}
                \/ w.stage = "write" /\ w.content.header
                \/ w.stage = "planned" /\ w.wrote
  PROVE  MayGo(w) /\ MayGo(w)'
BY DEF MayGo, OfPlan

LEMMA SlotTexts ==
  ASSUME TextInv, NEW s \in Slots
  PROVE  /\ FilesInv /\ ShapeInv /\ work[s] \in Work /\ Shaped(work[s]) /\ Holds(work[s])
         /\ MayGo(work[s]) /\ work[s].content.text.n \in Int /\ work[s].content.text.n <= typed
         /\ work[s].asked = asked => Sees(work[s])
         /\ typed \in Nat /\ MaxTyped \in Nat /\ typed <= MaxTyped
BY SeesIt, SlotIs, TextTypes, EditBounds DEF TextInv, FilesInv, NumbersInv, Late

(* A slot that ends, and whose text is settled or open.                    *)
LEMMA TextEnds ==
  ASSUME TextInv, FilesInv', NEW s \in Slots, Becomes(s, Idle),
         UNCHANGED <<asked, screens, editing, disk, typed>>, over \subseteq over',
         \A t \in Things : \/ cluster'[t].n = cluster[t].n
                           \/ \E n \in Int : cluster'[t].n = n /\ n <= typed /\ Settled(n)',
         \A n \in Nat : work[s].stage \notin InFile /\ work[s].content.text.n = n =>
           Settled(n)' \/ OnScreen(n)
  PROVE  TextInv'
<1>1. PICK w \in Work : w = Idle
  BY EmptyIs
<1>2. w.stage = "idle" /\ w.content.text.n = 0
  BY <1>1 DEF Idle, NoFile, NoText, Content
<1>3. w.content.text.n <= typed
  BY <1>2, SlotTexts
<1>4. Sees(w) /\ MayGo(w)' /\ Becomes(s, w)
  BY <1>1, <1>2, HoldsOn DEF Sees, OfPlan, OfList, OnTheWay
<1> QED
  BY <1>3, <1>4, TextGoesOn

LEMMA PressTexts ==
  ASSUME Together = 1, TextInv, NEW t \in Things, PressEdit(t) \/ PressNew(t)
  PROVE  TextInv'
<1>1. FilesInv' /\ ShapeInv
  BY PressFiles DEF TextInv, FilesInv
<1>2. PICK w \in Work : /\ Start(w) /\ w.stage \in {"read", "write"} /\ w.asked = asked
                        /\ \/ w.stage = "read" /\ w.content = NoFile
                           \/ w.content = Content([of |-> t, n |-> 0], FALSE)
  BY <1>1, PressEditShapes, PressNewShapes
<1>3. /\ UNCHANGED <<asked, screens, editing, disk, cluster, typed, over>>
      /\ ~IsPlan(Top)
  BY DEF PressEdit, PressNew
<1>4. /\ FreeSlot \in Slots /\ work[FreeSlot].stage = "idle" /\ Becomes(FreeSlot, w)
  BY <1>2, StartIs
<1>5. w.content.text.n = 0
  BY <1>2 DEF NoFile, NoText, Content
<1>6. Sees(w)
  BY <1>2, <1>3 DEF Sees, OfPlan, OfList
<1>7. MayGo(w)'
  BY <1>2, <1>5 DEF MayGo, OfPlan, Settled
<1>8. \A n \in Nat : work[FreeSlot].content.text.n = n => Settled(n)'
  <2>1. work[FreeSlot] = Idle
    BY <1>4, SlotTexts DEF Shaped
  <2> QED
    BY <2>1 DEF Idle, NoFile, NoText, Content, Settled
<1>9. w.content.text.n <= typed
  BY <1>5, <1>4, SlotTexts
<1>10. over \subseteq over' /\ cluster' = cluster
  BY <1>3
<1> QED
  BY <1>1, <1>3, <1>4, <1>6, <1>7, <1>8, <1>9, <1>10, TextGoesOn

(* The text of the screen on top is a text of the screens.                 *)
LEMMA TopTexts ==
  ASSUME TextInv
  PROVE  OnScreen(Top.text.n) /\ Top.text.n \in Int /\ Top.text.n <= typed
<1>1. /\ screens \in Seq(Page) /\ screens # <<>> /\ \A i \in DOMAIN screens : screens[i].text.n \in Int
  BY TextTypes DEF TextInv, FilesInv
<1> QED
  BY <1>1, TopIs DEF OnScreen, TextInv, NumbersInv

LEMMA OfPlanTexts ==
  ASSUME TextInv, PressSubmit \/ PressReplan
  PROVE  TextInv'
<1>1. FilesInv' /\ ShapeInv
  BY OfPlanFiles DEF TextInv, FilesInv
<1>2. PICK w \in Work : /\ Start(w) /\ w.stage \in {"send", "replan"} /\ w.asked = asked
                        /\ w.content = Content(Top.text, FALSE) /\ w.submit = Top.submit
  BY <1>1, PressSubmitShapes, PressReplanShapes
<1>3. UNCHANGED <<asked, screens, editing, disk, cluster, typed, over>> /\ IsPlan(Top)
  BY DEF PressSubmit, PressReplan
<1>4. /\ FreeSlot \in Slots /\ work[FreeSlot].stage = "idle" /\ Becomes(FreeSlot, w)
  BY <1>2, StartIs
<1>5. w.content.text = Top.text
  BY <1>2 DEF Content
<1>6. Sees(w)
  BY <1>2, <1>3, <1>5 DEF Sees, OfPlan, OfList, OnTheWay
<1>7. MayGo(w)'
  <2>1. OnScreen(w.content.text.n)'
    BY <1>3, <1>5, TopTexts DEF OnScreen
  <2> QED
    BY <1>2, <2>1 DEF MayGo, OfPlan
<1>8. \A n \in Nat : work[FreeSlot].content.text.n = n => Settled(n)'
  <2>1. work[FreeSlot] = Idle
    BY <1>4, SlotTexts DEF Shaped
  <2> QED
    BY <2>1 DEF Idle, NoFile, NoText, Content, Settled
<1>9. w.content.text.n <= typed
  BY <1>5, TopTexts
<1>10. over \subseteq over' /\ cluster' = cluster
  BY <1>3
<1> QED
  BY <1>1, <1>3, <1>4, <1>6, <1>7, <1>8, <1>9, <1>10, TextGoesOn

(* What the cluster takes is settled, and the rest of it stays.            *)
LEMMA AcceptTexts ==
  ASSUME TextInv, NEW t \in Things, NEW text \in Text, text.n <= typed,
         Accept(t, text) \/ UNCHANGED <<cluster, over>>
  PROVE  /\ over \subseteq over' /\ (Accept(t, text) => Settled(text.n)')
         /\ \A u \in Things : \/ cluster'[u].n = cluster[u].n
                              \/ \E n \in Int : cluster'[u].n = n /\ n <= typed /\ Settled(n)'
<1>1. CASE Accept(t, text)
  <2>1. text.n \in Int /\ text.n <= MaxTyped
    BY TextTypes, EditBounds DEF Text, TextInv, NumbersInv, FilesInv
  <2>2. /\ over' = over \cup Typed(text) /\ cluster'[t].n = text.n
        /\ \A u \in Things \ {t} : cluster'[u] = cluster[u]
    BY <1>1, AcceptIs DEF TextInv, FilesInv, ShapeInv, OthersOK, OtherTypes
  <2>3. Settled(text.n)' /\ over \subseteq over'
    BY <2>1, <2>2, TypedSettles
  <2> QED
    BY <2>1, <2>2, <2>3
<1>2. CASE UNCHANGED <<cluster, over>> /\ ~Accept(t, text)
  BY <1>2
<1> QED
  BY <1>1, <1>2

(* A request that is answered, and goes on with the same text.             *)
LEMMA AnsweredTexts ==
  ASSUME TextInv, FilesInv', NEW s \in Slots, NEW w \in Work, Becomes(s, w),
         UNCHANGED <<asked, screens, editing, disk, typed>>, over \subseteq over',
         \A t \in Things : \/ cluster'[t].n = cluster[t].n
                           \/ \E n \in Int : cluster'[t].n = n /\ n <= typed /\ Settled(n)',
         w.content = work[s].content, w.asked = work[s].asked, w.wrote = work[s].wrote,
         w.stage = "refused" \/ w.submit.thing = work[s].submit.thing,
         \/ work[s].stage = "save" /\ w.stage = "peek"
         \/ work[s].stage \in {"save", "peek", "plan"} /\ w.stage = "refused"
         \/ work[s].stage \in {"plan", "replan"} /\ w.stage = "planned"
         \/ /\ work[s].stage = "send" /\ w.stage = "planDone"
            /\ \A n : n = w.content.text.n => Settled(n)'
  PROVE  TextInv'
<1>1. w.content.text.n \in Int /\ w.content.text.n <= typed
  BY SlotTexts
<1>2. w.asked = asked => Sees(w)
  BY SlotTexts DEF Sees, OfPlan, OfList, OnTheWay, Shaped
<1>3. MayGo(w)'
  <2>1. CASE w.stage \in {"peek", "refused"} \/ (w.stage = "planned" /\ w.wrote)
    BY <2>1, HoldsOn
  <2>2. CASE w.stage = "planDone" /\ \A n : n = w.content.text.n => Settled(n)'
    BY <2>2 DEF MayGo, OfPlan
  <2>3. CASE w.stage = "planned" /\ ~w.wrote
    <3>1. Settled(w.content.text.n) \/ OnScreen(w.content.text.n)
      BY <2>3, SlotTexts DEF MayGo, OfPlan, Shaped
    <3>2. (Settled(w.content.text.n) => Settled(w.content.text.n)')
      BY SettledStays
    <3>3. (OnScreen(w.content.text.n) => OnScreen(w.content.text.n)')
      BY DEF OnScreen
    <3> QED
      BY <2>3, <3>1, <3>2, <3>3 DEF MayGo, OfPlan
  <2> QED
    BY <2>1, <2>2, <2>3
<1>4. w.stage \notin InFile
  BY DEF InFile
<1> QED
  BY <1>1, <1>2, <1>3, <1>4, TextGoesOn

LEMMA AnswerTexts ==
  ASSUME TextInv, NEW s \in Slots,
         \/ ReadFails(s) \/ SaveChecks(s) \/ SaveFails(s) \/ \E sees \in BOOLEAN : Peek(s, sees)
         \/ PeekFails(s) \/ PlanAnswers(s) \/ PlanRefused(s) \/ SendAnswers(s) \/ SendFails(s)
  PROVE  TextInv'
<1> DEFINE text == work[s].content.text
           thing == work[s].submit.thing
<1>1. FilesInv' /\ ShapeInv /\ text \in Text /\ text.n <= typed
  BY AnswerFiles, RequestIs, SlotTexts DEF TextInv
<1>2. UNCHANGED <<asked, screens, editing, disk, typed>>
  BY DEF ReadFails, SaveChecks, SaveFails, Peek, PeekFails, PlanAnswers, PlanRefused,
         SendAnswers, SendFails
<1>3. /\ over \subseteq over'
      /\ \A t \in Things : \/ cluster'[t].n = cluster[t].n
                           \/ \E n \in Int : cluster'[t].n = n /\ n <= typed /\ Settled(n)'
  <2>1. CASE \E t \in Things : Accept(t, text)
    BY <1>1, <2>1, AcceptTexts
  <2>2. CASE UNCHANGED <<cluster, over>>
    BY <2>2
  <2>3. \/ \E t \in Things : Accept(t, text)
        \/ UNCHANGED <<cluster, over>>
    BY <1>1, RequestIs
       DEF ReadFails, SaveChecks, SaveFails, Peek, PeekFails, PlanAnswers, PlanRefused,
           SendAnswers, SendFails
  <2> QED
    BY <2>1, <2>2, <2>3
<1>4. ASSUME NEW stage \in {"peek", "refused", "planDone"}, Becomes(s, At(s, stage)),
             \/ work[s].stage = "save" /\ stage = "peek"
             \/ work[s].stage \in {"save", "peek", "plan"} /\ stage = "refused"
             \/ work[s].stage = "send" /\ stage = "planDone"
                  /\ \A n : n = text.n => Settled(n)'
      PROVE  TextInv'
  <2>1. PICK w \in Work : /\ w = At(s, stage) /\ w.stage = stage /\ w.path = work[s].path
                          /\ w.content = work[s].content /\ w.asked = work[s].asked
                          /\ w.wrote = work[s].wrote /\ w.submit = work[s].submit
    BY SlotTexts, AtIs DEF Stages, InFile
  <2> QED
    BY <1>1, <1>2, <1>3, <1>4, <2>1, AnsweredTexts
<1>5. ASSUME Becomes(s, Idle),
             \A n \in Nat : work[s].stage \notin InFile /\ text.n = n => Settled(n)' \/ OnScreen(n)
      PROVE  TextInv'
  BY <1>1, <1>2, <1>3, <1>5, TextEnds
<1>6. CASE ReadFails(s)
  <2>1. text.n = 0
    BY <1>6, SlotTexts DEF ReadFails, Shaped, NoFile, NoText, Content
  <2> QED
    BY <1>5, <1>6, <2>1 DEF ReadFails, Settled
<1>7. ASSUME Accept(thing, text), thing \in Things
      PROVE  \A n : n = text.n => Settled(n)'
  <2>1. PICK rigid \in Text : rigid = text
    BY <1>1
  <2>2. Settled(rigid.n)'
    BY <1>1, <1>7, <2>1, AcceptTexts
  <2> QED
    BY <2>1, <2>2
<1>8. CASE SaveChecks(s) \/ SaveFails(s)
  <2>1. work[s].stage = "save" /\ thing \in Things
    BY <1>1, <1>8, RequestIs DEF SaveChecks, SaveFails
  <2> QED
    BY <1>4, <1>5, <1>7, <1>8, <2>1 DEF SaveChecks, SaveFails
<1>9. CASE PeekFails(s) \/ PlanRefused(s)
  <2>1. work[s].stage = "replan" => Settled(text.n) \/ OnScreen(text.n)
    BY SlotTexts DEF MayGo, OfPlan
  <2>2. \A n \in Nat : work[s].stage = "replan" /\ text.n = n => Settled(n)' \/ OnScreen(n)
    BY <1>3, <2>1, SettledStays
  <2> QED
    BY <1>4, <1>5, <1>9, <2>2 DEF PeekFails, PlanRefused
<1>10. CASE SendAnswers(s) \/ SendFails(s)
  <2>1. work[s].stage = "send" /\ thing \in Things
    BY <1>1, <1>10, RequestIs DEF SendAnswers, SendFails
  <2>2. Settled(text.n) \/ OnScreen(text.n)
    BY <2>1, SlotTexts DEF MayGo, OfPlan
  <2>3. \A n \in Nat : text.n = n => Settled(n)' \/ OnScreen(n)
    BY <1>3, <2>2, SettledStays
  <2> QED
    BY <1>4, <1>5, <1>7, <1>10, <2>1, <2>3 DEF SendAnswers, SendFails
<1>11. CASE \E sees \in BOOLEAN : Peek(s, sees)
  <2>1. PICK w \in Work : /\ Becomes(s, w) /\ w.stage = "refused" /\ w.content = work[s].content
                          /\ w.asked = work[s].asked /\ w.wrote = work[s].wrote
    BY <1>1, <1>11, PeekShapes
  <2> QED
    BY <1>1, <1>2, <1>3, <1>11, <2>1, AnsweredTexts DEF Peek
<1>12. CASE PlanAnswers(s)
  <2>1. PICK w \in Work : /\ Becomes(s, w) /\ w.stage = "planned" /\ w.content = work[s].content
                          /\ w.asked = work[s].asked /\ w.wrote = work[s].wrote
                          /\ w.submit.thing = work[s].submit.thing
    BY <1>1, <1>12, PlanAnswersShapes
  <2> QED
    BY <1>1, <1>2, <1>3, <1>12, <2>1, AnsweredTexts DEF PlanAnswers
<1> QED
  BY <1>6, <1>8, <1>9, <1>10, <1>11, <1>12

(* The files: written, taken, edited, finished, kept.                      *)

(* A file is written from a text that is settled or has the reason at its  *)
(* top.                                                                    *)
LEMMA WritesFileTexts ==
  ASSUME TextInv, FilesInv', NEW s \in Slots, NEW content \in Holding, NEW submit \in Submit,
         Fits(submit), WritesFile(s, content, submit), work[s].stage \in {"read", "write"},
         content.text.n <= typed, content.header \/ Settled(content.text.n),
         work[s].asked = asked => ~IsPlan(Top),
         work[s].content.text.n = 0 \/ work[s].content = content
  PROVE  TextInv'
<1>1. /\ ShapeInv /\ FreePath \in Paths /\ disk[FreePath] = NoFile
      /\ disk' = [disk EXCEPT ![FreePath] = content]
  BY WritesFileShapes DEF TextInv, FilesInv
<1>2. PICK w \in Work : /\ Becomes(s, w) /\ w.stage = "file" /\ w.path = FreePath
                        /\ w.content = content /\ w.asked = work[s].asked
  BY WritesFileShapes DEF TextInv, FilesInv
<1>3. UNCHANGED <<asked, screens, editing, cluster, typed, over>>
  BY DEF WritesFile
<1>4. /\ disk'[FreePath] = content /\ \A p \in Paths \ {FreePath} : disk'[p] = disk[p]
  BY <1>1, FileTypes
<1>5. NumbersInv' /\ ScreensInv'
  <2>1. ShapeInv /\ NumbersInv /\ ScreensInv
    BY <1>1 DEF TextInv
  <2>2. NumbersInv'
    BY <1>1, <1>2, <1>3, <2>1, NumbersStay
  <2>3. w.asked = asked => Sees(w)
    BY <1>2 DEF Sees, OfPlan
  <2> QED
    BY <1>2, <1>3, <2>1, <2>2, <2>3, ScreensStay
<1>6. NoTextLost'
  <2>1. \A n \in Nat : work[s].content.text.n = n => Settled(n)' \/ Held(n)'
    BY <1>1, <1>4 DEF Settled, Held
  <2>2. \A n \in Nat, p \in Paths : disk[p].text.n = n => Settled(n)' \/ Held(n)'
    BY <1>1, <1>4 DEF Settled, Held, NoFile, NoText, Content
  <2> QED
    BY <1>1, <1>2, <1>3, <2>1, <2>2, FileTypes, TextTypes, TextsStay DEF TextInv
<1>7. MayGo(w)'
  <2>1. Settled(content.text.n) => Settled(content.text.n)'
    BY <1>3 DEF Settled
  <2> QED
    BY <1>2, <2>1 DEF MayGo, OfPlan
<1>8. \A t \in Slots \ {s} : work[t].stage \in InFile => disk'[work[t].path] = disk[work[t].path]
  <2>1. \A t \in Slots : work[t].path # FreePath
    BY <1>1, FreeIsFree DEF TextInv, FilesInv
  <2> QED
    BY <1>1, <1>4, <2>1, FileTypes
<1>9. \A n \in Int : OnScreen(n) => Settled(n)' \/ OnScreen(n)'
  BY <1>3 DEF OnScreen
<1> QED
  BY <1>2, <1>3, <1>5, <1>6, <1>7, <1>8, <1>9, TextStep

LEMMA OpenTexts ==
  ASSUME TextInv, NEW s \in Slots, ReadFile(s) \/ WriteFile(s)
  PROVE  TextInv'
<1>1. FilesInv' /\ work[s].stage \in {"read", "write"}
  BY OpenFiles DEF TextInv, ReadFile, WriteFile
<1>2. work[s].asked = asked => ~IsPlan(Top)
  BY <1>1, SlotTexts DEF Sees, OfList, OnTheWay
<1>3. CASE ReadFile(s)
  <2>1. PICK t \in Things, submit \in Submit :
          /\ Fits(submit) /\ [of |-> t, n |-> cluster[t].n] \in Text
          /\ WritesFile(s, Content([of |-> t, n |-> cluster[t].n], FALSE), submit)
    BY <1>3, ReadFileShapes DEF TextInv, FilesInv
  <2>2. PICK content : content = Content([of |-> t, n |-> cluster[t].n], FALSE)
    OBVIOUS
  <2>3. content \in Holding /\ content.text.n = cluster[t].n
    BY <2>1, <2>2 DEF Content, Holding
  <2>4. content.text.n <= typed /\ Settled(content.text.n)
    BY <2>3 DEF TextInv, NumbersInv
  <2>5. work[s].content.text.n = 0
    BY SMTT(30), <1>3, SlotTexts DEF ReadFile, Shaped, NoFile, NoText, Content
  <2> QED
    BY <1>1, <1>2, <2>1, <2>2, <2>3, <2>4, <2>5, WritesFileTexts
<1>4. CASE WriteFile(s)
  <2>1. work[s].content.header \/ Settled(work[s].content.text.n)
    BY <1>4, SlotTexts DEF WriteFile, MayGo
  <2> QED
    BY <1>1, <1>2, <1>4, <2>1, SlotTexts, WriteFileShapes, WritesFileTexts
       DEF WriteFile, FilesInv
<1> QED
  BY <1>3, <1>4

LEMMA EditorTexts ==
  ASSUME TextInv, NEW s \in Slots, EditorFails(s) \/ OpenEditor(s)
  PROVE  TextInv'
<1>1. PICK stage \in {"failed", "editor"} :
        /\ Becomes(s, At(s, stage)) /\ work[s].stage \in {"exec", "editor"}
        /\ UNCHANGED <<asked, screens, editing, disk, cluster, typed>>
        /\ \/ stage = "editor" /\ over' = over
           \/ stage = "failed" /\ over' = over \cup Typed(disk[work[s].path].text)
  BY DEF EditorFails, OpenEditor
<1>2. FilesInv' /\ ShapeInv
  BY EditorFiles DEF TextInv, FilesInv
<1>3. PICK w \in Work : /\ w = At(s, stage) /\ w.stage = stage /\ w.path = work[s].path
                        /\ w.content = work[s].content /\ w.asked = work[s].asked
  BY SlotTexts, AtIs DEF Stages, InFile
<1>4. work[s].stage \in InFile
  BY <1>1 DEF InFile
<1>5. over \subseteq over' /\ MayGo(w)'
  <2>1. CASE stage = "editor"
    BY <1>1, <1>3, <2>1, HoldsOn
  <2>2. CASE stage = "failed"
    <3>1. work[s].path \in Paths
      BY <1>2, <1>4, FileTypes
    <3>2. PICK text : text = disk[work[s].path].text
      OBVIOUS
    <3>3. text.n \in Int /\ text.n <= MaxTyped
      BY <1>2, <3>1, <3>2, TextTypes, EditBounds DEF TextInv, NumbersInv
    <3>4. Settled(text.n)' /\ over \subseteq over'
      BY <1>1, <2>2, <3>2, <3>3, TypedSettles
    <3>5. disk'[w.path].text.n = text.n
      BY <1>1, <1>3, <3>2
    <3> QED
      BY <1>3, <2>2, <3>4, <3>5 DEF MayGo, OfPlan
  <2> QED
    BY <2>1, <2>2
<1>6. Sees(w)
  BY <1>3 DEF Sees, OfPlan, OfList, OnTheWay
<1>7. w.content.text.n <= typed
  BY <1>3, SlotTexts
<1> QED
  BY <1>1, <1>2, <1>3, <1>4, <1>5, <1>6, <1>7, TextGoesOn

(* A slot that ends holds no text.                                         *)
LEMMA IdleTexts ==
  ASSUME TextInv
  PROVE  /\ Idle \in Work /\ Idle.path = NoPath /\ Idle.stage \notin InFile
         /\ Idle.content.text.n = 0 /\ Idle.content.text.n <= typed
         /\ MayGo(Idle)' /\ Sees(Idle) /\ Idle.asked = 0 /\ Idle.asked <= asked
<1>1. /\ Idle \in Work /\ Idle.path = NoPath /\ Idle.stage = "idle" /\ Idle.content.text.n = 0
      /\ Idle.asked = 0
  BY EmptyIs DEF Idle, NoFile, NoText, Content
<1>2. typed \in Nat /\ asked \in Nat
  BY TextTypes DEF TextInv, FilesInv
<1>3. MayGo(Idle)' /\ Sees(Idle) /\ Idle.stage \notin InFile
  BY <1>1 DEF MayGo, Settled, Sees, OfPlan, OfList, OnTheWay, InFile
<1> QED
  BY <1>1, <1>2, <1>3

LEMMA TakeFileTexts ==
  ASSUME TextInv, NEW s \in Slots, TakeFile(s)
  PROVE  TextInv'
<1>1. /\ FilesInv' /\ ShapeInv /\ work[s].stage = "file" /\ work[s].stage \in InFile
      /\ UNCHANGED <<asked, screens, cluster, typed, over>>
  BY TakeFileFiles DEF TextInv, FilesInv, TakeFile, InFile
<1>2. work[s].path \in Paths /\ disk[work[s].path] = work[s].content
  BY <1>1, SlotIs DEF TextInv, OwnFile, Shaped
<1>3. CASE StartEdit(s) /\ ~Late(s)
  <2>1. PICK w \in Work : /\ Becomes(s, w) /\ w.stage = "exec" /\ w.path = work[s].path
                          /\ w.content = work[s].content
    BY <1>1, <1>3, StartEditIs DEF TakeFile
  <2>2. disk' = disk /\ ~IsPlan(Top)
    BY <1>1, <1>3, SeesIt DEF StartEdit, Sees, OfList, OnTheWay
  <2>3. w.content.text.n <= typed
    BY <2>1, SlotTexts
  <2>4. Sees(w) /\ MayGo(w)'
    BY <2>1, HoldsOn DEF Sees, OfPlan, OfList, OnTheWay
  <2>5. NumbersInv'
    BY <1>1, <2>1, <2>2, <2>3, NumbersStay DEF TextInv
  <2>6. ScreensInv'
    BY <1>1, <2>1, <2>2, <2>4, ScreensStay DEF TextInv
  <2>7. NoTextLost'
    BY <1>1, <2>1, <2>2, FileTypes, TextTypes, TextsStay DEF TextInv
  <2>8. \A n \in Int : OnScreen(n) => Settled(n)' \/ OnScreen(n)'
    BY <1>1 DEF OnScreen
  <2> QED
    BY <1>1, <2>1, <2>2, <2>4, <2>5, <2>6, <2>7, <2>8, TextStep
<1>4. CASE KeepFile(s)
  <2>1. /\ Becomes(s, Idle) /\ editing' = editing
        /\ disk' = disk \/ (disk' = [disk EXCEPT ![work[s].path] = NoFile] /\ ~work[s].content.header)
    BY <1>4 DEF KeepFile
  <2>2. NoFile \in Holding /\ NoFile.text.n = 0 /\ typed \in Nat
    BY <1>1, EmptyIs, TextTypes DEF NoFile, NoText, Content
  <2>3. NumbersInv'
    BY <1>1, <1>2, <2>1, <2>2, IdleTexts, NumbersStay DEF TextInv
  <2>4. ScreensInv'
    BY <1>1, <2>1, IdleTexts, ScreensStay DEF TextInv
  <2>5. NoTextLost'
    <3>1. CASE disk' = disk
      BY <1>1, <2>1, <2>2, <3>1, IdleTexts, FileTypes, TextsStay DEF TextInv
    <3>2. CASE disk' = [disk EXCEPT ![work[s].path] = NoFile] /\ ~work[s].content.header
      <4>1. Settled(work[s].content.text.n)
        BY <1>1, <3>2, SlotTexts DEF MayGo
      <4>2. \A n \in Nat : disk[work[s].path].text.n = n => Settled(n)'
        BY <1>1, <1>2, <4>1 DEF Settled
      <4>3. \A p \in Paths \ {work[s].path} : disk'[p] = disk[p]
        BY <1>1, <3>2, FileTypes
      <4>4. \A n \in Nat, p \in Paths : disk[p].text.n = n => Settled(n)' \/ Held(n)'
        BY <4>2, <4>3 DEF Held
      <4> QED
        BY <1>1, <2>1, <2>2, <4>4, IdleTexts, FileTypes, TextsStay DEF TextInv
    <3> QED
      BY <2>1, <3>1, <3>2
  <2>6. \A n \in Int : OnScreen(n) => Settled(n)' \/ OnScreen(n)'
    BY <1>1 DEF OnScreen
  <2>7. \A t \in Slots \ {s} : work[t].stage \in InFile => disk'[work[t].path] = disk[work[t].path]
    <3>1. \A t \in Slots \ {s} : work[t].path # work[s].path
      BY <1>2 DEF TextInv, FilesInv, FilesFit, FilesApart, Paths, NoPath
    <3> QED
      BY <1>1, <2>1, <3>1, FileTypes
  <2> QED
    BY <1>1, <2>1, <2>3, <2>4, <2>5, <2>6, <2>7, IdleTexts, TextStep
<1> QED
  BY <1>3, <1>4 DEF TakeFile

LEMMA FinishEditTexts ==
  ASSUME TextInv, NEW s \in Slots, FinishEdit(s)
  PROVE  TextInv'
<1> DEFINE p == work[s].path
<1>1. /\ FilesInv' /\ ShapeInv /\ work[s].stage \in {"edited", "failed"}
      /\ disk' = [disk EXCEPT ![p] = NoFile] /\ editing' = NoEdit
      /\ UNCHANGED <<asked, screens, cluster, typed, over>>
  BY FinishEditFiles DEF TextInv, FilesInv, FinishEdit
<1>2. /\ p \in Paths /\ disk[p] \in Holding /\ disk[p].text.n <= typed
      /\ editing.original = work[s].content /\ editing.submit # NoSubmit
      /\ work[s].stage \in InFile /\ typed \in Nat
  <2>1. work[s].stage \in InFile /\ work[s].stage \in WithEditor
    BY <1>1 DEF InFile, WithEditor
  <2>2. p \in Paths
    BY <1>1, <2>1, FileTypes
  <2>3. disk[p] \in Holding /\ disk[p].text.n <= typed /\ typed \in Nat
    BY <1>1, <2>2, FileTypes, TextTypes DEF TextInv, NumbersInv
  <2> QED
    BY <2>1, <2>2, <2>3 DEF TextInv, FilesInv, OneEdit
<1> HIDE DEF p
<1>3. PICK w \in Work : /\ Becomes(s, w) /\ w.stage \notin InFile /\ w.content.text.n <= typed
                        /\ MayGo(w)' /\ (w.asked = asked => Sees(w))
                        /\ w.content.text.n = disk[p].text.n \/ Settled(disk[p].text.n)
  <2>1. CASE Becomes(s, Idle) /\ (work[s].stage = "failed" \/ disk[p] = editing.original)
    <3>1. Settled(disk[p].text.n)
      BY <1>1, <1>2, <2>1, SlotTexts DEF MayGo, p
    <3> QED
      BY <2>1, <3>1, IdleTexts
  <2>2. CASE SendEdit(s, disk[p])
    <3>1. PICK w \in Work : /\ Becomes(s, w) /\ w.stage \in {"save", "plan"}
                            /\ w.asked = editing.asked
                            /\ w.content = Content(disk[p].text, FALSE)
      BY <1>1, <1>2, <2>2, SendEditIs
    <3>2. w.content.text = disk[p].text
      BY <3>1 DEF Content
    <3>3. MayGo(w)' /\ w.stage \notin InFile
      BY <3>1, HoldsOn DEF InFile
    <3>4. w.asked = asked => Sees(w)
      BY <1>2, <3>1 DEF TextInv, ScreensInv, Sees, OfPlan, OfList
    <3> QED
      BY <1>2, <3>1, <3>2, <3>3, <3>4
  <2> QED
    BY <1>2, <2>1, <2>2 DEF FinishEdit, p
<1>4. NumbersInv'
  <2>1. NoFile \in Holding /\ NoFile.text.n <= typed
    BY <1>2, EmptyIs DEF NoFile, NoText, Content
  <2> QED
    BY <1>1, <1>2, <1>3, <2>1, NumbersStay DEF TextInv
<1>5. ScreensInv'
  BY <1>1, <1>3, ScreensStay DEF TextInv, NoEdit
<1>6. \A q \in Paths \ {p} : disk'[q] = disk[q]
  BY <1>1, FileTypes
<1>7. NoTextLost'
  <2>1. \A n \in Nat : disk[p].text.n = n => Settled(n)' \/ Held(n)'
    <3>1. work'[s] = w
      BY <1>1, <1>3, BecomesIs, FileTypes
    <3> QED
      BY <1>1, <1>3, <3>1 DEF Settled, Held
  <2>2. \A n \in Nat, q \in Paths : disk[q].text.n = n => Settled(n)' \/ Held(n)'
    BY <1>6, <2>1 DEF Held
  <2> QED
    BY <1>1, <1>2, <1>3, <2>2, FileTypes, TextsStay DEF TextInv
<1>8. \A n \in Int : OnScreen(n) => Settled(n)' \/ OnScreen(n)'
  BY <1>1 DEF OnScreen
<1>9. \A t \in Slots \ {s} : work[t].stage \in InFile => disk'[work[t].path] = disk[work[t].path]
  <2>1. \A t \in Slots \ {s} : work[t].path # p
    BY <1>2 DEF TextInv, FilesInv, FilesFit, FilesApart, Paths, NoPath, p
  <2> QED
    BY <1>1, <1>6, <2>1, FileTypes
<1> QED
  BY <1>1, <1>3, <1>4, <1>5, <1>7, <1>8, <1>9, TextStep

(* The text of an edit that has no screen is in a file.                    *)
LEMMA KeepTextTexts ==
  ASSUME TextInv, NEW s \in Slots, KeepText(s),
         work[s].stage = "refused" \/ (work[s].stage = "planned" /\ work[s].wrote),
         UNCHANGED <<asked, screens, editing, cluster, typed, over, editFaults>>
  PROVE  TextInv'
<1>1. /\ FilesInv' /\ ShapeInv /\ FreePath \in Paths /\ disk[FreePath] = NoFile
      /\ disk' = [disk EXCEPT ![FreePath] = work[s].content] /\ Becomes(s, Idle)
  BY KeepTextIs, KeepTextFiles DEF TextInv, FilesInv
<1>2. work[s].content \in Holding /\ work[s].content.text.n <= typed
  BY <1>1, FileTypes, SlotTexts
<1>3. disk'[FreePath] = work[s].content /\ \A p \in Paths \ {FreePath} : disk'[p] = disk[p]
  BY <1>1, FileTypes
<1>4. NumbersInv'
  BY <1>1, <1>2, IdleTexts, NumbersStay DEF TextInv
<1>5. ScreensInv'
  BY <1>1, IdleTexts, ScreensStay DEF TextInv
<1>6. NoTextLost'
  <2>1. \A n \in Nat : work[s].content.text.n = n => Held(n)'
    BY <1>1, <1>3 DEF Held
  <2>2. \A n \in Nat, p \in Paths : disk[p].text.n = n => Settled(n)' \/ Held(n)'
    BY <1>1, <1>3 DEF Settled, Held, NoFile, NoText, Content
  <2> QED
    BY <1>1, <2>1, <2>2, IdleTexts, FileTypes, TextTypes, TextsStay DEF TextInv
<1>7. \A n \in Int : OnScreen(n) => Settled(n)' \/ OnScreen(n)'
  BY DEF OnScreen
<1>8. \A t \in Slots \ {s} : work[t].stage \in InFile => disk'[work[t].path] = disk[work[t].path]
  <2>1. \A t \in Slots : work[t].path # FreePath
    BY <1>1, FreeIsFree DEF TextInv, FilesInv
  <2> QED
    BY <1>1, <1>3, <2>1, FileTypes
<1> QED
  BY <1>1, <1>4, <1>5, <1>6, <1>7, <1>8, IdleTexts, TextStep

LEMMA TakeRefusedTexts ==
  ASSUME TextInv, NEW s \in Slots, TakeRefused(s)
  PROVE  TextInv'
<1>1. /\ FilesInv' /\ ShapeInv /\ work[s].stage = "refused"
      /\ UNCHANGED <<asked, screens, editing, cluster, typed, over, editFaults>>
  BY TakeRefusedFiles DEF TextInv, FilesInv, TakeRefused
<1>2. CASE KeepText(s)
  BY <1>1, <1>2, KeepTextTexts
<1>3. CASE /\ ~Late(s) /\ UNCHANGED <<disk, kept>>
           /\ Becomes(s, [At(s, "write") EXCEPT !.asked = asked, !.content.header = TRUE])
  <2>1. PICK w \in Work : /\ Becomes(s, w) /\ w.stage = "write" /\ w.content.header = TRUE
                          /\ w.content.text = work[s].content.text
    BY <1>1, <1>3, TakeRefusedIs
  <2>2. Sees(w)
    BY <1>1, <1>3, <2>1, SeesIt DEF Sees, OfPlan, OfList, OnTheWay
  <2>3. MayGo(w)' /\ w.stage \notin InFile /\ w.content.text.n <= typed
    BY <2>1, HoldsOn, SlotTexts DEF InFile
  <2> QED
    BY <1>1, <1>3, <2>1, <2>2, <2>3, TextGoesOn
<1> QED
  BY <1>2, <1>3 DEF TakeRefused

(* The editor closes: the text that was in the file is there, given up, or *)
(* replaced by a new one.                                                  *)
LEMMA CloseEditorTexts ==
  ASSUME TextInv, NEW s \in Slots, NEW content, CloseEditor(s, content)
  PROVE  TextInv'
<1> DEFINE p == work[s].path
           w0 == At(s, "edited")
<1>1. /\ FilesInv' /\ ShapeInv /\ work[s].stage = "editor" /\ content \in Written(disk[p])
      /\ disk' = [disk EXCEPT ![p] = content] /\ Becomes(s, w0)
      /\ UNCHANGED <<asked, screens, editing, cluster>>
      /\ typed' = IF content.text.n > typed THEN content.text.n ELSE typed
      /\ over' = IF content = disk[p] \/ content.text # disk[p].text
                 THEN over \cup Typed(disk[p].text) ELSE over
  BY CloseEditorFiles DEF TextInv, FilesInv, CloseEditor
<1>2. /\ p \in Paths /\ disk[p] = work[s].content /\ disk[p] \in Holding
      /\ disk[p].text.n \in Int /\ disk[p].text.n <= typed
      /\ typed \in Nat /\ MaxTyped \in Nat /\ typed <= MaxTyped
  <2>1. work[s].stage \in InFile
    BY <1>1 DEF InFile
  <2>2. p \in Paths /\ disk[p] = work[s].content
    BY <1>1, <2>1, SlotIs DEF TextInv, OwnFile, Shaped
  <2> QED
    BY <1>1, <2>2, FileTypes, SlotTexts
<1>3. PICK w \in Work : w = w0 /\ w.stage = "edited" /\ w.path = p /\ w.content = work[s].content
  BY SlotTexts, AtIs DEF Stages, InFile
<1> HIDE DEF w0, p
<1>4. /\ content \in Holding /\ content.text.n \in Int
      /\ \/ content = disk[p]
         \/ content.text = disk[p].text /\ ~content.header
         \/ content.text.n = typed + 1 /\ typed < MaxTyped
  <2>1. /\ content \in Holding
        /\ \/ content = disk[p]
           \/ content.text = disk[p].text /\ ~content.header
           \/ content.text = [of |-> disk[p].text.of, n |-> typed + 1] /\ typed < MaxTyped
    BY <1>1, <1>2, WrittenIs
  <2> QED
    BY <2>1 DEF Holding, Text
<1>5. /\ typed' \in Nat /\ typed <= typed' /\ typed' <= MaxTyped /\ content.text.n <= typed'
      /\ typed' = typed \/ (typed' = typed + 1 /\ content.text.n = typed + 1)
  BY <1>1, <1>2, <1>4
<1>6. over \subseteq over'
  BY <1>1
<1>7. PICK was \in Int : was = disk[p].text.n
  BY <1>2
<1>8. content = disk[p] \/ content.text # disk[p].text => Settled(was)'
  <2>1. PICK text : text = disk[p].text
    OBVIOUS
  <2> QED
    BY <1>1, <1>2, <1>7, <2>1, TypedSettles
<1>9. /\ work'[s] = w /\ \A t \in Slots \ {s} : work'[t] = work[t]
      /\ disk'[p] = content /\ \A q \in Paths \ {p} : disk'[q] = disk[q]
  BY <1>1, <1>2, <1>3, FileTypes, BecomesIs
<1>10. NumbersInv'
  <2>1. /\ \A t \in Slots : work[t].content.text.n \in Int /\ work[t].content.text.n <= typed
        /\ \A q \in Paths : disk[q].text.n \in Int /\ disk[q].text.n <= typed
        /\ \A i \in DOMAIN screens : screens[i].text.n \in Int /\ screens[i].text.n <= typed
        /\ \A t \in Things : cluster[t].n \in Int /\ cluster[t].n <= typed /\ Settled(cluster[t].n)
    BY <1>1, TextTypes DEF TextInv, NumbersInv
  <2>2. \A t \in Slots : work'[t].content.text.n <= typed'
    BY <1>2, <1>3, <1>5, <1>9, <2>1
  <2>3. \A q \in Paths : disk'[q].text.n <= typed'
    BY <1>2, <1>5, <1>9, <2>1
  <2>4. \A i \in DOMAIN screens' : screens'[i].text.n <= typed'
    <3>1. screens' = screens
      BY <1>1
    <3> QED
      BY <1>2, <1>5, <2>1, <3>1
  <2>5. \A t \in Things : cluster'[t].n <= typed' /\ Settled(cluster[t].n)'
    <3>1. cluster' = cluster
      BY <1>1
    <3> QED
      BY <1>2, <1>5, <1>6, <2>1, <3>1 DEF Settled
  <2>6. typed' <= MaxTyped
    BY <1>5
  <2> QED
    BY <2>6, <2>2, <2>3, <2>4, <2>5 DEF NumbersInv
<1>11. ScreensInv'
  <2>1. Sees(w)
    BY <1>3 DEF Sees, OfPlan, OfList, OnTheWay
  <2> QED
    BY <1>1, <1>3, <2>1, ScreensStay DEF TextInv
<1>12. NoTextLost'
  <2> SUFFICES ASSUME NEW n \in 1 .. typed', n \notin over' PROVE Held(n)'
    BY DEF NoTextLost
  <2>1. CASE n = content.text.n
    BY <1>2, <1>9, <2>1 DEF Held
  <2>2. CASE n # content.text.n
    <3>1. n \in 1 .. typed /\ n \notin over
      BY <1>2, <1>5, <1>6, <2>2
    <3>2. Held(n) /\ n # disk[p].text.n
      BY <1>4, <1>7, <1>8, <2>2, <3>1 DEF TextInv, NoTextLost, Settled
    <3>3. CASE \E t \in Slots : work[t].stage \notin InFile /\ work[t].content.text.n = n
      BY <1>1, <1>9, <3>3 DEF Held, InFile
    <3>4. CASE \E q \in Paths : disk[q].text.n = n
      BY <1>9, <3>2, <3>4 DEF Held
    <3>5. CASE \E i \in DOMAIN screens : screens[i].text.n = n
      BY <1>1, <3>5 DEF Held
    <3> QED
      BY <3>2, <3>3, <3>4, <3>5 DEF Held
  <2> QED
    BY <2>1, <2>2
<1>13. MayGo(w)'
  BY <1>2, <1>3, <1>7, <1>8, <1>9 DEF MayGo, OfPlan
<1>14. \A n \in Int : OnScreen(n) => Settled(n)' \/ OnScreen(n)'
  BY <1>1 DEF OnScreen
<1>15. \A t \in Slots \ {s} : work[t].stage \in InFile => disk'[work[t].path] = disk[work[t].path]
  <2>1. \A t \in Slots \ {s} : work[t].path # p
    BY <1>2 DEF TextInv, FilesInv, FilesFit, FilesApart, Paths, NoPath, p
  <2> QED
    BY <1>1, <1>9, <2>1, FileTypes
<1> QED
  BY <1>1, <1>3, <1>6, <1>10, <1>11, <1>12, <1>13, <1>14, <1>15, TextStep

(* The screens: opened, left, replaced.                                    *)
Among(pages, n) == \E i \in DOMAIN pages : pages[i].text.n = n

LEMMA PushedTexts ==
  ASSUME NEW pages \in Seq(Page), NEW page \in Page
  PROVE  \A n : Among(Append(pages, page), n) <=> Among(pages, n) \/ page.text.n = n
<1> DEFINE more == Append(pages, page)
<1>1. /\ DOMAIN more = 1 .. Len(more) /\ DOMAIN pages = 1 .. Len(pages) /\ Len(pages) \in Nat
      /\ Len(more) = Len(pages) + 1 /\ more[Len(pages) + 1] = page
      /\ \A i \in 1 .. Len(pages) : more[i] = pages[i]
  BY AppendIs
<1> HIDE DEF more
<1>2. DOMAIN more = DOMAIN pages \cup {Len(pages) + 1}
  BY <1>1
<1> QED
  BY <1>1, <1>2 DEF Among, more

LEMMA PoppedTexts ==
  ASSUME screens \in Seq(Page), screens # <<>>
  PROVE  \A n : OnScreen(n) <=> Among(Front(screens), n) \/ Top.text.n = n
<1>1. /\ DOMAIN screens = 1 .. Len(screens) /\ Len(screens) \in Nat \ {0}
      /\ Top = screens[Len(screens)]
  BY TopIs
<1>2. /\ Front(screens) \in Seq(Page) /\ Len(Front(screens)) = Len(screens) - 1
      /\ \A i \in 1 .. Len(screens) - 1 : Front(screens)[i] = screens[i]
  BY FrontIs
<1>3. PICK k \in Nat : k = Len(screens) - 1
  <2>1. Len(screens) - 1 \in Nat
    BY <1>1
  <2> QED
    BY <2>1, Zenon
<1> DEFINE front == Front(screens)
<1>4. /\ DOMAIN front = 1 .. k /\ DOMAIN screens = 1 .. k + 1 /\ Top = screens[k + 1]
      /\ \A i \in 1 .. k : front[i] = screens[i]
  BY <1>1, <1>2, <1>3
<1> HIDE DEF front
<1>5. DOMAIN screens = DOMAIN front \cup {k + 1}
  BY <1>3, <1>4
<1> QED
  BY <1>3, <1>4, <1>5 DEF OnScreen, Among, front

(* What stays on the screens when the top is left or replaced.             *)
LEMMA FrontTexts ==
  ASSUME TextInv
  PROVE  /\ screens \in Seq(Page) /\ screens # <<>> /\ Front(screens) \in Seq(Page)
         /\ \A i \in DOMAIN Front(screens) : Front(screens)[i].text.n <= typed
         /\ \A n : OnScreen(n) <=> Among(Front(screens), n) \/ Top.text.n = n
<1>1. screens \in Seq(Page) /\ screens # <<>>
  BY TextTypes DEF TextInv, FilesInv
<1>2. \A n : OnScreen(n) <=> Among(Front(screens), n) \/ Top.text.n = n
  BY <1>1, PoppedTexts
<1>3. \A n : OnScreen(n) => n <= typed
  BY DEF OnScreen, TextInv, NumbersInv
<1> QED
  BY <1>1, <1>2, <1>3, FrontIs DEF Among

(* The screen asks again: a page was pushed, or the top was left.          *)
LEMMA ScreensChange ==
  ASSUME TextInv, FilesInv', NEW s \in Slots, NEW w \in Work, Becomes(s, w),
         w = work[s] \/ w = Idle,
         UNCHANGED <<editing, disk, cluster, typed>>, over \subseteq over',
         asked' > asked, asked' \in Nat,
         \A n \in Int : OnScreen(n) => Settled(n)' \/ OnScreen(n)',
         \A i \in DOMAIN screens' : screens'[i].text.n <= typed,
         \A n \in Nat : w # work[s] /\ work[s].stage \notin InFile /\ work[s].content.text.n = n =>
           Settled(n)' \/ OnScreen(n)'
  PROVE  TextInv'
<1>1. /\ ShapeInv /\ NumbersInv /\ NotAhead /\ NoTextLost /\ work \in [Slots -> Work]
      /\ typed \in Nat
  BY FileTypes, TextTypes DEF TextInv, FilesInv
<1>2. w.asked <= asked /\ w.content.text.n <= typed
  <2>1. work[s].asked <= asked
    BY <1>1 DEF NotAhead
  <2> QED
    BY <2>1, SlotTexts, IdleTexts
<1>3. editing' = editing /\ disk' = disk /\ cluster' = cluster /\ typed' = typed
  OBVIOUS
<1>4. NumbersInv'
  BY <1>1, <1>2, <1>3, NumbersStay
<1>5. ScreensInv'
  BY <1>1, <1>2, <1>3, ScreensAhead
<1>6. NoTextLost'
  <2>1. \A n : OnScreen(n)' => Held(n)'
    BY DEF OnScreen, Held
  <2>2. \A n \in Nat : OnScreen(n) => Settled(n)' \/ Held(n)'
    BY <2>1
  <2>3. \A n \in Nat : work[s].stage \notin InFile /\ work[s].content.text.n = n =>
                         Settled(n)' \/ Held(n)'
    <3>1. CASE w # work[s]
      BY <2>1, <3>1
    <3>2. CASE w = work[s]
      <4>1. work'[s] = work[s]
        BY <1>1, <3>2, BecomesIs
      <4> QED
        BY <4>1 DEF Held
    <3> QED
      BY <3>1, <3>2
  <2> QED
    BY <1>1, <1>3, <2>2, <2>3, TextsStay
<1>7. MayGo(w)'
  <2>1. CASE w = work[s]
    <3>1. MayGo(w) /\ w.content.text.n \in Int
      BY <2>1, SlotTexts
    <3> QED
      BY <1>3, <3>1, MayGoStays
  <2>2. CASE w = Idle
    BY <2>2, IdleTexts DEF MayGo, Settled, OfPlan
  <2> QED
    BY <2>1, <2>2
<1> QED
  BY <1>3, <1>4, <1>5, <1>6, <1>7, TextStep

LEMMA MoveOnTexts ==
  ASSUME TextInv, MoveOn \/ Back
  PROVE  TextInv'
<1>1. /\ FilesInv' /\ ShapeInv /\ 1 \in Slots /\ work \in [Slots -> Work] /\ asked \in Nat
  BY ScreenFiles, FileTypes, EditBounds DEF TextInv, FilesInv, Slots
<1>2. PICK w \in Work : w = work[1] /\ Becomes(1, w)
  <2>1. work' = work
    BY DEF MoveOn, Back
  <2> QED
    BY <1>1, <2>1 DEF Becomes
<1>3. /\ UNCHANGED <<editing, disk, cluster, typed>> /\ asked' = asked + 1
  BY DEF MoveOn, Back
<1>4. asked' > asked /\ asked' \in Nat
  BY <1>1, <1>3
<1>5. CASE MoveOn
  <2>1. \A n : OnScreen(n)' <=> OnScreen(n) \/ n = 0
    <3>1. List \in Page /\ List.text.n = 0 /\ screens \in Seq(Page)
      BY <1>1, EmptyIs, TextTypes DEF List, NoText
    <3>2. screens' = Append(screens, List)
      BY <1>5 DEF MoveOn
    <3> QED
      BY <3>1, <3>2, PushedTexts DEF Among, OnScreen
  <2>2. \A i \in DOMAIN screens' : screens'[i].text.n <= typed
    <3>1. typed \in Nat /\ 0 <= typed
      BY <1>1, TextTypes
    <3>2. \A n : OnScreen(n) => n <= typed
      BY DEF TextInv, NumbersInv, OnScreen
    <3>3. \A n : OnScreen(n)' => n <= typed
      BY <2>1, <3>1, <3>2
    <3> QED
      BY <3>3 DEF OnScreen
  <2>3. over' = over
    BY <1>5 DEF MoveOn
  <2> QED
    BY <1>1, <1>2, <1>3, <1>4, <2>1, <2>2, <2>3, EmptyIs, ScreensChange
<1>6. CASE Back
  <2>1. screens' = Front(screens) /\ over' = over \cup Typed(Top.text)
    BY <1>6 DEF Back
  <2>2. Top.text.n \in Int /\ Top.text.n <= MaxTyped
    BY <1>1, TopTexts, SlotTexts
  <2>3. PICK text : text = Top.text
    OBVIOUS
  <2>4. Settled(text.n)' /\ over \subseteq over'
    BY <2>1, <2>2, <2>3, TypedSettles
  <2>5. \A n : OnScreen(n) => Settled(n)' \/ OnScreen(n)'
    BY <2>1, <2>3, <2>4, FrontTexts DEF Among, OnScreen
  <2>6. \A i \in DOMAIN screens' : screens'[i].text.n <= typed
    BY <2>1, FrontTexts
  <2> QED
    BY <1>1, <1>2, <1>3, <1>4, <2>4, <2>5, <2>6, ScreensChange
<1> QED
  BY <1>5, <1>6

(* The rest of the cluster changes what the cluster has, and no text.      *)
LEMMA OthersTexts ==
  ASSUME TextInv, NEW t \in Things, Change(t) \/ Delete(t) \/ Lock(t)
  PROVE  TextInv'
<1>1. /\ FilesInv' /\ ShapeInv /\ 1 \in Slots /\ work \in [Slots -> Work] /\ typed \in Nat
      /\ cluster \in [Things -> Version]
  BY SMTT(30), ScreenFiles, FileTypes, TextTypes, EditBounds
     DEF TextInv, FilesInv, Slots, ShapeInv, OthersOK, OtherTypes
<1>2. /\ UNCHANGED <<asked, screens, editing, work, disk, kept, typed, over, editFaults>>
      /\ cluster' \in [Things -> Version]
      /\ \A u \in Things : cluster'[u].n <= 0 \/ cluster'[u].n = cluster[u].n
  BY <1>1, OthersAre DEF Besides
<1>3. PICK w \in Work : w = work[1] /\ Becomes(1, w)
  BY <1>1, <1>2 DEF Becomes
<1>4. \A u \in Things : \/ cluster'[u].n = cluster[u].n
                        \/ \E n \in Int : cluster'[u].n = n /\ n <= typed /\ Settled(n)'
  <2>1. \A u \in Things : cluster'[u].n \in Int
    BY <1>2 DEF Version
  <2> QED
    BY <1>1, <1>2, <2>1 DEF Settled
<1>5. w.content.text.n <= typed /\ (w.asked = asked => Sees(w))
  BY <1>1, <1>3, SlotTexts
<1>6. MayGo(w)'
  <2>1. MayGo(w)
    BY <1>1, <1>3, SlotTexts
  <2> QED
    BY <1>2, <2>1 DEF MayGo, Settled, OfPlan, OnScreen
<1> QED
  BY <1>1, <1>2, <1>3, <1>4, <1>5, <1>6, TextGoesOn

(* A plan arrives: its text is the one of the page it replaces, on a page  *)
(* of its own, or in a file.                                               *)
LEMMA TakePlanTexts ==
  ASSUME TextInv, NEW s \in Slots, TakePlan(s)
  PROVE  TextInv'
<1> DEFINE plan == [text |-> work[s].content.text, submit |-> work[s].submit]
<1>1. /\ FilesInv' /\ ShapeInv /\ work[s].stage = "planned" /\ asked \in Nat
      /\ UNCHANGED <<editing, cluster, typed, over, editFaults>>
      /\ work[s].content.text.n <= typed /\ plan.text = work[s].content.text
  BY TakePlanFiles, TextTypes, SlotTexts DEF TextInv, FilesInv, TakePlan
<1>2. /\ plan \in Page /\ plan.submit = work[s].submit /\ plan.submit.thing \in Planned
      /\ screens \in Seq(Page)
  <2>1. work[s] \in Work /\ work[s].submit.thing \in Planned
    BY <1>1, SlotTexts DEF Shaped
  <2> QED
    BY <1>1, <2>1, TextTypes DEF Page, Work, Holding
<1> HIDE DEF plan
<1>3. PICK w \in Work : w = Idle
  BY EmptyIs
<1>4. over \subseteq over'
  BY <1>1
<1>5. CASE KeepText(s) /\ UNCHANGED <<asked, screens>> /\ work[s].wrote
  BY <1>1, <1>5, KeepTextTexts
<1>6. CASE ~work[s].wrote /\ Becomes(s, Idle) /\ UNCHANGED <<asked, screens, disk, kept>>
  <2>1. Settled(work[s].content.text.n) \/ OnScreen(work[s].content.text.n)
    BY <1>1, <1>6, SlotTexts DEF MayGo, OfPlan
  <2>2. \A n \in Nat : work[s].content.text.n = n => Settled(n)' \/ OnScreen(n)
    BY <1>1, <2>1 DEF Settled
  <2> QED
    BY <1>1, <1>4, <1>6, <2>2, TextEnds
<1>7. CASE /\ ~Late(s) /\ IsPlan(Top) /\ Top.submit.thing = plan.submit.thing
           /\ screens' = Append(Front(screens), plan)
           /\ Becomes(s, Idle) /\ UNCHANGED <<asked, disk, kept>>
  <2>1. Top.text = plan.text
    <3>1. ~work[s].wrote
      BY <1>1, <1>7, SeesIt DEF Sees, OfList
    <3> QED
      BY <1>1, <1>7, <3>1, SeesIt DEF Sees, OfPlan
  <2>2. \A n : OnScreen(n)' <=> OnScreen(n)
    <3>1. \A n : OnScreen(n)' <=> Among(Front(screens), n) \/ plan.text.n = n
      BY <1>2, <1>7, FrontTexts, PushedTexts DEF Among, OnScreen
    <3> QED
      BY <2>1, <3>1, FrontTexts
  <2>3. \A i \in DOMAIN screens' : screens'[i].text.n <= typed
    <3>1. \A n : OnScreen(n)' => n <= typed
      BY <2>2 DEF TextInv, NumbersInv, OnScreen
    <3> QED
      BY <3>1 DEF OnScreen
  <2>4. /\ disk' = disk /\ typed' = typed /\ cluster' = cluster /\ editing' = editing
        /\ asked' = asked /\ over' = over
    BY <1>1, <1>7
  <2>5. NumbersInv'
    BY <1>1, <1>3, <1>7, <2>3, <2>4, IdleTexts, NumbersStay DEF TextInv
  <2>6. NoTextLost'
    <3>1. \A n : OnScreen(n) => Held(n)'
      BY <2>2 DEF OnScreen, Held
    <3>2. \A n \in Nat : work[s].content.text.n = n => Held(n)'
      BY <1>1, <2>1, <3>1, TopTexts
    <3> QED
      BY <1>1, <1>3, <1>7, <2>4, <3>1, <3>2, FileTypes, TextTypes, TextsStay DEF TextInv
  <2>7. ScreensInv'
    <3>1. Top' = plan
      BY <1>2, <1>7, FrontTexts, AppendIs DEF Top, Last
    <3>2. IsPlan(Top)'
      BY <1>2, <3>1, ThingsAssumption DEF IsPlan, NoSubmit, Things
    <3>3. /\ work'[s] = w /\ \A t \in Slots \ {s} : work'[t] = work[t]
      BY <1>1, <1>3, <1>7, BecomesIs, FileTypes
    <3>4. \A t \in Slots \ {s} : ~Late(t)' =>
            /\ OfPlan(work[t])' => /\ IsPlan(Top)' /\ Top'.text = work'[t].content.text
                                   /\ Top'.submit.thing = work'[t].submit.thing
            /\ OfList(work[t])' => ~IsPlan(Top)'
      BY <1>7, <2>1, <2>4, <3>1, <3>2, <3>3 DEF TextInv, ScreensInv, Late, OfPlan, OfList
    <3>5. ~OfPlan(work[s])' /\ ~OfList(work[s])'
      BY <1>3, <3>3 DEF OfPlan, OfList, OnTheWay, Idle
    <3>6. ~(editing'.submit # NoSubmit /\ editing'.asked = asked')
      BY <1>7, <2>4 DEF TextInv, ScreensInv
    <3> QED
      BY <3>4, <3>5, <3>6 DEF ScreensInv
  <2>8. \A t \in Slots \ {s} : work[t].stage \in InFile =>
          disk'[work[t].path] = disk[work[t].path]
    BY <2>4
  <2> QED
    BY <1>1, <1>3, <1>4, <1>7, <2>2, <2>5, <2>6, <2>7, <2>8, IdleTexts, TextStep
<1>8. CASE /\ screens' = Append(screens, plan) /\ asked' = asked + 1
           /\ Becomes(s, Idle) /\ UNCHANGED <<disk, kept>>
  <2>1. \A n : OnScreen(n)' <=> OnScreen(n) \/ plan.text.n = n
    BY <1>2, <1>8, PushedTexts DEF Among, OnScreen
  <2>2. \A i \in DOMAIN screens' : screens'[i].text.n <= typed
    <3>1. \A n : OnScreen(n)' => n <= typed
      BY <1>1, <2>1 DEF TextInv, NumbersInv, OnScreen
    <3> QED
      BY <3>1 DEF OnScreen
  <2>3. \A n \in Nat : work[s].content.text.n = n => OnScreen(n)'
    BY <1>1, <2>1
  <2>4. asked' > asked /\ asked' \in Nat
    BY <1>1, <1>8
  <2> QED
    BY <1>1, <1>3, <1>4, <1>8, <2>1, <2>2, <2>3, <2>4, ScreensChange
<1> QED
  BY <1>5, <1>6, <1>7, <1>8 DEF TakePlan, plan

(* The plan that went is left: its text is the one the cluster took.       *)
LEMMA TakePlanDoneTexts ==
  ASSUME TextInv, NEW s \in Slots, TakePlanDone(s)
  PROVE  TextInv'
<1>1. /\ FilesInv' /\ ShapeInv /\ work[s].stage = "planDone" /\ asked \in Nat /\ typed \in Nat
      /\ Becomes(s, Idle) /\ UNCHANGED <<editing, disk, kept, cluster, typed, over, editFaults>>
      /\ Settled(work[s].content.text.n)
  BY TakePlanFiles, TextTypes, SlotTexts DEF TextInv, FilesInv, TakePlanDone, MayGo
<1>2. PICK w \in Work : w = Idle
  BY EmptyIs
<1>3. \A n \in Nat : work[s].content.text.n = n => Settled(n)'
  BY <1>1 DEF Settled
<1>4. CASE UNCHANGED <<screens, asked>>
  BY <1>1, <1>3, <1>4, TextEnds
<1>5. CASE /\ ~Late(s)
           /\ \/ screens' = Front(screens) /\ asked' = asked + 1
              \/ screens' = Append(Front(screens), List) /\ asked' = asked + 2
  <2>1. Top.text = work[s].content.text
    BY <1>1, <1>5, SeesIt DEF Sees, OfPlan
  <2>2. \A n : Top.text.n = n => Settled(n)'
    BY <1>1, <2>1 DEF Settled
  <2>3. List \in Page /\ List.text.n = 0
    BY EmptyIs DEF List, NoText
  <2>4. \A n : /\ Among(Front(screens), n) => OnScreen(n)'
               /\ OnScreen(n)' => Among(Front(screens), n) \/ n = 0
    <3>1. CASE screens' = Front(screens)
      BY <3>1 DEF Among, OnScreen
    <3>2. CASE screens' = Append(Front(screens), List)
      <4>1. \A n : Among(Append(Front(screens), List), n) <=> Among(Front(screens), n) \/ n = 0
        BY <2>3, FrontTexts, PushedTexts
      <4> QED
        BY <3>2, <4>1 DEF Among, OnScreen
    <3> QED
      BY <1>5, <3>1, <3>2
  <2>5. \A n \in Int : OnScreen(n) => Settled(n)' \/ OnScreen(n)'
    BY <2>2, <2>4, FrontTexts
  <2>6. \A i \in DOMAIN screens' : screens'[i].text.n <= typed
    <3>1. \A n : OnScreen(n)' => n <= typed
      BY <1>1, <2>4, FrontTexts DEF Among
    <3> QED
      BY <3>1 DEF OnScreen
  <2>7. asked' > asked /\ asked' \in Nat
    BY <1>1, <1>5
  <2> QED
    BY <1>1, <1>2, <1>3, <2>5, <2>6, <2>7, ScreensChange
<1> QED
  BY <1>4, <1>5 DEF TakePlanDone

LEMMA TextInit == EditInit => TextInv
<1> SUFFICES ASSUME EditInit PROVE TextInv
  OBVIOUS
<1>1. FilesInv /\ ShapeInv /\ asked = 1 /\ typed = 0 /\ screens = <<List>> /\ editing = NoEdit
  BY FilesInit, ShapeInit DEF EditInit
<1>2. /\ \A s \in Slots : work[s] = Idle /\ work[s].content.text.n = 0
      /\ \A p \in Paths : disk[p].text.n = 0
      /\ \A i \in DOMAIN screens : screens[i].text.n = 0
  BY DEF EditInit, Idle, NoFile, NoText, Content, List
<1>3. \A t \in Things : cluster[t].n <= 0
  BY DEF EditInit
<1>4. NumbersInv
  BY <1>1, <1>2, <1>3, EditBounds DEF NumbersInv, Settled
<1>5. ScreensInv
  BY <1>1, <1>2 DEF ScreensInv, OfPlan, OfList, OnTheWay, Idle, NoEdit
<1>6. NoTextLost
  BY <1>1 DEF NoTextLost
<1>7. \A s \in Slots : MayGo(work[s])
  <2>1. \A s \in Slots : work[s].stage = "idle"
    BY <1>2 DEF Idle
  <2> QED
    BY <2>1, HoldsOn
<1> QED
  BY <1>1, <1>4, <1>5, <1>6, <1>7 DEF TextInv

LEMMA TextInductive == Together = 1 /\ TextInv /\ [EditNext]_editVars => TextInv'
<1> SUFFICES ASSUME Together = 1, TextInv, [EditNext]_editVars PROVE TextInv'
  OBVIOUS
<1>1. CASE UNCHANGED editVars
  <2>1. FilesInv'
    BY <1>1, FilesInductive DEF TextInv
  <2> QED
    BY <1>1, <2>1 DEF editVars, TextInv, NumbersInv, ScreensInv, NoTextLost, MayGo, Settled,
                      OnScreen, OfPlan, OfList, Held, Late, IsPlan, Top
<1>2. CASE \E t \in Things : Change(t) \/ Delete(t) \/ Lock(t) \/ PressEdit(t) \/ PressNew(t)
  BY <1>2, OthersTexts, PressTexts
<1>3. CASE MoveOn \/ Back \/ PressSubmit \/ PressReplan
  BY <1>3, MoveOnTexts, OfPlanTexts
<1>4. CASE \E s \in Slots : TakesMessage(s)
  BY <1>4, TakeFileTexts, EditorTexts, FinishEditTexts, TakeRefusedTexts, TakePlanTexts,
     TakePlanDoneTexts DEF TakesMessage
<1>5. CASE \E s \in Slots : Answers(s) \/ SaveFails(s) \/ PeekFails(s) \/ PlanRefused(s) \/ SendFails(s)
  BY <1>5, OpenTexts, AnswerTexts DEF Answers
<1>6. CASE \E s \in Slots : Closes(s) \/ EditorFails(s)
  BY <1>6, CloseEditorTexts, EditorTexts DEF Closes
<1> QED
  BY <1>1, <1>2, <1>3, <1>4, <1>5, <1>6 DEF EditNext

(* With one edit in hand, what a person saved in the editor is never lost: *)
(* the cluster took it, the person gave it up or wrote over it, or it is   *)
(* on its way, in a file or in a plan, whatever the cluster refuses and    *)
(* however late it says so (reopenEdit, reportLate, keepText, submitPlan). *)
THEOREM TextsKept ==
  Together = 1 => (EditInit /\ [][EditNext]_editVars => []NoTextLost)
<1>1. SUFFICES ASSUME Together = 1
               PROVE  EditInit /\ [][EditNext]_editVars => []NoTextLost
  OBVIOUS
<1>2. TextInv /\ [EditNext]_editVars => TextInv'
  BY <1>1, TextInductive
<1>3. TextInv => NoTextLost
  BY DEF TextInv
<1> QED
  BY <1>2, <1>3, TextInit, PTL
=============================================================================
