--------------------------- MODULE SessionProofs ----------------------------
(***************************************************************************)
(* Proofs about Session, Readings and Note, for any clusters, regions,     *)
(* namespaces, views, screens and bounds: what a person sees, names, marks *)
(* and is asked about is of where the session is, whatever answers and     *)
(* connections are still out; what a page reads again goes on being read;  *)
(* a message goes in its time; one stream of failures follows; and each    *)
(* event is taken once.                                                    *)
(***************************************************************************)
EXTENDS Session, Note, Readings, Extrema, FiniteSetTheorems, SequenceTheorems,
        TLAPS

Fits(screen, m) ==
  screen.at # Nothing =>
    /\ screen.at.place = Here(m)
    /\ screen.kind \in Namespaced => screen.at.namespace = m.namespace

KnownFits(m) ==
  /\ m.known # Nothing => m.known = Here(m)
  /\ m.datacenter # Every => m.known # Nothing

MarksFit(m) == \A k \in m.marks : k.of = Here(m) /\ k.name = m.screen.kind

QuestionFits(m) ==
  m.question # NoQuestion => m.question.of = Here(m) /\ m.question.name = m.screen.kind

(* A model all of which is of where its session is.                        *)
Standing(m) ==
  /\ m \in Model /\ m.firstAsk <= m.asked
  /\ Fits(m.screen, m) /\ \A i \in DOMAIN m.history : Fits(m.history[i], m)
  /\ KnownFits(m) /\ MarksFit(m) /\ QuestionFits(m)

(* An answer of the ask that counts, or of the connection, is of here, and *)
(* so is an action asked for since the client is in use.                   *)
AnswerFits(m, w) ==
  /\ w.kind \in {"rows", "choices", "wrote"} => w.asked <= m.asked
  /\ w.kind = "rows" /\ w.asked = m.asked =>
       /\ w.at.place = Here(m)
       /\ m.screen.kind \in Namespaced => w.at.namespace = m.namespace
  /\ w.kind = "choices" /\ w.asked = m.asked => w.of = Here(m)
  /\ w.kind = "datacenters" => w.of.connection = w.connection
  /\ w.kind = "wrote" => /\ w.asked >= m.firstAsk => w.question.of = Here(m)
                         /\ w.asked = m.asked => w.question.name = m.screen.kind

(* A connect that counts is the one asked for last, there is a number for  *)
(* it, and it has not been taken.                                          *)
ConnectFits(m, w) ==
  w.kind = "connect" =>
    /\ w.attempt <= m.attempt
    /\ w.attempt = m.attempt => w.cluster = m.connecting /\ m.connection < m.attempt

Waiting(m, messages) ==
  \A w \in messages : w \in Message /\ AnswerFits(m, w) /\ ConnectFits(m, w)

SavedFits(m, s) ==
  /\ s \in [Clusters -> [namespace : Namespaces, screen : Stored]]
  /\ s[m.cluster].namespace = m.namespace
  /\ m.screen.kind \in Stored => s[m.cluster].screen = m.screen.kind

(* A question is asked only where its answer may be written.               *)
Room(m, n) == n \in 0 .. MaxWrites /\ (m.question # NoQuestion => n < MaxWrites)

SessionInv ==
  /\ Standing(model) /\ model.connection <= model.attempt
  /\ Waiting(model, out) /\ SavedFits(model, saved) /\ Room(model, writes)

-----------------------------------------------------------------------------
(* The functions of the model keep what stands on it.                      *)

(* What the answers and connections that are out are told apart by.        *)
Same(m, n) ==
  /\ n.asked = m.asked /\ n.firstAsk = m.firstAsk /\ n.cluster = m.cluster
  /\ n.connection = m.connection /\ n.region = m.region
  /\ n.attempt = m.attempt /\ n.connecting = m.connecting /\ n.question = m.question

LEMMA OpenedIs ==
  ASSUME NEW kind \in Views \cup {Detail}
  PROVE  /\ Opened(kind) \in Screen /\ Opened(kind).kind = kind
         /\ Opened(kind).at = Nothing
BY DEF Opened, Screen

LEMMA UnreadIs ==
  ASSUME NEW screen \in Screen
  PROVE  /\ Unread(screen) \in Screen /\ Unread(screen).kind = screen.kind
         /\ Unread(screen).at # Nothing =>
              screen.kind \notin Namespaced /\ Unread(screen) = screen
<1>1. screen.kind \in Views \cup {Detail}
  BY DEF Screen
<1> QED
  BY <1>1, OpenedIs DEF Unread

LEMMA MovedToKeeps ==
  ASSUME NEW m, Standing(m), NEW ns \in Namespaces
  PROVE  /\ Standing(MovedTo(m, ns)) /\ Same(m, MovedTo(m, ns))
         /\ MovedTo(m, ns).namespace = ns
         /\ MovedTo(m, ns).screen.kind = m.screen.kind
<1>1. CASE ns = m.namespace
  BY <1>1 DEF MovedTo, Same
<1>2. CASE ns # m.namespace
  <2> DEFINE history == [i \in DOMAIN m.history |-> Unread(m.history[i])]
             n == [m EXCEPT !.namespace = ns, !.screen = Unread(@), !.history = history]
  <2>1. MovedTo(m, ns) = n
    BY <1>2 DEF MovedTo
  <2>2. m.history \in Seq(Screen) /\ m.screen \in Screen
    BY DEF Standing, Model
  <2>3. history \in Seq(Screen) /\ DOMAIN history = DOMAIN m.history
    <3>1. \A i \in DOMAIN m.history : m.history[i] \in Screen
      BY <2>2
    <3>2. DOMAIN m.history = 1 .. Len(m.history) /\ Len(m.history) \in Nat
      BY <2>2
    <3> QED
      BY <3>1, <3>2, UnreadIs, IsASeq
  <2>4. \A i \in DOMAIN history : history[i] = Unread(m.history[i])
    BY DEF history
  <2> HIDE DEF history
  <2>5. n \in Model /\ Same(m, n) /\ n.namespace = ns /\ n.screen = Unread(m.screen)
        /\ n.history = history /\ n.marks = m.marks /\ n.known = m.known
        /\ n.datacenter = m.datacenter
    BY <2>2, <2>3, UnreadIs DEF Standing, Model, Same
  <2> HIDE DEF n
  <2>6. ASSUME NEW screen \in Screen, Fits(screen, m) PROVE Fits(Unread(screen), n)
    BY <2>5, <2>6, UnreadIs DEF Fits, Same, Here
  <2>7. Fits(n.screen, n) /\ \A i \in DOMAIN n.history : Fits(n.history[i], n)
    <3>1. \A i \in DOMAIN m.history : m.history[i] \in Screen
      BY <2>2
    <3> QED
      BY <2>2, <2>3, <2>4, <2>5, <2>6, <3>1 DEF Standing
  <2>8. n.screen.kind = m.screen.kind
    BY <2>2, <2>5, UnreadIs
  <2>9. Standing(n)
    BY <2>5, <2>7, <2>8 DEF Standing, KnownFits, MarksFit, QuestionFits, Same, Here
  <2> QED
    BY <2>1, <2>5, <2>8, <2>9
<1> QED
  BY <1>1, <1>2

LEMMA StackedKeeps ==
  ASSUME NEW m, Standing(m), m.question = NoQuestion, NEW kind \in Views \cup {Detail}
  PROVE  Standing(Stacked(m, Opened(kind))) /\ Same(m, Stacked(m, Opened(kind)))
<1> DEFINE n == Stacked(m, Opened(kind))
<1>1. m.history \in Seq(Screen) /\ m.screen \in Screen
  BY DEF Standing, Model
<1>2. Append(m.history, m.screen) \in Seq(Screen)
  BY <1>1
<1>3. n \in Model /\ Same(m, n) /\ n.screen = Opened(kind) /\ n.marks = {}
      /\ n.history = Append(m.history, m.screen) /\ n.known = m.known
      /\ n.datacenter = m.datacenter /\ n.namespace = m.namespace
  BY <1>2, OpenedIs DEF Standing, Model, Same, Stacked
<1> HIDE DEF n
<1>4. \A i \in DOMAIN n.history : \/ n.history[i] = m.screen
                                    \/ (i \in DOMAIN m.history /\ n.history[i] = m.history[i])
  BY <1>1, <1>3
<1>5. Fits(n.screen, n) /\ \A i \in DOMAIN n.history : Fits(n.history[i], n)
  BY <1>3, <1>4, OpenedIs DEF Standing, Fits, Same, Here
<1> QED
  BY <1>3, <1>5 DEF Standing, KnownFits, MarksFit, QuestionFits, Same, Here, n

LEMMA CameBackKeeps ==
  ASSUME NEW m, Standing(m), m.question = NoQuestion, m.history # <<>>
  PROVE  Standing(CameBack(m)) /\ Same(m, CameBack(m))
<1> DEFINE n == CameBack(m)
<1>1. m.history \in Seq(Screen) /\ Len(m.history) \in Nat \ {0}
  BY DEF Standing, Model
<1>2. Last(m.history) = m.history[Len(m.history)] /\ Last(m.history) \in Screen
  BY <1>1 DEF Last
<1>3. Front(m.history) \in Seq(Screen)
      /\ Len(Front(m.history)) = Len(m.history) - 1
      /\ \A i \in 1 .. Len(m.history) - 1 : Front(m.history)[i] = m.history[i]
  BY <1>1 DEF Front
<1>4. n \in Model /\ Same(m, n) /\ n.screen = Last(m.history) /\ n.marks = {}
      /\ n.history = Front(m.history) /\ n.known = m.known
      /\ n.datacenter = m.datacenter /\ n.namespace = m.namespace
  BY <1>2, <1>3 DEF Standing, Model, Same, CameBack
<1> HIDE DEF n
<1>5. Fits(n.screen, n) /\ \A i \in DOMAIN n.history : Fits(n.history[i], n)
  <2>1. \A i \in DOMAIN m.history : Fits(m.history[i], n)
    BY <1>4 DEF Standing, Fits, Same, Here
  <2>2. Len(m.history) \in DOMAIN m.history
    BY <1>1
  <2>3. \A i \in DOMAIN n.history : i \in DOMAIN m.history /\ n.history[i] = m.history[i]
    BY <1>1, <1>3, <1>4
  <2> QED
    BY <1>2, <1>4, <2>1, <2>2, <2>3
<1> QED
  BY <1>4, <1>5 DEF Standing, KnownFits, MarksFit, QuestionFits, Same, Here, n

-----------------------------------------------------------------------------
(* Asks, and what they leave out.                                          *)

(* The ask of a screen is out as one of where it stands.                   *)
LEMMA FetchFits ==
  ASSUME NEW m, m \in Model, m.firstAsk <= m.asked
  PROVE  Waiting(m, Fetch(m))
<1>1. Here(m) \in Place /\ m.namespace \in Namespaces /\ m.asked \in 1 .. MaxAsked
  BY DEF Model, Here, Place
<1>2. [place |-> Here(m), namespace |-> m.namespace] \in Read
  BY <1>1 DEF Read
<1>3. Fetch(m) \subseteq Message
  BY <1>1, <1>2 DEF Fetch, Message
<1>4. \A w \in Fetch(m) : AnswerFits(m, w) /\ ConnectFits(m, w)
  BY <1>1 DEF Fetch, AnswerFits, ConnectFits
<1> QED
  BY <1>3, <1>4 DEF Waiting

LEMMA AboutFits ==
  ASSUME NEW m, m \in Model
  PROVE  Waiting(m, AboutTheCluster(m))
<1>1. Here(m) \in Place /\ m.connection \in 0 .. MaxConnects
  BY DEF Model, Here, Place
<1> QED
  BY <1>1 DEF AboutTheCluster, Waiting, Message, AnswerFits, ConnectFits, Here

(* Answers to earlier asks are of nothing any more, an action counts as    *)
(* long as its client does.                                                *)
LEMMA AskedLater ==
  ASSUME NEW m, NEW n, NEW messages, Waiting(m, messages), m \in Model, n \in Model,
         m.asked < n.asked,
         n.firstAsk = n.asked \/ (n.firstAsk = m.firstAsk /\ Here(n) = Here(m)),
         \A w \in messages : ConnectFits(n, w)
  PROVE  Waiting(n, messages)
<1>1. m.asked \in Int /\ n.asked \in Int
  BY DEF Model
<1> SUFFICES ASSUME NEW w \in messages PROVE AnswerFits(n, w)
  BY DEF Waiting
<1>2. w \in Message /\ AnswerFits(m, w)
  BY DEF Waiting
<1>3. w.kind \in {"rows", "choices", "wrote"} =>
        w.asked \in Int /\ w.asked <= n.asked /\ w.asked # n.asked /\ w.asked < n.asked
  BY <1>1, <1>2 DEF AnswerFits, Message
<1>4. w.kind = "wrote" /\ w.asked >= n.firstAsk => w.question.of = Here(n)
  <2> SUFFICES ASSUME w.kind = "wrote", w.asked >= n.firstAsk PROVE w.question.of = Here(n)
    OBVIOUS
  <2>1. n.firstAsk # n.asked
    BY <1>1, <1>3
  <2> QED
    BY <2>1, <1>2 DEF AnswerFits
<1> QED
  BY <1>2, <1>3, <1>4 DEF AnswerFits

LEMMA EnteredKeeps ==
  ASSUME NEW m, Standing(m), m.asked < MaxAsked
  PROVE  /\ Standing(Entered(m)) /\ Entered(m).asked = m.asked + 1
         /\ Entered(m).screen = m.screen /\ Entered(m).namespace = m.namespace
         /\ Entered(m).cluster = m.cluster /\ Entered(m).question = NoQuestion
         /\ Entered(m).firstAsk = m.firstAsk /\ Here(Entered(m)) = Here(m)
         /\ Entered(m).attempt = m.attempt /\ Entered(m).connecting = m.connecting
         /\ Entered(m).connection = m.connection
<1> DEFINE n == Entered(m)
<1>0. /\ m \in Model /\ m.asked \in Int /\ m.firstAsk \in Int /\ m.firstAsk <= m.asked
      /\ m.asked + 1 \in 1 .. MaxAsked
  BY SessionAssumption DEF Standing, Model
<1>1. n \in Model /\ n.asked = m.asked + 1 /\ n.firstAsk = m.firstAsk
  BY <1>0 DEF Model, Entered
<1>2. /\ n.screen = m.screen /\ n.history = m.history /\ n.known = m.known
      /\ n.datacenter = m.datacenter /\ n.marks = m.marks /\ n.namespace = m.namespace
      /\ n.question = NoQuestion /\ n.cluster = m.cluster /\ n.connection = m.connection
      /\ n.region = m.region /\ n.attempt = m.attempt /\ n.connecting = m.connecting
  BY DEF Entered, Standing, Model
<1> HIDE DEF n
<1>3. n.firstAsk <= n.asked
  BY <1>0, <1>1
<1> QED
  BY <1>1, <1>2, <1>3 DEF Standing, Fits, KnownFits, MarksFit, QuestionFits, Here, n

LEMMA RememberedFits ==
  ASSUME NEW m, m \in Model, saved \in [Clusters -> [namespace : Namespaces, screen : Stored]]
  PROVE  SavedFits(m, Remembered(m))
<1>1. m.cluster \in Clusters /\ m.namespace \in Namespaces
  BY DEF Model
<1> QED
  BY <1>1 DEF SavedFits, Remembered

(* A screen that is as it was for those who wait for it.                   *)
LEMMA SameWaits ==
  ASSUME NEW m, NEW n, NEW messages, Waiting(m, messages), Same(m, n),
         n.screen.kind = m.screen.kind,
         n.screen.kind \in Namespaced => n.namespace = m.namespace
  PROVE  Waiting(n, messages)
BY DEF Waiting, Same, AnswerFits, ConnectFits, Here

(* enter asks again, wherever in the same region it is.                    *)
LEMMA EnterKeeps ==
  ASSUME SessionInv, NEW m, Standing(m), Same(model, m), Enter(m)
  PROVE  /\ Standing(model') /\ Waiting(model', out') /\ model' = Entered(m)
         /\ model'.connection <= model'.attempt /\ Room(model', writes)
<1> DEFINE n == Entered(m)
<1>1. m.asked < MaxAsked /\ model' = n /\ out' = out \cup Fetch(n)
  BY DEF Enter
<1>2. /\ Standing(n) /\ n.asked = model.asked + 1 /\ n.firstAsk = model.firstAsk
      /\ Here(n) = Here(model) /\ n.attempt = model.attempt
      /\ n.connecting = model.connecting /\ n.connection = model.connection
      /\ n.question = NoQuestion
  BY <1>1, EnteredKeeps DEF Same, Here
<1> HIDE DEF n
<1>3. model \in Model /\ n \in Model /\ model.asked < n.asked
  BY <1>2, SMT DEF SessionInv, Standing, Model
<1>4. Waiting(n, out)
  <2>1. Waiting(model, out)
    BY DEF SessionInv
  <2>2. \A w \in out : ConnectFits(n, w)
    BY <2>1, <1>2 DEF Waiting, ConnectFits
  <2> QED
    BY <1>2, <1>3, <2>1, <2>2, AskedLater
<1>5. Waiting(n, Fetch(n))
  BY <1>2, <1>3, FetchFits DEF Standing
<1> QED
  BY <1>1, <1>2, <1>4, <1>5 DEF Waiting, SessionInv, Room, n

LEMMA ArriveKeeps ==
  ASSUME SessionInv, NEW m, Standing(m), Same(model, m), Arrive(m), writes' = writes
  PROVE  SessionInv'
<1>1. /\ Standing(model') /\ Waiting(model', out') /\ model' = Entered(m)
      /\ model'.connection <= model'.attempt /\ saved' = Remembered(model')
      /\ Room(model', writes)
  BY EnterKeeps DEF Arrive
<1>2. saved \in [Clusters -> [namespace : Namespaces, screen : Stored]]
  BY DEF SessionInv, SavedFits
<1>3. SavedFits(model', saved')
  BY <1>1, <1>2, RememberedFits DEF Standing
<1> QED
  BY <1>1, <1>3 DEF SessionInv

-----------------------------------------------------------------------------
(* The steps.                                                              *)

(* A session that starts over has nothing of before.                       *)
LEMMA FreshStands ==
  ASSUME NEW m, m \in Model, m.history = <<>>, m.marks = {}, m.datacenter = Every,
         m.known = Nothing, m.question = NoQuestion, m.screen.at = Nothing,
         m.firstAsk = m.asked
  PROVE  Standing(m)
<1>1. m.asked \in Int /\ DOMAIN m.history = {}
  BY DEF Model
<1> QED
  BY <1>1 DEF Standing, Fits, KnownFits, MarksFit, QuestionFits

LEMMA InitInv == Init => SessionInv
<1> SUFFICES ASSUME Init PROVE SessionInv
  OBVIOUS
<1>1. PICK c \in Clusters : model =
       [cluster |-> c, connection |-> 0, region |-> Unnamed, attempt |-> 0,
        connecting |-> NoCluster, namespace |-> saved[c].namespace,
        datacenter |-> Every, known |-> Nothing,
        screen |-> Opened(saved[c].screen), history |-> <<>>, marks |-> {},
        question |-> NoQuestion, asked |-> 1, firstAsk |-> 1]
  BY DEF Init
<1>2. saved \in [Clusters -> [namespace : Namespaces, screen : Stored]]
  BY SessionAssumption DEF Init
<1>3. saved[c].namespace \in Namespaces /\ saved[c].screen \in Views
  BY <1>2, SessionAssumption
<1>4. model \in Model
  <2>1. <<>> \in Seq(Screen)
    OBVIOUS
  <2> QED
    BY <1>1, <1>3, <2>1, OpenedIs, SessionAssumption DEF Model
<1>5. model.screen = Opened(saved[c].screen) /\ model.namespace = saved[c].namespace
      /\ model.cluster = c /\ model.connection <= model.attempt
      /\ model.firstAsk <= model.asked
  BY <1>1
<1>6. Standing(model)
  BY <1>1, <1>3, <1>4, OpenedIs, FreshStands
<1>7. Waiting(model, out)
  BY <1>4, <1>5, FetchFits, AboutFits DEF Init, Waiting
<1>8. SavedFits(model, saved)
  BY <1>2, <1>3, <1>5, OpenedIs DEF SavedFits
<1>9. Room(model, writes)
  BY <1>1, SessionAssumption DEF Init, Room
<1> QED
  BY <1>5, <1>6, <1>7, <1>8, <1>9 DEF SessionInv

LEMMA ShowKeeps ==
  ASSUME SessionInv, NEW view \in Views, NEW ns \in Namespaces, Show(view, ns)
  PROVE  SessionInv'
<1> DEFINE m == MovedTo(model, ns)
           n == IF view = m.screen.kind THEN m ELSE Stacked(m, Opened(view))
<1>1. Free /\ Arrive(n) /\ writes' = writes
  BY DEF Show
<1>2. Standing(m) /\ Same(model, m)
  BY MovedToKeeps DEF SessionInv
<1>3. m.question = NoQuestion
  BY <1>1, <1>2 DEF Free, Same
<1> HIDE DEF m
<1>4. Standing(n) /\ Same(model, n)
  BY <1>2, <1>3, StackedKeeps DEF Same
<1> QED
  BY <1>1, <1>4, ArriveKeeps

LEMMA OpenDetailKeeps == ASSUME SessionInv, OpenDetail PROVE SessionInv'
<1>1. Standing(model) /\ model.question = NoQuestion
  BY DEF SessionInv, OpenDetail, Free
<1> QED
  BY <1>1, StackedKeeps, ArriveKeeps DEF OpenDetail

LEMMA BackKeeps == ASSUME SessionInv, Back PROVE SessionInv'
<1>1. Standing(model) /\ model.question = NoQuestion
  BY DEF SessionInv, Back, Free
<1> QED
  BY <1>1, CameBackKeeps, ArriveKeeps DEF Back

(* followSession, to another namespace or to another datacenter.           *)
LEMMA FollowKeeps ==
  ASSUME SessionInv, NEW m, Standing(m), Same(model, m), Follow(m),
         m.screen.kind = model.screen.kind,
         m.screen.kind \notin Following => m.screen.kind \notin Namespaced
  PROVE  /\ Standing(model') /\ Waiting(model', out')
         /\ model'.connection <= model'.attempt /\ Room(model', writes)
         /\ model'.cluster = m.cluster /\ model'.namespace = m.namespace
         /\ model'.screen = m.screen
<1>1. CASE m.screen.kind \in Following
  <2>1. Enter(m)
    BY <1>1 DEF Follow
  <2>2. m.asked < MaxAsked
    BY <2>1 DEF Enter
  <2> QED
    BY <2>1, <2>2, EnterKeeps, EnteredKeeps
<1>2. CASE m.screen.kind \notin Following
  <2>1. model' = m /\ out' = out
    BY <1>2 DEF Follow
  <2> QED
    BY <1>2, <2>1, SameWaits DEF SessionInv, Same, Room
<1> QED
  BY <1>1, <1>2

LEMMA SwitchNamespaceKeeps ==
  ASSUME SessionInv, NEW ns \in Namespaces, SwitchNamespace(ns)
  PROVE  SessionInv'
<1> DEFINE m == MovedTo(model, ns)
<1>1. Follow(m) /\ saved' = Remembered(m) /\ writes' = writes
  BY DEF SwitchNamespace
<1>2. Standing(m) /\ Same(model, m) /\ m.screen.kind = model.screen.kind
  BY MovedToKeeps DEF SessionInv
<1> HIDE DEF m
<1>3. /\ Standing(model') /\ Waiting(model', out')
      /\ model'.connection <= model'.attempt /\ Room(model', writes)
      /\ model'.cluster = m.cluster /\ model'.namespace = m.namespace
      /\ model'.screen = m.screen
  BY <1>1, <1>2, FollowKeeps, SessionAssumption
<1>4. SavedFits(m, saved')
  BY <1>1, <1>2, RememberedFits DEF SessionInv, SavedFits, Standing
<1>5. SavedFits(model', saved')
  BY <1>3, <1>4 DEF SavedFits
<1> QED
  BY <1>1, <1>3, <1>5 DEF SessionInv

(* The lists are narrowed to a datacenter only while the session knows     *)
(* some of here.                                                           *)
LEMMA NarrowedStands ==
  ASSUME NEW m, Standing(m), NEW dc \in Datacenters \cup {Every},
         dc = Every \/ m.known # Nothing
  PROVE  /\ Standing([m EXCEPT !.datacenter = dc]) /\ Same(m, [m EXCEPT !.datacenter = dc])
         /\ [m EXCEPT !.datacenter = dc].screen = m.screen
         /\ [m EXCEPT !.datacenter = dc].namespace = m.namespace
         /\ [m EXCEPT !.datacenter = dc].history = m.history
<1> DEFINE n == [m EXCEPT !.datacenter = dc]
<1>1. n \in Model /\ Same(m, n) /\ n.screen = m.screen /\ n.namespace = m.namespace
      /\ n.history = m.history /\ n.known = m.known /\ n.datacenter = dc
      /\ n.marks = m.marks
  BY DEF Standing, Model, Same
<1> HIDE DEF n
<1> QED
  BY <1>1 DEF n, Standing, Fits, KnownFits, MarksFit, QuestionFits, Same, Here

LEMMA SwitchDatacenterKeeps ==
  ASSUME SessionInv, NEW dc \in Datacenters \cup {Every}, SwitchDatacenter(dc)
  PROVE  SessionInv'
<1> DEFINE m == [model EXCEPT !.datacenter = dc]
<1>1. Follow(m) /\ saved' = saved /\ writes' = writes /\ (dc = Every \/ model.known # Nothing)
  BY DEF SwitchDatacenter
<1>2. /\ Standing(m) /\ Same(model, m) /\ m.screen = model.screen
      /\ m.namespace = model.namespace
  BY <1>1, NarrowedStands DEF SessionInv
<1> HIDE DEF m
<1>3. /\ Standing(model') /\ Waiting(model', out')
      /\ model'.connection <= model'.attempt /\ Room(model', writes)
      /\ model'.cluster = m.cluster /\ model'.namespace = m.namespace
      /\ model'.screen = m.screen
  BY <1>1, <1>2, FollowKeeps, SessionAssumption
<1>4. SavedFits(model', saved')
  BY <1>1, <1>2, <1>3 DEF SavedFits, SessionInv, Same
<1> QED
  BY <1>1, <1>3, <1>4 DEF SessionInv

LEMMA NarrowToKeeps ==
  ASSUME SessionInv, NEW dc \in Datacenters \cup {Every}, NarrowTo(dc)
  PROVE  SessionInv'
<1> DEFINE m == [model EXCEPT !.datacenter = dc]
<1>1. /\ Arrive(CameBack(m)) /\ writes' = writes /\ model.known # Nothing
      /\ model.history # <<>> /\ model.question = NoQuestion
  BY DEF NarrowTo, Free
<1>2. /\ Standing(m) /\ Same(model, m) /\ m.history = model.history
  BY <1>1, NarrowedStands DEF SessionInv
<1> HIDE DEF m
<1>3. Standing(CameBack(m)) /\ Same(m, CameBack(m))
  BY <1>1, <1>2, CameBackKeeps DEF Same
<1>4. Same(model, CameBack(m))
  BY <1>2, <1>3 DEF Same
<1> QED
  BY <1>1, <1>3, <1>4, ArriveKeeps

(* A list is opened anew, whichever it is.                                 *)
LEMMA ListScreenIs ==
  ASSUME NEW m, m \in Model
  PROVE  ListScreen(m) \in Screen /\ ListScreen(m).at = Nothing
<1> DEFINE stack  == Append(m.history, m.screen)
           stored == {i \in DOMAIN stack : stack[i].kind \in Stored}
<1>1. stack \in Seq(Screen)
  BY DEF Model
<1>2. stored # {} => Max(stored) \in stored
  <2>1. Len(stack) \in Nat /\ stored \in SUBSET (0 .. Len(stack))
    BY <1>1
  <2> HIDE DEF stored
  <2> QED
    BY <2>1, MaxIs
<1>3. stored # {} => stack[Max(stored)].kind \in Stored
  BY <1>2
<1>4. ListScreen(m) =
        IF stored = {} THEN Opened(jobs) ELSE Opened(stack[Max(stored)].kind)
  BY DEF ListScreen
<1> HIDE DEF stored, stack
<1> QED
  BY <1>3, <1>4, OpenedIs, SessionAssumption

LEMMA SwitchRegionKeeps ==
  ASSUME SessionInv, NEW region \in Regions, SwitchRegion(region)
  PROVE  SessionInv'
<1> DEFINE m == RegionForgotten([model EXCEPT !.region = region])
           next == Entered([m EXCEPT !.screen = ListScreen(model), !.history = <<>>])
           n == [next EXCEPT !.firstAsk = next.asked]
<1>1. /\ model.asked < MaxAsked /\ model' = n /\ writes' = writes
      /\ out' = out \cup Fetch(next) \cup AboutTheCluster(next)
      /\ saved' = Remembered(next)
  BY DEF SwitchRegion
<1>2. /\ model \in Model /\ model.asked \in Int /\ model.asked + 1 \in 1 .. MaxAsked
      /\ <<>> \in Seq(Screen)
  <2>1. <<>> \in Seq(Screen)
    OBVIOUS
  <2>2. model \in Model /\ model.asked \in 1 .. MaxAsked
    BY DEF SessionInv, Standing, Model
  <2> QED
    BY <1>1, <2>1, <2>2, SessionAssumption
<1>3. ListScreen(model) \in Screen /\ ListScreen(model).at = Nothing
  BY <1>2, ListScreenIs
<1>4. next \in Model /\ n \in Model
  BY ZenonT(60), <1>2, <1>3 DEF Model, RegionForgotten, Entered
<1>5. /\ n.history = <<>> /\ n.marks = {} /\ n.datacenter = Every /\ n.known = Nothing
      /\ n.question = NoQuestion /\ n.screen = ListScreen(model) /\ n.firstAsk = n.asked
      /\ n.asked = model.asked + 1 /\ n.attempt = model.attempt
      /\ n.connecting = model.connecting /\ n.connection = model.connection
  BY <1>2 DEF Model, RegionForgotten, Entered
<1>6. Fetch(n) = Fetch(next) /\ AboutTheCluster(n) = AboutTheCluster(next)
      /\ Remembered(n) = Remembered(next)
  BY <1>4 DEF Model, Fetch, AboutTheCluster, Remembered, Here
<1> HIDE DEF m, next, n
<1>7. Standing(n)
  BY <1>3, <1>4, <1>5, FreshStands
<1>8. Waiting(n, out)
  <2>1. \A w \in out : ConnectFits(n, w)
    BY <1>5 DEF SessionInv, Waiting, ConnectFits
  <2>2. Waiting(model, out) /\ model.asked < n.asked
    BY <1>2, <1>5 DEF SessionInv
  <2> QED
    BY <2>1, <2>2, <1>2, <1>4, <1>5, AskedLater
<1>9. Waiting(n, Fetch(n)) /\ Waiting(n, AboutTheCluster(n))
  BY <1>4, <1>7, FetchFits, AboutFits DEF Standing
<1>10. Waiting(n, out')
  BY <1>1, <1>6, <1>8, <1>9 DEF Waiting
<1>11. SavedFits(n, saved')
  BY <1>1, <1>4, <1>6, RememberedFits DEF SessionInv, SavedFits
<1> QED
  BY <1>1, <1>5, <1>7, <1>10, <1>11 DEF SessionInv, Room

(* No connect is out with a number that was not given yet.                 *)
LEMMA SwitchClusterKeeps ==
  ASSUME SessionInv, NEW cluster \in Clusters, SwitchCluster(cluster)
  PROVE  SessionInv'
<1> DEFINE attempt == model.attempt + 1
           stays == cluster = model.cluster
           n == [model EXCEPT !.attempt = attempt,
                              !.connecting = IF stays THEN NoCluster ELSE cluster]
           w0 == [kind |-> "connect", attempt |-> attempt, cluster |-> cluster]
<1>1. /\ model.attempt < MaxConnects /\ model' = n /\ saved' = saved /\ writes' = writes
      /\ out' = IF stays THEN out ELSE out \cup {w0}
  BY DEF SwitchCluster
<1>2. /\ model \in Model /\ model.attempt \in Int /\ model.connection \in Int
      /\ attempt \in 1 .. MaxConnects /\ model.connection <= model.attempt
  BY <1>1, SessionAssumption DEF SessionInv, Standing, Model
<1>3. n \in Model
  <2>1. attempt \in 0 .. MaxConnects
    BY <1>2, SessionAssumption
  <2> HIDE DEF attempt
  <2> QED
    BY <1>2, <2>1 DEF Model
<1>4. /\ n.screen = model.screen /\ n.history = model.history /\ n.known = model.known
      /\ n.datacenter = model.datacenter /\ n.marks = model.marks
      /\ n.question = model.question /\ n.namespace = model.namespace
      /\ n.asked = model.asked /\ n.firstAsk = model.firstAsk /\ Here(n) = Here(model)
      /\ n.cluster = model.cluster /\ n.connection = model.connection
      /\ n.attempt = attempt /\ n.connecting = IF stays THEN NoCluster ELSE cluster
  BY <1>2 DEF Model, Here
<1> HIDE DEF n
<1>5. Standing(n)
  BY <1>3, <1>4 DEF SessionInv, Standing, Fits, KnownFits, MarksFit, QuestionFits
<1>6. ASSUME NEW w \in out' PROVE w \in Message /\ AnswerFits(n, w) /\ ConnectFits(n, w)
  <2>1. CASE w \in out
    <3>1. w \in Message /\ AnswerFits(model, w) /\ ConnectFits(model, w)
      BY <2>1 DEF SessionInv, Waiting
    <3>2. AnswerFits(n, w)
      BY <3>1, <1>4 DEF AnswerFits
    <3>3. w.kind = "connect" => w.attempt \in Int /\ w.attempt <= model.attempt
      BY <3>1 DEF Message, ConnectFits
    <3>4. ConnectFits(n, w)
      BY <3>3, <1>2, <1>4 DEF ConnectFits
    <3> QED
      BY <3>1, <3>2, <3>4
  <2>2. CASE w = w0 /\ ~stays
    BY <2>2, <1>2, <1>4 DEF Message, AnswerFits, ConnectFits
  <2> QED
    BY <2>1, <2>2, <1>1, <1>6
<1>7. Waiting(n, out') /\ SavedFits(n, saved)
  BY <1>4, <1>6 DEF Waiting, SessionInv, SavedFits
<1>8. n.connection <= n.attempt
  BY <1>2, <1>4
<1>9. Room(n, writes)
  BY <1>4 DEF SessionInv, Room
<1> QED
  BY <1>1, <1>5, <1>7, <1>8, <1>9 DEF SessionInv

(* A step that leaves alone where the session is, and the screen but for   *)
(* what is read on it.                                                     *)
LEMMA StaysKeeps ==
  ASSUME SessionInv, NEW m, Standing(m), Same(model, [m EXCEPT !.question = model.question]),
         m.screen.kind = model.screen.kind, m.namespace = model.namespace,
         model' = m, saved' = saved, Room(m, writes'),
         Waiting(m, out' \ out)
  PROVE  SessionInv'
<1>1. m \in Model
  BY DEF Standing
<1>2. /\ m.asked = model.asked /\ m.firstAsk = model.firstAsk /\ m.cluster = model.cluster
      /\ m.connection = model.connection /\ Here(m) = Here(model)
      /\ m.attempt = model.attempt /\ m.connecting = model.connecting
  BY <1>1 DEF Same, Model, Here
<1>3. Waiting(m, out)
  BY <1>2 DEF SessionInv, Waiting, AnswerFits, ConnectFits
<1>4. Waiting(m, out') /\ SavedFits(m, saved)
  BY <1>2, <1>3 DEF Waiting, SessionInv, SavedFits
<1> QED
  BY <1>2, <1>4 DEF SessionInv

LEMMA MarkRowKeeps == ASSUME SessionInv, MarkRow PROVE SessionInv'
<1> DEFINE mark == [name |-> model.screen.kind, of |-> model.screen.at.place]
           same == {k \in model.marks : k.name = mark.name}
           marks == IF same # {} THEN model.marks \ same ELSE model.marks \cup {mark}
           n == [model EXCEPT !.marks = marks]
<1>1. model' = n /\ out' = out /\ saved' = saved /\ writes' = writes
      /\ model.screen.at # Nothing
  BY DEF MarkRow, HasRows
<1>2. model \in Model /\ Standing(model)
  BY DEF SessionInv, Standing
<1>3. /\ Here(model) \in Place /\ model.screen.at.place = Here(model)
      /\ model.screen.kind \in Views \cup {Detail}
  BY <1>1, <1>2 DEF Standing, Fits, Model, Here, Place, Screen
<1>4. mark \in Mark /\ mark.of = Here(model) /\ mark.name = model.screen.kind
  BY <1>3 DEF Mark
<1> HIDE DEF mark
<1>5. marks \in SUBSET Mark /\ \A k \in marks : k.of = Here(model) /\ k.name = model.screen.kind
  <2>1. model.marks \in SUBSET Mark
    BY <1>2 DEF Model
  <2> QED
    BY <1>2, <1>4, <2>1 DEF Standing, MarksFit
<1> HIDE DEF marks
<1>6. /\ n \in Model /\ n.screen = model.screen /\ n.history = model.history
      /\ n.known = model.known /\ n.datacenter = model.datacenter /\ n.marks = marks
      /\ n.question = model.question /\ n.namespace = model.namespace
      /\ n.asked = model.asked /\ n.firstAsk = model.firstAsk /\ Here(n) = Here(model)
      /\ Same(model, [n EXCEPT !.question = model.question])
  BY <1>2, <1>5 DEF Model, Here, Same
<1> HIDE DEF n
<1>7. Standing(n)
  BY <1>2, <1>5, <1>6 DEF Standing, Fits, KnownFits, MarksFit, QuestionFits
<1> QED
  BY <1>1, <1>6, <1>7, StaysKeeps DEF Waiting, SessionInv, Room

(* What a question asks is about what is under it.                         *)
LEMMA AskKeeps == ASSUME SessionInv, Ask PROVE SessionInv'
<1> DEFINE names == {k.name : k \in model.marks}
           question == [name |-> model.screen.kind, took |-> names,
                        of |-> model.screen.at.place]
           n == [model EXCEPT !.question = question]
<1>1. model' = n /\ out' = out /\ saved' = saved /\ writes' = writes
      /\ model.screen.at # Nothing
  BY DEF Ask, HasRows
<1>2. model \in Model /\ Standing(model)
  BY DEF SessionInv, Standing
<1>3. /\ Here(model) \in Place /\ model.screen.at.place = Here(model)
      /\ model.screen.kind \in Views \cup {Detail}
  BY <1>1, <1>2 DEF Standing, Fits, Model, Here, Place, Screen
<1>4. names \subseteq Views \cup {Detail}
  BY <1>2 DEF Model, Mark
<1> HIDE DEF names
<1>5. question \in Question /\ question.of = Here(model)
      /\ question.name = model.screen.kind
  BY <1>3, <1>4 DEF Question
<1> HIDE DEF question
<1>6. /\ n \in Model /\ n.screen = model.screen /\ n.history = model.history
      /\ n.known = model.known /\ n.datacenter = model.datacenter
      /\ n.marks = model.marks /\ n.question = question /\ n.namespace = model.namespace
      /\ n.asked = model.asked /\ n.firstAsk = model.firstAsk /\ Here(n) = Here(model)
      /\ Same(model, [n EXCEPT !.question = model.question])
  BY <1>2, <1>5 DEF Model, Here, Same
<1> HIDE DEF n
<1>7. Standing(n)
  BY <1>2, <1>5, <1>6 DEF Standing, Fits, KnownFits, MarksFit, QuestionFits
<1> QED
  BY <1>1, <1>6, <1>7, StaysKeeps DEF Waiting, SessionInv, Room, Ask

LEMMA ConfirmKeeps == ASSUME SessionInv, Confirm PROVE SessionInv'
<1> DEFINE n == [model EXCEPT !.question = NoQuestion]
           wrote == [kind |-> "wrote", asked |-> model.asked, question |-> model.question]
<1>1. model' = n /\ saved' = saved /\ out' \ out \subseteq {wrote}
      /\ model.question # NoQuestion
  BY DEF Confirm, Free
<1>2. model \in Model /\ Standing(model)
  BY DEF SessionInv, Standing
<1>3. /\ n \in Model /\ n.screen = model.screen /\ n.history = model.history
      /\ n.known = model.known /\ n.datacenter = model.datacenter
      /\ n.marks = model.marks /\ n.question = NoQuestion /\ n.namespace = model.namespace
      /\ n.asked = model.asked /\ n.firstAsk = model.firstAsk /\ Here(n) = Here(model)
      /\ Same(model, [n EXCEPT !.question = model.question])
  BY <1>2 DEF Model, Here, Same
<1> HIDE DEF n
<1>4. Standing(n)
  BY <1>2, <1>3 DEF Standing, Fits, KnownFits, MarksFit, QuestionFits
<1>5. /\ model.question \in Question /\ model.question.of = Here(model)
      /\ model.question.name = model.screen.kind /\ model.asked \in 1 .. MaxAsked
  BY <1>1, <1>2 DEF Standing, QuestionFits, Model
<1>6. Waiting(n, {wrote})
  BY <1>3, <1>5 DEF Waiting, Message, AnswerFits, ConnectFits
<1>7. Waiting(n, out' \ out)
  BY <1>1, <1>6 DEF Waiting
<1>8. Room(n, writes')
  <2>1. writes \in 0 .. MaxWrites /\ writes < MaxWrites /\ writes' \in {writes, writes + 1}
    BY <1>1 DEF Confirm, SessionInv, Room
  <2> QED
    BY <1>3, <2>1, SessionAssumption DEF Room
<1> QED
  BY <1>1, <1>3, <1>4, <1>7, <1>8, StaysKeeps

LEMMA RefreshKeeps == ASSUME SessionInv, Refresh PROVE SessionInv'
<1>1. Waiting(model, Fetch(model))
  BY FetchFits DEF SessionInv, Standing
<1> QED
  BY <1>1 DEF Refresh, SessionInv, Waiting

LEMMA FailsKeeps == ASSUME SessionInv, NEW w, Fails(w) PROVE SessionInv'
BY DEF Fails, Drop, SessionInv, Waiting

(* The rows are read by the ask of the screen that is open.                *)
LEMMA TakeRowsKeeps ==
  ASSUME SessionInv, NEW w \in out, TakeRows(w)
  PROVE  SessionInv'
<1> DEFINE n == [model EXCEPT !.screen.at = w.at]
<1>1. /\ w.kind = "rows" /\ out' = out \ {w} /\ saved' = saved /\ writes' = writes
      /\ model' = IF w.asked = model.asked THEN n ELSE model
  BY DEF TakeRows, Drop
<1>2. CASE w.asked # model.asked
  BY <1>1, <1>2 DEF SessionInv, Waiting
<1>3. CASE w.asked = model.asked
  <2>1. w \in Message /\ AnswerFits(model, w) /\ model \in Model /\ Standing(model)
    BY DEF SessionInv, Waiting, Standing
  <2>2. w.at \in Read
    BY <1>1, <2>1 DEF Message
  <2>3. /\ n \in Model /\ n.screen.at = w.at /\ n.screen.kind = model.screen.kind
        /\ n.history = model.history
        /\ n.known = model.known /\ n.datacenter = model.datacenter
        /\ n.marks = model.marks /\ n.question = model.question
        /\ n.namespace = model.namespace
        /\ n.asked = model.asked /\ n.firstAsk = model.firstAsk /\ Here(n) = Here(model)
        /\ Same(model, [n EXCEPT !.question = model.question])
    <3>1. model.screen \in Screen
      BY <2>1 DEF Model
    <3>2. [model.screen EXCEPT !.at = w.at] \in Screen
      BY <2>2, <3>1 DEF Screen
    <3>3. n.screen = [model.screen EXCEPT !.at = w.at]
      BY <2>1 DEF Model
    <3>4. n.screen.at = w.at /\ n.screen.kind = model.screen.kind
      BY <3>1, <3>3 DEF Screen
    <3> QED
      BY <2>1, <3>2, <3>4 DEF Model, Here, Same
  <2> HIDE DEF n
  <2>4. Fits(n.screen, n)
    BY <1>1, <1>3, <2>1, <2>3 DEF AnswerFits, Fits
  <2>5. Standing(n)
    BY <2>1, <2>3, <2>4 DEF Standing, Fits, KnownFits, MarksFit, QuestionFits
  <2> QED
    BY <1>1, <1>3, <2>3, <2>5, StaysKeeps DEF Waiting, SessionInv, Room
<1> QED
  BY <1>2, <1>3

(* What the session knows of the datacenters is of the region of the       *)
(* client it asks, and it may be narrowed to one of them already.          *)
LEMMA TakeDatacentersKeeps ==
  ASSUME SessionInv, NEW w \in out, TakeDatacenters(w)
  PROVE  SessionInv'
<1> DEFINE n == [model EXCEPT !.known = w.of]
<1>1. /\ out' = out \ {w} /\ saved' = saved /\ writes' = writes
      /\ w.kind \in {"datacenters", "choices"}
      /\ \/ model' = model
         \/ /\ model' = n /\ w.of.region = model.region
            /\ \/ w.kind = "datacenters" /\ w.connection = model.connection
               \/ w.kind = "choices" /\ w.asked = model.asked
  BY DEF TakeDatacenters, Drop, KeepDatacenters
<1>2. w \in Message /\ AnswerFits(model, w) /\ model \in Model /\ Standing(model)
  BY DEF SessionInv, Waiting, Standing
<1>3. w.of \in Place
  BY <1>1, <1>2 DEF Message
<1>4. CASE model' = model
  BY <1>1, <1>4 DEF SessionInv, Waiting
<1>5. CASE model' = n /\ w.of = Here(model)
  <2>1. /\ n \in Model /\ n.screen = model.screen /\ n.history = model.history
        /\ n.known = Here(model) /\ n.datacenter = model.datacenter
        /\ n.marks = model.marks /\ n.question = model.question
        /\ n.namespace = model.namespace
        /\ n.asked = model.asked /\ n.firstAsk = model.firstAsk /\ Here(n) = Here(model)
        /\ Same(model, [n EXCEPT !.question = model.question])
    BY <1>2, <1>3, <1>5 DEF Model, Here, Same
  <2> HIDE DEF n
  <2>2. Standing(n)
    BY <1>2, <2>1 DEF Standing, Fits, KnownFits, MarksFit, QuestionFits
  <2> QED
    BY <1>1, <1>5, <2>1, <2>2, StaysKeeps DEF Waiting, SessionInv, Room
<1>6. w.kind = "datacenters" /\ w.connection = model.connection /\ w.of.region = model.region
      => w.of = Here(model)
  BY <1>2, <1>3 DEF AnswerFits, Place, Here
<1>7. w.kind = "choices" /\ w.asked = model.asked => w.of = Here(model)
  BY <1>2 DEF AnswerFits
<1> QED
  BY <1>1, <1>4, <1>5, <1>6, <1>7

(* What an action marks is on the screen that asked for it.                *)
LEMMA TakeDoneKeeps ==
  ASSUME SessionInv, NEW w \in out, TakeDone(w)
  PROVE  SessionInv'
<1>1. /\ w.kind = "wrote" /\ saved' = saved /\ writes' = writes
      /\ out' \subseteq out \cup Fetch(model)
  BY DEF TakeDone, Drop
<1>2. PICK failed \in SUBSET {w.question.name} :
        IF w.asked = model.asked
        THEN model' = Done(w.question, failed)
        ELSE model' = DoneLate(w.asked, w.question, failed)
  BY DEF TakeDone
<1>3. w \in Message /\ AnswerFits(model, w) /\ model \in Model /\ Standing(model)
  BY DEF SessionInv, Waiting, Standing
<1>4. w.question \in Question
  BY <1>1, <1>3 DEF Message
<1>5. PICK marks \in SUBSET Mark :
        /\ \A k \in marks : k.of = Here(model) /\ k.name = model.screen.kind
        /\ model' = [model EXCEPT !.marks = marks]
  <2>1. model.marks \in SUBSET Mark
        /\ \A k \in model.marks : k.of = Here(model) /\ k.name = model.screen.kind
    BY <1>3 DEF Model, Standing, MarksFit
  <2>2. CASE w.asked = model.asked
    <3> DEFINE new == {[name |-> n, of |-> w.question.of] : n \in failed}
    <3>1. model.firstAsk <= w.asked
      BY <2>2, <1>3 DEF Standing
    <3>2. w.question.of = Here(model) /\ w.question.name = model.screen.kind
      BY <1>1, <1>3, <2>2, <3>1 DEF AnswerFits, Standing, Model
    <3>3. new \in SUBSET Mark
      BY <1>4 DEF Question, Mark
    <3>4. \A k \in new : k.of = Here(model) /\ k.name = model.screen.kind
      BY <3>2
    <3>5. model' = [model EXCEPT !.marks = Unmarked(w.question.took) \cup new]
      BY <1>2, <2>2 DEF Done
    <3> HIDE DEF new
    <3>6. Unmarked(w.question.took) \cup new \in SUBSET Mark
      BY <2>1, <3>3 DEF Unmarked
    <3> WITNESS Unmarked(w.question.took) \cup new \in SUBSET Mark
    <3> QED
      BY <2>1, <3>3, <3>4, <3>5 DEF Unmarked
  <2>3. CASE w.asked # model.asked /\ w.asked >= model.firstAsk
    <3>1. model' = [model EXCEPT !.marks = Unmarked({w.question.name} \ failed)]
      BY <1>2, <2>3 DEF DoneLate
    <3>2. Unmarked({w.question.name} \ failed) \in SUBSET Mark
      BY <2>1 DEF Unmarked
    <3> WITNESS Unmarked({w.question.name} \ failed) \in SUBSET Mark
    <3> QED
      BY <2>1, <3>1 DEF Unmarked
  <2>4. CASE w.asked # model.asked /\ ~(w.asked >= model.firstAsk)
    <3>1. model' = model
      BY <1>2, <2>4 DEF DoneLate
    <3>2. model = [model EXCEPT !.marks = model.marks]
      BY <1>3 DEF Model
    <3> QED
      BY <2>1, <3>1, <3>2
  <2> QED
    BY <2>2, <2>3, <2>4
<1> DEFINE n == [model EXCEPT !.marks = marks]
<1>6. /\ n \in Model /\ n.screen = model.screen /\ n.history = model.history
      /\ n.known = model.known /\ n.datacenter = model.datacenter /\ n.marks = marks
      /\ n.question = model.question /\ n.namespace = model.namespace
      /\ n.asked = model.asked /\ n.firstAsk = model.firstAsk /\ Here(n) = Here(model)
      /\ Same(model, [n EXCEPT !.question = model.question])
  BY <1>3 DEF Model, Here, Same
<1>7. model' = n
  BY <1>5
<1> HIDE DEF n
<1>8. Standing(n)
  BY <1>3, <1>5, <1>6 DEF Standing, Fits, KnownFits, MarksFit, QuestionFits
<1>9. Waiting(n, out' \ out)
  <2>1. Fetch(n) = Fetch(model)
    BY <1>6 DEF Fetch
  <2> QED
    BY <1>1, <1>6, <1>8, <2>1, FetchFits DEF Standing, Waiting
<1> QED
  BY <1>1, <1>6, <1>7, <1>8, <1>9, StaysKeeps DEF SessionInv, Room

(* The connect that counts is the one that is out last: its number is      *)
(* above every connection, and no other has it.                            *)
LEMMA TakeConnectKeeps ==
  ASSUME SessionInv, NEW w \in out, TakeConnect(w)
  PROVE  SessionInv'
<1> DEFINE m == [RegionForgotten(model) EXCEPT !.connecting = NoCluster,
                   !.cluster = w.cluster, !.connection = @ + 1, !.region = Unnamed,
                   !.history = <<>>]
           next == Entered(Restored(m))
           n == [next EXCEPT !.firstAsk = next.asked]
           stays == [model EXCEPT !.connecting = NoCluster]
<1>1. /\ w.kind = "connect" /\ writes' = writes
      /\ \/ out' = out \ {w} /\ model' = model /\ saved' = saved
         \/ /\ Asked(w) /\ model.asked < MaxAsked /\ model' = n
            /\ out' = (out \ {w}) \cup Fetch(next) \cup AboutTheCluster(next)
            /\ saved' = Remembered(next)
         \/ Asked(w) /\ model' = stays /\ out' = out \ {w} /\ saved' = saved
  BY DEF TakeConnect, Drop
<1>2. model \in Model /\ Standing(model) /\ Waiting(model, out)
  BY DEF SessionInv, Standing
<1>3. /\ model.connection \in Int /\ model.attempt \in 0 .. MaxConnects
      /\ model.asked \in 1 .. MaxAsked
  BY <1>2, SessionAssumption DEF Model
<1>4. Asked(w) => /\ w.cluster = model.connecting /\ w.cluster \in Clusters
                  /\ model.connection < model.attempt
  BY <1>1, <1>2 DEF Asked, Waiting, ConnectFits, Message
<1>5. ASSUME Asked(w), NEW v \in out \ {w} PROVE v.kind = "connect" => v.attempt # model.attempt
  <2> SUFFICES ASSUME v.kind = "connect", v.attempt = model.attempt PROVE FALSE
    OBVIOUS
  <2>1. v \in [kind : {"connect"}, attempt : 1 .. MaxConnects, cluster : Clusters]
    BY <1>2 DEF Waiting, Message
  <2>2. w \in [kind : {"connect"}, attempt : 1 .. MaxConnects, cluster : Clusters]
    BY <1>1, <1>2 DEF Waiting, Message
  <2>3. v.cluster = model.connecting
    BY <1>2 DEF Waiting, ConnectFits
  <2>4. v = w
    BY <1>4, <1>5, <2>1, <2>2, <2>3 DEF Asked
  <2> QED
    BY <2>4
<1>6. CASE model' = model /\ out' = out \ {w} /\ saved' = saved
  BY <1>1, <1>6 DEF SessionInv, Waiting
<1>7. CASE Asked(w) /\ model' = stays /\ out' = out \ {w} /\ saved' = saved
  <2>1. /\ stays \in Model /\ stays.screen = model.screen
        /\ stays.history = model.history /\ stays.known = model.known
        /\ stays.datacenter = model.datacenter /\ stays.marks = model.marks
        /\ stays.question = model.question /\ stays.namespace = model.namespace
        /\ stays.asked = model.asked /\ stays.firstAsk = model.firstAsk
        /\ Here(stays) = Here(model) /\ stays.cluster = model.cluster
        /\ stays.connection = model.connection /\ stays.attempt = model.attempt
    BY <1>2 DEF Model, Here
  <2> HIDE DEF stays
  <2>2. Standing(stays)
    BY <1>2, <2>1 DEF Standing, Fits, KnownFits, MarksFit, QuestionFits
  <2>3. \A v \in out \ {w} : AnswerFits(stays, v)
    BY <1>2, <2>1 DEF Waiting, AnswerFits
  <2>4. \A v \in out \ {w} : ConnectFits(stays, v)
    BY <1>2, <1>5, <1>7, <2>1 DEF Waiting, ConnectFits
  <2>5. Waiting(stays, out')
    BY <1>2, <1>7, <2>3, <2>4 DEF Waiting
  <2> QED
    BY <1>1, <1>7, <2>1, <2>2, <2>5 DEF SessionInv, SavedFits, Room
<1>8. CASE /\ Asked(w) /\ model.asked < MaxAsked /\ model' = n
           /\ out' = (out \ {w}) \cup Fetch(next) \cup AboutTheCluster(next)
           /\ saved' = Remembered(next)
  <2>1. /\ saved \in [Clusters -> [namespace : Namespaces, screen : Stored]]
        /\ w.cluster \in Clusters
    BY <1>4, <1>8 DEF SessionInv, SavedFits
  <2>2. saved[w.cluster].namespace \in Namespaces /\ saved[w.cluster].screen \in Views
    BY <2>1, SessionAssumption
  <2>3. Opened(saved[w.cluster].screen) \in Screen
        /\ Opened(saved[w.cluster].screen).at = Nothing
    BY <2>2, OpenedIs
  <2>4. model.connection + 1 \in 0 .. MaxConnects /\ model.asked + 1 \in 1 .. MaxAsked
    <3>1. model.connection \in 0 .. MaxConnects
      BY <1>2 DEF Model
    <3> QED
      BY <1>3, <1>4, <1>8, <3>1, SessionAssumption
  <2>5. <<>> \in Seq(Screen) /\ Unnamed \in Regions /\ Every \in Datacenters \cup {Every}
    BY SessionAssumption
  <2>6. m \in Model /\ m.cluster = w.cluster /\ m.asked = model.asked
        /\ m.history = <<>> /\ m.marks = {} /\ m.datacenter = Every /\ m.known = Nothing
        /\ m.attempt = model.attempt /\ m.connection = model.connection + 1
    BY <1>2, <2>1, <2>4, <2>5 DEF Model, RegionForgotten
  <2> HIDE DEF m
  <2>7. /\ Restored(m) \in Model /\ Restored(m).screen = Opened(saved[w.cluster].screen)
        /\ Restored(m).asked = model.asked /\ Restored(m).cluster = w.cluster
        /\ Restored(m).history = <<>> /\ Restored(m).marks = {}
        /\ Restored(m).datacenter = Every /\ Restored(m).known = Nothing
        /\ Restored(m).attempt = model.attempt
        /\ Restored(m).connection = model.connection + 1
    BY <2>2, <2>3, <2>6 DEF Model, Restored
  <2>8. next \in Model /\ n \in Model
    BY <2>4, <2>7 DEF Model, Entered
  <2>9. /\ n.history = <<>> /\ n.marks = {} /\ n.datacenter = Every /\ n.known = Nothing
        /\ n.question = NoQuestion /\ n.screen = Opened(saved[w.cluster].screen)
        /\ n.firstAsk = n.asked /\ n.asked = model.asked + 1 /\ n.attempt = model.attempt
        /\ n.connection = model.connection + 1
    BY <2>7 DEF Model, Entered
  <2>10. Fetch(n) = Fetch(next) /\ AboutTheCluster(n) = AboutTheCluster(next)
         /\ Remembered(n) = Remembered(next)
    BY <2>8 DEF Model, Fetch, AboutTheCluster, Remembered, Here
  <2> HIDE DEF next, n
  <2>11. Standing(n)
    BY <2>3, <2>8, <2>9, FreshStands
  <2>12. \A v \in out \ {w} : ConnectFits(n, v)
    BY <1>2, <1>5, <1>8, <2>9 DEF Waiting, ConnectFits
  <2>13. Waiting(n, out \ {w})
    <3>1. Waiting(model, out \ {w}) /\ model.asked < n.asked
      BY <1>2, <1>3, <2>9 DEF Waiting
    <3> QED
      BY <1>2, <2>8, <2>9, <2>12, <3>1, AskedLater
  <2>14. Waiting(n, Fetch(n)) /\ Waiting(n, AboutTheCluster(n))
    BY <2>8, <2>11, FetchFits, AboutFits DEF Standing
  <2>15. Waiting(n, out')
    BY <1>8, <2>10, <2>13, <2>14 DEF Waiting
  <2>16. SavedFits(n, saved')
    BY <1>8, <2>1, <2>8, <2>10, RememberedFits
  <2>17. n.connection <= n.attempt
    BY <1>3, <1>4, <1>8, <2>9
  <2> QED
    BY <1>1, <1>8, <2>9, <2>11, <2>15, <2>16, <2>17 DEF SessionInv, Room
<1> QED
  BY <1>1, <1>6, <1>7, <1>8

LEMMA SessionInductive == SessionInv /\ [Next]_vars => SessionInv'
<1> SUFFICES ASSUME SessionInv, [Next]_vars PROVE SessionInv'
  OBVIOUS
<1>1. CASE UNCHANGED vars
  BY <1>1 DEF vars, SessionInv
<1>2. CASE Person
  BY <1>2, ShowKeeps, OpenDetailKeeps, BackKeeps, SwitchNamespaceKeeps,
     SwitchDatacenterKeeps, NarrowToKeeps, SwitchRegionKeeps, SwitchClusterKeeps,
     MarkRowKeeps, AskKeeps, ConfirmKeeps DEF Person
<1>3. CASE Refresh
  BY <1>3, RefreshKeeps
<1>4. CASE \E w \in out : Take(w) \/ Fails(w)
  BY <1>4, TakeRowsKeeps, TakeDatacentersKeeps, TakeDoneKeeps, TakeConnectKeeps,
     FailsKeeps DEF Take
<1> QED
  BY <1>1, <1>2, <1>3, <1>4 DEF Next

LEMMA SessionAlways == Spec => []SessionInv
BY InitInv, SessionInductive, PTL DEF Spec

-----------------------------------------------------------------------------
(* Nothing a person sees, names, marks, is asked or finds saved is of      *)
(* where the session was before it moved, however late the answers of that *)
(* place come: takeAnswer drops them by their ask, moveTo, switchRegion    *)
(* and connected let go of what was read.                                  *)
THEOREM OfHere == Spec => []AllIsOfHere
<1>1. SessionInv => AllIsOfHere
  <2> SUFFICES ASSUME SessionInv PROVE AllIsOfHere
    OBVIOUS
  <2>1. Standing(model) /\ Waiting(model, out) /\ SavedFits(model, saved)
        /\ Room(model, writes)
    BY DEF SessionInv
  <2>2. TypeOK
    BY <2>1 DEF TypeOK, Standing, Waiting, SavedFits, Room
  <2>3. ShownIsOfHere
    BY <2>1 DEF ShownIsOfHere, Standing, Fits, ToSet
  <2>4. KnownIsOfHere /\ MarksAreOfHere /\ QuestionIsOfHere
    BY <2>1 DEF KnownIsOfHere, MarksAreOfHere, QuestionIsOfHere,
                Standing, KnownFits, MarksFit, QuestionFits
  <2>5. RememberedIsHere
    BY <2>1 DEF RememberedIsHere, SavedFits
  <2> QED
    BY <2>2, <2>3, <2>4, <2>5 DEF AllIsOfHere
<1> QED
  BY <1>1, SessionAlways, PTL

(* An action that ends where the session no longer is takes no mark off    *)
(* here: doneLate asks for the first ask of the client in use.             *)
THEOREM EndsElsewhere == Spec => DoneElsewhere
<1> DEFINE X == \A w \in out \ out' :
       w.kind = "wrote" /\ w.question.of # Here(model) => model.marks \subseteq model'.marks
<1>1. SessionInv /\ [Next]_vars => [X]_vars
  <2> SUFFICES ASSUME SessionInv, Next, NEW w \in out \ out', w.kind = "wrote",
                      w.question.of # Here(model)
               PROVE  model.marks \subseteq model'.marks
    BY DEF vars
  <2>1. AnswerFits(model, w) /\ model \in Model /\ model.firstAsk <= model.asked
    BY DEF SessionInv, Waiting, Standing
  <2>2. w.asked # model.asked /\ ~(w.asked >= model.firstAsk)
    BY <2>1 DEF AnswerFits, Model
  <2>3. CASE TakeDone(w)
    BY <2>2, <2>3 DEF TakeDone, DoneLate
  <2>4. CASE Fails(w) \/ TakeRows(w) \/ TakeDatacenters(w) \/ TakeConnect(w)
    BY <2>4 DEF Fails, TakeRows, TakeDatacenters, TakeConnect
  <2>5. PICK v \in out : (Take(v) \/ Fails(v)) /\ out \ out' \subseteq {v}
    <3>1. ASSUME Person \/ Refresh PROVE FALSE
      BY <3>1 DEF Person, Refresh, Show, OpenDetail, Back, SwitchNamespace,
         SwitchDatacenter, NarrowTo, SwitchRegion, SwitchCluster, MarkRow, Ask, Confirm,
         Arrive, Enter, Follow
    <3>2. PICK v \in out : Take(v) \/ Fails(v)
      BY <3>1 DEF Next
    <3>3. out \ out' \subseteq {v}
      BY <3>2 DEF Take, Fails, TakeRows, TakeDatacenters, TakeDone, TakeConnect, Drop
    <3> QED
      BY <3>2, <3>3
  <2>6. v = w
    BY <2>5
  <2> QED
    BY <2>3, <2>4, <2>5, <2>6 DEF Take
<1>2. DoneElsewhere <=> [][X]_vars
  BY PTL DEF DoneElsewhere
<1> HIDE DEF X
<1> QED
  BY <1>1, <1>2, SessionAlways, PTL DEF Spec

(* The session moves to another cluster only to the one asked for last,    *)
(* and not after the person chose to stay (Model.asked, Model.stay).       *)
THEOREM ToTheLast == Spec => MovesToLast
<1> DEFINE X == model'.connection # model.connection =>
       model.connecting # NoCluster /\ model'.cluster = model.connecting
<1>1. SessionInv /\ [Next]_vars => [X]_vars
  <2> SUFFICES ASSUME SessionInv, Next, model'.connection # model.connection
               PROVE  model.connecting # NoCluster /\ model'.cluster = model.connecting
    BY DEF vars
  <2>1. model \in Model /\ Standing(model)
    BY DEF SessionInv, Standing
  <2>2. ~Person
    <3>1. \A view \in Views, ns \in Namespaces : ~Show(view, ns)
      BY <2>1, MovedToKeeps, StackedKeeps, EnteredKeeps DEF Show, Arrive, Enter, Free, Same
    <3>2. ~OpenDetail /\ ~Back
      BY <2>1, StackedKeeps, CameBackKeeps, EnteredKeeps
         DEF OpenDetail, Back, Arrive, Enter, Free, Same
    <3>3. \A ns \in Namespaces : ~SwitchNamespace(ns)
      BY <2>1, MovedToKeeps, EnteredKeeps DEF SwitchNamespace, Follow, Enter, Same
    <3>4. \A dc \in Datacenters \cup {Every} : ~SwitchDatacenter(dc)
      <4> SUFFICES ASSUME NEW dc \in Datacenters \cup {Every}, SwitchDatacenter(dc) PROVE FALSE
        OBVIOUS
      <4>1. Standing([model EXCEPT !.datacenter = dc])
            /\ [model EXCEPT !.datacenter = dc].connection = model.connection
        BY <2>1, NarrowedStands DEF SwitchDatacenter, Same
      <4> QED
        BY <4>1, EnteredKeeps DEF SwitchDatacenter, Follow, Enter
    <3>5. \A dc \in Datacenters \cup {Every} : ~NarrowTo(dc)
      <4> SUFFICES ASSUME NEW dc \in Datacenters \cup {Every}, NarrowTo(dc) PROVE FALSE
        OBVIOUS
      <4> DEFINE m == [model EXCEPT !.datacenter = dc]
      <4>1. /\ model.known # Nothing /\ model.question = NoQuestion
            /\ model.history # <<>> /\ Arrive(CameBack(m))
        BY DEF NarrowTo, Free
      <4>2. Standing(m) /\ Same(model, m) /\ m.history = model.history
        BY <2>1, <4>1, NarrowedStands
      <4> HIDE DEF m
      <4>3. Standing(CameBack(m)) /\ CameBack(m).connection = model.connection
        BY <4>1, <4>2, CameBackKeeps DEF Same
      <4> QED
        BY <4>1, <4>3, EnteredKeeps DEF Arrive, Enter
    <3>6. \A region \in Regions : ~SwitchRegion(region)
      BY ZenonT(60), <2>1 DEF SwitchRegion, RegionForgotten, Entered, Model
    <3>7. \A cluster \in Clusters : ~SwitchCluster(cluster)
      BY <2>1 DEF SwitchCluster, Model
    <3>8. ~MarkRow /\ ~Ask /\ ~Confirm
      BY <2>1 DEF MarkRow, Ask, Confirm, Model
    <3> QED
      BY <3>1, <3>2, <3>3, <3>4, <3>5, <3>6, <3>7, <3>8 DEF Person
  <2>3. PICK w \in out : TakeConnect(w)
    <3>1. ~Refresh /\ \A w \in out : ~Fails(w)
      BY DEF Refresh, Fails
    <3>2. \A w \in out : ~TakeRows(w) /\ ~TakeDatacenters(w) /\ ~TakeDone(w)
      BY <2>1 DEF TakeRows, TakeDatacenters, TakeDone, KeepDatacenters, Done, DoneLate, Model
    <3> QED
      BY <2>2, <3>1, <3>2 DEF Next, Take
  <2>4. Asked(w) /\ w.cluster = model.connecting /\ w.cluster \in Clusters
    <3>1. Asked(w) /\ w.kind = "connect"
      BY <2>3 DEF TakeConnect
    <3> QED
      BY <3>1 DEF Asked, SessionInv, Waiting, ConnectFits, Message
  <2>5. model'.cluster = w.cluster
    BY ZenonT(60), <2>1, <2>3 DEF TakeConnect, RegionForgotten, Restored, Entered, Model
  <2> QED
    BY <2>4, <2>5, SessionAssumption
<1>2. MovesToLast <=> [][X]_vars
  BY PTL DEF MovesToLast
<1> HIDE DEF X
<1> QED
  BY <1>1, <1>2, SessionAlways, PTL DEF Spec

-----------------------------------------------------------------------------
(* The readings of the rows, of a page and of the header.                  *)

(* A bag with one copy of a message more, and with one fewer.              *)
LEMMA WithIs ==
  ASSUME NEW bag, IsABag(bag), NEW m
  PROVE  /\ IsABag(With(bag, m))
         /\ BagToSet(With(bag, m)) = BagToSet(bag) \cup {m}
         /\ Copies(m, With(bag, m)) = Copies(m, bag) + 1
         /\ \A x : x # m => Copies(x, With(bag, m)) = Copies(x, bag)
  BY DEF With, IsABag, BagToSet, SetToBag, BagIn, Copies, (+)

LEMMA WithoutIs ==
  ASSUME NEW bag, IsABag(bag), NEW m, BagIn(m, bag)
  PROVE  /\ IsABag(Without(bag, m))
         /\ BagToSet(Without(bag, m)) \subseteq BagToSet(bag)
         /\ BagToSet(bag) \subseteq BagToSet(Without(bag, m)) \cup {m}
         /\ Copies(m, Without(bag, m)) = Copies(m, bag) - 1
         /\ \A x : x # m => Copies(x, Without(bag, m)) = Copies(x, bag)
  BY DEF Without, IsABag, BagToSet, SetToBag, BagIn, Copies, (-)

LEMMA CopiesAre ==
  ASSUME NEW bag, IsABag(bag), NEW m
  PROVE  Copies(m, bag) \in Nat /\ (BagIn(m, bag) <=> Copies(m, bag) > 0)
  BY DEF IsABag, BagToSet, BagIn, Copies

(* How many messages of a kind are out for an ask.                         *)
Count(bag, kind, of) == Copies([kind |-> kind, of |-> of], bag)

OfAScreen == {"rows", "rowsTimer", "own", "ownTimer"}
ReadPage == [kind : Kinds, rows : BOOLEAN, runs : BOOLEAN, due : BOOLEAN]
Beneath == {<<>>} \cup {<<pg>> : pg \in ReadPage}

(* What is out for a screen is of the ask of now or of one before it.      *)
AwaitedOK(bag, of) ==
  IsABag(bag) /\ \A m \in BagToSet(bag) : m.kind \in OfAScreen => m.of \in 0 .. of

ReadingsInv ==
  /\ asked \in Nat /\ page \in ReadPage /\ rowsDue \in BOOLEAN
  /\ under \in Beneath
  /\ header.due \in BOOLEAN /\ header = [due |-> header.due, shown |-> header.shown, failed |-> header.failed]
  /\ connection \in Nat
  /\ AwaitedOK(awaited, asked)
  /\ ReadingsGoOn

LEMMA AwaitsMore ==
  ASSUME NEW bag, NEW of, AwaitedOK(bag, of), NEW m, m.kind \in OfAScreen => m.of \in 0 .. of
  PROVE  AwaitedOK(With(bag, m), of)
  BY WithIs DEF AwaitedOK

LEMMA AwaitsFewer ==
  ASSUME NEW bag, NEW of, AwaitedOK(bag, of), NEW m, BagIn(m, bag)
  PROVE  AwaitedOK(Without(bag, m), of)
  BY WithoutIs DEF AwaitedOK

(* Nothing is out for an ask that is still to come.                        *)
LEMMA AwaitsLater ==
  ASSUME NEW bag, NEW of \in Nat, AwaitedOK(bag, of)
  PROVE  /\ AwaitedOK(bag, of + 1)
         /\ \A kind \in OfAScreen : Count(bag, kind, of + 1) = 0
<1>1. AwaitedOK(bag, of + 1)
  BY DEF AwaitedOK
<1>2. ASSUME NEW kind \in OfAScreen
      PROVE  Count(bag, kind, of + 1) = 0
  <2>1. [kind |-> kind, of |-> of + 1] \notin BagToSet(bag)
    BY DEF AwaitedOK
  <2> QED
    BY <2>1 DEF Count, Copies, BagIn
<1> QED
  BY <1>1, <1>2

(* What is out for the screens, and what is out for the header.            *)
SameOfScreens(bag, other) ==
  \A kind \in OfAScreen : \A of :
    Count(bag, kind, of) = Count(other, kind, of)
SameOfHeader(bag, other) ==
  /\ Copies(ClusterTimer, bag) = Copies(ClusterTimer, other)
  /\ \A m : m.kind = "cluster" => (m \in BagToSet(bag) <=> m \in BagToSet(other))

LEMMA ScreensApart ==
  ASSUME NEW bag, IsABag(bag), NEW m, m.kind \in OfAScreen
  PROVE  /\ SameOfHeader(bag, With(bag, m))
         /\ BagIn(m, bag) => SameOfHeader(bag, Without(bag, m))
<1>1. m # ClusterTimer /\ m.kind # "cluster"
  BY DEF ClusterTimer, OfAScreen
<1> QED
  BY <1>1, WithIs, WithoutIs DEF SameOfHeader

(* Which kinds a message of the screen on top counts among.                *)
LEMMA CountsMore ==
  ASSUME NEW bag, IsABag(bag), NEW of, NEW kind \in OfAScreen, NEW other \in OfAScreen
  PROVE  Count(With(bag, [kind |-> kind, of |-> of]), other, of)
           = Count(bag, other, of) + (IF other = kind THEN 1 ELSE 0)
<1>1. other # kind => [kind |-> other, of |-> of] # [kind |-> kind, of |-> of]
  OBVIOUS
<1>2. Count(bag, other, of) \in Nat
  BY CopiesAre DEF Count
<1> QED
  BY <1>1, <1>2, WithIs DEF Count

LEMMA CountsFewer ==
  ASSUME NEW bag, IsABag(bag), NEW of, NEW kind \in OfAScreen, NEW other \in OfAScreen,
         BagIn([kind |-> kind, of |-> of], bag)
  PROVE  Count(Without(bag, [kind |-> kind, of |-> of]), other, of)
           = Count(bag, other, of) - (IF other = kind THEN 1 ELSE 0)
<1>1. other # kind => [kind |-> other, of |-> of] # [kind |-> kind, of |-> of]
  OBVIOUS
<1>2. Count(bag, other, of) \in Nat
  BY CopiesAre DEF Count
<1> QED
  BY <1>1, <1>2, WithoutIs DEF Count

LEMMA HeaderApart ==
  ASSUME NEW bag, IsABag(bag), NEW m, m.kind \notin OfAScreen
  PROVE  /\ SameOfScreens(bag, With(bag, m))
         /\ BagIn(m, bag) => SameOfScreens(bag, Without(bag, m))
<1>1. \A kind \in OfAScreen : \A of : [kind |-> kind, of |-> of] # m
  OBVIOUS
<1> QED
  BY <1>1, WithIs, WithoutIs DEF SameOfScreens, Count

LEMMA ChainsAre ==
  /\ OneChainEach <=>
       /\ Count(awaited, "rows", asked) + Count(awaited, "rowsTimer", asked)
            = IF rowsDue THEN 1 ELSE 0
       /\ Count(awaited, "own", asked) + Count(awaited, "ownTimer", asked)
            = IF page.due THEN 1 ELSE 0
  /\ OneChainEach' <=>
       /\ Count(awaited', "rows", asked') + Count(awaited', "rowsTimer", asked')
            = IF rowsDue' THEN 1 ELSE 0
       /\ Count(awaited', "own", asked') + Count(awaited', "ownTimer", asked')
            = IF page'.due THEN 1 ELSE 0
  BY DEF OneChainEach, OutOf, Label, Count

LEMMA HeaderKept ==
  ASSUME HeaderGoesOn, SameOfHeader(awaited, awaited'), UNCHANGED headerVars
  PROVE  HeaderGoesOn'
  BY DEF HeaderGoesOn, SameOfHeader, headerVars

LEMMA ChainsKept ==
  ASSUME OneChainEach, SameOfScreens(awaited, awaited'), asked' = asked, rowsDue' = rowsDue, page'.due = page.due
  PROVE  OneChainEach'
  BY ChainsAre DEF SameOfScreens, OfAScreen

(* A screen that is entered has nothing out, and knows it.                 *)
LEMMA EntersAfresh ==
  ASSUME ReadingsInv, NEW pg \in ReadPage, NEW beneath, EnterScreen(pg, beneath),
         SameOfScreens(awaited, awaited')
  PROVE  asked' \in Nat /\ page' \in ReadPage /\ rowsDue' \in BOOLEAN /\ OneChainEach'
<1>1. /\ asked' = asked + 1 /\ page' = [pg EXCEPT !.due = FALSE] /\ rowsDue' = FALSE
      /\ asked \in Nat /\ AwaitedOK(awaited, asked)
  BY DEF EnterScreen, Restarted, ReadingsInv
<1>2. \A kind \in OfAScreen : Count(awaited', kind, asked') = 0
  BY <1>1, AwaitsLater DEF SameOfScreens
<1>3. page' \in ReadPage /\ page'.due = FALSE
  BY <1>1 DEF ReadPage
<1>4. OneChainEach'
  <2>1. \A kind \in {"rows", "rowsTimer", "own", "ownTimer"} : Count(awaited', kind, asked') = 0
    BY <1>2 DEF OfAScreen
  <2> QED
    BY <1>1, <1>3, <2>1, ChainsAre
<1>5. asked' \in Nat /\ rowsDue' \in BOOLEAN
  <2>1. asked' \in Nat
    BY <1>1
  <2>2. rowsDue' \in BOOLEAN
    BY <1>1, Zenon
  <2> QED
    BY <2>1, <2>2
<1> QED
  BY <1>3, <1>4, <1>5, Zenon

LEMMA ListAnsweredStep == ReadingsInv /\ ListAnswered => ReadingsInv'
<1> SUFFICES ASSUME ReadingsInv, ListAnswered PROVE ReadingsInv'
  OBVIOUS
<1>1. /\ asked \in Nat /\ page \in ReadPage /\ rowsDue \in BOOLEAN
      /\ AwaitedOK(awaited, asked) /\ IsABag(awaited) /\ OneChainEach /\ HeaderGoesOn
  BY DEF ReadingsInv, AwaitedOK, ReadingsGoOn
<1>2. UNCHANGED <<asked, under>> /\ UNCHANGED headerVars
  BY DEF ListAnswered
<1>3. PICK rows \in BOOLEAN, runs \in BOOLEAN :
        LET pg == [page EXCEPT !.rows = rows, !.runs = runs]
            bag == IF StartsOwn(pg) THEN With(awaited, Label("own")) ELSE awaited
        IN  /\ page' = [pg EXCEPT !.due = @ \/ StartsOwn(pg)]
            /\ UsageOnce(pg, bag)
  BY ZenonT(60) DEF ListAnswered
<1>4. PICK pg : pg = [page EXCEPT !.rows = rows, !.runs = runs]
  OBVIOUS
<1>5. pg \in ReadPage /\ pg.due = page.due
  BY <1>1, <1>4 DEF ReadPage
<1>6. PICK own \in BOOLEAN : own <=> StartsOwn(pg)
  OBVIOUS
<1>7. PICK bag : bag = IF own THEN With(awaited, [kind |-> "own", of |-> asked]) ELSE awaited
  OBVIOUS
<1>8. page' = [pg EXCEPT !.due = @ \/ own] /\ UsageOnce(pg, bag) /\ (own => ~pg.due)
  BY <1>3, <1>4, <1>6, <1>7 DEF Label, StartsOwn
<1>9. page' \in ReadPage /\ (page'.due <=> page.due \/ own) /\ (own => ~page.due)
  BY <1>5, <1>8 DEF ReadPage
<1>10. {"rows", "rowsTimer", "own", "ownTimer"} \subseteq OfAScreen
  BY DEF OfAScreen
<1>11. /\ AwaitedOK(bag, asked) /\ IsABag(bag) /\ SameOfHeader(awaited, bag)
       /\ Count(bag, "own", asked) = Count(awaited, "own", asked) + (IF own THEN 1 ELSE 0)
       /\ \A kind \in {"rows", "rowsTimer", "ownTimer"} :
            Count(bag, kind, asked) = Count(awaited, kind, asked)
  <2>1. CASE own
    <3>1. bag = With(awaited, [kind |-> "own", of |-> asked])
      BY <1>7, <2>1
    <3>2. SameOfHeader(awaited, bag)
      BY <1>1, <1>10, <3>1, ScreensApart
    <3>3. AwaitedOK(bag, asked)
      BY <1>1, <3>1, AwaitsMore
    <3>4. \A other \in OfAScreen :
            Count(bag, other, asked) = Count(awaited, other, asked) + (IF other = "own" THEN 1 ELSE 0)
      BY <1>1, <1>10, <3>1, CountsMore
    <3>5. \A other \in OfAScreen : Count(awaited, other, asked) \in Nat
      BY <1>1, CopiesAre DEF Count
    <3>6. Count(bag, "own", asked) = Count(awaited, "own", asked) + (IF own THEN 1 ELSE 0)
      BY <1>10, <2>1, <3>4
    <3>7. \A kind \in {"rows", "rowsTimer", "ownTimer"} :
            Count(bag, kind, asked) = Count(awaited, kind, asked)
      BY <1>10, <3>4, <3>5
    <3> QED
      BY <3>2, <3>3, <3>6, <3>7 DEF AwaitedOK
  <2>2. CASE ~own
    <3>1. bag = awaited
      BY <1>7, <2>2
    <3>2. Count(awaited, "own", asked) \in Nat
      BY <1>1, CopiesAre DEF Count
    <3> QED
      BY <1>1, <2>2, <3>1, <3>2 DEF SameOfHeader
  <2> QED
    BY <2>1, <2>2
<1>12. /\ rowsDue' \in BOOLEAN /\ AwaitedOK(awaited', asked) /\ SameOfHeader(bag, awaited')
       /\ Count(awaited', "rows", asked)
            = Count(bag, "rows", asked) + (IF ~rowsDue /\ pg.rows THEN 1 ELSE 0)
       /\ \A kind \in {"own", "rowsTimer", "ownTimer"} :
            Count(awaited', kind, asked) = Count(bag, kind, asked)
       /\ rowsDue' <=> rowsDue \/ pg.rows
  <2>1. CASE ~rowsDue /\ pg.rows
    <3>1. awaited' = With(bag, [kind |-> "rows", of |-> asked]) /\ rowsDue' = TRUE
      BY <1>5, <1>8, <2>1 DEF UsageOnce, ReadRows, Label, ReadPage
    <3>2. SameOfHeader(bag, awaited')
      BY <1>10, <1>11, <3>1, ScreensApart
    <3>3. AwaitedOK(awaited', asked)
      BY <1>1, <1>11, <3>1, AwaitsMore
    <3>4. \A other \in OfAScreen :
            Count(awaited', other, asked) = Count(bag, other, asked) + (IF other = "rows" THEN 1 ELSE 0)
      BY <1>10, <1>11, <3>1, CountsMore
    <3>5. \A other \in OfAScreen : Count(bag, other, asked) \in Nat
      BY <1>11, CopiesAre DEF Count
    <3>6. Count(awaited', "rows", asked)
            = Count(bag, "rows", asked) + (IF ~rowsDue /\ pg.rows THEN 1 ELSE 0)
      BY <1>10, <2>1, <3>4
    <3>7. \A kind \in {"own", "rowsTimer", "ownTimer"} :
            Count(awaited', kind, asked) = Count(bag, kind, asked)
      BY <1>10, <3>4, <3>5
    <3>8. rowsDue' \in BOOLEAN /\ (rowsDue' <=> rowsDue \/ pg.rows)
      BY <2>1, <3>1, Zenon
    <3> QED
      BY <3>2, <3>3, <3>6, <3>7, <3>8
  <2>2. CASE rowsDue \/ ~pg.rows
    <3>1. awaited' = bag /\ rowsDue' = rowsDue
      BY <1>1, <1>5, <1>8, <2>2 DEF UsageOnce, ReadRows, ReadPage
    <3>2. Count(bag, "rows", asked) \in Nat
      BY <1>11, CopiesAre DEF Count
    <3>3. Count(awaited', "rows", asked)
            = Count(bag, "rows", asked) + (IF ~rowsDue /\ pg.rows THEN 1 ELSE 0)
      BY <2>2, <3>1, <3>2
    <3>4. rowsDue' \in BOOLEAN /\ (rowsDue' <=> rowsDue \/ pg.rows)
      BY <1>1, <2>2, <3>1, Zenon
    <3>5. /\ AwaitedOK(awaited', asked) /\ SameOfHeader(bag, awaited')
          /\ \A kind \in {"own", "rowsTimer", "ownTimer"} :
               Count(awaited', kind, asked) = Count(bag, kind, asked)
      BY <1>11, <3>1 DEF SameOfHeader
    <3> QED
      BY <3>3, <3>4, <3>5
  <2> QED
    BY <2>1, <2>2
<1>13. OneChainEach'
  <2>1. /\ Count(awaited, "rows", asked) \in Nat /\ Count(awaited, "rowsTimer", asked) \in Nat
        /\ Count(awaited, "own", asked) \in Nat /\ Count(awaited, "ownTimer", asked) \in Nat
    BY <1>1, CopiesAre DEF Count
  <2>2. Count(awaited', "rows", asked') + Count(awaited', "rowsTimer", asked') = IF rowsDue' THEN 1 ELSE 0
    <3>1. Count(awaited, "rows", asked) + Count(awaited, "rowsTimer", asked) = IF rowsDue THEN 1 ELSE 0
      BY <1>1, ChainsAre
    <3>2. /\ Count(awaited', "rowsTimer", asked) = Count(awaited, "rowsTimer", asked)
          /\ Count(awaited', "rows", asked)
               = Count(awaited, "rows", asked) + (IF ~rowsDue /\ pg.rows THEN 1 ELSE 0)
      BY <1>11, <1>12
    <3>3. asked' = asked /\ (rowsDue' <=> rowsDue \/ pg.rows)
      BY <1>2, <1>12
    <3> QED
      BY <2>1, <3>1, <3>2, <3>3
  <2>3. Count(awaited', "own", asked') + Count(awaited', "ownTimer", asked') = IF page'.due THEN 1 ELSE 0
    <3>1. Count(awaited, "own", asked) + Count(awaited, "ownTimer", asked) = IF page.due THEN 1 ELSE 0
      BY <1>1, ChainsAre
    <3>2. /\ Count(awaited', "ownTimer", asked) = Count(awaited, "ownTimer", asked)
          /\ Count(awaited', "own", asked) = Count(awaited, "own", asked) + (IF own THEN 1 ELSE 0)
      BY <1>11, <1>12
    <3> QED
      BY <1>2, <1>9, <2>1, <3>1, <3>2
  <2> QED
    BY <2>2, <2>3, ChainsAre
<1>14. HeaderGoesOn'
  <2>1. SameOfHeader(awaited, awaited')
    BY <1>11, <1>12 DEF SameOfHeader
  <2> QED
    BY <1>1, <1>2, <2>1, HeaderKept
<1> QED
  BY <1>1, <1>2, <1>9, <1>12, <1>13, <1>14 DEF ReadingsInv, ReadingsGoOn, headerVars

(* A message of the screen on top that is taken, and one that takes its    *)
(* place.                                                                  *)
LEMMA Taken ==
  ASSUME AwaitedOK(awaited, asked), NEW kind \in OfAScreen, BagIn([kind |-> kind, of |-> asked], awaited),
         NEW next, next = Without(awaited, [kind |-> kind, of |-> asked])
  PROVE  /\ AwaitedOK(next, asked) /\ SameOfHeader(awaited, next)
         /\ \A other \in OfAScreen :
              Count(next, other, asked) = Count(awaited, other, asked) - (IF other = kind THEN 1 ELSE 0)
<1>1. IsABag(awaited)
  BY DEF AwaitedOK
<1> QED
  BY <1>1, AwaitsFewer, ScreensApart, CountsFewer

LEMMA TurnsInto ==
  ASSUME AwaitedOK(awaited, asked), asked \in Nat, NEW kind \in OfAScreen, NEW timer \in OfAScreen, kind # timer,
         BagIn([kind |-> kind, of |-> asked], awaited),
         NEW next, next = With(Without(awaited, [kind |-> kind, of |-> asked]), [kind |-> timer, of |-> asked])
  PROVE  /\ AwaitedOK(next, asked) /\ SameOfHeader(awaited, next)
         /\ \A other \in OfAScreen :
              Count(next, other, asked)
                = Count(awaited, other, asked) + (IF other = kind THEN -1 ELSE IF other = timer THEN 1 ELSE 0)
<1>1. PICK bag : bag = Without(awaited, [kind |-> kind, of |-> asked])
  OBVIOUS
<1>2. /\ AwaitedOK(bag, asked) /\ SameOfHeader(awaited, bag) /\ IsABag(bag)
      /\ \A other \in OfAScreen :
           Count(bag, other, asked) = Count(awaited, other, asked) - (IF other = kind THEN 1 ELSE 0)
  BY <1>1, Taken DEF AwaitedOK
<1>3. next = With(bag, [kind |-> timer, of |-> asked])
  BY <1>1
<1>4. AwaitedOK(next, asked)
  BY <1>2, <1>3, AwaitsMore
<1>5. SameOfHeader(awaited, next)
  <2>1. SameOfHeader(bag, next)
    BY <1>2, <1>3, ScreensApart
  <2> QED
    BY <1>2, <2>1 DEF SameOfHeader
<1>6. ASSUME NEW other \in OfAScreen
      PROVE  Count(next, other, asked)
               = Count(awaited, other, asked) + (IF other = kind THEN -1 ELSE IF other = timer THEN 1 ELSE 0)
  <2>1. Count(next, other, asked) = Count(bag, other, asked) + (IF other = timer THEN 1 ELSE 0)
    BY <1>2, <1>3, CountsMore
  <2>2. Count(awaited, other, asked) \in Nat
    BY CopiesAre DEF Count, AwaitedOK
  <2> QED
    BY <1>2, <2>1, <2>2
<1> QED
  BY <1>4, <1>5, <1>6

(* A screen that keeps its flags keeps its chains when a message of one    *)
(* becomes another of the same.                                            *)
LEMMA CountsAre ==
  ASSUME AwaitedOK(awaited, asked)
  PROVE  \A kind : Count(awaited, kind, asked) \in Nat
                   /\ (BagIn([kind |-> kind, of |-> asked], awaited) <=> Count(awaited, kind, asked) > 0)
  BY CopiesAre DEF Count, AwaitedOK

LEMMA AnsweredStep == ReadingsInv /\ (RowsRead \/ OwnRead) => ReadingsInv'
<1> SUFFICES ASSUME ReadingsInv, RowsRead \/ OwnRead PROVE ReadingsInv'
  OBVIOUS
<1>1. /\ asked \in Nat /\ AwaitedOK(awaited, asked) /\ OneChainEach /\ HeaderGoesOn
  BY DEF ReadingsInv, ReadingsGoOn
<1>2. PICK kind, timer :
        /\ <<kind, timer>> \in {<<"rows", "rowsTimer">>, <<"own", "ownTimer">>}
        /\ Answered(kind, timer)
  BY DEF RowsRead, OwnRead
<1>3. kind \in OfAScreen /\ timer \in OfAScreen /\ kind # timer
  BY <1>2 DEF OfAScreen
<1>4. /\ BagIn([kind |-> kind, of |-> asked], awaited)
      /\ awaited' = With(Without(awaited, [kind |-> kind, of |-> asked]), [kind |-> timer, of |-> asked])
      /\ UNCHANGED sessionVars /\ UNCHANGED headerVars
  BY <1>2 DEF Answered, Label
<1>5. /\ AwaitedOK(awaited', asked) /\ SameOfHeader(awaited, awaited')
      /\ \A other \in OfAScreen :
           Count(awaited', other, asked)
             = Count(awaited, other, asked) + (IF other = kind THEN -1 ELSE IF other = timer THEN 1 ELSE 0)
  BY <1>1, <1>3, <1>4, TurnsInto
<1>6. OneChainEach'
  <2>1. \A other \in {"rows", "rowsTimer", "own", "ownTimer"} :
          /\ Count(awaited, other, asked) \in Nat
          /\ Count(awaited', other, asked)
               = Count(awaited, other, asked) + (IF other = kind THEN -1 ELSE IF other = timer THEN 1 ELSE 0)
    BY <1>1, <1>5, CountsAre DEF OfAScreen
  <2>2. /\ Count(awaited', "rows", asked) + Count(awaited', "rowsTimer", asked)
             = Count(awaited, "rows", asked) + Count(awaited, "rowsTimer", asked)
        /\ Count(awaited', "own", asked) + Count(awaited', "ownTimer", asked)
             = Count(awaited, "own", asked) + Count(awaited, "ownTimer", asked)
    BY <1>2, <2>1
  <2> QED
    BY <1>1, <1>4, <2>2, ChainsAre DEF sessionVars
<1>7. HeaderGoesOn'
  BY <1>1, <1>4, <1>5, HeaderKept
<1> QED
  BY <1>4, <1>5, <1>6, <1>7 DEF ReadingsInv, ReadingsGoOn, sessionVars, headerVars

LEMMA TimerStep == ReadingsInv /\ (RowsTimer \/ OwnTimer) => ReadingsInv'
<1> SUFFICES ASSUME ReadingsInv, RowsTimer \/ OwnTimer PROVE ReadingsInv'
  OBVIOUS
<1>1. /\ asked \in Nat /\ AwaitedOK(awaited, asked) /\ OneChainEach /\ HeaderGoesOn
      /\ page \in ReadPage /\ rowsDue \in BOOLEAN
  BY DEF ReadingsInv, ReadingsGoOn
<1>2. /\ "rows" \in OfAScreen /\ "rowsTimer" \in OfAScreen
      /\ "own" \in OfAScreen /\ "ownTimer" \in OfAScreen
  BY DEF OfAScreen
<1>3. /\ UNCHANGED <<asked, under>> /\ UNCHANGED headerVars
  BY DEF RowsTimer, OwnTimer
<1>4. /\ Count(awaited, "rows", asked) + Count(awaited, "rowsTimer", asked) = IF rowsDue THEN 1 ELSE 0
      /\ Count(awaited, "own", asked) + Count(awaited, "ownTimer", asked) = IF page.due THEN 1 ELSE 0
  BY <1>1, ChainsAre
<1>5. /\ Count(awaited, "rows", asked) \in Nat /\ Count(awaited, "rowsTimer", asked) \in Nat
      /\ Count(awaited, "own", asked) \in Nat /\ Count(awaited, "ownTimer", asked) \in Nat
      /\ BagIn([kind |-> "rowsTimer", of |-> asked], awaited) => Count(awaited, "rowsTimer", asked) > 0
      /\ BagIn([kind |-> "ownTimer", of |-> asked], awaited) => Count(awaited, "ownTimer", asked) > 0
  BY <1>1, CountsAre
<1>6. CASE RowsTimer
  <2>1. /\ BagIn([kind |-> "rowsTimer", of |-> asked], awaited) /\ UNCHANGED page
        /\ ReadRows(page, Without(awaited, [kind |-> "rowsTimer", of |-> asked]))
    BY <1>6 DEF RowsTimer, Label
  <2>2. Count(awaited, "rowsTimer", asked) = 1 /\ Count(awaited, "rows", asked) = 0
    <3>1. Count(awaited, "rowsTimer", asked) > 0
      BY <1>5, <2>1
    <3> QED
      BY <1>4, <1>5, <3>1, SMTT(30)
  <2>3. /\ AwaitedOK(awaited', asked) /\ SameOfHeader(awaited, awaited')
        /\ Count(awaited', "rowsTimer", asked) = 0
        /\ Count(awaited', "rows", asked) = (IF page.rows THEN 1 ELSE 0)
        /\ Count(awaited', "own", asked) = Count(awaited, "own", asked)
        /\ Count(awaited', "ownTimer", asked) = Count(awaited, "ownTimer", asked)
    <3>1. CASE page.rows
      <4>1. awaited' = With(Without(awaited, [kind |-> "rowsTimer", of |-> asked]), [kind |-> "rows", of |-> asked])
        BY <2>1, <3>1 DEF ReadRows, Label
      <4>2. /\ AwaitedOK(awaited', asked) /\ SameOfHeader(awaited, awaited')
            /\ \A other \in OfAScreen :
                 Count(awaited', other, asked)
                   = Count(awaited, other, asked)
                       + (IF other = "rowsTimer" THEN -1 ELSE IF other = "rows" THEN 1 ELSE 0)
        BY <1>1, <1>2, <2>1, <4>1, TurnsInto
      <4>3. /\ Count(awaited', "rows", asked) = Count(awaited, "rows", asked) + 1
            /\ Count(awaited', "rowsTimer", asked) = Count(awaited, "rowsTimer", asked) - 1
            /\ Count(awaited', "own", asked) = Count(awaited, "own", asked)
            /\ Count(awaited', "ownTimer", asked) = Count(awaited, "ownTimer", asked)
        BY <1>2, <1>5, <4>2
      <4> QED
        BY <1>2, <1>5, <2>2, <3>1, <4>2, <4>3
    <3>2. CASE ~page.rows
      <4>1. awaited' = Without(awaited, [kind |-> "rowsTimer", of |-> asked])
        BY <2>1, <3>2 DEF ReadRows
      <4>2. /\ AwaitedOK(awaited', asked) /\ SameOfHeader(awaited, awaited')
            /\ \A other \in OfAScreen :
                 Count(awaited', other, asked)
                   = Count(awaited, other, asked) - (IF other = "rowsTimer" THEN 1 ELSE 0)
        BY <1>1, <1>2, <2>1, <4>1, Taken
      <4>3. /\ Count(awaited', "rows", asked) = Count(awaited, "rows", asked)
            /\ Count(awaited', "rowsTimer", asked) = Count(awaited, "rowsTimer", asked) - 1
            /\ Count(awaited', "own", asked) = Count(awaited, "own", asked)
            /\ Count(awaited', "ownTimer", asked) = Count(awaited, "ownTimer", asked)
        BY <1>2, <1>5, <4>2
      <4> QED
        BY <1>2, <1>5, <2>2, <3>2, <4>2, <4>3
    <3> QED
      BY <3>1, <3>2
  <2>4. rowsDue' = page.rows /\ page.rows \in BOOLEAN
    BY <1>1, <2>1 DEF ReadRows, ReadPage
  <2>5. OneChainEach'
    <3>1. Count(awaited', "rows", asked') + Count(awaited', "rowsTimer", asked') = IF rowsDue' THEN 1 ELSE 0
      BY <1>3, <2>3, <2>4
    <3> QED
      BY <1>3, <1>4, <2>1, <2>3, <3>1, ChainsAre
  <2>6. HeaderGoesOn'
    BY <1>1, <1>3, <2>3, HeaderKept
  <2> QED
    BY <1>3, <2>1, <2>3, <2>4, <2>5, <2>6 DEF ReadingsInv, ReadingsGoOn, headerVars
<1>7. CASE OwnTimer
  <2>1. /\ BagIn([kind |-> "ownTimer", of |-> asked], awaited) /\ UNCHANGED rowsDue
        /\ IF OwnEnds(page)
             THEN /\ page' = [page EXCEPT !.due = FALSE]
                  /\ awaited' = Without(awaited, [kind |-> "ownTimer", of |-> asked])
             ELSE /\ UNCHANGED page
                  /\ awaited' = With(Without(awaited, [kind |-> "ownTimer", of |-> asked]),
                                     [kind |-> "own", of |-> asked])
    BY <1>7 DEF OwnTimer, Label
  <2>2. Count(awaited, "ownTimer", asked) = 1 /\ Count(awaited, "own", asked) = 0 /\ page.due
    BY <1>4, <1>5, <2>1
  <2>3. /\ AwaitedOK(awaited', asked) /\ SameOfHeader(awaited, awaited')
        /\ Count(awaited', "own", asked) + Count(awaited', "ownTimer", asked) = IF page'.due THEN 1 ELSE 0
        /\ Count(awaited', "rows", asked) = Count(awaited, "rows", asked)
        /\ Count(awaited', "rowsTimer", asked) = Count(awaited, "rowsTimer", asked)
        /\ page' \in ReadPage
    <3>1. CASE OwnEnds(page)
      <4>1. page' \in ReadPage /\ ~page'.due
        BY <1>1, <2>1, <3>1 DEF ReadPage
      <4>2. /\ AwaitedOK(awaited', asked) /\ SameOfHeader(awaited, awaited')
            /\ \A other \in OfAScreen :
                 Count(awaited', other, asked)
                   = Count(awaited, other, asked) - (IF other = "ownTimer" THEN 1 ELSE 0)
        BY <1>1, <1>2, <2>1, <3>1, Taken
      <4>3. /\ Count(awaited', "rows", asked) = Count(awaited, "rows", asked)
            /\ Count(awaited', "rowsTimer", asked) = Count(awaited, "rowsTimer", asked)
            /\ Count(awaited', "own", asked) = Count(awaited, "own", asked)
            /\ Count(awaited', "ownTimer", asked) = Count(awaited, "ownTimer", asked) - 1
        BY <1>2, <1>5, <4>2
      <4> QED
        BY <1>2, <1>5, <2>2, <4>1, <4>2, <4>3
    <3>2. CASE ~OwnEnds(page)
      <4>1. /\ AwaitedOK(awaited', asked) /\ SameOfHeader(awaited, awaited')
            /\ \A other \in OfAScreen :
                 Count(awaited', other, asked)
                   = Count(awaited, other, asked)
                       + (IF other = "ownTimer" THEN -1 ELSE IF other = "own" THEN 1 ELSE 0)
        BY <1>1, <1>2, <2>1, <3>2, TurnsInto
      <4>2. /\ Count(awaited', "rows", asked) = Count(awaited, "rows", asked)
            /\ Count(awaited', "rowsTimer", asked) = Count(awaited, "rowsTimer", asked)
            /\ Count(awaited', "own", asked) = Count(awaited, "own", asked) + 1
            /\ Count(awaited', "ownTimer", asked) = Count(awaited, "ownTimer", asked) - 1
        BY <1>2, <1>5, <4>1
      <4>3. page' = page
        BY <2>1, <3>2
      <4> QED
        BY <1>1, <1>5, <2>2, <4>1, <4>2, <4>3
    <3> QED
      BY <3>1, <3>2
  <2>4. OneChainEach'
    BY <1>3, <1>4, <2>1, <2>3, ChainsAre
  <2>5. HeaderGoesOn'
    BY <1>1, <1>3, <2>3, HeaderKept
  <2> QED
    BY <1>1, <1>3, <2>1, <2>3, <2>4, <2>5 DEF ReadingsInv, ReadingsGoOn, headerVars
<1> QED
  BY <1>6, <1>7

LEMMA ScreenStep == ReadingsInv /\ (FilterRows \/ Open \/ LeaveScreen) => ReadingsInv'
<1> SUFFICES ASSUME ReadingsInv, FilterRows \/ Open \/ LeaveScreen PROVE ReadingsInv'
  OBVIOUS
<1>1. /\ asked \in Nat /\ AwaitedOK(awaited, asked) /\ OneChainEach /\ HeaderGoesOn /\ page \in ReadPage
  BY DEF ReadingsInv, ReadingsGoOn
<1>2. UNCHANGED <<awaited>> /\ UNCHANGED headerVars
  BY DEF FilterRows, Open, LeaveScreen
<1>3. SameOfScreens(awaited, awaited') /\ SameOfHeader(awaited, awaited')
  BY <1>2 DEF SameOfScreens, SameOfHeader
<1>4. HeaderGoesOn'
  BY <1>1, <1>2, <1>3, HeaderKept
<1>5. CASE FilterRows
  <2>1. page' \in ReadPage /\ page'.due = page.due /\ UNCHANGED <<asked, under, rowsDue>>
    BY <1>1, <1>5 DEF FilterRows, ReadPage
  <2>2. OneChainEach'
    BY <1>1, <1>3, <2>1, ChainsKept
  <2> QED
    BY <1>1, <1>2, <1>4, <2>1, <2>2 DEF ReadingsInv, ReadingsGoOn, headerVars
<1>6. CASE Open \/ LeaveScreen
  <2>1. PICK pg \in ReadPage, beneath \in Beneath : EnterScreen(pg, beneath)
    <3>1. CASE Open
      <4>1. PICK kind \in Kinds : EnterScreen(NewPage(kind), <<page>>)
        BY <3>1 DEF Open
      <4>2. NewPage(kind) \in ReadPage
        BY DEF NewPage, ReadPage
      <4> QED
        BY <1>1, <4>1, <4>2 DEF Beneath
    <3>2. CASE LeaveScreen
      <4>1. under[1] \in ReadPage /\ EnterScreen(under[1], <<>>)
        BY <3>2 DEF LeaveScreen, ReadingsInv, Beneath
      <4> QED
        BY <4>1 DEF Beneath
    <3> QED
      BY <1>6, <3>1, <3>2
  <2>2. asked' \in Nat /\ page' \in ReadPage /\ rowsDue' \in BOOLEAN /\ OneChainEach'
    BY <1>3, <2>1, EntersAfresh
  <2>3. asked' = asked + 1 /\ under' = beneath
    BY <2>1 DEF EnterScreen
  <2>4. AwaitedOK(awaited', asked')
    BY <1>1, <1>2, <2>3, AwaitsLater
  <2> QED
    BY <1>2, <1>4, <2>1, <2>2, <2>3, <2>4 DEF ReadingsInv, ReadingsGoOn, headerVars
<1> QED
  BY <1>5, <1>6

(* What is of an ask that is over, or of a cluster that was left, goes.    *)
LEMMA DroppedStep == ReadingsInv /\ (Dropped \/ ClusterDropped) => ReadingsInv'
<1> SUFFICES ASSUME ReadingsInv, Dropped \/ ClusterDropped PROVE ReadingsInv'
  OBVIOUS
<1>1. /\ asked \in Nat /\ AwaitedOK(awaited, asked) /\ IsABag(awaited) /\ OneChainEach /\ HeaderGoesOn
  BY DEF ReadingsInv, ReadingsGoOn, AwaitedOK
<1>2. UNCHANGED sessionVars /\ UNCHANGED headerVars
  BY DEF Dropped, ClusterDropped
<1>3. PICK m \in BagToSet(awaited) :
        /\ \/ m.kind \in OfAScreen /\ m.of # asked
           \/ m.kind = "cluster" /\ m.of # connection
        /\ awaited' = Without(awaited, m)
  BY DEF Dropped, ClusterDropped, OfAScreen
<1>4. AwaitedOK(awaited', asked)
  BY <1>1, <1>3, AwaitsFewer DEF BagIn
<1>5. OneChainEach'
  <2>1. \A kind \in OfAScreen : [kind |-> kind, of |-> asked] # m
    BY <1>3 DEF OfAScreen
  <2>2. \A kind \in OfAScreen : Count(awaited', kind, asked) = Count(awaited, kind, asked)
    BY <1>1, <1>3, <2>1, WithoutIs DEF Count, BagIn
  <2>3. /\ Count(awaited', "rows", asked) = Count(awaited, "rows", asked)
        /\ Count(awaited', "rowsTimer", asked) = Count(awaited, "rowsTimer", asked)
        /\ Count(awaited', "own", asked) = Count(awaited, "own", asked)
        /\ Count(awaited', "ownTimer", asked) = Count(awaited, "ownTimer", asked)
    BY <2>2 DEF OfAScreen
  <2> QED
    BY <1>1, <1>2, <2>3, ChainsAre DEF sessionVars
<1>6. HeaderGoesOn'
  <2>1. m.kind # "clusterTimer"
    BY <1>3 DEF OfAScreen
  <2>2. ClusterTimer # m
    BY <2>1 DEF ClusterTimer
  <2>3. /\ Copies(ClusterTimer, awaited') = Copies(ClusterTimer, awaited)
        /\ BagToSet(awaited) \subseteq BagToSet(awaited') \cup {m}
    BY <1>1, <1>3, <2>2, WithoutIs DEF BagIn
  <2>4. \A x \in BagToSet(awaited) : x.kind = "cluster" /\ x.of = connection => x \in BagToSet(awaited')
    BY <1>3, <2>3 DEF OfAScreen
  <2> QED
    BY <1>1, <1>2, <2>3, <2>4 DEF HeaderGoesOn, headerVars
<1> QED
  BY <1>2, <1>4, <1>5, <1>6 DEF ReadingsInv, ReadingsGoOn, sessionVars, headerVars

LEMMA HeaderStep == ReadingsInv /\ (ClusterRead \/ ClusterTimerFires) => ReadingsInv'
<1> SUFFICES ASSUME ReadingsInv, ClusterRead \/ ClusterTimerFires PROVE ReadingsInv'
  OBVIOUS
<1>1. /\ asked \in Nat /\ AwaitedOK(awaited, asked) /\ IsABag(awaited) /\ OneChainEach /\ HeaderGoesOn
      /\ header.due \in BOOLEAN /\ connection \in Nat
      /\ header = [due |-> header.due, shown |-> header.shown, failed |-> header.failed]
  BY DEF ReadingsInv, ReadingsGoOn, AwaitedOK
<1>2. UNCHANGED sessionVars /\ UNCHANGED <<connection, place, moves>>
  BY DEF ClusterRead, ClusterTimerFires
<1>3. CASE ClusterRead
  <2>1. PICK m \in BagToSet(awaited) :
          /\ m.kind = "cluster" /\ m.of = connection
          /\ awaited' = SetClusterTimer(Without(awaited, m))
          /\ \E answers \in BOOLEAN :
               header' = CASE m.where # place -> [header EXCEPT !.due = TRUE]
                           [] m.where = place /\ answers -> [due |-> TRUE, shown |-> m.where, failed |-> FALSE]
                           [] OTHER -> [header EXCEPT !.due = TRUE, !.failed = TRUE]
    BY <1>3 DEF ClusterRead
  <2>2. /\ header'.due = TRUE /\ header'.shown \in {header.shown, place}
        /\ header' = [due |-> header'.due, shown |-> header'.shown, failed |-> header'.failed]
    <3>1. PICK answers \in BOOLEAN :
            header' = CASE m.where # place -> [header EXCEPT !.due = TRUE]
                        [] m.where = place /\ answers -> [due |-> TRUE, shown |-> m.where, failed |-> FALSE]
                        [] OTHER -> [header EXCEPT !.due = TRUE, !.failed = TRUE]
      BY <2>1
    <3>2. CASE m.where # place
      BY <1>1, <3>1, <3>2
    <3>3. CASE m.where = place /\ answers
      BY <3>1, <3>3
    <3>4. CASE m.where = place /\ ~answers
      BY <1>1, <3>1, <3>4
    <3> QED
      BY <3>2, <3>3, <3>4
  <2>3. PICK bag : bag = Without(awaited, m)
    OBVIOUS
  <2>4. m.kind \notin OfAScreen /\ m # ClusterTimer /\ ClusterTimer.kind \notin OfAScreen
    BY <2>1 DEF OfAScreen, ClusterTimer
  <2>5. /\ AwaitedOK(bag, asked) /\ IsABag(bag) /\ SameOfScreens(awaited, bag)
        /\ Copies(ClusterTimer, bag) = Copies(ClusterTimer, awaited)
    BY <1>1, <2>1, <2>3, <2>4, AwaitsFewer, HeaderApart, WithoutIs DEF BagIn
  <2>6. /\ AwaitedOK(awaited', asked) /\ SameOfScreens(awaited, awaited')
        /\ Copies(ClusterTimer, awaited') = 1
    <3>1. CASE header.due
      BY <1>1, <2>1, <2>3, <2>5, <3>1 DEF SetClusterTimer, HeaderGoesOn
    <3>2. CASE ~header.due
      <4>1. awaited' = With(bag, ClusterTimer)
        BY <2>1, <2>3, <3>2 DEF SetClusterTimer
      <4>2. AwaitedOK(awaited', asked) /\ SameOfScreens(bag, awaited')
        BY <2>4, <2>5, <4>1, AwaitsMore, HeaderApart
      <4>3. Copies(ClusterTimer, awaited') = Copies(ClusterTimer, bag) + 1
        BY <2>5, <4>1, WithIs
      <4>4. Copies(ClusterTimer, awaited) = 0
        BY <1>1, <3>2 DEF HeaderGoesOn
      <4>5. SameOfScreens(awaited, awaited')
        BY <2>5, <4>2 DEF SameOfScreens
      <4> QED
        BY <2>5, <4>2, <4>3, <4>4, <4>5
    <3> QED
      BY <1>1, <3>1, <3>2
  <2>7. HeaderGoesOn'
    BY <1>1, <1>2, <2>2, <2>6 DEF HeaderGoesOn
  <2>8. OneChainEach'
    BY <1>1, <1>2, <2>6, ChainsKept DEF sessionVars
  <2> QED
    BY <1>2, <2>2, <2>6, <2>7, <2>8 DEF ReadingsInv, ReadingsGoOn, sessionVars
<1>4. CASE ClusterTimerFires
  <2>1. /\ BagIn(ClusterTimer, awaited)
        /\ header' = [header EXCEPT !.due = FALSE]
        /\ awaited' = With(Without(awaited, ClusterTimer), OfCluster(connection, place))
    BY <1>4 DEF ClusterTimerFires
  <2>2. /\ header'.due = FALSE /\ header'.shown = header.shown
        /\ header' = [due |-> header'.due, shown |-> header'.shown, failed |-> header'.failed]
    BY <1>1, <2>1
  <2>3. PICK bag : bag = Without(awaited, ClusterTimer)
    OBVIOUS
  <2>4. PICK m : m = OfCluster(connection, place)
    OBVIOUS
  <2>5. /\ m.kind = "cluster" /\ m.of = connection /\ ClusterTimer.kind = "clusterTimer"
        /\ m.kind \notin OfAScreen /\ m # ClusterTimer /\ ClusterTimer.kind \notin OfAScreen
    BY <2>4 DEF OfAScreen, ClusterTimer, OfCluster
  <2>6. Copies(ClusterTimer, awaited) = 1
    BY <1>1, <2>1, CopiesAre DEF HeaderGoesOn
  <2>7. /\ AwaitedOK(bag, asked) /\ IsABag(bag) /\ SameOfScreens(awaited, bag)
        /\ Copies(ClusterTimer, bag) = 0
    <3>1. Copies(ClusterTimer, bag) = Copies(ClusterTimer, awaited) - 1
      BY <1>1, <2>1, <2>3, WithoutIs
    <3> QED
      BY <1>1, <2>1, <2>3, <2>5, <2>6, <3>1, AwaitsFewer, HeaderApart, WithoutIs
  <2>8. /\ AwaitedOK(awaited', asked) /\ SameOfScreens(bag, awaited')
        /\ Copies(ClusterTimer, awaited') = 0 /\ m \in BagToSet(awaited')
    BY <2>1, <2>3, <2>4, <2>5, <2>7, AwaitsMore, HeaderApart, WithIs
  <2>9. HeaderGoesOn'
    BY <1>1, <1>2, <2>2, <2>5, <2>8 DEF HeaderGoesOn
  <2>10. OneChainEach'
    <3>1. SameOfScreens(awaited, awaited')
      BY <2>7, <2>8 DEF SameOfScreens
    <3> QED
      BY <1>1, <1>2, <3>1, ChainsKept DEF sessionVars
  <2> QED
    BY <1>2, <2>2, <2>8, <2>9, <2>10 DEF ReadingsInv, ReadingsGoOn, sessionVars
<1> QED
  BY <1>3, <1>4

(* The session goes to another place: the header forgets what it shows,    *)
(* and reads there.                                                        *)
LEMMA MovedStep == ReadingsInv /\ (Move \/ Connect) => ReadingsInv'
<1> SUFFICES ASSUME ReadingsInv, Move \/ Connect PROVE ReadingsInv'
  OBVIOUS
<1>1. /\ asked \in Nat /\ AwaitedOK(awaited, asked) /\ IsABag(awaited) /\ OneChainEach /\ HeaderGoesOn
      /\ header.due \in BOOLEAN /\ connection \in Nat /\ page \in ReadPage
  BY DEF ReadingsInv, ReadingsGoOn, AwaitedOK
<1>2. /\ connection' \in Nat /\ header' = [due |-> header.due, shown |-> Nowhere, failed |-> FALSE]
      /\ awaited' = With(awaited, OfCluster(connection', place'))
  BY <1>1 DEF Move, Connect, ForgetCluster, NotShown
<1>3. PICK m : m = OfCluster(connection', place')
  OBVIOUS
<1>4. /\ m.kind = "cluster" /\ m.of = connection' /\ m.kind \notin OfAScreen /\ m # ClusterTimer
  BY <1>3 DEF OfAScreen, ClusterTimer, OfCluster
<1>5. /\ AwaitedOK(awaited', asked) /\ SameOfScreens(awaited, awaited')
      /\ Copies(ClusterTimer, awaited') = Copies(ClusterTimer, awaited) /\ m \in BagToSet(awaited')
  BY <1>1, <1>2, <1>3, <1>4, AwaitsMore, HeaderApart, WithIs
<1>6. HeaderGoesOn'
  BY <1>1, <1>2, <1>4, <1>5 DEF HeaderGoesOn
<1>7. CASE UNCHANGED sessionVars
  <2>1. OneChainEach'
    BY <1>1, <1>5, <1>7, ChainsKept DEF sessionVars
  <2> QED
    BY <1>1, <1>2, <1>5, <1>6, <1>7, <2>1 DEF ReadingsInv, ReadingsGoOn, sessionVars
<1>8. CASE ~UNCHANGED sessionVars
  <2>1. PICK pg \in ReadPage, beneath \in Beneath : EnterScreen(pg, beneath)
    <3>1. NewPage("list") \in ReadPage
      BY DEF NewPage, ReadPage, Kinds
    <3>2. under \in Beneath /\ <<>> \in Beneath
      BY DEF ReadingsInv, Beneath
    <3>3. EnterScreen(NewPage("list"), <<>>) \/ EnterScreen(page, under)
      BY <1>8 DEF Move, Connect
    <3> QED
      BY <1>1, <3>1, <3>2, <3>3
  <2>2. asked' \in Nat /\ page' \in ReadPage /\ rowsDue' \in BOOLEAN /\ OneChainEach'
    BY <1>5, <2>1, EntersAfresh
  <2>3. asked' = asked + 1 /\ under' = beneath
    BY <2>1 DEF EnterScreen
  <2>4. AwaitedOK(awaited', asked')
    BY <1>1, <1>5, <2>3, AwaitsLater
  <2> QED
    BY <1>1, <1>2, <1>6, <2>1, <2>2, <2>3, <2>4 DEF ReadingsInv, ReadingsGoOn
<1> QED
  BY <1>7, <1>8

LEMMA ReadingsStart == ReadingsInit => ReadingsInv
<1> SUFFICES ASSUME ReadingsInit PROVE ReadingsInv
  OBVIOUS
<1>1. /\ asked = 1 /\ under = <<>> /\ rowsDue = FALSE /\ header = NotShown /\ connection = 0
      /\ awaited = SetToBag({OfCluster(0, place)})
  BY DEF ReadingsInit
<1>2. page \in ReadPage /\ page.due = FALSE /\ under \in Beneath
  <2>1. PICK kind \in Kinds : page = NewPage(kind)
    BY DEF ReadingsInit
  <2> QED
    BY <1>1, <2>1 DEF NewPage, ReadPage, Beneath
<1>a. PICK m : m = OfCluster(0, place)
  OBVIOUS
<1>3. m = OfCluster(0, place) /\ m.kind = "cluster" /\ m.of = 0
  BY <1>a DEF OfCluster
<1>4. /\ IsABag(awaited) /\ BagToSet(awaited) = {m}
  BY <1>1, <1>3 DEF SetToBag, IsABag, BagToSet
<1>5. /\ ClusterTimer # m /\ \A kind \in OfAScreen : [kind |-> kind, of |-> asked] # m
  BY <1>3 DEF OfAScreen, ClusterTimer
<1>6. Copies(ClusterTimer, awaited) = 0 /\ \A kind \in OfAScreen : Count(awaited, kind, asked) = 0
  BY <1>4, <1>5 DEF Copies, Count, BagIn
<1>7. OneChainEach
  <2>1. /\ Count(awaited, "rows", asked) = 0 /\ Count(awaited, "rowsTimer", asked) = 0
        /\ Count(awaited, "own", asked) = 0 /\ Count(awaited, "ownTimer", asked) = 0
    BY <1>6 DEF OfAScreen
  <2> QED
    BY <1>1, <1>2, <2>1, ChainsAre
<1>8. header.due = FALSE /\ header.shown = Nowhere
      /\ header = [due |-> header.due, shown |-> header.shown, failed |-> header.failed]
  BY <1>1 DEF NotShown
<1>9. HeaderGoesOn
  BY <1>1, <1>3, <1>4, <1>6, <1>8 DEF HeaderGoesOn
<1>10. AwaitedOK(awaited, asked)
  BY <1>3, <1>4 DEF AwaitedOK, OfAScreen
<1> QED
  BY <1>1, <1>2, <1>7, <1>8, <1>9, <1>10 DEF ReadingsInv, ReadingsGoOn

(* For any places and however often screens are entered and the session    *)
(* moves, what a screen and the header believe of their chains is what is  *)
(* out: one timer or one read of each that is due, none of one that is not *)
(* (usageOnce, hostOnce, checksOnce, setClusterTimer, restart).            *)
THEOREM ChainsGoOn == ReadingsInit /\ [][ReadingsNext]_readingsVars => []ReadingsGoOn
<1>1. ReadingsInv /\ [ReadingsNext]_readingsVars => ReadingsInv'
  <2>1. ReadingsInv /\ ReadingsNext => ReadingsInv'
    BY ListAnsweredStep, AnsweredStep, TimerStep, ScreenStep, DroppedStep, HeaderStep, MovedStep
       DEF ReadingsNext
  <2>2. ReadingsInv /\ UNCHANGED readingsVars => ReadingsInv'
    <3> SUFFICES ASSUME ReadingsInv, UNCHANGED readingsVars PROVE ReadingsInv'
      OBVIOUS
    <3>1. OneChainEach' /\ HeaderGoesOn'
      BY DEF ReadingsInv, ReadingsGoOn, readingsVars, OneChainEach, OutOf, Label, HeaderGoesOn
    <3> QED
      BY <3>1 DEF ReadingsInv, ReadingsGoOn, readingsVars
  <2> QED
    BY <2>1, <2>2
<1>2. ReadingsInv => ReadingsGoOn
  BY DEF ReadingsInv
<1> QED
  BY <1>1, <1>2, ReadingsStart, PTL

-----------------------------------------------------------------------------
(* The status line.                                                        *)

(* The message on the line is the newest there was.                        *)
LineInv ==
  /\ said \in Nat /\ screens \in Nat /\ timers \subseteq 0 .. said
  /\ flash # Silent => flash.at = said

LEMMA ShowsIs ==
  ASSUME said \in Nat, NEW level, NEW held, NEW ofAction, NEW ofNote, Shows(level, held, ofAction, ofNote)
  PROVE  /\ said' = said + 1 /\ said' \in Nat /\ timers' = timers \cup {said'}
         /\ flash'.at = said' /\ flash'.level = level
  BY DEF Shows

LEMMA LineStep == LineInv /\ [NoteNext]_noteVars => LineInv'
<1> SUFFICES ASSUME LineInv, [NoteNext]_noteVars PROVE LineInv'
  OBVIOUS
<1>1. ASSUME NEW level, NEW held, NEW ofAction, NEW ofNote,
             Shows(level, held, ofAction, ofNote), screens' = screens
      PROVE  LineInv'
  <2>1. said' = said + 1 /\ said' \in Nat /\ timers' = timers \cup {said'} /\ flash'.at = said'
    BY <1>1, ShowsIs DEF LineInv
  <2>2. timers' \subseteq 0 .. said'
    BY <2>1 DEF LineInv
  <2> QED
    BY <1>1, <2>1, <2>2 DEF LineInv
<1>2. CASE MessageShown
  BY <1>1, <1>2 DEF MessageShown
<1>3. CASE ReadAnswered \/ ScreenEntered
  <2>1. flash' \in {flash, Silent} /\ timers' = timers /\ said' = said
    BY <1>3 DEF ReadAnswered, ScreenEntered, Forgotten
  <2>2. screens' \in Nat
    BY <1>3 DEF ReadAnswered, ScreenEntered, LineInv
  <2> QED
    BY <2>1, <2>2 DEF LineInv
<1>4. CASE \E at \in timers : TimeIsUp(at)
  <2>1. PICK at \in timers : TimeIsUp(at)
    BY <1>4
  <2>2. flash' \in {flash, Silent} /\ timers' \subseteq timers /\ UNCHANGED <<screens, said>>
    BY <2>1 DEF TimeIsUp, Cleared
  <2> QED
    BY <2>2 DEF LineInv
<1>5. CASE UNCHANGED lineVars
  BY <1>5 DEF lineVars, LineInv
<1>6. CASE \E m \in noteOut : TakeEvents(m)
  BY <1>1, <1>5, <1>6 DEF TakeEvents, SaysFailure, lineVars
<1>7. CASE \E m \in noteOut :
             \/ AsksIndex(m) \/ OpensFeed(m) \/ OpenFails(m) \/ FeedSends(m) \/ FeedEnds(m)
             \/ TakeOpened(m) \/ TakeEnded(m) \/ TakeAgain(m) \/ TakeStale(m)
  BY <1>5, <1>7 DEF AsksIndex, OpensFeed, OpenFails, FeedSends, FeedEnds, TakeOpened, TakeEnded, TakeAgain, TakeStale
<1>8. CASE Happens \/ Restart \/ \E f \in DOMAIN feeds : FeedDrops(f)
  BY <1>5, <1>8 DEF Happens, Restart, FeedDrops
<1>9. CASE UNCHANGED noteVars
  BY <1>5, <1>9 DEF noteVars, lineVars
<1> QED
  BY <1>2, <1>3, <1>4, <1>6, <1>7, <1>8, <1>9 DEF NoteNext

(* For any log of failures and however many messages, a message goes when  *)
(* its own time is up, or with another screen, or as the error of a read   *)
(* that was answered since (clearFlash, forget, enter).                    *)
THEOREM GoesInItsTime == NoteInit /\ [][NoteNext]_noteVars => MessageHasItsTime
<1> DEFINE X == flash # Silent /\ flash' = Silent /\ flash.at \in timers' =>
                  screens' # screens \/ (flash.level = "err" /\ ~flash.ofAction)
<1>1. NoteInit => LineInv
  BY NoteAssumption DEF NoteInit, LineInv
<1>2. LineInv /\ [NoteNext]_noteVars => [X]_noteVars
  <2> SUFFICES ASSUME LineInv, NoteNext, flash # Silent, flash' = Silent, flash.at \in timers'
               PROVE  screens' # screens \/ (flash.level = "err" /\ ~flash.ofAction)
    OBVIOUS
  <2>1. ASSUME NEW level, NEW held, NEW ofAction, NEW ofNote, Shows(level, held, ofAction, ofNote),
               level # "none"
        PROVE  FALSE
    BY <2>1, ShowsIs DEF LineInv, Silent
  <2>2. ~UNCHANGED lineVars
    BY DEF lineVars
  <2>3. ~MessageShown
    BY <2>1 DEF MessageShown
  <2>4. ASSUME NEW at \in timers, TimeIsUp(at) PROVE FALSE
    BY <2>4 DEF TimeIsUp, Cleared, LineInv
  <2>5. ASSUME NEW m \in noteOut, TakeEvents(m) PROVE FALSE
    BY <2>1, <2>2, <2>5 DEF TakeEvents, SaysFailure, lineVars
  <2>6. CASE ReadAnswered
    BY <2>6 DEF ReadAnswered, Forgotten
  <2>7. CASE ScreenEntered
    BY <2>7 DEF ScreenEntered, LineInv, NoteInit
  <2>8. ASSUME NEW m \in noteOut,
               \/ AsksIndex(m) \/ OpensFeed(m) \/ OpenFails(m) \/ FeedSends(m) \/ FeedEnds(m)
               \/ TakeOpened(m) \/ TakeEnded(m) \/ TakeAgain(m) \/ TakeStale(m)
        PROVE  FALSE
    BY <2>2, <2>8 DEF AsksIndex, OpensFeed, OpenFails, FeedSends, FeedEnds,
                      TakeOpened, TakeEnded, TakeAgain, TakeStale
  <2>9. ~Happens /\ ~Restart /\ ~\E f \in DOMAIN feeds : FeedDrops(f)
    BY <2>2 DEF Happens, Restart, FeedDrops
  <2> QED
    BY <2>3, <2>4, <2>5, <2>6, <2>7, <2>8, <2>9 DEF NoteNext
<1>3. MessageHasItsTime <=> [][X]_noteVars
  BY PTL DEF MessageHasItsTime
<1> HIDE DEF X
<1> QED
  BY <1>1, <1>2, <1>3, LineStep, PTL

-----------------------------------------------------------------------------
(* What follows the failures of the cluster.                               *)

(* A message that is of a stream, and one that is of the connection in use.*)
Carries(m) == m.kind \in {"wait", "events", "ended"} \/ (m.kind = "opened" /\ m.err = "none")
Follows(m, n) == IF m.kind \in {"open", "opened", "again"} THEN m.id = n.id ELSE m.feed = n.feed

NoteMessageOK(m, id, upto) ==
  /\ m.kind \in {"open", "opened", "again", "wait", "events", "ended"}
  /\ m.kind \in {"open", "opened", "again"} => m.id \in 0 .. id
  /\ m.kind = "open" => m = [kind |-> "open", id |-> m.id, from |-> m.from]
  /\ m.kind = "opened" => m.err \in {"none", "unanswered", "refused"}
  /\ Carries(m) => m.feed \in 1 .. upto

(* Every stream is held by one message, the note goes on in one way, and   *)
(* it does not read a stream whose opening it has not been told of.        *)
FollowInv ==
  /\ \E S : feeds \in Seq(S)
  /\ note.id \in Nat /\ note.feed \in 0 .. Len(feeds)
  /\ note = [id |-> note.id, feed |-> note.feed, failing |-> note.failing, heard |-> note.heard,
             from |-> note.from, taken |-> note.taken]
  /\ \A m \in noteOut : NoteMessageOK(m, note.id, Len(feeds))
  /\ \A m, n \in noteOut : Carries(m) /\ Carries(n) /\ m.feed = n.feed => m = n
  /\ \A m \in noteOut : m.kind = "opened" /\ m.err = "none" => m.feed # note.feed
  /\ \A m, n \in noteOut : Follows(m, note) /\ Follows(n, note) => m = n

(* What a step may do to what goes on.                                     *)
GoesOn ==
  \/ Cardinality(NoteFollowing') = 1
  \/ /\ NoteFollowing' = {}
     /\ \/ NoteFollowing = {}
        \/ \E m \in NoteFollowing : m.kind = "opened" /\ m.err = "refused"
        \/ \E m \in NoteFollowing : m.kind = "ended" /\ ~note.heard

LEMMA FollowingIs ==
  /\ NoteFollowing = {m \in noteOut : Follows(m, note)}
  /\ NoteFollowing' = {m \in noteOut' : Follows(m, note')}
  BY DEF NoteFollowing, Follows

LEMMA FeedsReplaced ==
  ASSUME NEW S, NEW seq \in Seq(S), NEW f \in DOMAIN seq, NEW r
  PROVE  [seq EXCEPT ![f] = r] \in Seq(S \cup {r}) /\ Len([seq EXCEPT ![f] = r]) = Len(seq)
  OBVIOUS

(* A message is replaced by one that follows what it followed, and holds   *)
(* the stream it held, if any.                                             *)
LEMMA Replaced ==
  ASSUME FollowInv, note' = note, Len(feeds') = Len(feeds), \E S : feeds' \in Seq(S),
         NEW m \in noteOut, NEW n, noteOut' = (noteOut \ {m}) \cup {n},
         NoteMessageOK(n, note.id, Len(feeds)), Follows(n, note) <=> Follows(m, note),
         Carries(n) => Carries(m) /\ n.feed = m.feed,
         n.kind = "opened" /\ n.err = "none" => n.feed # note.feed
  PROVE  FollowInv' /\ GoesOn
<1>1. ASSUME NEW x \in noteOut', NEW y \in noteOut', Carries(x), Carries(y), x.feed = y.feed PROVE x = y
  BY <1>1 DEF FollowInv
<1>2. ASSUME NEW x \in noteOut', NEW y \in noteOut', Follows(x, note), Follows(y, note) PROVE x = y
  BY <1>2 DEF FollowInv
<1>3. FollowInv'
  BY <1>1, <1>2 DEF FollowInv
<1>4. NoteFollowing' = {} => NoteFollowing = {}
  <2>1. Follows(m, note) => n \in NoteFollowing'
    BY FollowingIs
  <2>2. \A x \in noteOut : Follows(x, note) /\ x # m => x \in NoteFollowing'
    BY FollowingIs
  <2> QED
    BY <2>1, <2>2, FollowingIs
<1>5. NoteFollowing' # {} => Cardinality(NoteFollowing') = 1
  <2> SUFFICES ASSUME NEW x \in NoteFollowing' PROVE Cardinality(NoteFollowing') = 1
    OBVIOUS
  <2>1. NoteFollowing' = {x}
    BY <1>2, FollowingIs
  <2> QED
    BY <2>1, FS_Singleton
<1> QED
  BY <1>3, <1>4, <1>5 DEF GoesOn

(* A message is taken and nothing comes of it.                             *)
LEMMA TakenAway ==
  ASSUME FollowInv, note' = note, Len(feeds') = Len(feeds), \E S : feeds' \in Seq(S),
         NEW m \in noteOut, noteOut' = noteOut \ {m}
  PROVE  /\ FollowInv'
         /\ NoteFollowing' = NoteFollowing \ {m}
         /\ NoteFollowing' # {} => Cardinality(NoteFollowing') = 1
<1>1. FollowInv'
  BY DEF FollowInv
<1>2. NoteFollowing' = NoteFollowing \ {m}
  BY FollowingIs
<1>3. NoteFollowing' # {} => Cardinality(NoteFollowing') = 1
  <2> SUFFICES ASSUME NEW x \in NoteFollowing' PROVE Cardinality(NoteFollowing') = 1
    OBVIOUS
  <2>1. NoteFollowing' = {x}
    BY FollowingIs DEF FollowInv
  <2> QED
    BY <2>1, FS_Singleton
<1> QED
  BY <1>1, <1>2, <1>3

(* The note stays as it is.                                                *)
LEMMA NothingFollows ==
  ASSUME FollowInv, note' = note, noteOut' = noteOut, Len(feeds') = Len(feeds), \E S : feeds' \in Seq(S)
  PROVE  FollowInv' /\ GoesOn
<1>1. FollowInv'
  BY DEF FollowInv
<1>2. NoteFollowing' = NoteFollowing
  BY FollowingIs
<1>3. NoteFollowing # {} => Cardinality(NoteFollowing') = 1
  <2> SUFFICES ASSUME NEW x \in NoteFollowing PROVE Cardinality(NoteFollowing') = 1
    OBVIOUS
  <2>1. NoteFollowing' = {x}
    BY <1>2, FollowingIs DEF FollowInv
  <2> QED
    BY <2>1, FS_Singleton
<1> QED
  BY <1>1, <1>2, <1>3 DEF GoesOn

LEMMA ClosedKeeps ==
  ASSUME FollowInv, NEW f \in DOMAIN feeds, NEW is
  PROVE  /\ \E S : [feeds EXCEPT ![f].is = is] \in Seq(S)
         /\ Len([feeds EXCEPT ![f].is = is]) = Len(feeds)
<1>1. PICK S : feeds \in Seq(S)
  BY DEF FollowInv
<1>2. PICK r : r = [feeds[f] EXCEPT !.is = is]
  OBVIOUS
<1>3. [feeds EXCEPT ![f].is = is] = [feeds EXCEPT ![f] = r]
  BY <1>2
<1>4. [feeds EXCEPT ![f] = r] \in Seq(S \cup {r}) /\ Len([feeds EXCEPT ![f] = r]) = Len(feeds)
  BY <1>1, FeedsReplaced
<1> QED
  BY <1>3, <1>4

LEMMA StoppedKeeps ==
  ASSUME FollowInv
  PROVE  (\E S : Stopped \in Seq(S)) /\ Len(Stopped) = Len(feeds)
<1>1. note.feed # NoFeed => note.feed \in DOMAIN feeds
  BY DEF FollowInv, NoFeed
<1> QED
  BY <1>1, ClosedKeeps DEF FollowInv, Stopped, Closed

LEMMA RequestStep ==
  ASSUME FollowInv, NEW m \in noteOut, AsksIndex(m) \/ OpensFeed(m) \/ OpenFails(m)
  PROVE  FollowInv' /\ GoesOn
<1>1. NoteMessageOK(m, note.id, Len(feeds)) /\ note' = note
  BY DEF FollowInv, AsksIndex, OpensFeed, OpenFails
<1>2. CASE AsksIndex(m)
  <2>1. PICK n : n = [m EXCEPT !.from = NewestIndex + 1]
    OBVIOUS
  <2>2. noteOut' = (noteOut \ {m}) \cup {n} /\ feeds' = feeds /\ m.kind = "open"
    BY <1>2, <2>1 DEF AsksIndex, Swap, clusterVars
  <2>3. n.kind = "open" /\ n.id = m.id /\ n = [kind |-> "open", id |-> n.id, from |-> n.from]
    BY <1>1, <2>1, <2>2 DEF NoteMessageOK
  <2>4. ~Carries(n) /\ (Follows(n, note) <=> Follows(m, note)) /\ NoteMessageOK(n, note.id, Len(feeds))
    BY <1>1, <2>2, <2>3 DEF Carries, Follows, NoteMessageOK
  <2>5. Len(feeds') = Len(feeds) /\ \E S : feeds' \in Seq(S)
    BY <2>2 DEF FollowInv
  <2> QED
    BY <1>1, <2>2, <2>3, <2>4, <2>5, Replaced
<1>3. CASE OpenFails(m)
  <2>1. PICK err \in {"unanswered", "refused"} :
          Swap(m, {[kind |-> "opened", id |-> m.id, from |-> 0, feed |-> NoFeed, err |-> err]})
    BY <1>3 DEF OpenFails
  <2>2. PICK n : n = [kind |-> "opened", id |-> m.id, from |-> 0, feed |-> NoFeed, err |-> err]
    OBVIOUS
  <2>3. noteOut' = (noteOut \ {m}) \cup {n} /\ feeds' = feeds /\ m.kind = "open"
    BY <1>3, <2>1, <2>2 DEF OpenFails, Swap
  <2>4. n.kind = "opened" /\ n.id = m.id /\ n.err \in {"unanswered", "refused"}
    BY <2>2
  <2>5. ~Carries(n) /\ (Follows(n, note) <=> Follows(m, note)) /\ NoteMessageOK(n, note.id, Len(feeds))
    BY <1>1, <2>3, <2>4 DEF Carries, Follows, NoteMessageOK
  <2>6. Len(feeds') = Len(feeds) /\ \E S : feeds' \in Seq(S)
    BY <2>3 DEF FollowInv
  <2> QED
    BY <1>1, <2>3, <2>4, <2>5, <2>6, Replaced
<1>4. CASE OpensFeed(m)
  <2>1. PICK n : n = [kind |-> "opened", id |-> m.id, from |-> m.from, feed |-> Len(feeds'), err |-> "none"]
    OBVIOUS
  <2>2. PICK r : r = [at |-> Cardinality({i \in DOMAIN Events : Events[i].index < m.from}), is |-> "open"]
    OBVIOUS
  <2>3. noteOut' = (noteOut \ {m}) \cup {n} /\ feeds' = Append(feeds, r) /\ m.kind = "open"
    BY <1>4, <2>1, <2>2 DEF OpensFeed, Swap
  <2>4. (\E S : feeds' \in Seq(S)) /\ Len(feeds') = Len(feeds) + 1 /\ Len(feeds) \in Nat
    <3>1. PICK S : feeds \in Seq(S)
      BY DEF FollowInv
    <3>2. feeds \in Seq(S \cup {r})
      BY <3>1
    <3>3. feeds' \in Seq(S \cup {r}) /\ Len(feeds') = Len(feeds) + 1 /\ Len(feeds) \in Nat
      BY <2>3, <3>2
    <3> QED
      BY <3>3
  <2>5. n.kind = "opened" /\ n.id = m.id /\ n.err = "none" /\ n.feed = Len(feeds) + 1
    BY <2>1, <2>4
  <2>6. Follows(n, note) <=> Follows(m, note)
    BY <2>3, <2>5 DEF Follows
  <2>7. \A x \in noteOut' : NoteMessageOK(x, note.id, Len(feeds'))
    <3>1. NoteMessageOK(n, note.id, Len(feeds'))
      BY <1>1, <2>3, <2>4, <2>5 DEF NoteMessageOK, Carries
    <3>2. ASSUME NEW x \in noteOut PROVE NoteMessageOK(x, note.id, Len(feeds'))
      BY <2>4 DEF NoteMessageOK, FollowInv
    <3> QED
      BY <2>3, <3>1, <3>2
  <2>8. \A x \in noteOut : Carries(x) => x.feed # n.feed
    BY <2>4, <2>5 DEF FollowInv, NoteMessageOK
  <2>9. ASSUME NEW x \in noteOut', NEW y \in noteOut', Carries(x), Carries(y), x.feed = y.feed PROVE x = y
    BY <2>3, <2>8, <2>9 DEF FollowInv
  <2>10. ASSUME NEW x \in noteOut', NEW y \in noteOut', Follows(x, note), Follows(y, note) PROVE x = y
    BY <2>3, <2>6, <2>10 DEF FollowInv
  <2>11. n.feed # note.feed /\ note.feed \in 0 .. Len(feeds')
    BY <2>4, <2>5 DEF FollowInv
  <2>12. FollowInv'
    BY <1>1, <2>3, <2>4, <2>7, <2>9, <2>10, <2>11 DEF FollowInv
  <2>13. NoteFollowing' = {} => NoteFollowing = {}
    <3>1. Follows(m, note) => n \in NoteFollowing'
      BY <1>1, <2>3, <2>6, FollowingIs
    <3>2. \A x \in noteOut : Follows(x, note) /\ x # m => x \in NoteFollowing'
      BY <1>1, <2>3, FollowingIs
    <3> QED
      BY <3>1, <3>2, FollowingIs
  <2>14. NoteFollowing' # {} => Cardinality(NoteFollowing') = 1
    <3> SUFFICES ASSUME NEW x \in NoteFollowing' PROVE Cardinality(NoteFollowing') = 1
      OBVIOUS
    <3>1. NoteFollowing' = {x}
      BY <1>1, <2>10, FollowingIs
    <3> QED
      BY <3>1, FS_Singleton
  <2> QED
    BY <2>12, <2>13, <2>14 DEF GoesOn
<1> QED
  BY <1>2, <1>3, <1>4

LEMMA StreamStep ==
  ASSUME FollowInv, NEW m \in noteOut, FeedSends(m) \/ FeedEnds(m)
  PROVE  FollowInv' /\ GoesOn
<1>1. NoteMessageOK(m, note.id, Len(feeds)) /\ note' = note /\ m.kind = "wait"
  BY DEF FollowInv, FeedSends, FeedEnds
<1>2. m.feed \in 1 .. Len(feeds) /\ Carries(m) /\ m.feed \in DOMAIN feeds
  BY <1>1 DEF NoteMessageOK, Carries, FollowInv
<1>3. PICK n : /\ n.kind \in {"events", "ended"} /\ n.feed = m.feed
               /\ noteOut' = (noteOut \ {m}) \cup {n}
  BY DEF FeedSends, FeedEnds, Swap
<1>4. Len(feeds') = Len(feeds) /\ \E S : feeds' \in Seq(S)
  <2>1. CASE feeds' = feeds
    BY <2>1 DEF FollowInv
  <2>2. CASE feeds' # feeds
    <3>1. PICK upto : feeds' = [feeds EXCEPT ![m.feed].at = upto]
      BY <2>2 DEF FeedSends, FeedEnds, clusterVars
    <3>2. PICK r : r = [feeds[m.feed] EXCEPT !.at = upto]
      OBVIOUS
    <3>3. feeds' = [feeds EXCEPT ![m.feed] = r]
      BY <3>1, <3>2
    <3>4. PICK S : feeds \in Seq(S)
      BY DEF FollowInv
    <3>5. [feeds EXCEPT ![m.feed] = r] \in Seq(S \cup {r}) /\ Len([feeds EXCEPT ![m.feed] = r]) = Len(feeds)
      BY <1>2, <3>4, FeedsReplaced
    <3> QED
      BY <3>3, <3>5
  <2> QED
    BY <2>1, <2>2
<1>5. Carries(n) /\ (Follows(n, note) <=> Follows(m, note)) /\ NoteMessageOK(n, note.id, Len(feeds))
  BY <1>1, <1>2, <1>3 DEF Carries, Follows, NoteMessageOK
<1> QED
  BY <1>1, <1>2, <1>3, <1>4, <1>5, Replaced

LEMMA TakeOpenedStep == ASSUME FollowInv, NEW m \in noteOut, TakeOpened(m) PROVE FollowInv' /\ GoesOn
<1>1. NoteMessageOK(m, note.id, Len(feeds)) /\ m.kind = "opened"
  BY DEF FollowInv, TakeOpened
<1>2. CASE m.err # "none"
  <2>1. note' = note /\ feeds' = feeds /\ Swap(m, IF m.err = "unanswered" /\ m.id = note.id THEN {Again} ELSE {})
    BY <1>2 DEF TakeOpened
  <2>2. Len(feeds') = Len(feeds) /\ \E S : feeds' \in Seq(S)
    BY <2>1 DEF FollowInv
  <2>3. CASE m.err = "unanswered" /\ m.id = note.id
    <3>1. PICK n : n = [kind |-> "again", id |-> note.id] /\ noteOut' = (noteOut \ {m}) \cup {n}
      BY <2>1, <2>3 DEF Swap, Again
    <3>2. n.kind = "again" /\ n.id = note.id
      BY <3>1
    <3>3. ~Carries(n) /\ (Follows(n, note) <=> Follows(m, note)) /\ NoteMessageOK(n, note.id, Len(feeds))
      BY <1>1, <2>3, <3>2 DEF Carries, Follows, NoteMessageOK
    <3> QED
      BY <2>1, <2>2, <3>1, <3>2, <3>3, Replaced
  <2>4. CASE ~(m.err = "unanswered" /\ m.id = note.id)
    <3>1. noteOut' = noteOut \ {m}
      BY <2>1, <2>4 DEF Swap
    <3>2. FollowInv' /\ NoteFollowing' = NoteFollowing \ {m}
          /\ (NoteFollowing' # {} => Cardinality(NoteFollowing') = 1)
      BY <2>1, <2>2, <3>1, TakenAway
    <3>3. m \in NoteFollowing => m.err = "refused"
      BY <1>1, <1>2, <2>4, FollowingIs DEF Follows, NoteMessageOK
    <3> QED
      BY <1>1, <3>2, <3>3 DEF GoesOn
  <2> QED
    BY <2>3, <2>4
<1>3. CASE m.err = "none" /\ m.id # note.id
  <2>1. note' = note /\ feeds' = Closed(m.feed) /\ noteOut' = noteOut \ {m}
    BY <1>3 DEF TakeOpened, Swap
  <2>2. m.feed \in DOMAIN feeds
    BY <1>1, <1>3 DEF NoteMessageOK, Carries, FollowInv
  <2>3. Len(feeds') = Len(feeds) /\ \E S : feeds' \in Seq(S)
    BY <2>1, <2>2, ClosedKeeps DEF Closed
  <2>4. m \notin NoteFollowing
    BY <1>1, <1>3, FollowingIs DEF Follows
  <2>5. FollowInv' /\ NoteFollowing' = NoteFollowing
        /\ (NoteFollowing' # {} => Cardinality(NoteFollowing') = 1)
    BY <2>1, <2>3, <2>4, TakenAway
  <2> QED
    BY <2>5 DEF GoesOn
<1>4. CASE m.err = "none" /\ m.id = note.id
  <2>1. PICK n : n = [kind |-> "wait", feed |-> m.feed]
    OBVIOUS
  <2>2. /\ note' = [note EXCEPT !.feed = m.feed, !.heard = FALSE, !.from = m.from]
        /\ noteOut' = (noteOut \ {m}) \cup {n} /\ feeds' = feeds
    BY <1>4, <2>1 DEF TakeOpened, Swap
  <2>3. n.kind = "wait" /\ n.feed = m.feed
    BY <2>1
  <2>4. /\ note'.id = note.id /\ note'.feed = m.feed
        /\ note' = [id |-> note'.id, feed |-> note'.feed, failing |-> note'.failing, heard |-> note'.heard,
                    from |-> note'.from, taken |-> note'.taken]
    BY <2>2 DEF FollowInv
  <2>5. Carries(m) /\ m.feed \in 1 .. Len(feeds) /\ m \in NoteFollowing
    BY <1>1, <1>4, FollowingIs DEF Carries, NoteMessageOK, Follows
  <2>6. NoteMessageOK(n, note'.id, Len(feeds')) /\ Carries(n) /\ Follows(n, note')
    BY <2>2, <2>3, <2>4, <2>5 DEF NoteMessageOK, Carries, Follows
  <2>7. ASSUME NEW x \in noteOut, x # m PROVE ~Follows(x, note') /\ (Carries(x) => x.feed # m.feed)
    <3>1. Carries(x) => x.feed # m.feed
      BY <2>5, <2>7 DEF FollowInv
    <3>2. ~Follows(x, note)
      BY <2>5, <2>7, FollowingIs DEF FollowInv
    <3>3. NoteMessageOK(x, note.id, Len(feeds))
      BY DEF FollowInv
    <3> QED
      BY <2>4, <3>1, <3>2, <3>3 DEF Follows, Carries, NoteMessageOK
  <2>8. ASSUME NEW x \in noteOut', NEW y \in noteOut', Carries(x), Carries(y), x.feed = y.feed PROVE x = y
    BY <2>2, <2>3, <2>7, <2>8 DEF FollowInv
  <2>9. NoteFollowing' = {n}
    BY <2>2, <2>6, <2>7, FollowingIs
  <2>10. FollowInv'
    <3>1. \A x \in noteOut' : NoteMessageOK(x, note'.id, Len(feeds'))
      BY <2>2, <2>4, <2>6 DEF FollowInv
    <3>2. \A x \in noteOut' : x.kind = "opened" /\ x.err = "none" => x.feed # note'.feed
      BY <2>2, <2>3, <2>4, <2>7 DEF Carries
    <3>3. \A x, y \in noteOut' : Follows(x, note') /\ Follows(y, note') => x = y
      BY <2>9, FollowingIs
    <3>4. note'.id \in Nat /\ note'.feed \in 0 .. Len(feeds') /\ \E S : feeds' \in Seq(S)
      BY <2>2, <2>4, <2>5 DEF FollowInv
    <3> QED
      BY <2>4, <2>8, <3>1, <3>2, <3>3, <3>4 DEF FollowInv
  <2> QED
    BY <2>9, <2>10, FS_Singleton DEF GoesOn
<1> QED
  BY <1>2, <1>3, <1>4

LEMMA TakeEventsStep == ASSUME FollowInv, NEW m \in noteOut, TakeEvents(m) PROVE FollowInv' /\ GoesOn
<1>1. NoteMessageOK(m, note.id, Len(feeds)) /\ m.kind = "events" /\ m.feed = note.feed /\ feeds' = feeds
  BY DEF FollowInv, TakeEvents, clusterVars
<1>2. PICK n : n = [kind |-> "wait", feed |-> m.feed] /\ noteOut' = (noteOut \ {m}) \cup {n}
  BY DEF TakeEvents, Swap
<1>3. PICK failing, from, taken :
        note' = [note EXCEPT !.heard = TRUE, !.failing = failing, !.from = from, !.taken = taken]
  BY DEF TakeEvents
<1>4. /\ note'.id = note.id /\ note'.feed = note.feed
      /\ note' = [id |-> note'.id, feed |-> note'.feed, failing |-> note'.failing, heard |-> note'.heard,
                  from |-> note'.from, taken |-> note'.taken]
  BY <1>3 DEF FollowInv
<1>5. n.kind = "wait" /\ n.feed = m.feed
  BY <1>2
<1>6. Carries(m) /\ Follows(m, note) /\ m.feed \in 1 .. Len(feeds)
  BY <1>1 DEF Carries, Follows, NoteMessageOK
<1>7. Carries(n) /\ NoteMessageOK(n, note.id, Len(feeds)) /\ Follows(n, note)
  BY <1>1, <1>5, <1>6 DEF NoteMessageOK, Carries, Follows
<1>8. \A x : Follows(x, note') <=> Follows(x, note)
  BY <1>4 DEF Follows
<1>9. \A x \in noteOut : x # m => ~Follows(x, note) /\ (Carries(x) => x.feed # m.feed)
  BY <1>6 DEF FollowInv
<1>10. NoteFollowing' = {n}
  BY <1>2, <1>7, <1>8, <1>9, FollowingIs
<1>11. FollowInv'
  <2>1. \A x \in noteOut' : NoteMessageOK(x, note'.id, Len(feeds'))
    BY <1>1, <1>2, <1>4, <1>7 DEF FollowInv
  <2>2. \A x \in noteOut' : x.kind = "opened" /\ x.err = "none" => x.feed # note'.feed
    BY <1>2, <1>4, <1>5 DEF FollowInv
  <2>3. \A x, y \in noteOut' : Follows(x, note') /\ Follows(y, note') => x = y
    BY <1>10, FollowingIs
  <2>4. ASSUME NEW x \in noteOut', NEW y \in noteOut', Carries(x), Carries(y), x.feed = y.feed PROVE x = y
    BY <1>2, <1>5, <1>9, <2>4 DEF FollowInv
  <2>5. note'.id \in Nat /\ note'.feed \in 0 .. Len(feeds') /\ \E S : feeds' \in Seq(S)
    BY <1>1, <1>4 DEF FollowInv
  <2> QED
    BY <1>4, <2>1, <2>2, <2>3, <2>4, <2>5 DEF FollowInv
<1> QED
  BY <1>10, <1>11, FS_Singleton DEF GoesOn

LEMMA TakeEndedStep == ASSUME FollowInv, NEW m \in noteOut, TakeEnded(m) PROVE FollowInv' /\ GoesOn
<1>1. NoteMessageOK(m, note.id, Len(feeds)) /\ m.kind = "ended" /\ m.feed = note.feed
  BY DEF FollowInv, TakeEnded
<1>2. note' = [note EXCEPT !.feed = NoFeed] /\ feeds' = Stopped
  BY DEF TakeEnded
<1>3. /\ note'.id = note.id /\ note'.feed = 0
      /\ note' = [id |-> note'.id, feed |-> note'.feed, failing |-> note'.failing, heard |-> note'.heard,
                  from |-> note'.from, taken |-> note'.taken]
  BY <1>2 DEF FollowInv, NoFeed
<1>4. Len(feeds') = Len(feeds) /\ \E S : feeds' \in Seq(S)
  BY <1>2, StoppedKeeps
<1>5. PICK n : n = [kind |-> "again", id |-> note.id]
  OBVIOUS
<1>6. n.kind = "again" /\ n.id = note.id
  BY <1>5
<1>7. \/ noteOut' = (noteOut \ {m}) \cup {n}
      \/ noteOut' = noteOut \ {m} /\ ~note.heard
  BY <1>5 DEF TakeEnded, Swap, Again
<1>8. Follows(m, note) /\ m \in NoteFollowing
  BY <1>1, FollowingIs DEF Follows
<1>9. \A x \in noteOut : x # m => ~Follows(x, note')
  <2>1. ASSUME NEW x \in noteOut, x # m PROVE ~Follows(x, note')
    <3>1. ~Follows(x, note) /\ NoteMessageOK(x, note.id, Len(feeds))
      BY <1>8, <2>1 DEF FollowInv
    <3> QED
      BY <1>3, <3>1 DEF Follows, NoteMessageOK, Carries
  <2> QED
    BY <2>1
<1>10. ~Carries(n) /\ NoteMessageOK(n, note.id, Len(feeds)) /\ Follows(n, note')
  BY <1>3, <1>6 DEF NoteMessageOK, Carries, Follows, FollowInv
<1>11. NoteFollowing' = {n} \/ (NoteFollowing' = {} /\ ~note.heard)
  BY <1>7, <1>9, <1>10, FollowingIs
<1>12. FollowInv'
  <2>1. \A x \in noteOut' : NoteMessageOK(x, note'.id, Len(feeds'))
    BY <1>3, <1>4, <1>7, <1>10 DEF FollowInv
  <2>2. ASSUME NEW x \in noteOut', x.kind = "opened", x.err = "none" PROVE x.feed # note'.feed
    <3>1. NoteMessageOK(x, note'.id, Len(feeds'))
      BY <2>1
    <3> QED
      BY <1>3, <2>2, <3>1 DEF NoteMessageOK, Carries
  <2>3. \A x, y \in noteOut' : Follows(x, note') /\ Follows(y, note') => x = y
    BY <1>11, FollowingIs
  <2>4. ASSUME NEW x \in noteOut', NEW y \in noteOut', Carries(x), Carries(y), x.feed = y.feed PROVE x = y
    BY <1>7, <1>10, <2>4 DEF FollowInv
  <2>5. note'.id \in Nat /\ note'.feed \in 0 .. Len(feeds')
    BY <1>3, <1>4 DEF FollowInv
  <2> QED
    BY <1>3, <1>4, <2>1, <2>2, <2>3, <2>4, <2>5 DEF FollowInv
<1> QED
  BY <1>1, <1>8, <1>11, <1>12, FS_Singleton DEF GoesOn

LEMMA TakeAgainStep ==
  ASSUME FollowInv, NEW m \in noteOut, TakeAgain(m) \/ TakeStale(m)
  PROVE  FollowInv' /\ GoesOn
<1>1. NoteMessageOK(m, note.id, Len(feeds)) /\ note' = note /\ feeds' = feeds
  BY DEF FollowInv, TakeAgain, TakeStale, clusterVars
<1>2. Len(feeds') = Len(feeds) /\ \E S : feeds' \in Seq(S)
  BY <1>1 DEF FollowInv
<1>3. CASE TakeAgain(m) /\ m.id = note.id
  <2>1. PICK n : n = [kind |-> "open", id |-> note.id, from |-> note.from]
    OBVIOUS
  <2>2. noteOut' = (noteOut \ {m}) \cup {n} /\ m.kind = "again"
    BY <1>3, <2>1 DEF TakeAgain, Swap
  <2>3. n.kind = "open" /\ n.id = note.id /\ n = [kind |-> "open", id |-> n.id, from |-> n.from]
    BY <2>1
  <2>4. ~Carries(n) /\ (Follows(n, note) <=> Follows(m, note)) /\ NoteMessageOK(n, note.id, Len(feeds))
    BY <1>1, <1>3, <2>2, <2>3 DEF Carries, Follows, NoteMessageOK
  <2> QED
    BY <1>1, <1>2, <2>2, <2>3, <2>4, Replaced
<1>4. CASE ~(TakeAgain(m) /\ m.id = note.id)
  <2>1. noteOut' = noteOut \ {m} /\ ~Follows(m, note)
    BY <1>4 DEF TakeAgain, TakeStale, Swap, Follows
  <2>2. FollowInv' /\ NoteFollowing' = NoteFollowing \ {m}
        /\ (NoteFollowing' # {} => Cardinality(NoteFollowing') = 1)
    BY <1>1, <1>2, <2>1, TakenAway
  <2>3. m \notin NoteFollowing
    BY <2>1, FollowingIs
  <2> QED
    BY <2>2, <2>3 DEF GoesOn
<1> QED
  BY <1>3, <1>4

LEMMA RestartStep == ASSUME FollowInv, Restart PROVE FollowInv' /\ GoesOn
<1>1. PICK n : n = [kind |-> "open", id |-> note.id + 1, from |-> 0]
  OBVIOUS
<1>2. note' = NewNote(note.id + 1) /\ feeds' = Stopped /\ noteOut' = noteOut \cup {n}
  BY <1>1 DEF Restart
<1>3. n.kind = "open" /\ n.id = note.id + 1 /\ n = [kind |-> "open", id |-> n.id, from |-> n.from]
  BY <1>1
<1>4. /\ note'.id = note.id + 1 /\ note'.feed = 0 /\ note.id \in Nat
      /\ note' = [id |-> note'.id, feed |-> note'.feed, failing |-> note'.failing, heard |-> note'.heard,
                  from |-> note'.from, taken |-> note'.taken]
  BY <1>2 DEF NewNote, NoFeed, FollowInv
<1>5. Len(feeds') = Len(feeds) /\ \E S : feeds' \in Seq(S)
  BY <1>2, StoppedKeeps
<1>6. ASSUME NEW x \in noteOut PROVE ~Follows(x, note') /\ NoteMessageOK(x, note'.id, Len(feeds'))
  <2>1. NoteMessageOK(x, note.id, Len(feeds))
    BY DEF FollowInv
  <2> QED
    BY <1>4, <1>5, <2>1 DEF Follows, NoteMessageOK, Carries
<1>7. Follows(n, note') /\ NoteMessageOK(n, note'.id, Len(feeds')) /\ ~Carries(n)
  BY <1>3, <1>4 DEF Follows, NoteMessageOK, Carries
<1>8. NoteFollowing' = {n}
  BY <1>2, <1>6, <1>7, FollowingIs
<1>9. FollowInv'
  <2>1. \A x \in noteOut' : NoteMessageOK(x, note'.id, Len(feeds'))
    BY <1>2, <1>6, <1>7
  <2>2. ASSUME NEW x \in noteOut', x.kind = "opened", x.err = "none" PROVE x.feed # note'.feed
    <3>1. NoteMessageOK(x, note'.id, Len(feeds'))
      BY <2>1
    <3> QED
      BY <1>4, <2>2, <3>1 DEF NoteMessageOK, Carries
  <2>3. \A x, y \in noteOut' : Follows(x, note') /\ Follows(y, note') => x = y
    BY <1>8, FollowingIs
  <2>4. ASSUME NEW x \in noteOut', NEW y \in noteOut', Carries(x), Carries(y), x.feed = y.feed PROVE x = y
    BY <1>2, <1>7, <2>4 DEF FollowInv
  <2>5. note'.id \in Nat /\ note'.feed \in 0 .. Len(feeds')
    BY <1>4, <1>5 DEF FollowInv
  <2> QED
    BY <1>4, <1>5, <2>1, <2>2, <2>3, <2>4, <2>5 DEF FollowInv
<1> QED
  BY <1>8, <1>9, FS_Singleton DEF GoesOn

LEMMA FollowStart == NoteInit => FollowInv
<1> SUFFICES ASSUME NoteInit PROVE FollowInv
  OBVIOUS
<1>1. PICK n : n = [kind |-> "open", id |-> 0, from |-> 0]
  OBVIOUS
<1>2. note = NewNote(0) /\ feeds = <<>> /\ noteOut = {n}
  BY <1>1 DEF NoteInit
<1>3. n.kind = "open" /\ n.id = 0 /\ n = [kind |-> "open", id |-> n.id, from |-> n.from]
  BY <1>1
<1>4. /\ note.id = 0 /\ note.feed = 0
      /\ note = [id |-> note.id, feed |-> note.feed, failing |-> note.failing, heard |-> note.heard,
                 from |-> note.from, taken |-> note.taken]
  BY <1>2 DEF NewNote, NoFeed
<1>5. Len(feeds) = 0 /\ \E S : feeds \in Seq(S)
  BY <1>2
<1>6. NoteMessageOK(n, note.id, Len(feeds)) /\ ~Carries(n)
  BY <1>3, <1>4 DEF NoteMessageOK, Carries
<1> QED
  BY <1>2, <1>3, <1>4, <1>5, <1>6 DEF FollowInv

LEMMA FollowStep == FollowInv /\ [NoteNext]_noteVars => FollowInv' /\ [GoesOn]_noteVars
<1> SUFFICES ASSUME FollowInv, [NoteNext]_noteVars PROVE FollowInv' /\ [GoesOn]_noteVars
  OBVIOUS
<1>1. ASSUME note' = note, noteOut' = noteOut, feeds' = feeds PROVE FollowInv' /\ GoesOn
  <2>1. Len(feeds') = Len(feeds) /\ \E S : feeds' \in Seq(S)
    BY <1>1 DEF FollowInv
  <2> QED
    BY <1>1, <2>1, NothingFollows
<1>2. CASE MessageShown \/ ReadAnswered \/ ScreenEntered \/ Happens \/ \E at \in timers : TimeIsUp(at)
  BY <1>1, <1>2 DEF MessageShown, ReadAnswered, ScreenEntered, Happens, TimeIsUp, clusterVars
<1>3. ASSUME NEW f \in DOMAIN feeds, FeedDrops(f) PROVE FollowInv' /\ GoesOn
  <2>1. feeds' = [feeds EXCEPT ![f].is = "ended"] /\ note' = note /\ noteOut' = noteOut
    BY <1>3 DEF FeedDrops
  <2> QED
    BY <2>1, ClosedKeeps, NothingFollows
<1>4. CASE Restart
  BY <1>4, RestartStep
<1>5. ASSUME NEW m \in noteOut,
             \/ AsksIndex(m) \/ OpensFeed(m) \/ OpenFails(m) \/ FeedSends(m) \/ FeedEnds(m)
             \/ TakeOpened(m) \/ TakeEvents(m) \/ TakeEnded(m) \/ TakeAgain(m) \/ TakeStale(m)
      PROVE  FollowInv' /\ GoesOn
  BY <1>5, RequestStep, StreamStep, TakeOpenedStep, TakeEventsStep, TakeEndedStep, TakeAgainStep
<1>6. CASE UNCHANGED noteVars
  BY <1>1, <1>6 DEF noteVars
<1> QED
  BY <1>2, <1>3, <1>4, <1>5, <1>6 DEF NoteNext

(* For any log of failures and however often streams are dropped and the   *)
(* session moves, one thing goes on to follow the failures, until the      *)
(* cluster refuses it (takeNoteOpened, takeNoteEnded, takeNoteAgain).      *)
THEOREM OneFollows == NoteInit /\ [][NoteNext]_noteVars => FollowsOn
<1>1. FollowsOn <=> [][GoesOn]_noteVars
  BY PTL DEF FollowsOn, GoesOn
<1> QED
  BY <1>1, FollowStart, FollowStep, PTL

-----------------------------------------------------------------------------
(* What the note has taken of the log.                                     *)

(* The log is cut where no index is on both sides.                         *)
LogCut(h) ==
  /\ h = [log |-> h.log, upto |-> h.upto] /\ h.log \in Happenings
  /\ h.upto \in 0 .. Len(h.log)
  /\ \A i \in 1 .. h.upto : \A j \in h.upto + 1 .. Len(h.log) : h.log[i].index < h.log[j].index

(* An index to start at, which nothing that is to come is before.          *)
StartsBy(from, h) ==
  from \in Nat /\ \A j \in h.upto + 1 .. Len(h.log) : from <= h.log[j].index

(* The events that were taken, and none is missing up to the next index.   *)
TakenOK(n, h) ==
  /\ StartsBy(n.from, h) /\ n.taken \in Seq(1 .. h.upto)
  /\ \A i, j \in DOMAIN n.taken : i < j => n.taken[i] < n.taken[j]
  /\ \A i \in DOMAIN n.taken : h.log[n.taken[i]].index < n.from
  /\ n.taken # <<>> => \A p \in 1 .. h.upto :
       h.log[n.taken[1]].index <= h.log[p].index /\ h.log[p].index < n.from =>
         \E i \in DOMAIN n.taken : h.log[n.taken[i]].index = h.log[p].index

(* What a stream sent so far is before the next index and what was taken;  *)
(* until something is taken, the rest is not.                              *)
SentUpTo(k, n, h) ==
  /\ k \in 0 .. h.upto
  /\ \A i \in 1 .. k : h.log[i].index < n.from
  /\ n.taken = <<>> => \A i \in k + 1 .. h.upto : n.from <= h.log[i].index
  /\ \A i \in DOMAIN n.taken : n.taken[i] <= k

(* A request or a stream goes on where the note stopped.                   *)
GoesOnFrom(from, n, h) == StartsBy(from, h) /\ (n.taken # <<>> => from = n.from)
Placed(m, n, f, h) ==
  /\ m.kind = "open" => GoesOnFrom(m.from, n, h)
  /\ m.kind = "opened" /\ m.err = "none" =>
       /\ GoesOnFrom(m.from, n, h)
       /\ f[m.feed].at \in 0 .. h.upto
       /\ \A i \in 1 .. h.upto : h.log[i].index < m.from <=> i <= f[m.feed].at
  /\ m.kind = "wait" => SentUpTo(f[m.feed].at, n, h)
  /\ m.kind = "events" =>
       SentUpTo(m.after, n, h) /\ m.upto \in m.after + 1 .. h.upto /\ f[m.feed].at = m.upto

OnceInv ==
  /\ LogCut(happened) /\ TakenOK(note, happened)
  /\ feeds \in Seq([at : 0 .. happened.upto, is : {"open", "ended", "closed"}])
  /\ \A m \in noteOut : Follows(m, note) => Placed(m, note, feeds, happened)

LEMMA LogTyped ==
  ASSUME NEW log \in Happenings
  PROVE  /\ Len(log) \in Nat /\ DOMAIN log = 1 .. Len(log)
         /\ \A i \in 1 .. Len(log) : log[i].index \in Nat \ {0}
         /\ \A i, j \in 1 .. Len(log) : i <= j => log[i].index <= log[j].index
<1>1. log \in Seq([of : Objects, index : Nat \ {0}, failed : BOOLEAN, reports : BOOLEAN])
  BY NoteAssumption
<1>2. Len(log) \in Nat /\ DOMAIN log = 1 .. Len(log)
  BY <1>1
<1>3. \A i \in 1 .. Len(log) : log[i].index \in Nat \ {0}
  <2> SUFFICES ASSUME NEW i \in 1 .. Len(log) PROVE log[i].index \in Nat \ {0}
    OBVIOUS
  <2>1. log[i] \in [of : Objects, index : Nat \ {0}, failed : BOOLEAN, reports : BOOLEAN]
    BY <1>1, ElementOfSeq, Zenon
  <2> QED
    BY <2>1
<1>4. ASSUME NEW i \in 1 .. Len(log), NEW j \in 1 .. Len(log), i <= j PROVE log[i].index <= log[j].index
  <2>1. CASE i = j
    BY <2>1, <1>3
  <2>2. CASE i < j
    BY <2>2, <1>2, NoteAssumption
  <2> QED
    BY <2>1, <2>2, <1>4
<1> QED
  BY <1>2, <1>3, <1>4

LEMMA EventsAre ==
  ASSUME LogCut(happened)
  PROVE  /\ Len(Events) = happened.upto /\ DOMAIN Events = 1 .. happened.upto
         /\ \A i \in 1 .. happened.upto : Events[i] = happened.log[i]
<1>1. PICK log : log = happened.log
  OBVIOUS
<1>2. log \in Happenings /\ happened.upto \in 0 .. Len(log)
  BY <1>1 DEF LogCut
<1>3. log \in Seq([of : Objects, index : Nat \ {0}, failed : BOOLEAN, reports : BOOLEAN])
  BY <1>2, NoteAssumption
<1>4. Events = SubSeq(log, 1, happened.upto)
  BY <1>1 DEF Events
<1>5. Len(log) \in Nat
  BY <1>3
<1> HIDE <1>1
<1> QED
  BY <1>1, <1>2, <1>3, <1>4, <1>5

(* An index is at hand to ask the first stream from.                       *)
LEMMA NewestIs ==
  ASSUME LogCut(happened)
  PROVE  StartsBy(NewestIndex + 1, happened)
<1> DEFINE S == {0} \cup {Events[i].index : i \in DOMAIN Events}
<1>1. PICK log, upto : log = happened.log /\ upto = happened.upto
  OBVIOUS
<1>2. log \in Happenings /\ upto \in 0 .. Len(log)
  BY <1>1 DEF LogCut
<1>3. S = {0} \cup {log[i].index : i \in 1 .. upto}
  BY <1>1, EventsAre
<1>4. \E b \in Nat : S \subseteq 0 .. b
  <2>1. CASE upto = 0
    BY <1>3, <2>1
  <2>2. CASE upto # 0
    <3>1. upto \in 1 .. Len(log) /\ Len(log) \in Nat
      BY <1>2, <2>2, LogTyped
    <3>2. log[upto].index \in Nat
      BY <1>2, <3>1, LogTyped
    <3>3. ASSUME NEW i \in 1 .. upto PROVE log[i].index \in 0 .. log[upto].index
      <4>1. i \in 1 .. Len(log) /\ i <= upto
        BY <3>1
      <4>2. log[i].index \in Nat /\ log[i].index <= log[upto].index
        BY <1>2, <3>1, <4>1, LogTyped
      <4> QED
        BY <3>2, <4>2
    <3>4. S \subseteq 0 .. log[upto].index
      BY <1>3, <3>2, <3>3
    <3> QED
      BY <3>2, <3>4
  <2> QED
    BY <2>1, <2>2
<1>5. PICK b \in Nat : S \subseteq 0 .. b
  BY <1>4
<1>6. 0 \in S
  OBVIOUS
<1> HIDE DEF S
<1>7. Max(S) \in S /\ \A e \in S : e <= Max(S)
  BY <1>5, <1>6, MaxIs
<1>8. Max(S) \in Nat
  <2>1. PICK top : top = Max(S)
    OBVIOUS
  <2>2. top \in 0 .. b
    BY <1>5, <1>7, <2>1
  <2> QED
    BY <2>1, <2>2
<1>9. ASSUME NEW j \in upto + 1 .. Len(log) PROVE Max(S) + 1 <= log[j].index
  <2>1. j \in 1 .. Len(log)
    BY <1>2, LogTyped
  <2>2. log[j].index \in Nat \ {0}
    BY <1>2, <2>1, LogTyped
  <2>3. CASE Max(S) = 0
    BY <2>2, <2>3
  <2>4. CASE Max(S) # 0
    <3>1. PICK i \in 1 .. upto : Max(S) = log[i].index
      BY <1>3, <1>7, <2>4
    <3>2. log[i].index < log[j].index
      BY <1>1, <3>1 DEF LogCut
    <3> QED
      BY <3>1, <3>2, <1>8, <2>2
  <2> QED
    BY <2>3, <2>4
<1> QED
  BY <1>1, <1>8, <1>9 DEF StartsBy, NewestIndex, S

(* A stream that starts at an index has behind it what is before it.       *)
LEMMA BehindIs ==
  ASSUME LogCut(happened), NEW from \in Nat, NEW k,
         k = Cardinality({i \in DOMAIN Events : Events[i].index < from})
  PROVE  /\ k \in 0 .. happened.upto
         /\ \A i \in 1 .. happened.upto : happened.log[i].index < from <=> i <= k
<1> DEFINE S == {i \in DOMAIN Events : Events[i].index < from}
<1>1. PICK log, upto : log = happened.log /\ upto = happened.upto
  OBVIOUS
<1>2. log \in Happenings /\ upto \in 0 .. Len(log) /\ Len(log) \in Nat
  BY <1>1, LogTyped DEF LogCut
<1>3. S = {i \in 1 .. upto : log[i].index < from}
  BY <1>1, EventsAre
<1>4. \A i \in 1 .. upto : log[i].index \in Nat
  BY <1>2, LogTyped
<1>5. \A i, j \in 1 .. upto : i <= j => log[i].index <= log[j].index
  BY <1>2, LogTyped
<1>6. k = Cardinality(S)
  OBVIOUS
<1> HIDE DEF S
<1>7. CASE S = {}
  <2>1. k = 0
    BY <1>6, <1>7, FS_EmptySet
  <2>2. ASSUME NEW i \in 1 .. upto PROVE ~(log[i].index < from) /\ ~(i <= k)
    <3>1. i \notin S
      BY <1>7
    <3> QED
      BY <1>2, <1>3, <2>1, <3>1
  <2>3. k \in 0 .. upto
    BY <1>2, <2>1
  <2> QED
    BY <1>1, <2>2, <2>3
<1>8. CASE S # {}
  <2>1. upto \in Nat /\ S \in SUBSET (0 .. upto)
    BY <1>2, <1>3
  <2>2. Max(S) \in S /\ \A i \in S : i <= Max(S)
    BY <1>8, <2>1, MaxIs
  <2>3. PICK top : top = Max(S)
    OBVIOUS
  <2>4. top \in 1 .. upto /\ log[top].index < from
    BY <1>3, <2>2, <2>3
  <2>5. ASSUME NEW i \in 1 .. upto PROVE i \in S <=> i <= top
    <3>1. i <= top => log[i].index <= log[top].index
      BY <1>5, <2>4
    <3>2. i <= top => log[i].index < from
      BY <1>4, <2>4, <3>1
    <3> QED
      BY <1>3, <2>2, <2>3, <3>2
  <2>6. S = 1 .. top
    <3>1. \A i \in S : i \in 1 .. upto
      BY <1>3
    <3>2. 1 .. top \subseteq 1 .. upto /\ \A i \in 1 .. upto : i \in 1 .. top <=> i <= top
      BY <1>2, <2>4
    <3> QED
      BY <2>5, <3>1, <3>2
  <2>7. k = top
    BY <1>6, <2>4, <2>6, FS_Interval
  <2>8. k \in 0 .. upto
    BY <1>2, <2>4, <2>7
  <2>9. ASSUME NEW i \in 1 .. upto PROVE log[i].index < from <=> i <= k
    BY <1>3, <2>5, <2>7
  <2> QED
    BY <1>1, <2>8, <2>9
<1> QED
  BY <1>7, <1>8

(* The cluster goes on to another index.                                   *)
LEMMA LogGoesOn ==
  ASSUME LogCut(happened), Happens
  PROVE  /\ LogCut(happened') /\ happened'.log = happened.log
         /\ happened.upto \in Nat /\ happened'.upto \in Nat /\ happened.upto <= happened'.upto
<1>1. PICK log, upto : log = happened.log /\ upto = happened.upto
  OBVIOUS
<1> DEFINE S == {i \in 1 .. Len(log) : log[i].index = log[upto + 1].index}
<1>2. happened = [log |-> log, upto |-> upto] /\ log \in Happenings /\ upto \in 0 .. Len(log)
  BY <1>1 DEF LogCut
<1>3. Len(log) \in Nat /\ DOMAIN log = 1 .. Len(log)
  BY <1>2, LogTyped
<1>4. upto + 1 \in S /\ S \in SUBSET (0 .. Len(log))
  BY <1>1, <1>2, <1>3 DEF Happens
<1>5. happened' = [happened EXCEPT !.upto = Max(S)]
  <2>1. happened' = [happened EXCEPT !.upto =
          Max({i \in DOMAIN happened.log : happened.log[i].index = happened.log[upto + 1].index})]
    BY <1>1 DEF Happens
  <2> QED
    BY <2>1, <1>1, <1>3
<1> HIDE DEF S
<1>6. Max(S) \in S /\ \A i \in S : i <= Max(S)
  BY <1>3, <1>4, MaxIs
<1>7. PICK top : top = Max(S)
  OBVIOUS
<1>8. happened'.log = log /\ happened'.upto = top /\ happened' = [log |-> log, upto |-> top]
  BY <1>2, <1>5, <1>7
<1>9. /\ top \in upto + 1 .. Len(log) /\ upto + 1 \in 1 .. Len(log)
      /\ log[top].index = log[upto + 1].index
  BY <1>2, <1>3, <1>4, <1>6, <1>7 DEF S
<1>10. ASSUME NEW i \in 1 .. top, NEW j \in top + 1 .. Len(log) PROVE log[i].index < log[j].index
  <2>1. i \in 1 .. Len(log) /\ j \in 1 .. Len(log) /\ top \in 1 .. Len(log) /\ i <= top /\ top <= j
    BY <1>2, <1>3, <1>9
  <2>2. log[i].index <= log[top].index /\ log[top].index <= log[j].index
    BY <1>2, <2>1, LogTyped
  <2>3. log[i].index \in Nat /\ log[top].index \in Nat /\ log[j].index \in Nat
    BY <1>2, <2>1, LogTyped
  <2>4. j \notin S
    BY <1>3, <1>6, <1>7, <1>9, <2>1
  <2>5. log[j].index # log[top].index
    BY <1>9, <2>1, <2>4 DEF S
  <2> QED
    BY <2>2, <2>3, <2>5
<1>11. top \in 0 .. Len(log)
  BY <1>2, <1>3, <1>9
<1> QED
  BY <1>1, <1>2, <1>3, <1>8, <1>9, <1>10, <1>11 DEF LogCut

LEMMA SeqWider ==
  ASSUME NEW S, NEW T, S \subseteq T, NEW s \in Seq(S)
  PROVE  s \in Seq(T)
  OBVIOUS

LEMMA SeqAt ==
  ASSUME NEW S, NEW s \in Seq(S), NEW i \in DOMAIN s
  PROVE  s[i] \in S
  OBVIOUS

LEMMA HappensOnce == ASSUME FollowInv, OnceInv, Happens PROVE OnceInv'
<1>1. /\ LogCut(happened') /\ happened'.log = happened.log
      /\ happened.upto \in Nat /\ happened'.upto \in Nat /\ happened.upto <= happened'.upto
  BY LogGoesOn DEF OnceInv
<1>2. note' = note /\ noteOut' = noteOut /\ feeds' = feeds
  BY DEF Happens
<1>3. PICK log, upto, next : log = happened.log /\ upto = happened.upto /\ next = happened'.upto
  OBVIOUS
<1>4. upto \in Nat /\ next \in Nat /\ upto <= next /\ Len(log) \in Nat /\ next <= Len(log)
  BY <1>1, <1>3, LogTyped DEF LogCut
<1>5. ASSUME NEW from, StartsBy(from, happened)
      PROVE  /\ StartsBy(from, happened') /\ from \in Nat
             /\ \A i \in upto + 1 .. next : from <= log[i].index
  BY <1>1, <1>3, <1>4, <1>5 DEF StartsBy
<1>6. \A i \in upto + 1 .. next : log[i].index \in Nat
  <2>1. \A i \in upto + 1 .. next : i \in 1 .. Len(log)
    BY <1>4
  <2>2. log \in Happenings
    BY <1>1, <1>3 DEF LogCut
  <2> QED
    BY <2>1, <2>2, LogTyped
<1>7. TakenOK(note, happened')
  <2>1. TakenOK(note, happened)
    BY DEF OnceInv
  <2>2. StartsBy(note.from, happened') /\ \A i \in upto + 1 .. next : ~(log[i].index < note.from)
    BY <1>5, <1>6, <2>1 DEF TakenOK
  <2>3. note.taken \in Seq(1 .. next)
    <3>1. 1 .. upto \subseteq 1 .. next
      BY <1>4
    <3>2. note.taken \in Seq(1 .. upto)
      BY <1>3, <2>1 DEF TakenOK
    <3> QED
      BY <3>1, <3>2, SeqWider
  <2>4. \A p \in 1 .. next : p \in 1 .. upto \/ p \in upto + 1 .. next
    BY <1>4
  <2> QED
    BY <1>1, <1>3, <2>1, <2>2, <2>3, <2>4 DEF TakenOK
<1>8. feeds \in Seq([at : 0 .. next, is : {"open", "ended", "closed"}])
  <2>1. [at : 0 .. upto, is : {"open", "ended", "closed"}] \subseteq [at : 0 .. next, is : {"open", "ended", "closed"}]
    BY <1>4
  <2>2. feeds \in Seq([at : 0 .. upto, is : {"open", "ended", "closed"}])
    BY <1>3 DEF OnceInv
  <2> QED
    BY <2>1, <2>2, SeqWider
<1>9. ASSUME NEW m \in noteOut, Follows(m, note) PROVE Placed(m, note, feeds, happened')
  <2>1. Placed(m, note, feeds, happened) /\ StartsBy(note.from, happened)
    BY <1>9 DEF OnceInv, TakenOK
  <2>2. ASSUME NEW from, GoesOnFrom(from, note, happened)
        PROVE  GoesOnFrom(from, note, happened') /\ from \in Nat /\ \A i \in upto + 1 .. next : from <= log[i].index
    BY <1>5, <2>2 DEF GoesOnFrom
  <2>3. \A i \in 1 .. next : i \in 1 .. upto \/ i \in upto + 1 .. next
    BY <1>4
  <2>4. ASSUME NEW k, SentUpTo(k, note, happened) PROVE SentUpTo(k, note, happened')
    <3>1. k \in 0 .. upto /\ k \in 0 .. next
      BY <1>3, <1>4, <2>4 DEF SentUpTo
    <3>2. \A i \in k + 1 .. next : i \in k + 1 .. upto \/ i \in upto + 1 .. next
      BY <1>4, <3>1
    <3>3. \A i \in upto + 1 .. next : note.from <= log[i].index
      BY <1>5, <2>1
    <3> QED
      BY <1>1, <1>3, <2>4, <3>1, <3>2, <3>3 DEF SentUpTo
  <2>5. CASE m.kind = "open"
    BY <2>1, <2>2, <2>5 DEF Placed
  <2>6. CASE m.kind = "opened" /\ m.err = "none"
    <3>1. /\ GoesOnFrom(m.from, note, happened') /\ m.from \in Nat
          /\ \A i \in upto + 1 .. next : m.from <= log[i].index
      BY <2>1, <2>2, <2>6 DEF Placed
    <3>2. PICK at : at = feeds[m.feed].at
      OBVIOUS
    <3>3. at \in 0 .. upto /\ \A i \in 1 .. upto : log[i].index < m.from <=> i <= at
      BY <1>3, <2>1, <2>6, <3>2 DEF Placed
    <3>4. \A i \in upto + 1 .. next : ~(i <= at)
      BY <1>4, <3>3
    <3>5. \A i \in upto + 1 .. next : ~(log[i].index < m.from)
      BY <1>6, <3>1
    <3>6. at \in 0 .. next /\ \A i \in 1 .. next : log[i].index < m.from <=> i <= at
      <4>1. at \in 0 .. next
        BY <1>4, <3>3
      <4> QED
        BY <2>3, <3>3, <3>4, <3>5, <4>1
    <3> QED
      BY <1>1, <1>3, <2>6, <3>1, <3>2, <3>6 DEF Placed
  <2>7. CASE m.kind = "wait"
    BY <2>1, <2>4, <2>7 DEF Placed
  <2>8. CASE m.kind = "events"
    <3>1. SentUpTo(m.after, note, happened') /\ m.after \in 0 .. upto /\ m.upto \in m.after + 1 .. upto
      BY <1>3, <2>1, <2>4, <2>8 DEF Placed, SentUpTo
    <3>2. m.upto \in m.after + 1 .. next
      BY <1>4, <3>1
    <3> QED
      BY <1>3, <2>1, <2>8, <3>1, <3>2 DEF Placed
  <2>9. CASE m.kind \notin {"open", "opened", "wait", "events"} \/ (m.kind = "opened" /\ m.err # "none")
    BY <2>9 DEF Placed
  <2> QED
    BY <2>5, <2>6, <2>7, <2>8, <2>9
<1> QED
  BY <1>1, <1>2, <1>3, <1>7, <1>8, <1>9 DEF OnceInv

(* A stream that is where it was serves what it served.                    *)
LEMMA PlacedStays ==
  ASSUME NEW m, NEW n, NEW f, NEW g, NEW h, Placed(m, n, f, h),
         Carries(m) => g[m.feed].at = f[m.feed].at
  PROVE  Placed(m, n, g, h)
  BY DEF Placed, Carries

(* A message is taken, with the note as it was, and another may come of it.*)
LEMMA OneTaken ==
  ASSUME OnceInv, note' = note, happened' = happened,
         feeds' \in Seq([at : 0 .. happened.upto, is : {"open", "ended", "closed"}]),
         NEW m, NEW n, noteOut' \subseteq (noteOut \ {m}) \cup {n},
         \A x \in noteOut \ {m} : Carries(x) /\ Follows(x, note) => feeds'[x.feed].at = feeds[x.feed].at,
         n \in noteOut' /\ Follows(n, note) => Placed(n, note, feeds', happened)
  PROVE  OnceInv'
<1>1. ASSUME NEW x \in noteOut', Follows(x, note') PROVE Placed(x, note', feeds', happened')
  <2>1. CASE x = n
    BY <1>1, <2>1
  <2>2. CASE x # n
    <3>1. x \in noteOut \ {m} /\ Follows(x, note) /\ Placed(x, note, feeds, happened)
      BY <1>1, <2>2 DEF OnceInv
    <3>2. Carries(x) => feeds'[x.feed].at = feeds[x.feed].at
      BY <3>1
    <3>3. Placed(x, note, feeds', happened)
      BY <3>1, <3>2, PlacedStays
    <3> QED
      BY <3>3
  <2> QED
    BY <2>1, <2>2
<1> QED
  BY <1>1 DEF OnceInv

(* A stream ends or is closed where it is.                                 *)
LEMMA EndedStays ==
  ASSUME OnceInv, NEW f \in DOMAIN feeds, NEW is \in {"open", "ended", "closed"}
  PROVE  /\ [feeds EXCEPT ![f].is = is] \in Seq([at : 0 .. happened.upto, is : {"open", "ended", "closed"}])
         /\ \A x \in DOMAIN feeds : [feeds EXCEPT ![f].is = is][x].at = feeds[x].at
<1> DEFINE R == [at : 0 .. happened.upto, is : {"open", "ended", "closed"}]
<1>1. feeds \in Seq(R)
  BY DEF OnceInv
<1>2. PICK r : r = [feeds[f] EXCEPT !.is = is]
  OBVIOUS
<1>3. feeds[f] \in R
  <2> HIDE DEF R
  <2> QED
    BY <1>1
<1>4. r \in R /\ r.at = feeds[f].at
  BY <1>2, <1>3
<1>5. [feeds EXCEPT ![f].is = is] = [feeds EXCEPT ![f] = r]
  BY <1>2
<1> HIDE DEF R
<1>6. [feeds EXCEPT ![f] = r] \in Seq(R)
  BY <1>1, <1>4
<1>7. \A x \in DOMAIN feeds : [feeds EXCEPT ![f] = r][x].at = feeds[x].at
  BY <1>4
<1> QED
  BY <1>5, <1>6, <1>7 DEF R

LEMMA StoppedStays ==
  ASSUME FollowInv, OnceInv
  PROVE  /\ Stopped \in Seq([at : 0 .. happened.upto, is : {"open", "ended", "closed"}])
         /\ \A x \in DOMAIN feeds : Stopped[x].at = feeds[x].at
<1>1. note.feed # NoFeed => note.feed \in DOMAIN feeds
  BY DEF FollowInv, NoFeed
<1> QED
  BY <1>1, EndedStays DEF OnceInv, Stopped, Closed

LEMMA CarriedIs ==
  ASSUME FollowInv, NEW x \in noteOut, Carries(x)
  PROVE  x.feed \in DOMAIN feeds /\ x.feed \in 1 .. Len(feeds)
  BY DEF FollowInv, NoteMessageOK

LEMMA DropsOnce == ASSUME FollowInv, OnceInv, NEW f \in DOMAIN feeds, FeedDrops(f) PROVE OnceInv'
<1>1. /\ feeds' = [feeds EXCEPT ![f].is = "ended"] /\ note' = note /\ noteOut' = noteOut
      /\ happened' = happened
  BY DEF FeedDrops
<1>2. ASSUME NEW x \in noteOut, Follows(x, note) PROVE Placed(x, note, feeds', happened)
  <2>1. Placed(x, note, feeds, happened)
    BY <1>2 DEF OnceInv
  <2>2. Carries(x) => feeds'[x.feed].at = feeds[x.feed].at
    BY <1>1, CarriedIs, EndedStays
  <2> QED
    BY <2>1, <2>2, PlacedStays
<1>3. feeds' \in Seq([at : 0 .. happened.upto, is : {"open", "ended", "closed"}])
  BY <1>1, EndedStays
<1> QED
  BY <1>1, <1>2, <1>3 DEF OnceInv

LEMMA RestartOnce == ASSUME FollowInv, OnceInv, Restart PROVE OnceInv'
<1>1. PICK n : n = [kind |-> "open", id |-> note.id + 1, from |-> 0]
  OBVIOUS
<1>2. /\ note' = NewNote(note.id + 1) /\ feeds' = Stopped /\ noteOut' = noteOut \cup {n}
      /\ happened' = happened
  BY <1>1 DEF Restart
<1>3. n.kind = "open" /\ n.from = 0
  BY <1>1
<1>4. note'.id = note.id + 1 /\ note'.feed = 0 /\ note'.from = 0 /\ note'.taken = <<>>
  BY <1>2 DEF NewNote, NoFeed
<1>5. ASSUME NEW x \in noteOut PROVE ~Follows(x, note')
  <2>1. NoteMessageOK(x, note.id, Len(feeds)) /\ note.id \in Nat
    BY DEF FollowInv
  <2> QED
    BY <1>4, <2>1 DEF NoteMessageOK, Follows, Carries
<1>6. StartsBy(0, happened)
  <2>1. ASSUME NEW j \in happened.upto + 1 .. Len(happened.log) PROVE 0 <= happened.log[j].index
    <3>1. PICK log, upto : log = happened.log /\ upto = happened.upto
      OBVIOUS
    <3>2. log \in Happenings /\ upto \in 0 .. Len(log)
      BY <3>1 DEF OnceInv, LogCut
    <3>3. j \in 1 .. Len(log)
      BY <3>1, <3>2, LogTyped
    <3>4. log[j].index \in Nat
      BY <3>2, <3>3, LogTyped
    <3> QED
      BY <3>1, <3>4
  <2> QED
    BY <2>1 DEF StartsBy
<1>7. TakenOK(note', happened)
  BY <1>4, <1>6 DEF TakenOK
<1>8. Placed(n, note', feeds', happened)
  BY <1>3, <1>4, <1>6 DEF Placed, GoesOnFrom
<1>9. feeds' \in Seq([at : 0 .. happened.upto, is : {"open", "ended", "closed"}])
  BY <1>2, StoppedStays
<1> QED
  BY <1>2, <1>5, <1>7, <1>8, <1>9 DEF OnceInv

LEMMA RequestOnce ==
  ASSUME FollowInv, OnceInv, NEW m \in noteOut, AsksIndex(m) \/ OpensFeed(m) \/ OpenFails(m)
  PROVE  OnceInv'
<1>1. note' = note /\ happened' = happened /\ m.kind = "open" /\ ~Carries(m)
  BY DEF AsksIndex, OpensFeed, OpenFails, clusterVars, Carries
<1>2. feeds \in Seq([at : 0 .. happened.upto, is : {"open", "ended", "closed"}]) /\ LogCut(happened)
  BY DEF OnceInv
<1>3. Follows(m, note) <=> m.id = note.id
  BY <1>1 DEF Follows
<1>4. Follows(m, note) => GoesOnFrom(m.from, note, happened)
  BY <1>1 DEF OnceInv, Placed
<1>5. CASE AsksIndex(m)
  <2>1. PICK n : n = [m EXCEPT !.from = NewestIndex + 1]
    OBVIOUS
  <2>2. noteOut' = (noteOut \ {m}) \cup {n} /\ feeds' = feeds /\ m.from = 0
    BY <1>5, <2>1 DEF AsksIndex, Swap, clusterVars
  <2>3. m = [kind |-> "open", id |-> m.id, from |-> m.from]
    BY <1>1 DEF FollowInv, NoteMessageOK
  <2>4. n.kind = "open" /\ n.id = m.id /\ n.from = NewestIndex + 1
    BY <2>1, <2>3
  <2>5. ASSUME m.id = note.id PROVE note.taken = <<>>
    <3>1. TakenOK(note, happened) /\ (note.taken # <<>> => 0 = note.from)
      BY <1>3, <1>4, <2>2, <2>5 DEF GoesOnFrom, OnceInv
    <3> SUFFICES ASSUME note.taken # <<>> PROVE FALSE
      OBVIOUS
    <3>2. PICK log, upto, taken : log = happened.log /\ upto = happened.upto /\ taken = note.taken
      OBVIOUS
    <3>3. taken \in Seq(1 .. upto) /\ taken # <<>>
      BY <3>1, <3>2 DEF TakenOK
    <3>4. 1 \in DOMAIN taken /\ taken[1] \in 1 .. upto
      <4>1. PICK S : S = 1 .. upto
        OBVIOUS
      <4>2. taken \in Seq(S)
        BY <3>3, <4>1
      <4>3. 1 \in DOMAIN taken /\ taken[1] \in S
        BY <3>3, <4>2
      <4> QED
        BY <4>1, <4>3
    <3>5. log[taken[1]].index < 0
      BY <3>1, <3>2, <3>4 DEF TakenOK
    <3>6. log \in Happenings /\ upto \in 0 .. Len(log)
      BY <1>2, <3>2 DEF LogCut
    <3>7. taken[1] \in 1 .. Len(log)
      BY <3>4, <3>6, LogTyped
    <3>8. log[taken[1]].index \in Nat
      BY <3>6, <3>7, LogTyped
    <3> QED
      BY <3>5, <3>8
  <2>6. StartsBy(NewestIndex + 1, happened)
    BY <1>2, NewestIs
  <2>7. Follows(n, note) => Placed(n, note, feeds', happened)
    BY <2>4, <2>5, <2>6 DEF Follows, Placed, GoesOnFrom
  <2> QED
    BY <1>1, <1>2, <2>2, <2>7, OneTaken
<1>6. CASE OpenFails(m)
  <2>1. PICK err, n : n = [kind |-> "opened", id |-> m.id, from |-> 0, feed |-> NoFeed, err |-> err]
                      /\ err # "none" /\ noteOut' = (noteOut \ {m}) \cup {n} /\ feeds' = feeds
    BY <1>6 DEF OpenFails, Swap
  <2>2. n.kind = "opened" /\ n.err # "none"
    BY <2>1
  <2>3. Placed(n, note, feeds', happened)
    BY <2>2 DEF Placed
  <2>4. noteOut' \subseteq (noteOut \ {m}) \cup {n} /\ feeds' = feeds
    BY <2>1
  <2> QED
    BY <1>1, <1>2, <2>3, <2>4, OneTaken
<1>7. CASE OpensFeed(m)
  <2>1. PICK at : at = Cardinality({i \in DOMAIN Events : Events[i].index < m.from})
    OBVIOUS
  <2>2. PICK r, n : r = [at |-> at, is |-> "open"]
          /\ n = [kind |-> "opened", id |-> m.id, from |-> m.from, feed |-> Len(feeds'), err |-> "none"]
    OBVIOUS
  <2>3. feeds' = Append(feeds, r) /\ noteOut' = (noteOut \ {m}) \cup {n}
    BY <1>7, <2>1, <2>2 DEF OpensFeed, Swap
  <2>4. n.kind = "opened" /\ n.id = m.id /\ n.from = m.from /\ n.feed = Len(feeds') /\ r.at = at
    BY <2>2
  <2>5. /\ Len(feeds') = Len(feeds) + 1 /\ feeds'[Len(feeds')] = r
        /\ \A x \in 1 .. Len(feeds) : feeds'[x] = feeds[x]
    BY <1>2, <2>3
  <2>6. ASSUME Follows(n, note) PROVE Placed(n, note, feeds', happened)
    <3>1. GoesOnFrom(m.from, note, happened)
      BY <1>3, <1>4, <2>4, <2>6 DEF Follows
    <3>2. m.from \in Nat
      BY <3>1 DEF GoesOnFrom, StartsBy
    <3>3. /\ at \in 0 .. happened.upto
          /\ \A i \in 1 .. happened.upto : happened.log[i].index < m.from <=> i <= at
      BY <1>2, <2>1, <3>2, BehindIs
    <3>4. feeds'[n.feed].at = at
      BY <2>4, <2>5
    <3> QED
      BY <2>4, <3>1, <3>3, <3>4 DEF Placed
  <2>7. ASSUME NEW x \in noteOut, Carries(x) PROVE feeds'[x.feed].at = feeds[x.feed].at
    BY <2>5, <2>7, CarriedIs
  <2>8. feeds' \in Seq([at : 0 .. happened.upto, is : {"open", "ended", "closed"}])
    <3>1. PICK S : S = {i \in DOMAIN Events : Events[i].index < m.from}
      OBVIOUS
    <3>2. S \subseteq 1 .. happened.upto
      BY <1>2, <3>1, EventsAre
    <3>3. happened.upto \in Nat
      BY <1>2, LogTyped DEF LogCut
    <3>4. Cardinality(S) \in Nat /\ Cardinality(S) <= happened.upto
      <4>1. IsFiniteSet(1 .. happened.upto) /\ Cardinality(1 .. happened.upto) = happened.upto
        <5>1. PICK upto : upto = happened.upto
          OBVIOUS
        <5>2. upto \in Nat
          BY <3>3, <5>1
        <5>3. IsFiniteSet(1 .. upto) /\ Cardinality(1 .. upto) = IF 1 > upto THEN 0 ELSE upto - 1 + 1
          BY <5>2, FS_Interval
        <5>4. IsFiniteSet(1 .. upto) /\ Cardinality(1 .. upto) = upto
          BY <5>2, <5>3
        <5> QED
          BY <5>1, <5>4
      <4>2. IsFiniteSet(S) /\ Cardinality(S) <= Cardinality(1 .. happened.upto)
        BY <3>2, <4>1, FS_Subset
      <4> QED
        BY <4>1, <4>2, FS_CardinalityType
    <3>5. at \in 0 .. happened.upto
      BY <2>1, <3>1, <3>3, <3>4
    <3>6. r \in [at : 0 .. happened.upto, is : {"open", "ended", "closed"}]
      BY <2>2, <3>5
    <3> QED
      BY <1>2, <2>3, <3>6
  <2>9. \A x \in noteOut \ {m} : Carries(x) /\ Follows(x, note) => feeds'[x.feed].at = feeds[x.feed].at
    BY <2>7
  <2>10. n \in noteOut' /\ Follows(n, note) => Placed(n, note, feeds', happened)
    BY <2>6
  <2>11. noteOut' \subseteq (noteOut \ {m}) \cup {n}
    BY <2>3
  <2> QED
    BY <1>1, <2>8, <2>9, <2>10, <2>11, OneTaken
<1> QED
  BY <1>5, <1>6, <1>7

(* Only one message follows: the others are of streams that are not read.  *)
LEMMA AloneFollows ==
  ASSUME FollowInv, NEW m \in noteOut, Follows(m, note), NEW x \in noteOut \ {m}
  PROVE  ~Follows(x, note)
  BY DEF FollowInv

LEMMA StreamOnce ==
  ASSUME FollowInv, OnceInv, NEW m \in noteOut, FeedSends(m) \/ FeedEnds(m)
  PROVE  OnceInv'
<1>1. note' = note /\ happened' = happened /\ m.kind = "wait" /\ Carries(m)
  BY DEF FeedSends, FeedEnds, clusterVars, Carries
<1>2. feeds \in Seq([at : 0 .. happened.upto, is : {"open", "ended", "closed"}]) /\ LogCut(happened)
  BY DEF OnceInv
<1>3. m.feed \in DOMAIN feeds
  BY <1>1, CarriedIs
<1>4. CASE FeedEnds(m)
  <2>1. PICK n : n = [kind |-> "ended", feed |-> m.feed]
    OBVIOUS
  <2>2. noteOut' \subseteq (noteOut \ {m}) \cup {n} /\ feeds' = feeds
    BY <1>4, <2>1 DEF FeedEnds, Swap, clusterVars
  <2>3. n.kind = "ended"
    BY <2>1
  <2>4. Placed(n, note, feeds', happened)
    BY <2>3 DEF Placed
  <2> QED
    BY <1>1, <1>2, <2>2, <2>4, OneTaken
<1>5. CASE FeedSends(m)
  <2>1. PICK at : at = feeds[m.feed].at
    OBVIOUS
  <2>2. PICK upto \in at + 1 .. Len(Events) :
          /\ feeds' = [feeds EXCEPT ![m.feed].at = upto]
          /\ Swap(m, {[kind |-> "events", feed |-> m.feed, after |-> at, upto |-> upto]})
    BY <1>5, <2>1 DEF FeedSends
  <2>3. PICK n : n = [kind |-> "events", feed |-> m.feed, after |-> at, upto |-> upto]
    OBVIOUS
  <2>4. noteOut' \subseteq (noteOut \ {m}) \cup {n}
    BY <2>2, <2>3 DEF Swap
  <2>5. n.kind = "events" /\ n.feed = m.feed /\ n.after = at /\ n.upto = upto
    BY <2>3
  <2>6. at \in 0 .. happened.upto /\ upto \in at + 1 .. happened.upto /\ happened.upto \in Nat
    <3>1. PICK R : R = [at : 0 .. happened.upto, is : {"open", "ended", "closed"}]
      OBVIOUS
    <3>2. feeds \in Seq(R)
      BY <1>2, <3>1
    <3>3. feeds[m.feed] \in R
      BY <1>3, <3>2
    <3>4. at \in 0 .. happened.upto
      BY <2>1, <3>1, <3>3
    <3>5. happened.upto \in Nat /\ Len(Events) = happened.upto
      BY <1>2, LogTyped, EventsAre DEF LogCut
    <3> QED
      BY <2>2, <3>4, <3>5
  <2>7. /\ feeds' \in Seq([at : 0 .. happened.upto, is : {"open", "ended", "closed"}])
        /\ feeds'[m.feed].at = upto
    <3>1. PICK R : R = [at : 0 .. happened.upto, is : {"open", "ended", "closed"}]
      OBVIOUS
    <3>2. PICK r : r = [feeds[m.feed] EXCEPT !.at = upto]
      OBVIOUS
    <3>3. feeds[m.feed] \in R
      BY <1>2, <1>3, <3>1, SeqAt
    <3>4. r \in R /\ r.at = upto
      BY <2>6, <3>1, <3>2, <3>3
    <3>5. feeds' = [feeds EXCEPT ![m.feed] = r]
      BY <2>2, <3>2
    <3>6. feeds \in Seq(R)
      BY <1>2, <3>1
    <3>7. feeds' \in Seq(R) /\ feeds'[m.feed] = r
      BY <1>3, <3>4, <3>5, <3>6
    <3> QED
      BY <3>1, <3>4, <3>7
  <2>8. ASSUME NEW x \in noteOut \ {m}, Carries(x) PROVE feeds'[x.feed].at = feeds[x.feed].at
    <3>1. x.feed # m.feed /\ x.feed \in DOMAIN feeds
      BY <1>1, <2>8, CarriedIs DEF FollowInv
    <3> QED
      BY <2>2, <3>1
  <2>9. ASSUME Follows(n, note) PROVE Placed(n, note, feeds', happened)
    <3>1. Follows(m, note)
      BY <1>1, <2>5, <2>9 DEF Follows
    <3>2. SentUpTo(at, note, happened)
      BY <1>1, <2>1, <3>1 DEF OnceInv, Placed
    <3> QED
      BY <2>5, <2>6, <2>7, <3>2 DEF Placed
  <2>10. /\ \A x \in noteOut \ {m} : Carries(x) /\ Follows(x, note) => feeds'[x.feed].at = feeds[x.feed].at
         /\ n \in noteOut' /\ Follows(n, note) => Placed(n, note, feeds', happened)
    BY <2>8, <2>9
  <2> QED
    BY <1>1, <2>4, <2>7, <2>10, OneTaken
<1> QED
  BY <1>4, <1>5

LEMMA TakeOpenedOnce == ASSUME FollowInv, OnceInv, NEW m \in noteOut, TakeOpened(m) PROVE OnceInv'
<1>1. NoteMessageOK(m, note.id, Len(feeds)) /\ m.kind = "opened" /\ happened' = happened
  BY DEF FollowInv, TakeOpened
<1>2. feeds \in Seq([at : 0 .. happened.upto, is : {"open", "ended", "closed"}])
  BY DEF OnceInv
<1>3. CASE m.err # "none"
  <2>1. PICK n : n = [kind |-> "again", id |-> note.id]
    OBVIOUS
  <2>2. note' = note /\ feeds' = feeds /\ noteOut' \subseteq (noteOut \ {m}) \cup {n}
    BY <1>3, <2>1 DEF TakeOpened, Swap, Again
  <2>3. n.kind = "again"
    BY <2>1
  <2>4. Placed(n, note, feeds', happened)
    BY <2>3 DEF Placed
  <2> QED
    BY <1>1, <1>2, <2>2, <2>4, OneTaken
<1>4. CASE m.err = "none" /\ m.id # note.id
  <2>1. note' = note /\ feeds' = Closed(m.feed) /\ noteOut' = noteOut \ {m}
    BY <1>4 DEF TakeOpened, Swap
  <2>2. m.feed \in DOMAIN feeds
    BY <1>1, <1>4, CarriedIs DEF Carries
  <2>3. /\ feeds' \in Seq([at : 0 .. happened.upto, is : {"open", "ended", "closed"}])
        /\ \A x \in DOMAIN feeds : feeds'[x].at = feeds[x].at
    BY <2>1, <2>2, EndedStays DEF Closed
  <2>4. noteOut' \subseteq (noteOut \ {m}) \cup {m} /\ m \notin noteOut'
    BY <2>1
  <2>5. \A x \in noteOut \ {m} : Carries(x) /\ Follows(x, note) => feeds'[x.feed].at = feeds[x.feed].at
    BY <2>3, CarriedIs
  <2> QED
    BY <1>1, <2>1, <2>3, <2>4, <2>5, OneTaken
<1>5. CASE m.err = "none" /\ m.id = note.id
  <2>1. PICK n : n = [kind |-> "wait", feed |-> m.feed]
    OBVIOUS
  <2>2. /\ note' = [note EXCEPT !.feed = m.feed, !.heard = FALSE, !.from = m.from]
        /\ noteOut' = (noteOut \ {m}) \cup {n} /\ feeds' = feeds
    BY <1>5, <2>1 DEF TakeOpened, Swap
  <2>3. n.kind = "wait" /\ n.feed = m.feed
    BY <2>1
  <2>4. note'.id = note.id /\ note'.feed = m.feed /\ note'.from = m.from /\ note'.taken = note.taken
    BY <2>2 DEF FollowInv
  <2>5. Carries(m) /\ Follows(m, note)
    BY <1>1, <1>5 DEF Carries, Follows
  <2>6. ASSUME NEW x \in noteOut \ {m} PROVE ~Follows(x, note')
    <3>1. ~Follows(x, note)
      BY <2>5, AloneFollows
    <3>2. Carries(x) => x.feed # m.feed
      BY <2>5 DEF FollowInv
    <3>3. NoteMessageOK(x, note.id, Len(feeds))
      BY DEF FollowInv
    <3> QED
      BY <2>4, <3>1, <3>2, <3>3 DEF Follows, Carries, NoteMessageOK
  <2>7. /\ GoesOnFrom(m.from, note, happened) /\ feeds[m.feed].at \in 0 .. happened.upto
        /\ \A i \in 1 .. happened.upto : happened.log[i].index < m.from <=> i <= feeds[m.feed].at
    BY <1>1, <1>5, <2>5 DEF OnceInv, Placed
  <2>8. TakenOK(note, happened) /\ LogCut(happened)
    BY DEF OnceInv
  <2>9. TakenOK(note', happened)
    BY <2>4, <2>7, <2>8 DEF TakenOK, GoesOnFrom
  <2>10. SentUpTo(feeds[m.feed].at, note', happened)
    <3>1. PICK log, upto, at : log = happened.log /\ upto = happened.upto /\ at = feeds[m.feed].at
      OBVIOUS
    <3>2. log \in Happenings /\ upto \in 0 .. Len(log) /\ Len(log) \in Nat
      BY <2>8, <3>1, LogTyped DEF LogCut
    <3>3. at \in 0 .. upto /\ m.from \in Nat /\ \A i \in 1 .. upto : log[i].index < m.from <=> i <= at
      BY <2>7, <3>1 DEF GoesOnFrom, StartsBy
    <3>4. \A i \in 1 .. upto : log[i].index \in Nat
      BY <3>2, LogTyped
    <3>5. \A i \in 1 .. at : log[i].index < m.from
      BY <3>2, <3>3
    <3>6. \A i \in at + 1 .. upto : m.from <= log[i].index
      BY <3>2, <3>3, <3>4
    <3>7. PICK taken : taken = note.taken
      OBVIOUS
    <3>8. taken \in Seq(1 .. upto) /\ \A i \in DOMAIN taken : log[taken[i]].index < note.from
      BY <2>8, <3>1, <3>7 DEF TakenOK
    <3>9. ASSUME NEW i \in DOMAIN taken PROVE taken[i] <= at
      <4>1. taken[i] \in 1 .. upto
        BY <3>8, SeqAt
      <4>2. taken # <<>>
        OBVIOUS
      <4>3. m.from = note.from
        BY <2>7, <3>7, <4>2 DEF GoesOnFrom
      <4> QED
        BY <3>3, <3>8, <4>1, <4>3
    <3> QED
      BY <2>4, <3>1, <3>3, <3>5, <3>6, <3>7, <3>9 DEF SentUpTo
  <2>11. Placed(n, note', feeds', happened)
    BY <2>2, <2>3, <2>10 DEF Placed
  <2> QED
    BY <1>1, <1>2, <2>2, <2>6, <2>8, <2>9, <2>11 DEF OnceInv
<1> QED
  BY <1>3, <1>4, <1>5

(* The next index is after what was sent.                                  *)
NextIs(next, from, upto) ==
  /\ next \in Nat /\ from <= next
  /\ \A i \in 1 .. upto : happened.log[i].index < next
  /\ next = from \/ next = happened.log[upto].index + 1

LEMMA NextFromIs ==
  ASSUME LogCut(happened), NEW from \in Nat, NEW after \in Nat,
         NEW upto \in after + 1 .. happened.upto, NEW places,
         DOMAIN places = 1 .. upto - after, \A n \in DOMAIN places : places[n] = after + n,
         NEW next, next = Max({NextFrom(from, Events[places[n]]) : n \in DOMAIN places})
  PROVE  NextIs(next, from, upto)
<1> DEFINE S == {NextFrom(from, Events[places[n]]) : n \in DOMAIN places}
<1>1. PICK log, all : log = happened.log /\ all = happened.upto
  OBVIOUS
<1>2. log \in Happenings /\ all \in 0 .. Len(log) /\ Len(log) \in Nat
  BY <1>1, LogTyped DEF LogCut
<1>3. upto \in 1 .. all /\ upto \in 1 .. Len(log)
  BY <1>1, <1>2
<1>4. \A i \in 1 .. Len(log) : log[i].index \in Nat
  BY <1>2, LogTyped
<1>5. \A i \in 1 .. upto : i \in 1 .. Len(log) /\ log[i].index <= log[upto].index
  BY <1>2, <1>3, LogTyped
<1>6. DOMAIN places = 1 .. upto - after /\ \A n \in 1 .. upto - after : places[n] = after + n
  OBVIOUS
<1>7. ASSUME NEW i \in 1 .. upto
      PROVE  /\ NextFrom(from, Events[i]) \in {from, log[i].index + 1}
             /\ from <= NextFrom(from, Events[i]) /\ log[i].index + 1 <= NextFrom(from, Events[i])
  <2>1. Events[i] = log[i]
    BY <1>1, <1>3, EventsAre
  <2>2. PICK e : e = log[i].index + 1
    OBVIOUS
  <2>3. e \in Nat /\ e = log[i].index + 1
    BY <1>4, <1>5, <2>2
  <2>4. NextFrom(from, Events[i]) = Max({from, e})
    BY <2>1, <2>2 DEF NextFrom
  <2>5. \E b \in Nat : {from, e} \subseteq 0 .. b
    BY <2>3, from + e \in Nat, {from, e} \subseteq 0 .. (from + e)
  <2>6. Max({from, e}) \in {from, e} /\ \A n \in {from, e} : n <= Max({from, e})
    BY <2>5, MaxIs
  <2> QED
    BY <2>3, <2>4, <2>6
<1>8. \A n \in DOMAIN places : places[n] \in 1 .. upto
  BY <1>3, <1>6
<1>9. \A e \in S : \E i \in 1 .. upto : e = NextFrom(from, Events[i])
  BY <1>8
<1>10. NextFrom(from, Events[upto]) \in S
  <2>1. upto - after \in DOMAIN places /\ places[upto - after] = upto
    BY <1>3, <1>6
  <2> QED
    BY <2>1
<1>11. PICK b \in Nat : b = from + log[upto].index + 1
  <2>1. PICK e : e = log[upto].index
    OBVIOUS
  <2>2. e \in Nat
    BY <1>3, <1>4, <2>1
  <2>3. from + e + 1 \in Nat
    BY <2>2
  <2> QED
    BY <2>1, <2>3
<1>12. S \subseteq 0 .. b
  <2> SUFFICES ASSUME NEW e \in S PROVE e \in 0 .. b
    OBVIOUS
  <2>1. PICK i \in 1 .. upto : e = NextFrom(from, Events[i])
    BY <1>9
  <2>2. PICK x, y : x = log[i].index /\ y = log[upto].index
    OBVIOUS
  <2>3. e = from \/ e = x + 1
    BY <1>7, <2>1, <2>2
  <2>4. x \in Nat /\ x <= y
    BY <1>4, <1>5, <2>2
  <2>5. y \in Nat /\ b = from + y + 1
    BY <1>3, <1>4, <1>11, <2>2
  <2> QED
    BY <2>3, <2>4, <2>5
<1> HIDE DEF S
<1>13. Max(S) \in S /\ \A e \in S : e <= Max(S)
  BY <1>10, <1>12, MaxIs
<1>14. next = Max(S)
  BY DEF S
<1>15. PICK i \in 1 .. upto : next = NextFrom(from, Events[i])
  BY <1>9, <1>13, <1>14
<1>16. NextFrom(from, Events[upto]) <= next /\ NextFrom(from, Events[upto]) \in Nat /\ next \in Nat
  <2>1. upto \in 1 .. upto
    BY <1>3
  <2>2. ASSUME NEW j \in 1 .. upto PROVE NextFrom(from, Events[j]) \in Nat
    <3>1. log[j].index \in Nat
      BY <1>4, <1>5
    <3> QED
      BY <1>7, <3>1
  <2>3. NextFrom(from, Events[upto]) \in Nat /\ next \in Nat
    BY <1>15, <2>1, <2>2
  <2> QED
    BY <1>10, <1>13, <1>14, <2>3
<1>17. from <= next /\ log[upto].index + 1 <= next
  <2>1. upto \in 1 .. upto /\ log[upto].index \in Nat
    BY <1>3, <1>4
  <2>2. from <= NextFrom(from, Events[upto]) /\ log[upto].index + 1 <= NextFrom(from, Events[upto])
    BY <1>7, <2>1
  <2> QED
    BY <1>16, <2>1, <2>2
<1>18. next = from \/ next = log[upto].index + 1
  <2>1. PICK x, y : x = log[i].index /\ y = log[upto].index
    OBVIOUS
  <2>2. next = from \/ next = x + 1
    BY <1>7, <1>15, <2>1
  <2>3. x \in Nat /\ x <= y /\ y \in Nat
    BY <1>3, <1>4, <1>5, <2>1
  <2>4. y + 1 <= next
    BY <1>17, <2>1
  <2> QED
    BY <2>1, <2>2, <2>3, <2>4, SMTT(30)
<1>19. \A j \in 1 .. upto : log[j].index < next
  <2> SUFFICES ASSUME NEW j \in 1 .. upto PROVE log[j].index < next
    OBVIOUS
  <2>1. log[j].index \in Nat /\ log[j].index <= log[upto].index /\ log[upto].index \in Nat
    BY <1>3, <1>4, <1>5
  <2> QED
    BY <1>16, <1>17, <2>1
<1> QED
  BY <1>1, <1>16, <1>17, <1>18, <1>19 DEF NextIs

LEMMA SeqOfFunction ==
  ASSUME NEW S, NEW k \in Nat, NEW f \in [1 .. k -> S]
  PROVE  f \in Seq(S) /\ Len(f) = k
  OBVIOUS

(* A stretch that goes on behind a sequence.                               *)
Stretches(s, both, after, upto) ==
  /\ both # <<>>
  /\ \A i \in DOMAIN both :
       \/ i \in DOMAIN s /\ both[i] = s[i]
       \/ i \in Len(s) + 1 .. Len(both) /\ both[i] = after + (i - Len(s)) /\ both[i] <= upto
  /\ \A i \in DOMAIN s : i \in DOMAIN both /\ both[i] = s[i]
  /\ \A p \in after + 1 .. upto : \E i \in DOMAIN both : both[i] = p
  /\ both[1] = IF s = <<>> THEN after + 1 ELSE s[1]

LEMMA Stretched ==
  ASSUME NEW S, NEW s \in Seq(S), NEW after \in Nat, NEW upto \in Nat, NEW k \in Nat,
         k = upto - after, k > 0, NEW len \in Nat, len = Len(s),
         NEW both \in Seq(S), Len(both) = len + k,
         \A i : i \in 1 .. len => both[i] = s[i],
         \A i : i \in len + 1 .. len + k => both[i] = after + (i - len)
  PROVE  Stretches(s, both, after, upto)
<1>1. DOMAIN both = 1 .. len + k /\ DOMAIN s = 1 .. len
  OBVIOUS
<1>2. \A i \in len + 1 .. len + k : after + (i - len) <= upto
  OBVIOUS
<1>3. ASSUME NEW p \in after + 1 .. upto PROVE \E i \in DOMAIN both : both[i] = p
  <2>1. PICK i : i = len + (p - after)
    OBVIOUS
  <2>2. i \in len + 1 .. len + k /\ after + (i - len) = p
    BY <2>1
  <2>3. i \in DOMAIN both
    BY <1>1, <2>2
  <2>4. both[i] = p
    BY <2>2
  <2> QED
    BY <2>3, <2>4
<1>4. both[1] = IF s = <<>> THEN after + 1 ELSE s[1]
  <2>1. CASE len = 0
    <3>1. s = <<>>
      BY <2>1, EmptySeq
    <3>2. 1 \in len + 1 .. len + k /\ after + (1 - len) = after + 1
      BY <2>1
    <3>3. both[1] = after + (1 - len)
      BY <3>2, Zenon
    <3> QED
      BY <3>1, <3>2, <3>3
  <2>2. CASE len # 0
    <3>1. s # <<>> /\ 1 \in 1 .. len
      BY <2>2
    <3> QED
      BY <3>1
  <2> QED
    BY <2>1, <2>2
<1>5. both # <<>>
  <2>1. 1 \in DOMAIN both
    BY <1>1
  <2> QED
    BY <2>1
<1>6. \A i \in DOMAIN both :
         \/ i \in DOMAIN s /\ both[i] = s[i]
         \/ i \in Len(s) + 1 .. Len(both) /\ both[i] = after + (i - Len(s)) /\ both[i] <= upto
  <2> SUFFICES ASSUME NEW i \in 1 .. len + k
      PROVE  \/ i \in 1 .. len /\ both[i] = s[i]
             \/ i \in len + 1 .. len + k /\ both[i] = after + (i - len) /\ both[i] <= upto
    BY <1>1
  <2>1. CASE i <= len
    <3>1. i \in 1 .. len
      BY <2>1
    <3> QED
      BY <3>1, Zenon
  <2>2. CASE ~(i <= len)
    <3>1. i \in len + 1 .. len + k
      BY <2>2
    <3>2. both[i] = after + (i - len)
      BY <3>1, Zenon
    <3> QED
      BY <1>2, <3>1, <3>2, Zenon
  <2> QED
    BY <2>1, <2>2
<1>7. \A i \in DOMAIN s : i \in DOMAIN both /\ both[i] = s[i]
  BY <1>1
<1> QED
  BY <1>3, <1>4, <1>5, <1>6, <1>7 DEF Stretches

(* What comes after what was taken is taken, in its order.                 *)
LEMMA TakenTogether ==
  ASSUME NEW b \in Nat, NEW taken \in Seq(1 .. b), NEW after \in Nat, NEW upto \in after + 1 .. b,
         NEW both, both = taken \o [n \in 1 .. upto - after |-> after + n]
  PROVE  both \in Seq(1 .. b) /\ Stretches(taken, both, after, upto)
<1>1. PICK S : S = 1 .. b
  OBVIOUS
<1>2. PICK k \in Nat : k = upto - after /\ k > 0
  OBVIOUS
<1>3. PICK places : places = [n \in 1 .. k |-> after + n]
  OBVIOUS
<1>4. places \in [1 .. k -> S]
  BY <1>1, <1>2, <1>3
<1>5. places \in Seq(S) /\ Len(places) = k /\ \A n \in 1 .. k : places[n] = after + n
  BY <1>3, <1>4, SeqOfFunction
<1>6. both = taken \o places
  BY <1>2, <1>3
<1>7. taken \in Seq(S)
  BY <1>1
<1>8. PICK len \in Nat : len = Len(taken)
  BY <1>7, LenProperties
<1>9. /\ both \in Seq(S) /\ Len(both) = len + k
      /\ \A i \in 1 .. len + k : both[i] = IF i <= len THEN taken[i] ELSE places[i - len]
  <2>1. /\ taken \o places \in Seq(S) /\ Len(taken \o places) = Len(taken) + Len(places)
        /\ \A i \in 1 .. Len(taken) + Len(places) :
             (taken \o places)[i] = IF i <= Len(taken) THEN taken[i] ELSE places[i - Len(taken)]
    BY <1>5, <1>7, ConcatProperties, Zenon
  <2>2. Len(taken) = len /\ Len(places) = k
    BY <1>5, <1>8
  <2> QED
    BY <1>6, <2>1, <2>2, Zenon
<1>10. ASSUME NEW i \in len + 1 .. len + k PROVE both[i] = after + (i - len)
  <2>1. i \in 1 .. len + k /\ ~(i <= len) /\ i - len \in 1 .. k
    OBVIOUS
  <2>2. both[i] = places[i - len]
    BY <1>9, <2>1, Zenon
  <2> QED
    BY <1>5, <2>1, <2>2, Zenon
<1>11. ASSUME NEW i \in 1 .. len PROVE both[i] = taken[i]
  <2>1. i \in 1 .. len + k /\ i <= len
    OBVIOUS
  <2> QED
    BY <1>9, <2>1, Zenon
<1>12. upto \in Nat
  OBVIOUS
<1>13. Len(both) = len + k /\ both \in Seq(S)
  BY <1>9
<1>14. \A i : i \in 1 .. len => both[i] = taken[i]
  BY <1>11, Zenon
<1>15. \A i : i \in len + 1 .. len + k => both[i] = after + (i - len)
  BY <1>10, Zenon
<1>16. Stretches(taken, both, after, upto)
  <2>1. k = upto - after /\ k > 0 /\ len = Len(taken) /\ Len(both) = len + k
    BY <1>2, <1>8, <1>13
  <2> QED
    BY <2>1, <1>2, <1>7, <1>8, <1>12, <1>13, <1>14, <1>15, Stretched, ZenonT(60)
<1> QED
  BY <1>1, <1>13, <1>16, Zenon

LEMMA TakeEventsOnce == ASSUME FollowInv, OnceInv, NEW m \in noteOut, TakeEvents(m) PROVE OnceInv'
<1>1. m.kind = "events" /\ m.feed = note.feed /\ feeds' = feeds /\ happened' = happened
  BY DEF TakeEvents, clusterVars
<1>2. Carries(m) /\ Follows(m, note)
  BY <1>1 DEF Carries, Follows
<1>3. LogCut(happened) /\ TakenOK(note, happened) /\ Placed(m, note, feeds, happened)
  BY <1>2 DEF OnceInv
<1>4. PICK log, all : log = happened.log /\ all = happened.upto
  OBVIOUS
<1>5. PICK from, taken, after, upto : from = note.from /\ taken = note.taken /\ after = m.after /\ upto = m.upto
  OBVIOUS
<1>6. PICK places : places = [n \in 1 .. upto - after |-> after + n]
  OBVIOUS
<1>7. PICK next : next = Max({NextFrom(from, Events[places[n]]) : n \in DOMAIN places})
  OBVIOUS
<1>8. PICK both : both = taken \o [n \in 1 .. upto - after |-> after + n]
  OBVIOUS
<1>9. PICK n : n = [kind |-> "wait", feed |-> m.feed]
  OBVIOUS
<1>10. noteOut' = (noteOut \ {m}) \cup {n}
  BY <1>9 DEF TakeEvents, Swap
<1>11. PICK failing : note' = [note EXCEPT !.heard = TRUE, !.failing = failing, !.from = next, !.taken = both]
  BY <1>5, <1>6, <1>7, <1>8 DEF TakeEvents
<1>12. n.kind = "wait" /\ n.feed = m.feed
  BY <1>9
<1>13. note'.id = note.id /\ note'.feed = note.feed /\ note'.from = next /\ note'.taken = both
  BY <1>11 DEF FollowInv
<1>14. log \in Happenings /\ all \in 0 .. Len(log) /\ Len(log) \in Nat /\ all \in Nat
  BY <1>3, <1>4, LogTyped DEF LogCut
<1>15. \A i, j \in 1 .. all : log[i].index \in Nat /\ (i <= j => log[i].index <= log[j].index)
  BY <1>14, LogTyped
<1>16. \A i \in 1 .. all : \A j \in all + 1 .. Len(log) : log[i].index < log[j].index
  BY <1>3, <1>4 DEF LogCut
<1>17. /\ from \in Nat /\ taken \in Seq(1 .. all) /\ \A j \in all + 1 .. Len(log) : from <= log[j].index
       /\ \A i, j \in DOMAIN taken : i < j => taken[i] < taken[j]
       /\ \A i \in DOMAIN taken : log[taken[i]].index < from
       /\ taken # <<>> => \A p \in 1 .. all :
            log[taken[1]].index <= log[p].index /\ log[p].index < from =>
              \E i \in DOMAIN taken : log[taken[i]].index = log[p].index
  BY <1>3, <1>4, <1>5 DEF TakenOK, StartsBy
<1>18. /\ after \in 0 .. all /\ upto \in after + 1 .. all /\ feeds[m.feed].at = upto
       /\ \A i \in 1 .. after : log[i].index < from
       /\ taken = <<>> => \A i \in after + 1 .. all : from <= log[i].index
       /\ \A i \in DOMAIN taken : taken[i] <= after
  BY <1>1, <1>3, <1>4, <1>5 DEF Placed, SentUpTo
<1>19. after \in Nat /\ upto \in 1 .. all /\ upto \in Nat /\ after + 1 <= upto
  BY <1>14, <1>18
<1>20. both \in Seq(1 .. all) /\ Stretches(taken, both, after, upto)
  BY <1>8, <1>14, <1>17, <1>18, <1>19, TakenTogether
<1>21. /\ next \in Nat /\ from <= next /\ \A i \in 1 .. upto : log[i].index < next
       /\ next = from \/ next = log[upto].index + 1
  <2>1. upto \in after + 1 .. happened.upto /\ after \in Nat /\ from \in Nat
    BY <1>4, <1>17, <1>18, <1>19
  <2>2. DOMAIN places = 1 .. upto - after /\ \A p \in DOMAIN places : places[p] = after + p
    BY <1>6
  <2>3. NextIs(next, from, upto)
    BY <1>3, <1>7, <2>1, <2>2, NextFromIs, Zenon
  <2> QED
    BY <1>4, <2>3 DEF NextIs
<1>22. \A i \in DOMAIN taken : taken[i] \in 1 .. all
  BY <1>17, SeqAt
<1>23. ASSUME NEW i \in DOMAIN both PROVE both[i] \in 1 .. upto
  <2>1. both[i] \in 1 .. all
    BY <1>20, SeqAt
  <2>2. both[i] <= upto
    <3>1. CASE i \in DOMAIN taken /\ both[i] = taken[i]
      BY <1>18, <1>19, <1>22, <3>1
    <3>2. CASE both[i] <= upto
      BY <3>2
    <3> QED
      BY <1>20, <3>1, <3>2 DEF Stretches
  <2> QED
    BY <1>19, <2>1, <2>2
<1>24. ASSUME NEW i \in DOMAIN both, NEW j \in DOMAIN both, i < j PROVE both[i] < both[j]
  <2>1. PICK S : S = 1 .. all
    OBVIOUS
  <2>2. both \in Seq(S) /\ taken \in Seq(S)
    BY <1>17, <1>20, <2>1
  <2>3. PICK len : len = Len(taken)
    OBVIOUS
  <2>4. len \in Nat /\ DOMAIN taken = 1 .. len /\ i \in Nat /\ j \in Nat
    BY <2>2, <2>3
  <2>5. CASE i \in DOMAIN taken /\ both[i] = taken[i] /\ j \in DOMAIN taken /\ both[j] = taken[j]
    BY <1>17, <1>24, <2>5
  <2>6. CASE i \in DOMAIN taken /\ both[i] = taken[i] /\ both[j] = after + (j - len) /\ j \in len + 1 .. Len(both)
    <3>1. taken[i] <= after /\ taken[i] \in Nat
      BY <1>18, <1>22, <2>6
    <3> QED
      BY <1>19, <2>4, <2>6, <3>1
  <2>7. CASE /\ both[i] = after + (i - len) /\ i \in len + 1 .. Len(both)
             /\ both[j] = after + (j - len)
    BY <1>19, <1>24, <2>4, <2>7
  <2>8. CASE i \in len + 1 .. Len(both) /\ j \in DOMAIN taken
    BY <1>24, <2>4, <2>8
  <2> QED
    BY <1>20, <2>3, <2>5, <2>6, <2>7, <2>8 DEF Stretches
<1>25. ASSUME NEW p \in 1 .. all, log[both[1]].index <= log[p].index, log[p].index < next
       PROVE  \E i \in DOMAIN both : log[both[i]].index = log[p].index
  <2>1. log[p].index \in Nat /\ log[upto].index \in Nat /\ \A i \in 1 .. all : log[i].index \in Nat
    BY <1>15, <1>19
  <2>2. CASE p \in after + 1 .. upto
    BY <1>20, <2>2 DEF Stretches
  <2>3. CASE upto < p
    <3>1. log[upto].index <= log[p].index
      BY <1>15, <1>19, <2>3
    <3>2. CASE next = log[upto].index + 1
      <4>1. log[p].index = log[upto].index
        BY <1>25, <2>1, <3>1, <3>2
      <4>2. upto \in after + 1 .. upto
        BY <1>19
      <4>3. PICK i \in DOMAIN both : both[i] = upto
        BY <1>20, <4>2 DEF Stretches
      <4> QED
        BY <4>1, <4>3
    <3>3. CASE next = from
      <4>1. p \in after + 1 .. all
        BY <1>14, <1>19, <2>3
      <4>2. taken # <<>>
        BY <1>17, <1>18, <1>25, <2>1, <3>3, <4>1
      <4>3. log[taken[1]].index <= log[p].index /\ log[p].index < from
        BY <1>20, <1>25, <3>3, <4>2 DEF Stretches
      <4>4. PICK i \in DOMAIN taken : log[taken[i]].index = log[p].index
        BY <1>17, <4>2, <4>3
      <4> QED
        BY <1>20, <4>4 DEF Stretches
    <3> QED
      BY <1>21, <3>2, <3>3
  <2>4. CASE p <= after
    <3>1. log[p].index < from
      BY <1>18, <1>19, <2>4
    <3>2. CASE taken # <<>>
      <4>1. log[taken[1]].index <= log[p].index
        BY <1>20, <1>25, <3>2 DEF Stretches
      <4>2. PICK i \in DOMAIN taken : log[taken[i]].index = log[p].index
        BY <1>17, <3>1, <3>2, <4>1
      <4> QED
        BY <1>20, <4>2 DEF Stretches
    <3>3. CASE taken = <<>>
      <4>1. both[1] = after + 1
        BY <1>20, <3>3 DEF Stretches
      <4>2. after + 1 \in 1 .. all /\ p <= after + 1
        BY <1>14, <1>18, <1>19, <2>4
      <4>3. log[p].index <= log[after + 1].index /\ log[after + 1].index \in Nat
        BY <1>15, <4>2
      <4>4. log[p].index = log[after + 1].index
        BY <1>25, <2>1, <4>1, <4>3
      <4>5. after + 1 \in after + 1 .. upto
        BY <1>19
      <4>6. PICK i \in DOMAIN both : both[i] = after + 1
        BY <1>20, <4>5 DEF Stretches
      <4> QED
        BY <4>4, <4>6
    <3> QED
      BY <3>2, <3>3
  <2> QED
    BY <1>19, <2>2, <2>3, <2>4
<1>26. \A j \in all + 1 .. Len(log) : next <= log[j].index
  <2> SUFFICES ASSUME NEW j \in all + 1 .. Len(log) PROVE next <= log[j].index
    OBVIOUS
  <2>1. log[upto].index < log[j].index /\ from <= log[j].index
    BY <1>16, <1>17, <1>19
  <2>2. log[upto].index \in Nat /\ log[j].index \in Nat
    <3>1. j \in 1 .. Len(log)
      BY <1>14
    <3> QED
      BY <1>14, <1>15, <1>19, <3>1, LogTyped
  <2> QED
    BY <1>17, <1>21, <2>1, <2>2
<1>27. \A i \in DOMAIN both : log[both[i]].index < next
  BY <1>21, <1>23
<1>28. TakenOK(note', happened)
  BY <1>4, <1>13, <1>20, <1>21, <1>24, <1>25, <1>26, <1>27 DEF TakenOK, StartsBy
<1>29. SentUpTo(upto, note', happened)
  <2>1. upto \in 0 .. all /\ both # <<>> /\ \A i \in DOMAIN both : both[i] <= upto
    BY <1>14, <1>19, <1>20, <1>23 DEF Stretches
  <2> QED
    BY <1>4, <1>13, <1>21, <2>1 DEF SentUpTo
<1>30. Placed(n, note', feeds', happened)
  BY <1>1, <1>12, <1>18, <1>29 DEF Placed
<1>31. \A x \in noteOut \ {m} : ~Follows(x, note')
  BY <1>2, <1>13, AloneFollows DEF Follows
<1>32. feeds' \in Seq([at : 0 .. happened.upto, is : {"open", "ended", "closed"}])
  BY <1>1 DEF OnceInv
<1> QED
  BY <1>1, <1>3, <1>10, <1>28, <1>30, <1>31, <1>32 DEF OnceInv

LEMMA TakeEndedOnce == ASSUME FollowInv, OnceInv, NEW m \in noteOut, TakeEnded(m) PROVE OnceInv'
<1>1. PICK n : n = [kind |-> "again", id |-> note.id]
  OBVIOUS
<1>2. /\ m.kind = "ended" /\ m.feed = note.feed /\ note' = [note EXCEPT !.feed = NoFeed]
      /\ feeds' = Stopped /\ noteOut' \subseteq (noteOut \ {m}) \cup {n} /\ happened' = happened
  BY <1>1 DEF TakeEnded, Swap, Again
<1>3. n.kind = "again"
  BY <1>1
<1>4. note'.id = note.id /\ note'.feed = 0 /\ note'.from = note.from /\ note'.taken = note.taken
  BY <1>2 DEF FollowInv, NoFeed
<1>5. Follows(m, note)
  BY <1>2 DEF Follows
<1>6. ASSUME NEW x \in noteOut \ {m} PROVE ~Follows(x, note')
  <2>1. ~Follows(x, note) /\ NoteMessageOK(x, note.id, Len(feeds))
    BY <1>5, AloneFollows DEF FollowInv
  <2> QED
    BY <1>4, <2>1 DEF Follows, NoteMessageOK, Carries
<1>7. Placed(n, note', feeds', happened)
  BY <1>3 DEF Placed
<1>8. LogCut(happened) /\ TakenOK(note', happened)
  BY <1>4 DEF OnceInv, TakenOK
<1>9. feeds' \in Seq([at : 0 .. happened.upto, is : {"open", "ended", "closed"}])
  BY <1>2, StoppedStays
<1> QED
  BY <1>2, <1>6, <1>7, <1>8, <1>9 DEF OnceInv

LEMMA TakeAgainOnce ==
  ASSUME FollowInv, OnceInv, NEW m \in noteOut, TakeAgain(m) \/ TakeStale(m)
  PROVE  OnceInv'
<1>1. PICK n : n = [kind |-> "open", id |-> note.id, from |-> note.from]
  OBVIOUS
<1>2. /\ note' = note /\ happened' = happened /\ feeds' = feeds
      /\ noteOut' \subseteq (noteOut \ {m}) \cup {n}
  BY <1>1 DEF TakeAgain, TakeStale, Swap, clusterVars
<1>3. n.kind = "open" /\ n.from = note.from
  BY <1>1
<1>4. Placed(n, note, feeds', happened)
  BY <1>3 DEF Placed, GoesOnFrom, OnceInv, TakenOK
<1>5. feeds' \in Seq([at : 0 .. happened.upto, is : {"open", "ended", "closed"}])
  BY <1>2 DEF OnceInv
<1> QED
  BY <1>2, <1>4, <1>5, OneTaken

LEMMA OnceStart == NoteInit => OnceInv
<1> SUFFICES ASSUME NoteInit PROVE OnceInv
  OBVIOUS
<1>1. PICK n : n = [kind |-> "open", id |-> 0, from |-> 0]
  OBVIOUS
<1>2. note = NewNote(0) /\ feeds = <<>> /\ noteOut = {n} /\ happened \in [log : Happenings, upto : {0}]
  BY <1>1 DEF NoteInit
<1>3. n.kind = "open" /\ n.from = 0
  BY <1>1
<1>4. note.from = 0 /\ note.taken = <<>>
  BY <1>2 DEF NewNote
<1>5. PICK log : log = happened.log
  OBVIOUS
<1>6. log \in Happenings /\ happened.upto = 0 /\ happened = [log |-> happened.log, upto |-> happened.upto]
  BY <1>2, <1>5
<1>7. Len(log) \in Nat /\ \A j \in 1 .. Len(log) : log[j].index \in Nat
  BY <1>6, LogTyped
<1>8. LogCut(happened)
  BY <1>5, <1>6, <1>7 DEF LogCut
<1>9. StartsBy(0, happened)
  <2>1. \A j \in 0 + 1 .. Len(log) : 0 <= log[j].index
    BY <1>7
  <2> QED
    BY <1>5, <1>6, <2>1 DEF StartsBy
<1>10. TakenOK(note, happened)
  BY <1>4, <1>9 DEF TakenOK
<1>11. Placed(n, note, feeds, happened)
  BY <1>3, <1>4, <1>9 DEF Placed, GoesOnFrom
<1> QED
  BY <1>2, <1>8, <1>10, <1>11 DEF OnceInv

LEMMA OnceStep == FollowInv /\ OnceInv /\ [NoteNext]_noteVars => OnceInv'
<1> SUFFICES ASSUME FollowInv, OnceInv, [NoteNext]_noteVars PROVE OnceInv'
  OBVIOUS
<1>1. ASSUME note' = note, noteOut' = noteOut, feeds' = feeds, happened' = happened PROVE OnceInv'
  BY <1>1 DEF OnceInv
<1>2. CASE MessageShown \/ ReadAnswered \/ ScreenEntered \/ \E at \in timers : TimeIsUp(at)
  BY <1>1, <1>2 DEF MessageShown, ReadAnswered, ScreenEntered, TimeIsUp, clusterVars
<1>3. CASE Happens \/ Restart \/ \E f \in DOMAIN feeds : FeedDrops(f)
  BY <1>3, HappensOnce, RestartOnce, DropsOnce
<1>4. ASSUME NEW m \in noteOut,
             \/ AsksIndex(m) \/ OpensFeed(m) \/ OpenFails(m) \/ FeedSends(m) \/ FeedEnds(m)
             \/ TakeOpened(m) \/ TakeEvents(m) \/ TakeEnded(m) \/ TakeAgain(m) \/ TakeStale(m)
      PROVE  OnceInv'
  BY <1>4, RequestOnce, StreamOnce, TakeOpenedOnce, TakeEventsOnce, TakeEndedOnce, TakeAgainOnce
<1>5. CASE UNCHANGED noteVars
  BY <1>1, <1>5 DEF noteVars
<1> QED
  BY <1>2, <1>3, <1>4, <1>5 DEF NoteNext

LEMMA OnceImplies == OnceInv => EachEventOnce
<1> SUFFICES ASSUME OnceInv PROVE EachEventOnce
  OBVIOUS
<1>1. PICK log, all, taken, from : log = happened.log /\ all = happened.upto /\ taken = note.taken /\ from = note.from
  OBVIOUS
<1>2. LogCut(happened) /\ TakenOK(note, happened)
  BY DEF OnceInv
<1>3. DOMAIN Events = 1 .. all /\ \A i \in 1 .. all : Events[i] = log[i]
  BY <1>1, <1>2, EventsAre
<1>4. taken \in Seq(1 .. all) /\ \A i, j \in DOMAIN taken : i < j => taken[i] < taken[j]
  BY <1>1, <1>2 DEF TakenOK
<1>5. \A i \in DOMAIN taken : taken[i] \in 1 .. all
  BY <1>4, SeqAt
<1>6. \A i \in 1 .. all : log[i].index \in Nat
  <2>1. log \in Happenings /\ all \in 0 .. Len(log)
    BY <1>1, <1>2 DEF LogCut
  <2> QED
    BY <2>1, LogTyped
<1>7. ASSUME taken # <<>>
      PROVE  {Events[p].index : p \in ToSet(taken)} =
               {e \in {Events[p].index : p \in DOMAIN Events} : e >= Events[taken[1]].index /\ e < from}
  <2>1. PICK S : S = 1 .. all
    OBVIOUS
  <2>2. taken \in Seq(S)
    BY <1>4, <2>1
  <2>3. 1 \in DOMAIN taken /\ \A i \in DOMAIN taken : i \in Nat /\ 1 <= i
    BY <1>7, <2>2
  <2>4. ToSet(taken) = {taken[i] : i \in DOMAIN taken}
    BY DEF ToSet
  <2>5. /\ \A i \in DOMAIN taken : log[taken[i]].index < from
        /\ \A p \in 1 .. all : log[taken[1]].index <= log[p].index /\ log[p].index < from =>
             \E i \in DOMAIN taken : log[taken[i]].index = log[p].index
    BY <1>1, <1>2, <1>7 DEF TakenOK
  <2>6. taken[1] \in 1 .. all
    BY <1>5, <2>3
  <2>7. ASSUME NEW i \in DOMAIN taken PROVE log[taken[1]].index <= log[taken[i]].index
    <3>1. taken[1] <= taken[i]
      BY <1>4, <1>5, <2>3, <2>6
    <3>2. log \in Happenings /\ taken[1] \in 1 .. Len(log) /\ taken[i] \in 1 .. Len(log)
      BY <1>1, <1>2, <1>5, <2>6, LogTyped DEF LogCut
    <3> QED
      BY <3>1, <3>2, LogTyped
  <2>8. ASSUME NEW i \in DOMAIN taken
        PROVE  /\ taken[i] \in DOMAIN Events /\ Events[taken[i]].index = log[taken[i]].index
               /\ Events[taken[i]].index >= Events[taken[1]].index /\ Events[taken[i]].index < from
    <3>1. taken[i] \in 1 .. all
      BY <1>5
    <3>2. Events[taken[i]].index = log[taken[i]].index /\ Events[taken[1]].index = log[taken[1]].index
      BY <1>3, <2>6, <3>1
    <3>3. log[taken[i]].index \in Nat /\ log[taken[1]].index \in Nat
      BY <1>6, <2>6, <3>1
    <3> QED
      BY <1>3, <2>5, <2>7, <3>1, <3>2, <3>3
  <2>9. ASSUME NEW p \in DOMAIN Events, Events[p].index >= Events[taken[1]].index, Events[p].index < from
        PROVE  \E i \in DOMAIN taken : Events[taken[i]].index = Events[p].index
    <3>1. p \in 1 .. all /\ Events[p].index = log[p].index /\ Events[taken[1]].index = log[taken[1]].index
      BY <1>3, <2>6
    <3>2. log[p].index \in Nat /\ log[taken[1]].index \in Nat
      BY <1>6, <2>6, <3>1
    <3>3. PICK i \in DOMAIN taken : log[taken[i]].index = log[p].index
      BY <2>5, <2>9, <3>1, <3>2
    <3> QED
      BY <2>8, <3>1, <3>3
  <2> QED
    BY <2>4, <2>8, <2>9
<1> QED
  BY <1>1, <1>4, <1>7 DEF EachEventOnce

(* For any log of events and however often streams are dropped and opened, *)
(* the note takes the events in their order and each once, and where the   *)
(* next stream starts no index since the first is missing (open,           *)
(* takeNoteOpened, takeNoteEvents).                                        *)
THEOREM TakesEachOnce == NoteInit /\ [][NoteNext]_noteVars => []EachEventOnce
BY FollowStart, FollowStep, OnceStart, OnceStep, OnceImplies, PTL
=============================================================================
