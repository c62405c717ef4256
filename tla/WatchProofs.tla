---------------------------- MODULE WatchProofs ----------------------------
(* Theorems of Watch, for every page, topic and bound: types, that a screen *)
(* never falls silent, that what it is told and what it asks for keep step, *)
(* and that no change is lost on a page whose read needs no limits.         *)
EXTENDS Watch, Extrema, FiniteSetTheorems, TLAPS

-----------------------------------------------------------------------------
(* What the operators of the watch return.                                  *)

LEMMA IndexType ==
  /\ EveryIndex \in Nat /\ Unread \in 0 .. EveryIndex
  /\ Index \subseteq 0 .. EveryIndex
  /\ 0 .. MaxIndex \subseteq 0 .. EveryIndex
BY BoundsAssumption DEF EveryIndex, Unread, Index

LEMMA TableIndexType ==
  ASSUME TypeOK, NEW t
  PROVE  TableIndex(t) \in 1 .. Len(log)
<1> DEFINE S == {1} \cup {i \in DOMAIN log : log[i].topic = t}
<1>1. Len(log) \in Nat /\ DOMAIN log = 1 .. Len(log) /\ 1 <= Len(log)
  BY DEF TypeOK, Index
<1>2. S \in SUBSET (0 .. Len(log)) /\ S # {} /\ S \subseteq 1 .. Len(log)
  BY <1>1
<1> HIDE DEF S
<1>3. Max(S) \in S
  BY <1>1, <1>2, MaxIs
<1> QED
  BY <1>2, <1>3 DEF TableIndex, S

LEMMA MaxOfTwo ==
  ASSUME NEW i \in 0 .. MaxIndex, NEW j \in 0 .. MaxIndex
  PROVE  Max({i, j}) \in 0 .. MaxIndex /\ i <= Max({i, j}) /\ j <= Max({i, j})
BY MaxIs, BoundsAssumption

LEMMA KeepType ==
  ASSUME NEW w \in WatchState, NEW t \in Topics, NEW i \in 0 .. MaxIndex
  PROVE  Keep(w, t, i) \in WatchState /\ Await(w, t, i) \in WatchState
<1>1. w.newest[t] \in 0 .. MaxIndex
  BY DEF WatchState
<1>2. Max({w.newest[t], i}) \in 0 .. MaxIndex
  BY <1>1, MaxOfTwo
<1>3. Keep(w, t, i) \in WatchState
  BY <1>2 DEF Keep, WatchState
<1> QED
  BY <1>3 DEF Await, WatchState

LEMMA WasType ==
  ASSUME NEW w \in WatchState, NEW t \in Topics
  PROVE  Was(w, t) \in 0 .. MaxIndex
BY BoundsAssumption DEF Was, WatchState, EveryIndex

LEMMA KeepReadType ==
  ASSUME NEW w \in WatchState, NEW read \in [Topics -> 0 .. EveryIndex]
  PROVE  KeepRead(w, read) \in WatchState
<1> DEFINE noted == {t \in Topics : read[t] # Unread}
           back  == {t \in noted : read[t] < Was(w, t)}
           newRead == [t \in Topics |-> IF t \in noted THEN read[t] ELSE w.read[t]]
           newest == [t \in Topics |-> IF t \in back THEN Max({w.newest[t], Was(w, t)})
                                                     ELSE w.newest[t]]
<1>1. newRead \in [Topics -> 0 .. EveryIndex]
  BY DEF WatchState
<1>2. \A t \in Topics : w.newest[t] \in 0 .. MaxIndex /\ Was(w, t) \in 0 .. MaxIndex
  BY WasType DEF WatchState
<1>3. \A t \in Topics : Max({w.newest[t], Was(w, t)}) \in 0 .. MaxIndex
  BY <1>2, MaxOfTwo
<1>4. newest \in [Topics -> 0 .. MaxIndex]
  BY <1>2, <1>3
<1>5. (w.settling \/ back # {}) \in BOOLEAN
  OBVIOUS
<1>6. KeepRead(w, read) =
        [w EXCEPT !.read = newRead, !.newest = newest, !.settling = w.settling \/ back # {}]
  BY DEF KeepRead
<1> HIDE DEF newRead, newest, back
<1> QED
  BY <1>1, <1>4, <1>5, <1>6 DEF WatchState

LEMMA EnteredType ==
  ASSUME NEW w \in WatchState
  PROVE  End(w) \in WatchState /\ Entered(w) \in WatchState
<1>1. NoStream \in [topics : SUBSET Topics, next : 0 .. EveryIndex]
  BY IndexType DEF NoStream, Unread
<1>2. End(w) \in WatchState
  <2>1. w.id \in Nat /\ w.id + 1 \in Nat
    BY DEF WatchState
  <2> QED
    BY <1>1, <2>1 DEF End, WatchState
<1>3. [t \in Topics |-> Unread] \in [Topics -> 0 .. EveryIndex]
  BY IndexType
<1>4. [t \in Topics |-> 0] \in [Topics -> 0 .. MaxIndex]
  BY BoundsAssumption
<1>5. Entered(w) \in WatchState
  BY <1>2, <1>3, <1>4 DEF Entered, WatchState
<1> QED
  BY <1>2, <1>5

LEMMA FromType ==
  ASSUME NEW w \in WatchState, NEW topics \in SUBSET Topics, topics # {}
  PROVE  From(w, topics) \in 0 .. EveryIndex
<1> DEFINE S == {w.read[t] : t \in topics}
<1>1. S \in SUBSET (0 .. EveryIndex) /\ S # {}
  BY DEF WatchState
<1>2. S \in SUBSET Nat
  BY <1>1
<1> HIDE DEF S
<1>3. Min(S) \in 0 .. EveryIndex
  BY <1>1, <1>2, MinIs
<1>4. From(w, topics) = IF Min(S) \in {Unread, EveryIndex} THEN 0 ELSE Min(S) + 1
  BY DEF From, S
<1> QED
  BY <1>3, <1>4, IndexType

LEMMA WatchScreenType ==
  ASSUME TypeOK, NEW w \in WatchState, NEW v
  PROVE  /\ WatchScreen(w, v) \subseteq StreamRequest
         /\ \A o \in WatchScreen(w, v) : o.id = w.id
<1> DEFINE topics == IF w.fewer /\ Fewer[page] # {} THEN Fewer[page] ELSE PageTopics[page]
<1>1. topics \in SUBSET Topics
  BY PagesAssumption DEF TypeOK
<1>2. CASE topics = {} \/ ~Streams(v, topics)
  BY <1>2 DEF WatchScreen
<1>3. CASE ~(topics = {} \/ ~Streams(v, topics))
  <2>1. WatchScreen(w, v) = {[id |-> w.id, topics |-> topics, from |-> From(w, topics)]}
    BY <1>3 DEF WatchScreen
  <2>2. From(w, topics) \in 0 .. EveryIndex
    BY <1>1, <1>3, FromType
  <2>3. w.id \in Nat
    BY DEF WatchState
  <2> QED
    BY <1>1, <1>3, <2>1, <2>2, <2>3 DEF StreamRequest
<1> QED
  BY <1>2, <1>3

(* The reads that are sent have their type, and one of them is out.         *)
LEMMA SentType ==
  ASSUME NEW p \in Pages, NEW reads \in [Slots -> Read], NEW free \in SUBSET Slots,
         NEW out \in Places(p, free), NEW a \in 0 .. MaxAsked
  PROVE  /\ Sent(reads, out, a) \in [Slots -> Read]
         /\ \E s \in Slots : Sent(reads, out, a)[s].out /\ Sent(reads, out, a)[s].asked = a
<1>1. out \in [Requests[p] -> free] /\ DOMAIN out = Requests[p]
  BY DEF Places, Injection
<1>2. Requests[p] \subseteq Seq(Topics \cup {Limits}) /\ Requests[p] # {}
  BY PagesAssumption
<1>3. \A s \in Range(out) : AntiFunction(out)[s] \in Seq(Topics \cup {Limits})
  <2>1. TAKE s \in Range(out)
  <2>2. PICK q \in Requests[p] : out[q] = s
    BY <1>1 DEF Range
  <2>3. AntiFunction(out)[s] = CHOOSE r \in Requests[p] : s \in Range(out) => out[r] = s
    BY <1>1 DEF AntiFunction, Inverse
  <2> QED
    BY <1>2, <2>2, <2>3
<1>4. Idle \in Read
  <2>1. <<>> \in Seq(Topics \cup {Limits}) /\ 0 \in 0 .. MaxAsked
    BY BoundsAssumption
  <2>2. [t \in Topics |-> Unread] \in [Topics -> 0 .. EveryIndex]
    BY IndexType
  <2> QED
    BY <2>1, <2>2 DEF Idle, Read
<1> DEFINE sent(s) == [Idle EXCEPT !.asked = a, !.out = TRUE, !.todo = AntiFunction(out)[s]]
<1>6. \A s \in Range(out) : sent(s) \in Read /\ sent(s).out /\ sent(s).asked = a
  BY <1>3, <1>4 DEF Read
<1> HIDE DEF sent
<1>7. Sent(reads, out, a) = [s \in Slots |-> IF s \in Range(out) THEN sent(s) ELSE reads[s]]
  BY DEF Sent, sent
<1>8. PICK q \in Requests[p] : TRUE
  BY <1>2
<1>9. out[q] \in Range(out) /\ out[q] \in Slots
  BY <1>1, <1>8 DEF Range
<1> QED
  BY <1>6, <1>7, <1>9

(* fetch leaves a read of that ask out.                                     *)
LEMMA FetchType ==
  ASSUME TypeOK, NEW p \in Pages, NEW a \in 0 .. MaxAsked, Fetch(p, a)
  PROVE  /\ flight' \in [Slots -> Read]
         /\ \E s \in Slots : flight'[s].out /\ flight'[s].asked = a
<1>1. PICK out \in Places(p, {s \in Slots : ~flight[s].out}) : flight' = Sent(flight, out, a)
  BY DEF Fetch
<1>2. flight \in [Slots -> Read]
  BY DEF TypeOK
<1>3. {s \in Slots : ~flight[s].out} \in SUBSET Slots
  OBVIOUS
<1> QED
  BY <1>1, <1>2, <1>3, SentType

-----------------------------------------------------------------------------
(* Types.                                                                   *)

LEMMA ReadOnType ==
  ASSUME TypeOK, NEW r \in Read, r.todo # <<>>
  PROVE  ReadOn(r) \in Read /\ ReadOn(r).out = r.out /\ ReadOn(r).asked = r.asked
<1> DEFINE step == Head(r.todo)
<1>1. Tail(r.todo) \in Seq(Topics \cup {Limits}) /\ <<>> \in Seq(Topics \cup {Limits})
  BY DEF Read
<1>2. \A t \in Topics : TableIndex(t) \in 0 .. EveryIndex
  BY TableIndexType, IndexType DEF TypeOK, Index
<1>3. EveryIndex \in 0 .. EveryIndex
  BY IndexType
<1>4. CASE step \in Topics
  <2>1. ReadOn(r) = [r EXCEPT !.todo = Tail(r.todo), !.read[step] = TableIndex(step)]
    BY <1>4, PagesAssumption DEF ReadOn
  <2>2. [r.read EXCEPT ![step] = TableIndex(step)] \in [Topics -> 0 .. EveryIndex]
    BY <1>2, <1>4 DEF Read
  <2> HIDE DEF step
  <2> QED
    BY <1>1, <2>1, <2>2 DEF Read
<1>5. CASE step = Limits /\ ~Limited
  <2>1. step \notin Topics
    BY <1>5, PagesAssumption
  <2>2. ReadOn(r) = [r EXCEPT !.todo = <<>>, !.read[CountTopic] = EveryIndex]
    BY <1>5, <2>1 DEF ReadOn
  <2>3. [r.read EXCEPT ![CountTopic] = EveryIndex] \in [Topics -> 0 .. EveryIndex]
    BY <1>3 DEF Read
  <2> QED
    BY <1>1, <2>2, <2>3 DEF Read
<1>6. CASE step \notin Topics /\ ~(step = Limits /\ ~Limited)
  <2>1. ReadOn(r) = [r EXCEPT !.todo = Tail(r.todo)]
    BY <1>6 DEF ReadOn
  <2> QED
    BY <1>1, <2>1 DEF Read
<1> QED
  BY <1>4, <1>5, <1>6

LEMMA SchedulePollType ==
  ASSUME TypeOK, NEW live \in BOOLEAN, SchedulePoll(live)
  PROVE  /\ polling' \in BOOLEAN /\ slow' \in BOOLEAN /\ pollTick' \in 0 .. MaxTick
         /\ timers' \in [0 .. MaxTick -> Nat]
BY DEF TypeOK, SchedulePoll

(* takeAnswer keeps the types, whatever it read.                            *)
LEMMA TakeAnswerType ==
  ASSUME TypeOK, NEW s \in Slots, NEW read \in [Topics -> 0 .. EveryIndex],
         NEW fails \in BOOLEAN, TakeAnswer(s, read, fails)
  PROVE  /\ watch' \in WatchState /\ settles' \in Nat /\ opens' \subseteq StreamRequest
         /\ polling' \in BOOLEAN /\ slow' \in BOOLEAN /\ pollTick' \in 0 .. MaxTick
         /\ timers' \in [0 .. MaxTick -> Nat]
         /\ shown' \in [Topics -> 0 .. EveryIndex] /\ spoiled' \in BOOLEAN
<1> DEFINE now == [KeepRead(watch, read) EXCEPT !.due = FALSE]
<1>1. KeepRead(watch, read) \in WatchState
  BY KeepReadType DEF TypeOK
<1>2. now \in WatchState
  BY <1>1 DEF WatchState
<1>3. WatchScreen(now, version) \subseteq StreamRequest
  BY <1>2, WatchScreenType
<1> HIDE DEF now
<1>4. /\ watch' = now
      /\ settles' = IF now.settling /\ ~watch.settling THEN settles + 1 ELSE settles
      /\ opens' = IF watch.due THEN opens \cup WatchScreen(now, version) ELSE opens
      /\ SchedulePoll(Live(watch))
      /\ shown' = [t \in Topics |-> IF read[t] # Unread THEN read[t] ELSE shown[t]]
      /\ spoiled' = (spoiled \/ fails)
  BY DEF TakeAnswer, now
<1>5. settles' \in Nat
  BY <1>4 DEF TypeOK
<1>6. opens' \subseteq StreamRequest
  BY <1>3, <1>4 DEF TypeOK
<1>7. polling' \in BOOLEAN /\ slow' \in BOOLEAN /\ pollTick' \in 0 .. MaxTick
      /\ timers' \in [0 .. MaxTick -> Nat]
  <2>1. Live(watch) \in BOOLEAN
    BY DEF Live
  <2> QED
    BY <1>4, <2>1, SchedulePollType
<1>8. shown' \in [Topics -> 0 .. EveryIndex]
  BY <1>4 DEF TypeOK
<1> QED
  BY <1>2, <1>4, <1>5, <1>6, <1>7, <1>8 DEF TypeOK

LEMMA RestartType ==
  ASSUME TypeOK, NEW live \in BOOLEAN, RestartAndSchedulePoll(live)
  PROVE  /\ polling' \in BOOLEAN /\ slow' \in BOOLEAN /\ pollTick' \in 0 .. MaxTick
         /\ timers' \in [0 .. MaxTick -> Nat]
BY BoundsAssumption DEF TypeOK, RestartAndSchedulePoll

LEMMA WatchEndedType ==
  ASSUME TypeOK, NEW out \in SUBSET StreamRequest, NEW atOnce \in BOOLEAN,
         WatchEnded(out, atOnce)
  PROVE  /\ watch' \in WatchState /\ opens' \subseteq StreamRequest
         /\ polling' \in BOOLEAN /\ slow' \in BOOLEAN /\ pollTick' \in 0 .. MaxTick
         /\ timers' \in [0 .. MaxTick -> Nat]
<1>1. End(watch) \in WatchState
  BY EnteredType DEF TypeOK
<1>2. [End(watch) EXCEPT !.fewer = TRUE] \in WatchState
  BY <1>1 DEF WatchState
<1>3. CASE /\ watch' = [End(watch) EXCEPT !.fewer = TRUE]
           /\ opens' = out \cup WatchScreen(watch', version)
           /\ UNCHANGED polls
  <2>1. WatchScreen(watch', version) \subseteq StreamRequest
    BY <1>2, <1>3, WatchScreenType
  <2> QED
    BY <1>2, <1>3, <2>1 DEF TypeOK, polls
<1>4. CASE watch' = End(watch) /\ opens' = out /\ RestartAndSchedulePoll(FALSE)
  BY <1>1, <1>4, RestartType
<1> QED
  BY <1>3, <1>4 DEF WatchEnded

THEOREM TypeStep == TypeOK /\ [Next]_vars => TypeOK'
<1> SUFFICES ASSUME TypeOK, [Next]_vars PROVE TypeOK'
  OBVIOUS
<1>1. ASSUME NEW t \in Topics, NEW limited \in BOOLEAN, Change(t, limited) PROVE TypeOK'
  <2>1. [topic |-> t, limited |-> limited] \in Event
    BY DEF Event
  <2>2. log' \in Seq(Event) /\ Len(log') \in Index
    BY <1>1, <2>1, BoundsAssumption DEF Change, TypeOK, Index
  <2> QED
    BY <1>1, <2>2 DEF Change, TypeOK, polls
<1>2. ASSUME NEW v \in {"new", "old"}, AgentAnswers(v) PROVE TypeOK'
  <2>1. WatchScreen(watch, v) \subseteq StreamRequest
    BY WatchScreenType DEF TypeOK
  <2> QED
    BY <1>2, <2>1 DEF AgentAnswers, TypeOK, polls
<1>3. ASSUME NEW p \in Pages, Enter(p) PROVE TypeOK'
  <2>1. Entered(watch) \in WatchState
    BY EnteredType DEF TypeOK
  <2>2. asked + 1 \in 1 .. MaxAsked /\ asked + 1 \in 0 .. MaxAsked /\ pollTick + 1 \in 0 .. MaxTick
    BY <1>3, BoundsAssumption DEF Enter, TypeOK
  <2>3. flight' \in [Slots -> Read]
    BY <1>3, <2>2, FetchType DEF Enter
  <2>4. [t \in Topics |-> Unread] \in [Topics -> 0 .. EveryIndex]
    BY IndexType
  <2> QED
    BY <1>3, <2>1, <2>2, <2>3, <2>4 DEF Enter, TypeOK, cluster
<1>4. ASSUME NEW s \in Slots, ReadNext(s) PROVE TypeOK'
  <2>1. flight[s] \in Read /\ flight[s].todo # <<>>
    BY <1>4 DEF ReadNext, TypeOK
  <2>2. flight' \in [Slots -> Read]
    BY <1>4, <2>1, ReadOnType DEF ReadNext, TypeOK
  <2> QED
    BY <1>4, <2>2 DEF ReadNext, TypeOK, cluster, polls
<1>5. Idle \in Read
  <2>1. <<>> \in Seq(Topics \cup {Limits}) /\ 0 \in 0 .. MaxAsked
    BY BoundsAssumption
  <2>2. [t \in Topics |-> Unread] \in [Topics -> 0 .. EveryIndex]
    BY IndexType
  <2> QED
    BY <2>1, <2>2 DEF Idle, Read
<1>6. ASSUME NEW s \in Slots, Answer(s) PROVE TypeOK'
  <2>1. flight' \in [Slots -> Read]
    BY <1>5, <1>6 DEF Answer, TypeOK
  <2>2. CASE TakeAnswer(s, flight[s].read, FALSE)
    <3>1. flight[s].read \in [Topics -> 0 .. EveryIndex]
      BY DEF TypeOK, Read
    <3> QED
      BY <1>6, <2>1, <2>2, <3>1, TakeAnswerType DEF Answer, TypeOK, cluster
  <2>3. CASE DropAnswer(s)
    BY <1>6, <2>1, <2>3 DEF Answer, DropAnswer, TypeOK, cluster, polls
  <2> QED
    BY <1>6, <2>2, <2>3 DEF Answer
<1>7. ASSUME NEW s \in Slots, FailedAnswer(s) PROVE TypeOK'
  <2>1. flight' \in [Slots -> Read] /\ faults' \in 0 .. MaxFaults
    BY <1>5, <1>7, BoundsAssumption DEF FailedAnswer, TypeOK
  <2>2. CASE TakeAnswer(s, Idle.read, TRUE)
    <3>1. Idle.read \in [Topics -> 0 .. EveryIndex]
      BY <1>5 DEF Read
    <3> QED
      BY <1>7, <2>1, <2>2, <3>1, TakeAnswerType DEF FailedAnswer, TypeOK, cluster
  <2>3. CASE DropAnswer(s)
    BY <1>7, <2>1, <2>3 DEF FailedAnswer, DropAnswer, TypeOK, cluster, polls
  <2> QED
    BY <1>7, <2>2, <2>3 DEF FailedAnswer
<1>8. page \in Pages /\ asked \in 0 .. MaxAsked
  BY DEF TypeOK
<1>9. ASSUME NEW tick \in 0 .. MaxTick, PollFires(tick) PROVE TypeOK'
  <2>1. timers' \in [0 .. MaxTick -> Nat]
    BY <1>9 DEF PollFires, TypeOK
  <2>2. flight' \in [Slots -> Read] /\ polling' \in BOOLEAN
    BY <1>8, <1>9, FetchType DEF PollFires, TypeOK
  <2> QED
    BY <1>9, <2>1, <2>2 DEF PollFires, TypeOK, cluster
<1>10. ASSUME SettleFires PROVE TypeOK'
  <2>1. watch' \in WatchState
    <3>1. [t \in Topics |-> 0] \in [Topics -> 0 .. MaxIndex]
      BY BoundsAssumption
    <3> QED
      BY <1>10, <3>1 DEF SettleFires, TypeOK, WatchState
  <2>2. flight' \in [Slots -> Read]
    BY <1>8, <1>10, FetchType DEF SettleFires, TypeOK
  <2>3. settles' \in Nat
    BY <1>10 DEF SettleFires, TypeOK
  <2> QED
    BY <1>10, <2>1, <2>2, <2>3 DEF SettleFires, TypeOK, cluster, polls
<1>11. ASSUME NEW o \in opens, StreamOpens(o) PROVE TypeOK'
  <2>1. o \in StreamRequest
    BY DEF TypeOK
  <2>2. watch' \in WatchState /\ (UNCHANGED polls \/ RestartAndSchedulePoll(TRUE))
    <3>1. CASE o.id # watch.id
      BY <1>11, <3>1 DEF StreamOpens, TypeOK
    <3>2. CASE o.id = watch.id
      <4>1. {o.from, Len(log)} \in SUBSET (0 .. EveryIndex)
        BY <2>1, IndexType DEF StreamRequest, TypeOK
      <4>2. {o.from, Len(log)} \in SUBSET Nat
        BY <4>1, IndexType
      <4>3. Min({o.from, Len(log)}) \in 0 .. EveryIndex
        BY <4>1, <4>2, MinIs
      <4>4. [topics |-> o.topics, next |-> Min({o.from, Len(log)})]
              \in [topics : SUBSET Topics, next : 0 .. EveryIndex]
        BY <2>1, <4>3 DEF StreamRequest
      <4>5. watch' \in WatchState
        BY ZenonT(60), <1>11, <3>2, <4>4 DEF StreamOpens, TypeOK, WatchState
      <4> QED
        BY <1>11, <3>2, <4>5 DEF StreamOpens
    <3> QED
      BY <3>1, <3>2
  <2>3. /\ polling' \in BOOLEAN /\ slow' \in BOOLEAN /\ pollTick' \in 0 .. MaxTick
        /\ timers' \in [0 .. MaxTick -> Nat]
    BY <2>2, RestartType DEF TypeOK, polls
  <2> QED
    BY <1>11, <2>2, <2>3 DEF StreamOpens, TypeOK, cluster
<1>12. ASSUME NEW o \in opens, StreamRefused(o) PROVE TypeOK'
  <2>1. opens \ {o} \in SUBSET StreamRequest /\ faults' \in 0 .. MaxFaults
    BY <1>12, BoundsAssumption DEF StreamRefused, TypeOK
  <2>2. CASE WatchEnded(opens \ {o}, FALSE)
    BY <1>12, <2>1, <2>2, WatchEndedType DEF StreamRefused, TypeOK, cluster
  <2>3. CASE opens' = opens \ {o} /\ UNCHANGED <<watch, polls>>
    BY <1>12, <2>1, <2>3 DEF StreamRefused, TypeOK, cluster, polls
  <2> QED
    BY <1>12, <2>2, <2>3 DEF StreamRefused
<1>13. ASSUME StreamSends PROVE TypeOK'
  <2> DEFINE i == Min(Waiting)
             t == log[i].topic
             w == [watch EXCEPT !.heard = TRUE, !.stream.next = i + 1]
  <2>1. Len(log) \in Nat /\ DOMAIN log = 1 .. Len(log) /\ Len(log) <= MaxIndex
    BY DEF TypeOK, Index
  <2>2. Waiting \in SUBSET Nat /\ Waiting # {}
    <3>1. Waiting \subseteq DOMAIN log /\ DOMAIN log \subseteq Nat
      BY <2>1 DEF Waiting
    <3> QED
      BY <1>13, <3>1 DEF StreamSends
  <2>3. i \in Waiting
    BY <2>2, MinIs
  <2>4. i \in 1 .. MaxIndex /\ t \in Topics
    BY <2>1, <2>3, BoundsAssumption DEF Waiting, TypeOK, WatchState
  <2>5. i + 1 \in 0 .. EveryIndex /\ i \in 0 .. MaxIndex
    BY <2>4, BoundsAssumption DEF EveryIndex
  <2> HIDE DEF i, t
  <2>6. w \in WatchState
    BY <2>5 DEF WatchState, TypeOK
  <2>7. watch' = CASE w.read[t] = EveryIndex -> Keep(w, t, i)
                   [] w.read[t] # Unread /\ i <= w.read[t] -> w
                   [] OTHER -> Await(w, t, i)
    BY <1>13 DEF StreamSends, i, t
  <2> HIDE DEF w
  <2>8. watch' \in WatchState
    BY <2>4, <2>5, <2>6, <2>7, KeepType
  <2>9. settles' \in Nat
    BY <1>13 DEF StreamSends, TypeOK
  <2> QED
    BY <1>13, <2>8, <2>9 DEF StreamSends, TypeOK, cluster, polls
<1>14. ASSUME NEW atOnce \in BOOLEAN, StreamEnds(atOnce) PROVE TypeOK'
  <2>1. opens \in SUBSET StreamRequest /\ faults' \in 0 .. MaxFaults
    BY <1>14, BoundsAssumption DEF StreamEnds, TypeOK
  <2> QED
    BY <1>14, <2>1, WatchEndedType DEF StreamEnds, TypeOK, cluster
<1>15. ASSUME Done PROVE TypeOK'
  <2>1. flight' \in [Slots -> Read]
    BY <1>8, <1>15, FetchType DEF Done
  <2> QED
    BY <1>15, <2>1 DEF Done, TypeOK, cluster, polls
<1>16. ASSUME UNCHANGED vars PROVE TypeOK'
  BY <1>16 DEF vars, TypeOK
<1> QED
  BY <1>1, <1>2, <1>3, <1>4, <1>6, <1>7, <1>9, <1>10, <1>11, <1>12, <1>13, <1>14, <1>15, <1>16
     DEF Next

LEMMA InitType == Init => TypeOK
<1> SUFFICES ASSUME Init PROVE TypeOK
  OBVIOUS
<1>1. \A b \in BOOLEAN : [topic |-> NoTopic, limited |-> b] \in Event
  BY DEF Event
<1>2. log \in Seq(Event) /\ Len(log) = 1
  BY <1>1 DEF Init
<1>3. [t \in Topics |-> Unread] \in [Topics -> 0 .. EveryIndex]
      /\ [t \in Topics |-> 0] \in [Topics -> 0 .. MaxIndex]
      /\ NoStream \in [topics : SUBSET Topics, next : 0 .. EveryIndex]
  BY IndexType, BoundsAssumption DEF NoStream, Unread
<1>4. watch \in WatchState
  BY <1>3 DEF Init, WatchState
<1>5. Idle \in Read
  <2>1. <<>> \in Seq(Topics \cup {Limits}) /\ 0 \in 0 .. MaxAsked
    BY BoundsAssumption
  <2> QED
    BY <1>3, <2>1 DEF Idle, Read
<1>6. flight \in [Slots -> Read]
  <2>1. PICK out \in Places(page, Slots) : flight = Sent([s \in Slots |-> Idle], out, 1)
    BY DEF Init
  <2>2. [s \in Slots |-> Idle] \in [Slots -> Read]
    BY <1>5
  <2>3. page \in Pages /\ 1 \in 0 .. MaxAsked /\ Slots \in SUBSET Slots
    BY BoundsAssumption DEF Init
  <2> QED
    BY <2>1, <2>2, <2>3, SentType
<1>7. Len(log) \in Index /\ asked \in 1 .. MaxAsked /\ pollTick \in 0 .. MaxTick
      /\ faults \in 0 .. MaxFaults /\ settles \in Nat
  BY <1>2, BoundsAssumption DEF Init, Index
<1>8. timers \in [0 .. MaxTick -> Nat] /\ shown \in [Topics -> 0 .. EveryIndex]
  BY <1>3 DEF Init
<1>9. polling \in BOOLEAN /\ slow \in BOOLEAN /\ spoiled \in BOOLEAN /\ opens \subseteq StreamRequest
      /\ version \in {"asked", "new", "old"} /\ page \in Pages
  BY DEF Init
<1> QED
  BY <1>2, <1>4, <1>6, <1>7, <1>8, <1>9 DEF TypeOK

(* Every reachable state has its types.                                     *)
THEOREM TypeCorrect == Spec => []TypeOK
BY InitType, TypeStep, PTL DEF Spec

-----------------------------------------------------------------------------
(* A screen never falls silent, and has one poll timer that counts.         *)

PollInv == TypeOK /\ OnePollTimer /\ NoLaterTimer /\ NeverSilent

(* The timers of an action that leaves polls alone.                         *)
LEMMA TimersKept ==
  ASSUME PollInv, UNCHANGED polls
  PROVE  OnePollTimer' /\ NoLaterTimer'
BY DEF PollInv, polls, OnePollTimer, NoLaterTimer

LEMMA TimersScheduled ==
  ASSUME PollInv, NEW live, SchedulePoll(live)
  PROVE  OnePollTimer' /\ NoLaterTimer' /\ polling' /\ timers'[pollTick'] > 0
<1>1. timers \in [0 .. MaxTick -> Nat] /\ pollTick \in 0 .. MaxTick /\ polling \in BOOLEAN
  BY DEF PollInv, TypeOK
<1>2. timers[pollTick] = IF polling THEN 1 ELSE 0
  BY DEF PollInv, OnePollTimer
<1>3. polling' /\ pollTick' = pollTick
      /\ timers' = IF polling THEN timers ELSE [timers EXCEPT ![pollTick] = @ + 1]
  BY DEF SchedulePoll
<1>4. timers'[pollTick] = 1
  BY <1>1, <1>2, <1>3
<1>5. \A k \in 0 .. MaxTick : k > pollTick => timers'[k] = 0
  BY <1>1, <1>3 DEF PollInv, NoLaterTimer
<1> QED
  BY <1>3, <1>4, <1>5 DEF OnePollTimer, NoLaterTimer

LEMMA TimersRestarted ==
  ASSUME PollInv, NEW live, RestartAndSchedulePoll(live)
  PROVE  OnePollTimer' /\ NoLaterTimer' /\ polling' /\ timers'[pollTick'] > 0
<1>1. timers \in [0 .. MaxTick -> Nat] /\ pollTick \in 0 .. MaxTick
      /\ pollTick + 1 \in 0 .. MaxTick
  BY BoundsAssumption DEF PollInv, TypeOK, RestartAndSchedulePoll
<1>2. timers[pollTick + 1] = 0
  BY <1>1 DEF PollInv, NoLaterTimer
<1>3. polling' /\ pollTick' = pollTick + 1
      /\ timers' = [timers EXCEPT ![pollTick + 1] = @ + 1]
  BY DEF RestartAndSchedulePoll
<1>4. timers'[pollTick'] = 1
  BY <1>1, <1>2, <1>3
<1>5. \A k \in 0 .. MaxTick : k > pollTick' => timers'[k] = 0
  BY <1>1, <1>3 DEF PollInv, NoLaterTimer
<1> QED
  BY <1>3, <1>4, <1>5 DEF OnePollTimer, NoLaterTimer

(* An action that leaves polls, ask and reads alone leaves no silence.      *)
LEMMA SilenceKept ==
  ASSUME PollInv, UNCHANGED <<polls, asked, flight>>
  PROVE  OnePollTimer' /\ NoLaterTimer' /\ NeverSilent'
<1>1. OnePollTimer' /\ NoLaterTimer'
  BY TimersKept
<1>2. NeverSilent'
  BY DEF PollInv, NeverSilent, Reading, polls
<1> QED
  BY <1>1, <1>2

(* fetch for the ask the screen has next leaves a read of it out.           *)
LEMMA FetchIsRead ==
  ASSUME TypeOK, NEW p \in Pages, NEW a \in 0 .. MaxAsked, Fetch(p, a), asked' = a
  PROVE  NeverSilent'
<1>1. \E s \in Slots : flight'[s].out /\ flight'[s].asked = a
  BY FetchType
<1> QED
  BY <1>1 DEF NeverSilent, Reading

(* A dropped answer is of an ask that is over: a read of this one stays out.*)
LEMMA DropKeepsReads ==
  ASSUME PollInv, NEW s \in Slots, DropAnswer(s),
         flight' = [flight EXCEPT ![s] = Idle], asked' = asked
  PROVE  OnePollTimer' /\ NoLaterTimer' /\ NeverSilent'
<1>1. OnePollTimer' /\ NoLaterTimer'
  BY TimersKept DEF DropAnswer
<1>2. CASE \E r \in Slots : Reading(r)
  <2>1. PICK r \in Slots : Reading(r)
    BY <1>2
  <2>2. r # s /\ flight'[r] = flight[r]
    BY <2>1 DEF Reading, DropAnswer, PollInv, TypeOK
  <2> QED
    BY <1>1, <2>1, <2>2 DEF NeverSilent, Reading
<1>3. CASE ~\E r \in Slots : Reading(r)
  BY <1>1, <1>3 DEF DropAnswer, polls, PollInv, NeverSilent
<1> QED
  BY <1>2, <1>3

LEMMA EndedSchedules ==
  ASSUME PollInv, NEW out, NEW atOnce, WatchEnded(out, atOnce), UNCHANGED <<asked, flight>>
  PROVE  OnePollTimer' /\ NoLaterTimer' /\ NeverSilent'
<1>1. UNCHANGED polls \/ RestartAndSchedulePoll(FALSE)
  BY DEF WatchEnded
<1>2. CASE UNCHANGED polls
  BY <1>2, SilenceKept
<1>3. CASE RestartAndSchedulePoll(FALSE)
  BY <1>3, TimersRestarted DEF NeverSilent
<1> QED
  BY <1>1, <1>2, <1>3

LEMMA SilenceStep ==
  PollInv /\ [Next]_vars => OnePollTimer' /\ NoLaterTimer' /\ NeverSilent'
<1> SUFFICES ASSUME PollInv, [Next]_vars
             PROVE  OnePollTimer' /\ NoLaterTimer' /\ NeverSilent'
  OBVIOUS
<1> DEFINE Safe == OnePollTimer' /\ NoLaterTimer' /\ NeverSilent'
<1>0. TypeOK /\ page \in Pages /\ asked \in 0 .. MaxAsked
  BY DEF PollInv, TypeOK
<1>1. ASSUME NEW t \in Topics, NEW limited \in BOOLEAN, Change(t, limited) PROVE Safe
  BY <1>1, SilenceKept DEF Change
<1>2. ASSUME NEW v \in {"new", "old"}, AgentAnswers(v) PROVE Safe
  BY <1>2, SilenceKept DEF AgentAnswers
<1>3. ASSUME NEW p \in Pages, Enter(p) PROVE Safe
  <2>1. asked' = asked + 1 /\ asked + 1 \in 0 .. MaxAsked /\ Fetch(p, asked + 1)
    BY <1>0, <1>3, BoundsAssumption DEF Enter
  <2>2. NeverSilent'
    BY <1>0, <2>1, FetchIsRead
  <2>3. /\ pollTick' = pollTick + 1 /\ pollTick + 1 \in 0 .. MaxTick /\ pollTick \in 0 .. MaxTick
        /\ timers' = timers /\ polling' = FALSE
    BY <1>3, BoundsAssumption DEF Enter, PollInv, TypeOK
  <2>4. OnePollTimer' /\ NoLaterTimer'
    BY <2>3 DEF PollInv, OnePollTimer, NoLaterTimer
  <2> QED
    BY <2>2, <2>4
<1>4. ASSUME NEW s \in Slots, ReadNext(s) PROVE Safe
  <2>1. flight[s] \in Read /\ flight[s].todo # <<>>
    BY <1>0, <1>4 DEF ReadNext, TypeOK
  <2>2. \A r \in Slots : flight'[r].out = flight[r].out /\ flight'[r].asked = flight[r].asked
    BY <1>0, <1>4, <2>1, ReadOnType DEF ReadNext, TypeOK
  <2>3. OnePollTimer' /\ NoLaterTimer'
    BY <1>4, TimersKept DEF ReadNext
  <2>4. NeverSilent'
    BY <1>4, <2>2 DEF ReadNext, polls, PollInv, NeverSilent, Reading
  <2> QED
    BY <2>3, <2>4
<1>5. ASSUME NEW s \in Slots, Answer(s) PROVE Safe
  <2>1. CASE TakeAnswer(s, flight[s].read, FALSE)
    BY <2>1, TimersScheduled DEF TakeAnswer, NeverSilent
  <2>2. CASE DropAnswer(s)
    BY <1>5, <2>2, DropKeepsReads DEF Answer
  <2> QED
    BY <1>5, <2>1, <2>2 DEF Answer
<1>6. ASSUME NEW s \in Slots, FailedAnswer(s) PROVE Safe
  <2>1. CASE TakeAnswer(s, Idle.read, TRUE)
    BY <2>1, TimersScheduled DEF TakeAnswer, NeverSilent
  <2>2. CASE DropAnswer(s)
    BY <1>6, <2>2, DropKeepsReads DEF FailedAnswer
  <2> QED
    BY <1>6, <2>1, <2>2 DEF FailedAnswer
<1>7. ASSUME NEW tick \in 0 .. MaxTick, PollFires(tick) PROVE Safe
  <2>1. /\ timers' = [timers EXCEPT ![tick] = @ - 1] /\ timers[tick] > 0 /\ pollTick' = pollTick
        /\ asked' = asked
    BY <1>7 DEF PollFires
  <2>2. timers \in [0 .. MaxTick -> Nat] /\ pollTick \in 0 .. MaxTick
    BY <1>0 DEF TypeOK
  <2>3. NoLaterTimer'
    BY <2>1, <2>2 DEF PollInv, NoLaterTimer
  <2>4. CASE tick = pollTick
    <3>1. polling' = FALSE /\ Fetch(page, asked)
      BY <1>7, <2>4 DEF PollFires
    <3>2. timers'[pollTick'] = 0
      BY <2>1, <2>2, <2>4 DEF PollInv, OnePollTimer
    <3>3. NeverSilent'
      BY <1>0, <2>1, <3>1, FetchIsRead
    <3> QED
      BY <2>3, <3>1, <3>2, <3>3 DEF OnePollTimer
  <2>5. CASE tick # pollTick
    <3>1. UNCHANGED <<polling, flight>>
      BY <1>7, <2>5 DEF PollFires
    <3>2. timers'[pollTick'] = timers[pollTick]
      BY <2>1, <2>2, <2>5
    <3> QED
      BY <2>1, <2>3, <3>1, <3>2 DEF PollInv, OnePollTimer, NeverSilent, Reading
  <2> QED
    BY <2>4, <2>5
<1>8. ASSUME SettleFires PROVE Safe
  <2>1. CASE Stale(watch)
    <3>1. Fetch(page, asked) /\ asked' = asked /\ UNCHANGED polls
      BY <1>8, <2>1 DEF SettleFires
    <3> QED
      BY <1>0, <3>1, FetchIsRead, TimersKept
  <2>2. CASE ~Stale(watch)
    BY <1>8, <2>2, SilenceKept DEF SettleFires
  <2> QED
    BY <2>1, <2>2
<1>9. ASSUME NEW o \in opens, StreamOpens(o) PROVE Safe
  <2>1. UNCHANGED <<asked, flight>> /\ (UNCHANGED polls \/ RestartAndSchedulePoll(TRUE))
    BY <1>9 DEF StreamOpens
  <2>2. CASE UNCHANGED polls
    BY <2>1, <2>2, SilenceKept
  <2>3. CASE RestartAndSchedulePoll(TRUE)
    BY <2>3, TimersRestarted DEF NeverSilent
  <2> QED
    BY <2>1, <2>2, <2>3
<1>10. ASSUME NEW o \in opens, StreamRefused(o) PROVE Safe
  <2>1. CASE WatchEnded(opens \ {o}, FALSE)
    BY <1>10, <2>1, EndedSchedules DEF StreamRefused
  <2>2. CASE UNCHANGED polls
    BY <1>10, <2>2, SilenceKept DEF StreamRefused
  <2> QED
    BY <1>10, <2>1, <2>2 DEF StreamRefused
<1>11. ASSUME StreamSends PROVE Safe
  BY <1>11, SilenceKept DEF StreamSends
<1>12. ASSUME NEW atOnce \in BOOLEAN, StreamEnds(atOnce) PROVE Safe
  BY <1>12, EndedSchedules DEF StreamEnds
<1>13. ASSUME Done PROVE Safe
  <2>1. Fetch(page, asked) /\ asked' = asked /\ UNCHANGED polls
    BY <1>13 DEF Done
  <2> QED
    BY <1>0, <2>1, FetchIsRead, TimersKept
<1>14. ASSUME UNCHANGED vars PROVE Safe
  BY <1>14, SilenceKept DEF vars, polls
<1> QED
  BY <1>1, <1>2, <1>3, <1>4, <1>5, <1>6, <1>7, <1>8, <1>9, <1>10, <1>11, <1>12, <1>13, <1>14
     DEF Next

LEMMA InitPoll == Init => PollInv
<1> SUFFICES ASSUME Init PROVE PollInv
  OBVIOUS
<1>1. TypeOK
  BY InitType
<1>2. OnePollTimer /\ NoLaterTimer
  BY BoundsAssumption DEF Init, OnePollTimer, NoLaterTimer
<1>3. NeverSilent
  <2>1. PICK out \in Places(page, Slots) : flight = Sent([s \in Slots |-> Idle], out, 1)
    BY DEF Init
  <2>2. [s \in Slots |-> Idle] \in [Slots -> Read]
    <3>1. <<>> \in Seq(Topics \cup {Limits}) /\ 0 \in 0 .. MaxAsked
      BY BoundsAssumption
    <3>2. [t \in Topics |-> Unread] \in [Topics -> 0 .. EveryIndex]
      BY IndexType
    <3> QED
      BY <3>1, <3>2 DEF Idle, Read
  <2>3. page \in Pages /\ 1 \in 0 .. MaxAsked /\ Slots \in SUBSET Slots /\ asked = 1
    BY BoundsAssumption DEF Init
  <2>4. \E s \in Slots : flight[s].out /\ flight[s].asked = 1
    BY <2>1, <2>2, <2>3, SentType
  <2> QED
    BY <2>3, <2>4 DEF NeverSilent, Reading
<1> QED
  BY <1>1, <1>2, <1>3 DEF PollInv

LEMMA PollInductive == Spec => []PollInv
<1>1. PollInv /\ [Next]_vars => PollInv'
  BY TypeStep, SilenceStep DEF PollInv
<1> QED
  BY InitPoll, <1>1, PTL DEF Spec

(* Whatever the messages and their order, the open screen asks the cluster  *)
(* again: its poll timer runs or a read of it is out.                       *)
THEOREM ScreenNeverSilent == Spec => []NeverSilent
<1>1. PollInv => NeverSilent
  BY DEF PollInv
<1> QED
  BY <1>1, PollInductive, PTL

(* It asks at one rate: one timer counts, and only while it says so.        *)
THEOREM OneTimerCounts == Spec => []OnePollTimer
<1>1. PollInv => OnePollTimer
  BY DEF PollInv
<1> QED
  BY <1>1, PollInductive, PTL
-----------------------------------------------------------------------------
(* What a screen is told and what it asks for keep step.                    *)

(* The requests for the stream of the screen.                               *)
Mine == {o \in opens : o.id = watch.id}

(* At most one is out, none while the stream is open or the first answer is *)
(* due, and none while the version is asked for that the page needs.        *)
StreamInv ==
  /\ \A o \in opens : o.id <= watch.id
  /\ \A o, p \in Mine : o = p
  /\ watch.due \/ Live(watch) => Mine = {}
  /\ watch.due => ~Live(watch)
  /\ version = "asked" /\ ~Streams("asked", PageTopics[page]) =>
       ~watch.fewer /\ ~Live(watch) /\ Mine = {}

StepInv == StreamInv /\ BurstHasTimer /\ PollPace

(* keepRead, field by field.                                                *)
LEMMA KeepReadIs ==
  ASSUME NEW w \in WatchState, NEW read \in [Topics -> 0 .. EveryIndex]
  PROVE  LET k == KeepRead(w, read)
             back(t) == read[t] # Unread /\ read[t] < Was(w, t)
         IN  /\ k \in WatchState
             /\ k.stream = w.stream /\ k.id = w.id /\ k.fewer = w.fewer
             /\ w.settling => k.settling
             /\ \A t \in Topics :
                  /\ k.read[t] = IF read[t] # Unread THEN read[t] ELSE w.read[t]
                  /\ k.newest[t] \in 0 .. MaxIndex /\ w.newest[t] <= k.newest[t]
                  /\ k.newest[t] # w.newest[t] => k.newest[t] = Was(w, t)
                  /\ back(t) => k.settling /\ Was(w, t) <= k.newest[t]
<1> DEFINE noted == {t \in Topics : read[t] # Unread}
           back  == {t \in noted : read[t] < Was(w, t)}
           newRead == [t \in Topics |-> IF t \in noted THEN read[t] ELSE w.read[t]]
           newest == [t \in Topics |-> IF t \in back THEN Max({w.newest[t], Was(w, t)})
                                                     ELSE w.newest[t]]
           k == KeepRead(w, read)
<1>1. k = [w EXCEPT !.read = newRead, !.newest = newest, !.settling = w.settling \/ back # {}]
  BY DEF KeepRead
<1>2. k \in WatchState
  BY KeepReadType
<1>3. /\ k.stream = w.stream /\ k.id = w.id /\ k.fewer = w.fewer
      /\ k.read = newRead /\ k.newest = newest /\ k.settling = (w.settling \/ back # {})
  <2> HIDE DEF newRead, newest, back, k
  <2> QED
    BY <1>1 DEF WatchState
<1>4. ASSUME NEW t \in Topics
      PROVE  /\ k.newest[t] \in 0 .. MaxIndex /\ w.newest[t] <= k.newest[t]
             /\ k.newest[t] # w.newest[t] => k.newest[t] = Was(w, t)
             /\ t \in back => k.settling /\ Was(w, t) <= k.newest[t]
  <2>1. w.newest[t] \in 0 .. MaxIndex /\ Was(w, t) \in 0 .. MaxIndex
    BY WasType DEF WatchState
  <2>2. w.newest[t] <= Max({w.newest[t], Was(w, t)}) /\ Was(w, t) <= Max({w.newest[t], Was(w, t)})
        /\ Max({w.newest[t], Was(w, t)}) \in {w.newest[t], Was(w, t)}
    BY <2>1, MaxIs, BoundsAssumption
  <2>3. k.newest[t] = IF t \in back THEN Max({w.newest[t], Was(w, t)}) ELSE w.newest[t]
    BY <1>3
  <2>4. t \in back => k.settling
    BY <1>3
  <2> HIDE DEF back, k
  <2> QED
    BY <2>1, <2>2, <2>3, <2>4, BoundsAssumption
<1>5. \A t \in Topics : k.read[t] = IF read[t] # Unread THEN read[t] ELSE w.read[t]
  BY <1>3
<1>6. w.settling => k.settling
  BY <1>3
<1>7. \A t \in Topics : read[t] # Unread /\ read[t] < Was(w, t) => t \in back
  OBVIOUS
<1> HIDE DEF k, back
<1> QED
  BY <1>2, <1>3, <1>4, <1>5, <1>6, <1>7 DEF k

(* An answer leaves no change stuck: what it puts back waits in the burst.  *)
LEMMA KeepReadSettles ==
  ASSUME NEW w \in WatchState, NEW read \in [Topics -> 0 .. EveryIndex], Stale(w) => w.settling
  PROVE  Stale(KeepRead(w, read)) => KeepRead(w, read).settling
<1> DEFINE k == KeepRead(w, read)
<1> SUFFICES ASSUME Stale(k), ~k.settling PROVE FALSE
  OBVIOUS
<1>1. PICK t \in Topics : k.newest[t] # 0 /\ (k.read[t] = Unread \/ k.newest[t] > k.read[t])
  BY DEF Stale
<1>2. ~w.settling /\ ~(read[t] # Unread /\ read[t] < Was(w, t))
      /\ k.read[t] = (IF read[t] # Unread THEN read[t] ELSE w.read[t])
      /\ (k.newest[t] # w.newest[t] => k.newest[t] = Was(w, t))
      /\ k.newest[t] \in 0 .. MaxIndex /\ w.newest[t] <= k.newest[t]
  BY KeepReadIs
<1>3. ~Stale(w)
  BY <1>2
<1>4. w.newest[t] = 0 \/ (w.read[t] # Unread /\ ~(w.newest[t] > w.read[t]))
  BY <1>3 DEF Stale
<1>5. w.newest[t] \in 0 .. MaxIndex /\ w.read[t] \in 0 .. EveryIndex /\ read[t] \in 0 .. EveryIndex
  BY DEF WatchState
<1> HIDE DEF k
<1> QED
  BY <1>1, <1>2, <1>4, <1>5, BoundsAssumption DEF Was, Unread, EveryIndex

LEMMA WatchScreenOne ==
  ASSUME NEW w, NEW v
  PROVE  /\ \A o, p \in WatchScreen(w, v) : o = p
         /\ \A o \in WatchScreen(w, v) : o.id = w.id
BY DEF WatchScreen

LEMMA StaleKept ==
  ASSUME NEW w, NEW x, x.read = w.read, x.newest = w.newest
  PROVE  Stale(x) <=> Stale(w)
BY DEF Stale

(* An action that leaves the watch, its requests and its timers alone.      *)
LEMMA StepKept ==
  ASSUME StepInv, UNCHANGED <<version, page, polls, settles, watch, opens>>
  PROVE  StepInv'
BY DEF StepInv, StreamInv, BurstHasTimer, PollPace, Mine, polls, Live, Stale, Streams

(* takeAnswer: the first answer asks for the stream.                        *)
LEMMA TakeAnswerStep ==
  ASSUME TypeOK, StepInv, NEW s \in Slots, NEW read \in [Topics -> 0 .. EveryIndex],
         NEW fails \in BOOLEAN, TakeAnswer(s, read, fails), UNCHANGED <<version, page>>
  PROVE  StepInv'
<1> DEFINE kept == KeepRead(watch, read)
           now == [kept EXCEPT !.due = FALSE]
<1>1. /\ watch' = now
      /\ settles' = IF now.settling /\ ~watch.settling THEN settles + 1 ELSE settles
      /\ opens' = IF watch.due THEN opens \cup WatchScreen(now, version) ELSE opens
      /\ SchedulePoll(Live(watch))
  BY DEF TakeAnswer
<1>2. /\ kept \in WatchState /\ kept.stream = watch.stream /\ kept.id = watch.id
      /\ kept.fewer = watch.fewer
  BY KeepReadIs DEF TypeOK
<1>3. Stale(kept) => kept.settling
  BY KeepReadSettles DEF TypeOK, StepInv, BurstHasTimer
<1> HIDE DEF kept
<1>4. /\ now.stream = watch.stream /\ now.id = watch.id /\ now.fewer = watch.fewer /\ ~now.due
      /\ now.read = kept.read /\ now.newest = kept.newest /\ now.settling = kept.settling
  BY <1>2 DEF WatchState
<1> HIDE DEF now
<1>5. \A o \in WatchScreen(now, version) : o.id = watch.id
  BY <1>4, WatchScreenOne
<1>6. opens \subseteq opens' /\ \A o \in opens' : o \in opens \/ (watch.due /\ o \in WatchScreen(now, version))
  BY <1>1
<1>7. Live(watch') = Live(watch) /\ watch'.id = watch.id
  BY <1>1, <1>4 DEF Live
<1>8. StreamInv'
  <2>1. \A o \in opens' : o.id <= watch'.id
    <3>1. watch.id \in Nat
      BY DEF TypeOK, WatchState
    <3> QED
      BY <1>5, <1>6, <1>7, <3>1 DEF StepInv, StreamInv
  <2>2. CASE watch.due
    <3>1. Mine = {} /\ ~Live(watch)
      BY <2>2 DEF StepInv, StreamInv
    <3>2. \A o \in Mine' : o \in WatchScreen(now, version)
      BY <1>6, <1>7, <3>1 DEF Mine
    <3>3. \A o, p \in Mine' : o = p
      BY <3>2, WatchScreenOne
    <3>4. version = "asked" /\ ~Streams("asked", PageTopics[page]) => ~watch'.fewer /\ Mine' = {}
      <4> SUFFICES ASSUME version = "asked", ~Streams("asked", PageTopics[page])
                   PROVE  ~watch'.fewer /\ Mine' = {}
        OBVIOUS
      <4>1. ~watch.fewer
        BY DEF StepInv, StreamInv
      <4>2. WatchScreen(now, version) = {}
        BY <1>4, <4>1 DEF WatchScreen
      <4> QED
        BY <1>1, <1>4, <3>2, <4>1, <4>2
    <3> QED
      BY <1>1, <1>4, <1>7, <2>1, <3>1, <3>3, <3>4 DEF StreamInv, Streams
  <2>3. CASE ~watch.due
    <3>1. opens' = opens /\ Mine' = Mine
      BY <1>1, <1>7, <2>3 DEF Mine
    <3> QED
      BY <1>1, <1>4, <1>7, <2>1, <3>1 DEF StepInv, StreamInv, Streams
  <2> QED
    BY <2>2, <2>3
<1>9. BurstHasTimer'
  <2>1. settles \in Nat
    BY DEF TypeOK
  <2>2. Stale(watch') <=> Stale(kept)
    BY <1>1, <1>4 DEF Stale
  <2>3. watch'.settling => settles' > 0
    BY <1>1, <2>1 DEF StepInv, BurstHasTimer
  <2> QED
    BY <1>1, <1>3, <1>4, <2>2, <2>3 DEF BurstHasTimer
<1>10. PollPace'
  BY <1>1, <1>6, <1>7 DEF SchedulePoll, StepInv, PollPace
<1> QED
  BY <1>8, <1>9, <1>10 DEF StepInv
(* watchEnded: the next request is one for fewer topics, which no version   *)
(* keeps from being streamed, or there is none and the poll is fast.        *)
LEMMA WatchEndedStep ==
  ASSUME TypeOK, StepInv, NEW out \in SUBSET opens, NEW atOnce, WatchEnded(out, atOnce),
         Live(watch) \/ (Mine # {} /\ \A o \in out : o.id # watch.id),
         UNCHANGED <<version, page, settles>>
  PROVE  StepInv'
<1>0. watch \in WatchState /\ watch.id \in Nat /\ page \in Pages
  BY DEF TypeOK, WatchState
<1>1. \A o \in opens : o.id \in Nat /\ o.id <= watch.id
  BY DEF TypeOK, StreamRequest, StepInv, StreamInv
<1>2. ~watch.due /\ ~(version = "asked" /\ ~Streams("asked", PageTopics[page]))
  BY DEF StepInv, StreamInv
<1>3. /\ End(watch).stream = NoStream /\ End(watch).id = watch.id + 1 /\ ~End(watch).fewer
      /\ End(watch).due = watch.due /\ End(watch).settling = watch.settling
      /\ End(watch).read = watch.read /\ End(watch).newest = watch.newest
      /\ End(watch) \in WatchState
  BY <1>0, EnteredType DEF End, WatchState
<1>4. watch' \in {End(watch), [End(watch) EXCEPT !.fewer = TRUE]}
  BY DEF WatchEnded
<1> HIDE DEF End
<1>5. /\ watch'.stream = NoStream /\ watch'.id = watch.id + 1 /\ ~watch'.due
      /\ watch'.settling = watch.settling /\ watch'.read = watch.read
      /\ watch'.newest = watch.newest
  BY <1>2, <1>3, <1>4 DEF WatchState
<1>6. ~Live(watch')
  BY <1>5 DEF Live, NoStream
<1>7. \A o \in out : o.id <= watch'.id /\ o.id # watch'.id
  BY <1>0, <1>1, <1>5
<1>8. BurstHasTimer'
  BY <1>5, StaleKept DEF StepInv, BurstHasTimer
<1>9. CASE /\ Fewer[page] # {}
           /\ watch' = [End(watch) EXCEPT !.fewer = TRUE]
           /\ opens' = out \cup WatchScreen(watch', version)
           /\ UNCHANGED polls
  <2>1. \A o \in WatchScreen(watch', version) : o.id = watch'.id
    BY WatchScreenOne
  <2> DEFINE asks == WatchScreen(watch', version)
  <2>2. opens' = out \cup asks
    BY <1>9
  <2>m. asks \subseteq StreamRequest /\ \A o, p \in asks : o = p
    BY ZenonT(60), <1>0, <1>9, <1>3, WatchScreenOne, WatchScreenType DEF WatchState
  <2> HIDE DEF asks
  <2>3. \A o, p \in Mine' : o = p
    BY <1>7, <2>2, <2>m DEF Mine
  <2>n. watch'.id \in Nat
    BY <1>0, <1>5
  <2>o. \A o \in opens' : o.id <= watch'.id
    BY <1>7, <2>1, <2>2, <2>n DEF asks
  <2>4. StreamInv'
    BY <1>2, <1>5, <1>6, <2>3, <2>o DEF StreamInv
  <2>5. watch'.fewer
    BY <1>3, <1>9 DEF WatchState
  <2>6. Streams(version, Fewer[page])
    BY <1>0, PagesAssumption DEF Streams
  <2>7. \E o \in opens' : o.id = watch'.id
    BY <1>9, <2>5, <2>6 DEF WatchScreen
  <2>8. PollPace'
    BY <1>6, <1>9, <2>7 DEF StepInv, PollPace, polls, TypeOK, Live
  <2> QED
    BY <1>8, <2>4, <2>8 DEF StepInv
<1>10. CASE watch' = End(watch) /\ opens' = out /\ RestartAndSchedulePoll(FALSE)
  <2>1. Mine' = {}
    BY <1>0, <1>1, <1>7, <1>10 DEF Mine
  <2>2. StreamInv'
    BY <1>0, <1>1, <1>2, <1>5, <1>6, <1>7, <1>10, <2>1 DEF StreamInv, Streams
  <2>3. PollPace'
    BY <1>6, <1>10 DEF RestartAndSchedulePoll, PollPace, Live
  <2> QED
    BY <1>8, <2>2, <2>3 DEF StepInv
<1> QED
  BY <1>9, <1>10 DEF WatchEnded

LEMMA StepStep == PollInv /\ StepInv /\ [Next]_vars => StepInv'
<1> SUFFICES ASSUME PollInv, StepInv, [Next]_vars PROVE StepInv'
  OBVIOUS
<1>0. /\ TypeOK /\ watch \in WatchState /\ watch.id \in Nat /\ settles \in Nat
      /\ \A o \in opens : o \in StreamRequest /\ o.id \in Nat /\ o.id <= watch.id
  BY DEF PollInv, TypeOK, WatchState, StreamRequest, StepInv, StreamInv
<1>1. ASSUME NEW t \in Topics, NEW limited \in BOOLEAN, Change(t, limited) PROVE StepInv'
  BY <1>1, StepKept DEF Change
<1>2. ASSUME NEW v \in {"new", "old"}, AgentAnswers(v) PROVE StepInv'
  <2>1. /\ version = "asked" /\ version' = v /\ v # "asked"
        /\ opens' = IF watch.due \/ Live(watch) \/ Streams("asked", PageTopics[page])
                    THEN opens ELSE opens \cup WatchScreen(watch, v)
        /\ UNCHANGED <<page, polls, settles, watch>>
    BY <1>2 DEF AgentAnswers
  <2>2. CASE opens' = opens
    BY <2>1, <2>2 DEF StepInv, StreamInv, BurstHasTimer, PollPace, Mine, polls
  <2>3. CASE ~watch.due /\ ~Live(watch) /\ ~Streams("asked", PageTopics[page])
             /\ opens' = opens \cup WatchScreen(watch, v)
    <3>1. Mine = {}
      BY <2>1, <2>3 DEF StepInv, StreamInv
    <3>2. \A o \in Mine' : o \in WatchScreen(watch, v)
      BY <2>1, <2>3, <3>1 DEF Mine
    <3>3. (\A o, p \in Mine' : o = p) /\ \A o \in opens' : o.id <= watch'.id
      BY <1>0, <2>1, <2>3, <3>2, WatchScreenOne
    <3> QED
      BY <2>1, <2>3, <3>3 DEF StepInv, StreamInv, BurstHasTimer, PollPace, polls
  <2> QED
    BY <2>1, <2>2, <2>3
<1>3. ASSUME NEW p \in Pages, Enter(p) PROVE StepInv'
  <2>1. watch' = Entered(watch) /\ polling' = FALSE /\ opens' = opens /\ settles' = settles
        /\ version' = version
    BY <1>3 DEF Enter, cluster
  <2>2. /\ watch'.stream = NoStream /\ watch'.id = watch.id + 1 /\ ~watch'.fewer
        /\ ~watch'.settling /\ \A t \in Topics : watch'.newest[t] = 0
    BY <1>0, <2>1 DEF Entered, End, WatchState
  <2>3. ~Live(watch') /\ Mine' = {} /\ ~Stale(watch')
    BY <1>0, <2>1, <2>2 DEF Live, NoStream, Mine, Stale
  <2>4. StreamInv'
    BY <1>0, <2>1, <2>2, <2>3 DEF StreamInv
  <2> QED
    BY <2>1, <2>2, <2>3, <2>4 DEF StepInv, BurstHasTimer, PollPace
<1>4. ASSUME NEW s \in Slots, ReadNext(s) PROVE StepInv'
  BY <1>4, StepKept DEF ReadNext, cluster
<1>5. ASSUME NEW s \in Slots, Answer(s) PROVE StepInv'
  <2>1. CASE TakeAnswer(s, flight[s].read, FALSE)
    <3>1. flight[s].read \in [Topics -> 0 .. EveryIndex]
      BY <1>0 DEF TypeOK, Read
    <3> QED
      BY <1>0, <1>5, <2>1, <3>1, TakeAnswerStep DEF Answer, cluster
  <2>2. CASE DropAnswer(s)
    BY <1>5, <2>2, StepKept DEF Answer, DropAnswer, cluster
  <2> QED
    BY <1>5, <2>1, <2>2 DEF Answer
<1>6. ASSUME NEW s \in Slots, FailedAnswer(s) PROVE StepInv'
  <2>1. CASE TakeAnswer(s, Idle.read, TRUE)
    <3>1. Idle.read \in [Topics -> 0 .. EveryIndex]
      BY IndexType DEF Idle
    <3> QED
      BY <1>0, <1>6, <2>1, <3>1, TakeAnswerStep DEF FailedAnswer, cluster
  <2>2. CASE DropAnswer(s)
    BY <1>6, <2>2, StepKept DEF FailedAnswer, DropAnswer, cluster
  <2> QED
    BY <1>6, <2>1, <2>2 DEF FailedAnswer
<1>7. ASSUME NEW tick \in 0 .. MaxTick, PollFires(tick) PROVE StepInv'
  <2>1. UNCHANGED <<version, page, settles, watch, opens, slow>> /\ (polling' => polling)
    BY <1>7 DEF PollFires, cluster
  <2>2. PollPace'
    BY <2>1 DEF StepInv, PollPace
  <2> QED
    BY <2>1, <2>2 DEF StepInv, StreamInv, BurstHasTimer, Mine
<1>8. ASSUME SettleFires PROVE StepInv'
  <2>1. /\ watch' = [watch EXCEPT !.settling = FALSE, !.newest = [t \in Topics |-> 0]]
        /\ UNCHANGED <<version, page, polls, opens>>
    BY <1>8 DEF SettleFires, cluster
  <2>2. /\ watch'.stream = watch.stream /\ watch'.id = watch.id /\ watch'.fewer = watch.fewer
        /\ watch'.due = watch.due /\ ~watch'.settling /\ \A t \in Topics : watch'.newest[t] = 0
    BY <1>0, <2>1 DEF WatchState
  <2>3. StreamInv' /\ PollPace'
    BY <2>1, <2>2 DEF StepInv, StreamInv, PollPace, Mine, Live, Streams, polls
  <2>4. BurstHasTimer'
    BY <2>2 DEF BurstHasTimer, Stale
  <2> QED
    BY <2>3, <2>4 DEF StepInv
<1>9. ASSUME NEW o \in opens, StreamOpens(o) PROVE StepInv'
  <2>1. opens' = opens \ {o} /\ UNCHANGED <<version, page, settles>>
    BY <1>9 DEF StreamOpens, cluster
  <2>2. CASE o.id # watch.id
    <3>1. watch' = watch /\ UNCHANGED polls /\ Mine' = Mine
      BY <1>9, <2>1, <2>2 DEF StreamOpens, Mine
    <3> QED
      BY <2>1, <2>2, <3>1 DEF StepInv, StreamInv, BurstHasTimer, PollPace, Streams, polls
  <2>3. CASE o.id = watch.id
    <3>1. /\ watch' = [watch EXCEPT !.stream = [topics |-> o.topics, next |-> Min({o.from, Len(log)})],
                                    !.heard = FALSE]
          /\ IF Live(watch) \/ ~polling THEN UNCHANGED polls ELSE RestartAndSchedulePoll(TRUE)
      BY <1>9, <2>3 DEF StreamOpens
    <3>2. /\ watch'.stream.topics = o.topics /\ watch'.id = watch.id /\ watch'.due = watch.due
          /\ watch'.settling = watch.settling /\ watch'.read = watch.read
          /\ watch'.newest = watch.newest
      BY <1>0, <3>1 DEF WatchState
    <3>3. o \in Mine /\ ~watch.due /\ ~Live(watch)
          /\ ~(version = "asked" /\ ~Streams("asked", PageTopics[page]))
      BY <2>3 DEF Mine, StepInv, StreamInv
    <3>4. Mine' = {}
      BY <2>1, <3>2, <3>3 DEF Mine, StepInv, StreamInv
    <3>5. Live(watch')
      BY <1>0, <3>2 DEF Live, StreamRequest
    <3>6. StreamInv'
      BY <1>0, <2>1, <3>2, <3>3, <3>4 DEF StreamInv, Streams
    <3>7. BurstHasTimer'
      BY <2>1, <3>2, StaleKept DEF StepInv, BurstHasTimer
    <3>8. PollPace'
      BY <3>1, <3>3, <3>5 DEF PollPace, RestartAndSchedulePoll, polls, Live
    <3> QED
      BY <3>6, <3>7, <3>8 DEF StepInv
  <2> QED
    BY <2>2, <2>3
<1>10. ASSUME NEW o \in opens, StreamRefused(o) PROVE StepInv'
  <2>1. UNCHANGED <<version, page, settles>>
    BY <1>10 DEF StreamRefused, cluster
  <2>2. CASE o.id = watch.id
    <3>1. WatchEnded(opens \ {o}, FALSE) /\ opens \ {o} \in SUBSET opens
      BY <1>10, <2>2 DEF StreamRefused
    <3>2. Mine # {} /\ \A p \in opens \ {o} : p.id # watch.id
      BY <2>2 DEF StepInv, StreamInv, Mine
    <3> QED
      BY <1>0, <2>1, <3>1, <3>2, WatchEndedStep
  <2>3. CASE o.id # watch.id
    <3>1. opens' = opens \ {o} /\ UNCHANGED <<watch, polls>> /\ Mine' = Mine
      BY <1>10, <2>3 DEF StreamRefused, Mine
    <3> QED
      BY <2>1, <2>3, <3>1 DEF StepInv, StreamInv, BurstHasTimer, PollPace, Streams, polls
  <2> QED
    BY <2>2, <2>3
<1>11. ASSUME StreamSends PROVE StepInv'
  <2> DEFINE i == Min(Waiting)
             t == log[i].topic
             w == [watch EXCEPT !.heard = TRUE, !.stream.next = i + 1]
  <2>1. /\ watch' = CASE w.read[t] = EveryIndex -> Keep(w, t, i)
                      [] w.read[t] # Unread /\ i <= w.read[t] -> w
                      [] OTHER -> Await(w, t, i)
        /\ settles' = IF watch'.settling /\ ~watch.settling THEN settles + 1 ELSE settles
        /\ UNCHANGED <<version, page, polls, opens>>
    BY <1>11 DEF StreamSends, cluster
  <2>2. /\ w.stream.topics = watch.stream.topics /\ w.id = watch.id /\ w.due = watch.due
        /\ w.fewer = watch.fewer /\ w.settling = watch.settling /\ w.read = watch.read
        /\ w.newest = watch.newest
        /\ w \in [stream : [topics : SUBSET Topics, next : {i + 1}],
                  id : Nat, settling : BOOLEAN, fewer : BOOLEAN, due : BOOLEAN, heard : BOOLEAN,
                  read : [Topics -> 0 .. EveryIndex], newest : [Topics -> 0 .. MaxIndex]]
    BY <1>0 DEF WatchState
  <2> HIDE DEF w, i, t
  <2>3. /\ watch'.stream.topics = watch.stream.topics /\ watch'.id = watch.id
        /\ watch'.due = watch.due /\ watch'.fewer = watch.fewer
    BY <2>1, <2>2 DEF Keep, Await
  <2>4. StreamInv' /\ PollPace'
    BY <2>1, <2>3 DEF StepInv, StreamInv, PollPace, Mine, Live, Streams, polls
  <2>5. BurstHasTimer'
    <3>1. watch'.settling => settles' > 0
      BY <1>0, <2>1 DEF StepInv, BurstHasTimer
    <3>2. CASE watch' = Await(w, t, i)
      BY <2>2, <3>1, <3>2 DEF Await, Keep, BurstHasTimer
    <3>3. CASE watch' = w
      BY <2>2, <3>1, <3>3, StaleKept DEF StepInv, BurstHasTimer
    <3>4. CASE w.read[t] = EveryIndex /\ watch' = Keep(w, t, i)
      <4>1. watch'.settling = watch.settling /\ watch'.read = watch.read
            /\ \A u \in Topics : u = t \/ watch'.newest[u] = watch.newest[u]
        BY <2>2, <3>4 DEF Keep
      <4>2. watch' \in WatchState
        BY <1>0, TypeStep DEF TypeOK
      <4>3. Stale(watch') => Stale(watch)
        <5>1. SUFFICES ASSUME NEW u \in Topics, watch'.newest[u] # 0,
                              watch'.read[u] = Unread \/ watch'.newest[u] > watch'.read[u]
                       PROVE  Stale(watch)
          BY DEF Stale
        <5>2. u # t
          BY <2>2, <3>4, <4>1, <4>2, <5>1, BoundsAssumption DEF WatchState, Unread, EveryIndex
        <5> QED
          BY <4>1, <5>1, <5>2 DEF Stale
      <4> QED
        BY <3>1, <4>1, <4>3 DEF StepInv, BurstHasTimer
    <3> QED
      BY <2>1, <3>2, <3>3, <3>4
  <2> QED
    BY <2>4, <2>5 DEF StepInv
<1>12. ASSUME NEW atOnce \in BOOLEAN, StreamEnds(atOnce) PROVE StepInv'
  <2>1. WatchEnded(opens, atOnce) /\ Live(watch) /\ UNCHANGED <<version, page, settles>>
        /\ opens \in SUBSET opens
    BY <1>12 DEF StreamEnds, cluster
  <2> QED
    BY <1>0, <2>1, WatchEndedStep
<1>13. ASSUME Done PROVE StepInv'
  BY <1>13, StepKept DEF Done, cluster
<1>14. ASSUME UNCHANGED vars PROVE StepInv'
  BY <1>14, StepKept DEF vars, polls
<1> QED
  BY <1>1, <1>2, <1>3, <1>4, <1>5, <1>6, <1>7, <1>8, <1>9, <1>10, <1>11, <1>12, <1>13, <1>14
     DEF Next

LEMMA StepFirst == Init => StepInv
<1> SUFFICES ASSUME Init PROVE StepInv
  OBVIOUS
<1>1. /\ opens = {} /\ ~polling /\ watch.stream = NoStream /\ ~watch.fewer /\ ~watch.settling
      /\ \A t \in Topics : watch.newest[t] = 0
  BY DEF Init
<1> QED
  BY <1>1 DEF StepInv, StreamInv, BurstHasTimer, PollPace, Mine, Live, NoStream, Stale

LEMMA StepInductive == Spec => [](PollInv /\ StepInv)
BY PollInductive, StepFirst, StepStep, PTL DEF Spec

(* The changes of a burst are never stuck, the screen asks for one stream   *)
(* at a time, and its poll is slow exactly while a stream reports or one of *)
(* fewer topics is being opened.                                            *)
THEOREM KeepsStep == Spec => []WatchKeepsStep
<1>1. PollInv /\ StepInv => WatchKeepsStep
  <2> SUFFICES ASSUME PollInv, StepInv PROVE OneStream
    BY DEF PollInv, StepInv, WatchKeepsStep
  <2>1. Mine = {} \/ \E o \in Mine : Mine = {o}
    BY DEF StepInv, StreamInv
  <2>2. Cardinality(Mine) \in {0, 1}
    <3>1. CASE Mine = {}
      BY <3>1, FS_EmptySet
    <3>2. CASE \E o \in Mine : Mine = {o}
      BY <3>2, FS_Singleton
    <3> QED
      BY <2>1, <3>1, <3>2
  <2>3. Live(watch) => Cardinality(Mine) <= 0
    BY FS_EmptySet DEF StepInv, StreamInv
  <2> QED
    BY <2>2, <2>3 DEF OneStream, Mine
<1> QED
  BY <1>1, StepInductive, PTL
-----------------------------------------------------------------------------
(* What the screen knows of the cluster is of its log.                      *)

Known(read) == \A t \in Topics : read[t] = EveryIndex \/ read[t] <= TableIndex(t)

(* The page shows what the watch read, and no index is of a change to come. *)
NewsInv ==
  /\ shown = watch.read
  /\ Known(watch.read)
  /\ \A t \in Topics : watch.newest[t] <= TableIndex(t)
  /\ \A s \in Slots : Known(flight[s].read)

(* A change is at the index of its topic, or before.                        *)
LEMMA ChangeIsIn ==
  ASSUME TypeOK, NEW i \in DOMAIN log
  PROVE  i <= TableIndex(log[i].topic)
<1> DEFINE S == {1} \cup {j \in DOMAIN log : log[j].topic = log[i].topic}
<1>1. Len(log) \in Nat /\ DOMAIN log = 1 .. Len(log) /\ 1 <= Len(log)
  BY DEF TypeOK, Index
<1>2. S \in SUBSET (0 .. Len(log)) /\ S # {} /\ i \in S
  BY <1>1
<1> HIDE DEF S
<1>3. i <= Max(S)
  BY <1>1, <1>2, MaxIs
<1> QED
  BY <1>3 DEF TableIndex, S

(* The index of a topic never goes back.                                    *)
LEMMA TableIndexGrows ==
  ASSUME TypeOK, NEW e \in Event, log' = Append(log, e), Len(log) < MaxIndex, NEW t
  PROVE  TableIndex(t) \in Nat /\ TableIndex(t)' \in Nat /\ TableIndex(t) <= TableIndex(t)'
<1> DEFINE S == {1} \cup {i \in DOMAIN log : log[i].topic = t}
           T == {1} \cup {i \in DOMAIN log' : log'[i].topic = t}
<1>1. Len(log) \in Nat /\ DOMAIN log = 1 .. Len(log) /\ 1 <= Len(log)
      /\ DOMAIN log' = 1 .. Len(log) + 1 /\ \A i \in DOMAIN log : log'[i] = log[i]
  BY DEF TypeOK, Index
<1>2. S \in SUBSET (0 .. Len(log)) /\ S # {}
      /\ T \in SUBSET (0 .. Len(log) + 1) /\ T # {} /\ S \subseteq T
  BY <1>1
<1>3. TableIndex(t) = Max(S) /\ TableIndex(t)' = Max(T)
  BY DEF TableIndex
<1> HIDE DEF S, T
<1>4. Max(S) \in S
  BY <1>1, <1>2, MaxIs
<1>5. Max(T) \in T /\ \A i \in T : i <= Max(T)
  <2>1. Len(log) + 1 \in Nat
    BY <1>1
  <2> QED
    BY <1>2, <2>1, MaxIs
<1>6. S \subseteq Nat /\ T \subseteq Nat
  BY <1>1, <1>2
<1>7. Max(S) \in Nat /\ Max(T) \in Nat
  BY <1>4, <1>5, <1>6
<1>8. Max(S) <= Max(T)
  BY <1>2, <1>4, <1>5
<1> QED
  BY <1>3, <1>7, <1>8

LEMMA TableIndexStays == log' = log => \A t : TableIndex(t)' = TableIndex(t)
BY DEF TableIndex

(* Where the cluster stays as it is, what was known is known.               *)
LEMMA KnownStays ==
  ASSUME log' = log, NEW read
  PROVE  Known(read)' <=> \A t \in Topics : read[t] = EveryIndex \/ read[t] <= TableIndex(t)
BY TableIndexStays DEF Known, EveryIndex

(* The reads that go out know nothing yet.                                  *)
LEMMA SentKnown ==
  ASSUME TypeOK, NewsInv, NEW p \in Pages, NEW a, Fetch(p, a)
  PROVE  \A s \in Slots : Known(flight'[s].read)
<1>1. PICK out \in Places(p, {s \in Slots : ~flight[s].out}) : flight' = Sent(flight, out, a)
  BY DEF Fetch
<1>2. Known(Idle.read)
  BY TableIndexType, IndexType DEF Idle, Known, Unread, TypeOK, Index
<1>3. \A s \in Slots : flight'[s].read = Idle.read \/ flight'[s].read = flight[s].read
  <2>1. \A q : [Idle EXCEPT !.asked = a, !.out = TRUE, !.todo = q].read = Idle.read
    BY DEF Idle
  <2> QED
    BY <1>1, <2>1 DEF Sent
<1> QED
  BY <1>2, <1>3 DEF NewsInv

LEMMA ReadOnKnown ==
  ASSUME TypeOK, NEW r \in Read, r.todo # <<>>, Known(r.read)
  PROVE  Known(ReadOn(r).read)
<1> DEFINE step == Head(r.todo)
<1>1. \A t \in Topics : TableIndex(t) \in Nat
  BY TableIndexType DEF TypeOK, Index
<1>2. CASE step \in Topics
  <2>1. ReadOn(r) = [r EXCEPT !.todo = Tail(r.todo), !.read[step] = TableIndex(step)]
    BY <1>2, PagesAssumption DEF ReadOn
  <2> HIDE DEF step
  <2>2. ReadOn(r).read = [r.read EXCEPT ![step] = TableIndex(step)]
    BY <2>1 DEF Read
  <2> QED
    BY <1>1, <1>2, <2>2 DEF Known, Read
<1>3. CASE step = Limits /\ ~Limited
  <2>1. ReadOn(r) = [r EXCEPT !.todo = <<>>, !.read[CountTopic] = EveryIndex]
    BY <1>3, PagesAssumption DEF ReadOn
  <2>2. ReadOn(r).read = [r.read EXCEPT ![CountTopic] = EveryIndex]
    BY <2>1 DEF Read
  <2> QED
    BY <2>2 DEF Known, Read
<1>4. CASE step \notin Topics /\ ~(step = Limits /\ ~Limited)
  <2>1. ReadOn(r) = [r EXCEPT !.todo = Tail(r.todo)]
    BY <1>4 DEF ReadOn
  <2>2. ReadOn(r).read = r.read
    BY <2>1 DEF Read
  <2> QED
    BY <2>2
<1> QED
  BY <1>2, <1>3, <1>4

(* An answer is shown as it is kept.                                        *)
LEMMA TakeAnswerNews ==
  ASSUME TypeOK, NewsInv, NEW s \in Slots, NEW read \in [Topics -> 0 .. EveryIndex],
         NEW fails \in BOOLEAN, Known(read), TakeAnswer(s, read, fails)
  PROVE  /\ shown' = watch'.read /\ Known(watch'.read)
         /\ \A t \in Topics : watch'.newest[t] <= TableIndex(t)
<1> DEFINE kept == KeepRead(watch, read)
<1>1. /\ watch' = [kept EXCEPT !.due = FALSE]
      /\ shown' = [t \in Topics |-> IF read[t] # Unread THEN read[t] ELSE shown[t]]
  BY DEF TakeAnswer
<1>2. watch \in WatchState
  BY DEF TypeOK
<1>3. /\ kept \in WatchState
      /\ \A t \in Topics :
           /\ kept.read[t] = IF read[t] # Unread THEN read[t] ELSE watch.read[t]
           /\ kept.newest[t] # watch.newest[t] => kept.newest[t] = Was(watch, t)
  BY <1>2, KeepReadIs
<1> HIDE DEF kept
<1>4. watch'.read = kept.read /\ watch'.newest = kept.newest
  BY <1>1, <1>3 DEF WatchState
<1>5. kept.read \in [Topics -> 0 .. EveryIndex]
  BY <1>3 DEF WatchState
<1>6. shown' = watch'.read
  BY <1>1, <1>3, <1>4, <1>5 DEF NewsInv
<1>7. Known(watch'.read)
  BY <1>3, <1>4 DEF NewsInv, Known
<1>8. \A t \in Topics : Was(watch, t) <= TableIndex(t)
  BY DEF NewsInv, Known, Was
<1> QED
  BY <1>3, <1>4, <1>6, <1>7, <1>8 DEF NewsInv

(* keepChange, field by field: a change that is news is kept, one of what   *)
(* the screen reads waits for the burst.                                    *)
LEMMA SendsIs ==
  ASSUME TypeOK, StreamSends
  PROVE  \E i \in DOMAIN log :
           LET t == log[i].topic
           IN  /\ t \in Topics /\ i \in 0 .. MaxIndex /\ t \in watch.stream.topics
               /\ i >= watch.stream.next
               /\ \A j \in DOMAIN log : j >= watch.stream.next /\ log[j].topic \in watch.stream.topics
                                          => i <= j
               /\ watch'.stream.topics = watch.stream.topics /\ watch'.stream.next = i + 1
               /\ watch'.id = watch.id /\ watch'.read = watch.read
               /\ watch.settling => watch'.settling
               /\ watch.read[t] # EveryIndex /\ watch.read[t] < i =>
                    watch'.settling /\ i <= watch'.newest[t]
               /\ \A u \in Topics :
                    /\ watch.newest[u] <= watch'.newest[u]
                    /\ watch'.newest[u] = IF u = t /\ watch'.newest[u] # watch.newest[u]
                                          THEN Max({watch.newest[u], i}) ELSE watch.newest[u]
<1> DEFINE i == Min(Waiting)
           t == log[i].topic
           w == [watch EXCEPT !.heard = TRUE, !.stream.next = i + 1]
<1>0. watch \in WatchState
  BY DEF TypeOK
<1>1. Len(log) \in Nat /\ DOMAIN log = 1 .. Len(log) /\ Len(log) <= MaxIndex
  BY DEF TypeOK, Index
<1>2. Waiting \in SUBSET Nat /\ Waiting # {}
  <2>1. Waiting \subseteq DOMAIN log /\ DOMAIN log \subseteq Nat
    BY <1>1 DEF Waiting
  <2> QED
    BY <2>1 DEF StreamSends
<1>3. i \in Waiting /\ \A j \in Waiting : i <= j
  BY <1>2, MinIs
<1>4. /\ i \in DOMAIN log /\ t \in Topics /\ i \in 0 .. MaxIndex /\ t \in watch.stream.topics
      /\ i >= watch.stream.next
  <2> HIDE DEF i
  <2>1. i \in DOMAIN log /\ i >= watch.stream.next /\ t \in watch.stream.topics
    BY <1>3 DEF Waiting
  <2>2. i \in 0 .. MaxIndex
    BY <1>1, <2>1, BoundsAssumption
  <2> QED
    BY <1>0, <2>1, <2>2 DEF WatchState
<1>5. \A j \in DOMAIN log : j >= watch.stream.next /\ log[j].topic \in watch.stream.topics => i <= j
  BY <1>3 DEF Waiting
<1>6. watch' = CASE w.read[t] = EveryIndex -> Keep(w, t, i)
                 [] w.read[t] # Unread /\ i <= w.read[t] -> w
                 [] OTHER -> Await(w, t, i)
  BY DEF StreamSends
<1> HIDE DEF i, t
<1>7. /\ w.stream.topics = watch.stream.topics /\ w.stream.next = i + 1 /\ w.id = watch.id
      /\ w.settling = watch.settling /\ w.read = watch.read /\ w.newest = watch.newest
      /\ w \in [stream : [topics : SUBSET Topics, next : {i + 1}],
                id : Nat, settling : BOOLEAN, fewer : BOOLEAN, due : BOOLEAN, heard : BOOLEAN,
                read : [Topics -> 0 .. EveryIndex], newest : [Topics -> 0 .. MaxIndex]]
  BY <1>0 DEF WatchState
<1> HIDE DEF w
<1> DEFINE m == Max({watch.newest[t], i})
<1>8. m \in 0 .. MaxIndex /\ watch.newest[t] <= m /\ i <= m
  BY <1>0, <1>4, MaxOfTwo DEF WatchState
<1>9. /\ Keep(w, t, i).newest = [watch.newest EXCEPT ![t] = m]
      /\ Await(w, t, i).newest = [watch.newest EXCEPT ![t] = m] /\ Await(w, t, i).settling
      /\ Keep(w, t, i).settling = watch.settling
      /\ \A k \in {Keep(w, t, i), Await(w, t, i)} :
           k.stream = w.stream /\ k.id = w.id /\ k.read = w.read
  BY <1>7 DEF Keep, Await
<1> HIDE DEF m
<1>10. /\ watch'.stream.topics = watch.stream.topics /\ watch'.stream.next = i + 1
       /\ watch'.id = watch.id /\ watch'.read = watch.read /\ (watch.settling => watch'.settling)
  BY <1>6, <1>7, <1>9
<1>11. watch.newest \in [Topics -> 0 .. MaxIndex] /\ watch.read[t] \in 0 .. EveryIndex
  BY <1>0, <1>4 DEF WatchState
<1>12. watch'.newest = [watch.newest EXCEPT ![t] = m] \/ watch'.newest = watch.newest
  BY <1>6, <1>7, <1>9
<1>13. \A u \in Topics :
         /\ watch.newest[u] <= watch'.newest[u]
         /\ watch'.newest[u] = IF u = t /\ watch'.newest[u] # watch.newest[u]
                               THEN m ELSE watch.newest[u]
  BY <1>4, <1>8, <1>11, <1>12, BoundsAssumption
<1>14. watch.read[t] # EveryIndex /\ watch.read[t] < i =>
         watch'.settling /\ i <= watch'.newest[t]
  BY <1>1, <1>4, <1>6, <1>7, <1>8, <1>9, <1>11, IndexType
<1>15. \A u : u = t => Max({watch.newest[u], i}) = m
  BY DEF m
<1> QED
  BY SMTT(30), <1>4, <1>5, <1>10, <1>13, <1>14, <1>15 DEF t

LEMMA NewsStep == TypeOK /\ NewsInv /\ [Next]_vars => NewsInv'
<1> SUFFICES ASSUME TypeOK, NewsInv, [Next]_vars PROVE NewsInv'
  OBVIOUS
<1>0. watch \in WatchState /\ page \in Pages /\ flight \in [Slots -> Read]
  BY DEF TypeOK
<1>k. ASSUME log' = log, shown' = watch'.read, Known(watch'.read),
             \A t \in Topics : watch'.newest[t] <= TableIndex(t),
             \A s \in Slots : Known(flight'[s].read)
      PROVE  NewsInv'
  <2>1. \A t \in Topics : TableIndex(t)' = TableIndex(t)
    BY <1>k, TableIndexStays
  <2> QED
    BY <1>k, <2>1 DEF NewsInv, Known, EveryIndex
<1>1. ASSUME NEW t \in Topics, NEW limited \in BOOLEAN, Change(t, limited) PROVE NewsInv'
  <2>1. [topic |-> t, limited |-> limited] \in Event
    BY DEF Event
  <2>2. \A u \in Topics : /\ TableIndex(u) \in Nat /\ TableIndex(u)' \in Nat
                          /\ TableIndex(u) <= TableIndex(u)'
    BY <1>1, <2>1, TableIndexGrows DEF Change
  <2>3. \A u \in Topics : watch.newest[u] \in Nat /\ watch.read[u] \in Nat
                          /\ \A s \in Slots : flight[s].read[u] \in Nat
    BY <1>0, IndexType, BoundsAssumption DEF WatchState, Read
  <2>4. UNCHANGED <<shown, watch, flight>>
    BY <1>1 DEF Change
  <2>5. ASSUME NEW read, Known(read), \A u \in Topics : read[u] \in Nat
        PROVE  \A u \in Topics : read[u] = EveryIndex \/ read[u] <= TableIndex(u)'
    BY <2>2, <2>5 DEF Known
  <2>6. \A u \in Topics : watch.newest[u] <= TableIndex(u)'
    BY <2>2, <2>3 DEF NewsInv
  <2> QED
    BY <2>3, <2>4, <2>5, <2>6 DEF NewsInv, Known, EveryIndex
<1>2. ASSUME NEW v \in {"new", "old"}, AgentAnswers(v) PROVE NewsInv'
  BY <1>k, <1>2 DEF AgentAnswers, NewsInv
<1>3. ASSUME NEW p \in Pages, Enter(p) PROVE NewsInv'
  <2>1. /\ watch' = Entered(watch) /\ shown' = [t \in Topics |-> Unread] /\ log' = log
        /\ Fetch(p, asked + 1)
    BY <1>3 DEF Enter, cluster
  <2>2. watch'.read = [t \in Topics |-> Unread] /\ watch'.newest = [t \in Topics |-> 0]
    BY <1>0, <2>1 DEF Entered, End, WatchState
  <2>3. \A t \in Topics : TableIndex(t) \in Nat
    BY TableIndexType DEF TypeOK, Index
  <2>4. Known(watch'.read) /\ \A t \in Topics : watch'.newest[t] <= TableIndex(t)
    BY <2>2, <2>3 DEF Known, Unread
  <2>5. \A s \in Slots : Known(flight'[s].read)
    BY <2>1, SentKnown
  <2> QED
    BY <1>k, <2>1, <2>2, <2>4, <2>5
<1>4. ASSUME NEW s \in Slots, ReadNext(s) PROVE NewsInv'
  <2>1. flight' = [flight EXCEPT ![s] = ReadOn(flight[s])] /\ flight[s].todo # <<>>
        /\ UNCHANGED <<log, watch, shown>>
    BY <1>4 DEF ReadNext, cluster
  <2>2. Known(ReadOn(flight[s]).read)
    BY <1>0, <2>1, ReadOnKnown DEF NewsInv
  <2>3. \A r \in Slots : Known(flight'[r].read)
    BY <1>0, <2>1, <2>2 DEF NewsInv
  <2> QED
    BY <1>k, <2>1, <2>3 DEF NewsInv
<1>5. Idle.read \in [Topics -> 0 .. EveryIndex] /\ Known(Idle.read)
  <2>1. \A t \in Topics : TableIndex(t) \in Nat
    BY TableIndexType DEF TypeOK, Index
  <2> QED
    BY <2>1, IndexType DEF Idle, Known, Unread
<1>6. ASSUME NEW s \in Slots, flight' = [flight EXCEPT ![s] = Idle]
      PROVE  \A r \in Slots : Known(flight'[r].read)
  BY <1>0, <1>5, <1>6 DEF NewsInv
<1>7. ASSUME NEW s \in Slots, Answer(s) PROVE NewsInv'
  <2>1. flight' = [flight EXCEPT ![s] = Idle] /\ log' = log
    BY <1>7 DEF Answer, cluster
  <2>2. CASE TakeAnswer(s, flight[s].read, FALSE)
    <3>1. flight[s].read \in [Topics -> 0 .. EveryIndex] /\ Known(flight[s].read)
      BY <1>0 DEF Read, NewsInv
    <3> QED
      BY <1>6, <1>k, <2>1, <2>2, <3>1, TakeAnswerNews
  <2>3. CASE DropAnswer(s)
    BY <1>6, <1>k, <2>1, <2>3 DEF DropAnswer, NewsInv
  <2> QED
    BY <1>7, <2>2, <2>3 DEF Answer
<1>8. ASSUME NEW s \in Slots, FailedAnswer(s) PROVE NewsInv'
  <2>1. flight' = [flight EXCEPT ![s] = Idle] /\ log' = log
    BY <1>8 DEF FailedAnswer, cluster
  <2>2. CASE TakeAnswer(s, Idle.read, TRUE)
    BY <1>5, <1>6, <1>k, <2>1, <2>2, TakeAnswerNews
  <2>3. CASE DropAnswer(s)
    BY <1>6, <1>k, <2>1, <2>3 DEF DropAnswer, NewsInv
  <2> QED
    BY <1>8, <2>2, <2>3 DEF FailedAnswer
<1>9. ASSUME NEW tick \in 0 .. MaxTick, PollFires(tick) PROVE NewsInv'
  <2>1. UNCHANGED <<log, watch, shown>> /\ (Fetch(page, asked) \/ flight' = flight)
    BY <1>9 DEF PollFires, cluster
  <2> QED
    BY <1>0, <1>k, <2>1, SentKnown DEF NewsInv
<1>10. ASSUME SettleFires PROVE NewsInv'
  <2>1. /\ watch' = [watch EXCEPT !.settling = FALSE, !.newest = [t \in Topics |-> 0]]
        /\ UNCHANGED <<log, shown>> /\ (Fetch(page, asked) \/ flight' = flight)
    BY <1>10 DEF SettleFires, cluster
  <2>2. watch'.read = watch.read /\ watch'.newest = [t \in Topics |-> 0]
    BY <1>0, <2>1 DEF WatchState
  <2>3. \A t \in Topics : TableIndex(t) \in Nat
    BY TableIndexType DEF TypeOK, Index
  <2>4. \A t \in Topics : watch'.newest[t] <= TableIndex(t)
    BY <2>2, <2>3
  <2>5. \A s \in Slots : Known(flight'[s].read)
    BY <1>0, <2>1, SentKnown DEF NewsInv
  <2> QED
    BY <1>k, <2>1, <2>2, <2>4, <2>5 DEF NewsInv
<1>11. ASSUME NEW o \in opens, StreamOpens(o) PROVE NewsInv'
  <2>1. UNCHANGED <<log, flight, shown>>
    BY <1>11 DEF StreamOpens, cluster
  <2>2. watch'.read = watch.read /\ watch'.newest = watch.newest
    BY <1>0, <1>11 DEF StreamOpens, WatchState
  <2> QED
    BY <1>k, <2>1, <2>2 DEF NewsInv
<1>12. ASSUME NEW out, NEW atOnce, WatchEnded(out, atOnce)
       PROVE  watch'.read = watch.read /\ watch'.newest = watch.newest
  BY <1>0, <1>12 DEF WatchEnded, End, WatchState
<1>13. ASSUME NEW o \in opens, StreamRefused(o) PROVE NewsInv'
  <2>1. UNCHANGED <<log, flight, shown>>
    BY <1>13 DEF StreamRefused, cluster
  <2>2. watch'.read = watch.read /\ watch'.newest = watch.newest
    BY <1>12, <1>13 DEF StreamRefused
  <2> QED
    BY <1>k, <2>1, <2>2 DEF NewsInv
<1>14. ASSUME NEW atOnce \in BOOLEAN, StreamEnds(atOnce) PROVE NewsInv'
  <2>1. UNCHANGED <<log, flight, shown>>
    BY <1>14 DEF StreamEnds, cluster
  <2>2. watch'.read = watch.read /\ watch'.newest = watch.newest
    BY <1>12, <1>14 DEF StreamEnds
  <2> QED
    BY <1>k, <2>1, <2>2 DEF NewsInv
<1>15. ASSUME StreamSends PROVE NewsInv'
  <2>1. PICK i \in DOMAIN log :
          LET t == log[i].topic
          IN  /\ t \in Topics /\ i \in 0 .. MaxIndex
              /\ watch'.read = watch.read
              /\ \A u \in Topics : watch'.newest[u] = IF u = t /\ watch'.newest[u] # watch.newest[u]
                                                      THEN Max({watch.newest[u], i})
                                                      ELSE watch.newest[u]
    BY <1>15, SendsIs
  <2>2. UNCHANGED <<log, flight, shown>>
    BY <1>15 DEF StreamSends, cluster
  <2>3. \A u \in Topics : watch'.newest[u] <= TableIndex(u)
    <3> SUFFICES ASSUME NEW u \in Topics PROVE watch'.newest[u] <= TableIndex(u)
      OBVIOUS
    <3>1. watch.newest[u] \in 0 .. MaxIndex /\ i \in 0 .. MaxIndex /\ watch.newest[u] <= TableIndex(u)
      BY <1>0, <2>1 DEF WatchState, NewsInv
    <3>2. Max({watch.newest[u], i}) \in {watch.newest[u], i}
      BY <3>1, MaxIs, BoundsAssumption
    <3>3. u = log[i].topic => i <= TableIndex(u)
      BY ChangeIsIn
    <3> QED
      BY <2>1, <3>1, <3>2, <3>3
  <2> QED
    BY <1>k, <2>1, <2>2, <2>3 DEF NewsInv
<1>16. ASSUME Done PROVE NewsInv'
  BY <1>0, <1>k, <1>16, SentKnown DEF Done, cluster, NewsInv
<1>17. ASSUME UNCHANGED vars PROVE NewsInv'
  BY <1>k, <1>17 DEF vars, NewsInv
<1> QED
  BY <1>1, <1>2, <1>3, <1>4, <1>7, <1>8, <1>9, <1>10, <1>11, <1>13, <1>14, <1>15, <1>16, <1>17
     DEF Next

LEMMA NewsFirst == Init => NewsInv
<1> SUFFICES ASSUME Init PROVE NewsInv
  OBVIOUS
<1>1. TypeOK
  BY InitType
<1>2. \A t \in Topics : TableIndex(t) \in Nat
  BY <1>1, TableIndexType DEF TypeOK, Index
<1>3. PICK out \in Places(page, Slots) : flight = Sent([s \in Slots |-> Idle], out, 1)
  BY DEF Init
<1>4. \A s \in Slots : flight[s].read = Idle.read
  <2>1. \A q : [Idle EXCEPT !.asked = 1, !.out = TRUE, !.todo = q].read = Idle.read
    BY DEF Idle
  <2> QED
    BY <1>3, <2>1 DEF Sent
<1>5. Known([t \in Topics |-> Unread]) /\ Known(Idle.read)
  BY <1>2 DEF Known, Idle, Unread
<1>6. /\ shown = [t \in Topics |-> Unread] /\ watch.read = [t \in Topics |-> Unread]
      /\ watch.newest = [t \in Topics |-> 0]
  BY DEF Init
<1> QED
  BY <1>2, <1>4, <1>5, <1>6 DEF NewsInv

LEMMA NewsInductive == Spec => [](TypeOK /\ NewsInv)
BY TypeCorrect, NewsFirst, NewsStep, PTL DEF Spec

(* A burst that is over asks the cluster again only where the page is       *)
(* behind it (settled, stale).                                              *)
THEOREM SettlesOnNews == Spec => SettleReadsOnlyNews
<1> DEFINE Newer == settles' = settles - 1 /\ flight' # flight =>
                      \E t \in Topics : shown[t] < TableIndex(t)
<1>1. TypeOK /\ NewsInv /\ [Next]_vars => Newer
  <2> SUFFICES ASSUME TypeOK, NewsInv, [Next]_vars, settles' = settles - 1, flight' # flight
               PROVE  \E t \in Topics : shown[t] < TableIndex(t)
    OBVIOUS
  <2>1. settles' # settles /\ settles' # settles + 1
    BY DEF TypeOK
  <2>2. SettleFires
    BY <2>1 DEF Next, vars, polls, Change, AgentAnswers, Enter, ReadNext, Answer, FailedAnswer,
       TakeAnswer, DropAnswer, PollFires, StreamOpens, StreamSends, StreamRefused, StreamEnds, Done
  <2>3. Stale(watch)
    BY <2>2 DEF SettleFires
  <2>4. PICK t \in Topics : watch.newest[t] # 0 /\ (watch.read[t] = Unread \/ watch.newest[t] > watch.read[t])
    BY <2>3 DEF Stale
  <2>5. TableIndex(t) \in Nat /\ TableIndex(t) >= 1
    BY TableIndexType DEF TypeOK, Index
  <2>6. watch.newest[t] \in Nat /\ watch.read[t] \in Nat
    BY IndexType, BoundsAssumption DEF TypeOK, WatchState
  <2>7. shown[t] = watch.read[t] /\ watch.newest[t] <= TableIndex(t)
    BY DEF NewsInv
  <2> QED
    BY <2>4, <2>5, <2>6, <2>7 DEF Unread
<1>2. SettleReadsOnlyNews <=> [][Newer]_vars
  BY PTL DEF SettleReadsOnlyNews
<1> HIDE DEF Newer
<1> QED
  BY NewsInductive, <1>1, <1>2, PTL DEF Spec
-----------------------------------------------------------------------------
(* No change is lost, on a page whose read needs no limits.                 *)

(* What a page may watch.                                                   *)
Watched(p) == PageTopics[p] \cup Fewer[p]

(* A page that reads all it watches, and none of it only where some client  *)
(* has a limit.                                                             *)
Plain(p) ==
  /\ \A t \in Watched(p) : \E q \in Requests[p] : t \in Range(q)
  /\ \A q \in Requests[p] : Limits \notin Range(q)

NoEvery(read) == \A t \in Topics : read[t] # EveryIndex

(* A change the page is behind comes with a read that is out, or waits in   *)
(* the burst.                                                               *)
Awaited(t, i) == WillShow(t, i) \/ (watch.settling /\ watch.newest[t] >= i)

(* So does every one of the topics that is before a place in the log.       *)
Covered(topics, upto) ==
  \A i \in 2 .. Len(log) : log[i].topic \in topics /\ i < upto /\ shown[log[i].topic] < i =>
     Awaited(log[i].topic, i)

(* A stream, open or asked for, starts after what is covered.               *)
PlainInv ==
  /\ NoEvery(watch.read)
  /\ \A s \in Slots : Reading(s) => NoEvery(flight[s].read) /\ Limits \notin Range(flight[s].todo)
  /\ watch.stream.topics \subseteq Watched(page)
  /\ watch.stream.next <= Len(log) + 1
  /\ ~spoiled => Covered(watch.stream.topics, watch.stream.next)
  /\ \A o \in Mine : /\ o.topics \subseteq Watched(page)
                     /\ o.from <= Len(log) + 1
                     /\ ~spoiled => Covered(o.topics, o.from)

LostInv ==
  /\ \A s \in Slots : flight[s].asked <= asked
  /\ Plain(page) => PlainInv

(* Every request of a fetch is in a slot that was free.                     *)
LEMMA FetchIs ==
  ASSUME TypeOK, NEW p \in Pages, NEW a \in 0 .. MaxAsked, Fetch(p, a)
  PROVE  /\ \A s \in Slots :
              \/ flight'[s] = flight[s]
              \/ /\ ~flight[s].out /\ flight'[s].out /\ flight'[s].asked = a
                 /\ flight'[s].read = Idle.read /\ flight'[s].todo \in Requests[p]
         /\ \A q \in Requests[p] :
              \E s \in Slots : flight'[s].out /\ flight'[s].asked = a /\ flight'[s].todo = q
<1> DEFINE free == {s \in Slots : ~flight[s].out}
<1>1. PICK out \in Places(p, free) : flight' = Sent(flight, out, a)
  BY DEF Fetch
<1>2. /\ out \in [Requests[p] -> free] /\ DOMAIN out = Requests[p]
      /\ \A q, r \in Requests[p] : out[q] = out[r] => q = r
  BY <1>1 DEF Places, Injection, IsInjective
<1>3. ASSUME NEW q \in Requests[p] PROVE AntiFunction(out)[out[q]] = q /\ out[q] \in Range(out)
  <2>1. out[q] \in Range(out)
    BY <1>2 DEF Range
  <2>2. AntiFunction(out)[out[q]] = CHOOSE r \in Requests[p] : out[q] \in Range(out) => out[r] = out[q]
    BY <1>2, <2>1 DEF AntiFunction, Inverse
  <2> QED
    BY <1>2, <2>1, <2>2
<1>4. \A s \in Range(out) : \E q \in Requests[p] : s = out[q]
  BY <1>2 DEF Range
<1> DEFINE sent(q) == [Idle EXCEPT !.asked = a, !.out = TRUE, !.todo = q]
<1>5. \A q : sent(q).out /\ sent(q).asked = a /\ sent(q).read = Idle.read /\ sent(q).todo = q
  BY DEF Idle
<1>6. \A s \in Slots : flight'[s] = IF s \in Range(out) THEN sent(AntiFunction(out)[s]) ELSE flight[s]
  BY <1>1 DEF Sent
<1> HIDE DEF sent
<1>7. \A s \in Slots : s \in Range(out) =>
        ~flight[s].out /\ \E q \in Requests[p] : flight'[s] = sent(q)
  BY <1>2, <1>3, <1>4, <1>6
<1>8. \A q \in Requests[p] : out[q] \in Slots /\ flight'[out[q]] = sent(q)
  BY <1>2, <1>3, <1>6
<1> QED
  BY <1>5, <1>6, <1>7, <1>8

(* A read that is out stays out, and brings what it would have.             *)
LEMMA FetchKeeps ==
  ASSUME TypeOK, LostInv, PlainInv, Plain(page), Fetch(page, asked), asked' = asked
  PROVE  /\ \A t, i : WillShow(t, i) => WillShow(t, i)'
         /\ \A s \in Slots : Reading(s)' =>
              NoEvery(flight'[s].read) /\ Limits \notin Range(flight'[s].todo)
         /\ \A s \in Slots : flight'[s].asked <= asked
         /\ \A t \in Watched(page) : \A i : WillShow(t, i)'
<1>1. page \in Pages /\ asked \in 0 .. MaxAsked
  BY DEF TypeOK
<1>2. /\ \A s \in Slots :
           \/ flight'[s] = flight[s]
           \/ /\ ~flight[s].out /\ flight'[s].out /\ flight'[s].asked = asked
              /\ flight'[s].read = Idle.read /\ flight'[s].todo \in Requests[page]
      /\ \A q \in Requests[page] :
           \E s \in Slots : flight'[s].out /\ flight'[s].asked = asked /\ flight'[s].todo = q
  BY <1>1, FetchIs
<1>3. \A t, i : WillShow(t, i) => WillShow(t, i)'
  BY <1>2 DEF WillShow, Reading
<1>4. NoEvery(Idle.read)
  BY BoundsAssumption DEF NoEvery, Idle, Unread, EveryIndex
<1>5. \A s \in Slots : Reading(s)' => NoEvery(flight'[s].read) /\ Limits \notin Range(flight'[s].todo)
  BY <1>2, <1>4 DEF PlainInv, Plain, Reading
<1>6. \A s \in Slots : flight'[s].asked <= asked
  BY <1>1, <1>2 DEF LostInv
<1>7. ASSUME NEW t \in Watched(page), NEW i PROVE WillShow(t, i)'
  <2>1. PICK q \in Requests[page] : t \in Range(q)
    BY DEF Plain
  <2>2. PICK s \in Slots : flight'[s].out /\ flight'[s].asked = asked /\ flight'[s].todo = q
    BY <1>2
  <2>3. \E k \in DOMAIN q : q[k] = t
    BY <2>1 DEF Range
  <2> QED
    BY <2>2, <2>3 DEF WillShow, Reading
<1> QED
  BY <1>3, <1>5, <1>6, <1>7

(* A request for a stream starts where the read of every topic has come to. *)
LEMMA AskStarts ==
  ASSUME TypeOK, NEW w \in WatchState, NEW v, NoEvery(w.read), Known(w.read),
         NEW o \in WatchScreen(w, v)
  PROVE  /\ o.topics \subseteq Watched(page) /\ o.topics \subseteq Topics
         /\ o.from \in Nat /\ o.from <= Len(log) + 1
         /\ \A t \in o.topics : o.from <= w.read[t] + 1
<1> DEFINE topics == IF w.fewer /\ Fewer[page] # {} THEN Fewer[page] ELSE PageTopics[page]
           S == {w.read[t] : t \in topics}
<1>1. topics # {} /\ o.topics = topics /\ o.from = From(w, topics)
  BY DEF WatchScreen
<1>2. topics \in SUBSET Topics /\ topics \subseteq Watched(page)
  BY PagesAssumption DEF TypeOK, Watched
<1>3. S \in SUBSET Nat /\ S # {}
  BY <1>1, <1>2, IndexType DEF WatchState
<1>4. \A t \in topics : w.read[t] \in S
  OBVIOUS
<1>5. \A n \in S : \E t \in Topics : n = w.read[t]
  BY <1>2
<1>6. From(w, topics) = IF Min(S) \in {Unread, EveryIndex} THEN 0 ELSE Min(S) + 1
  BY DEF From
<1> HIDE DEF S, topics
<1>7. Min(S) \in S /\ \A n \in S : Min(S) <= n
  BY <1>3, MinIs
<1>8. Len(log) \in Nat /\ \A t \in Topics : TableIndex(t) \in Nat /\ TableIndex(t) <= Len(log)
  BY TableIndexType DEF TypeOK, Index
<1>9. Min(S) \in Nat /\ Min(S) <= Len(log)
  BY <1>3, <1>5, <1>7, <1>8 DEF Known, NoEvery
<1>10. o.from \in Nat /\ o.from <= Min(S) + 1
  BY <1>1, <1>6, <1>9
<1>11. \A t \in topics : w.read[t] \in Nat /\ Min(S) <= w.read[t]
  BY <1>3, <1>4, <1>7
<1>12. \A t \in o.topics : o.from <= w.read[t] + 1
  BY <1>1, <1>9, <1>10, <1>11
<1> QED
  BY <1>1, <1>2, <1>8, <1>9, <1>10, <1>12

(* What an action leaves awaited leaves its topics covered.                 *)
LEMMA CoverKept ==
  ASSUME UNCHANGED <<log, shown>>, NEW topics, NEW upto, Covered(topics, upto),
         \A i \in 2 .. Len(log) :
           log[i].topic \in topics /\ shown[log[i].topic] < i /\ Awaited(log[i].topic, i)
             => Awaited(log[i].topic, i)'
  PROVE  Covered(topics, upto)'
BY DEF Covered

(* An action that asks for no stream, and tells the screen nothing new.     *)
LEMMA PlainKept ==
  ASSUME TypeOK, PlainInv, UNCHANGED <<log, page, asked, shown, spoiled>>,
         watch'.read = watch.read, watch'.stream = watch.stream, Mine' \subseteq Mine,
         \A s \in Slots : Reading(s)' =>
           NoEvery(flight'[s].read) /\ Limits \notin Range(flight'[s].todo),
         \A i \in 2 .. Len(log) :
           log[i].topic \in Watched(page) /\ shown[log[i].topic] < i /\ Awaited(log[i].topic, i)
             => Awaited(log[i].topic, i)'
  PROVE  PlainInv'
<1>1. ASSUME NEW topics \in SUBSET Watched(page), NEW upto, Covered(topics, upto)
      PROVE  Covered(topics, upto)'
  BY <1>1, CoverKept
<1>2. ~spoiled' => Covered(watch.stream.topics, watch.stream.next)'
  BY <1>1 DEF PlainInv
<1>3. \A o \in Mine' : ~spoiled' => Covered(o.topics, o.from)'
  BY <1>1 DEF PlainInv
<1>4. NoEvery(watch'.read) /\ EveryIndex' = EveryIndex
  BY DEF PlainInv, EveryIndex
<1> QED
  BY <1>2, <1>3, <1>4 DEF PlainInv, Watched, NoEvery
(* The reads of the screen, and what waits in the burst, stay or grow.      *)
LEMMA AwaitedKept ==
  ASSUME NEW t \in Topics, NEW i \in Nat, Awaited(t, i), asked' = asked,
         watch.newest[t] \in Nat, watch'.newest[t] \in Nat,
         WillShow(t, i) => WillShow(t, i)',
         watch.settling => watch'.settling /\ watch.newest[t] <= watch'.newest[t]
  PROVE  Awaited(t, i)'
BY DEF Awaited

(* A step of a read brings the change, or has it still to read.             *)
LEMMA ReadNextKeeps ==
  ASSUME TypeOK, LostInv, PlainInv, NEW s \in Slots, ReadNext(s)
  PROVE  /\ \A i \in DOMAIN log : WillShow(log[i].topic, i) => WillShow(log[i].topic, i)'
         /\ \A r \in Slots : Reading(r)' =>
              NoEvery(flight'[r].read) /\ Limits \notin Range(flight'[r].todo)
<1> DEFINE r == flight[s]
           step == Head(r.todo)
<1>1. flight' = [flight EXCEPT ![s] = ReadOn(r)] /\ r.out /\ r.todo # <<>> /\ asked' = asked
      /\ log' = log
  BY DEF ReadNext, cluster
<1>2. r \in Read /\ flight \in [Slots -> Read]
  BY DEF TypeOK
<1>3. ReadOn(r).out = r.out /\ ReadOn(r).asked = r.asked
  BY <1>1, <1>2, ReadOnType
<1>4. \A q \in Slots : q # s => flight'[q] = flight[q]
  BY <1>1, <1>2
<1>5. flight'[s] = ReadOn(r)
  BY <1>1, <1>2
<1>6. CASE ~Reading(s)
  <2>1. ~Reading(s)'
    BY <1>1, <1>3, <1>5, <1>6 DEF Reading
  <2>2. \A q \in Slots : Reading(q)' => q # s /\ Reading(q)
    BY <1>1, <1>4, <2>1 DEF Reading
  <2>3. \A t, i : WillShow(t, i) => WillShow(t, i)'
    BY <1>1, <1>4, <1>6 DEF WillShow, Reading
  <2>4. \A q \in Slots : Reading(q)' => NoEvery(flight'[q].read) /\ Limits \notin Range(flight'[q].todo)
    BY <1>4, <2>2 DEF PlainInv
  <2> QED
    BY <1>1, <2>3, <2>4
<1>7. CASE Reading(s)
  <2>1. NoEvery(r.read) /\ Limits \notin Range(r.todo)
    BY <1>7 DEF PlainInv
  <2>2. r.todo \in Seq(Topics \cup {Limits})
    BY <1>2 DEF Read
  <2>3. 1 \in DOMAIN r.todo /\ step = r.todo[1] /\ step \in Topics \cup {Limits}
    BY <1>1, <2>2
  <2>4. step \in Topics
    BY <2>1, <2>3 DEF Range
  <2>5. ReadOn(r) = [r EXCEPT !.todo = Tail(r.todo), !.read[step] = TableIndex(step)]
    BY <2>4, PagesAssumption DEF ReadOn
  <2>6. /\ ReadOn(r).todo = Tail(r.todo)
        /\ ReadOn(r).read = [r.read EXCEPT ![step] = TableIndex(step)]
    <3> HIDE DEF r, step
    <3> QED
      BY <1>2, <2>5 DEF Read
  <2>7. r.read \in [Topics -> 0 .. EveryIndex]
    BY <1>2 DEF Read
  <2>8. TableIndex(step) \in Nat /\ TableIndex(step) # EveryIndex
    <3>1. TableIndex(step) \in 1 .. Len(log) /\ Len(log) \in 1 .. MaxIndex
      BY TableIndexType DEF TypeOK, Index
    <3> QED
      BY <3>1, BoundsAssumption DEF EveryIndex
  <2> HIDE DEF r, step
  <2>9. \A k \in DOMAIN r.todo : k = 1 \/ (k - 1 \in DOMAIN Tail(r.todo) /\ Tail(r.todo)[k - 1] = r.todo[k])
    BY <1>1, <2>2
  <2>10. \A k \in DOMAIN Tail(r.todo) : k + 1 \in DOMAIN r.todo /\ Tail(r.todo)[k] = r.todo[k + 1]
    BY <1>1, <2>2
  <2>11. NoEvery(ReadOn(r).read) /\ Limits \notin Range(ReadOn(r).todo)
    <3>1. NoEvery(ReadOn(r).read)
      BY <2>1, <2>4, <2>6, <2>7, <2>8 DEF NoEvery
    <3>2. \A k \in DOMAIN r.todo : r.todo[k] # Limits
      BY <2>1 DEF Range
    <3>3. \A k \in DOMAIN ReadOn(r).todo : ReadOn(r).todo[k] # Limits
      BY <2>6, <2>10, <3>2
    <3> QED
      BY <3>1, <3>3 DEF Range
  <2>12. \A q \in Slots : Reading(q)' =>
           NoEvery(flight'[q].read) /\ Limits \notin Range(flight'[q].todo)
    BY <1>1, <1>4, <1>5, <2>11 DEF PlainInv, Reading, r
  <2>13. ASSUME NEW i \in DOMAIN log, WillShow(log[i].topic, i) PROVE WillShow(log[i].topic, i)'
    <3> DEFINE t == log[i].topic
    <3>1. PICK q \in Slots : /\ Reading(q)
                             /\ \/ \E k \in DOMAIN flight[q].todo : flight[q].todo[k] = t
                                \/ flight[q].read[t] >= i
      BY <2>13 DEF WillShow
    <3>2. CASE q # s
      BY <1>1, <1>4, <3>1, <3>2 DEF WillShow, Reading
    <3>3. CASE q = s
      <4>1. Reading(s)'
        BY <1>1, <1>3, <1>5, <1>7 DEF Reading, r
      <4>2. CASE t = step
        <5>1. ReadOn(r).read[t] = TableIndex(t)
          BY <2>4, <2>6, <2>7, <4>2
        <5>2. ReadOn(r).read[t] >= i
          BY <5>1, ChangeIsIn, <2>8, <4>2
        <5> QED
          BY <1>1, <1>5, <4>1, <5>2 DEF WillShow, r
      <4>3. CASE t # step
        <5>1. ReadOn(r).read[t] = r.read[t]
          BY <2>4, <2>6, <2>7, <4>3
        <5>2. \/ \E k \in DOMAIN ReadOn(r).todo : ReadOn(r).todo[k] = t
              \/ ReadOn(r).read[t] >= i
          <6>1. CASE r.read[t] >= i
            BY <5>1, <6>1
          <6>2. CASE \E k \in DOMAIN r.todo : r.todo[k] = t
            <7>1. PICK k \in DOMAIN r.todo : r.todo[k] = t
              BY <6>2
            <7>2. k # 1
              BY <2>3, <4>3, <7>1
            <7> QED
              BY <2>6, <2>9, <7>1, <7>2
          <6> QED
            BY <3>1, <3>3, <6>1, <6>2 DEF r
        <5> QED
          BY <1>1, <1>5, <4>1, <5>2 DEF WillShow, r
      <4> QED
        BY <4>2, <4>3
    <3> QED
      BY <3>2, <3>3
  <2> QED
    BY <2>12, <2>13
<1> QED
  BY <1>6, <1>7

(* A read that is over, of whatever ask, takes no other read with it.       *)
LEMMA OverKeeps ==
  ASSUME TypeOK, NEW s \in Slots, flight' = [flight EXCEPT ![s] = Idle], asked' = asked
  PROVE  /\ ~Reading(s)'
         /\ \A r \in Slots : r # s => flight'[r] = flight[r] /\ (Reading(r)' <=> Reading(r))
         /\ \A r \in Slots : flight'[r].asked = flight[r].asked \/ flight'[r].asked = 0
BY DEF TypeOK, Reading, Idle

(* takeAnswer: a change the answer does not bring is awaited as before, and *)
(* one it takes from the page again waits in the burst.                     *)
LEMMA AnswerAwaits ==
  ASSUME TypeOK, NewsInv, PlainInv, NEW s \in Slots, Reading(s), flight[s].todo = <<>>,
         flight' = [flight EXCEPT ![s] = Idle], asked' = asked,
         TakeAnswer(s, flight[s].read, FALSE),
         NEW t \in Topics, NEW i \in 2 .. Len(log), shown'[t] < i,
         shown[t] < i => Awaited(t, i)
  PROVE  Awaited(t, i)'
<1> DEFINE read == flight[s].read
           kept == KeepRead(watch, read)
<1>1. /\ watch' = [kept EXCEPT !.due = FALSE]
      /\ shown'[t] = IF read[t] # Unread THEN read[t] ELSE shown[t]
  BY DEF TakeAnswer
<1>2. watch \in WatchState /\ read \in [Topics -> 0 .. EveryIndex]
      /\ shown[t] \in 0 .. EveryIndex /\ i \in Nat /\ i >= 2
  BY DEF TypeOK, Read, Index
<1> HIDE DEF read
<1>3. /\ kept \in WatchState /\ (watch.settling => kept.settling)
      /\ kept.newest[t] \in 0 .. MaxIndex /\ watch.newest[t] <= kept.newest[t]
      /\ read[t] # Unread /\ read[t] < Was(watch, t) => kept.settling /\ Was(watch, t) <= kept.newest[t]
  BY <1>2, KeepReadIs
<1> HIDE DEF kept
<1>4. watch'.newest = kept.newest /\ watch'.settling = kept.settling
  BY <1>1, <1>3 DEF WatchState
<1>5. Was(watch, t) = shown[t]
  BY DEF Was, NewsInv, PlainInv, NoEvery
<1>6. CASE shown[t] >= i
  <2>1. read[t] # Unread /\ read[t] < shown[t] /\ shown[t] \in Nat
    BY <1>1, <1>2, <1>6, IndexType
  <2>2. kept.settling /\ shown[t] <= kept.newest[t]
    BY <1>3, <1>5, <2>1
  <2>3. kept.newest[t] >= i
    BY <1>2, <1>3, <1>6, <2>1, <2>2, BoundsAssumption
  <2> QED
    BY <1>4, <2>2, <2>3 DEF Awaited
<1>7. CASE ~(shown[t] >= i)
  <2>1. Awaited(t, i)
    BY <1>2, <1>7, IndexType
  <2>2. CASE watch.settling /\ watch.newest[t] >= i
    <3>1. watch.newest[t] \in 0 .. MaxIndex
      BY <1>2 DEF WatchState
    <3> QED
      BY <1>2, <1>3, <1>4, <2>2, <3>1, BoundsAssumption DEF Awaited
  <2>3. CASE WillShow(t, i)
    <3>1. PICK r \in Slots : /\ Reading(r)
                             /\ \/ \E k \in DOMAIN flight[r].todo : flight[r].todo[k] = t
                                \/ flight[r].read[t] >= i
      BY <2>3 DEF WillShow
    <3>2. r # s
      <4> SUFFICES ASSUME r = s PROVE FALSE
        OBVIOUS
      <4>1. read[t] >= i
        BY <3>1 DEF read
      <4>2. read[t] \in 0 .. EveryIndex
        BY <1>2
      <4> QED
        BY <1>1, <1>2, <4>1, <4>2, IndexType DEF Unread
    <3>3. flight'[r] = flight[r] /\ Reading(r)'
      BY <3>1, <3>2, OverKeeps
    <3>4. WillShow(t, i)'
      BY <3>1, <3>3 DEF WillShow
    <3> QED
      BY <3>4 DEF Awaited
  <2> QED
    BY <2>1, <2>2, <2>3 DEF Awaited
<1> QED
  BY <1>6, <1>7
LEMMA AnswerLost ==
  ASSUME PollInv, StepInv, NewsInv, LostInv, NEW s \in Slots, NEW fails \in BOOLEAN,
         NEW read, read = IF fails THEN Idle.read ELSE flight[s].read,
         flight[s].out, fails \/ flight[s].todo = <<>>,
         flight' = [flight EXCEPT ![s] = Idle], UNCHANGED <<log, version, page, asked>>,
         TakeAnswer(s, read, fails)
  PROVE  LostInv'
<1> DEFINE kept == KeepRead(watch, read)
<1>0. /\ TypeOK /\ watch \in WatchState /\ flight \in [Slots -> Read] /\ Len(log) \in Nat
      /\ asked \in Nat /\ asked >= 1 /\ page \in Pages
  BY DEF PollInv, TypeOK, Index
<1>1. /\ watch' = [kept EXCEPT !.due = FALSE] /\ flight[s].asked = asked
      /\ opens' = IF watch.due THEN opens \cup WatchScreen(watch', version) ELSE opens
      /\ spoiled' = (spoiled \/ fails)
  BY DEF TakeAnswer
<1>2. Reading(s)
  BY <1>1 DEF Reading
<1>3. /\ ~Reading(s)'
      /\ \A r \in Slots : r # s => flight'[r] = flight[r] /\ (Reading(r)' <=> Reading(r))
      /\ \A r \in Slots : flight'[r].asked = flight[r].asked \/ flight'[r].asked = 0
  BY <1>0, OverKeeps
<1>4. \A r \in Slots : flight'[r].asked <= asked'
  BY <1>0, <1>3 DEF LostInv
<1>5. ASSUME Plain(page) PROVE PlainInv'
  <2>1. PlainInv
    BY <1>5 DEF LostInv
  <2>2. /\ read \in [Topics -> 0 .. EveryIndex] /\ NoEvery(read) /\ Known(read)
    <3>1. Idle.read \in [Topics -> 0 .. EveryIndex] /\ NoEvery(Idle.read) /\ Known(Idle.read)
      <4>1. \A t \in Topics : TableIndex(t) \in Nat
        BY <1>0, TableIndexType
      <4> QED
        BY <4>1, IndexType, BoundsAssumption DEF Idle, NoEvery, Known, Unread, EveryIndex
    <3>2. /\ flight[s].read \in [Topics -> 0 .. EveryIndex] /\ NoEvery(flight[s].read)
          /\ Known(flight[s].read)
      BY <1>0, <1>2, <2>1 DEF PlainInv, NewsInv, Read
    <3> QED
      BY <3>1, <3>2
  <2>3. /\ kept \in WatchState /\ kept.stream = watch.stream /\ kept.id = watch.id
        /\ \A t \in Topics : kept.read[t] = IF read[t] # Unread THEN read[t] ELSE watch.read[t]
    BY <1>0, <2>2, KeepReadIs
  <2> HIDE DEF kept
  <2>4. /\ watch'.stream = watch.stream /\ watch'.id = watch.id /\ watch'.read = kept.read
        /\ watch' \in WatchState
    BY <1>1, <2>3 DEF WatchState
  <2>5. NoEvery(watch'.read)
    BY <2>1, <2>2, <2>3, <2>4 DEF PlainInv, NoEvery
  <2>6. shown' = watch'.read /\ Known(watch'.read)
    BY <1>0, <2>2, TakeAnswerNews
  <2>7. \A r \in Slots : Reading(r)' =>
          NoEvery(flight'[r].read) /\ Limits \notin Range(flight'[r].todo)
    BY <1>3, <2>1 DEF PlainInv
  <2>8. ASSUME ~fails, NEW topics \in SUBSET Topics, NEW upto, Covered(topics, upto)
        PROVE  Covered(topics, upto)'
    <3> SUFFICES ASSUME NEW i \in 2 .. Len(log), log[i].topic \in topics, i < upto,
                        shown'[log[i].topic] < i
                 PROVE  Awaited(log[i].topic, i)'
      BY DEF Covered
    <3>0. PICK t \in Topics : t = log[i].topic /\ t = log'[i].topic
      OBVIOUS
    <3>1. shown[t] < i => Awaited(t, i)
      BY <2>8, <3>0 DEF Covered
    <3>2. flight[s].todo = <<>> /\ TakeAnswer(s, flight[s].read, FALSE)
      BY <2>8
    <3>3. asked' = asked /\ shown'[t] < i
      BY <3>0
    <3>4. Awaited(t, i)'
      BY <1>0, <1>2, <2>1, <3>1, <3>2, <3>3, AnswerAwaits
    <3> QED
      BY <3>0, <3>4
  <2>9. watch.stream.topics \in SUBSET Topics /\ \A o \in opens : o.topics \in SUBSET Topics
    BY <1>0 DEF WatchState, TypeOK, StreamRequest
  <2>10. ~spoiled' => Covered(watch.stream.topics, watch.stream.next)'
    BY <1>1, <2>1, <2>4, <2>8, <2>9 DEF PlainInv
  <2>11. ASSUME NEW o \in Mine'
         PROVE  /\ o.topics \subseteq Watched(page) /\ o.from <= Len(log) + 1
                /\ ~spoiled' => Covered(o.topics, o.from)'
    <3>1. CASE o \in Mine
      BY <1>1, <2>1, <2>8, <2>9, <3>1 DEF PlainInv, Mine
    <3>2. CASE o \in WatchScreen(watch', version)
      <4>1. /\ o.topics \subseteq Watched(page) /\ o.topics \subseteq Topics
            /\ o.from \in Nat /\ o.from <= Len(log) + 1
            /\ \A t \in o.topics : o.from <= watch'.read[t] + 1
        BY <1>0, <2>4, <2>5, <2>6, <3>2, AskStarts
      <4>2. \A t \in Topics : watch'.read[t] \in Nat
        BY <2>4, IndexType DEF WatchState
      <4>3. Covered(o.topics, o.from)'
        BY <1>0, <2>6, <4>1, <4>2 DEF Covered
      <4> QED
        BY <4>1, <4>3
    <3> QED
      BY <1>1, <2>4, <3>1, <3>2 DEF Mine
  <2>12. watch'.stream.topics \subseteq Watched(page) /\ watch'.stream.next <= Len(log) + 1
    BY <2>1, <2>4 DEF PlainInv
  <2> QED
    BY <2>4, <2>5, <2>7, <2>10, <2>11, <2>12 DEF PlainInv, Watched, NoEvery, EveryIndex
<1> QED
  BY <1>4, <1>5 DEF LostInv, Plain, Watched

(* watchEnded: no stream is open, and the next one starts after what the    *)
(* page shows.                                                              *)
LEMMA EndedLost ==
  ASSUME PollInv, StepInv, NewsInv, LostInv, NEW out \in SUBSET opens, NEW atOnce,
         WatchEnded(out, atOnce), StepInv',
         UNCHANGED <<log, version, page, asked, flight, shown, spoiled>>
  PROVE  LostInv'
<1>0. /\ TypeOK /\ watch \in WatchState /\ Len(log) \in Nat /\ watch.id \in Nat
      /\ \A o \in opens : o.id \in Nat /\ o.id <= watch.id
  BY DEF PollInv, TypeOK, Index, WatchState, StepInv, StreamInv, StreamRequest
<1>1. /\ End(watch).stream = NoStream /\ End(watch).id = watch.id + 1
      /\ End(watch).settling = watch.settling /\ End(watch).read = watch.read
      /\ End(watch).newest = watch.newest /\ End(watch) \in WatchState
  BY <1>0, EnteredType DEF End, WatchState
<1>2. /\ watch' \in {End(watch), [End(watch) EXCEPT !.fewer = TRUE]}
      /\ opens' = out \/ opens' = out \cup WatchScreen(watch', version)
  BY DEF WatchEnded
<1> HIDE DEF End
<1>3. /\ watch'.stream = NoStream /\ watch'.id = watch.id + 1
      /\ watch'.settling = watch.settling /\ watch'.read = watch.read
      /\ watch'.newest = watch.newest /\ watch' \in WatchState
  BY <1>1, <1>2 DEF WatchState
<1>4. \A o \in Mine' : o \in WatchScreen(watch', version)
  BY <1>0, <1>2, <1>3 DEF Mine
<1>5. ASSUME Plain(page) PROVE PlainInv'
  <2>1. PlainInv
    BY <1>5 DEF LostInv
  <2>2. NoEvery(watch'.read) /\ Known(watch'.read) /\ shown = watch'.read
    BY <1>3, <2>1 DEF PlainInv, NewsInv
  <2>3. ASSUME NEW o \in Mine'
        PROVE  /\ o.topics \subseteq Watched(page) /\ o.from <= Len(log) + 1
               /\ Covered(o.topics, o.from)'
    <3>1. o \in WatchScreen(watch', version)
      BY <1>4
    <3>2. /\ o.topics \subseteq Watched(page) /\ o.topics \subseteq Topics
          /\ o.from \in Nat /\ o.from <= Len(log) + 1
          /\ \A t \in o.topics : o.from <= watch'.read[t] + 1
      BY <1>0, <1>3, <2>2, <3>1, AskStarts
    <3>3. \A t \in Topics : watch'.read[t] \in Nat
      BY <1>3, IndexType DEF WatchState
    <3>4. Covered(o.topics, o.from)'
      BY <1>0, <2>2, <3>2, <3>3 DEF Covered
    <3> QED
      BY <3>2, <3>4
  <2>4. \A s \in Slots : Reading(s)' => NoEvery(flight'[s].read) /\ Limits \notin Range(flight'[s].todo)
    BY <2>1 DEF PlainInv, Reading
  <2>5. Covered({}, 0)'
    BY DEF Covered
  <2> QED
    BY <1>0, <1>3, <2>2, <2>3, <2>4, <2>5 DEF PlainInv, Watched, NoEvery, EveryIndex, NoStream
<1> QED
  BY <1>5 DEF LostInv, Plain, Watched
LEMMA LostStep == PollInv /\ StepInv /\ NewsInv /\ LostInv /\ StepInv' /\ [Next]_vars => LostInv'
<1> SUFFICES ASSUME PollInv, StepInv, NewsInv, LostInv, StepInv', [Next]_vars PROVE LostInv'
  OBVIOUS
<1>0. /\ TypeOK /\ watch \in WatchState /\ flight \in [Slots -> Read]
      /\ Len(log) \in Nat /\ DOMAIN log = 1 .. Len(log)
      /\ asked \in Nat /\ asked >= 1 /\ page \in Pages /\ asked \in 0 .. MaxAsked
      /\ \A t \in Topics : watch.newest[t] \in Nat
  BY SMTT(30), BoundsAssumption DEF PollInv, TypeOK, Index, WatchState
<1>t. ASSUME UNCHANGED <<log, page, asked, shown, spoiled>>,
             watch'.read = watch.read, watch'.stream = watch.stream, Mine' \subseteq Mine,
             \A s \in Slots : flight'[s].asked <= asked,
             Plain(page) => \A s \in Slots : Reading(s)' =>
               NoEvery(flight'[s].read) /\ Limits \notin Range(flight'[s].todo),
             Plain(page) => \A i \in 2 .. Len(log) :
               log[i].topic \in Watched(page) /\ shown[log[i].topic] < i /\ Awaited(log[i].topic, i)
                 => Awaited(log[i].topic, i)'
      PROVE  LostInv'
  BY <1>0, <1>t, PlainKept DEF LostInv, Plain, Watched
<1>r. ASSUME UNCHANGED <<log, page, asked, flight, shown, spoiled>>,
             watch'.read = watch.read, watch'.stream = watch.stream, Mine' \subseteq Mine,
             watch'.settling = watch.settling, watch'.newest = watch.newest
      PROVE  LostInv'
  <2>1. \A t, i : Awaited(t, i) => Awaited(t, i)'
    BY <1>r DEF Awaited, WillShow, Reading
  <2>2. \A i \in 2 .. Len(log) : Awaited(log[i].topic, i) => Awaited(log[i].topic, i)'
    BY <1>r, <2>1
  <2>3. Plain(page) => \A s \in Slots : Reading(s)' =>
          NoEvery(flight'[s].read) /\ Limits \notin Range(flight'[s].todo)
    BY <1>r DEF LostInv, PlainInv, Reading
  <2>4. \A s \in Slots : flight'[s].asked <= asked
    BY <1>r DEF LostInv
  <2> QED
    BY <1>r, <1>t, <2>2, <2>3, <2>4
<1>f. ASSUME UNCHANGED <<log, page, asked, shown, spoiled, watch, opens>>, Fetch(page, asked)
      PROVE  LostInv'
  <2>1. ASSUME Plain(page)
        PROVE  /\ \A s \in Slots : Reading(s)' =>
                    NoEvery(flight'[s].read) /\ Limits \notin Range(flight'[s].todo)
               /\ \A i \in 2 .. Len(log) : Awaited(log[i].topic, i) => Awaited(log[i].topic, i)'
    <3>1. /\ \A t, i : WillShow(t, i) => WillShow(t, i)'
          /\ \A s \in Slots : Reading(s)' =>
               NoEvery(flight'[s].read) /\ Limits \notin Range(flight'[s].todo)
      BY <1>0, <1>f, <2>1, FetchKeeps DEF LostInv
    <3>2. \A t, i : Awaited(t, i) => Awaited(t, i)'
      BY <1>f, <3>1 DEF Awaited
    <3> QED
      BY <1>f, <3>1, <3>2
  <2>2. \A s \in Slots : flight'[s].asked <= asked
    <3>1. \A s \in Slots : flight'[s] = flight[s] \/ flight'[s].asked = asked
      BY <1>0, <1>f, FetchIs
    <3> QED
      BY <1>0, <3>1 DEF LostInv
  <2>3. Mine' \subseteq Mine
    BY <1>f DEF Mine
  <2> QED
    BY <1>f, <1>t, <2>1, <2>2, <2>3
<1>1. ASSUME NEW t \in Topics, NEW limited \in BOOLEAN, Change(t, limited) PROVE LostInv'
  <2>1. /\ log' = Append(log, [topic |-> t, limited |-> limited])
        /\ UNCHANGED <<page, asked, watch, opens, flight, shown, spoiled>>
    BY <1>1 DEF Change
  <2>2. Len(log') = Len(log) + 1 /\ \A i \in 1 .. Len(log) : log'[i] = log[i]
    BY <1>0, <2>1
  <2>3. \A u, i : Awaited(u, i) <=> Awaited(u, i)'
    BY <2>1 DEF Awaited, WillShow, Reading
  <2>4. ASSUME NEW topics, NEW upto \in Nat, upto <= Len(log) + 1, Covered(topics, upto)
        PROVE  Covered(topics, upto)'
    <3> SUFFICES ASSUME NEW i \in 2 .. Len(log'), log'[i].topic \in topics, i < upto,
                        shown'[log'[i].topic] < i
                 PROVE  Awaited(log[i].topic, i)'
      BY DEF Covered
    <3>1. i \in 2 .. Len(log) /\ log'[i] = log[i]
      BY <1>0, <2>2, <2>4
    <3>2. Awaited(log[i].topic, i)
      BY <2>1, <2>4, <3>1 DEF Covered
    <3>3. PICK u : u = log[i].topic /\ u = log'[i].topic
      BY <3>1
    <3> QED
      BY <2>3, <3>2, <3>3
  <2>5. ASSUME Plain(page) PROVE PlainInv'
    <3>1. PlainInv
      BY <2>5 DEF LostInv
    <3>2. watch.stream.next \in Nat /\ \A o \in opens : o.from \in Nat
      BY <1>0, IndexType DEF WatchState, TypeOK, StreamRequest
    <3>3. ~spoiled' => Covered(watch.stream.topics, watch.stream.next)'
      BY <2>1, <2>4, <3>1, <3>2 DEF PlainInv
    <3>4. \A o \in Mine : o.from <= Len(log') + 1 /\ (~spoiled' => Covered(o.topics, o.from)')
      BY <1>0, <2>1, <2>2, <2>4, <3>1, <3>2 DEF PlainInv, Mine
    <3>5. watch'.stream.next <= Len(log') + 1
      BY <1>0, <2>1, <2>2, <3>1, <3>2 DEF PlainInv
    <3>6. Mine' = Mine /\ \A s \in Slots : Reading(s)' <=> Reading(s)
      BY <2>1 DEF Mine, Reading
    <3> QED
      BY <2>1, <3>1, <3>3, <3>4, <3>5, <3>6 DEF PlainInv, Watched, NoEvery, EveryIndex
  <2> QED
    BY <2>1, <2>5 DEF LostInv, Plain, Watched
<1>2. ASSUME NEW v \in {"new", "old"}, AgentAnswers(v) PROVE LostInv'
  <2>1. UNCHANGED <<log, page, asked, watch, flight, shown, spoiled>>
        /\ (opens' = opens \/ opens' = opens \cup WatchScreen(watch, v))
    BY <1>2 DEF AgentAnswers
  <2>2. ASSUME Plain(page) PROVE PlainInv'
    <3>1. PlainInv
      BY <2>2 DEF LostInv
    <3>2. \A t, i : Awaited(t, i) <=> Awaited(t, i)'
      BY <2>1 DEF Awaited, WillShow, Reading
    <3>3. ASSUME NEW topics, NEW upto, Covered(topics, upto) PROVE Covered(topics, upto)'
      BY <2>1, <3>2, <3>3 DEF Covered
    <3>4. ASSUME NEW o \in Mine'
          PROVE  /\ o.topics \subseteq Watched(page) /\ o.from <= Len(log) + 1
                 /\ ~spoiled' => Covered(o.topics, o.from)'
      <4>1. CASE o \in opens
        BY <2>1, <3>1, <3>3, <4>1 DEF PlainInv, Mine
      <4>2. CASE o \in WatchScreen(watch, v)
        <5>1. NoEvery(watch.read) /\ Known(watch.read) /\ shown' = watch.read
          BY <2>1, <3>1 DEF PlainInv, NewsInv
        <5>2. /\ o.topics \subseteq Watched(page) /\ o.topics \subseteq Topics
              /\ o.from \in Nat /\ o.from <= Len(log) + 1
              /\ \A t \in o.topics : o.from <= watch.read[t] + 1
          BY <1>0, <4>2, <5>1, AskStarts
        <5>3. \A t \in Topics : watch.read[t] \in Nat
          BY <1>0, IndexType DEF WatchState
        <5>4. Covered(o.topics, o.from)'
          BY <1>0, <2>1, <5>1, <5>2, <5>3 DEF Covered
        <5> QED
          BY <5>2, <5>4
      <4> QED
        BY <2>1, <4>1, <4>2 DEF Mine
    <3>5. ~spoiled' => Covered(watch.stream.topics, watch.stream.next)'
      BY <2>1, <3>1, <3>3 DEF PlainInv
    <3>6. \A s \in Slots : Reading(s)' <=> Reading(s)
      BY <2>1 DEF Reading
    <3> QED
      BY <2>1, <3>1, <3>4, <3>5, <3>6 DEF PlainInv, Watched, NoEvery, EveryIndex
  <2> QED
    BY <2>1, <2>2 DEF LostInv, Plain, Watched
<1>3. ASSUME NEW p \in Pages, Enter(p) PROVE LostInv'
  <2>1. /\ watch' = Entered(watch) /\ page' = p /\ asked' = asked + 1
        /\ asked + 1 \in 0 .. MaxAsked /\ log' = log /\ Fetch(p, asked + 1)
    BY <1>0, <1>3, BoundsAssumption DEF Enter, cluster
  <2>2. /\ watch'.stream = NoStream /\ watch'.read = [t \in Topics |-> Unread] /\ watch'.due
    BY <1>0, <2>1 DEF Entered, End, WatchState
  <2>3. Mine' = {}
    BY <2>2 DEF StepInv, StreamInv
  <2>4. \A s \in Slots :
          \/ flight'[s] = flight[s]
          \/ /\ flight'[s].asked = asked + 1
             /\ flight'[s].read = Idle.read /\ flight'[s].todo \in Requests[p]
    BY <1>0, <2>1, FetchIs
  <2>5. \A s \in Slots : flight[s].asked \in Nat /\ flight[s].asked <= asked
    BY <1>0 DEF LostInv, Read
  <2>6. \A s \in Slots : flight'[s].asked <= asked'
    BY <1>0, <2>1, <2>4, <2>5
  <2>7. NoEvery(Idle.read) /\ NoEvery(watch'.read)
    BY <2>2, BoundsAssumption DEF NoEvery, Idle, Unread, EveryIndex
  <2>8. \A s \in Slots : Reading(s)' =>
          flight'[s].read = Idle.read /\ flight'[s].todo \in Requests[p]
    BY <1>0, <2>1, <2>4, <2>5 DEF Reading
  <2>9. Covered({}, 0)'
    BY DEF Covered
  <2>10. Plain(p) => PlainInv'
    BY <1>0, <2>1, <2>2, <2>3, <2>7, <2>8, <2>9
       DEF PlainInv, Plain, Watched, NoEvery, EveryIndex, NoStream
  <2> QED
    BY <2>1, <2>6, <2>10 DEF LostInv, Plain, Watched
<1>4. ASSUME NEW s \in Slots, ReadNext(s) PROVE LostInv'
  <2>1. UNCHANGED <<log, page, asked, shown, spoiled, watch, opens>> /\ Mine' = Mine
    BY <1>4 DEF ReadNext, cluster, Mine
  <2>2. flight' = [flight EXCEPT ![s] = ReadOn(flight[s])] /\ flight[s].todo # <<>>
    BY <1>4 DEF ReadNext
  <2>3. ReadOn(flight[s]).asked = flight[s].asked
    BY <1>0, <2>2, ReadOnType
  <2>4. \A r \in Slots : flight'[r].asked <= asked
    BY <1>0, <2>2, <2>3 DEF LostInv
  <2>5. ASSUME Plain(page)
        PROVE  /\ \A i \in 2 .. Len(log) : Awaited(log[i].topic, i) => Awaited(log[i].topic, i)'
               /\ \A r \in Slots : Reading(r)' =>
                    NoEvery(flight'[r].read) /\ Limits \notin Range(flight'[r].todo)
    <3>1. /\ \A i \in DOMAIN log : WillShow(log[i].topic, i) => WillShow(log[i].topic, i)'
          /\ \A r \in Slots : Reading(r)' =>
               NoEvery(flight'[r].read) /\ Limits \notin Range(flight'[r].todo)
      BY <1>0, <1>4, <2>5, ReadNextKeeps DEF LostInv
    <3> QED
      BY <1>0, <2>1, <3>1 DEF Awaited
  <2> QED
    BY <1>t, <2>1, <2>4, <2>5
<1>5. ASSUME NEW s \in Slots, flight' = [flight EXCEPT ![s] = Idle], DropAnswer(s),
             UNCHANGED <<log, page, asked>>
      PROVE  LostInv'
  <2>1. UNCHANGED <<shown, spoiled, watch, opens>> /\ Mine' = Mine /\ ~Reading(s)
    BY <1>5 DEF DropAnswer, Mine, Reading
  <2>2. /\ ~Reading(s)'
        /\ \A r \in Slots : r # s => flight'[r] = flight[r] /\ (Reading(r)' <=> Reading(r))
        /\ \A r \in Slots : flight'[r].asked = flight[r].asked \/ flight'[r].asked = 0
    BY <1>0, <1>5, OverKeeps
  <2>3. \A t, i : WillShow(t, i) => WillShow(t, i)'
    BY <2>1, <2>2 DEF WillShow
  <2>4. \A i \in 2 .. Len(log) : Awaited(log[i].topic, i) => Awaited(log[i].topic, i)'
    BY <1>5, <2>1, <2>3 DEF Awaited
  <2>5. \A r \in Slots : flight'[r].asked <= asked
    BY <1>0, <2>2 DEF LostInv
  <2>6. Plain(page) => \A r \in Slots : Reading(r)' =>
          NoEvery(flight'[r].read) /\ Limits \notin Range(flight'[r].todo)
    BY <2>2 DEF LostInv, PlainInv
  <2> QED
    BY <1>5, <1>t, <2>1, <2>4, <2>5, <2>6
<1>6. ASSUME NEW s \in Slots, Answer(s) PROVE LostInv'
  <2>1. /\ flight[s].out /\ flight[s].todo = <<>> /\ flight' = [flight EXCEPT ![s] = Idle]
        /\ UNCHANGED <<log, version, page, asked>>
    BY <1>6 DEF Answer, cluster
  <2>2. CASE TakeAnswer(s, flight[s].read, FALSE)
    BY <2>1, <2>2, AnswerLost
  <2>3. CASE DropAnswer(s)
    BY <1>5, <2>1, <2>3
  <2> QED
    BY <1>6, <2>2, <2>3 DEF Answer
<1>7. ASSUME NEW s \in Slots, FailedAnswer(s) PROVE LostInv'
  <2>1. /\ flight[s].out /\ flight' = [flight EXCEPT ![s] = Idle]
        /\ UNCHANGED <<log, version, page, asked>>
    BY <1>7 DEF FailedAnswer, cluster
  <2>2. CASE TakeAnswer(s, Idle.read, TRUE)
    BY <2>1, <2>2, AnswerLost
  <2>3. CASE DropAnswer(s)
    BY <1>5, <2>1, <2>3
  <2> QED
    BY <1>7, <2>2, <2>3 DEF FailedAnswer
<1>8. ASSUME NEW tick \in 0 .. MaxTick, PollFires(tick) PROVE LostInv'
  <2>1. UNCHANGED <<log, page, asked, shown, spoiled, watch, opens>>
        /\ (Fetch(page, asked) \/ flight' = flight)
    BY <1>8 DEF PollFires, cluster
  <2>2. Mine' \subseteq Mine
    BY <2>1 DEF Mine
  <2> QED
    BY <1>f, <1>r, <2>1, <2>2
<1>9. ASSUME SettleFires PROVE LostInv'
  <2>1. /\ watch' = [watch EXCEPT !.settling = FALSE, !.newest = [t \in Topics |-> 0]]
        /\ UNCHANGED <<log, page, asked, shown, spoiled, opens>>
        /\ IF Stale(watch) THEN Fetch(page, asked) ELSE flight' = flight
    BY <1>9 DEF SettleFires, cluster
  <2>2. watch'.read = watch.read /\ watch'.stream = watch.stream /\ watch'.id = watch.id
    BY <1>0, <2>1 DEF WatchState
  <2>3. Mine' \subseteq Mine
    BY <2>1, <2>2 DEF Mine
  <2>4. CASE Stale(watch)
    <3>1. Fetch(page, asked)
      BY <2>1, <2>4
    <3>2. \A s \in Slots : flight'[s].asked <= asked
      <4>1. \A s \in Slots : flight'[s] = flight[s] \/ flight'[s].asked = asked
        BY <1>0, <3>1, FetchIs
      <4> QED
        BY <1>0, <4>1 DEF LostInv
    <3>3. ASSUME Plain(page)
          PROVE  /\ \A i \in 2 .. Len(log) :
                      log[i].topic \in Watched(page) => Awaited(log[i].topic, i)'
                 /\ \A s \in Slots : Reading(s)' =>
                      NoEvery(flight'[s].read) /\ Limits \notin Range(flight'[s].todo)
      <4>1. /\ \A s \in Slots : Reading(s)' =>
                 NoEvery(flight'[s].read) /\ Limits \notin Range(flight'[s].todo)
            /\ \A t \in Watched(page) : \A i : WillShow(t, i)'
        BY <1>0, <2>1, <3>1, <3>3, FetchKeeps DEF LostInv
      <4> QED
        BY <2>1, <4>1 DEF Awaited
    <3> QED
      BY <1>t, <2>1, <2>2, <2>3, <3>2, <3>3
  <2>5. CASE ~Stale(watch)
    <3>1. flight' = flight
      BY <2>1, <2>5
    <3>2. ASSUME NEW i \in 2 .. Len(log), shown[log[i].topic] < i, Awaited(log[i].topic, i),
                 log[i].topic \in Watched(page)
          PROVE  Awaited(log[i].topic, i)'
      <4>1. PICK t \in Topics : t = log[i].topic /\ t = log'[i].topic
        BY <1>0, <2>1, <3>2, PagesAssumption DEF Watched
      <4>2. ~(watch.newest[t] >= i)
        <5>1. watch.newest[t] \in Nat /\ watch.read[t] = shown[t] /\ shown[t] \in Nat
          BY <1>0, IndexType DEF NewsInv, TypeOK
        <5> QED
          BY <1>0, <2>5, <3>2, <4>1, <5>1 DEF Stale, Unread
      <4>3. WillShow(t, i)
        BY <3>2, <4>1, <4>2 DEF Awaited
      <4>4. WillShow(t, i)'
        BY <2>1, <3>1, <4>3 DEF WillShow, Reading
      <4> QED
        BY <4>1, <4>4 DEF Awaited
    <3>3. \A s \in Slots : flight'[s].asked <= asked
      BY <3>1 DEF LostInv
    <3>4. Plain(page) => \A s \in Slots : Reading(s)' =>
            NoEvery(flight'[s].read) /\ Limits \notin Range(flight'[s].todo)
      BY <2>1, <3>1 DEF LostInv, PlainInv, Reading
    <3> QED
      BY <1>t, <2>1, <2>2, <2>3, <3>2, <3>3, <3>4
  <2> QED
    BY <2>4, <2>5
<1>10. ASSUME NEW o \in opens, StreamOpens(o) PROVE LostInv'
  <2>1. opens' = opens \ {o} /\ UNCHANGED <<log, page, asked, flight, shown, spoiled>>
    BY <1>10 DEF StreamOpens, cluster
  <2>2. CASE o.id # watch.id
    <3>1. watch' = watch /\ Mine' \subseteq Mine
      BY <1>10, <2>1, <2>2 DEF StreamOpens, Mine
    <3> QED
      BY <1>r, <2>1, <3>1
  <2>3. CASE o.id = watch.id
    <3>1. watch' = [watch EXCEPT !.stream = [topics |-> o.topics, next |-> Min({o.from, Len(log)})],
                                 !.heard = FALSE]
      BY <1>10, <2>3 DEF StreamOpens
    <3>2. /\ watch'.stream.topics = o.topics /\ watch'.stream.next = Min({o.from, Len(log)})
          /\ watch'.settling = watch.settling /\ watch'.read = watch.read
          /\ watch'.newest = watch.newest
      BY <1>0, <3>1 DEF WatchState
    <3>3. o \in StreamRequest /\ o.from \in Nat /\ o.topics # {}
      BY <1>0, IndexType DEF TypeOK, StreamRequest
    <3>4. Mine' = {}
      BY <3>2, <3>3 DEF StepInv, StreamInv, Live
    <3>5. {o.from, Len(log)} \in SUBSET Nat /\ {o.from, Len(log)} # {}
      BY <1>0, <3>3
    <3>6. /\ Min({o.from, Len(log)}) \in Nat /\ Min({o.from, Len(log)}) <= o.from
          /\ Min({o.from, Len(log)}) <= Len(log)
      BY <3>5, MinIs
    <3>7. ASSUME Plain(page) PROVE PlainInv'
      <4>1. /\ PlainInv /\ o.topics \subseteq Watched(page)
            /\ ~spoiled => Covered(o.topics, o.from)
        BY <2>3, <3>7 DEF LostInv, PlainInv, Mine
      <4>2. \A t, i : Awaited(t, i) => Awaited(t, i)'
        BY <2>1, <3>2 DEF Awaited, WillShow, Reading
      <4>3. ~spoiled' => Covered(watch.stream.topics, watch.stream.next)'
        <5> SUFFICES ASSUME ~spoiled, NEW i \in 2 .. Len(log), log[i].topic \in o.topics,
                            i < Min({o.from, Len(log)}), shown[log[i].topic] < i
                     PROVE  Awaited(log[i].topic, i)'
          BY <2>1, <3>2 DEF Covered
        <5>1. i < o.from
          BY <1>0, <3>3, <3>6
        <5>2. Awaited(log[i].topic, i)
          BY <4>1, <5>1 DEF Covered
        <5> QED
          BY <2>1, <4>2, <5>2
      <4>4. \A s \in Slots : Reading(s)' <=> Reading(s)
        BY <2>1 DEF Reading
      <4>5. watch'.stream.next <= Len(log') + 1
        BY <1>0, <2>1, <3>2, <3>6
      <4> QED
        BY <2>1, <3>2, <3>4, <4>1, <4>3, <4>4, <4>5 DEF PlainInv, Watched, NoEvery, EveryIndex
    <3> QED
      BY <2>1, <3>7 DEF LostInv, Plain, Watched
  <2> QED
    BY <2>2, <2>3
<1>11. ASSUME NEW o \in opens, StreamRefused(o) PROVE LostInv'
  <2>1. UNCHANGED <<log, version, page, asked, flight, shown, spoiled>>
    BY <1>11 DEF StreamRefused, cluster
  <2>2. CASE WatchEnded(opens \ {o}, FALSE)
    BY <2>1, <2>2, EndedLost
  <2>3. CASE opens' = opens \ {o} /\ watch' = watch
    <3>1. Mine' \subseteq Mine
      BY <2>3 DEF Mine
    <3> QED
      BY <1>r, <2>1, <2>3, <3>1
  <2> QED
    BY <1>11, <2>2, <2>3 DEF StreamRefused
<1>12. ASSUME StreamSends PROVE LostInv'
  <2>1. UNCHANGED <<log, page, asked, opens, flight, shown, spoiled>>
    BY <1>12 DEF StreamSends, cluster
  <2>2. PICK n \in DOMAIN log :
          /\ log[n].topic \in Topics /\ log[n].topic \in watch.stream.topics
          /\ \A j \in DOMAIN log : j >= watch.stream.next /\ log[j].topic \in watch.stream.topics
                                     => n <= j
          /\ watch'.stream.topics = watch.stream.topics /\ watch'.stream.next = n + 1
          /\ watch'.id = watch.id /\ watch'.read = watch.read
          /\ watch.settling => watch'.settling
          /\ watch.read[log[n].topic] # EveryIndex /\ watch.read[log[n].topic] < n =>
               watch'.settling /\ n <= watch'.newest[log[n].topic]
          /\ \A u \in Topics : watch.newest[u] <= watch'.newest[u]
    BY <1>0, <1>12, SendsIs
  <2>3. Mine = {} /\ Mine' = {}
    <3>1. Live(watch)
      BY <2>2 DEF Live
    <3> QED
      BY <2>1, <2>2, <3>1 DEF StepInv, StreamInv, Mine
  <2>4. \A u \in Topics : watch'.newest[u] \in Nat
    BY SMTT(30), <1>0, TypeStep, BoundsAssumption DEF TypeOK, WatchState
  <2>5. ASSUME Plain(page) PROVE PlainInv'
    <3>1. PlainInv
      BY <2>5 DEF LostInv
    <3>2. ~spoiled' => Covered(watch.stream.topics, watch.stream.next)'
      <4> SUFFICES ASSUME ~spoiled, NEW i \in 2 .. Len(log), log[i].topic \in watch.stream.topics,
                          i < n + 1, shown[log[i].topic] < i
                   PROVE  Awaited(log[i].topic, i)'
        BY <2>1, <2>2 DEF Covered
      <4>1. PICK t \in Topics : t = log[i].topic /\ t = log'[i].topic
        BY <1>0, <2>1 DEF WatchState
      <4>2. watch.stream.next \in Nat /\ i \in Nat /\ n \in Nat /\ i \in DOMAIN log
        BY <1>0, IndexType DEF WatchState
      <4>3. CASE i < watch.stream.next
        <5>1. Awaited(t, i)
          BY <3>1, <4>1, <4>3 DEF PlainInv, Covered
        <5>2. WillShow(t, i) => WillShow(t, i)'
          BY <2>1 DEF WillShow, Reading
        <5>3. Awaited(t, i)'
          BY <1>0, <2>1, <2>2, <2>4, <4>2, <5>1, <5>2, AwaitedKept
        <5> QED
          BY <4>1, <5>3
      <4>4. CASE ~(i < watch.stream.next)
        <5>1. i = n
          BY <2>2, <4>2, <4>4
        <5>2. watch.read[t] # EveryIndex /\ watch.read[t] < n
          BY <3>1, <4>1, <5>1 DEF PlainInv, NoEvery, NewsInv
        <5>3. watch'.settling /\ watch'.newest[t] >= i
          BY <2>2, <2>4, <4>1, <4>2, <5>1, <5>2
        <5> QED
          BY <4>1, <5>3 DEF Awaited
      <4> QED
        BY <4>3, <4>4
    <3>3. watch'.stream.next <= Len(log') + 1
      BY <1>0, <2>1, <2>2
    <3>4. \A s \in Slots : Reading(s)' <=> Reading(s)
      BY <2>1 DEF Reading
    <3> QED
      BY <2>1, <2>2, <2>3, <3>1, <3>2, <3>3, <3>4 DEF PlainInv, Watched, NoEvery, EveryIndex
  <2> QED
    BY <2>1, <2>5 DEF LostInv, Plain, Watched
<1>13. ASSUME NEW atOnce \in BOOLEAN, StreamEnds(atOnce) PROVE LostInv'
  <2>1. WatchEnded(opens, atOnce) /\ UNCHANGED <<log, version, page, asked, flight, shown, spoiled>>
    BY <1>13 DEF StreamEnds, cluster
  <2> QED
    BY <2>1, EndedLost
<1>14. ASSUME Done PROVE LostInv'
  BY <1>f, <1>14 DEF Done, cluster
<1>15. ASSUME UNCHANGED vars PROVE LostInv'
  BY <1>r, <1>15 DEF vars, Mine
<1> QED
  BY <1>1, <1>2, <1>3, <1>4, <1>6, <1>7, <1>8, <1>9, <1>10, <1>11, <1>12, <1>13, <1>14, <1>15
     DEF Next

LEMMA LostFirst == Init => LostInv
<1> SUFFICES ASSUME Init PROVE LostInv
  OBVIOUS
<1>1. TypeOK /\ NewsInv
  BY InitType, NewsFirst
<1>2. PICK out \in Places(page, Slots) : flight = Sent([s \in Slots |-> Idle], out, 1)
  BY DEF Init
<1>3. out \in [Requests[page] -> Slots] /\ DOMAIN out = Requests[page]
  BY <1>2 DEF Places, Injection
<1>4. ASSUME NEW s \in Range(out) PROVE AntiFunction(out)[s] \in Requests[page]
  <2>1. PICK q \in Requests[page] : out[q] = s
    BY <1>3 DEF Range
  <2>2. AntiFunction(out)[s] = CHOOSE r \in Requests[page] : s \in Range(out) => out[r] = s
    BY <1>3 DEF AntiFunction, Inverse
  <2> QED
    BY <2>1, <2>2
<1>5. \A s \in Slots : \/ flight[s] = Idle
                       \/ /\ flight[s].asked = 1 /\ flight[s].read = Idle.read
                          /\ flight[s].todo \in Requests[page]
  <2>1. \A q : LET r == [Idle EXCEPT !.asked = 1, !.out = TRUE, !.todo = q]
               IN  r.asked = 1 /\ r.read = Idle.read /\ r.todo = q
    BY DEF Idle
  <2> QED
    BY <1>2, <1>4, <2>1 DEF Sent
<1>6. asked = 1 /\ watch.stream = NoStream /\ watch.read = [t \in Topics |-> Unread] /\ opens = {}
      /\ Len(log) = 1
  BY DEF Init
<1>7. NoEvery(Idle.read) /\ NoEvery(watch.read)
  BY <1>6, BoundsAssumption DEF NoEvery, Idle, Unread, EveryIndex
<1>8. \A s \in Slots : flight[s].asked <= asked
  BY <1>5, <1>6 DEF Idle
<1>9. Plain(page) => PlainInv
  <2>1. \A s \in Slots : Reading(s) => flight[s].read = Idle.read /\ flight[s].todo \in Requests[page]
    BY <1>5, <1>6 DEF Reading, Idle
  <2>2. Mine = {} /\ Covered({}, 0)
    BY <1>6 DEF Mine, Covered
  <2> QED
    BY <1>6, <1>7, <2>1, <2>2 DEF PlainInv, Plain, NoStream
<1> QED
  BY <1>8, <1>9 DEF LostInv

LEMMA LostInductive == Spec => [](PollInv /\ StepInv /\ NewsInv /\ LostInv)
<1>1. PollInv /\ StepInv /\ NewsInv /\ LostInv /\ StepInv' /\ [Next]_vars => LostInv'
  BY LostStep
<1> QED
  BY StepInductive, NewsInductive, LostFirst, <1>1, PTL DEF Spec

(* A page is never left behind a change its open stream has to tell it of:  *)
(* so it is for every page that reads all it watches and asks for no limits *)
(* first (with limits, withoutLimits may leave a change behind).            *)
THEOREM NothingLost == Spec => [](Plain(page) => NoLostChange)
<1>1. PollInv /\ NewsInv /\ LostInv => (Plain(page) => NoLostChange)
  <2> SUFFICES ASSUME PollInv, NewsInv, PlainInv, ~spoiled,
                      NEW i \in 2 .. Len(log), log[i].topic \in watch.stream.topics,
                      shown[log[i].topic] < i
               PROVE  \/ WillShow(log[i].topic, i)
                      \/ watch.settling /\ Stale(watch)
                      \/ NewsToCome
    BY DEF LostInv, NoLostChange
  <2> DEFINE t == log[i].topic
  <2>1. /\ Len(log) \in Nat /\ i \in DOMAIN log /\ t \in Topics /\ watch.read[t] = shown[t]
        /\ watch.newest[t] \in Nat /\ shown[t] \in Nat /\ watch.stream.next \in Nat
    <3>1. t \in Topics /\ Len(log) \in Nat /\ i \in DOMAIN log
      BY DEF PollInv, TypeOK, WatchState, Index
    <3> QED
      BY <3>1, IndexType, BoundsAssumption DEF PollInv, TypeOK, WatchState, NewsInv
  <2>2. CASE i >= watch.stream.next
    BY <2>1, <2>2 DEF NewsToCome, Waiting
  <2>3. CASE i < watch.stream.next
    <3>1. Awaited(t, i)
      BY <2>3 DEF PlainInv, Covered
    <3>2. watch.newest[t] >= i => Stale(watch)
      BY <2>1 DEF Stale
    <3> QED
      BY <3>1, <3>2 DEF Awaited
  <2> QED
    BY <2>1, <2>2, <2>3
<1> QED
  BY <1>1, LostInductive, PTL
=============================================================================
