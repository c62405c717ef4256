--------------------------- MODULE LastingProofs ----------------------------
(* Theorems of what must not be lost on its way: of SavedSession, for any   *)
(* number of moves and faults, that the file only moves on, has the last    *)
(* session after a quit and implements Remembered; of Feed and Stream, for  *)
(* any namespaces, buffers and bounds, that the page is the log and leaves  *)
(* no stream open.                                                          *)
EXTENDS SavedSession, Feed, Extrema, FiniteSetTheorems, SequenceTheorems, TLAPS

-----------------------------------------------------------------------------
(* SavedSession.                                                            *)

(* The snapshots that may still come to the file.                          *)
Out == pending \cup ({writer} \ {NoWrite})

(* A snapshot that is out was taken in this run, of a session not after    *)
(* the one that is open; one the file does not have yet, of a session not  *)
(* before the one in the file.                                             *)
OutIsLater ==
  \A s \in Out : /\ s.number \in 1 .. taken /\ s.number # written
                 /\ s.data <= session
                 /\ s.number > written => s.data >= file

(* Numbers tell snapshots apart, and order them as they were taken.        *)
NumbersOrder ==
  /\ \A s, t \in Out : /\ s.number < t.number => s.data <= t.data
                       /\ s.number = t.number => s = t
  /\ writer \notin pending
  /\ writer # NoWrite => writer.number > written

(* The file is whole, and not after the session that is open.              *)
FileIsSession == file <= session /\ written <= taken

(* The last snapshot of a run that quits is out, and is of the session.    *)
QuitIsOut ==
  phase = "quitting" => /\ written < taken
                        /\ \A s \in Out : s.number = taken => s.data = session

EndIsWritten == phase = "ended" => file = session /\ written = taken

SavedInv == /\ SavedTypeOK /\ OutIsLater /\ NumbersOrder /\ FileIsSession
            /\ QuitIsOut /\ EndIsWritten

-----------------------------------------------------------------------------
LEMMA InitInv == SavedInit => SavedInv
BY SavedBounds, SMTT(30)
   DEF SavedInit, SavedInv, SavedTypeOK, OutIsLater, NumbersOrder, FileIsSession, QuitIsOut,
       EndIsWritten, Out, Snapshot, NoWrite, Cut

(* A snapshot of the session as it is joins those that are out.            *)
LEMMA TakeInv ==
  ASSUME SavedInv, phase = "running", NEW data \in 0 .. MaxMoves, session <= data,
         session' = data, Take(data), phase' \in {"running", "quitting"},
         UNCHANGED <<written, writer, file, saveFaults>>
  PROVE  SavedInv'
<1> DEFINE new == [number |-> taken + 1, data |-> data]
<1> USE DEF SavedInv
<1>1. new \in Snapshot /\ new.number = taken + 1 /\ new.data = data
  BY DEF Snapshot, SavedTypeOK
<1>2. pending' = pending \cup {new} /\ taken' = taken + 1
  BY DEF Take
<1>3. Out' = Out \cup {new}
  BY <1>2 DEF Out
<1>4. \A s \in Out : s \in Snapshot
  BY DEF Out, SavedTypeOK, NoWrite
<1>5. \A s \in Snapshot : s.number \in Nat /\ s.data \in Nat
  BY DEF Snapshot
<1> HIDE DEF new
<1>6. SavedTypeOK'
  BY <1>1, <1>2 DEF SavedTypeOK
<1>7. OutIsLater'
  BY <1>1, <1>2, <1>3, <1>4, <1>5 DEF OutIsLater, FileIsSession, SavedTypeOK
<1>8. NumbersOrder'
  <2>1. writer \notin pending'
    <3>1. writer # new
      BY <1>1, <1>4, <1>5 DEF OutIsLater, Out, SavedTypeOK, NoWrite
    <3> QED
      BY <3>1, <1>2 DEF NumbersOrder
  <2>2. \A s \in Out : s.number < new.number /\ s.data <= new.data
    BY <1>1, <1>4, <1>5 DEF OutIsLater, SavedTypeOK
  <2> QED
    BY <2>1, <2>2, <1>1, <1>3, <1>4, <1>5 DEF NumbersOrder
<1>9. FileIsSession'
  BY <1>2 DEF FileIsSession, SavedTypeOK, Cut
<1>10. QuitIsOut'
  BY <1>1, <1>2, <1>3, <1>4, <1>5 DEF QuitIsOut, OutIsLater, FileIsSession, SavedTypeOK
<1> QED
  BY <1>6, <1>7, <1>8, <1>9, <1>10 DEF EndIsWritten

(* What is out when the writer lets go or takes one over.                  *)
LEMMA FewerOut ==
  ASSUME SavedInv, Out' \subseteq Out, SavedTypeOK', pending' \subseteq pending,
         \/ writer' = NoWrite
         \/ /\ writer' \in pending /\ writer' \notin pending'
            /\ writer'.number > written,
         UNCHANGED <<session, taken, written, phase, file>>
  PROVE  SavedInv'
<1> USE DEF SavedInv
<1>1. OutIsLater'
  BY DEF OutIsLater
<1>2. NumbersOrder'
  <2>1. writer' \notin pending'
    BY SMT DEF SavedTypeOK, NoWrite, Snapshot
  <2> QED
    BY <2>1 DEF NumbersOrder
<1> QED
  BY <1>1, <1>2 DEF FileIsSession, QuitIsOut, EndIsWritten

THEOREM SavedInductive == SavedInit /\ [][SavedNext]_savedVars => []SavedInv
<1>1. SavedInv /\ [SavedNext]_savedVars => SavedInv'
  <2> SUFFICES ASSUME SavedInv, [SavedNext]_savedVars PROVE SavedInv'
    OBVIOUS
  <2> USE SavedBounds DEF SavedInv
  <2>a. \A s \in Out : s \in Snapshot
    BY DEF Out, SavedTypeOK, NoWrite
  <2>b. \A s \in Snapshot : s.number \in Nat \ {0} /\ s.data \in 0 .. MaxMoves
    BY DEF Snapshot
  <2>c. writer # NoWrite => writer \in Out
    BY DEF Out
  <2>1. CASE Move
    BY <2>1, TakeInv DEF Move, SavedTypeOK
  <2>2. CASE OpenGiven
    <3>1. SavedTypeOK' /\ Out' = Out
      BY <2>2 DEF OpenGiven, SavedTypeOK, Out
    <3>2. OutIsLater'
      BY <2>2, <3>1, <2>a, <2>b DEF OpenGiven, OutIsLater, SavedTypeOK
    <3> QED
      BY <2>2, <3>1, <3>2 DEF OpenGiven, NumbersOrder, FileIsSession, QuitIsOut, EndIsWritten,
                              SavedTypeOK, Cut
  <2>3. CASE Quit
    BY <2>3, TakeInv DEF Quit, SavedTypeOK
  <2>4. CASE Renames
    <3>1. /\ writer \in Out /\ written < writer.number /\ writer.number <= taken
          /\ writer.data <= session /\ file <= writer.data
      BY <2>4, <2>c DEF Renames, OutIsLater, NumbersOrder
    <3>2. /\ pending' = pending /\ writer' = NoWrite /\ Out' = pending
          /\ file' = writer.data /\ written' = writer.number
          /\ UNCHANGED <<session, taken, saveFaults>>
      BY <2>4 DEF Renames, Out
    <3>3. \/ phase' = phase /\ ~(phase = "quitting" /\ writer.number = taken)
          \/ phase = "quitting" /\ writer.number = taken /\ phase' = "ended"
      BY <2>4 DEF Renames, Returns
    <3>4. SavedTypeOK'
      BY <3>1, <3>2, <3>3, <2>a, <2>b DEF SavedTypeOK, Cut
    <3>5. \A s \in pending : s \in Out /\ s # writer
      BY DEF Out, NumbersOrder
    <3>6. OutIsLater'
      BY <3>1, <3>2, <3>5, <2>a, <2>b DEF OutIsLater, NumbersOrder, SavedTypeOK
    <3>7. NumbersOrder'
      BY <3>2, <3>5, <2>a, <2>b DEF NumbersOrder, NoWrite
    <3>8. FileIsSession'
      BY <3>1, <3>2 DEF FileIsSession
    <3>9. QuitIsOut'
      BY <3>1, <3>2, <3>3, <3>5, <2>a, <2>b DEF QuitIsOut, SavedTypeOK
    <3>10. EndIsWritten'
      BY <3>1, <3>2, <3>3, <2>a, <2>b DEF EndIsWritten, QuitIsOut, SavedTypeOK
    <3> QED
      BY <3>4, <3>6, <3>7, <3>8, <3>9, <3>10
  <2>5. CASE Fails
    <3>1. /\ writer # NoWrite
          /\ pending' = pending /\ writer' = NoWrite /\ Out' = pending
          /\ UNCHANGED <<session, taken, written, file>>
      BY <2>5 DEF Fails, Out
    <3>2. phase' = phase \/ phase' = "failed"
      BY <2>5 DEF Fails, Returns
    <3>3. SavedTypeOK'
      BY <2>5, <3>1, <3>2 DEF Fails, SavedTypeOK
    <3>4. Out' \subseteq Out /\ NoWrite \notin pending
      BY <3>1, <2>b DEF Out, SavedTypeOK, NoWrite
    <3> QED
      BY <3>1, <3>2, <3>3, <3>4
         DEF OutIsLater, NumbersOrder, FileIsSession, QuitIsOut, EndIsWritten
  <2>6. CASE Crash
    BY <2>6 DEF Crash, SavedTypeOK, Out, OutIsLater, NumbersOrder, FileIsSession, QuitIsOut,
                EndIsWritten
  <2>7. CASE Load
    <3>1. file # Cut /\ Out' = {} /\ pending' = {} /\ writer' = NoWrite
      BY <2>7 DEF Load, Out, FileIsSession, SavedTypeOK, Cut
    <3> QED
      BY <2>7, <3>1 DEF Load, SavedTypeOK, Cut, OutIsLater, NumbersOrder, FileIsSession,
                        QuitIsOut, EndIsWritten
  <2>8. ASSUME NEW s \in pending, Begin(s) PROVE SavedInv'
    <3>1. /\ writer = NoWrite /\ pending' = pending \ {s} /\ s \in Out
          /\ UNCHANGED <<session, taken, written, saveFaults, file>>
      BY <2>8 DEF Begin, Locks, Out
    <3>2. phase' = phase
      <4>1. phase = "quitting" /\ s.number = taken => s.number > written
        BY <3>1, <2>a, <2>b DEF QuitIsOut, SavedTypeOK
      <4> QED
        BY <2>8, <4>1, <3>1, <2>a, <2>b DEF Begin, Returns, SavedTypeOK
    <3>3. CASE s.number <= written
      <4>1. writer' = NoWrite
        BY <2>8, <3>1, <3>3 DEF Begin
      <4>2. SavedTypeOK' /\ Out' \subseteq Out
        BY <3>1, <3>2, <4>1 DEF SavedTypeOK, Out
      <4> QED
        BY <3>1, <3>2, <4>1, <4>2, FewerOut
    <3>4. CASE ~(s.number <= written)
      <4>1. writer' = s /\ s.number > written
        BY <2>8, <3>1, <3>4, <2>a, <2>b DEF Begin, SavedTypeOK
      <4>2. SavedTypeOK' /\ Out' \subseteq Out
        BY <3>1, <3>2, <4>1 DEF SavedTypeOK, Out
      <4> QED
        BY <3>1, <3>2, <4>1, <4>2, FewerOut
    <3> QED
      BY <3>3, <3>4
  <2>9. CASE UNCHANGED savedVars
    BY <2>9 DEF savedVars, SavedTypeOK, Out, OutIsLater, NumbersOrder, FileIsSession, QuitIsOut,
                EndIsWritten
  <2> QED
    BY <2>1, <2>2, <2>3, <2>4, <2>5, <2>6, <2>7, <2>8, <2>9 DEF SavedNext
<1> QED
  BY <1>1, InitInv, PTL

-----------------------------------------------------------------------------
(* Every variable of SavedSession keeps its type.                          *)
THEOREM SavedTypes == SavedSpec => []SavedTypeOK
<1>1. SavedInv => SavedTypeOK
  BY DEF SavedInv
<1> QED
  BY <1>1, SavedInductive, PTL DEF SavedSpec

(* After a quit without an error the file has the session as it was left,  *)
(* however many writes were out, whichever of them came before it or       *)
(* failed (SaveSession, Write).                                            *)
THEOREM LastSessionSaved == SavedSpec => []QuitSaves
<1>1. SavedInv => QuitSaves
  BY DEF SavedInv, EndIsWritten, QuitSaves
<1> QED
  BY <1>1, SavedInductive, PTL DEF SavedSpec

(* The file never goes back, whatever order the writes start in and        *)
(* whichever of them fail, over any number of runs (Write, Load).          *)
THEOREM FileMovesOn == SavedSpec => NeverBack
<1>1. SavedInv /\ [SavedNext]_savedVars => [file' >= file]_file
  <2> SUFFICES ASSUME SavedInv, [SavedNext]_savedVars, file' # file PROVE file' >= file
    OBVIOUS
  <2>1. Renames
    BY DEF SavedNext, savedVars, Move, OpenGiven, Quit, Fails, Crash, Load, Begin
  <2>2. writer \in Out /\ file' = writer.data /\ writer.data >= file
    BY <2>1 DEF Renames, SavedInv, OutIsLater, NumbersOrder, Out
  <2> QED
    BY <2>2
<1> QED
  BY <1>1, SavedInductive, PTL DEF SavedSpec, NeverBack

(* Numbered snapshots, the lock and the temp file implement a file that    *)
(* moves on to a later session in one step, to the last one when urga      *)
(* quits, and that the next run starts from (config.go, SaveSession).      *)
THEOREM SavedImplementsRemembered == SavedSpec => ImplementsRemembered
<1>1. SavedInit => Kept!Init
  BY SavedBounds DEF SavedInit, Kept!Init
<1>2. SavedInv /\ [SavedNext]_savedVars => [Kept!Next]_(Kept!vars)
  <2> SUFFICES ASSUME SavedInv, [SavedNext]_savedVars PROVE Kept!Next \/ UNCHANGED Kept!vars
    BY DEF Kept!vars
  <2> USE SavedBounds DEF SavedInv
  <2>1. CASE Move
    BY <2>1 DEF Move, Kept!Next, Kept!Change
  <2>2. CASE OpenGiven
    BY <2>2 DEF OpenGiven, Kept!Next, Kept!Change
  <2>3. CASE Quit
    BY <2>3 DEF Quit, Kept!vars
  <2>4. CASE Renames
    <3>1. /\ writer \in Out /\ writer \in Snapshot /\ writer.number > written
          /\ writer.data <= session /\ writer.data >= file
      BY <2>4 DEF Renames, OutIsLater, NumbersOrder, Out, SavedTypeOK
    <3>2. writer.data \in Nat /\ file' = writer.data /\ session' = session /\ file \in Nat
      BY <2>4, <3>1 DEF Renames, Snapshot, SavedTypeOK, Cut
    <3>3. phase # "ended"
      BY <3>1 DEF EndIsWritten, OutIsLater, SavedTypeOK, Snapshot
    <3>4. CASE phase = "quitting" /\ writer.number = taken
      <4>1. phase' = "ended" /\ writer.data = session
        BY <2>4, <3>1, <3>4 DEF Renames, Returns, QuitIsOut
      <4> QED
        BY <4>1, <3>2, <3>3 DEF Kept!Next, Kept!Quit
    <3>5. CASE ~(phase = "quitting" /\ writer.number = taken)
      <4>1. phase' = phase
        BY <2>4, <3>5 DEF Renames, Returns
      <4> QED
        BY <4>1, <3>1, <3>2, <3>3 DEF Kept!Next, Kept!Save, Kept!vars, SavedTypeOK
    <3> QED
      BY <3>4, <3>5
  <2>5. CASE Fails
    BY <2>5 DEF Fails, Returns, Kept!vars
  <2>6. CASE Crash
    BY <2>6 DEF Crash, Kept!vars
  <2>7. CASE Load
    BY <2>7 DEF Load, Kept!Next, Kept!Start, FileIsSession, SavedTypeOK, Cut
  <2>8. ASSUME NEW s \in pending, Begin(s) PROVE Kept!Next \/ UNCHANGED Kept!vars
    <3>1. s \in Out /\ s \in Snapshot /\ UNCHANGED <<session, file>>
      BY <2>8 DEF Begin, Locks, Out, SavedTypeOK
    <3>2. phase = "quitting" /\ s.number = taken => ~(s.number <= written)
      BY <3>1 DEF QuitIsOut, SavedTypeOK
    <3>3. phase' = phase
      BY <2>8, <3>2 DEF Begin, Returns
    <3> QED
      BY <3>1, <3>3 DEF Kept!vars
  <2>9. CASE UNCHANGED savedVars
    BY <2>9 DEF savedVars, Kept!vars
  <2> QED
    BY <2>1, <2>2, <2>3, <2>4, <2>5, <2>6, <2>7, <2>8, <2>9 DEF SavedNext
<1> QED
  BY <1>1, <1>2, SavedInductive, PTL DEF SavedSpec, ImplementsRemembered, Kept!Spec

-----------------------------------------------------------------------------
(* Feed and Stream.                                                         *)

(* A finite set of places has an order: Sorted finds it.                    *)
Orders(seq, n, S) ==
  seq \in [1 .. n -> S] /\ \A i, j \in 1 .. n : i < j => seq[i] < seq[j]

LEMMA OrderedOneMore ==
  ASSUME NEW n \in Nat, NEW S \in SUBSET Nat, IsFiniteSet(S), Cardinality(S) = n + 1,
         \A T \in SUBSET Nat : IsFiniteSet(T) /\ Cardinality(T) = n => \E seq : Orders(seq, n, T)
  PROVE  \E seq : Orders(seq, n + 1, S)
<1>1. S # {}
  BY FS_EmptySet
<1>2. PICK least \in Nat : least \in S /\ \A m \in S : least <= m
  BY <1>1, MinIs
<1> DEFINE T == S \ {least}
<1>3. T \in SUBSET Nat /\ IsFiniteSet(T) /\ Cardinality(T) = n
  <2>1. IsFiniteSet(T) /\ Cardinality(T) = Cardinality(S) - 1
    BY <1>2, FS_RemoveElement
  <2> QED
    BY <2>1, <1>2
<1>4. PICK rest : Orders(rest, n, T)
  BY <1>3
<1> DEFINE seq == [i \in 1 .. n + 1 |-> IF i = 1 THEN least ELSE rest[i - 1]]
<1>5. \A m \in T : m \in S /\ least < m
  BY <1>2
<1> HIDE DEF T
<1>6. \A i \in 1 .. n + 1 : i = 1 \/ i - 1 \in 1 .. n
  OBVIOUS
<1>7. \A i \in 1 .. n : rest[i] \in T
  BY <1>4 DEF Orders
<1>8. seq \in [1 .. n + 1 -> S]
  BY <1>2, <1>5, <1>6, <1>7
<1>9. ASSUME NEW i \in 1 .. n + 1, NEW j \in 1 .. n + 1, i < j
      PROVE  seq[i] < seq[j]
  <2>1. j - 1 \in 1 .. n /\ seq[j] = rest[j - 1]
    BY <1>9
  <2>2. CASE i = 1
    BY <2>1, <2>2, <1>5, <1>7
  <2>3. CASE i # 1
    <3>1. i - 1 \in 1 .. n /\ seq[i] = rest[i - 1] /\ i - 1 < j - 1
      BY <1>9, <2>3
    <3> QED
      BY <2>1, <3>1, <1>4 DEF Orders
  <2> QED
    BY <2>2, <2>3
<1> HIDE DEF seq
<1> QED
  BY <1>8, <1>9 DEF Orders

LEMMA OrderedAll ==
  \A n \in Nat : \A S \in SUBSET Nat :
    IsFiniteSet(S) /\ Cardinality(S) = n => \E seq : Orders(seq, n, S)
<1> DEFINE All(n) == \A S \in SUBSET Nat :
                       IsFiniteSet(S) /\ Cardinality(S) = n => \E seq : Orders(seq, n, S)
<1> DEFINE Not == {n \in Nat : ~All(n)}
<1> SUFFICES ASSUME Not # {} PROVE FALSE
  OBVIOUS
<1>1. Min(Not) \in Not /\ \A n \in Not : Min(Not) <= n
  BY MinIs
<1>2. PICK least \in Nat : least \in Not /\ \A n \in Not : least <= n
  BY <1>1
<1>3. least # 0
  <2>1. ASSUME NEW S \in SUBSET Nat, IsFiniteSet(S), Cardinality(S) = 0
        PROVE  \E seq : Orders(seq, 0, S)
    <3>1. Orders([i \in 1 .. 0 |-> 0], 0, S)
      BY DEF Orders
    <3> QED
      BY <3>1
  <2> QED
    BY <2>1, <1>2
<1>4. least - 1 \in Nat /\ least - 1 \notin Not
  BY <1>2, <1>3
<1>5. All(least - 1)
  BY <1>4
<1>6. ASSUME NEW S \in SUBSET Nat, IsFiniteSet(S), Cardinality(S) = least
      PROVE  \E seq : Orders(seq, least, S)
  <2>1. PICK n \in Nat : n = least - 1
    BY <1>4
  <2>2. n + 1 = least
    BY <2>1, <1>2
  <2>3. All(n)
    BY <2>1, <1>5
  <2>4. \E seq : Orders(seq, n + 1, S)
    BY <1>6, <2>2, <2>3, OrderedOneMore
  <2> QED
    BY <2>2, <2>4
<1>7. All(least)
  BY <1>6
<1> QED
  BY <1>2, <1>7

LEMMA SortedIs ==
  ASSUME NEW S \in SUBSET Nat, IsFiniteSet(S)
  PROVE  Orders(Sorted(S), Cardinality(S), S)
<1>1. PICK n \in Nat : n = Cardinality(S)
  BY FS_CardinalityType
<1>2. PICK seq : Orders(seq, n, S)
  BY <1>1, OrderedAll
<1>3. Sorted(S) = CHOOSE q \in [1 .. n -> S] : \A i, j \in 1 .. n : i < j => q[i] < q[j]
  BY <1>1 DEF Sorted
<1>4. seq \in [1 .. n -> S] /\ \A i, j \in 1 .. n : i < j => seq[i] < seq[j]
  BY <1>2 DEF Orders
<1>5. /\ Sorted(S) \in [1 .. n -> S]
      /\ \A i, j \in 1 .. n : i < j => Sorted(S)[i] < Sorted(S)[j]
  BY <1>3, <1>4, Zenon
<1> QED
  BY <1>1, <1>5 DEF Orders

-----------------------------------------------------------------------------
(* Types. A place that is anywhere is one of the log.                       *)
Places == 1 .. Len(feedLog)
StreamState ==
  [ctx : {"none", "live", "cancelled"}, of : SUBSET What, from : Nat, at : 0 .. Len(feedLog),
   batch : Seq(Places), buffer : Seq(Places), err : BOOLEAN, shut : BOOLEAN]
Numbers == 1 .. MaxFeedStreams
OpenMessage == [kind : {"open"}, asked : Numbers, ns : Namespaces, from : Nat]
PlainMessage == [kind : {"opened", "wait", "ended"}, asked : Numbers, feed : Numbers]
EventsMessage == [kind : {"events"}, asked : Numbers, feed : Numbers, events : Seq(Places)]
FeedMessage == OpenMessage \cup PlainMessage \cup EventsMessage
PageState == [feed : {NoFeed} \cup Numbers, events : Seq(Places), ns : Namespaces, last : Nat]

LogOK ==
  /\ feedLog \in Seq([index : Nat, what : What]) /\ Len(feedLog) <= MaxEvents
  /\ \A i \in Places : feedLog[i].index <= Len(feedLog)
FeedTypeOK ==
  /\ LogOK
  /\ streams \in [Numbers -> StreamState]
  /\ feedFaults \in Nat
  /\ feedPage \in PageState
  /\ top \in BOOLEAN /\ feedAsked \in Numbers /\ here \in Namespaces
  /\ out \subseteq FeedMessage

(* A message is of an ask of the page on top, or of one before; an ask has  *)
(* one, and its stream has the number of the ask.                           *)
Labelled ==
  /\ \A m \in out :
       /\ m.asked <= feedAsked
       /\ m.asked = feedAsked => top
       /\ m.kind # "open" => m.feed = m.asked
       /\ m.kind = "ended" => streams[m.feed].shut
  /\ \A m, n \in out : m.asked = n.asked => m = n

(* The page reads the stream of its ask, or none yet.                       *)
ReadsItsOwn ==
  /\ feedPage.feed \in {NoFeed, feedAsked}
  /\ feedPage.feed # NoFeed =>
       top /\ \E m \in out : m.asked = feedAsked /\ m.kind \in {"wait", "events", "ended"}

FeedInv == FeedTypeOK /\ Labelled /\ ReadsItsOwn /\ NoStreamLeft

LEMMA Bounds == MaxFeedStreams \in Nat /\ MaxFeedStreams >= 1 /\ MaxFeedAsked = MaxFeedStreams
                /\ NoFeed \notin Numbers /\ 1 \in Numbers
BY StreamAssumption, FeedAssumption DEF Numbers, NoFeed

LEMMA UnopenedType ==
  ASSUME LogOK
  PROVE  /\ UnopenedStream \in StreamState /\ ~UnopenedStream.shut /\ ~UnopenedStream.err
         /\ UnopenedStream.ctx = "none" /\ UnopenedStream.of = {} /\ UnopenedStream.from = 0
         /\ UnopenedStream.at = 0 /\ UnopenedStream.batch = <<>> /\ UnopenedStream.buffer = <<>>
<1>1. PICK e : e = <<>>
  OBVIOUS
<1>2. e \in Seq(Places)
  BY <1>1
<1>3. PICK none \in Nat : none = 0
  OBVIOUS
<1>4. UnopenedStream = [ctx |-> "none", of |-> {}, from |-> none, at |-> none, batch |-> e,
                        buffer |-> e, err |-> FALSE, shut |-> FALSE]
  BY <1>1, <1>3 DEF UnopenedStream
<1>5. none \in 0 .. Len(feedLog)
  BY <1>3 DEF LogOK
<1> QED
  BY <1>1, <1>2, <1>3, <1>4, <1>5 DEF StreamState

(* What the steps of a stream leave of it.                                  *)
LEMMA ClosedIs ==
  ASSUME FeedTypeOK, NEW s \in {NoFeed} \cup Numbers
  PROVE  /\ Closed(s) \in [Numbers -> StreamState]
         /\ \A t \in Numbers : t # s => Closed(s)[t] = streams[t]
         /\ s \in Numbers => Closed(s)[s].shut \/ Closed(s)[s].ctx = "cancelled"
         /\ \A t \in Numbers : streams[t].shut => Closed(s)[t].shut
<1>1. CASE s = NoFeed
  BY <1>1, Bounds DEF Closed, FeedTypeOK
<1>2. CASE s \in Numbers /\ streams[s].shut
  BY <1>2 DEF Closed, FeedTypeOK
<1>3. CASE s \in Numbers /\ ~streams[s].shut
  <2> DEFINE st == [UnopenedStream EXCEPT !.ctx = "cancelled", !.batch = streams[s].batch,
                                          !.buffer = streams[s].buffer]
  <2>1. Closed(s) = [streams EXCEPT ![s] = st]
    BY <1>3, Bounds DEF Closed
  <2>2. st \in StreamState /\ st.ctx = "cancelled"
    BY <1>3, UnopenedType DEF FeedTypeOK, StreamState
  <2> HIDE DEF st
  <2> QED
    BY <2>1, <2>2, <1>3 DEF FeedTypeOK
<1> QED
  BY <1>1, <1>2, <1>3

LEMMA BeforeIs ==
  ASSUME LogOK, NEW from \in Nat
  PROVE  Before(from) \in 0 .. Len(feedLog)
<1> DEFINE first == IF from > NewestEvent THEN NewestEvent ELSE from
           S == {0} \cup {i \in DOMAIN feedLog : feedLog[i].index < first}
<1>1. DOMAIN feedLog = Places /\ Len(feedLog) \in Nat
  BY DEF LogOK, Places
<1>2. S \in SUBSET (0 .. Len(feedLog)) /\ S # {}
  BY <1>1 DEF Places
<1> HIDE DEF S
<1>3. Max(S) \in S
  BY <1>1, <1>2, MaxIs
<1> QED
  BY <1>2, <1>3 DEF Before, S

LEMMA FollowedIs ==
  ASSUME FeedTypeOK, NEW s \in Numbers, NEW of \in SUBSET What, NEW from \in Nat
  PROVE  /\ Followed(s, of, from) \in [Numbers -> StreamState]
         /\ \A t \in Numbers : t # s => Followed(s, of, from)[t] = streams[t]
         /\ LET st == Followed(s, of, from)[s]
            IN  /\ st.ctx = "live" /\ st.of = of /\ st.from = from /\ st.at = Before(from)
                /\ st.batch = <<>> /\ st.buffer = <<>> /\ ~st.shut
<1> DEFINE st == [UnopenedStream EXCEPT !.ctx = "live", !.of = of, !.from = from, !.at = Before(from)]
<1>1. Followed(s, of, from) = [streams EXCEPT ![s] = st]
  BY DEF Followed
<1>2. LogOK
  BY DEF FeedTypeOK
<1>3. /\ st \in StreamState /\ st.ctx = "live" /\ st.of = of /\ st.from = from /\ st.at = Before(from)
      /\ st.batch = <<>> /\ st.buffer = <<>> /\ ~st.shut
  BY <1>2, UnopenedType, BeforeIs DEF StreamState
<1> HIDE DEF st
<1> QED
  BY <1>1, <1>3 DEF FeedTypeOK

LEMMA ReturnedIs ==
  ASSUME LogOK, NEW st \in StreamState, NEW err \in BOOLEAN
  PROVE  /\ Returned(st, err) \in StreamState /\ Returned(st, err).shut
         /\ Returned(st, err).ctx = st.ctx
         /\ Returned(st, err).batch = <<>> /\ Returned(st, err).buffer = st.buffer
<1>1. PICK error \in BOOLEAN : error = (err /\ st.buffer # <<>>)
  OBVIOUS
<1>2. Returned(st, err) = [UnopenedStream EXCEPT !.ctx = st.ctx, !.buffer = st.buffer,
                                                 !.err = error, !.shut = TRUE]
  BY <1>1 DEF Returned
<1> QED
  BY <1>2, UnopenedType DEF StreamState

LEMMA OverIs ==
  ASSUME FeedTypeOK, NEW s \in Numbers
  PROVE  /\ Over(s) \in [Numbers -> StreamState]
         /\ \A t \in Numbers : t # s => Over(s)[t] = streams[t]
         /\ Over(s)[s].shut /\ Over(s)[s].batch = <<>> /\ Over(s)[s].buffer = <<>>
<1> DEFINE st == [UnopenedStream EXCEPT !.ctx = "cancelled", !.shut = TRUE]
<1>1. LogOK
  BY DEF FeedTypeOK
<1>2. st \in StreamState /\ st.shut /\ st.batch = <<>> /\ st.buffer = <<>>
  BY <1>1, UnopenedType DEF StreamState
<1>3. Over(s) = [streams EXCEPT ![s] = st]
  BY DEF Over
<1> HIDE DEF st
<1> QED
  BY <1>2, <1>3 DEF FeedTypeOK

LEMMA EmptiedIs ==
  ASSUME FeedTypeOK, NEW s \in Numbers
  PROVE  /\ Emptied(s) \in [Numbers -> StreamState]
         /\ \A t \in Numbers : t # s => Emptied(s)[t] = streams[t]
         /\ Emptied(s)[s] = [streams[s] EXCEPT !.buffer = <<>>]
<1>1. PICK e : e = <<>>
  OBVIOUS
<1>2. e \in Seq(Places)
  BY <1>1
<1>3. Emptied(s) = [streams EXCEPT ![s] = [streams[s] EXCEPT !.buffer = e]]
  BY <1>1 DEF Emptied, FeedTypeOK
<1>4. [streams[s] EXCEPT !.buffer = e] \in StreamState
  BY <1>2 DEF FeedTypeOK, StreamState
<1> QED
  BY <1>1, <1>3, <1>4 DEF FeedTypeOK

(* The places of one index are of the log, and there is a next one.         *)
LEMMA NextIndexIs ==
  ASSUME LogOK, NEW place \in 0 .. Len(feedLog), place < Len(feedLog)
  PROVE  /\ NextIndex(place) \in SUBSET Places /\ place + 1 \in NextIndex(place)
         /\ Max(NextIndex(place)) \in Places /\ Max(NextIndex(place)) > place
         /\ \A i \in NextIndex(place) : i <= Max(NextIndex(place)) /\ i > place
         /\ IsFiniteSet(NextIndex(place))
<1>1. DOMAIN feedLog = Places /\ Len(feedLog) \in Nat
  BY DEF LogOK, Places
<1>2. NextIndex(place) \in SUBSET Places /\ place + 1 \in NextIndex(place)
  BY <1>1 DEF NextIndex, Places
<1>3. NextIndex(place) \in SUBSET (0 .. Len(feedLog)) /\ NextIndex(place) # {}
  BY <1>2 DEF Places
<1>4. /\ Max(NextIndex(place)) \in NextIndex(place)
      /\ \A i \in NextIndex(place) : i <= Max(NextIndex(place))
  BY <1>1, <1>3, MaxIs
<1>5. \A i \in NextIndex(place) : i > place
  BY DEF NextIndex
<1>6. IsFiniteSet(NextIndex(place))
  <2>1. IsFiniteSet(0 .. Len(feedLog))
    BY <1>1, FS_Interval
  <2> QED
    BY <1>3, <2>1, FS_Subset
<1> QED
  BY <1>2, <1>4, <1>5, <1>6

LEMMA ReceivesIs ==
  ASSUME FeedTypeOK, NEW s \in Numbers, Receives(s)
  PROVE  /\ streams' \in [Numbers -> StreamState]
         /\ \A t \in Numbers : t # s => streams'[t] = streams[t]
         /\ LET st == streams[s]
                next == {i \in NextIndex(st.at) : feedLog[i].what \in st.of /\ feedLog[i].index >= st.from}
            IN  /\ st.ctx = "live" /\ ~st.shut /\ st.batch = <<>> /\ st.at < Len(feedLog)
                /\ streams'[s].at = Max(NextIndex(st.at))
                /\ streams'[s].ctx = "live" /\ ~streams'[s].shut
                /\ streams'[s].of = st.of /\ streams'[s].from = st.from
                /\ streams'[s].buffer = st.buffer
                /\ streams'[s].batch = Sorted(next) /\ Orders(streams'[s].batch, Cardinality(next), next)
<1> DEFINE st == streams[s]
           next == {i \in NextIndex(st.at) : feedLog[i].what \in st.of /\ feedLog[i].index >= st.from}
<1>1. LogOK /\ st \in StreamState /\ st.at \in 0 .. Len(feedLog) /\ st.at < Len(feedLog)
  BY DEF FeedTypeOK, StreamState, Receives
<1>2. PICK newest \in Places : newest = Max(NextIndex(st.at))
  BY <1>1, NextIndexIs
<1>3. next \in SUBSET Places /\ IsFiniteSet(next)
  <2>1. next \subseteq NextIndex(st.at)
    OBVIOUS
  <2> QED
    BY <1>1, <2>1, NextIndexIs, FS_Subset
<1>4. Orders(Sorted(next), Cardinality(next), next) /\ Cardinality(next) \in Nat
  <2>1. next \in SUBSET Nat
    BY <1>3 DEF Places
  <2> QED
    BY <1>3, <2>1, SortedIs, FS_CardinalityType
<1>5. PICK batch : batch = Sorted(next)
  OBVIOUS
<1> HIDE DEF next
<1>6. batch \in Seq(Places)
  BY <1>3, <1>4, <1>5 DEF Orders
<1>7. streams' = [streams EXCEPT ![s] = [st EXCEPT !.at = newest, !.batch = batch]]
  BY <1>2, <1>5 DEF Receives, FeedTypeOK, next
<1>8. newest \in 0 .. Len(feedLog)
  BY <1>2 DEF Places
<1>9. [st EXCEPT !.at = newest, !.batch = batch] \in StreamState
  BY <1>1, <1>6, <1>8 DEF StreamState
<1>10. streams'[s] = [st EXCEPT !.at = newest, !.batch = batch]
  BY <1>7 DEF FeedTypeOK
<1>11. /\ streams'[s].at = newest /\ streams'[s].batch = batch
       /\ streams'[s].ctx = st.ctx /\ streams'[s].shut = st.shut /\ streams'[s].of = st.of
       /\ streams'[s].from = st.from /\ streams'[s].buffer = st.buffer
  BY <1>1, <1>10 DEF StreamState
<1>12. streams' \in [Numbers -> StreamState] /\ \A t \in Numbers : t # s => streams'[t] = streams[t]
  BY <1>7, <1>9 DEF FeedTypeOK
<1>13. st.ctx = "live" /\ ~st.shut /\ st.batch = <<>>
  BY DEF Receives
<1> QED
  BY <1>1, <1>2, <1>4, <1>5, <1>11, <1>12, <1>13 DEF next

LEMMA SendsIs ==
  ASSUME FeedTypeOK, NEW s \in Numbers, Sends(s)
  PROVE  /\ streams' \in [Numbers -> StreamState]
         /\ \A t \in Numbers : t # s => streams'[t] = streams[t]
         /\ streams[s].batch # <<>> /\ ~streams[s].shut
         /\ streams'[s] = [streams[s] EXCEPT !.buffer = Append(streams[s].buffer, Head(streams[s].batch)),
                                             !.batch = Tail(streams[s].batch)]
<1> DEFINE st == streams[s]
<1>1. st \in StreamState /\ st.batch # <<>> /\ ~st.shut
  BY DEF FeedTypeOK, Sends
<1>2. PICK buffer : buffer = Append(st.buffer, Head(st.batch))
  OBVIOUS
<1>3. PICK batch : batch = Tail(st.batch)
  OBVIOUS
<1>4. buffer \in Seq(Places) /\ batch \in Seq(Places)
  BY <1>1, <1>2, <1>3 DEF StreamState
<1>5. streams' = [streams EXCEPT ![s] = [st EXCEPT !.buffer = buffer, !.batch = batch]]
  BY <1>2, <1>3 DEF Sends, FeedTypeOK
<1>6. [st EXCEPT !.buffer = buffer, !.batch = batch] \in StreamState
  BY <1>1, <1>4 DEF StreamState
<1> QED
  BY <1>1, <1>2, <1>3, <1>5, <1>6 DEF FeedTypeOK

-----------------------------------------------------------------------------
(* The steps of the page.                                                   *)
StreamsType == [Numbers -> StreamState]
Live(st) == st.ctx = "live" /\ ~st.shut

LEMMA SameLog ==
  ASSUME UNCHANGED feedLog
  PROVE  /\ Places' = Places /\ StreamState' = StreamState /\ FeedMessage' = FeedMessage
         /\ PageState' = PageState /\ LogOK' = LogOK
<1>1. Places' = Places
  BY DEF Places
<1>2. LogOK' = LogOK
  BY <1>1 DEF LogOK
<1> QED
  BY <1>1, <1>2 DEF StreamState, FeedMessage, EventsMessage, PageState, PlainMessage, OpenMessage

(* A stream goes on by itself.                                              *)
LEMMA StreamStep ==
  ASSUME FeedInv, UNCHANGED feedLog, UNCHANGED pageVars, feedFaults' \in Nat, streams' \in StreamsType,
         \A t \in Numbers : (streams[t].shut => streams'[t].shut) /\ (Live(streams'[t]) => Live(streams[t]))
  PROVE  FeedInv'
<1>1. FeedTypeOK'
  BY SameLog DEF FeedInv, FeedTypeOK, StreamsType, pageVars
<1>2. Labelled'
  <2>1. \A m \in out : m.kind = "ended" => m.feed \in Numbers
    BY DEF FeedInv, FeedTypeOK, FeedMessage, PlainMessage, OpenMessage, EventsMessage
  <2> QED
    BY <2>1 DEF FeedInv, Labelled, pageVars
<1>3. ReadsItsOwn'
  BY DEF FeedInv, ReadsItsOwn, pageVars
<1>4. NoStreamLeft'
  BY DEF FeedInv, NoStreamLeft, pageVars, Live, Numbers
<1> QED
  BY <1>1, <1>2, <1>3, <1>4 DEF FeedInv

(* A command ends, or a message is taken: what comes of it is of its ask.   *)
LEMMA MessageStep ==
  ASSUME FeedInv, UNCHANGED <<feedLog, top, feedAsked, here>>, feedFaults' \in Nat,
         NEW m \in out, NEW new \in SUBSET FeedMessage, out' = (out \ {m}) \cup new,
         \A n \in new : /\ n.asked = m.asked /\ (n.kind # "open" => n.feed = n.asked)
                        /\ (n.kind = "ended" => streams'[n.feed].shut),
         \A n, o \in new : n = o,
         streams' \in StreamsType,
         \A t \in Numbers : t # m.asked => streams'[t] = streams[t],
         feedPage' \in PageState,
         Live(streams'[m.asked]) =>
           m.asked = feedPage'.feed \/ \E n \in new : n.kind = "opened" /\ n.feed = m.asked,
         \/ feedPage'.feed = feedPage.feed /\ m.asked # feedAsked
         \/ feedPage'.feed = NoFeed /\ m.asked = feedAsked
         \/ /\ feedPage'.feed = feedAsked /\ m.asked = feedAsked
            /\ \E n \in new : n.kind \in {"wait", "events", "ended"}
  PROVE  FeedInv'
<1> USE DEF FeedInv
<1>1. FeedTypeOK'
  BY SameLog DEF FeedTypeOK, StreamsType
<1>2. \A n \in out : n.asked \in Numbers /\ (n.kind # "open" => n.feed \in Numbers)
  BY DEF FeedTypeOK, FeedMessage, PlainMessage, OpenMessage, EventsMessage
<1>3. Labelled'
  <2>1. ASSUME NEW n \in out'
        PROVE  /\ n.asked <= feedAsked'
               /\ n.asked = feedAsked' => top'
               /\ n.kind # "open" => n.feed = n.asked
               /\ n.kind = "ended" => streams'[n.feed].shut
    <3>1. CASE n \in new
      BY <3>1 DEF Labelled
    <3>2. CASE n \in out /\ n # m
      <4>1. n.asked # m.asked
        BY <3>2 DEF Labelled
      <4> QED
        BY <1>2, <3>2, <4>1 DEF Labelled
    <3> QED
      BY <3>1, <3>2
  <2>2. ASSUME NEW n \in out', NEW o \in out', n.asked = o.asked PROVE n = o
    <3>1. CASE n \in new /\ o \in new
      BY <3>1
    <3>2. CASE n \in out /\ n # m /\ o \in out /\ o # m
      BY <3>2, <2>2 DEF Labelled
    <3>3. CASE n \in new /\ o \in out /\ o # m
      <4>1. o.asked = m.asked
        BY <3>3, <2>2
      <4> QED
        BY <4>1, <3>3 DEF Labelled
    <3>4. CASE o \in new /\ n \in out /\ n # m
      <4>1. n.asked = m.asked
        BY <3>4, <2>2
      <4> QED
        BY <4>1, <3>4 DEF Labelled
    <3> QED
      BY <3>1, <3>2, <3>3, <3>4
  <2> QED
    BY <2>1, <2>2 DEF Labelled
<1>4. ReadsItsOwn'
  <2>1. CASE feedPage'.feed = feedPage.feed /\ m.asked # feedAsked
    BY <2>1 DEF ReadsItsOwn
  <2>2. CASE feedPage'.feed = NoFeed
    BY <2>2 DEF ReadsItsOwn
  <2>3. CASE /\ feedPage'.feed = feedAsked /\ m.asked = feedAsked
             /\ \E n \in new : n.kind \in {"wait", "events", "ended"}
    BY <2>3 DEF ReadsItsOwn, Labelled
  <2> QED
    BY <2>1, <2>2, <2>3
<1>5. NoStreamLeft'
  <2>1. ASSUME NEW s \in Numbers, Live(streams'[s])
        PROVE  s = feedPage'.feed \/ \E n \in out' : n.kind = "opened" /\ n.feed = s
    <3>1. CASE s = m.asked
      BY <2>1, <3>1
    <3>2. CASE s # m.asked
      <4>1. s = feedPage.feed \/ \E n \in out : n.kind = "opened" /\ n.feed = s
        BY <2>1, <3>2 DEF NoStreamLeft, Live, Numbers
      <4>2. CASE s = feedPage.feed
        <5>1. s = feedAsked
          BY <4>2, Bounds DEF ReadsItsOwn
        <5> QED
          BY <5>1, <3>2, <4>2
      <4>3. CASE \E n \in out : n.kind = "opened" /\ n.feed = s
        <5>1. PICK n \in out : n.kind = "opened" /\ n.feed = s
          BY <4>3
        <5>2. n.asked = s
          BY <5>1 DEF Labelled
        <5> QED
          BY <5>1, <5>2, <3>2
      <4> QED
        BY <4>1, <4>2, <4>3
    <3> QED
      BY <3>1, <3>2
  <2>2. feedPage'.feed # NoFeed => top'
    BY <1>4 DEF ReadsItsOwn
  <2> QED
    BY <2>1, <2>2 DEF NoStreamLeft, Live, Numbers
<1> QED
  BY <1>1, <1>3, <1>4, <1>5

PageNext(m, kinds) ==
  \/ feedPage'.feed = feedPage.feed /\ m.asked # feedAsked
  \/ feedPage'.feed = NoFeed /\ m.asked = feedAsked
  \/ feedPage'.feed = feedAsked /\ m.asked = feedAsked /\ kinds \subseteq {"wait", "events", "ended"} /\ kinds # {}
Rest(m) ==
  /\ UNCHANGED <<feedLog, top, feedAsked, here>> /\ feedFaults' \in Nat
  /\ streams' \in StreamsType /\ feedPage' \in PageState
  /\ \A t \in Numbers : t # m.asked => streams'[t] = streams[t]

LEMMA MessageEnds ==
  ASSUME FeedInv, NEW m \in out, out' = out \ {m}, Rest(m), PageNext(m, {}),
         Live(streams'[m.asked]) => m.asked = feedPage'.feed
  PROVE  FeedInv'
<1> DEFINE new == {}
<1>1. new \in SUBSET FeedMessage /\ out' = (out \ {m}) \cup new
  OBVIOUS
<1>2. \A n \in new : FALSE
  OBVIOUS
<1> HIDE DEF new
<1>3. \/ feedPage'.feed = feedPage.feed /\ m.asked # feedAsked
      \/ feedPage'.feed = NoFeed /\ m.asked = feedAsked
  BY DEF PageNext
<1> QED
  BY <1>1, <1>2, <1>3, MessageStep DEF Rest

LEMMA MessageGoesOn ==
  ASSUME FeedInv, NEW m \in out, NEW n \in FeedMessage, out' = (out \ {m}) \cup {n},
         Rest(m), PageNext(m, {n.kind}),
         n.asked = m.asked, n.kind # "open", n.feed = m.asked,
         n.kind = "ended" => streams'[n.feed].shut,
         Live(streams'[m.asked]) => m.asked = feedPage'.feed \/ n.kind = "opened"
  PROVE  FeedInv'
<1> DEFINE new == {n}
<1>1. new \in SUBSET FeedMessage /\ out' = (out \ {m}) \cup new
  OBVIOUS
<1>2. n \in new /\ \A o \in new : o = n
  OBVIOUS
<1> HIDE DEF new
<1>3. \/ feedPage'.feed = feedPage.feed /\ m.asked # feedAsked
      \/ feedPage'.feed = NoFeed /\ m.asked = feedAsked
      \/ feedPage'.feed = feedAsked /\ m.asked = feedAsked /\ \E o \in new : o.kind \in {"wait", "events", "ended"}
  BY <1>2 DEF PageNext
<1>4. \A o \in new : /\ o.asked = m.asked /\ (o.kind # "open" => o.feed = o.asked)
                     /\ (o.kind = "ended" => streams'[o.feed].shut)
  BY <1>2
<1>5. \A o, p \in new : o = p
  BY <1>2
<1>6. Live(streams'[m.asked]) =>
        m.asked = feedPage'.feed \/ \E o \in new : o.kind = "opened" /\ o.feed = m.asked
  BY <1>2
<1> QED
  BY <1>1, <1>3, <1>4, <1>5, <1>6, MessageStep DEF Rest

LEMMA MessageIs ==
  ASSUME FeedInv, NEW m \in out
  PROVE  /\ m.asked \in Numbers
         /\ m.kind = "open" => m \in OpenMessage /\ m.ns \in Namespaces /\ m.from \in Nat
         /\ m.kind # "open" => m.feed = m.asked /\ m.feed \in Numbers
         /\ m.kind = "events" => m.events \in Seq(Places)
<1>1. m \in FeedMessage
  BY DEF FeedInv, FeedTypeOK
<1>2. m.kind # "open" => m.feed = m.asked
  BY DEF FeedInv, Labelled
<1> QED
  BY <1>1, <1>2 DEF FeedMessage, OpenMessage, PlainMessage, EventsMessage

LEMMA OfIs == ASSUME NEW ns PROVE Of(ns) \in SUBSET What
BY DEF Of

(* A current message that is not an answer to the read of the stream finds  *)
(* the page without one.                                                    *)
LEMMA NotYet ==
  ASSUME FeedInv, NEW m \in out, m.asked = feedAsked, m.kind \in {"open", "opened"}
  PROVE  feedPage.feed = NoFeed
<1> SUFFICES ASSUME feedPage.feed # NoFeed PROVE FALSE
  OBVIOUS
<1>1. PICK n \in out : n.asked = feedAsked /\ n.kind \in {"wait", "events", "ended"}
  BY DEF FeedInv, ReadsItsOwn
<1>2. n = m
  BY <1>1 DEF FeedInv, Labelled
<1> QED
  BY <1>1, <1>2

LEMMA OpensStep == ASSUME FeedInv, NEW m \in out, Opens(m) PROVE FeedInv'
<1>1. m.kind = "open" /\ m.asked \in Numbers /\ m.ns \in Namespaces /\ m.from \in Nat
  BY MessageIs DEF Opens
<1> DEFINE n == [kind |-> "opened", asked |-> m.asked, feed |-> m.asked]
<1>2. n \in FeedMessage /\ n.asked = m.asked /\ n.feed = m.asked /\ n.kind = "opened"
  BY <1>1 DEF FeedMessage, PlainMessage
<1>3. out' = (out \ {m}) \cup {n}
  BY DEF Opens, Swap
<1> HIDE DEF n
<1>4. /\ streams' \in StreamsType
      /\ \A t \in Numbers : t # m.asked => streams'[t] = streams[t]
  <2>1. Of(m.ns) \in SUBSET What /\ m.asked \in Numbers /\ m.from \in Nat
    BY <1>1, OfIs
  <2>2. streams' = Followed(m.asked, Of(m.ns), m.from) /\ FeedTypeOK
    BY DEF Opens, FeedInv
  <2>3. PICK s \in Numbers, of \in SUBSET What, from \in Nat : s = m.asked /\ of = Of(m.ns) /\ from = m.from
    BY <2>1
  <2>4. /\ Followed(s, of, from) \in [Numbers -> StreamState]
        /\ \A t \in Numbers : t # s => Followed(s, of, from)[t] = streams[t]
    BY <2>2, FollowedIs
  <2> QED
    BY <2>2, <2>3, <2>4 DEF StreamsType
<1>5. feedPage' = feedPage /\ Rest(m)
  BY <1>4 DEF Opens, FeedInv, FeedTypeOK, Rest
<1>6. m.asked = feedAsked => feedPage'.feed = NoFeed
  BY <1>1, <1>5, NotYet
<1>7. PageNext(m, {n.kind})
  BY <1>5, <1>6 DEF PageNext
<1> QED
  BY <1>2, <1>3, <1>5, <1>7, MessageGoesOn

LEMMA OpenFailsStep == ASSUME FeedInv, NEW m \in out, OpenFails(m) PROVE FeedInv'
<1>1. m.kind = "open" /\ m.asked \in Numbers
  BY MessageIs DEF OpenFails
<1>2. out' = out \ {m}
  BY DEF OpenFails, Drop
<1>3. feedPage' = feedPage /\ streams' = streams /\ Rest(m)
  BY DEF OpenFails, FeedInv, FeedTypeOK, StreamsType, Rest
<1>4. m.asked = feedAsked => feedPage'.feed = NoFeed
  BY <1>1, <1>3, NotYet
<1>5. Live(streams'[m.asked]) => m.asked = feedPage'.feed
  <2>1. SUFFICES ASSUME Live(streams[m.asked]) PROVE m.asked = feedPage.feed
    BY <1>3
  <2>2. m.asked = feedPage.feed \/ \E n \in out : n.kind = "opened" /\ n.feed = m.asked
    BY <1>1, <2>1 DEF FeedInv, NoStreamLeft, Live, Numbers
  <2>3. ASSUME NEW n \in out, n.kind = "opened", n.feed = m.asked PROVE FALSE
    <3>1. n.asked = m.asked
      BY <2>3 DEF FeedInv, Labelled
    <3> QED
      BY <1>1, <2>3, <3>1 DEF FeedInv, Labelled
  <2> QED
    BY <2>2, <2>3
<1>6. PageNext(m, {})
  BY <1>3, <1>4 DEF PageNext
<1> QED
  BY <1>2, <1>3, <1>5, <1>6, MessageEnds

LEMMA TakeOpenedStep == ASSUME FeedInv, NEW m \in out, TakeOpened(m) PROVE FeedInv'
<1>1. m.kind = "opened" /\ m.asked \in Numbers /\ m.feed = m.asked
  BY MessageIs DEF TakeOpened
<1>2. UNCHANGED <<feedLog, top, feedAsked, here>> /\ feedFaults' \in Nat
  BY DEF TakeOpened, FeedInv, FeedTypeOK
<1>3. CASE Current(m)
  <2>1. m.asked = feedAsked /\ feedPage.feed = NoFeed
    BY <1>1, <1>3, NotYet DEF Current
  <2> DEFINE n == [kind |-> "wait", asked |-> feedAsked, feed |-> m.feed]
  <2>2. n \in FeedMessage /\ n.asked = m.asked /\ n.feed = m.asked /\ n.kind = "wait"
    BY <1>1, <2>1 DEF FeedMessage, PlainMessage
  <2>3. out' = (out \ {m}) \cup {n} /\ feedPage' = [feedPage EXCEPT !.feed = m.feed] /\ streams' = streams
    BY <1>3, <2>1 DEF TakeOpened, Swap
  <2> HIDE DEF n
  <2>4. feedPage' \in PageState /\ feedPage'.feed = m.asked /\ streams' \in StreamsType
    BY <1>1, <2>3 DEF FeedInv, FeedTypeOK, PageState, StreamsType
  <2>5. Rest(m) /\ PageNext(m, {n.kind})
    BY <1>2, <2>1, <2>2, <2>3, <2>4 DEF Rest, PageNext
  <2> QED
    BY <2>2, <2>3, <2>4, <2>5, MessageGoesOn
<1>4. CASE ~Current(m)
  <2>1. out' = out \ {m} /\ feedPage' = feedPage /\ streams' = Closed(m.feed) /\ m.asked # feedAsked
    BY <1>4 DEF TakeOpened, Drop, Current
  <2>2. /\ streams' \in StreamsType /\ \A t \in Numbers : t # m.asked => streams'[t] = streams[t]
        /\ ~Live(streams'[m.asked])
    BY <1>1, <2>1, ClosedIs DEF FeedInv, StreamsType, Live
  <2>3. Rest(m) /\ PageNext(m, {})
    BY <1>2, <2>1, <2>2 DEF FeedInv, FeedTypeOK, Rest, PageNext
  <2> QED
    BY <2>1, <2>2, <2>3, MessageEnds
<1> QED
  BY <1>3, <1>4

(* What the page reads is read while its stream is the one of the page.     *)
LEMMA WaitsForItsOwn ==
  ASSUME FeedInv, NEW m \in out, m.kind \in {"wait", "events", "ended"}, Live(streams[m.asked])
  PROVE  m.asked = feedPage.feed
<1>1. m.asked \in Numbers
  BY MessageIs
<1>2. m.asked = feedPage.feed \/ \E n \in out : n.kind = "opened" /\ n.feed = m.asked
  BY <1>1 DEF FeedInv, NoStreamLeft, Live, Numbers
<1>3. ASSUME NEW n \in out, n.kind = "opened", n.feed = m.asked PROVE FALSE
  <2>1. n.asked = m.asked
    BY <1>3 DEF FeedInv, Labelled
  <2> QED
    BY <1>3, <2>1 DEF FeedInv, Labelled
<1> QED
  BY <1>2, <1>3

LEMMA NextEventsStep == ASSUME FeedInv, NEW m \in out, NextEvents(m) PROVE FeedInv'
<1>1. m.kind = "wait" /\ m.asked \in Numbers /\ m.feed = m.asked
  BY MessageIs DEF NextEvents
<1>2. PICK events \in Seq(Places) : events = streams[m.feed].buffer
  BY <1>1 DEF FeedInv, FeedTypeOK, StreamState
<1> DEFINE n == [kind |-> "events", asked |-> m.asked, feed |-> m.feed, events |-> events]
<1>3. n \in FeedMessage /\ n.asked = m.asked /\ n.feed = m.asked /\ n.kind = "events"
  BY <1>1 DEF FeedMessage, EventsMessage
<1>4. out' = (out \ {m}) \cup {n} /\ feedPage' = feedPage /\ streams' = Emptied(m.feed)
  BY <1>2 DEF NextEvents, Swap
<1> HIDE DEF n
<1>5. /\ streams' \in StreamsType /\ \A t \in Numbers : t # m.asked => streams'[t] = streams[t]
      /\ streams'[m.asked] = [streams[m.asked] EXCEPT !.buffer = <<>>]
  BY <1>1, <1>4, EmptiedIs DEF FeedInv, StreamsType
<1>6. streams[m.asked] \in StreamState
  BY <1>1 DEF FeedInv, FeedTypeOK
<1>7. Live(streams'[m.asked]) => Live(streams[m.asked])
  BY <1>5, <1>6 DEF Live, StreamState
<1>8. Live(streams'[m.asked]) => m.asked = feedPage'.feed
  BY <1>1, <1>4, <1>7, WaitsForItsOwn
<1>9. Rest(m)
  BY <1>4, <1>5 DEF NextEvents, Rest, FeedInv, FeedTypeOK
<1>10. PageNext(m, {n.kind})
  BY <1>3, <1>4 DEF FeedInv, ReadsItsOwn, PageNext
<1> QED
  BY <1>3, <1>4, <1>8, <1>9, <1>10, MessageGoesOn

LEMMA NextEndStep == ASSUME FeedInv, NEW m \in out, NextEnd(m) PROVE FeedInv'
<1>1. m.kind = "wait" /\ m.asked \in Numbers /\ m.feed = m.asked
  BY MessageIs DEF NextEnd
<1> DEFINE n == [kind |-> "ended", asked |-> m.asked, feed |-> m.feed]
<1>3. n \in FeedMessage /\ n.asked = m.asked /\ n.feed = m.asked /\ n.kind = "ended"
  BY <1>1 DEF FeedMessage, PlainMessage
<1>4. out' = (out \ {m}) \cup {n} /\ feedPage' = feedPage /\ streams' = Over(m.feed)
  BY DEF NextEnd, Swap
<1> HIDE DEF n
<1>5. /\ streams' \in StreamsType /\ \A t \in Numbers : t # m.asked => streams'[t] = streams[t]
      /\ streams'[m.asked].shut
  BY <1>1, <1>4, OverIs DEF FeedInv, StreamsType
<1>6. ~Live(streams'[m.asked])
  BY <1>5 DEF Live
<1>7. Rest(m)
  BY <1>4, <1>5 DEF NextEnd, Rest, FeedInv, FeedTypeOK
<1>8. PageNext(m, {n.kind})
  BY <1>3, <1>4 DEF FeedInv, ReadsItsOwn, PageNext
<1> QED
  BY <1>3, <1>4, <1>5, <1>6, <1>7, <1>8, MessageGoesOn

LEMMA TakeEndedStep == ASSUME FeedInv, NEW m \in out, TakeEnded(m) PROVE FeedInv'
<1>1. m.kind = "ended" /\ m.asked \in Numbers /\ m.feed = m.asked /\ m.feed \in Numbers
  BY MessageIs DEF TakeEnded
<1>2. out' = out \ {m} /\ streams' = streams
  BY DEF TakeEnded, Drop
<1>3. ~Live(streams'[m.asked])
  BY <1>1, <1>2 DEF FeedInv, Labelled, Live
<1>4. feedPage' \in PageState /\ feedPage'.feed = (IF Current(m) /\ m.feed = feedPage.feed THEN NoFeed ELSE feedPage.feed)
  BY DEF TakeEnded, FeedInv, FeedTypeOK, PageState
<1>5. Rest(m)
  BY <1>2, <1>4 DEF TakeEnded, Rest, FeedInv, FeedTypeOK, StreamsType
<1>6. PageNext(m, {})
  BY <1>1, <1>4 DEF Current, FeedInv, ReadsItsOwn, PageNext
<1> QED
  BY <1>2, <1>3, <1>5, <1>6, MessageEnds

(* The events kept and the newest index of a page that takes events.        *)
LEMMA LastOfIs ==
  ASSUME LogOK, NEW seq \in Seq(Places)
  PROVE  LastOf(seq, FeedKept) \in Seq(Places)
<1> DEFINE first == Len(seq) - FeedKept + 1
<1>1. Len(seq) \in Nat /\ FeedKept \in Nat /\ first \in Int
  BY FeedAssumption
<1>2. Max({1, first}) = IF first > 1 THEN first ELSE 1
  BY <1>1 DEF Max
<1>3. PICK from \in Nat : from = Max({1, first}) /\ from >= 1
  BY <1>1, <1>2
<1>4. SubSeq(seq, from, Len(seq)) \in Seq(Places)
  <2>1. \A i \in from .. Len(seq) : seq[i] \in Places
    BY <1>1, <1>3
  <2>2. from \in Int /\ Len(seq) \in Int
    BY <1>1, <1>3
  <2> QED
    BY <2>1, <2>2, SubSeqProperties, Zenon
<1> QED
  BY <1>3, <1>4 DEF LastOf

LEMMA NewestIs ==
  ASSUME LogOK, NEW seq \in Seq(Places), NEW last \in Nat
  PROVE  LET newest == Max({last} \cup {feedLog[e].index : e \in ToSet(seq)})
         IN  /\ newest \in Nat /\ newest >= last
             /\ newest = last \/ \E e \in ToSet(seq) : newest = feedLog[e].index
             /\ \A e \in ToSet(seq) : feedLog[e].index <= newest
<1> DEFINE S == {last} \cup {feedLog[e].index : e \in ToSet(seq)}
<1>1. ToSet(seq) \in SUBSET Places
  BY DEF ToSet
<1>2. PICK b \in Nat : b = Len(feedLog) + last
  BY DEF LogOK
<1>3. ASSUME NEW e \in Places PROVE feedLog[e].index \in Nat /\ feedLog[e].index <= b
  <2>1. feedLog[e] \in [index : Nat, what : What] /\ Len(feedLog) \in Nat
    <3>1. feedLog \in Seq([index : Nat, what : What]) /\ e \in 1 .. Len(feedLog)
      BY DEF LogOK, Places
    <3> DEFINE R == [index : Nat, what : What]
    <3>2. feedLog \in Seq(R)
      BY <3>1
    <3> HIDE DEF R
    <3>3. feedLog[e] \in R /\ Len(feedLog) \in Nat
      BY <3>1, <3>2
    <3> QED
      BY <3>3 DEF R
  <2>2. feedLog[e].index <= Len(feedLog)
    BY DEF LogOK
  <2> QED
    BY <1>2, <2>1, <2>2
<1>4. S \in SUBSET (0 .. b) /\ S # {}
  BY <1>1, <1>2, <1>3 DEF LogOK
<1>5. \A e \in ToSet(seq) : feedLog[e].index \in S
  OBVIOUS
<1>6. \A x \in S : x = last \/ \E e \in ToSet(seq) : x = feedLog[e].index
  OBVIOUS
<1>7. last \in S
  OBVIOUS
<1> HIDE DEF S
<1>8. PICK newest \in S : newest = Max(S) /\ \A x \in S : x <= newest
  BY <1>4, MaxIs
<1>9. newest \in Nat /\ newest >= last /\ \A e \in ToSet(seq) : feedLog[e].index <= newest
  <2>1. newest \in 0 .. b /\ b \in Nat
    BY <1>4, Zenon
  <2>2. newest \in Nat
    BY <2>1
  <2>3. newest >= last
    BY <1>7, <1>8
  <2>4. \A e \in ToSet(seq) : feedLog[e].index <= newest
    BY <1>5, <1>8, Zenon
  <2> QED
    BY <2>2, <2>3, <2>4
<1>10. newest = last \/ \E e \in ToSet(seq) : newest = feedLog[e].index
  BY <1>6, <1>8
<1>11. newest = Max({last} \cup {feedLog[e].index : e \in ToSet(seq)})
  BY <1>8 DEF S
<1> QED
  BY <1>9, <1>10, <1>11

LEMMA TakeEventsIs ==
  ASSUME FeedInv, NEW m \in out, TakeEvents(m), Current(m), m.feed = feedPage.feed
  PROVE  /\ feedPage' \in PageState
         /\ feedPage'.feed = feedPage.feed /\ feedPage'.ns = feedPage.ns
         /\ feedPage'.events = LastOf(feedPage.events \o m.events, FeedKept)
         /\ feedPage'.last = Max({feedPage.last} \cup {feedLog[e].index : e \in ToSet(m.events)})
<1>1. LogOK /\ m.events \in Seq(Places) /\ feedPage \in PageState
  BY MessageIs DEF TakeEvents, FeedInv, FeedTypeOK
<1>2. feedPage.events \in Seq(Places) /\ feedPage.last \in Nat
  BY <1>1 DEF PageState
<1>3. PICK events : events = LastOf(feedPage.events \o m.events, FeedKept)
  OBVIOUS
<1>4. feedPage.events \o m.events \in Seq(Places)
  BY <1>1, <1>2
<1>5. events \in Seq(Places)
  BY <1>1, <1>3, <1>4, LastOfIs
<1>6. PICK last : last = Max({feedPage.last} \cup {feedLog[e].index : e \in ToSet(m.events)})
  OBVIOUS
<1>7. last \in Nat
  BY <1>1, <1>2, <1>6, NewestIs
<1>8. feedPage' = [feedPage EXCEPT !.events = events, !.last = last]
  BY <1>3, <1>6 DEF TakeEvents
<1> QED
  BY <1>1, <1>3, <1>5, <1>6, <1>7, <1>8 DEF PageState

LEMMA TakeEventsStep == ASSUME FeedInv, NEW m \in out, TakeEvents(m) PROVE FeedInv'
<1>1. m.kind = "events" /\ m.asked \in Numbers /\ m.feed = m.asked /\ m.feed \in Numbers
  BY MessageIs DEF TakeEvents
<1>2. streams' = streams
  BY DEF TakeEvents
<1>3. Live(streams'[m.asked]) => m.asked = feedPage.feed
  BY <1>1, <1>2, WaitsForItsOwn
<1>4. CASE Current(m) /\ m.feed = feedPage.feed
  <2> DEFINE n == [kind |-> "wait", asked |-> feedAsked, feed |-> m.feed]
  <2>1. n \in FeedMessage /\ n.asked = m.asked /\ n.feed = m.asked /\ n.kind = "wait"
    BY <1>1, <1>4 DEF FeedMessage, PlainMessage, Current
  <2>2. out' = (out \ {m}) \cup {n}
    BY <1>4 DEF TakeEvents, Swap
  <2> HIDE DEF n
  <2>3. feedPage' \in PageState /\ feedPage'.feed = feedPage.feed
    BY <1>4, TakeEventsIs
  <2>4. Rest(m)
    BY <1>2, <2>3 DEF TakeEvents, Rest, FeedInv, FeedTypeOK, StreamsType
  <2>5. PageNext(m, {n.kind})
    BY <1>1, <1>4, <2>1, <2>3 DEF Current, PageNext
  <2> QED
    BY <1>3, <2>1, <2>2, <2>3, <2>4, <2>5, MessageGoesOn
<1>5. CASE ~(Current(m) /\ m.feed = feedPage.feed)
  <2>1. out' = out \ {m} /\ feedPage' = feedPage
    BY <1>5 DEF TakeEvents, Drop
  <2>2. Rest(m)
    BY <1>2, <2>1 DEF TakeEvents, Rest, FeedInv, FeedTypeOK, StreamsType
  <2>3. PageNext(m, {})
    BY <1>1, <1>5, <2>1 DEF Current, FeedInv, ReadsItsOwn, PageNext
  <2> QED
    BY <1>3, <2>1, <2>2, <2>3, MessageEnds
<1> QED
  BY <1>4, <1>5

(* The page is entered, or left: its stream is closed and it waits for one  *)
(* of the new ask, if it is on top.                                         *)
LEMMA AskStep ==
  ASSUME FeedInv, UNCHANGED <<feedLog, feedFaults>>, feedAsked' = feedAsked + 1, feedAsked' \in Numbers,
         streams' = Closed(feedPage.feed), feedPage' \in PageState, feedPage'.feed = NoFeed,
         top' \in BOOLEAN, here' \in Namespaces,
         NEW new \in SUBSET FeedMessage, out' = out \cup new,
         \A n \in new : n.kind = "open" /\ n.asked = feedAsked' /\ top',
         \A n, o \in new : n = o
  PROVE  FeedInv'
<1> USE DEF FeedInv
<1>1. feedPage.feed \in {NoFeed} \cup Numbers /\ feedAsked \in Nat
  BY DEF FeedTypeOK, PageState, Numbers
<1>2. /\ streams' \in StreamsType
      /\ \A t \in Numbers : t # feedPage.feed => streams'[t] = streams[t]
      /\ \A t \in Numbers : streams[t].shut => streams'[t].shut
      /\ feedPage.feed \in Numbers => ~Live(streams'[feedPage.feed])
  BY <1>1, ClosedIs DEF StreamsType, Live
<1>3. FeedTypeOK'
  BY <1>2, SameLog DEF FeedTypeOK, StreamsType
<1>4. \A m \in out : m.asked < feedAsked' /\ m.asked \in Numbers
  BY <1>1, MessageIs DEF Labelled, Numbers
<1>5. Labelled'
  <2>1. ASSUME NEW m \in out'
        PROVE  /\ m.asked <= feedAsked' /\ (m.asked = feedAsked' => top')
               /\ (m.kind # "open" => m.feed = m.asked)
               /\ (m.kind = "ended" => streams'[m.feed].shut)
    <3>1. CASE m \in out
      <4>1. m.asked < feedAsked' /\ m.asked \in Numbers
        BY <1>4, <3>1
      <4>2. m.kind # "open" => m.feed \in Numbers /\ m.feed = m.asked
        BY <3>1, MessageIs
      <4>3. m.kind = "ended" => streams'[m.feed].shut
        BY <1>2, <3>1, <4>2 DEF Labelled
      <4> QED
        BY <1>1, <4>1, <4>2, <4>3 DEF Numbers
    <3>2. CASE m \in new
      BY <1>1, <3>2 DEF Numbers
    <3> QED
      BY <3>1, <3>2
  <2>2. ASSUME NEW m \in out', NEW n \in out', m.asked = n.asked PROVE m = n
    <3>1. CASE m \in out /\ n \in out
      BY <2>2, <3>1 DEF Labelled
    <3>2. CASE m \in new /\ n \in new
      BY <3>2
    <3>3. ~(m \in out /\ n \in new) /\ ~(m \in new /\ n \in out)
      BY <1>1, <1>4, <2>2 DEF Numbers
    <3> QED
      BY <3>1, <3>2, <3>3
  <2> QED
    BY <2>1, <2>2 DEF Labelled
<1>6. ReadsItsOwn'
  BY DEF ReadsItsOwn
<1>7. NoStreamLeft'
  <2>1. ASSUME NEW s \in Numbers, Live(streams'[s])
        PROVE  \E m \in out' : m.kind = "opened" /\ m.feed = s
    <3>1. s # feedPage.feed /\ Live(streams[s])
      BY <1>2, <2>1
    <3> QED
      BY <3>1 DEF NoStreamLeft, Live, Numbers
  <2> QED
    BY <2>1 DEF NoStreamLeft, Live, Numbers
<1> QED
  BY <1>3, <1>5, <1>6, <1>7

LEMMA OpenPageIs ==
  ASSUME FeedTypeOK, NEW ns \in Namespaces
  PROVE  /\ OpenPage(ns) \in PageState /\ OpenPage(ns).feed = NoFeed /\ OpenPage(ns).ns = ns
         /\ OpenFrom(ns) \in Nat /\ OpenFrom(ns) = OpenPage(ns).last + 1
         /\ GoesOn(ns) => OpenPage(ns).events = feedPage.events /\ OpenPage(ns).last = feedPage.last
         /\ ~GoesOn(ns) => OpenPage(ns).events = <<>> /\ OpenPage(ns).last = 0
<1>1. CASE GoesOn(ns)
  BY <1>1 DEF OpenPage, OpenFrom, GoesOn, FeedTypeOK, PageState
<1>2. CASE ~GoesOn(ns)
  <2>0. PICK e : e = <<>>
    OBVIOUS
  <2>1. e \in Seq(Places)
    BY <2>0
  <2>2. PICK none \in Nat : none = 0
    OBVIOUS
  <2>3. OpenPage(ns) = [feed |-> NoFeed, events |-> e, ns |-> ns, last |-> none]
    BY <1>2, <2>0, <2>2 DEF OpenPage
  <2> QED
    BY <1>2, <2>0, <2>1, <2>2, <2>3 DEF OpenFrom, PageState
<1> QED
  BY <1>1, <1>2

LEMMA EnterStep ==
  ASSUME FeedInv, NEW ns \in Namespaces, EnterFeed(ns), UNCHANGED <<feedLog, feedFaults>>, top', top' \in BOOLEAN,
         here' \in Namespaces
  PROVE  FeedInv'
<1>1. feedAsked' = feedAsked + 1 /\ feedAsked' \in Numbers
  BY Bounds DEF EnterFeed, FeedInv, FeedTypeOK, Numbers
<1>2. feedPage' = OpenPage(ns) /\ feedPage' \in PageState /\ feedPage'.feed = NoFeed /\ OpenFrom(ns) \in Nat
  BY OpenPageIs DEF EnterFeed, FeedInv
<1> DEFINE n == [kind |-> "open", asked |-> feedAsked + 1, ns |-> ns, from |-> OpenFrom(ns)]
           new == {n}
<1>3. n \in FeedMessage /\ n.kind = "open" /\ n.asked = feedAsked'
  BY <1>1, <1>2 DEF FeedMessage, OpenMessage
<1>4. out' = out \cup new /\ streams' = Closed(feedPage.feed)
  BY DEF EnterFeed
<1> HIDE DEF n
<1>5. /\ new \in SUBSET FeedMessage
      /\ \A m \in new : m.kind = "open" /\ m.asked = feedAsked' /\ top'
      /\ \A m, o \in new : m = o
  BY <1>3
<1> HIDE DEF new
<1> QED
  BY <1>1, <1>2, <1>4, <1>5, AskStep

LEMMA PersonStep == ASSUME FeedInv, Person PROVE FeedInv'
<1>1. here \in Namespaces /\ top \in BOOLEAN
  BY DEF FeedInv, FeedTypeOK
<1>2. CASE Again
  BY <1>1, <1>2, EnterStep DEF Again
<1>3. CASE Leave
  <2> DEFINE new == {}
  <2>1. feedAsked' = feedAsked + 1 /\ feedAsked' \in Numbers
    BY <1>3, Bounds DEF Leave, FeedInv, FeedTypeOK, Numbers
  <2>2. feedPage' \in PageState /\ feedPage'.feed = NoFeed
    BY <1>3 DEF Leave, FeedInv, FeedTypeOK, PageState
  <2>3. new \in SUBSET FeedMessage /\ out' = out \cup new /\ \A n \in new : FALSE
    BY <1>3 DEF Leave
  <2> HIDE DEF new
  <2>4. /\ streams' = Closed(feedPage.feed) /\ UNCHANGED <<feedLog, feedFaults>>
        /\ top' \in BOOLEAN /\ here' \in Namespaces
    BY <1>1, <1>3 DEF Leave
  <2> QED
    BY <2>1, <2>2, <2>3, <2>4, AskStep
<1>4. CASE BackToFeed
  BY <1>1, <1>4, EnterStep DEF BackToFeed
<1>5. ASSUME NEW ns \in Namespaces, SwitchNamespace(ns) PROVE FeedInv'
  <2>1. CASE top
    BY <1>5, <2>1, EnterStep DEF SwitchNamespace
  <2>2. CASE ~top
    <3>1. UNCHANGED <<feedLog, feedFaults, streams, feedPage, top, feedAsked, out>> /\ here' \in Namespaces
      BY <1>5, <2>2 DEF SwitchNamespace
    <3>2. FeedTypeOK'
      BY <3>1, SameLog DEF FeedInv, FeedTypeOK
    <3>3. Labelled' /\ ReadsItsOwn' /\ NoStreamLeft'
      BY <3>1 DEF FeedInv, Labelled, ReadsItsOwn, NoStreamLeft
    <3> QED
      BY <3>2, <3>3 DEF FeedInv
  <2> QED
    BY <2>1, <2>2
<1> QED
  BY <1>2, <1>3, <1>4, <1>5 DEF Person

(* The cluster writes: what was a place is one.                             *)
LEMMA HappensIs ==
  ASSUME LogOK, NEW batch \in Batches, Happens(batch)
  PROVE  /\ LogOK' /\ Len(feedLog') = Len(feedLog) + Len(batch) /\ Len(batch) \in Nat /\ Len(batch) >= 1
         /\ \A i \in Places : feedLog'[i] = feedLog[i]
         /\ \A i \in 1 .. Len(batch) : feedLog'[Len(feedLog) + i] = [index |-> NewestEvent + 1, what |-> batch[i]]
         /\ Places \subseteq Places'
<1>1. batch \in Seq(What) /\ batch # <<>>
  BY StreamAssumption
<1>2. Len(batch) \in Nat /\ Len(batch) >= 1 /\ DOMAIN batch = 1 .. Len(batch)
  BY <1>1
<1> DEFINE R == [index : Nat, what : What]
<1>3. feedLog \in Seq(R) /\ Len(feedLog) \in Nat
  BY DEF LogOK
<1> HIDE DEF R
<1>4. NewestEvent \in Nat /\ NewestEvent <= Len(feedLog)
  <2>1. CASE feedLog = <<>>
    BY <2>1 DEF NewestEvent
  <2>2. CASE feedLog # <<>>
    <3>1. Len(feedLog) \in Places
      BY <1>3, <2>2 DEF Places
    <3>2. feedLog[Len(feedLog)] \in R
      BY <1>3, <3>1 DEF Places
    <3> QED
      BY <2>2, <3>1, <3>2 DEF NewestEvent, LogOK, R
  <2> QED
    BY <2>1, <2>2
<1>5. PICK newest \in Nat : newest = NewestEvent + 1 /\ newest <= Len(feedLog) + 1
  BY <1>3, <1>4
<1> DEFINE more == [i \in 1 .. Len(batch) |-> [index |-> newest, what |-> batch[i]]]
<1>6. feedLog' = feedLog \o more
  BY <1>2, <1>5 DEF Happens
<1>7. \A i \in 1 .. Len(batch) : [index |-> newest, what |-> batch[i]] \in R
  BY <1>1, <1>5 DEF R
<1>8. more \in Seq(R) /\ Len(more) = Len(batch)
  BY <1>2, <1>7
<1>9. \A i \in 1 .. Len(batch) : more[i] = [index |-> newest, what |-> batch[i]]
  OBVIOUS
<1> HIDE DEF more
<1>10. /\ feedLog' \in Seq(R) /\ Len(feedLog') = Len(feedLog) + Len(batch)
       /\ \A i \in 1 .. Len(feedLog) : feedLog'[i] = feedLog[i]
       /\ \A i \in 1 .. Len(batch) : feedLog'[Len(feedLog) + i] = more[i]
  <2>1. feedLog \o more \in Seq(R) /\ Len(feedLog \o more) = Len(feedLog) + Len(more)
    BY <1>3, <1>8
  <2>2. \A i \in 1 .. Len(feedLog) + Len(more) :
          (feedLog \o more)[i] = IF i <= Len(feedLog) THEN feedLog[i] ELSE more[i - Len(feedLog)]
    BY <1>3, <1>8
  <2>3. \A i \in 1 .. Len(feedLog) : (feedLog \o more)[i] = feedLog[i]
    BY <1>2, <1>3, <1>8, <2>2
  <2>4. ASSUME NEW i \in 1 .. Len(batch) PROVE (feedLog \o more)[Len(feedLog) + i] = more[i]
    <3>1. PICK a \in Nat, b \in Nat : a = Len(feedLog) /\ b = Len(more) /\ b = Len(batch)
      BY <1>2, <1>3, <1>8
    <3>2. a + i \in 1 .. a + b /\ ~(a + i <= a) /\ a + i - a = i
      BY <3>1
    <3>3. PICK j \in 1 .. Len(feedLog) + Len(more) : j = a + i
      BY <3>1, <3>2
    <3>4. (feedLog \o more)[j] = IF j <= Len(feedLog) THEN feedLog[j] ELSE more[j - Len(feedLog)]
      BY <2>2
    <3>5. ~(j <= Len(feedLog)) /\ j - Len(feedLog) = i
      BY <3>1, <3>2, <3>3
    <3>6. (feedLog \o more)[j] = more[i]
      BY <3>4, <3>5
    <3> QED
      BY <3>1, <3>3, <3>6
  <2> QED
    BY <1>6, <1>8, <2>1, <2>3, <2>4
<1>11. Len(feedLog') <= MaxEvents
  BY <1>10 DEF Happens
<1>12. Places \subseteq Places' /\ \A i \in Places : feedLog'[i] = feedLog[i]
  BY <1>2, <1>3, <1>10 DEF Places
<1>13. ASSUME NEW i \in Places' PROVE feedLog'[i].index <= Len(feedLog')
  <2>1. CASE i \in Places
    <3>1. feedLog[i].index <= Len(feedLog) /\ feedLog[i] \in R
      BY <1>3, <2>1 DEF LogOK, Places
    <3>2. feedLog[i].index \in Nat
      BY <3>1 DEF R
    <3> QED
      BY <1>2, <1>3, <1>10, <1>12, <2>1, <3>1, <3>2
  <2>2. CASE i \notin Places
    <3>1. i - Len(feedLog) \in 1 .. Len(batch) /\ i = Len(feedLog) + (i - Len(feedLog))
      BY <1>2, <1>3, <1>10, <2>2 DEF Places
    <3>2. feedLog'[i] = [index |-> newest, what |-> batch[i - Len(feedLog)]]
      BY <1>9, <1>10, <3>1
    <3> QED
      BY <1>2, <1>3, <1>5, <1>10, <3>2
  <2> QED
    BY <2>1, <2>2
<1>14. LogOK'
  BY <1>10, <1>11, <1>13 DEF LogOK, R
<1> QED
  BY <1>2, <1>5, <1>9, <1>10, <1>12, <1>14

LEMMA TypesGrow ==
  ASSUME Places \subseteq Places', LogOK, LogOK', Len(feedLog) <= Len(feedLog')
  PROVE  /\ StreamState \subseteq StreamState' /\ FeedMessage \subseteq FeedMessage'
         /\ PageState \subseteq PageState' /\ Seq(Places) \subseteq Seq(Places')
<1>1. ASSUME NEW seq \in Seq(Places) PROVE seq \in Seq(Places')
  BY <1>1
<1>2. 0 .. Len(feedLog) \subseteq 0 .. Len(feedLog')
  BY DEF LogOK
<1> QED
  BY <1>1, <1>2 DEF StreamState, FeedMessage, EventsMessage, PageState, PlainMessage, OpenMessage

LEMMA HappensStep ==
  ASSUME FeedInv, NEW batch \in Batches, Happens(batch), UNCHANGED pageVars
  PROVE  FeedInv'
<1>1. LogOK
  BY DEF FeedInv, FeedTypeOK
<1>2. LogOK' /\ Places \subseteq Places' /\ Len(feedLog) <= Len(feedLog')
  <2>1. /\ LogOK' /\ Places \subseteq Places' /\ Len(feedLog') = Len(feedLog) + Len(batch)
        /\ Len(batch) \in Nat
    BY <1>1, HappensIs
  <2>2. Len(feedLog) \in Nat
    BY <1>1 DEF LogOK
  <2> QED
    BY <2>1, <2>2
<1>3. /\ StreamState \subseteq StreamState' /\ FeedMessage \subseteq FeedMessage'
      /\ PageState \subseteq PageState'
  BY <1>1, <1>2, TypesGrow
<1>4. streams' = streams /\ feedFaults' = feedFaults
  BY DEF Happens
<1>5. FeedTypeOK'
  <2>1. streams' \in [Numbers -> StreamState']
    BY <1>3, <1>4 DEF FeedInv, FeedTypeOK
  <2>2. feedPage' \in PageState' /\ out' \subseteq FeedMessage'
    BY <1>3 DEF FeedInv, FeedTypeOK, pageVars
  <2> QED
    BY <1>2, <1>4, <2>1, <2>2 DEF FeedInv, FeedTypeOK, pageVars
<1>6. Labelled' /\ ReadsItsOwn' /\ NoStreamLeft'
  BY <1>4 DEF FeedInv, Labelled, ReadsItsOwn, NoStreamLeft, pageVars
<1> QED
  BY <1>5, <1>6 DEF FeedInv

LEMMA PumpStep ==
  ASSUME FeedInv, NEW s \in Numbers, Pump(s) \/ Ends(s), UNCHANGED pageVars
  PROVE  FeedInv'
<1>1. FeedTypeOK /\ LogOK /\ streams[s] \in StreamState
  BY DEF FeedInv, FeedTypeOK
<1>2. CASE Receives(s)
  <2>1. UNCHANGED <<feedLog, feedFaults>>
    BY <1>2 DEF Receives
  <2>2. /\ streams' \in StreamsType /\ \A t \in Numbers : t # s => streams'[t] = streams[t]
        /\ Live(streams[s]) /\ Live(streams'[s])
    BY <1>1, <1>2, ReceivesIs DEF StreamsType, Live
  <2> QED
    BY <1>1, <2>1, <2>2, StreamStep DEF FeedTypeOK, Live
<1>3. CASE Sends(s)
  <2>1. UNCHANGED <<feedLog, feedFaults>>
    BY <1>3 DEF Sends
  <2>2. /\ streams' \in StreamsType /\ \A t \in Numbers : t # s => streams'[t] = streams[t]
        /\ ~streams[s].shut /\ streams'[s].ctx = streams[s].ctx /\ streams'[s].shut = streams[s].shut
    BY ZenonT(60), <1>1, <1>3, SendsIs DEF StreamsType, StreamState
  <2>3. \A t \in Numbers : (streams[t].shut => streams'[t].shut) /\ (Live(streams'[t]) => Live(streams[t]))
    BY <2>2 DEF Live
  <2>4. feedFaults' \in Nat
    BY <1>1, <2>1 DEF FeedTypeOK
  <2> QED
    BY <2>1, <2>2, <2>3, <2>4, StreamStep
<1>4. ASSUME NEW err \in BOOLEAN, streams' = [streams EXCEPT ![s] = Returned(@, err)], UNCHANGED feedLog,
             feedFaults' \in Nat
      PROVE  FeedInv'
  <2>1. Returned(streams[s], err) \in StreamState /\ Returned(streams[s], err).shut
    BY <1>1, ReturnedIs
  <2>2. /\ streams' \in StreamsType /\ \A t \in Numbers : t # s => streams'[t] = streams[t]
        /\ streams'[s].shut
    BY <1>1, <1>4, <2>1 DEF StreamsType, FeedTypeOK
  <2>3. \A t \in Numbers : (streams[t].shut => streams'[t].shut) /\ (Live(streams'[t]) => Live(streams[t]))
    BY <2>2 DEF Live
  <2> QED
    BY <1>4, <2>2, <2>3, StreamStep
<1>5. CASE PumpReturns(s)
  BY <1>1, <1>4, <1>5 DEF PumpReturns, FeedTypeOK
<1>6. CASE Ends(s)
  <2>1. PICK err \in BOOLEAN : streams' = [streams EXCEPT ![s] = Returned(@, err)]
    BY <1>6 DEF Ends
  <2>2. UNCHANGED feedLog /\ feedFaults' \in Nat
    BY <1>1, <1>6 DEF Ends, FeedTypeOK
  <2> QED
    BY <1>4, <2>1, <2>2
<1> QED
  BY <1>2, <1>3, <1>5, <1>6 DEF Pump

LEMMA FeedFirst == FeedInit => FeedInv
<1> SUFFICES ASSUME FeedInit PROVE FeedInv
  OBVIOUS
<1>1. PICK e : e = <<>>
  OBVIOUS
<1>2. feedLog = e /\ e \in Seq([index : Nat, what : What]) /\ e \in Seq(Places)
  BY <1>1 DEF FeedInit, StreamInit
<1>3. Len(feedLog) = 0 /\ Places = {}
  BY <1>1, <1>2 DEF Places
<1>4. LogOK
  BY <1>2, <1>3, StreamAssumption DEF LogOK
<1>5. streams \in [Numbers -> StreamState] /\ \A s \in Numbers : ~Live(streams[s])
  BY <1>4, UnopenedType DEF FeedInit, StreamInit, Numbers, Live
<1>6. here \in Namespaces /\ top = TRUE /\ feedAsked = 1 /\ feedAsked \in Numbers
  BY Bounds DEF FeedInit
<1>7. PICK none \in Nat : none = 0
  OBVIOUS
<1>8. feedPage = [feed |-> NoFeed, events |-> e, ns |-> here, last |-> none]
  BY <1>1, <1>7 DEF FeedInit
<1>9. feedPage \in PageState /\ feedPage.feed = NoFeed
  BY <1>2, <1>6, <1>8 DEF PageState
<1>10. PICK one \in Numbers : one = 1
  BY Bounds
<1> DEFINE n == [kind |-> "open", asked |-> one, ns |-> here, from |-> one]
<1>11. n \in FeedMessage /\ n.kind = "open" /\ n.asked = feedAsked
  BY <1>6, <1>10 DEF FeedMessage, OpenMessage, Numbers
<1>12. out = {n}
  BY <1>10 DEF FeedInit
<1> HIDE DEF n
<1>13. FeedTypeOK
  BY <1>4, <1>5, <1>6, <1>9, <1>11, <1>12 DEF FeedTypeOK, FeedInit, StreamInit
<1>14. Labelled
  BY <1>6, <1>11, <1>12 DEF Labelled
<1>15. ReadsItsOwn /\ NoStreamLeft
  BY <1>5, <1>9 DEF ReadsItsOwn, NoStreamLeft, Live, Numbers
<1> QED
  BY <1>13, <1>14, <1>15 DEF FeedInv

LEMMA FeedStep == FeedInv /\ [FeedNext]_feedVars => FeedInv'
<1> SUFFICES ASSUME FeedInv, [FeedNext]_feedVars PROVE FeedInv'
  OBVIOUS
<1>1. CASE UNCHANGED feedVars
  <2>1. UNCHANGED feedLog /\ UNCHANGED <<streams, feedFaults, feedPage, top, feedAsked, here, out>>
    BY <1>1 DEF feedVars
  <2>2. FeedTypeOK'
    BY <2>1, SameLog DEF FeedInv, FeedTypeOK
  <2> QED
    BY <2>1, <2>2 DEF FeedInv, Labelled, ReadsItsOwn, NoStreamLeft
<1>2. CASE \E batch \in Batches : Happens(batch) /\ UNCHANGED pageVars
  BY <1>2, HappensStep
<1>3. CASE \E s \in 1 .. MaxFeedStreams : (Pump(s) \/ Ends(s)) /\ UNCHANGED pageVars
  BY <1>3, PumpStep DEF Numbers
<1>4. CASE \E m \in out : TakesMessageOf(m) \/ OpenFails(m)
  BY <1>4, OpensStep, OpenFailsStep, TakeOpenedStep, NextEventsStep, NextEndStep, TakeEventsStep,
     TakeEndedStep DEF TakesMessageOf
<1>5. CASE Person
  BY <1>5, PersonStep
<1> QED
  BY <1>1, <1>2, <1>3, <1>4, <1>5 DEF FeedNext

LEMMA FeedAlways == FeedInit /\ [][FeedNext]_feedVars => []FeedInv
BY FeedFirst, FeedStep, PTL

(* A stream that is open is the one the page on top reads, or on its way to *)
(* it, however often the page is left, entered again and moved while its    *)
(* stream opens (closeStream, letGo, stop).                                 *)
THEOREM NoStreamStays == FeedInit /\ [][FeedNext]_feedVars => []NoStreamLeft
<1>1. FeedInv => NoStreamLeft
  BY DEF FeedInv
<1> QED
  BY <1>1, FeedAlways, PTL

-----------------------------------------------------------------------------
(* The page and the log, where every event has an index of its own.         *)
Singles == \A batch \in Batches : Len(batch) = 1
Singly == \A i \in Places : feedLog[i].index = i

Increasing(seq) == \A i, j \in DOMAIN seq : i < j => seq[i] < seq[j]
Earlier(seq, other) == \A x \in ToSet(seq), y \in ToSet(other) : x < y
Shows(e) == feedLog[e].what \in Of(feedPage.ns)

(* The page has what its namespace wrote up to its newest event, but for    *)
(* the oldest of too many.                                                  *)
PageHas ==
  /\ feedPage.last <= Len(feedLog)
  /\ Increasing(feedPage.events)
  /\ \A e \in ToSet(feedPage.events) : e <= feedPage.last /\ Shows(e)
  /\ \A e \in Places :
       e <= feedPage.last /\ Shows(e) =>
         \/ e \in ToSet(feedPage.events)
         \/ feedPage.events # <<>> /\ Len(feedPage.events) = FeedKept /\ e < feedPage.events[1]

(* What a message and its stream bring to the page: what it shows, in order,*)
(* none left out; and while the stream goes on, all up to where it is.      *)
Coming(st, events) == ToSet(events) \cup ToSet(st.buffer) \cup ToSet(st.batch)
InTurn(st, events) ==
  /\ Increasing(events) /\ Increasing(st.buffer) /\ Increasing(st.batch)
  /\ Earlier(events, st.buffer) /\ Earlier(events, st.batch) /\ Earlier(st.buffer, st.batch)
ForThePage(st, events) ==
  /\ \A e \in Coming(st, events) : e > feedPage.last /\ Shows(e)
  /\ \A e \in Places, x \in Coming(st, events) :
       e > feedPage.last /\ Shows(e) /\ e <= x => e \in Coming(st, events)
GoesOnWell(st, events) ==
  /\ st.ctx = "live" /\ st.of = Of(feedPage.ns)
  /\ st.from <= feedPage.last + 1 /\ (st.at >= feedPage.last \/ st.from = feedPage.last + 1)
  /\ \A e \in Coming(st, events) : e <= st.at
  /\ \A e \in Places : e > feedPage.last /\ Shows(e) /\ e <= st.at => e \in Coming(st, events)
Brings(st, events) ==
  InTurn(st, events) /\ ForThePage(st, events) /\ (~st.shut => GoesOnWell(st, events))

EventsOf(m) == IF m.kind = "events" THEN m.events ELSE <<>>
Asks == \A m \in out : m.asked = feedAsked /\ m.kind = "open" => m.ns = feedPage.ns /\ m.from = feedPage.last + 1
Brought ==
  \A m \in out : m.asked = feedAsked /\ m.kind # "open" => Brings(streams[feedAsked], EventsOf(m))

LogInv == FeedInv /\ Singly /\ PageHas /\ Asks /\ Brought

LEMMA RangeIs ==
  ASSUME NEW S, NEW seq \in Seq(S)
  PROVE  /\ DOMAIN seq = 1 .. Len(seq) /\ Len(seq) \in Nat
         /\ ToSet(seq) \in SUBSET S
         /\ \A i \in 1 .. Len(seq) : seq[i] \in ToSet(seq)
         /\ \A x \in ToSet(seq) : \E i \in 1 .. Len(seq) : seq[i] = x
BY DEF ToSet

LEMMA RangeEmpty == ToSet(<<>>) = {} /\ Increasing(<<>>)
BY DEF ToSet, Increasing

LEMMA RangeConcat ==
  ASSUME NEW S, NEW seq \in Seq(S), NEW other \in Seq(S)
  PROVE  ToSet(seq \o other) = ToSet(seq) \cup ToSet(other)
<1>1. /\ seq \o other \in Seq(S) /\ Len(seq \o other) = Len(seq) + Len(other)
      /\ \A i \in 1 .. Len(seq) + Len(other) :
           (seq \o other)[i] = IF i <= Len(seq) THEN seq[i] ELSE other[i - Len(seq)]
  BY ConcatProperties, Zenon
<1>2. Len(seq) \in Nat /\ Len(other) \in Nat
  OBVIOUS
<1> DEFINE all == seq \o other
<1> HIDE DEF all
<1>3. /\ all \in Seq(S) /\ Len(all) = Len(seq) + Len(other)
      /\ \A i \in 1 .. Len(all) : all[i] = IF i <= Len(seq) THEN seq[i] ELSE other[i - Len(seq)]
  BY <1>1 DEF all
<1>4. ASSUME NEW x \in ToSet(all) PROVE x \in ToSet(seq) \cup ToSet(other)
  <2>1. PICK i \in 1 .. Len(all) : all[i] = x
    BY <1>3, <1>4, RangeIs
  <2>2. CASE i <= Len(seq)
    <3>1. i \in 1 .. Len(seq) /\ x = seq[i]
      BY <1>2, <1>3, <2>1, <2>2
    <3> QED
      BY <3>1, RangeIs
  <2>3. CASE ~(i <= Len(seq))
    <3>1. i - Len(seq) \in 1 .. Len(other) /\ x = other[i - Len(seq)]
      BY <1>2, <1>3, <2>1, <2>3
    <3> QED
      BY <3>1, RangeIs
  <2> QED
    BY <2>2, <2>3
<1>5. ASSUME NEW x \in ToSet(seq) PROVE x \in ToSet(all)
  <2>1. PICK i \in 1 .. Len(seq) : seq[i] = x
    BY <1>5, RangeIs
  <2>2. i \in 1 .. Len(all) /\ all[i] = x
    BY <1>2, <1>3, <2>1
  <2> QED
    BY <1>3, <2>2, RangeIs
<1>6. ASSUME NEW x \in ToSet(other) PROVE x \in ToSet(all)
  <2>1. PICK i \in 1 .. Len(other) : other[i] = x
    BY <1>6, RangeIs
  <2>2. PICK j \in 1 .. Len(all) : j = i + Len(seq)
    BY <1>2, <1>3, <2>1
  <2>3. ~(j <= Len(seq)) /\ j - Len(seq) = i
    BY <1>2, <2>1, <2>2
  <2>4. all[j] = x
    BY <1>3, <2>1, <2>3
  <2> QED
    BY <1>3, <2>4, RangeIs
<1> QED
  BY <1>4, <1>5, <1>6 DEF all

LEMMA IncreasingConcat ==
  ASSUME NEW S \in SUBSET Int, NEW seq \in Seq(S), NEW other \in Seq(S),
         Increasing(seq), Increasing(other), Earlier(seq, other)
  PROVE  Increasing(seq \o other)
<1>1. /\ seq \o other \in Seq(S) /\ Len(seq \o other) = Len(seq) + Len(other)
      /\ \A i \in 1 .. Len(seq) + Len(other) :
           (seq \o other)[i] = IF i <= Len(seq) THEN seq[i] ELSE other[i - Len(seq)]
  BY ConcatProperties, Zenon
<1>2. Len(seq) \in Nat /\ Len(other) \in Nat /\ DOMAIN seq = 1 .. Len(seq) /\ DOMAIN other = 1 .. Len(other)
  OBVIOUS
<1> DEFINE all == seq \o other
<1> HIDE DEF all
<1>3. /\ all \in Seq(S) /\ Len(all) = Len(seq) + Len(other) /\ DOMAIN all = 1 .. Len(all)
      /\ \A i \in 1 .. Len(all) : all[i] = IF i <= Len(seq) THEN seq[i] ELSE other[i - Len(seq)]
  BY <1>1, RangeIs DEF all
<1>4. ASSUME NEW i \in 1 .. Len(all), NEW j \in 1 .. Len(all), i < j
      PROVE  all[i] < all[j]
  <2>1. CASE j <= Len(seq)
    <3>1. i \in 1 .. Len(seq) /\ j \in 1 .. Len(seq) /\ all[i] = seq[i] /\ all[j] = seq[j]
      BY <1>2, <1>3, <1>4, <2>1
    <3> QED
      BY <1>2, <1>4, <3>1 DEF Increasing
  <2>2. CASE ~(i <= Len(seq))
    <3>1. /\ i - Len(seq) \in 1 .. Len(other) /\ j - Len(seq) \in 1 .. Len(other)
          /\ i - Len(seq) < j - Len(seq)
      BY <1>2, <1>3, <1>4, <2>2
    <3>2. all[i] = other[i - Len(seq)] /\ all[j] = other[j - Len(seq)]
      BY <1>2, <1>3, <1>4, <2>2
    <3> QED
      BY <1>2, <3>1, <3>2 DEF Increasing
  <2>3. CASE i <= Len(seq) /\ ~(j <= Len(seq))
    <3>1. i \in 1 .. Len(seq) /\ j - Len(seq) \in 1 .. Len(other)
      BY <1>2, <1>3, <1>4, <2>3
    <3>2. all[i] = seq[i] /\ all[j] = other[j - Len(seq)]
      BY <1>3, <2>3
    <3>3. all[i] \in ToSet(seq) /\ all[j] \in ToSet(other)
      BY <3>1, <3>2, RangeIs
    <3> QED
      BY <3>3 DEF Earlier
  <2> QED
    BY <1>2, <1>4, <2>1, <2>2, <2>3
<1> QED
  BY <1>3, <1>4 DEF Increasing, all

LEMMA HeadFirst ==
  ASSUME NEW S \in SUBSET Int, NEW seq \in Seq(S), seq # <<>>, Increasing(seq)
  PROVE  /\ Head(seq) \in S /\ Tail(seq) \in Seq(S)
         /\ ToSet(seq) = {Head(seq)} \cup ToSet(Tail(seq))
         /\ Increasing(Tail(seq))
         /\ \A x \in ToSet(Tail(seq)) : Head(seq) < x
<1>1. /\ Tail(seq) \in Seq(S) /\ Len(Tail(seq)) = Len(seq) - 1 /\ Len(seq) \in Nat /\ Len(seq) >= 1
      /\ \A i \in 1 .. Len(Tail(seq)) : Tail(seq)[i] = seq[i + 1]
      /\ Head(seq) = seq[1] /\ Head(seq) \in S
  OBVIOUS
<1>2. PICK rest \in Seq(S) : rest = Tail(seq)
  BY <1>1
<1>3. PICK n \in Nat : n = Len(rest)
  BY <1>2
<1>10. Len(seq) = n + 1
  BY <1>1, <1>2, <1>3
<1>4. DOMAIN seq = 1 .. n + 1 /\ DOMAIN rest = 1 .. n /\ \A i \in 1 .. n : rest[i] = seq[i + 1]
  BY <1>1, <1>2, <1>3, <1>10
<1>5. \A i \in 1 .. n : i + 1 \in 1 .. n + 1 /\ 1 < i + 1
  OBVIOUS
<1>6. 1 \in 1 .. n + 1 /\ \A i \in 1 .. n + 1 : i = 1 \/ i - 1 \in 1 .. n
  OBVIOUS
<1>7. Increasing(rest)
  <2>1. ASSUME NEW i \in 1 .. n, NEW j \in 1 .. n, i < j PROVE rest[i] < rest[j]
    <3>1. i + 1 < j + 1 /\ i + 1 \in 1 .. n + 1 /\ j + 1 \in 1 .. n + 1
      BY <2>1, <1>5
    <3> QED
      BY <1>4, <3>1 DEF Increasing
  <2> QED
    BY <1>4, <2>1 DEF Increasing
<1>8. \A x \in ToSet(rest) : seq[1] < x
  <2>1. ASSUME NEW i \in 1 .. n PROVE seq[1] < rest[i]
    BY <1>4, <1>5, <1>6 DEF Increasing
  <2> QED
    BY <1>4, <2>1 DEF ToSet
<1>9. ToSet(seq) = {seq[1]} \cup ToSet(rest)
  <2>1. ASSUME NEW x \in ToSet(seq) PROVE x = seq[1] \/ x \in ToSet(rest)
    <3>1. PICK i \in 1 .. n + 1 : x = seq[i]
      BY <1>4, <2>1 DEF ToSet
    <3>2. CASE i # 1
      <4>1. PICK j \in 1 .. n : i = j + 1
        BY <1>6, <3>2
      <4>2. rest[j] = x /\ j \in DOMAIN rest
        BY <1>4, <3>1, <4>1
      <4> QED
        BY <4>2 DEF ToSet
    <3> QED
      BY <3>1, <3>2
  <2>2. seq[1] \in ToSet(seq)
    BY <1>4, <1>6 DEF ToSet
  <2>3. ASSUME NEW x \in ToSet(rest) PROVE x \in ToSet(seq)
    <3>1. PICK j \in 1 .. n : x = rest[j]
      BY <1>4, <2>3 DEF ToSet
    <3>2. j + 1 \in DOMAIN seq /\ seq[j + 1] = x
      BY <1>4, <1>5, <3>1
    <3> QED
      BY <3>2 DEF ToSet
  <2> QED
    BY <2>1, <2>2, <2>3
<1> QED
  BY <1>1, <1>2, <1>7, <1>8, <1>9

(* What the steps need of a state and of the next one.                      *)
LEMMA BringsSame ==
  ASSUME UNCHANGED feedLog, feedPage'.last = feedPage.last, feedPage'.ns = feedPage.ns
  PROVE  \A st, events : Brings(st, events)' <=> Brings(st, events)
<1>1. Places' = Places
  BY DEF Places
<1> QED
  BY <1>1 DEF Brings, InTurn, ForThePage, GoesOnWell, Coming, Shows

LEMMA PageHasSame ==
  ASSUME UNCHANGED feedLog, feedPage'.last = feedPage.last, feedPage'.ns = feedPage.ns, feedPage'.events = feedPage.events
  PROVE  PageHas' <=> PageHas
<1>1. Places' = Places
  BY DEF Places
<1> QED
  BY <1>1 DEF PageHas, Shows

(* The page has what it had.                                                *)
LEMMA PageStays ==
  ASSUME LogInv, FeedInv', UNCHANGED <<feedLog, feedAsked>>,
         feedPage'.last = feedPage.last, feedPage'.ns = feedPage.ns, feedPage'.events = feedPage.events,
         \A m \in out' : m.asked = feedAsked /\ m.kind = "open" => m \in out,
         \A m \in out' : m.asked = feedAsked /\ m.kind # "open" =>
           Brings(streams'[feedAsked], EventsOf(m))
  PROVE  LogInv'
<1>1. Singly'
  <2>1. Places' = Places
    BY DEF Places
  <2> QED
    BY <2>1 DEF LogInv, Singly
<1>2. PageHas'
  BY PageHasSame DEF LogInv
<1>3. Asks'
  BY DEF LogInv, Asks
<1>4. Brought'
  <2>1. PICK st : st = streams'[feedAsked]
    OBVIOUS
  <2>2. ASSUME NEW m \in out', m.asked = feedAsked, m.kind # "open"
        PROVE  Brings(st, EventsOf(m))'
    <3>1. PICK events : events = EventsOf(m)
      OBVIOUS
    <3>2. Brings(st, events)
      BY <2>1, <2>2, <3>1
    <3>3. Brings(st, events)'
      BY <3>2, BringsSame
    <3>4. EventsOf(m)' = EventsOf(m)
      BY DEF EventsOf
    <3> QED
      BY <3>1, <3>3, <3>4
  <2> QED
    BY <2>1, <2>2 DEF Brought
<1> QED
  BY <1>1, <1>2, <1>3, <1>4 DEF LogInv

(* A message of the page and what it stands for.                            *)
LEMMA BroughtTypes ==
  ASSUME FeedInv, NEW m \in out
  PROVE  /\ EventsOf(m) \in Seq(Places) /\ EventsOf(m)' = EventsOf(m)
         /\ streams[feedAsked] \in StreamState /\ feedAsked \in Numbers
<1>1. EventsOf(m) \in Seq(Places)
  <2>1. PICK e : e = <<>>
    OBVIOUS
  <2>2. e \in Seq(Places)
    BY <2>1
  <2> QED
    BY <2>1, <2>2, MessageIs DEF EventsOf
<1>2. EventsOf(m)' = EventsOf(m)
  BY DEF EventsOf
<1> QED
  BY <1>1, <1>2 DEF FeedInv, FeedTypeOK

(* A stream that another ask has, or that no message of the ask has yet.    *)
LEMMA QuietStep ==
  ASSUME LogInv, FeedInv', UNCHANGED <<feedLog, feedAsked>>,
         feedPage'.last = feedPage.last, feedPage'.ns = feedPage.ns, feedPage'.events = feedPage.events,
         \A m \in out' : m.asked = feedAsked =>
           \E n \in out : /\ n.asked = feedAsked /\ EventsOf(n) = EventsOf(m)
                          /\ m.kind = "open" => n = m
                          /\ m.kind # "open" => n.kind # "open" /\ streams'[feedAsked] = streams[feedAsked]
  PROVE  LogInv'
<1>1. \A m \in out' : m.asked = feedAsked /\ m.kind # "open" =>
        Brings(streams'[feedAsked], EventsOf(m))
  <2>1. PICK st : st = streams[feedAsked]
    OBVIOUS
  <2> SUFFICES ASSUME NEW m \in out', m.asked = feedAsked, m.kind # "open"
               PROVE  Brings(streams'[feedAsked], EventsOf(m))
    OBVIOUS
  <2>2. PICK n \in out : /\ n.asked = feedAsked /\ EventsOf(n) = EventsOf(m) /\ n.kind # "open"
                         /\ streams'[feedAsked] = streams[feedAsked]
    OBVIOUS
  <2>3. Brings(streams[feedAsked], EventsOf(n))
    BY <2>2 DEF LogInv, Brought
  <2> QED
    BY <2>2, <2>3
<1> QED
  BY <1>1, PageStays

(* The pump takes the next event of the log, if the page shows it.          *)
LEMMA ReceivesBrings ==
  ASSUME LogInv, Receives(feedAsked), NEW events \in Seq(Places), Brings(streams[feedAsked], events)
  PROVE  Brings(streams'[feedAsked], events)
<1>1. FeedTypeOK /\ feedAsked \in Numbers /\ LogOK /\ Len(feedLog) \in Nat /\ feedPage.last \in Nat
  BY DEF LogInv, FeedInv, FeedTypeOK, LogOK, PageState
<1>2. PICK st : st = streams[feedAsked]
  OBVIOUS
<1>3. PICK next : next = {i \in NextIndex(st.at) : feedLog[i].what \in st.of /\ feedLog[i].index >= st.from}
  OBVIOUS
<1>4. PICK new : new = streams'[feedAsked]
  OBVIOUS
<1>5. /\ st.ctx = "live" /\ ~st.shut /\ st.batch = <<>> /\ st.at < Len(feedLog)
      /\ new.at = Max(NextIndex(st.at)) /\ new.ctx = "live" /\ ~new.shut
      /\ new.of = st.of /\ new.from = st.from /\ new.buffer = st.buffer
      /\ Orders(new.batch, Cardinality(next), next)
  BY <1>1, <1>2, <1>3, <1>4, ReceivesIs
<1>6. st \in StreamState /\ st.at \in 0 .. Len(feedLog) /\ st.from \in Nat /\ st.buffer \in Seq(Places)
  BY <1>1, <1>2 DEF FeedTypeOK, StreamState
<1>7. PICK at \in Nat : at = st.at
  BY <1>1, <1>6
<1>8. at + 1 \in Places /\ feedLog[at + 1].index = at + 1
  BY <1>1, <1>5, <1>6, <1>7 DEF Places, LogInv, Singly
<1>9. NextIndex(at) = {at + 1}
  <2>1. DOMAIN feedLog = Places
    BY <1>1 DEF LogOK, Places
  <2>2. NextIndex(at) = {i \in Places : i > at /\ feedLog[i].index = at + 1}
    BY <1>8, <2>1 DEF NextIndex
  <2>3. \A i \in Places : feedLog[i].index = i
    BY DEF LogInv, Singly
  <2> QED
    BY <1>8, <2>2, <2>3
<1>10. next \subseteq {at + 1} /\ (at + 1 \in next <=> feedLog[at + 1].what \in st.of /\ at + 1 >= st.from)
  BY <1>3, <1>7, <1>8, <1>9
<1>11. new.at = at + 1
  <2>1. {at + 1} \in SUBSET (0 .. Len(feedLog)) /\ {at + 1} # {}
    BY <1>8 DEF Places
  <2>2. Max({at + 1}) \in {at + 1}
    BY <1>1, <2>1, MaxIs
  <2> QED
    BY <1>5, <1>7, <1>9, <2>2
<1>12. ToSet(new.batch) = next /\ Increasing(new.batch)
  <2>1. IsFiniteSet(next) /\ Cardinality(next) \in Nat
    <3>1. IsFiniteSet({at + 1})
      BY FS_Singleton
    <3> QED
      BY <1>10, <3>1, FS_Subset, FS_CardinalityType
  <2>2. DOMAIN new.batch = 1 .. Cardinality(next) /\ ToSet(new.batch) \subseteq next
    BY <1>5, <2>1 DEF Orders, ToSet
  <2>3. Increasing(new.batch)
    BY <1>5, <2>2 DEF Orders, Increasing
  <2>4. CASE next = {}
    BY <2>2, <2>3, <2>4
  <2>5. CASE next # {}
    <3>1. next = {at + 1}
      BY <1>10, <2>5
    <3>2. Cardinality(next) = 1
      BY <3>1, FS_Singleton
    <3>3. 1 \in DOMAIN new.batch
      BY <2>2, <3>2
    <3>4. new.batch[1] \in ToSet(new.batch)
      BY <3>3 DEF ToSet
    <3> QED
      BY <2>2, <2>3, <3>1, <3>4
  <2> QED
    BY <2>4, <2>5
<1>13. ToSet(st.batch) = {}
  BY <1>5, RangeEmpty
<1>14. /\ InTurn(st, events) /\ ForThePage(st, events)
       /\ st.of = Of(feedPage.ns) /\ st.from <= feedPage.last + 1 /\ (at >= feedPage.last \/ st.from = feedPage.last + 1)
       /\ \A e \in Coming(st, events) : e <= at
       /\ \A e \in Places : e > feedPage.last /\ Shows(e) /\ e <= at => e \in Coming(st, events)
  BY <1>2, <1>5, <1>7 DEF Brings, GoesOnWell
<1>15. /\ Coming(st, events) = ToSet(events) \cup ToSet(st.buffer)
       /\ Coming(new, events) = ToSet(events) \cup ToSet(st.buffer) \cup next
  BY <1>5, <1>12, <1>13 DEF Coming
<1>16. Coming(st, events) \subseteq Places
  BY <1>6, <1>15, RangeIs
<1>17. Coming(new, events) = Coming(st, events) \cup next
  BY <1>15
<1>18. InTurn(new, events)
  <2>1. /\ Increasing(events) /\ Increasing(st.buffer) /\ Earlier(events, st.buffer)
    BY <1>14 DEF InTurn
  <2>2. \A x \in Coming(st, events), y \in next : x < y
    BY <1>10, <1>14, <1>16, <1>7 DEF Places
  <2>3. Earlier(events, new.batch) /\ Earlier(st.buffer, new.batch)
    BY <1>12, <1>15, <2>2 DEF Earlier
  <2> QED
    BY <1>5, <1>12, <2>1, <2>3 DEF InTurn
<1>19. at + 1 \in next <=> Shows(at + 1) /\ at + 1 > feedPage.last
  <2>1. at + 1 >= st.from <=> at + 1 > feedPage.last
    <3>1. CASE at >= feedPage.last
      BY <1>1, <1>6, <1>14, <3>1
    <3>2. CASE st.from = feedPage.last + 1
      BY <1>1, <3>2
    <3> QED
      BY <1>14, <3>1, <3>2
  <2> QED
    BY <1>10, <1>14, <2>1 DEF Shows
<1>20. \A e \in Places : e <= at + 1 => e <= at \/ e = at + 1
  BY DEF Places
<1>21. \A e \in Coming(new, events) : e > feedPage.last /\ Shows(e) /\ e <= at + 1
  <2>1. \A e \in Coming(st, events) : e > feedPage.last /\ Shows(e)
    BY <1>14 DEF ForThePage
  <2>2. \A e \in Coming(st, events) : e <= at + 1
    BY <1>14, <1>16 DEF Places
  <2>3. \A e \in next : e = at + 1 /\ e > feedPage.last /\ Shows(e) /\ e <= at + 1
    BY <1>8, <1>10, <1>19 DEF Places
  <2> QED
    BY <1>17, <2>1, <2>2, <2>3
<1>22. \A e \in Places : e > feedPage.last /\ Shows(e) /\ e <= at + 1 => e \in Coming(new, events)
  BY <1>14, <1>17, <1>19, <1>20
<1>23. ForThePage(new, events)
  <2>1. \A e \in Places, x \in Coming(new, events) : e <= x => e <= at + 1
    <3>1. \A x \in Coming(new, events) : x \in Places /\ x <= at + 1
      BY <1>8, <1>10, <1>16, <1>17, <1>21
    <3> QED
      BY <3>1 DEF Places
  <2> QED
    BY <1>21, <1>22, <2>1 DEF ForThePage
<1>24. GoesOnWell(new, events)
  <2>1. at + 1 >= feedPage.last \/ st.from = feedPage.last + 1
    BY <1>1, <1>14
  <2> QED
    BY <1>5, <1>11, <1>14, <1>21, <1>22, <2>1 DEF GoesOnWell
<1> QED
  BY <1>4, <1>18, <1>23, <1>24 DEF Brings

(* What a stream has to bring does not change on its way to the channel.    *)
LEMMA SendsBrings ==
  ASSUME LogInv, Sends(feedAsked), NEW events \in Seq(Places), Brings(streams[feedAsked], events)
  PROVE  Brings(streams'[feedAsked], events)
<1>1. FeedTypeOK /\ feedAsked \in Numbers
  BY DEF LogInv, FeedInv, FeedTypeOK
<1>2. PICK st : st = streams[feedAsked]
  OBVIOUS
<1>3. PICK new : new = streams'[feedAsked]
  OBVIOUS
<1>4. st \in StreamState
  BY <1>1, <1>2 DEF FeedTypeOK
<1>5. PICK first : first = Head(st.batch)
  OBVIOUS
<1>6. PICK rest : rest = Tail(st.batch)
  OBVIOUS
<1>7. PICK more : more = Append(st.buffer, first)
  OBVIOUS
<1>8. st.batch # <<>> /\ ~st.shut /\ new = [st EXCEPT !.buffer = more, !.batch = rest]
  BY <1>1, <1>2, <1>3, <1>5, <1>6, <1>7, SendsIs
<1>9. st.batch \in Seq(Places) /\ st.buffer \in Seq(Places)
  BY <1>4 DEF StreamState
<1>10. /\ new.batch = rest /\ new.buffer = more /\ new.ctx = st.ctx /\ new.of = st.of
       /\ new.from = st.from /\ new.at = st.at /\ new.shut = st.shut
  BY <1>4, <1>8 DEF StreamState
<1>11. InTurn(st, events) /\ ForThePage(st, events) /\ GoesOnWell(st, events)
  BY <1>2, <1>8 DEF Brings
<1>12. Increasing(st.batch)
  BY <1>11 DEF InTurn
<1>13. Places \in SUBSET Int
  BY DEF Places
<1>14. /\ first \in Places /\ rest \in Seq(Places)
       /\ ToSet(st.batch) = {first} \cup ToSet(rest) /\ Increasing(rest)
       /\ \A x \in ToSet(rest) : first < x
  BY <1>5, <1>6, <1>8, <1>9, <1>12, <1>13, HeadFirst
<1>15. PICK one : one = <<first>>
  OBVIOUS
<1>16. one \in Seq(Places) /\ ToSet(one) = {first} /\ Increasing(one)
  <2>1. one \in Seq(Places) /\ Len(one) = 1 /\ DOMAIN one = {1} /\ one[1] = first
    BY <1>14, <1>15
  <2> QED
    BY <2>1 DEF ToSet, Increasing
<1>17. more = st.buffer \o one
  <2>1. Append(st.buffer, first) = st.buffer \o <<first>>
    BY <1>9, <1>14, AppendIsConcat
  <2> QED
    BY <2>1, <1>7, <1>15
<1>18. ToSet(more) = ToSet(st.buffer) \cup {first}
  BY <1>9, <1>16, <1>17, RangeConcat
<1>19. InTurn(new, events)
  <2>1. /\ Increasing(events) /\ Increasing(st.buffer)
        /\ Earlier(events, st.buffer) /\ Earlier(events, st.batch) /\ Earlier(st.buffer, st.batch)
    BY <1>11 DEF InTurn
  <2>2. Earlier(st.buffer, one)
    BY <2>1, <1>14, <1>16 DEF Earlier
  <2>3. Increasing(more)
    BY <2>1, <2>2, <1>9, <1>13, <1>16, <1>17, IncreasingConcat
  <2>4. Earlier(events, more) /\ Earlier(events, rest) /\ Earlier(more, rest)
    BY <2>1, <1>14, <1>18 DEF Earlier
  <2> QED
    BY <2>1, <2>3, <2>4, <1>10, <1>14 DEF InTurn
<1>20. Coming(new, events) = Coming(st, events)
  BY <1>10, <1>14, <1>18 DEF Coming
<1>21. ForThePage(new, events) /\ GoesOnWell(new, events)
  BY <1>10, <1>11, <1>20 DEF ForThePage, GoesOnWell
<1> QED
  BY <1>3, <1>19, <1>21 DEF Brings

(* What is on the channel of a stream that ends is all it had.              *)
LEMMA ReturnedBrings ==
  ASSUME LogInv, NEW st \in StreamState, NEW err \in BOOLEAN, st.batch = <<>>,
         NEW events \in Seq(Places), Brings(st, events)
  PROVE  Brings(Returned(st, err), events)
<1>1. PICK new : new = Returned(st, err)
  OBVIOUS
<1>2. new.shut /\ new.batch = st.batch /\ new.buffer = st.buffer
  BY <1>1, ReturnedIs DEF LogInv, FeedInv, FeedTypeOK
<1>3. Coming(new, events) = Coming(st, events)
  BY <1>2 DEF Coming
<1>4. InTurn(new, events) /\ ForThePage(new, events)
  BY <1>2, <1>3 DEF Brings, InTurn, ForThePage
<1> QED
  BY <1>1, <1>2, <1>4 DEF Brings

(* A pump of the page on top.                                               *)
LEMMA PumpBrings ==
  ASSUME LogInv, FeedInv', UNCHANGED pageVars, NEW s \in Numbers, Pump(s) \/ Ends(s)
  PROVE  LogInv'
<1>1. FeedTypeOK /\ feedAsked \in Numbers /\ streams[feedAsked] \in StreamState /\ UNCHANGED feedLog
  BY DEF LogInv, FeedInv, FeedTypeOK, Pump, Ends, Receives, Sends, PumpReturns
<1>2. UNCHANGED <<feedPage, feedAsked, out>>
  BY DEF pageVars
<1>3. CASE s # feedAsked
  <2>1. streams'[feedAsked] = streams[feedAsked]
    BY <1>1, <1>3, ReceivesIs, SendsIs DEF Pump, Ends, PumpReturns, FeedTypeOK
  <2> QED
    BY <1>1, <1>2, <2>1, QuietStep
<1>4. CASE s = feedAsked
  <2>1. ASSUME NEW m \in out', m.asked = feedAsked, m.kind # "open"
        PROVE  Brings(streams'[feedAsked], EventsOf(m))
    <3>1. m \in out
      BY <1>2
    <3>2. PICK events \in Seq(Places) : events = EventsOf(m)
      BY <3>1, BroughtTypes DEF LogInv
    <3>3. Brings(streams[feedAsked], events)
      BY <2>1, <3>1, <3>2 DEF LogInv, Brought
    <3>4. CASE Receives(s)
      BY <1>4, <3>2, <3>3, <3>4, ReceivesBrings
    <3>5. CASE Sends(s)
      BY <1>4, <3>2, <3>3, <3>5, SendsBrings
    <3>6. CASE PumpReturns(s)
      BY <1>4, <3>3, <3>6 DEF PumpReturns, Brings, GoesOnWell
    <3>7. CASE Ends(s)
      <4>1. PICK err \in BOOLEAN : streams'[feedAsked] = Returned(streams[feedAsked], err)
        BY <1>1, <1>4, <3>7 DEF Ends, FeedTypeOK
      <4>2. PICK st \in StreamState : st = streams[feedAsked]
        BY <1>1
      <4>3. st.batch = <<>>
        BY <1>4, <3>7, <4>2 DEF Ends
      <4>4. Brings(Returned(st, err), events)
        BY <3>3, <4>2, <4>3, ReturnedBrings
      <4> QED
        BY <3>2, <4>1, <4>2, <4>4
    <3> QED
      BY <3>4, <3>5, <3>6, <3>7 DEF Pump
  <2> QED
    BY <1>1, <1>2, <2>1, PageStays
<1> QED
  BY <1>3, <1>4

(* What the next state has of the asks of the page, after a message of it.  *)
LEMMA OnlyOne ==
  ASSUME FeedInv, NEW m \in out, m.asked = feedAsked, NEW n \in out \ {m}
  PROVE  n.asked # feedAsked
BY DEF FeedInv, Labelled

(* A message of an ask that is over is only dropped or passed on.           *)
LEMMA OverBrings ==
  ASSUME LogInv, FeedInv', NEW m \in out, m.asked # feedAsked, UNCHANGED <<feedLog, feedAsked>>,
         feedPage'.last = feedPage.last, feedPage'.ns = feedPage.ns, feedPage'.events = feedPage.events,
         streams'[feedAsked] = streams[feedAsked],
         \A n \in out' : n \in out \/ n.asked = m.asked
  PROVE  LogInv'
BY QuietStep

LEMMA NothingBrings ==
  ASSUME NEW st \in StreamState, st.batch = <<>>, st.buffer = <<>>, NEW events, events = <<>>,
         st.shut \/ GoesOnWell(st, events)
  PROVE  Brings(st, events)
<1>1. ToSet(events) = {} /\ ToSet(st.batch) = {} /\ ToSet(st.buffer) = {}
  BY RangeEmpty
<1>2. Increasing(events) /\ Increasing(st.batch) /\ Increasing(st.buffer)
  BY RangeEmpty
<1>3. InTurn(st, events)
  BY <1>1, <1>2 DEF InTurn, Earlier
<1>4. ForThePage(st, events)
  BY <1>1 DEF ForThePage, Coming
<1> QED
  BY <1>3, <1>4 DEF Brings

(* A stream starts with the index it is asked for, or with the newest one.  *)
LEMMA StartsThere ==
  ASSUME LogInv, NEW from \in Nat, from > 0
  PROVE  Before(from) \in 0 .. Len(feedLog) /\ Before(from) < from
<1> DEFINE first == IF from > NewestEvent THEN NewestEvent ELSE from
           S == {0} \cup {i \in DOMAIN feedLog : feedLog[i].index < first}
<1>1. LogOK /\ DOMAIN feedLog = Places /\ Len(feedLog) \in Nat
  BY DEF LogInv, FeedInv, FeedTypeOK, LogOK, Places
<1>2. NewestEvent \in Nat
  <2>1. CASE feedLog = <<>>
    BY <2>1 DEF NewestEvent
  <2>2. CASE feedLog # <<>>
    <3>1. Len(feedLog) \in Places
      BY <1>1, <2>2 DEF Places, LogOK
    <3>2. feedLog[Len(feedLog)].index = Len(feedLog)
      BY <3>1 DEF LogInv, Singly
    <3> QED
      BY <1>1, <2>2, <3>2 DEF NewestEvent
  <2> QED
    BY <2>1, <2>2
<1>3. S \in SUBSET (0 .. Len(feedLog)) /\ S # {}
  BY <1>1 DEF Places
<1>4. \A i \in S : i < from
  <2>1. first <= from /\ first \in Nat
    BY <1>2
  <2>2. ASSUME NEW i \in Places, feedLog[i].index < first PROVE i < from
    <3>1. feedLog[i].index = i /\ i \in Nat
      BY DEF LogInv, Singly, Places
    <3> QED
      BY <2>1, <2>2, <3>1
  <2> HIDE DEF first
  <2> QED
    BY <1>1, <2>2
<1> HIDE DEF S
<1>5. Max(S) \in S
  BY <1>1, <1>3, MaxIs
<1> QED
  BY <1>3, <1>4, <1>5 DEF Before, S

LEMMA OpensBrings == ASSUME LogInv, FeedInv', NEW m \in out, Opens(m) PROVE LogInv'
<1> DEFINE n == [kind |-> "opened", asked |-> m.asked, feed |-> m.asked]
<1>1. /\ m.kind = "open" /\ m.asked \in Numbers /\ m.ns \in Namespaces /\ m.from \in Nat
      /\ out' = (out \ {m}) \cup {n} /\ UNCHANGED <<feedLog, feedPage, feedAsked>>
      /\ streams' = Followed(m.asked, Of(m.ns), m.from)
  BY MessageIs DEF LogInv, Opens, Swap
<1>2. FeedTypeOK /\ FeedInv /\ LogOK /\ feedAsked \in Numbers /\ feedPage.last \in Nat
  BY DEF LogInv, FeedInv, FeedTypeOK, PageState
<1>3. n.asked = m.asked /\ n.kind = "opened" /\ EventsOf(n) = <<>>
  BY DEF EventsOf
<1> HIDE DEF n
<1>6. PICK of \in SUBSET What : of = Of(m.ns)
  BY OfIs
<1>7. PICK s \in Numbers, from \in Nat : s = m.asked /\ from = m.from
  BY <1>1
<1>8. /\ streams' \in [Numbers -> StreamState]
      /\ \A t \in Numbers : t # s => streams'[t] = streams[t]
      /\ LET st == streams'[s]
         IN  /\ st.ctx = "live" /\ st.of = of /\ st.from = from /\ st.at = Before(from)
             /\ st.batch = <<>> /\ st.buffer = <<>> /\ ~st.shut
  <2>1. streams' = Followed(s, of, from)
    BY <1>1, <1>6, <1>7
  <2>2. FeedTypeOK
    BY <1>2
  <2> QED
    BY ONLY <2>1, <2>2, FollowedIs
<1>4. CASE m.asked # feedAsked
  <2>1. streams'[feedAsked] = streams[feedAsked]
    BY <1>2, <1>4, <1>7, <1>8
  <2> QED
    BY <1>1, <1>3, <1>4, <2>1, OverBrings
<1>5. CASE m.asked = feedAsked
  <2>1. PICK st \in StreamState : st = streams'[feedAsked]
    BY <1>2, <1>8
  <2>2. m.ns = feedPage.ns /\ m.from = feedPage.last + 1
    BY <1>1, <1>5 DEF LogInv, Asks
  <2>3. /\ st.ctx = "live" /\ st.of = Of(feedPage.ns) /\ st.from = feedPage.last + 1
        /\ st.at = Before(m.from) /\ st.batch = <<>> /\ st.buffer = <<>>
    BY <1>5, <1>6, <1>7, <1>8, <2>1, <2>2
  <2>4. st.at \in 0 .. Len(feedLog) /\ st.at <= feedPage.last
    <3>1. m.from > 0
      BY <1>2, <2>2
    <3>2. Before(m.from) \in 0 .. Len(feedLog) /\ Before(m.from) < m.from
      BY <1>1, <3>1, StartsThere
    <3>3. Before(m.from) \in Nat
      BY <3>2
    <3> QED
      BY <1>2, <2>2, <2>3, <3>2, <3>3
  <2>5. PICK events : events = <<>>
    OBVIOUS
  <2>6. Coming(st, events) = {}
    BY <2>3, <2>5, RangeEmpty DEF Coming
  <2>7. \A e \in Places : ~(e > feedPage.last /\ e <= st.at)
    BY <1>2, <2>4 DEF Places
  <2>8. GoesOnWell(st, events)
    BY <1>2, <2>3, <2>6, <2>7 DEF GoesOnWell
  <2>9. Brings(st, events)
    BY <2>3, <2>5, <2>8, NothingBrings
  <2>10. ASSUME NEW o \in out', o.asked = feedAsked PROVE o = n
    BY <1>1, <1>2, <1>5, <2>10, OnlyOne
  <2> QED
    BY <1>1, <1>3, <2>1, <2>5, <2>9, <2>10, PageStays
<1> QED
  BY <1>4, <1>5

LEMMA OpenFailsBrings == ASSUME LogInv, FeedInv', NEW m \in out, OpenFails(m) PROVE LogInv'
<1>1. out' = out \ {m} /\ UNCHANGED <<feedLog, feedPage, feedAsked, streams>>
  BY DEF OpenFails, Drop
<1> QED
  BY <1>1, QuietStep

LEMMA TakeOpenedBrings == ASSUME LogInv, FeedInv', NEW m \in out, TakeOpened(m) PROVE LogInv'
<1>1. /\ m.kind = "opened" /\ m.asked \in Numbers /\ m.feed = m.asked /\ UNCHANGED <<feedLog, feedAsked>>
  BY MessageIs DEF LogInv, TakeOpened
<1>2. FeedTypeOK /\ FeedInv /\ feedAsked \in Numbers
  BY DEF LogInv, FeedInv, FeedTypeOK
<1>3. CASE m.asked = feedAsked
  <2> DEFINE n == [kind |-> "wait", asked |-> feedAsked, feed |-> m.feed]
  <2>1. feedPage.feed = NoFeed
    BY <1>1, <1>2, <1>3, NotYet
  <2>2. feedPage' = [feedPage EXCEPT !.feed = m.feed] /\ out' = (out \ {m}) \cup {n} /\ UNCHANGED streams
    BY <1>3, <2>1 DEF TakeOpened, Current, Swap
  <2>3. feedPage'.last = feedPage.last /\ feedPage'.ns = feedPage.ns /\ feedPage'.events = feedPage.events
    BY <1>2, <2>2 DEF FeedTypeOK, PageState
  <2>4. n.kind = "wait" /\ EventsOf(n) = <<>> /\ EventsOf(m) = <<>>
    BY <1>1 DEF EventsOf
  <2> HIDE DEF n
  <2>5. ASSUME NEW o \in out', o.asked = feedAsked PROVE o = n
    BY <1>2, <1>3, <2>2, <2>5, OnlyOne
  <2> QED
    BY <1>1, <1>3, <2>2, <2>3, <2>4, <2>5, QuietStep
<1>4. CASE m.asked # feedAsked
  <2>1. streams' = Closed(m.feed) /\ out' = out \ {m} /\ UNCHANGED feedPage
    BY <1>4 DEF TakeOpened, Current, Drop
  <2>2. streams'[feedAsked] = streams[feedAsked]
    BY <1>1, <1>2, <1>4, <2>1, ClosedIs
  <2> QED
    BY <1>1, <1>4, <2>1, <2>2, OverBrings
<1> QED
  BY <1>3, <1>4

LEMMA NextEventsBrings == ASSUME LogInv, FeedInv', NEW m \in out, NextEvents(m) PROVE LogInv'
<1>1. /\ m.kind = "wait" /\ m.asked \in Numbers /\ m.feed = m.asked
      /\ UNCHANGED <<feedLog, feedPage, feedAsked>> /\ streams' = Emptied(m.feed)
  BY MessageIs DEF LogInv, NextEvents
<1>2. FeedTypeOK /\ FeedInv /\ feedAsked \in Numbers
  BY DEF LogInv, FeedInv, FeedTypeOK
<1>3. PICK events \in Seq(Places) : events = streams[m.feed].buffer
  BY <1>1, <1>2 DEF FeedTypeOK, StreamState
<1> DEFINE n == [kind |-> "events", asked |-> m.asked, feed |-> m.feed, events |-> events]
<1>4. out' = (out \ {m}) \cup {n}
  BY <1>3 DEF NextEvents, Swap
<1>5. n.asked = m.asked /\ n.kind = "events" /\ EventsOf(n) = events
  BY DEF EventsOf
<1> HIDE DEF n
<1>6. CASE m.asked # feedAsked
  <2>1. streams'[feedAsked] = streams[feedAsked]
    BY <1>1, <1>2, <1>6, EmptiedIs
  <2> QED
    BY <1>1, <1>4, <1>5, <1>6, <2>1, OverBrings
<1>7. CASE m.asked = feedAsked
  <2>1. PICK st \in StreamState : st = streams[feedAsked]
    BY <1>2 DEF FeedTypeOK
  <2>2. PICK none : none = <<>>
    OBVIOUS
  <2>3. PICK new : new = streams'[feedAsked] /\ new = [st EXCEPT !.buffer = none]
    BY <1>1, <1>2, <1>7, <2>1, <2>2, EmptiedIs
  <2>4. Brings(st, none)
    BY <1>1, <1>7, <2>1, <2>2 DEF LogInv, Brought, EventsOf
  <2>5. /\ new.batch = st.batch /\ new.buffer = none /\ new.ctx = st.ctx /\ new.of = st.of
        /\ new.from = st.from /\ new.at = st.at /\ new.shut = st.shut
    BY <2>1, <2>3 DEF StreamState
  <2>6. events = st.buffer
    BY <1>1, <1>3, <1>7, <2>1
  <2>7. ToSet(none) = {} /\ Increasing(none)
    BY <2>2, RangeEmpty
  <2>8. Coming(new, events) = Coming(st, none)
    BY <2>5, <2>6, <2>7 DEF Coming
  <2>9. InTurn(new, events)
    BY <2>4, <2>5, <2>6, <2>7 DEF Brings, InTurn, Earlier
  <2>10. Brings(new, events)
    BY <2>4, <2>5, <2>8, <2>9 DEF Brings, ForThePage, GoesOnWell
  <2>11. ASSUME NEW o \in out', o.asked = feedAsked PROVE o = n
    BY <1>2, <1>4, <1>7, <2>11, OnlyOne
  <2> QED
    BY <1>1, <1>5, <2>3, <2>10, <2>11, PageStays
<1> QED
  BY <1>6, <1>7

LEMMA NextEndBrings == ASSUME LogInv, FeedInv', NEW m \in out, NextEnd(m) PROVE LogInv'
<1>1. /\ m.kind = "wait" /\ m.asked \in Numbers /\ m.feed = m.asked
      /\ UNCHANGED <<feedLog, feedPage, feedAsked>> /\ streams' = Over(m.feed)
  BY MessageIs DEF LogInv, NextEnd
<1>2. FeedTypeOK /\ FeedInv /\ feedAsked \in Numbers
  BY DEF LogInv, FeedInv, FeedTypeOK
<1> DEFINE n == [kind |-> "ended", asked |-> m.asked, feed |-> m.feed]
<1>4. out' = (out \ {m}) \cup {n}
  BY DEF NextEnd, Swap
<1>5. n.asked = m.asked /\ n.kind = "ended" /\ EventsOf(n) = <<>>
  BY DEF EventsOf
<1> HIDE DEF n
<1>6. CASE m.asked # feedAsked
  <2>1. streams'[feedAsked] = streams[feedAsked]
    BY <1>1, <1>2, <1>6, OverIs
  <2> QED
    BY <1>1, <1>4, <1>5, <1>6, <2>1, OverBrings
<1>7. CASE m.asked = feedAsked
  <2>1. PICK st \in StreamState : st = streams'[feedAsked] /\ st.shut /\ st.batch = <<>> /\ st.buffer = <<>>
    BY <1>1, <1>2, <1>7, OverIs
  <2>2. PICK none : none = <<>>
    OBVIOUS
  <2>3. Brings(st, none)
    BY <2>1, <2>2, NothingBrings
  <2>4. ASSUME NEW o \in out', o.asked = feedAsked PROVE o = n
    BY <1>2, <1>4, <1>7, <2>4, OnlyOne
  <2> QED
    BY <1>1, <1>5, <2>1, <2>2, <2>3, <2>4, PageStays
<1> QED
  BY <1>6, <1>7

LEMMA TakeEndedBrings == ASSUME LogInv, FeedInv', NEW m \in out, TakeEnded(m) PROVE LogInv'
<1>1. out' = out \ {m} /\ UNCHANGED <<feedLog, streams, feedAsked>>
  BY DEF TakeEnded, Drop
<1>2. feedPage'.last = feedPage.last /\ feedPage'.ns = feedPage.ns /\ feedPage'.events = feedPage.events
  BY DEF TakeEnded, LogInv, FeedInv, FeedTypeOK, PageState
<1> QED
  BY <1>1, <1>2, QuietStep

(* What is kept of too many, and what goes.                                 *)
LEMMA KeepsNewest ==
  ASSUME NEW S \in SUBSET Int, NEW seq \in Seq(S), Increasing(seq), NEW n \in Nat \ {0}
  PROVE  LET kept == LastOf(seq, n)
         IN  /\ kept \in Seq(S) /\ (Len(seq) >= n => Len(kept) = n)
             /\ Increasing(kept) /\ ToSet(kept) \subseteq ToSet(seq)
             /\ \A x \in ToSet(seq) :
                  x \in ToSet(kept) \/ (kept # <<>> /\ Len(kept) = n /\ x < kept[1])
<1> DEFINE first == Len(seq) - n + 1
<1>1. Len(seq) \in Nat /\ first \in Int /\ DOMAIN seq = 1 .. Len(seq)
  OBVIOUS
<1>2. Max({1, first}) = IF first > 1 THEN first ELSE 1
  BY <1>1 DEF Max
<1>3. PICK from \in Nat : from = Max({1, first}) /\ from >= 1 /\ from >= first /\ (from = 1 \/ from = first)
  BY <1>1, <1>2
<1>4. PICK m \in Nat : m = Len(seq)
  BY <1>1
<1>5. PICK kept : kept = SubSeq(seq, from, m)
  OBVIOUS
<1>6. \A i \in from .. m : seq[i] \in S
  BY <1>3, <1>4
<1>7. /\ SubSeq(seq, from, m) \in Seq(S)
      /\ Len(SubSeq(seq, from, m)) = IF from <= m THEN m - from + 1 ELSE 0
      /\ \A i \in 1 .. m - from + 1 : SubSeq(seq, from, m)[i] = seq[from + i - 1]
  <2>1. from \in Int /\ m \in Int
    OBVIOUS
  <2> QED
    BY <1>6, <2>1, SubSeqProperties
<1>8. PICK size \in Nat : size = Len(kept) /\ size = IF from <= m THEN m - from + 1 ELSE 0
  BY <1>5, <1>7
<1>9. /\ kept \in Seq(S) /\ DOMAIN kept = 1 .. size
      /\ \A i \in 1 .. size : kept[i] = seq[from + i - 1] /\ from + i - 1 \in 1 .. m
  <2>1. \A i \in 1 .. size : i \in 1 .. m - from + 1 /\ from + i - 1 \in 1 .. m
    BY <1>3, <1>8
  <2>2. kept \in Seq(S) /\ Len(kept) = size
    BY <1>5, <1>7, <1>8
  <2>3. \A i \in 1 .. size : kept[i] = seq[from + i - 1]
    BY <1>5, <1>7, <2>1
  <2> QED
    BY SMTT(30), <2>1, <2>2, <2>3
<1>10. Increasing(kept)
  <2>1. ASSUME NEW i \in 1 .. size, NEW j \in 1 .. size, i < j PROVE kept[i] < kept[j]
    <3>1. from + i - 1 < from + j - 1
      BY <2>1
    <3> QED
      BY <1>1, <1>4, <1>9, <3>1 DEF Increasing
  <2> QED
    BY <1>9, <2>1 DEF Increasing
<1>11. ToSet(kept) \subseteq ToSet(seq)
  BY <1>1, <1>4, <1>9 DEF ToSet
<1>12. ASSUME NEW x \in ToSet(seq)
       PROVE  x \in ToSet(kept) \/ (kept # <<>> /\ Len(kept) = n /\ x < kept[1])
  <2>1. PICK i \in 1 .. m : seq[i] = x
    BY <1>1, <1>4, <1>12 DEF ToSet
  <2>2. CASE i >= from
    <3>1. PICK j \in Int : j = i - from + 1
      BY <2>1
    <3>2. j >= 1 /\ from <= m /\ j <= m - from + 1 /\ from + j - 1 = i
      BY <2>1, <2>2, <3>1
    <3>3. j \in 1 .. size
      BY <1>8, <3>2
    <3>4. kept[j] = x
      BY <1>9, <2>1, <3>2, <3>3
    <3> QED
      BY <1>9, <3>3, <3>4 DEF ToSet
  <2>3. CASE ~(i >= from)
    <3>1. from = first /\ from <= m /\ size = n
      BY <1>1, <1>3, <1>4, <1>8, <2>1, <2>3
    <3>2. 1 \in 1 .. size /\ from + 1 - 1 = from
      BY <3>1
    <3>3. kept[1] = seq[from] /\ from \in 1 .. m /\ i < from
      <4>1. kept[1] = seq[from + 1 - 1]
        BY <1>9, <3>2
      <4> QED
        BY <1>3, <2>1, <2>3, <3>1, <3>2, <4>1
    <3>4. x < kept[1]
      BY <1>1, <1>4, <2>1, <3>3 DEF Increasing
    <3>5. kept # <<>>
      BY <1>9, <3>2
    <3> QED
      BY <1>8, <3>1, <3>4, <3>5
  <2> QED
    BY <2>2, <2>3
<1>13. kept = LastOf(seq, n)
  BY <1>3, <1>4, <1>5 DEF LastOf
<1>14. Len(seq) >= n => Len(kept) = n
  BY <1>1, <1>3, <1>4, <1>8
<1> QED
  BY <1>9, <1>10, <1>11, <1>12, <1>13, <1>14

(* A batch goes on the page: it is what the page wants next.                *)
LEMMA TakesInTurn ==
  ASSUME LogInv, NEW st \in StreamState, NEW events \in Seq(Places), Brings(st, events),
         UNCHANGED feedLog, feedPage'.ns = feedPage.ns, feedPage'.events = LastOf(feedPage.events \o events, FeedKept),
         feedPage'.last = Max({feedPage.last} \cup {feedLog[e].index : e \in ToSet(events)}),
         NEW none, none = <<>>
  PROVE  PageHas' /\ Brings(st, none)'
<1>1. /\ LogOK /\ Len(feedLog) \in Nat /\ feedPage.events \in Seq(Places) /\ feedPage.last \in Nat
      /\ feedPage.last <= Len(feedLog) /\ Increasing(feedPage.events)
  BY DEF LogInv, FeedInv, FeedTypeOK, LogOK, PageState, PageHas
<1>16. PICK had \in Seq(Places), old \in Nat : had = feedPage.events /\ old = feedPage.last
  BY <1>1
<1>2. /\ st.buffer \in Seq(Places) /\ st.batch \in Seq(Places) /\ st.at \in Nat /\ st.from \in Nat
  BY <1>1 DEF StreamState
<1>3. /\ ToSet(events) \subseteq Places /\ ToSet(had) \subseteq Places
      /\ ToSet(st.buffer) \subseteq Places /\ ToSet(st.batch) \subseteq Places /\ Places \in SUBSET Int
  <2>1. Places \in SUBSET Int
    BY DEF Places
  <2>2. ToSet(events) \subseteq Places /\ ToSet(had) \subseteq Places
    BY RangeIs
  <2>3. ToSet(st.buffer) \subseteq Places /\ ToSet(st.batch) \subseteq Places
    BY <1>2, RangeIs
  <2> QED
    BY <2>1, <2>2, <2>3
<1>4. PICK last : last = feedPage'.last
  OBVIOUS
<1>5. /\ last \in Nat /\ last >= feedPage.last /\ (last = feedPage.last \/ last \in ToSet(events))
      /\ \A e \in ToSet(events) : e <= last
  <2>1. \A e \in ToSet(events) : feedLog[e].index = e
    BY <1>3 DEF LogInv, Singly
  <2>2. /\ last \in Nat /\ last >= feedPage.last
        /\ last = feedPage.last \/ \E e \in ToSet(events) : last = feedLog[e].index
        /\ \A e \in ToSet(events) : feedLog[e].index <= last
    <3>1. last = Max({old} \cup {feedLog[e].index : e \in ToSet(events)})
      BY <1>4, <1>16
    <3> QED
      BY <1>1, <1>16, <3>1, NewestIs
  <2> QED
    BY <2>1, <2>2
<1>6. PICK all \in Seq(Places) : all = had \o events
  <2>1. had \o events \in Seq(Places)
    BY ConcatProperties, Zenon
  <2> QED
    BY <2>1
<1>7. ToSet(all) = ToSet(had) \cup ToSet(events)
  BY <1>6, RangeConcat
<1>8. /\ \A e \in ToSet(had) : e <= old /\ Shows(e)
      /\ \A e \in ToSet(events) : e > old /\ Shows(e)
      /\ Increasing(events)
  BY <1>16 DEF LogInv, PageHas, Brings, InTurn, ForThePage, Coming
<1>9. Increasing(all)
  <2>1. Earlier(had, events)
    <3>1. ASSUME NEW x \in ToSet(had), NEW y \in ToSet(events) PROVE x < y
      <4>1. x \in Int /\ y \in Int /\ x <= old /\ y > old
        BY <1>3, <1>8
      <4> QED
        BY <4>1
    <3> QED
      BY <3>1 DEF Earlier
  <2> QED
    BY <1>1, <1>16, <1>3, <1>6, <1>8, <2>1, IncreasingConcat
<1>10. FeedKept \in Nat \ {0}
  BY FeedAssumption
<1>11. PICK kept : kept = feedPage'.events
  OBVIOUS
<1>12. /\ kept \in Seq(Places) /\ (Len(all) >= FeedKept => Len(kept) = FeedKept)
       /\ Increasing(kept) /\ ToSet(kept) \subseteq ToSet(all)
       /\ \A x \in ToSet(all) :
            x \in ToSet(kept) \/ (kept # <<>> /\ Len(kept) = FeedKept /\ x < kept[1])
  <2>1. kept = LastOf(all, FeedKept)
    BY <1>6, <1>11, <1>16
  <2> QED
    BY <1>3, <1>9, <1>10, <2>1, KeepsNewest
<1>13. Places' = Places /\ \A e : Shows(e)' <=> Shows(e)
  BY DEF Places, Shows
<1>14. PageHas'
  <2>1. last <= Len(feedLog)
    BY <1>1, <1>3, <1>5 DEF Places
  <2>2. \A e \in ToSet(kept) : e <= last /\ Shows(e)
    <3>1. ASSUME NEW e \in ToSet(kept) PROVE e <= last /\ Shows(e)
      <4>1. e \in ToSet(had) \/ e \in ToSet(events)
        BY <1>7, <1>12
      <4>2. CASE e \in ToSet(had)
        <5>1. e \in Int /\ e <= old /\ old <= last /\ Shows(e)
          BY <1>3, <1>5, <1>8, <1>16, <4>2
        <5> QED
          BY <5>1, <1>5
      <4>3. CASE e \in ToSet(events)
        BY <1>5, <1>8, <4>3
      <4> QED
        BY <4>1, <4>2, <4>3
    <3> QED
      BY <3>1
  <2>3. ASSUME NEW e \in Places, e <= last, Shows(e)
        PROVE  e \in ToSet(kept) \/ (kept # <<>> /\ Len(kept) = FeedKept /\ e < kept[1])
    <3>1. CASE e \in ToSet(all)
      BY <1>12, <3>1
    <3>2. CASE e \notin ToSet(all)
      <4>1. CASE e <= feedPage.last
        <5>1. had # <<>> /\ Len(had) = FeedKept /\ e < had[1]
          BY <1>7, <1>16, <2>3, <3>2, <4>1 DEF LogInv, PageHas
        <5>2. PICK first \in Places : first = had[1]
          BY <5>1
        <5>3. first \in ToSet(had) /\ \A x \in ToSet(had) : first <= x
          <6>1. DOMAIN had = 1 .. Len(had) /\ 1 \in 1 .. Len(had)
            BY <5>1
          <6>2. first \in ToSet(had)
            BY <5>2, <6>1 DEF ToSet
          <6>3. ASSUME NEW i \in 1 .. Len(had) PROVE first <= had[i]
            <7>1. CASE i = 1
              BY <1>3, <5>2, <7>1
            <7>2. CASE i # 1
              <8>1. 1 \in DOMAIN had /\ i \in DOMAIN had /\ 1 < i /\ Increasing(had)
                BY <1>1, <1>16, <6>1, <7>2
              <8>2. PICK later \in Places : later = had[i]
                BY <6>1, <8>1
              <8>3. had[1] < had[i]
                BY <8>1 DEF Increasing
              <8>4. first < later /\ first \in Int /\ later \in Int
                BY <1>3, <5>2, <8>2, <8>3
              <8> QED
                BY <8>2, <8>4
            <7> QED
              BY <7>1, <7>2
          <6> QED
            BY <6>1, <6>2, <6>3 DEF ToSet
        <5>4. ASSUME NEW x \in ToSet(all) PROVE first <= x
          <6>1. CASE x \in ToSet(had)
            BY <5>3, <6>1
          <6>2. CASE x \in ToSet(events)
            <7>1. x \in Int /\ first \in Int /\ first <= old /\ x > old
              BY <1>3, <1>8, <5>3, <6>2
            <7> QED
              BY <7>1
          <6> QED
            BY <1>7, <6>1, <6>2
        <5>5. kept \in Seq(Places) /\ Len(kept) = FeedKept /\ kept # <<>>
          <6>1. Len(all) = Len(had) + Len(events) /\ Len(had) \in Nat /\ Len(events) \in Nat
            BY <1>6
          <6>2. kept \in Seq(Places) /\ Len(kept) = FeedKept
            BY <1>10, <1>12, <5>1, <6>1
          <6> QED
            BY <1>10, <6>2
        <5>6. PICK newFirst \in Places : newFirst = kept[1] /\ newFirst \in ToSet(kept)
          BY <5>5, RangeIs
        <5>7. first <= newFirst
          BY <1>12, <5>4, <5>6
        <5>8. e < newFirst
          BY <1>3, <5>1, <5>2, <5>7
        <5> QED
          BY <5>5, <5>6, <5>8
      <4>2. CASE ~(e <= feedPage.last)
        <5>1. last \in ToSet(events) /\ e > feedPage.last
          BY <1>1, <1>3, <1>5, <2>3, <4>2
        <5>2. e \in Coming(st, events)
          BY <2>3, <5>1 DEF Brings, ForThePage, Coming
        <5>3. e \in ToSet(st.buffer) \cup ToSet(st.batch)
          BY <1>7, <3>2, <5>2 DEF Coming
        <5>4. last < e
          BY <5>1, <5>3 DEF Brings, InTurn, Earlier
        <5> QED
          BY <1>3, <1>5, <2>3, <5>4
      <4> QED
        BY <4>1, <4>2
    <3> QED
      BY <3>1, <3>2
  <2> QED
    BY <1>4, <1>11, <1>12, <1>13, <2>1, <2>2, <2>3 DEF PageHas
<1>15. Brings(st, none)'
  <2>1. ToSet(none) = {} /\ Increasing(none)
    BY RangeEmpty
  <2>2. /\ Coming(st, none) = ToSet(st.buffer) \cup ToSet(st.batch)
        /\ Coming(st, events) = ToSet(events) \cup Coming(st, none) /\ Coming(st, none) \subseteq Places
    BY <1>3, <2>1 DEF Coming
  <2>3. InTurn(st, none)
    BY <2>1 DEF Brings, InTurn, Earlier
  <2>4. \A e \in Coming(st, none) : e > last /\ Shows(e)
    <3>1. \A e \in Coming(st, none) : e > feedPage.last /\ Shows(e)
      BY <2>2 DEF Brings, ForThePage
    <3>2. last \in ToSet(events) => \A e \in Coming(st, none) : e > last
      BY <1>3, <1>5, <2>2 DEF Brings, InTurn, Earlier
    <3> QED
      BY <1>5, <3>1, <3>2
  <2>5. ASSUME NEW e \in Places, e > last, Shows(e), e \in Coming(st, events) PROVE e \in Coming(st, none)
    BY <1>3, <1>5, <2>2, <2>5
  <2>6. ForThePage(st, events) /\ (~st.shut => GoesOnWell(st, events))
    BY DEF Brings
  <2>7. \A e \in Places, x \in Coming(st, none) : e > last /\ Shows(e) /\ e <= x => e \in Coming(st, none)
    BY <1>1, <1>3, <1>5, <2>2, <2>5, <2>6 DEF ForThePage
  <2>8. ASSUME ~st.shut
        PROVE  /\ st.ctx = "live" /\ st.of = Of(feedPage.ns)
               /\ st.from <= last + 1 /\ (st.at >= last \/ st.from = last + 1)
               /\ \A e \in Coming(st, none) : e <= st.at
               /\ \A e \in Places : e > last /\ Shows(e) /\ e <= st.at => e \in Coming(st, none)
    <3>1. /\ st.ctx = "live" /\ st.of = Of(feedPage.ns) /\ \A e \in Coming(st, none) : e <= st.at
      BY <2>2, <2>6, <2>8 DEF GoesOnWell
    <3>2. st.from <= last + 1 /\ (st.at >= last \/ st.from = last + 1)
      <4>1. st.from <= feedPage.last + 1 /\ (st.at >= feedPage.last \/ st.from = feedPage.last + 1)
        BY <2>6, <2>8 DEF GoesOnWell
      <4>2. last \in ToSet(events) => last <= st.at
        BY <2>2, <2>6, <2>8 DEF GoesOnWell
      <4> QED
        BY <1>1, <1>2, <1>5, <4>1, <4>2
    <3>3. \A e \in Places : e > last /\ Shows(e) /\ e <= st.at => e \in Coming(st, none)
      BY <1>1, <1>3, <1>5, <2>5, <2>6, <2>8 DEF GoesOnWell
    <3> QED
      BY <3>1, <3>2, <3>3
  <2>9. Of(feedPage.ns)' = Of(feedPage.ns)
    BY DEF Of
  <2>10. InTurn(st, none)' /\ Coming(st, none)' = Coming(st, none)
    BY <2>3 DEF InTurn, Coming, Earlier
  <2>11. ForThePage(st, none)'
    BY <1>4, <1>13, <2>4, <2>7, <2>10 DEF ForThePage
  <2>12. ~st.shut => GoesOnWell(st, none)'
    BY <1>4, <1>13, <2>8, <2>9, <2>10 DEF GoesOnWell
  <2> QED
    BY <2>10, <2>11, <2>12 DEF Brings
<1> QED
  BY <1>14, <1>15

LEMMA TakeEventsBrings == ASSUME LogInv, FeedInv', NEW m \in out, TakeEvents(m) PROVE LogInv'
<1>1. /\ m.kind = "events" /\ m.asked \in Numbers /\ m.feed = m.asked /\ m.events \in Seq(Places)
      /\ UNCHANGED <<feedLog, streams, feedAsked>>
  BY MessageIs DEF LogInv, TakeEvents
<1>2. FeedTypeOK /\ FeedInv /\ feedAsked \in Numbers
  BY DEF LogInv, FeedInv, FeedTypeOK
<1>3. CASE Current(m) /\ m.feed = feedPage.feed
  <2>0. PICK n : n = [kind |-> "wait", asked |-> feedAsked, feed |-> m.feed]
    OBVIOUS
  <2>1. out' = (out \ {m}) \cup {n}
    BY <1>3, <2>0 DEF TakeEvents, Swap
  <2>2. n.kind = "wait"
    BY <2>0
  <2>3. PICK events \in Seq(Places) : events = m.events
    BY <1>1
  <2>4. PICK st \in StreamState : st = streams[feedAsked]
    BY <1>2 DEF FeedTypeOK
  <2>5. Brings(st, events)
    BY <1>1, <1>3, <2>3, <2>4 DEF LogInv, Brought, EventsOf, Current
  <2>6. PICK none : none = <<>>
    OBVIOUS
  <2>7. /\ feedPage'.ns = feedPage.ns /\ feedPage'.events = LastOf(feedPage.events \o events, FeedKept)
        /\ feedPage'.last = Max({feedPage.last} \cup {feedLog[e].index : e \in ToSet(events)})
    BY <1>2, <1>3, <2>3, TakeEventsIs
  <2>8. PageHas' /\ Brings(st, none)'
    BY <1>1, <2>5, <2>6, <2>7, TakesInTurn
  <2>9. ASSUME NEW o \in out', o.asked = feedAsked PROVE o = n
    BY <1>2, <1>3, <2>1, <2>9, OnlyOne DEF Current
  <2>10. Asks'
    BY <1>1, <2>2, <2>9 DEF Asks
  <2>11. EventsOf(n)' = none
    BY <2>2, <2>6 DEF EventsOf
  <2>12. Brought'
    <3>1. ASSUME NEW o \in out', o.asked = feedAsked, o.kind # "open"
          PROVE  Brings(st, EventsOf(o))'
      <4>1. EventsOf(o)' = none
        BY <2>9, <2>11, <3>1
      <4> QED
        BY <2>8, <4>1
    <3>2. st = streams'[feedAsked']
      BY <1>1, <2>4
    <3> QED
      BY <1>1, <3>1, <3>2 DEF Brought
  <2>13. Singly'
    BY <1>1 DEF LogInv, Singly, Places
  <2> QED
    BY <2>8, <2>10, <2>12, <2>13 DEF LogInv
<1>4. CASE ~(Current(m) /\ m.feed = feedPage.feed)
  <2>1. out' = out \ {m} /\ feedPage' = feedPage
    BY <1>4 DEF TakeEvents, Drop
  <2> QED
    BY <1>1, <2>1, QuietStep
<1> QED
  BY <1>3, <1>4

(* The page is entered again, or left: it has what it had, or nothing.      *)
LEMMA AskBrings ==
  ASSUME LogInv, FeedInv', UNCHANGED feedLog, feedAsked' = feedAsked + 1,
         \/ feedPage'.events = feedPage.events /\ feedPage'.last = feedPage.last /\ feedPage'.ns = feedPage.ns
         \/ feedPage'.events = <<>> /\ feedPage'.last = 0,
         \A m \in out' : m \in out \/ (m.kind = "open" /\ m.ns = feedPage'.ns /\ m.from = feedPage'.last + 1)
  PROVE  LogInv'
<1>1. \A m \in out : m.asked # feedAsked'
  <2>1. ASSUME NEW m \in out PROVE m.asked # feedAsked'
    <3>1. m.asked <= feedAsked /\ m.asked \in Numbers /\ feedAsked \in Numbers
      BY MessageIs DEF LogInv, FeedInv, FeedTypeOK, Labelled
    <3> QED
      BY <3>1 DEF Numbers
  <2> QED
    BY <2>1
<1>2. Asks'
  BY <1>1 DEF Asks
<1>3. Brought'
  BY <1>1 DEF Brought
<1>4. Singly'
  BY DEF LogInv, Singly, Places
<1>5. PageHas'
  <2>1. CASE feedPage'.events = feedPage.events /\ feedPage'.last = feedPage.last /\ feedPage'.ns = feedPage.ns
    BY <2>1, PageHasSame DEF LogInv
  <2>2. CASE feedPage'.events = <<>> /\ feedPage'.last = 0
    <3>1. PICK none : none = feedPage'.events /\ ToSet(none) = {} /\ Increasing(none)
      BY <2>2, RangeEmpty
    <3>2. PICK last \in Nat : last = feedPage'.last /\ last <= Len(feedLog') /\ \A e \in Places' : ~(e <= last)
      <4>1. Len(feedLog) \in Nat /\ Places' = Places
        BY DEF LogInv, FeedInv, FeedTypeOK, LogOK, Places
      <4> QED
        BY <2>2, <4>1 DEF Places
    <3> QED
      BY <3>1, <3>2 DEF PageHas
  <2> QED
    BY <2>1, <2>2
<1> QED
  BY <1>2, <1>3, <1>4, <1>5 DEF LogInv

LEMMA EnterBrings ==
  ASSUME LogInv, FeedInv', UNCHANGED feedLog, NEW ns \in Namespaces, EnterFeed(ns)
  PROVE  LogInv'
<1>1. FeedTypeOK
  BY DEF LogInv, FeedInv
<1>2. feedPage' = OpenPage(ns) /\ feedAsked' = feedAsked + 1
  BY DEF EnterFeed
<1>3. /\ feedPage'.ns = ns /\ OpenFrom(ns) = feedPage'.last + 1
      /\ \/ feedPage'.events = feedPage.events /\ feedPage'.last = feedPage.last /\ feedPage'.ns = feedPage.ns
         \/ feedPage'.events = <<>> /\ feedPage'.last = 0
  BY <1>1, <1>2, OpenPageIs DEF GoesOn
<1>4. \A m \in out' : m \in out \/ (m.kind = "open" /\ m.ns = feedPage'.ns /\ m.from = feedPage'.last + 1)
  BY <1>3 DEF EnterFeed
<1> QED
  BY <1>2, <1>3, <1>4, AskBrings

LEMMA PersonBrings == ASSUME LogInv, FeedInv', Person PROVE LogInv'
<1>1. here \in Namespaces /\ feedPage \in PageState
  BY DEF LogInv, FeedInv, FeedTypeOK
<1>2. CASE Again
  BY <1>1, <1>2, EnterBrings DEF Again
<1>3. CASE Leave
  <2>1. /\ UNCHANGED <<feedLog, out>> /\ feedAsked' = feedAsked + 1
        /\ feedPage'.events = feedPage.events /\ feedPage'.last = feedPage.last /\ feedPage'.ns = feedPage.ns
    BY <1>1, <1>3 DEF Leave, PageState
  <2> QED
    BY <2>1, AskBrings
<1>4. CASE BackToFeed
  BY <1>1, <1>4, EnterBrings DEF BackToFeed
<1>5. ASSUME NEW ns \in Namespaces, SwitchNamespace(ns) PROVE LogInv'
  <2>1. CASE top
    BY <1>5, <2>1, EnterBrings DEF SwitchNamespace
  <2>2. CASE ~top
    <3>1. UNCHANGED <<feedLog, streams, feedPage, feedAsked, out>>
      BY <1>5, <2>2 DEF SwitchNamespace
    <3> QED
      BY <3>1, QuietStep
  <2> QED
    BY <2>1, <2>2
<1> QED
  BY <1>2, <1>3, <1>4, <1>5 DEF Person

(* The cluster writes one event more: it is behind all the page has.        *)
LEMMA GrowsBrings ==
  ASSUME LogInv, LogOK', Len(feedLog') = Len(feedLog) + 1, \A i \in Places : feedLog'[i] = feedLog[i], UNCHANGED feedPage,
         NEW st \in StreamState, NEW events \in Seq(Places), Brings(st, events)
  PROVE  Brings(st, events)'
<1>1. /\ Len(feedLog) \in Nat /\ feedPage.last \in Nat /\ st.at \in 0 .. Len(feedLog)
      /\ st.buffer \in Seq(Places) /\ st.batch \in Seq(Places)
  BY DEF LogInv, FeedInv, FeedTypeOK, LogOK, PageState, StreamState
<1>2. Places \subseteq Places' /\ \A e \in Places' : e <= Len(feedLog) => e \in Places
  BY <1>1 DEF Places
<1>3. PICK coming \in SUBSET Places : coming = Coming(st, events)
  <2>1. ToSet(events) \subseteq Places /\ ToSet(st.buffer) \subseteq Places /\ ToSet(st.batch) \subseteq Places
    BY <1>1, RangeIs
  <2> QED
    BY <2>1 DEF Coming
<1>4. \A e \in Places : Shows(e)' <=> Shows(e)
  BY DEF Shows, Of
<1>5. InTurn(st, events)' /\ Coming(st, events)' = coming
  BY <1>3 DEF Brings, InTurn, Coming, Earlier
<1>6. ForThePage(st, events)'
  <2>1. \A e \in coming : e > feedPage.last /\ Shows(e)
    BY <1>3 DEF Brings, ForThePage
  <2>2. \A e \in Places, x \in coming : e > feedPage.last /\ Shows(e) /\ e <= x => e \in coming
    BY <1>3 DEF Brings, ForThePage
  <2>3. \A e \in Places', x \in coming : e <= x => e \in Places
    <3>1. \A x \in coming : x \in Int /\ x <= Len(feedLog)
      BY DEF Places
    <3>2. \A e \in Places' : e \in Int
      BY DEF Places
    <3> QED
      BY <1>1, <1>2, <3>1, <3>2
  <2> QED
    BY <1>4, <1>5, <2>1, <2>2, <2>3 DEF ForThePage
<1>7. ASSUME ~st.shut PROVE GoesOnWell(st, events)'
  <2>1. /\ st.ctx = "live" /\ st.of = Of(feedPage.ns)
        /\ st.from <= feedPage.last + 1 /\ (st.at >= feedPage.last \/ st.from = feedPage.last + 1)
        /\ \A e \in coming : e <= st.at
        /\ \A e \in Places : e > feedPage.last /\ Shows(e) /\ e <= st.at => e \in coming
    BY <1>3, <1>7 DEF Brings, GoesOnWell
  <2>2. \A e \in Places' : e <= st.at => e \in Places
    <3>1. \A e \in Places' : e \in Int
      BY DEF Places
    <3> QED
      BY <1>1, <1>2, <3>1
  <2>3. Of(feedPage.ns)' = Of(feedPage.ns)
    BY DEF Of
  <2> QED
    BY <1>4, <1>5, <2>1, <2>2, <2>3 DEF GoesOnWell
<1> QED
  BY <1>5, <1>6, <1>7 DEF Brings

LEMMA HappensBrings ==
  ASSUME LogInv, FeedInv', Singles, NEW batch \in Batches, Happens(batch), UNCHANGED pageVars
  PROVE  LogInv'
<1>1. LogOK /\ LogOK' /\ Len(feedLog) \in Nat /\ feedPage.last \in Nat /\ Len(batch) = 1
  BY DEF LogInv, FeedInv, FeedTypeOK, LogOK, PageState, Singles
<1>2. /\ Len(feedLog') = Len(feedLog) + 1 /\ \A i \in Places : feedLog'[i] = feedLog[i]
      /\ feedLog'[Len(feedLog) + 1] = [index |-> NewestEvent + 1, what |-> batch[1]]
  BY <1>1, HappensIs
<1>3. NewestEvent = Len(feedLog)
  <2>1. CASE feedLog = <<>>
    BY <2>1 DEF NewestEvent
  <2>2. CASE feedLog # <<>>
    <3>1. Len(feedLog) # 0
      BY <1>1, <2>2 DEF LogOK
    <3>2. Len(feedLog) \in Places
      BY <1>1, <3>1 DEF Places
    <3> QED
      BY <2>2, <3>2 DEF NewestEvent, LogInv, Singly
  <2> QED
    BY <2>1, <2>2
<1>4. \A i \in Places' : i \in Places \/ i = Len(feedLog) + 1
  BY <1>1, <1>2 DEF Places
<1>5. Singly'
  BY <1>2, <1>3, <1>4 DEF LogInv, Singly
<1>6. UNCHANGED <<streams, feedPage, feedAsked, out>>
  BY DEF Happens, pageVars
<1>7. PageHas'
  <2>1. feedPage.last <= Len(feedLog) /\ feedPage.last <= Len(feedLog')
    BY <1>1, <1>2 DEF LogInv, PageHas
  <2>2. \A e \in Places : Shows(e)' <=> Shows(e)
    BY <1>2, <1>6 DEF Shows, Of
  <2>3. ToSet(feedPage.events) \subseteq Places
    BY RangeIs DEF LogInv, FeedInv, FeedTypeOK, PageState
  <2>4. \A e \in Places' : e <= feedPage.last => e \in Places
    BY <1>1, <1>4, <2>1
  <2>5. Increasing(feedPage.events)' /\ ToSet(feedPage.events)' = ToSet(feedPage.events)
    BY <1>6 DEF LogInv, PageHas, Increasing
  <2>6. \A e \in ToSet(feedPage.events) : e <= feedPage.last /\ Shows(e)'
    BY <2>2, <2>3 DEF LogInv, PageHas
  <2>7. \A e \in Places' : e <= feedPage.last /\ Shows(e)' =>
          \/ e \in ToSet(feedPage.events)
          \/ feedPage.events # <<>> /\ Len(feedPage.events) = FeedKept /\ e < feedPage.events[1]
    BY <2>2, <2>4 DEF LogInv, PageHas
  <2> QED
    BY <1>6, <2>1, <2>5, <2>6, <2>7 DEF PageHas
<1>8. Asks'
  BY <1>6 DEF LogInv, Asks
<1>9. Brought'
  <2>1. ASSUME NEW m \in out, m.asked = feedAsked, m.kind # "open"
        PROVE  Brings(streams[feedAsked], EventsOf(m))'
    <3>1. PICK st \in StreamState, events \in Seq(Places) :
            st = streams[feedAsked] /\ events = EventsOf(m) /\ EventsOf(m)' = EventsOf(m)
      BY BroughtTypes DEF LogInv
    <3>2. Brings(st, events)
      BY <2>1, <3>1 DEF LogInv, Brought
    <3>3. Brings(st, events)'
      BY <1>1, <1>2, <1>6, <3>2, GrowsBrings
    <3> QED
      BY <1>6, <3>1, <3>3
  <2> QED
    BY <1>6, <2>1 DEF Brought
<1> QED
  BY <1>5, <1>7, <1>8, <1>9 DEF LogInv

LEMMA LogFirst == FeedInit => LogInv
<1> SUFFICES ASSUME FeedInit PROVE LogInv
  OBVIOUS
<1>1. PICK none : none = <<>> /\ ToSet(none) = {} /\ Increasing(none)
  BY RangeEmpty
<1>2. PICK n \in Nat : n = 0
  OBVIOUS
<1>3. Len(feedLog) = n /\ Places = {} /\ feedPage.last = n /\ feedPage.events = none /\ feedPage.ns = here
  BY <1>1, <1>2 DEF FeedInit, StreamInit, Places
<1>4. Singly /\ PageHas
  BY <1>1, <1>2, <1>3 DEF Singly, PageHas
<1>5. Asks /\ Brought
  BY <1>2, <1>3 DEF FeedInit, Asks, Brought
<1> QED
  BY <1>4, <1>5, FeedFirst DEF LogInv

LEMMA LogStep == Singles /\ LogInv /\ [FeedNext]_feedVars => LogInv'
<1> SUFFICES ASSUME Singles, LogInv, [FeedNext]_feedVars PROVE LogInv'
  OBVIOUS
<1>1. FeedInv'
  BY FeedStep DEF LogInv
<1>2. CASE UNCHANGED feedVars
  <2>1. UNCHANGED <<feedLog, streams, feedPage, feedAsked, out>>
    BY <1>2 DEF feedVars
  <2> QED
    BY <1>1, <2>1, QuietStep
<1>3. CASE \E batch \in Batches : Happens(batch) /\ UNCHANGED pageVars
  BY <1>1, <1>3, HappensBrings
<1>4. CASE \E s \in 1 .. MaxFeedStreams : (Pump(s) \/ Ends(s)) /\ UNCHANGED pageVars
  BY <1>1, <1>4, PumpBrings DEF Numbers
<1>5. CASE \E m \in out : TakesMessageOf(m) \/ OpenFails(m)
  BY <1>1, <1>5, OpensBrings, OpenFailsBrings, TakeOpenedBrings, NextEventsBrings, NextEndBrings,
     TakeEventsBrings, TakeEndedBrings DEF TakesMessageOf
<1>6. CASE Person
  BY <1>1, <1>6, PersonBrings
<1> QED
  BY <1>2, <1>3, <1>4, <1>5, <1>6 DEF FeedNext

(* Where every event has an index of its own, the page is the log of its    *)
(* namespace from the oldest event it keeps to the newest it has: in order, *)
(* nothing twice and nothing left out, however often it is left, opened     *)
(* again, moved and its stream ended (feedPage.open, feedPage.take). Of     *)
(* several events of one index a page may miss some: that is a finding.     *)
THEOREM PageIsTheLog ==
  ASSUME Singles
  PROVE  FeedInit /\ [][FeedNext]_feedVars => []FeedIsTheLog
<1>1. LogInv => FeedIsTheLog
  <2> SUFFICES ASSUME LogInv PROVE FeedIsTheLog
    OBVIOUS
  <2>1. DOMAIN feedLog = Places
    BY DEF LogInv, FeedInv, FeedTypeOK, LogOK, Places
  <2>2. ShownInOrder
    BY DEF LogInv, PageHas, Increasing, Shows, ShownInOrder
  <2>3. \A e \in Places : feedLog[e].index = e
    BY DEF LogInv, Singly
  <2>4. NothingSkipped
    BY <2>1, <2>3 DEF LogInv, PageHas, Shows, NothingSkipped
  <2> QED
    BY <2>2, <2>4 DEF FeedIsTheLog
<1>2. LogInv /\ [FeedNext]_feedVars => LogInv'
  BY LogStep
<1> QED
  BY <1>1, <1>2, LogFirst, PTL
=============================================================================
