----------------------------- MODULE AlarmProofs -----------------------------
(***************************************************************************)
(* The rows of the alarm screen, for every collection and every order of    *)
(* polls, answers, deletions, reports and edits.                            *)
(***************************************************************************)
EXTENDS Alarm, BikeDocsProofs

\* The rows are well-formed, agree with each other and with the screen because what
\* comes from the database, now or in an answer, gives every owner's bicycle a nickname.
Inv == /\ TypeOK
       /\ Sound(docs)
       /\ results \in Seq(Collections)
       /\ \A i \in DOMAIN results : Nicknamed(results[i])
       /\ RowsMatch
       /\ ShownIsPrefix

\* What Inv says of the answers, and of the rows.
Queue == /\ asked \in 0..MaxQueries
         /\ results \in Seq(Collections)
         /\ \A i \in DOMAIN results : Nicknamed(results[i])
         /\ asked + Len(results) <= MaxQueries

Rows == /\ arr \in Seq(Bikes)
        /\ alarmDatas \in Seq(Nicks)
        /\ shown \in Seq(Nicks)
        /\ crashed \in BOOLEAN
        /\ listed \subseteq Bikes \X (Nicks \cup {NoNick})
        /\ RowsMatch
        /\ ShownIsPrefix

Store == /\ Sound(docs)
         /\ board \in [Bikes -> States]
         /\ reports \in 0..MaxReports
         /\ edits \in 0..MaxEdits

LEMMA InvParts == Inv <=> Queue /\ Rows /\ Store
<1>1. ASSUME results \in Seq(Collections) PROVE \A i \in DOMAIN results : IsCollection(results[i])
  <2>1. \A i \in DOMAIN results : results[i] \in Collections
    BY <1>1
  <2> QED BY <2>1, CollectionsDef
<1>2. Inv => Queue /\ Rows /\ Store
  BY DEF Inv, TypeOK, Queue, Rows, Store
<1>3. Queue /\ Rows /\ Store => Inv
  BY <1>1 DEF Inv, TypeOK, Queue, Rows, Store, Sound
<1> QED BY <1>2, <1>3

\* Steps that leave a part alone keep it.
LEMMA PartsStay ==
    /\ Queue /\ UNCHANGED <<asked, results>> => Queue'
    /\ Rows /\ UNCHANGED rows => Rows'
    /\ Store /\ UNCHANGED <<docs, board, reports, edits>> => Store'
BY DEF Queue, Rows, Store, rows, RowsMatch, ShownIsPrefix
-----------------------------------------------------------------------------
\* The thefts that a callback adds: their texts are new, and each comes once.
LEMMA NewThefts ==
    ASSUME NEW c, Sound(c), alarmDatas \in Seq(Nicks)
    PROVE  LET new   == Ascending(Unlisted(c))
               texts == [i \in DOMAIN new |-> c[new[i]].nick]
           IN  /\ new \in Seq(Bikes) /\ texts \in Seq(Nicks) /\ Len(texts) = Len(new)
               /\ DOMAIN texts = DOMAIN new
               /\ \A i \in DOMAIN new : new[i] \in Thefts(c) /\ texts[i] = c[new[i]].nick
               /\ \A i \in DOMAIN new, j \in DOMAIN alarmDatas : texts[i] # alarmDatas[j]
               /\ \A i, j \in DOMAIN new : texts[i] = texts[j] => i = j
<1> DEFINE U == Unlisted(c)
           new == Ascending(U)
           n == Cardinality(U)
           texts == [i \in DOMAIN new |-> c[new[i]].nick]
<1>1. /\ U \subseteq Thefts(c) /\ Thefts(c) \subseteq DOMAIN c /\ DOMAIN c \subseteq Bikes
      /\ \A d \in Thefts(c) : c[d].nick \in Nicks
  <2>1. User # NoUid
    BY UserAssumption, FieldAssumption
  <2> QED BY <2>1 DEF Unlisted, Thefts, Reached, Sound, IsCollection, Nicknamed, Fields
<1>2. \A d \in U : \A i \in DOMAIN alarmDatas : alarmDatas[i] # c[d].nick
  BY DEF Unlisted
<1>3. \A d, e \in U : e < d => c[e].nick # c[d].nick
  BY <1>1 DEF Unlisted
<1> HIDE DEF U
<1>4. IsFiniteSet(U) /\ U \in SUBSET Int
  <2>1. U \in SUBSET DOMAIN c /\ IsCollection(c)
    BY <1>1 DEF Sound
  <2> QED BY <2>1, Selection
<1>5. /\ new \in [1..n -> U] /\ n \in Nat
      /\ \A i, j \in 1..n : i < j => new[i] < new[j]
  BY <1>4, AscendingSeq
<1> HIDE DEF new, n
<1>6. new \in Seq(Bikes) /\ DOMAIN new = 1..n /\ Len(new) = n /\ \A i \in DOMAIN new : new[i] \in U
  BY <1>1, <1>5
<1>7. \A i \in DOMAIN new : c[new[i]].nick \in Nicks
  BY <1>1, <1>6
<1>8. texts \in Seq(Nicks) /\ Len(texts) = Len(new) /\ DOMAIN texts = DOMAIN new
  BY <1>5, <1>6, <1>7
<1>9. ASSUME NEW i \in DOMAIN new, NEW j \in DOMAIN new, texts[i] = texts[j] PROVE i = j
  <2>1. i \in 1..n /\ j \in 1..n /\ n \in Nat
    BY <1>5, <1>6
  <2>2. c[new[i]].nick = c[new[j]].nick
    BY <1>9
  <2>3. ~(new[i] < new[j]) /\ ~(new[j] < new[i])
    BY <1>3, <1>6, <2>2
  <2>4. ~(i < j) /\ ~(j < i)
    BY <1>5, <2>1, <2>3
  <2> QED BY <2>1, <2>4
<1>10. \A i \in DOMAIN new, j \in DOMAIN alarmDatas : texts[i] # alarmDatas[j]
  BY <1>2, <1>6
<1>11. \A i \in DOMAIN new : new[i] \in Thefts(c) /\ texts[i] = c[new[i]].nick
  BY <1>1, <1>6
<1> HIDE DEF texts
<1> QED BY <1>6, <1>8, <1>9, <1>10, <1>11 DEF U, new, texts

\* The callback takes its answer from the head of the queue.
LEMMA DeliverQueue == Queue /\ Deliver => Queue'
<1> SUFFICES ASSUME Queue, Deliver PROVE Queue'
  OBVIOUS
<1>1. results \in Seq(Collections) /\ results # <<>> /\ results' = Tail(results) /\ asked' = asked
  BY DEF Queue, Deliver
<1>2. /\ results' \in Seq(Collections) /\ Len(results') = Len(results) - 1
      /\ \A i \in 1..Len(results') : results'[i] = results[i + 1]
  BY <1>1, HeadTailProperties
<1>3. \A i \in DOMAIN results' : i + 1 \in DOMAIN results /\ results'[i] = results[i + 1]
  BY <1>1, <1>2
<1>4. Len(results) \in Nat /\ MaxQueries \in Nat /\ asked \in Nat
  BY <1>1, BoundAssumption DEF Queue
<1> QED BY <1>1, <1>2, <1>3, <1>4 DEF Queue

\* Appending the new thefts keeps the two arrays in step and what is on the screen in
\* front.
LEMMA DeliverRows == Queue /\ Rows /\ Deliver => Rows'
<1> SUFFICES ASSUME Queue, Rows, Deliver PROVE Rows'
  OBVIOUS
<1> DEFINE c == Head(results)
           new == Ascending(Unlisted(c))
           texts == [i \in DOMAIN new |-> c[new[i]].nick]
<1>t. /\ arr \in Seq(Bikes) /\ alarmDatas \in Seq(Nicks) /\ shown \in Seq(Nicks)
      /\ Len(arr) = Len(alarmDatas)
      /\ \A i \in DOMAIN arr : <<arr[i], alarmDatas[i]>> \in listed
      /\ \A i, j \in DOMAIN alarmDatas : alarmDatas[i] = alarmDatas[j] => i = j
      /\ IsPrefix(shown, alarmDatas)
  BY DEF Rows, RowsMatch, ShownIsPrefix, IsInjective, Deliver
<1>1. Sound(c)
  <2>1. results \in Seq(Collections) /\ results # <<>>
    BY DEF Queue, Deliver
  <2>2. c = results[1] /\ 1 \in DOMAIN results /\ c \in Collections
    BY <2>1
  <2> HIDE DEF c
  <2>3. Nicknamed(c)
    BY <2>2 DEF Queue
  <2> QED BY <2>2, <2>3, CollectionsDef DEF Sound
<1>2. /\ arr' = arr \o new /\ alarmDatas' = alarmDatas \o texts
      /\ listed' = listed \cup {<<d, c[d].nick>> : d \in Thefts(c)}
      /\ UNCHANGED <<shown, crashed>>
  BY DEF Deliver, Appended
<1> HIDE DEF c
<1>3. /\ new \in Seq(Bikes) /\ texts \in Seq(Nicks) /\ Len(texts) = Len(new)
      /\ DOMAIN texts = DOMAIN new
      /\ \A i \in DOMAIN new : new[i] \in Thefts(c) /\ texts[i] = c[new[i]].nick
      /\ \A i \in DOMAIN new, j \in DOMAIN alarmDatas : texts[i] # alarmDatas[j]
      /\ \A i, j \in DOMAIN new : texts[i] = texts[j] => i = j
  BY <1>1, <1>t, NewThefts
<1>4. \A d \in Thefts(c) : <<d, c[d].nick>> \in Bikes \X (Nicks \cup {NoNick})
  BY <1>1 DEF Thefts, Reached, Sound, IsCollection, Fields
<1> HIDE DEF new, texts
<1> DEFINE m == Len(alarmDatas)
           k == Len(new)
<1>5. m \in Nat /\ k \in Nat /\ Len(arr) = m /\ Len(texts) = k
      /\ DOMAIN arr = 1..m /\ DOMAIN alarmDatas = 1..m /\ DOMAIN new = 1..k
  BY <1>t, <1>3
<1>6. /\ arr' \in Seq(Bikes) /\ Len(arr') = m + k
      /\ \A i \in 1..(m + k) : arr'[i] = IF i <= m THEN arr[i] ELSE new[i - m]
  <2>1. /\ arr \o new \in Seq(Bikes) /\ Len(arr \o new) = Len(arr) + Len(new)
        /\ \A i \in 1..(Len(arr) + Len(new)) :
              (arr \o new)[i] = IF i <= Len(arr) THEN arr[i] ELSE new[i - Len(arr)]
    <3>1. arr \in Seq(Bikes) /\ new \in Seq(Bikes)
      BY <1>t, <1>3
    <3> QED BY <3>1, ConcatProperties
  <2> QED BY <1>2, <1>5, <2>1
<1>7. /\ alarmDatas' \in Seq(Nicks) /\ Len(alarmDatas') = m + k
      /\ \A i \in 1..(m + k) : alarmDatas'[i] = IF i <= m THEN alarmDatas[i] ELSE texts[i - m]
  BY <1>t, <1>2, <1>3, <1>5, ConcatProperties
<1> HIDE DEF m, k
<1>8. DOMAIN arr' = 1..(m + k) /\ DOMAIN alarmDatas' = 1..(m + k)
  BY <1>6, <1>7
<1>9. RowsMatch'
  <2>1. ASSUME NEW i \in 1..(m + k) PROVE <<arr'[i], alarmDatas'[i]>> \in listed'
    <3>1. CASE i <= m
      <4>1. i \in DOMAIN arr /\ arr'[i] = arr[i] /\ alarmDatas'[i] = alarmDatas[i]
        BY <1>5, <1>6, <1>7, <3>1
      <4> QED BY <1>t, <1>2, <4>1
    <3>2. CASE ~(i <= m)
      <4>1. i - m \in DOMAIN new /\ arr'[i] = new[i - m] /\ alarmDatas'[i] = texts[i - m]
        BY <1>5, <1>6, <1>7, <3>2
      <4> QED BY <1>2, <1>3, <4>1
    <3> QED BY <3>1, <3>2
  <2>2. ASSUME NEW i \in 1..(m + k), NEW j \in 1..(m + k), alarmDatas'[i] = alarmDatas'[j]
        PROVE  i = j
    <3>1. CASE i <= m /\ j <= m
      <4>1. i \in DOMAIN alarmDatas /\ j \in DOMAIN alarmDatas
        BY <1>5, <3>1
      <4>2. alarmDatas'[i] = alarmDatas[i] /\ alarmDatas'[j] = alarmDatas[j]
        BY <1>7, <3>1
      <4> QED BY <1>t, <2>2, <4>1, <4>2
    <3>2. CASE i <= m /\ ~(j <= m)
      <4>1. i \in DOMAIN alarmDatas /\ j - m \in DOMAIN new
        BY <1>5, <3>2
      <4> QED BY <1>3, <1>7, <2>2, <3>2, <4>1
    <3>3. CASE ~(i <= m) /\ j <= m
      <4>1. j \in DOMAIN alarmDatas /\ i - m \in DOMAIN new
        BY <1>5, <3>3
      <4> QED BY <1>3, <1>7, <2>2, <3>3, <4>1
    <3>4. CASE ~(i <= m) /\ ~(j <= m)
      <4>1. i - m \in DOMAIN new /\ j - m \in DOMAIN new
        BY <1>5, <3>4
      <4>2. i - m = j - m
        BY <1>3, <1>7, <2>2, <3>4, <4>1
      <4> QED BY <1>5, <4>2
    <3> QED BY <3>1, <3>2, <3>3, <3>4
  <2> QED BY <1>6, <1>7, <1>8, <2>1, <2>2 DEF RowsMatch, IsInjective
<1>10. ShownIsPrefix'
  <2>1. Len(shown) <= m /\ \A i \in 1..Len(shown) : shown[i] = alarmDatas[i]
    BY <1>t, PrefixSeq DEF m
  <2>2. Len(shown) \in Nat /\ shown' = shown
    BY <1>t, <1>2
  <2>3. Len(shown) <= Len(alarmDatas') /\ \A i \in 1..Len(shown) : shown[i] = alarmDatas'[i]
    BY <1>5, <1>7, <2>1, <2>2
  <2>4. IsPrefix(shown, alarmDatas')
    BY <1>t, <1>7, <2>3, PrefixSeq
  <2> QED BY <2>2, <2>4 DEF ShownIsPrefix
<1>11. listed' \subseteq Bikes \X (Nicks \cup {NoNick})
  BY <1>2, <1>4 DEF Rows
<1> QED BY <1>2, <1>6, <1>7, <1>9, <1>10, <1>11 DEF Rows

\* Deleting a row takes the same place out of both arrays; the screen follows, or UIKit
\* stops the app.
LEMMA DeleteRows ==
    ASSUME Rows, Store, Delete
    PROVE  Rows' /\ Store'
<1>t. /\ arr \in Seq(Bikes) /\ alarmDatas \in Seq(Nicks) /\ shown \in Seq(Nicks)
      /\ Len(arr) = Len(alarmDatas)
      /\ \A i \in DOMAIN arr : <<arr[i], alarmDatas[i]>> \in listed
      /\ \A i, j \in DOMAIN alarmDatas : alarmDatas[i] = alarmDatas[j] => i = j
      /\ IsPrefix(shown, alarmDatas)
  BY DEF Rows, RowsMatch, ShownIsPrefix, IsInjective, Delete
<1>1. PICK i \in DOMAIN shown :
         /\ arr' = RemoveAt(arr, i)
         /\ alarmDatas' = RemoveAt(alarmDatas, i)
         /\ Clear(i)
  BY DEF Delete, Without
<1>2. UNCHANGED <<board, listed, reports, edits>>
  BY DEF Delete
<1>3. i \in DOMAIN alarmDatas /\ i \in DOMAIN arr
  <2>1. Len(shown) <= Len(alarmDatas)
    BY <1>t, PrefixSeq
  <2> QED BY <1>t, <2>1
<1>4. /\ arr' \in Seq(Bikes) /\ Len(arr') = Len(arr) - 1
      /\ \A j \in DOMAIN arr' : arr'[j] = IF j < i THEN arr[j] ELSE arr[j + 1]
  BY <1>t, <1>1, <1>3, RemoveAtSeq
<1>5. /\ alarmDatas' \in Seq(Nicks) /\ Len(alarmDatas') = Len(alarmDatas) - 1
      /\ \A j \in DOMAIN alarmDatas' :
            alarmDatas'[j] = IF j < i THEN alarmDatas[j] ELSE alarmDatas[j + 1]
  BY <1>t, <1>1, <1>3, RemoveAtSeq
<1> DEFINE from(j) == IF j < i THEN j ELSE j + 1
<1>6. /\ DOMAIN arr' = DOMAIN alarmDatas'
      /\ \A j \in DOMAIN arr' :
            /\ from(j) \in DOMAIN arr /\ from(j) \in DOMAIN alarmDatas
            /\ arr'[j] = arr[from(j)] /\ alarmDatas'[j] = alarmDatas[from(j)]
  <2>1. DOMAIN arr' = 1..(Len(arr) - 1) /\ DOMAIN alarmDatas' = 1..(Len(arr) - 1)
    BY <1>t, <1>4, <1>5
  <2>2. DOMAIN arr = 1..Len(arr) /\ DOMAIN alarmDatas = 1..Len(arr) /\ i \in 1..Len(arr)
        /\ Len(arr) \in Nat
    BY <1>t, <1>3
  <2>3. \A j \in 1..(Len(arr) - 1) : from(j) \in 1..Len(arr)
    BY <2>2
  <2> QED BY <1>4, <1>5, <2>1, <2>2, <2>3
<1>7. \A j, k \in DOMAIN arr' : from(j) = from(k) => j = k
  <2>1. DOMAIN arr' \subseteq Int /\ i \in Int
    BY <1>t, <1>3, <1>4
  <2> QED BY <2>1
<1> HIDE DEF from
<1>8. RowsMatch'
  BY <1>t, <1>2, <1>4, <1>5, <1>6, <1>7 DEF RowsMatch, IsInjective
<1>9. CASE Len(shown) = Len(alarmDatas)
  <2>1. shown' = alarmDatas' /\ docs' = Updated(docs, arr[i], DRIVE) /\ UNCHANGED crashed
    BY <1>1, <1>9 DEF Clear
  <2>2. IsPrefix(shown', alarmDatas')
    BY <1>5, <2>1, PrefixSeq
  <2>3. Sound(docs')
    <3>1. arr[i] \in Bikes /\ DRIVE \in States
      BY <1>t, <1>3 DEF DRIVE, States
    <3> QED BY <2>1, <3>1, WritesStaySound DEF Store
  <2> QED BY <1>2, <1>4, <1>5, <1>8, <2>1, <2>2, <2>3 DEF Rows, Store, ShownIsPrefix
<1>10. CASE Len(shown) # Len(alarmDatas)
  <2>1. crashed' = TRUE /\ UNCHANGED <<shown, docs>>
    BY <1>1, <1>10 DEF Clear
  <2> QED BY <1>2, <1>4, <1>5, <1>8, <2>1 DEF Rows, Store, ShownIsPrefix
<1> QED BY <1>9, <1>10
-----------------------------------------------------------------------------
\* The boards and the phones leave a collection.
LEMMA StoreStep ==
    ASSUME Store, Report \/ Edit
    PROVE  Store'
<1>b. MaxReports \in Nat /\ MaxEdits \in Nat
  BY BoundAssumption
<1>1. CASE Report
  <2>1. PICK d \in Bikes, s \in States :
           board' = [board EXCEPT ![d] = s] /\ docs' = Patched(docs, d, s)
    BY <1>1 DEF Report
  <2>2. Sound(docs')
    BY <2>1, WritesStaySound DEF Store
  <2>3. reports' \in 0..MaxReports /\ edits' = edits
    BY <1>b, <1>1 DEF Report, Store
  <2> QED BY <2>1, <2>2, <2>3 DEF Store
<1>2. CASE Edit
  <2>1. \/ \E d \in Bikes, nick \in Nicks, uid \in Users : docs' = Registered(docs, d, nick, uid)
        \/ \E gone : docs' = Removed(docs, gone)
    BY <1>2 DEF Edit, Register, RemoveNick
  <2>2. Sound(docs')
    BY <2>1, WritesStaySound, RemovalStaysSound DEF Store
  <2>3. edits' \in 0..MaxEdits /\ UNCHANGED <<board, reports>>
    BY <1>b, <1>2 DEF Edit, Register, RemoveNick, Store
  <2> QED BY <2>2, <2>3 DEF Store
<1> QED BY <1>1, <1>2

\* Polls, answers and failures keep within the bound, and an answer is a collection.
LEMMA QueueStep ==
    ASSUME Queue, Store, Poll \/ Answer \/ Fail
    PROVE  Queue'
<1>1. /\ results \in Seq(Collections) /\ Len(results) \in Nat
      /\ MaxQueries \in Nat /\ asked \in Nat
  BY BoundAssumption DEF Queue
<1>2. CASE Poll \/ Fail
  <2>1. results' = results /\ asked' \in 0..MaxQueries /\ asked' + Len(results) <= MaxQueries
    BY <1>1, <1>2 DEF Poll, Fail, Queue
  <2> QED BY <2>1 DEF Queue
<1>3. CASE Answer
  <2>1. docs \in Collections /\ Nicknamed(docs)
    BY CollectionsDef DEF Store, Sound
  <2>2. results' = Append(results, docs) /\ asked' = asked - 1 /\ asked > 0
    BY <1>3 DEF Answer
  <2>3. results' \in Seq(Collections) /\ Len(results') = Len(results) + 1
    BY <1>1, <2>1, <2>2
  <2>4. \A i \in DOMAIN results' :
           results'[i] = docs \/ (i \in DOMAIN results /\ results'[i] = results[i])
    BY <1>1, <2>1, <2>2
  <2>5. \A i \in DOMAIN results' : Nicknamed(results'[i])
    BY <2>1, <2>4 DEF Queue
  <2>6. asked' \in 0..MaxQueries /\ asked' + Len(results') <= MaxQueries
    BY <1>1, <2>2, <2>3 DEF Queue
  <2> QED BY <2>3, <2>5, <2>6 DEF Queue
<1> QED BY <1>2, <1>3

LEMMA EmptyPrefix == IsPrefix(<<>>, <<>>)
<1> DEFINE none == <<>>
<1>1. none \in Seq(Nicks)
  OBVIOUS
<1> HIDE DEF none
<1>2. Len(none) <= Len(none) /\ \A i \in 1..Len(none) : none[i] = none[i]
  BY <1>1
<1>3. IsPrefix(none, none)
  BY <1>1, <1>2, PrefixSeq
<1> QED BY <1>3 DEF none

\* A layout shows the list as it is, a new start shows nothing.
LEMMA RedrawStep ==
    ASSUME Queue, Rows, Reset \/ Relaunch
    PROVE  Queue' /\ Rows'
<1>1. CASE Reset
  <2>1. shown' = alarmDatas /\ UNCHANGED <<asked, results, arr, alarmDatas, crashed, listed>>
    BY <1>1 DEF Reset
  <2>2. IsPrefix(shown', alarmDatas')
    BY <2>1, PrefixSeq DEF Rows
  <2> QED BY <2>1, <2>2 DEF Queue, Rows, RowsMatch, ShownIsPrefix
<1>2. CASE Relaunch
  <2>1. /\ arr' = <<>> /\ alarmDatas' = <<>> /\ shown' = <<>> /\ listed' = {} /\ crashed' = FALSE
        /\ results' = <<>> /\ asked' = 0
    BY <1>2 DEF Relaunch
  <2>2. \A S : <<>> \in Seq(S)
    OBVIOUS
  <2>3. IsPrefix(shown', alarmDatas')
    BY <2>1, EmptyPrefix
  <2>4. Queue'
    <3>1. /\ asked' \in 0..MaxQueries /\ asked' + Len(results') <= MaxQueries
          /\ \A i \in DOMAIN results' : Nicknamed(results'[i])
      BY <2>1, BoundAssumption
    <3> QED BY <2>1, <2>2, <3>1 DEF Queue
  <2>5. RowsMatch'
    BY <2>1 DEF RowsMatch, IsInjective
  <2> QED BY <2>1, <2>2, <2>3, <2>4, <2>5 DEF Rows, ShownIsPrefix
<1> QED BY <1>1, <1>2

\* Inv is inductive.
LEMMA AlarmStep == Inv /\ [Next]_vars => Inv'
<1> SUFFICES ASSUME Queue, Rows, Store, [Next]_vars PROVE Queue' /\ Rows' /\ Store'
  BY InvParts, PTL
<1> USE PartsStay
<1>1. CASE Poll \/ Answer \/ Fail
  BY <1>1, QueueStep DEF Poll, Answer, Fail, rows
<1>2. CASE Deliver
  BY <1>2, DeliverQueue, DeliverRows DEF Deliver
<1>3. CASE Reset \/ Relaunch
  BY <1>3, RedrawStep DEF Reset, Relaunch
<1>4. CASE Delete
  BY <1>4, DeleteRows DEF Delete
<1>5. CASE Report \/ Edit
  BY <1>5, StoreStep DEF Report, Edit, Register, RemoveNick, rows
<1>6. CASE UNCHANGED vars
  BY <1>6 DEF vars, rows
<1> QED BY <1>1, <1>2, <1>3, <1>4, <1>5, <1>6 DEF Next, Screen, World

LEMMA AlarmInit == Init => Inv
<1> SUFFICES ASSUME Init PROVE Queue /\ Rows /\ Store
  BY InvParts
<1>1. \A S : <<>> \in Seq(S)
  OBVIOUS
<1>2. Queue
  <2>1. /\ asked \in 0..MaxQueries /\ asked + Len(results) <= MaxQueries
        /\ \A i \in DOMAIN results : Nicknamed(results[i])
    BY BoundAssumption DEF Init
  <2>2. results \in Seq(Collections)
    BY <1>1 DEF Init
  <2> QED BY <2>1, <2>2 DEF Queue
<1>3. Rows
  <2>1. IsPrefix(shown, alarmDatas)
    BY EmptyPrefix DEF Init
  <2>2. RowsMatch
    BY DEF Init, RowsMatch, IsInjective
  <2> QED BY <1>1, <2>1, <2>2 DEF Init, Rows, ShownIsPrefix
<1>4. Store
  <2>1. Sound(docs) /\ board \in [Bikes -> States]
    BY UserAssumption, FieldAssumption
    DEF Init, Sound, IsCollection, Nicknamed, Fields, States, LOCKED
  <2> QED BY <2>1, BoundAssumption DEF Init, Store
<1> QED BY <1>2, <1>3, <1>4

LEMMA AlarmInvariant == Spec => []Inv
BY AlarmInit, AlarmStep, PTL DEF Spec

\* Every variable keeps its type: a row's text is a nickname, although documents exist
\* that have none.
THEOREM TypeCorrect == Spec => []TypeOK
<1>1. Inv => TypeOK
  BY DEF Inv
<1> QED BY <1>1, AlarmInvariant, PTL

\* Row i names the bicycle whose document it clears, and no text is listed twice, through
\* every order of late answers and deletions.
THEOREM RowsStayInStep == Spec => []RowsMatch
<1>1. Inv => RowsMatch
  BY DEF Inv
<1> QED BY <1>1, AlarmInvariant, PTL

\* The rows on the screen are the first of the list: an answer between the layout and
\* the touch never shifts what the touch deletes.
THEOREM ScreenIsPrefix == Spec => []ShownIsPrefix
<1>1. Inv => ShownIsPrefix
  BY DEF Inv
<1> QED BY <1>1, AlarmInvariant, PTL
=============================================================================
