--------------------------- MODULE BikeListProofs ---------------------------
(***************************************************************************)
(* The view model and the collection view, for every collection and every   *)
(* order of questions, answers and touches.                                 *)
(***************************************************************************)
EXTENDS BikeList, BikeDocsProofs

\* Steps that touch neither the list nor the cells.
LEMMA Elsewhere ==
    ASSUME \/ Pull \/ AskRemove \/ Leave \/ NextPage \/ Register \/ RegisterBlank
           \/ Database \/ \E i \in DOMAIN cells : Select(i)
    PROVE  UNCHANGED <<list, cells>> /\ (view' = "main" => view = "main")
<1>1. ASSUME Pull \/ AskRemove \/ Leave \/ NextPage \/ Register \/ RegisterBlank
      PROVE  UNCHANGED <<list, cells>> /\ (view' = "main" => view = "main")
  BY <1>1 DEF Pull, AskRemove, Leave, NextPage, Register, RegisterBlank, screen
<1>2. ASSUME Database PROVE UNCHANGED <<list, cells>> /\ (view' = "main" => view = "main")
  BY <1>2 DEF Database, Others, Answer, Fail, screen
<1>3. ASSUME NEW i \in DOMAIN cells, Select(i)
      PROVE  UNCHANGED <<list, cells>> /\ (view' = "main" => view = "main")
  BY <1>3 DEF Select
<1> QED BY <1>1, <1>2, <1>3

\* TouchHitsCell is inductive: whatever empties the list leaves nothing to compare,
\* and the only step that fills it reloads the collection view in the same callback.
LEMMA TouchStep == TouchHitsCell /\ [Next]_vars => TouchHitsCell'
<1> SUFFICES ASSUME TouchHitsCell, [Next]_vars PROVE TouchHitsCell'
  OBVIOUS
<1>1. ASSUME UNCHANGED <<list, cells>>, view' = "main" => view = "main"
      PROVE  TouchHitsCell'
  BY <1>1 DEF TouchHitsCell
<1>2. ASSUME list' = <<>> PROVE TouchHitsCell'
  BY <1>2 DEF TouchHitsCell
<1>3. CASE Appear \/ Refresh \/ Relaunch
  BY <1>2, <1>3 DEF Appear, Refresh, Relaunch, syncCollectioview
<1>4. CASE Deliver
  <2>1. PICK snapshot : Fill(snapshot) \/ \E nick : RemoveNamed(snapshot, nick)
    BY <1>4 DEF Deliver
  <2>v. UNCHANGED view
    BY <1>4 DEF Deliver
  <2>2. CASE Fill(snapshot)
    BY <1>1, <2>v, <2>2 DEF Fill, Reloaded, TouchHitsCell
  <2>3. ASSUME NEW nick, RemoveNamed(snapshot, nick) PROVE TouchHitsCell'
    BY <1>1, <1>2, <2>v, <2>3 DEF RemoveNamed
  <2> QED BY <2>1, <2>2, <2>3
<1>5. CASE UNCHANGED vars
  BY <1>1, <1>5 DEF vars
<1> QED BY <1>1, <1>3, <1>4, <1>5, Elsewhere DEF Next, Touch

\* A touch never opens another bicycle than the one its cell shows.
THEOREM TouchIsTrue == Spec => []TouchHitsCell
<1>1. Init => TouchHitsCell
  BY DEF Init, TouchHitsCell
<1> QED BY <1>1, TouchStep, PTL DEF Spec
-----------------------------------------------------------------------------
\* The questions that fill the list: those asked, and the answers on their way.
Asks   == {i \in DOMAIN asked : asked[i] = Listing}
Brings == {i \in DOMAIN results : results[i].to = Listing}

Answers == [to : Nicks \cup {Listing}, snapshot : Collections]

\* While no two reads overlapped, at most one is under way, and none when the list
\* holds anything: what is appended comes to an empty list.
OneRead == /\ Asks = {} \/ Brings = {}
           /\ \A i, j \in Asks : i = j
           /\ \A i, j \in Brings : i = j
           /\ list # <<>> => ~Reading

Inv == /\ TypeOK
       /\ results \in Seq(Answers)
       /\ ~overlap => OneRead
       /\ ListedOnce

LEMMA ReadingDef ==
    ASSUME asked \in Seq(Nicks \cup {Listing})
    PROVE  Reading <=> Asks # {} \/ Brings # {}
BY DEF Reading, Asks, Brings, Range

\* What is read for the list: each of the user's bicycles once.
LEMMA ListedRows ==
    ASSUME NEW c, IsCollection(c)
    PROVE  /\ Listed(c) \in Seq(Entries)
           /\ \A i, j \in DOMAIN Listed(c) : i # j => Listed(c)[i].id # Listed(c)[j].id
<1> DEFINE mine == Mine(c, User)
           owned == Own(c, User)
<1>1. /\ owned \in SUBSET DOMAIN c
      /\ mine \in Seq(owned)
      /\ \A i, j \in DOMAIN mine : i # j => mine[i] # mine[j]
  BY MineSeq
<1> HIDE DEF mine, owned
<1>2. Listed(c) = [i \in DOMAIN mine |-> [id |-> mine[i], nick |-> c[mine[i]].nick]]
  BY DEF Listed, mine
<1>3. \A i \in DOMAIN mine : [id |-> mine[i], nick |-> c[mine[i]].nick] \in Entries
  BY <1>1 DEF Entries, IsCollection, Fields
<1>4. Listed(c) \in Seq(Entries)
  BY <1>1, <1>2, <1>3
<1> QED BY <1>1, <1>2, <1>4
-----------------------------------------------------------------------------
\* The types of what the two callbacks of the main queue leave behind.
LEMMA DeliverType ==
    ASSUME Inv, Deliver
    PROVE  TypeOK' /\ results' \in Seq(Answers)
<1> DEFINE r == Head(results)
<1>t. /\ results \in Seq(Answers) /\ IsCollection(docs)
      /\ asked \in Seq(Nicks \cup {Listing})
      /\ list \in Seq(Entries) /\ cells \in Seq(Entries)
      /\ unread \in BOOLEAN /\ overlap \in BOOLEAN
  BY DEF Inv, TypeOK
<1>1. r \in Answers /\ IsCollection(r.snapshot) /\ results' \in Seq(Answers)
  <2>1. results # <<>> /\ results' = Tail(results)
    BY DEF Deliver
  <2>2. r \in Answers /\ results' \in Seq(Answers)
    BY <1>t, <2>1
  <2> QED BY <2>2, CollectionsDef DEF Answers
<1>2. \A i \in DOMAIN results' : /\ results'[i].to \in Nicks \cup {Listing}
                                  /\ IsCollection(results'[i].snapshot)
  <2>1. \A i \in DOMAIN results' : results'[i] \in Answers
    BY <1>1
  <2> QED BY <2>1, CollectionsDef DEF Answers
<1>3. /\ UNCHANGED <<pulled, view, bicycleName, crashed, edits, forms>>
      /\ IF r.to = Listing THEN Fill(r.snapshot) ELSE RemoveNamed(r.snapshot, r.to)
  BY DEF Deliver
<1> HIDE DEF r
<1>4. CASE r.to = Listing
  <2>1. Fill(r.snapshot) /\ Listed(r.snapshot) \in Seq(Entries)
    BY <1>1, <1>3, <1>4, ListedRows
  <2>2. list' \in Seq(Entries) /\ cells' \in Seq(Entries) /\ unread' \in BOOLEAN
    <3>1. list \o Listed(r.snapshot) \in Seq(Entries)
      BY <1>t, <2>1, ConcatProperties
    <3>2. CASE Listed(r.snapshot) = <<>>
      BY <1>t, <2>1, <3>2 DEF Fill
    <3>3. CASE Listed(r.snapshot) # <<>>
      <4>1. Reloaded(Listed(r.snapshot)) \in Seq(Entries)
        BY <3>1 DEF Reloaded
      <4> QED BY <1>t, <2>1, <3>1, <3>3, <4>1 DEF Fill
    <3> QED BY <3>2, <3>3
  <2>3. UNCHANGED <<docs, asked, overlap>>
    BY <2>1 DEF Fill
  <2> QED BY <1>1, <1>2, <1>3, <2>2, <2>3 DEF Inv, TypeOK
<1>5. CASE r.to # Listing
  <2> DEFINE gone == Named(r.snapshot, r.to)
             n == Cardinality(gone)
  <2>1. n \in Nat
    <3>1. gone \in SUBSET DOMAIN r.snapshot
      BY DEF Named
    <3>2. IsFiniteSet(gone)
      BY <1>1, <3>1, Selection
    <3> QED BY <3>2, FS_CardinalityType
  <2>2. /\ docs' = Removed(docs, gone)
        /\ asked' = asked \o [i \in 1..n |-> Listing]
        /\ list' = IF gone = {} THEN list ELSE <<>>
        /\ unread' = (gone = {} /\ unread)
        /\ overlap' = IF gone = {} THEN overlap ELSE Reading \/ n > 1
        /\ UNCHANGED cells
    BY <1>3, <1>5 DEF RemoveNamed
  <2> HIDE DEF n, gone
  <2>3. IsCollection(docs')
    BY <1>t, <2>2 DEF Removed, IsCollection
  <2>4. asked' \in Seq(Nicks \cup {Listing})
    <3>1. [i \in 1..n |-> Listing] \in Seq(Nicks \cup {Listing})
      BY <2>1
    <3> QED BY <1>t, <2>2, <3>1
  <2>5. list' \in Seq(Entries) /\ cells' \in Seq(Entries)
    BY <1>t, <2>2
  <2>6. unread' \in BOOLEAN /\ overlap' \in BOOLEAN
    <3>1. (Reading \/ n > 1) \in BOOLEAN
      BY DEF Reading
    <3> QED BY <1>t, <2>2, <3>1
  <2> QED BY <1>1, <1>2, <1>3, <2>3, <2>4, <2>5, <2>6 DEF Inv, TypeOK
<1> QED BY <1>4, <1>5

\* The types of what the database's steps leave behind.
LEMMA DatabaseType ==
    ASSUME Inv, Database
    PROVE  TypeOK' /\ results' \in Seq(Answers)
<1>t. /\ results \in Seq(Answers) /\ IsCollection(docs)
      /\ asked \in Seq(Nicks \cup {Listing})
      /\ unread \in BOOLEAN /\ overlap \in BOOLEAN
  BY DEF Inv, TypeOK
<1>1. CASE Others
  <2>1. PICK d \in Bikes :
           \/ docs' = Patched(docs, d, 1)
           \/ \E nick \in Nicks, uid \in Users \ {User} :
                 docs' = Registered(docs, d, nick, uid)
           \/ \E gone : docs' = Removed(docs, gone)
    BY <1>1 DEF Others
  <2>2. IsCollection(docs')
    <3>1. CASE docs' = Patched(docs, d, 1)
      BY <1>t, <3>1 DEF Patched, Put, IsCollection, Fields, States
    <3>2. ASSUME NEW nick \in Nicks, NEW uid \in Users, docs' = Registered(docs, d, nick, uid)
          PROVE  IsCollection(docs')
      BY <1>t, <3>2 DEF Registered, Put, IsCollection, Fields, States
    <3>3. ASSUME NEW gone, docs' = Removed(docs, gone) PROVE IsCollection(docs')
      BY <1>t, <3>3 DEF Removed, IsCollection
    <3> QED BY <2>1, <3>1, <3>2, <3>3
  <2>3. edits' \in 0..MaxEdits
    <3>1. MaxEdits \in Nat
      BY BoundAssumption
    <3> QED BY <1>1, <3>1 DEF Others, Inv, TypeOK
  <2> QED BY <1>1, <2>2, <2>3 DEF Others, Inv, TypeOK, screen, reads
<1>2. ASSUME NEW i \in DOMAIN asked, Answer(i)
      PROVE  TypeOK' /\ results' \in Seq(Answers)
  <2>1. asked' \in Seq(Nicks \cup {Listing})
    BY <1>t, <1>2, RemoveAtSeq DEF Answer
  <2>2. [to |-> asked[i], snapshot |-> docs] \in Answers
    BY <1>t, CollectionsDef DEF Answers
  <2>3. results' \in Seq(Answers)
    BY <1>t, <1>2, <2>2 DEF Answer
  <2>4. \A j \in DOMAIN results' : results'[j] \in Answers
    BY <2>3
  <2>5. UNCHANGED <<docs, screen, reads, edits, forms>>
    BY <1>2 DEF Answer
  <2> QED BY <2>1, <2>3, <2>4, <2>5, CollectionsDef DEF Answers, Inv, TypeOK, screen, reads
<1>3. ASSUME NEW i \in DOMAIN asked, Fail(i)
      PROVE  TypeOK' /\ results' \in Seq(Answers)
  <2>1. asked' \in Seq(Nicks \cup {Listing})
    BY <1>t, <1>3, RemoveAtSeq DEF Fail
  <2>2. unread' \in BOOLEAN
    BY <1>3 DEF Fail
  <2> QED BY <1>3, <2>1, <2>2 DEF Fail, Inv, TypeOK, screen
<1> QED BY <1>1, <1>2, <1>3 DEF Database

\* ... and the rider's touches and the refresh.
LEMMA TouchType ==
    ASSUME Inv, Touch \/ Refresh \/ UNCHANGED vars
    PROVE  TypeOK' /\ results' \in Seq(Answers)
<1>t. /\ results \in Seq(Answers) /\ IsCollection(docs)
      /\ asked \in Seq(Nicks \cup {Listing})
      /\ list \in Seq(Entries) /\ cells \in Seq(Entries)
      /\ unread \in BOOLEAN /\ overlap \in BOOLEAN
      /\ MaxForms \in Nat /\ forms \in 0..MaxForms
  BY BoundAssumption DEF Inv, TypeOK
<1>e. <<>> \in Seq(Entries) /\ <<>> \in Seq(Answers) /\ Reading \in BOOLEAN
  BY DEF Reading
<1>1. CASE Appear \/ Refresh
  <2>1. syncCollectioview
    BY <1>1 DEF Appear, Refresh
  <2>2. asked' \in Seq(Nicks \cup {Listing})
    BY <1>t, <2>1 DEF syncCollectioview
  <2>3. list' \in Seq(Entries) /\ unread' \in BOOLEAN /\ overlap' \in BOOLEAN
    BY <1>e, <2>1 DEF syncCollectioview
  <2>4. cells' \in Seq(Entries) /\ pulled' \in BOOLEAN
    BY <1>1, <1>t, <1>e DEF Appear, Refresh, Inv, TypeOK
  <2> QED BY <1>1, <2>2, <2>3, <2>4 DEF Appear, Refresh, Inv, TypeOK
<1>2. CASE Pull \/ Leave \/ NextPage \/ RegisterBlank
  BY <1>2 DEF Pull, Leave, NextPage, RegisterBlank, Inv, TypeOK, Forms, reads
<1>3. CASE AskRemove
  <2>1. asked' \in Seq(Nicks \cup {Listing}) /\ forms' \in 0..MaxForms
    BY <1>3, <1>t DEF AskRemove
  <2> QED BY <1>3, <2>1 DEF AskRemove, Inv, TypeOK, screen, reads
<1>4. CASE Register
  <2>1. IsCollection(docs')
    BY <1>4, <1>t, UserAssumption DEF Register, Registered, Put, IsCollection, Fields, States
  <2>2. forms' \in 0..MaxForms
    BY <1>4, <1>t DEF Register
  <2> QED BY <1>4, <2>1, <2>2 DEF Register, Inv, TypeOK, Forms, reads
<1>5. CASE Relaunch
  <2>1. asked' \in Seq(Nicks \cup {Listing})
    BY <1>5 DEF Relaunch
  <2>2. results' = <<>> /\ list' = <<>> /\ cells' = <<>>
    BY <1>5 DEF Relaunch
  <2>3. /\ list' \in Seq(Entries) /\ cells' \in Seq(Entries) /\ results' \in Seq(Answers)
        /\ \A i \in DOMAIN results' : /\ results'[i].to \in Nicks \cup {Listing}
                                     /\ IsCollection(results'[i].snapshot)
    BY <1>e, <2>2
  <2>4. /\ UNCHANGED <<docs, edits, forms>> /\ view' = "main" /\ bicycleName' = NoNick
        /\ pulled' = FALSE /\ crashed' = FALSE /\ unread' = FALSE /\ overlap' = FALSE
    BY <1>5 DEF Relaunch
  <2> QED BY <2>1, <2>3, <2>4 DEF Inv, TypeOK
<1>6. ASSUME NEW i \in DOMAIN cells, Select(i)
      PROVE  TypeOK' /\ results' \in Seq(Answers)
  <2>1. bicycleName' \in Nicks \cup {NoNick} /\ view' \in {view, "map"} /\ crashed' \in BOOLEAN
    <3>1. i <= Len(list) => list[i] \in Entries
      BY <1>t
    <3> QED BY <1>6, <3>1 DEF Select, Entries, Inv, TypeOK
  <2> QED BY <1>6, <2>1 DEF Select, Inv, TypeOK, reads
<1>7. CASE UNCHANGED vars
  BY <1>7 DEF vars, Inv, TypeOK
<1> QED BY <1>1, <1>2, <1>3, <1>4, <1>5, <1>6, <1>7 DEF Touch
-----------------------------------------------------------------------------
\* What a step must keep for the list to hold each bicycle once.
Once == (~overlap => OneRead) /\ ListedOnce

\* Steps that leave the questions for the list and the list alone keep it.
LEMMA StillOnce ==
    ASSUME Inv, Asks' = Asks, Brings' = Brings, UNCHANGED <<list, overlap>>,
           asked' \in Seq(Nicks \cup {Listing})
    PROVE  Once'
<1>1. Reading <=> Asks # {} \/ Brings # {}
  BY ReadingDef DEF Inv, TypeOK
<1>2. Reading' <=> Asks' # {} \/ Brings' # {}
  BY DEF Reading, Asks, Brings, Range
<1> QED BY <1>1, <1>2 DEF Inv, Once, OneRead, ListedOnce

\* Emptying the list and asking once is a fresh start, unless a read is under way.
LEMMA SyncIsFresh ==
    ASSUME Inv, syncCollectioview, UNCHANGED results
    PROVE  Once'
<1>1. asked \in Seq(Nicks \cup {Listing}) /\ list' = <<>> /\ overlap' = Reading
      /\ asked' = Append(asked, Listing)
  BY DEF syncCollectioview, Inv, TypeOK
<1>2. ~Reading => Asks = {} /\ Brings = {}
  BY <1>1, ReadingDef
<1>3. ~Reading => Asks' \subseteq {Len(asked) + 1} /\ Brings' = {}
  BY <1>1, <1>2 DEF Asks, Brings
<1> QED BY <1>1, <1>3 DEF Once, OneRead, ListedOnce

\* A question leaves the questions asked, answered or not.
LEMMA AnswerOnce ==
    ASSUME Inv, NEW i \in DOMAIN asked, Answer(i) \/ Fail(i)
    PROVE  Once'
<1>t. /\ asked \in Seq(Nicks \cup {Listing}) /\ results \in Seq(Answers)
      /\ UNCHANGED <<list, overlap>>
  BY DEF Inv, TypeOK, Answer, Fail, screen, reads
<1>1. /\ asked' \in Seq(Nicks \cup {Listing}) /\ Len(asked') = Len(asked) - 1
      /\ \A j \in DOMAIN asked' : asked'[j] = IF j < i THEN asked[j] ELSE asked[j + 1]
  BY <1>t, RemoveAtSeq DEF Answer, Fail
<1>r. Reading <=> Asks # {} \/ Brings # {}
  BY <1>t, ReadingDef
<1>r2. Reading' <=> Asks' # {} \/ Brings' # {}
  BY DEF Reading, Asks, Brings, Range
<1>2. \A j \in Asks' : (IF j < i THEN j ELSE j + 1) \in Asks \ {i}
  <2> SUFFICES ASSUME NEW j \in Asks' PROVE (IF j < i THEN j ELSE j + 1) \in Asks \ {i}
    OBVIOUS
  <2>1. j \in 1..(Len(asked) - 1) /\ asked'[j] = Listing
    BY <1>t, <1>1 DEF Asks
  <2>2. CASE j < i
    BY <1>t, <1>1, <2>1, <2>2 DEF Asks
  <2>3. CASE ~(j < i)
    BY <1>t, <1>1, <2>1, <2>3 DEF Asks
  <2> QED BY <2>2, <2>3
<1>3. Asks' # {} => Asks \ {i} # {}
  BY <1>2
<1>4. (\A j, k \in Asks : j = k) => \A j, k \in Asks' : j = k
  <2> SUFFICES ASSUME \A j, k \in Asks : j = k, NEW j \in Asks', NEW k \in Asks'
               PROVE  j = k
    OBVIOUS
  <2>1. (IF j < i THEN j ELSE j + 1) = (IF k < i THEN k ELSE k + 1)
    BY <1>2
  <2>2. j \in Int /\ k \in Int /\ i \in Int
    BY <1>t, <1>1 DEF Asks
  <2> QED BY <2>1, <2>2
<1>5. CASE Brings' = Brings
  <2>1. Reading' => Reading
    BY <1>3, <1>5, <1>r, <1>r2
  <2> QED BY <1>t, <1>3, <1>4, <1>5, <2>1 DEF Inv, Once, OneRead, ListedOnce
<1>6. CASE Brings' # Brings
  <2>1. results' = Append(results, [to |-> asked[i], snapshot |-> docs])
    BY <1>6 DEF Answer, Fail, Brings
  <2>2. asked[i] = Listing
    BY <1>t, <1>6, <2>1 DEF Brings
  <2>3. Brings' = Brings \cup {Len(results) + 1} /\ i \in Asks
    BY <1>t, <2>1, <2>2 DEF Brings, Asks
  <2>4. ~overlap => Brings = {} /\ (\A j, k \in Asks : j = k) /\ list = <<>>
    BY <1>r, <2>3 DEF Inv, OneRead
  <2>5. ~overlap => Asks' = {}
    BY <1>3, <2>3, <2>4
  <2>6. ~overlap => \A j, k \in Brings' : j = k
    BY <2>3, <2>4
  <2> QED BY <1>t, <2>4, <2>5, <2>6 DEF Inv, Once, OneRead, ListedOnce
<1> QED BY <1>5, <1>6

\* The answer to the only read fills an empty list and ends the reading; a removal
\* with one document starts one read, with several it is an overlap.
LEMMA DeliverOnce ==
    ASSUME Inv, Deliver
    PROVE  Once'
<1> DEFINE r == Head(results)
<1>t. /\ asked \in Seq(Nicks \cup {Listing}) /\ results \in Seq(Answers) /\ results # <<>>
      /\ list \in Seq(Entries)
  BY DEF Inv, TypeOK, Deliver
<1>1. /\ r = results[1] /\ r \in Answers /\ IsCollection(r.snapshot)
      /\ Len(results') = Len(results) - 1 /\ results' \in Seq(Answers)
      /\ \A j \in DOMAIN results' : j + 1 \in DOMAIN results /\ results'[j] = results[j + 1]
  <2>1. results' = Tail(results)
    BY DEF Deliver
  <2>2. r = results[1] /\ r \in Answers
    BY <1>t
  <2>3. /\ Len(results') = Len(results) - 1 /\ results' \in Seq(Answers)
        /\ \A j \in DOMAIN results' : j + 1 \in DOMAIN results /\ results'[j] = results[j + 1]
    BY <1>t, <2>1, HeadTailProperties
  <2> QED BY <2>2, <2>3, CollectionsDef DEF Answers
<1>2. IF r.to = Listing THEN Fill(r.snapshot) ELSE RemoveNamed(r.snapshot, r.to)
  BY DEF Deliver
<1> HIDE DEF r
<1>3. \A j \in Brings' : j + 1 \in Brings \ {1}
  <2> SUFFICES ASSUME NEW j \in Brings' PROVE j + 1 \in Brings \ {1}
    OBVIOUS
  <2>1. j \in DOMAIN results' /\ results'[j].to = Listing
    BY DEF Brings
  <2>2. j \in 1..Len(results')
    BY <1>1, <2>1
  <2> QED BY <1>1, <2>1, <2>2 DEF Brings
<1>4. Brings' # {} => Brings # {}
  BY <1>3
<1>5. (\A j, k \in Brings : j = k) => \A j, k \in Brings' : j = k
  <2> SUFFICES ASSUME \A j, k \in Brings : j = k, NEW j \in Brings', NEW k \in Brings'
               PROVE  j = k
    OBVIOUS
  <2>1. j + 1 = k + 1
    BY <1>3
  <2>2. j \in Int /\ k \in Int
    BY <1>1 DEF Brings
  <2> QED BY <2>1, <2>2
<1>r. Reading <=> Asks # {} \/ Brings # {}
  BY <1>t, ReadingDef
<1>r2. Reading' <=> Asks' # {} \/ Brings' # {}
  BY DEF Reading, Asks, Brings, Range
<1>6. CASE r.to = Listing
  <2>1. 1 \in Brings
    BY <1>t, <1>1, <1>6 DEF Brings
  <2>2. UNCHANGED <<asked, overlap>> /\ Asks' = Asks
    BY <1>2, <1>6 DEF Fill, Asks
  <2>3. ~overlap => list = <<>> /\ Asks = {} /\ \A j \in Brings : j = 1
    BY <1>r, <2>1 DEF Inv, OneRead
  <2>4. ~overlap => Brings' = {}
    BY <1>3, <2>3
  <2>5. ~overlap => ~Reading'
    BY <1>r2, <2>2, <2>3, <2>4
  <2>6. ~overlap' => OneRead'
    BY <2>2, <2>3, <2>4, <2>5 DEF OneRead
  <2>7. ~overlap => list' = <<>> \/ list' = Listed(r.snapshot)
    <3>1. Listed(r.snapshot) \in Seq(Entries)
      BY <1>1, ListedRows
    <3>2. <<>> \o Listed(r.snapshot) = Listed(r.snapshot)
      BY <3>1
    <3> QED BY <1>2, <1>6, <2>3, <3>2 DEF Fill
  <2>8. ListedOnce'
    <3>1. \A i, j \in DOMAIN Listed(r.snapshot) :
              i # j => Listed(r.snapshot)[i].id # Listed(r.snapshot)[j].id
      BY <1>1, ListedRows
    <3>2. CASE overlap
      BY <2>2, <3>2 DEF ListedOnce
    <3>3. CASE ~overlap
      BY <2>7, <3>1, <3>3 DEF ListedOnce
    <3> QED BY <3>2, <3>3
  <2> QED BY <2>6, <2>8 DEF Once
<1>7. CASE r.to # Listing
  <2> DEFINE gone == Named(r.snapshot, r.to)
             n == Cardinality(gone)
  <2>1. /\ asked' = asked \o [i \in 1..n |-> Listing]
        /\ list' = IF gone = {} THEN list ELSE <<>>
        /\ overlap' = IF gone = {} THEN overlap ELSE Reading \/ n > 1
    BY <1>2, <1>7 DEF RemoveNamed
  <2>2. n \in Nat /\ (gone = {} <=> n = 0)
    <3>1. gone \in SUBSET DOMAIN r.snapshot
      BY DEF Named
    <3>2. IsFiniteSet(gone)
      BY <1>1, <3>1, Selection
    <3> QED BY <3>2, FS_CardinalityType, FS_EmptySet
  <2> HIDE DEF gone, n
  <2> DEFINE new == [i \in 1..n |-> Listing]
  <2>3. /\ asked' \in Seq(Nicks \cup {Listing}) /\ Len(asked') = Len(asked) + n
        /\ \A j \in 1..Len(asked) : asked'[j] = asked[j]
    <3>1. new \in Seq(Nicks \cup {Listing}) /\ Len(new) = n
      BY <2>2
    <3>2. asked' = asked \o new
      BY <2>1
    <3> HIDE DEF new
    <3>3. /\ asked' \in Seq(Nicks \cup {Listing}) /\ Len(asked') = Len(asked) + Len(new)
          /\ \A j \in 1..(Len(asked) + Len(new)) :
                asked'[j] = IF j <= Len(asked) THEN asked[j] ELSE new[j - Len(asked)]
      BY <1>t, <3>1, <3>2, ConcatProperties
    <3>4. Len(asked) \in Nat
      BY <1>t
    <3> QED BY <2>2, <3>1, <3>3, <3>4
  <2>4. CASE gone = {}
    <3>1. Asks' = Asks
      BY <1>t, <2>2, <2>3, <2>4 DEF Asks
    <3>2. Reading' => Reading
      BY <1>4, <1>r, <1>r2, <3>1
    <3>3. list' = list /\ overlap' = overlap
      BY <2>1, <2>4
    <3> QED BY <1>4, <1>5, <3>1, <3>2, <3>3 DEF Inv, Once, OneRead, ListedOnce
  <2>5. CASE gone # {}
    <3>1. list' = <<>> /\ (~overlap' => ~Reading /\ n = 1)
      <4>1. list' = <<>> /\ (~overlap' => ~Reading /\ ~(n > 1))
        BY <2>1, <2>5, Zenon
      <4>2. n # 0
        BY <2>2, <2>5
      <4> QED BY <2>2, <4>1, <4>2
    <3>2. ~overlap' => Brings' = {} /\ Asks = {}
      BY <1>4, <1>r, <3>1
    <3>3. ~overlap' => Asks' \subseteq {Len(asked) + 1}
      <4> SUFFICES ASSUME ~overlap', NEW j \in Asks' PROVE j = Len(asked) + 1
        OBVIOUS
      <4>1. j \in 1..(Len(asked) + 1) /\ asked'[j] = Listing
        BY <2>3, <3>1 DEF Asks
      <4>2. j \notin 1..Len(asked)
        BY <1>t, <2>3, <3>2, <4>1 DEF Asks
      <4> QED BY <1>t, <4>1, <4>2
    <3> QED BY <3>1, <3>2, <3>3 DEF Once, OneRead, ListedOnce
  <2> QED BY <2>4, <2>5
<1> QED BY <1>6, <1>7

\* Inv is inductive.
LEMMA ListStep == Inv /\ [Next]_vars => Inv'
<1> SUFFICES ASSUME Inv, [Next]_vars PROVE Inv'
  OBVIOUS
<1>t. TypeOK' /\ results' \in Seq(Answers)
  BY DeliverType, DatabaseType, TouchType DEF Next
<1>a. asked' \in Seq(Nicks \cup {Listing}) /\ asked \in Seq(Nicks \cup {Listing})
  BY <1>t DEF Inv, TypeOK
<1> SUFFICES Once'
  BY <1>t DEF Inv, Once
<1>0. ASSUME UNCHANGED <<asked, results, list, overlap>> PROVE Once'
  <2>1. Asks' = Asks /\ Brings' = Brings
    BY <1>0 DEF Asks, Brings
  <2> QED BY <1>0, <1>a, <2>1, StillOnce
<1>1. CASE Pull \/ Leave \/ NextPage \/ Register \/ RegisterBlank \/ Others \/ UNCHANGED vars
  BY <1>0, <1>1 DEF Pull, Leave, NextPage, Register, RegisterBlank, Others, vars, screen, reads
<1>2. ASSUME NEW i \in DOMAIN cells, Select(i) PROVE Once'
  BY <1>0, <1>2 DEF Select, reads
<1>3. CASE Appear \/ Refresh
  BY <1>3, SyncIsFresh DEF Appear, Refresh
<1>4. CASE AskRemove
  <2>1. PICK nick \in Nicks : asked' = Append(asked, nick)
    BY <1>4 DEF AskRemove
  <2>2. UNCHANGED <<results, list, overlap>>
    BY <1>4 DEF AskRemove, screen, reads
  <2>3. Asks' = Asks
    BY <1>a, <2>1, ListingAssumption DEF Asks
  <2>4. Brings' = Brings
    BY <2>2 DEF Brings
  <2> QED BY <1>a, <2>2, <2>3, <2>4, StillOnce
<1>5. CASE Relaunch
  <2>1. asked' = <<Listing>> /\ results' = <<>> /\ list' = <<>>
    BY <1>5 DEF Relaunch
  <2>2. Asks' \subseteq {1} /\ Brings' = {}
    BY <2>1 DEF Asks, Brings
  <2> QED BY <2>1, <2>2 DEF Once, OneRead, ListedOnce
<1>6. CASE Deliver
  BY <1>6, DeliverOnce
<1>7. ASSUME NEW i \in DOMAIN asked, Answer(i) \/ Fail(i) PROVE Once'
  BY <1>7, AnswerOnce
<1> QED
  BY <1>1, <1>2, <1>3, <1>4, <1>5, <1>6, <1>7 DEF Next, Touch, Database

LEMMA ListInit == Init => Inv
<1> SUFFICES ASSUME Init PROVE Inv
  OBVIOUS
<1>1. IsCollection(docs)
  BY UserAssumption DEF Init, IsCollection, Fields, States
<1>2. asked \in Seq(Nicks \cup {Listing}) /\ results \in Seq(Answers) /\ results = <<>>
  BY DEF Init
<1>3. list = <<>> /\ cells = <<>> /\ list \in Seq(Entries) /\ cells \in Seq(Entries)
  BY DEF Init
<1>4. edits \in 0..MaxEdits /\ forms \in 0..MaxForms
  BY BoundAssumption DEF Init
<1>5. TypeOK
  <2>1. \A i \in DOMAIN results : /\ results[i].to \in Nicks \cup {Listing}
                                 /\ IsCollection(results[i].snapshot)
    BY <1>2
  <2> QED BY <1>1, <1>2, <1>3, <1>4, <2>1 DEF Init, TypeOK
<1>6. Asks \subseteq {1} /\ Brings = {}
  BY DEF Init, Asks, Brings
<1>7. OneRead /\ ListedOnce
  BY <1>3, <1>6 DEF OneRead, ListedOnce
<1> QED BY <1>2, <1>5, <1>7 DEF Inv

\* Every variable keeps its type: no answer, however late, leaves anything else in the
\* list or the cells than entries of documents.
THEOREM TypeCorrect == Spec => []TypeOK
<1>1. Inv => TypeOK
  BY DEF Inv
<1> QED BY <1>1, ListInit, ListStep, PTL DEF Spec

\* The list holds each bicycle once, unless it was emptied while a read was under way.
THEOREM ListHoldsOnce == Spec => []ListedOnce
<1>1. Inv => ListedOnce
  BY DEF Inv
<1> QED BY <1>1, ListInit, ListStep, PTL DEF Spec
=============================================================================
