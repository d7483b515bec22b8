--------------------------- MODULE BikeViewsProofs ---------------------------
(***************************************************************************)
(* The marker of the map, for every set of bicycles, users and nicknames    *)
(* and every number of screens, polls, reports and edits.                   *)
(***************************************************************************)
EXTENDS BikeViews, BikeDocsProofs

Answers == [to : Nat, docs : Collections, gps : [Bikes -> Points]]

Shape == /\ docs \in Collections /\ gps \in [Bikes -> Points]
         /\ screen \in Nat /\ reports \in Nat /\ asked \in Seq(Nat) /\ results \in Seq(Answers)

\* Position p was reported for a bicycle that the user registered as name.
IsOf(p, name) == <<p[1], name>> \in named

\* A document of the user has a name he registered it by, and its board's position.
Sourced(ds, ps) == \A d \in DOMAIN ds : /\ ds[d].uid = User => <<d, ds[d].nick>> \in named
                                        /\ ps[d] # NoPoint => ps[d][1] = d

\* The collection, the answers under way, and what the map took from them.
Inv == /\ Shape
       /\ Sourced(docs, gps)
       /\ \A i \in DOMAIN results : Sourced(results[i].docs, results[i].gps)
       /\ point = Origin \/ IsOf(point, nick)
       /\ MarkerIsOfName
-----------------------------------------------------------------------------
\* What a board or a registration writes leaves a collection.
LEMMA Edits ==
    ASSUME docs \in Collections, NEW d \in Bikes
    PROVE  /\ Patched(docs, d, 0) \in Collections
           /\ \A name \in Nicks, uid \in Users : Registered(docs, d, name, uid) \in Collections
<1>1. DOMAIN docs \subseteq Bikes /\ docs \in [DOMAIN docs -> Fields]
  BY DEF Collections
<1>2. ASSUME NEW ds, DOMAIN ds \subseteq Bikes, ds \in [DOMAIN ds -> Fields]
      PROVE  ds \in Collections
  BY <1>2 DEF Collections
<1>3. ASSUME NEW doc \in Fields PROVE Put(docs, d, doc) \in Collections
  BY <1>1, <1>2 DEF Put
<1>4. Patched(docs, d, 0) \in Collections
  <2>1. 0 \in States
    BY DEF States
  <2>2. d \in DOMAIN docs => [docs[d] EXCEPT !.state = 0] \in Fields
    BY <1>1, <2>1 DEF Fields
  <2>3. [uid |-> NoUid, nick |-> NoNick, state |-> 0] \in Fields
    BY <2>1 DEF Fields
  <2> QED BY <1>3, <2>2, <2>3 DEF Patched
<1>5. ASSUME NEW name \in Nicks, NEW uid \in Users
      PROVE  Registered(docs, d, name, uid) \in Collections
  BY <1>3 DEF Registered, Fields, States
<1> QED BY <1>4, <1>5

\* Documents that are removed leave a collection.
LEMMA RemovedDocs ==
    ASSUME docs \in Collections, NEW gone PROVE Removed(docs, gone) \in Collections
<1>1. DOMAIN docs \subseteq Bikes /\ docs \in [DOMAIN docs -> Fields]
  BY DEF Collections
<1>2. Removed(docs, gone) \in [DOMAIN docs \ gone -> Fields]
  BY <1>1 DEF Removed
<1> QED BY <1>1, <1>2 DEF Collections

\* Names that the user gave are never taken back.
LEMMA StaysSourced ==
    ASSUME NEW ds, NEW ps, Sourced(ds, ps), named \subseteq named'
    PROVE  Sourced(ds, ps)'
BY DEF Sourced

\* A step that leaves map and answers alone and the collection sound keeps Inv.
LEMMA EditStep ==
    ASSUME Inv, UNCHANGED <<map, asked, results>>, named \subseteq named', Sourced(docs, gps)',
           docs' \in Collections, gps' \in [Bikes -> Points], reports' \in Nat
    PROVE  Inv'
<1> USE DEF map
<1>1. Shape'
  BY DEF Inv, Shape
<1>2. \A i \in DOMAIN results' : Sourced(results[i].docs, results[i].gps)'
  BY StaysSourced DEF Inv
<1>3. (point = Origin \/ IsOf(point, nick))' /\ MarkerIsOfName'
  BY DEF Inv, IsOf, MarkerIsOfName
<1> QED BY <1>1, <1>2, <1>3 DEF Inv

\* What the callback takes from a sound answer is a position of a chosen bicycle.
LEMMA LocatedIsOfName ==
    ASSUME NEW answer \in Answers, Sourced(answer.docs, answer.gps),
           point = Origin \/ IsOf(point, nick), NEW p \in Located(answer)
    PROVE  p = Origin \/ IsOf(p, nick)
<1>1. CASE p = point
  BY <1>1
<1>2. ASSUME NEW d \in Passed(answer), Chosen(answer, d), p = answer.gps[d] PROVE IsOf(p, nick)
  <2>1. d \in DOMAIN answer.docs
    BY DEF Passed
  <2>2. d \in Int
    BY <2>1, BikesAssumption DEF Answers, Collections
  <2>3. answer.gps[d] # NoPoint
    BY <1>2, <2>1, <2>2 DEF Passed
  <2> QED BY <1>2, <2>1, <2>3 DEF Sourced, Chosen, IsOf
<1> QED BY <1>1, <1>2 DEF Located

\* The callback keeps Inv.
LEMMA DeliverStep == Inv /\ Deliver => Inv'
<1> SUFFICES ASSUME Inv, Deliver PROVE Inv'
  OBVIOUS
<1> DEFINE answer == Head(results)
<1>1. /\ results # <<>> /\ results \in Seq(Answers)
      /\ answer \in Answers /\ Sourced(answer.docs, answer.gps)
      /\ results' \in Seq(Answers)
      /\ \A i \in DOMAIN results' : Sourced(results'[i].docs, results'[i].gps)
  <2>1. results # <<>> /\ results' = Tail(results) /\ results \in Seq(Answers)
    BY DEF Deliver, Inv, Shape
  <2>2. answer = results[1] /\ 1 \in DOMAIN results /\ answer \in Answers
    BY <2>1
  <2>3. /\ results' \in Seq(Answers)
        /\ \A i \in DOMAIN results' : i + 1 \in DOMAIN results /\ results'[i] = results[i + 1]
    BY <2>1
  <2> QED BY <2>1, <2>2, <2>3 DEF Inv
<1>2. UNCHANGED <<docs, gps, screen, nick, asked, named, reports>>
  BY DEF Deliver
<1>3. (point = Origin \/ IsOf(point, nick))' /\ MarkerIsOfName'
  <2>1. CASE UNCHANGED <<point, marker>>
    BY <1>2, <2>1 DEF Inv, IsOf, MarkerIsOfName
  <2>2. CASE point' \in Located(answer) /\ marker' \in {marker, point'}
    <3>1. point' = Origin \/ IsOf(point', nick)
      BY <1>1, <2>2, LocatedIsOfName DEF Inv
    <3> QED BY <1>2, <2>2, <3>1 DEF Inv, IsOf, MarkerIsOfName
  <2> QED BY <2>1, <2>2 DEF Deliver
<1>4. Shape'
  BY <1>1, <1>2 DEF Inv, Shape
<1>5. Sourced(docs, gps)' /\ \A i \in DOMAIN results' : Sourced(results[i].docs, results[i].gps)'
  BY <1>1, <1>2 DEF Inv, Sourced
<1> QED BY <1>3, <1>4, <1>5 DEF Inv
-----------------------------------------------------------------------------
\* Boards and phones keep Inv.
LEMMA WorldStep == Inv /\ World => Inv'
<1> SUFFICES ASSUME Inv, World PROVE Inv'
  OBVIOUS
<1>1. CASE Answer
  <2>1. UNCHANGED <<docs, gps, map, named, reports>>
    BY <1>1 DEF Answer
  <2>2. /\ asked' \in Seq(Nat) /\ results' \in Seq(Answers)
        /\ \A i \in DOMAIN results' : Sourced(results'[i].docs, results'[i].gps)
    <3> DEFINE new == [to |-> Head(asked), docs |-> docs, gps |-> gps]
    <3>1. asked' \in Seq(Nat) /\ new \in Answers
      BY <1>1 DEF Answer, Inv, Shape, Answers
    <3>2. results' = Append(results, new) /\ results \in Seq(Answers)
      BY <1>1 DEF Answer, Inv, Shape
    <3>3. Sourced(new.docs, new.gps)
      BY DEF Inv
    <3> HIDE DEF new
    <3>4. ASSUME NEW i \in DOMAIN results'
          PROVE  results'[i] = new \/ (i \in DOMAIN results /\ results'[i] = results[i])
      BY <3>1, <3>2
    <3> QED BY <3>1, <3>2, <3>3, <3>4 DEF Inv
  <2>3. Shape'
    BY <2>1, <2>2 DEF Inv, Shape, map
  <2>4. Sourced(docs, gps)' /\ \A i \in DOMAIN results' : Sourced(results[i].docs, results[i].gps)'
    BY <2>1, <2>2 DEF Inv, Sourced
  <2> QED BY <2>1, <2>3, <2>4 DEF Inv, IsOf, MarkerIsOfName, map
<1>2. CASE Fail
  <2>1. UNCHANGED <<docs, gps, map, results, named, reports>> /\ asked' \in Seq(Nat)
    BY <1>2 DEF Fail, Inv, Shape
  <2> QED BY <2>1 DEF Inv, Shape, Sourced, IsOf, MarkerIsOfName, map
<1>3. ASSUME NEW d \in Bikes, Report(d) PROVE Inv'
  <2>1. UNCHANGED <<map, asked, results, named>>
    BY <1>3 DEF Report
  <2>2. reports' \in Nat /\ reports' \in 1..MaxReports
    BY <1>3, BoundAssumption DEF Report, Inv, Shape
  <2>3. gps' \in [Bikes -> Points] /\ gps' = [gps EXCEPT ![d] = <<d, reports'>>]
    BY <1>3, <2>2 DEF Report, Inv, Shape, Points
  <2>4. docs' \in Collections
    BY <1>3, Edits DEF Report, Inv, Shape
  <2>5. Sourced(docs, gps)'
    <3>1. ASSUME NEW e \in DOMAIN docs'
          PROVE  docs'[e].uid = User => e \in DOMAIN docs /\ docs'[e] = docs[e]
      BY <1>3, UserAssumption, FieldAssumption DEF Report, Patched, Put
    <3>2. ASSUME NEW e \in DOMAIN docs', gps'[e] # NoPoint PROVE gps'[e][1] = e
      <4>1. CASE e = d
        BY <2>3, <4>1 DEF Inv, Shape
      <4>2. CASE e # d
        <5>1. e \in DOMAIN docs /\ e \in Bikes
          BY <1>3, <2>4, <4>2 DEF Report, Patched, Put, Collections
        <5> QED BY <2>3, <3>2, <4>2, <5>1 DEF Inv, Shape, Sourced
      <4> QED BY <4>1, <4>2
    <3> QED BY <2>1, <3>1, <3>2 DEF Inv, Sourced
  <2> QED BY <2>1, <2>2, <2>3, <2>4, <2>5, EditStep
<1>4. ASSUME NEW d \in Bikes, NEW name \in Nicks, NEW uid \in Users, Register(d, name, uid)
      PROVE  Inv'
  <2>1. /\ UNCHANGED <<map, asked, results, reports>> /\ named \subseteq named'
        /\ uid = User => <<d, name>> \in named'
    BY <1>4 DEF Register
  <2>2. gps' \in [Bikes -> Points] /\ gps' = [gps EXCEPT ![d] = NoPoint]
    BY <1>4 DEF Register, Inv, Shape, Points
  <2>3. docs' \in Collections
    BY <1>4, Edits DEF Register, Inv, Shape
  <2>4. Sourced(docs, gps)'
    <3>1. ASSUME NEW e \in DOMAIN docs', e # d
          PROVE  e \in DOMAIN docs /\ docs'[e] = docs[e] /\ gps'[e] = gps[e]
      BY <1>4, <2>2, <2>3, <3>1 DEF Register, Registered, Put, Collections, Inv, Shape
    <3>2. docs'[d].uid = uid /\ docs'[d].nick = name /\ gps'[d] = NoPoint
      BY <1>4, <2>2 DEF Register, Registered, Put, Inv, Shape
    <3> QED BY <2>1, <3>1, <3>2 DEF Inv, Sourced
  <2> QED BY <2>1, <2>2, <2>3, <2>4, EditStep DEF Inv, Shape
<1>5. ASSUME NEW name \in Nicks, RemoveNick(name) PROVE Inv'
  <2>1. UNCHANGED <<map, asked, results, named, reports>>
    BY <1>5 DEF RemoveNick
  <2>2. gps' \in [Bikes -> Points] /\ \A d \in Bikes : gps'[d] \in {NoPoint, gps[d]}
    BY <1>5 DEF RemoveNick, Inv, Shape, Points
  <2>3. docs' \in Collections
    BY <1>5, RemovedDocs DEF RemoveNick, Inv, Shape
  <2>4. Sourced(docs, gps)'
    <3>1. ASSUME NEW e \in DOMAIN docs'
          PROVE  e \in DOMAIN docs /\ e \in Bikes /\ docs'[e] = docs[e]
      BY <1>5, <2>3 DEF RemoveNick, Removed, Collections
    <3> QED BY <2>1, <2>2, <3>1 DEF Inv, Sourced
  <2> QED BY <2>1, <2>2, <2>3, <2>4, EditStep DEF Inv, Shape
<1>6. CASE addBicycleList \/ PageFails
  <2>1. UNCHANGED <<docs, gps, map, asked, results, named, reports>>
    BY <1>6 DEF addBicycleList, PageFails
  <2> QED BY <2>1 DEF Inv, Shape, Sourced, IsOf, MarkerIsOfName, map
<1> QED BY <1>1, <1>2, <1>3, <1>4, <1>5, <1>6 DEF World

\* The screens keep Inv: a new map starts without a position.
LEMMA ScreensStep == Inv /\ Screens => Inv'
<1> SUFFICES ASSUME Inv, Screens PROVE Inv'
  OBVIOUS
<1> USE DEF Inv, Shape, Sourced, IsOf, MarkerIsOfName, map
<1>1. CASE Back
  BY <1>1 DEF Back
<1>2. CASE Poll
  BY <1>2 DEF Poll
<1>3. CASE ShowPage
  BY <1>3 DEF ShowPage
<1>4. ASSUME NEW name \in Nicks, Open(name) PROVE Inv'
  BY <1>4 DEF Open
<1> QED BY <1>1, <1>2, <1>3, <1>4, DeliverStep DEF Screens

LEMMA InvInit == Init => Inv
BY UserAssumption DEF Init, Inv, Shape, Collections, Fields, States, Points, Sourced, MarkerIsOfName

LEMMA InvStep == Inv /\ [Next]_vars => Inv'
<1>1. Inv /\ UNCHANGED vars => Inv'
  BY DEF vars, map, Inv, Shape, Sourced, IsOf, MarkerIsOfName
<1> QED BY <1>1, ScreensStep, WorldStep DEF Next

\* The marker never leaves the positions of the user's bicycles of the touched name.
THEOREM MarkerIsTrue == Spec => []MarkerIsOfName
<1>1. Inv => MarkerIsOfName
  BY DEF Inv
<1> QED BY <1>1, InvInit, InvStep, PTL DEF Spec
-----------------------------------------------------------------------------
\* The types hold because the user's documents have nicknames, and because a screen is
\* open only after one was opened.
TypeInv == TypeOK /\ Nicknamed(docs) /\ (open => screen \in 1..MaxScreens)

\* What the user's page gathers are nicknames.
LEMMA GatheredNicks ==
    ASSUME IsCollection(docs), Nicknamed(docs), NEW nicks,
           nicks = [i \in DOMAIN Mine(docs, User) |-> docs[Mine(docs, User)[i]].nick]
    PROVE  nicks \in Seq(Nicks)
<1> DEFINE mine == Mine(docs, User)
           owned == Own(docs, User)
<1>1. owned \in SUBSET DOMAIN docs /\ mine \in Seq(owned)
  BY MineSeq
<1>2. \A d \in owned : docs[d].nick \in Nicks
  <2>1. User # NoUid
    BY UserAssumption, FieldAssumption
  <2> QED BY <1>1, <2>1 DEF IsCollection, Nicknamed, Fields, Own
<1>3. nicks = [i \in DOMAIN mine |-> docs[mine[i]].nick]
  OBVIOUS
<1> HIDE DEF mine, owned
<1> QED BY <1>1, <1>2, <1>3

\* TypeInv is inductive, together with Inv for what the answers carry.
LEMMA TypeStep == Inv /\ Inv' /\ TypeInv /\ [Next]_vars => TypeInv'
<1> SUFFICES ASSUME Inv, Inv', TypeInv, [Next]_vars PROVE TypeInv'
  OBVIOUS
<1>t. /\ TypeOK /\ Nicknamed(docs) /\ (open => screen \in 1..MaxScreens)
      /\ results \in Seq(Answers) /\ IsCollection(docs) /\ Sound(docs)
  BY DEF Inv, Shape, TypeInv, TypeOK, Sound
<1>b. {MaxScreens, MaxReports, MaxEdits} \subseteq Nat
  BY BoundAssumption
<1>g. gps' \in [Bikes -> Points] /\ IsCollection(docs')
  BY CollectionsDef DEF Inv, Shape
<1> USE DEF TypeInv, TypeOK, map, user
<1>1. ASSUME NEW name \in Nicks, Open(name) PROVE TypeInv'
  <2>1. screen' \in 1..MaxScreens
    BY <1>1, <1>t, <1>b DEF Open
  <2>2. point' \in Points /\ marker' \in Points
    BY <1>1 DEF Open, Points
  <2> QED BY <1>1, <1>t, <2>1, <2>2 DEF Open
<1>2. CASE Back
  BY <1>2, <1>t DEF Back
<1>3. CASE Poll
  <2>1. asked' \in Seq(1..MaxScreens)
    <3>1. screen \in 1..MaxScreens /\ asked \in Seq(1..MaxScreens)
      BY <1>3, <1>t DEF Poll
    <3>2. asked' = Append(asked, screen)
      BY <1>3 DEF Poll
    <3> QED BY <3>1, <3>2
  <2> QED BY <1>3, <1>t, <2>1 DEF Poll
<1>4. CASE Answer
  <2> DEFINE new == [to |-> Head(asked), docs |-> docs, gps |-> gps]
  <2>1. asked' \in Seq(1..MaxScreens) /\ Head(asked) \in 1..MaxScreens
    <3>1. asked # <<>> /\ asked \in Seq(1..MaxScreens) /\ asked' = Tail(asked)
      BY <1>4, <1>t DEF Answer
    <3> QED BY <3>1, HeadTailProperties
  <2>2. new.to \in 1..MaxScreens /\ IsCollection(new.docs)
    BY <1>t, <2>1
  <2>3. results' = Append(results, new)
    BY <1>4 DEF Answer
  <2> HIDE DEF new
  <2>4. ASSUME NEW i \in DOMAIN results'
        PROVE  results'[i] = new \/ (i \in DOMAIN results /\ results'[i] = results[i])
    BY <1>t, <2>3
  <2>5. \A i \in DOMAIN results' : results'[i].to \in 1..MaxScreens /\ IsCollection(results'[i].docs)
    BY <1>t, <2>2, <2>4
  <2> QED BY <1>4, <1>t, <2>1, <2>5 DEF Answer
<1>5. CASE Fail
  <2>1. asked' \in Seq(1..MaxScreens)
    BY <1>5, <1>t DEF Fail
  <2> QED BY <1>5, <1>t, <2>1 DEF Fail
<1>6. CASE Deliver
  <2> DEFINE answer == Head(results)
  <2>1. results # <<>> /\ results' = Tail(results)
    BY <1>6 DEF Deliver
  <2>2. answer \in Answers
    BY <1>t, <2>1
  <2>3. \A i \in DOMAIN results' : results'[i].to \in 1..MaxScreens /\ IsCollection(results'[i].docs)
    <3>1. \A i \in DOMAIN results' : i + 1 \in DOMAIN results /\ results'[i] = results[i + 1]
      BY <1>t, <2>1
    <3> QED BY <1>t, <3>1
  <2>4. \A p \in Located(answer) : p \in Points
    <3>1. Passed(answer) \subseteq Bikes
      BY <2>2 DEF Passed, Answers, Collections
    <3>2. answer.gps \in [Bikes -> Points]
      BY <2>2 DEF Answers
    <3> QED BY <1>t, <3>1, <3>2 DEF Located
  <2>5. point' \in Points /\ marker' \in Points
    <3>1. UNCHANGED <<point, marker>> \/ (point' \in Located(answer) /\ marker' \in {marker, point'})
      BY <1>6 DEF Deliver
    <3> QED BY <1>t, <2>4, <3>1
  <2> QED BY <1>6, <1>t, <2>3, <2>5 DEF Deliver
<1>7. CASE ShowPage \/ PageFails
  BY <1>7, <1>t DEF ShowPage, PageFails
<1>12. CASE addBicycleList
  <2>1. PICK nicks : /\ nicks = [i \in DOMAIN Mine(docs, User) |-> docs[Mine(docs, User)[i]].nick]
                     /\ bicycleListString' = bicycleListString \o nicks
    BY <1>12 DEF addBicycleList
  <2>2. nicks \in Seq(Nicks)
    BY <1>t, <2>1, GatheredNicks
  <2>3. bicycleListString' \in Seq(Nicks) /\ bicycleListString \in Seq(Nicks)
    BY <1>t, <2>1, <2>2
  <2>4. listed' \in {bicycleListString', listed}
    BY <1>12 DEF addBicycleList
  <2> QED BY <1>12, <1>t, <2>3, <2>4 DEF addBicycleList
<1>8. ASSUME NEW d \in Bikes, Report(d) PROVE TypeInv'
  <2>1. reports' \in 0..MaxReports
    BY <1>8, <1>t, <1>b DEF Report
  <2>2. 0 \in States
    BY DEF States
  <2>3. Nicknamed(docs')
    BY <1>8, <1>t, <2>2, WritesStaySound DEF Report, Sound
  <2> QED BY <1>8, <1>g, <1>t, <2>1, <2>3 DEF Report
<1>9. ASSUME NEW d \in Bikes, NEW name \in Nicks, NEW uid \in Users, Register(d, name, uid)
      PROVE  TypeInv'
  <2>1. edits' \in 0..MaxEdits
    BY <1>9, <1>t, <1>b DEF Register
  <2>2. Nicknamed(docs')
    BY <1>9, <1>t, WritesStaySound DEF Register, Sound
  <2>3. named' \subseteq Bikes \X Nicks
    BY <1>9, <1>t DEF Register
  <2> QED BY <1>9, <1>g, <1>t, <2>1, <2>2, <2>3 DEF Register
<1>10. ASSUME NEW name \in Nicks, RemoveNick(name) PROVE TypeInv'
  <2>1. edits' \in 0..MaxEdits
    BY <1>10, <1>t, <1>b DEF RemoveNick
  <2>2. Nicknamed(docs')
    BY <1>10, <1>t, RemovalStaysSound DEF RemoveNick, Sound
  <2> QED BY <1>10, <1>g, <1>t, <2>1, <2>2 DEF RemoveNick
<1>11. CASE UNCHANGED vars
  BY <1>11, <1>t DEF vars
<1> QED
  BY <1>1, <1>2, <1>3, <1>4, <1>5, <1>6, <1>7, <1>8, <1>9, <1>10, <1>11, <1>12
     DEF Next, Screens, World

LEMMA TypeInit == Init => TypeInv
<1> SUFFICES ASSUME Init PROVE TypeInv
  OBVIOUS
<1>1. PICK name \in [Bikes -> Nicks] : docs = [d \in Bikes |-> [uid |-> User, nick |-> name[d], state |-> 0]]
  BY DEF Init
<1>2. IsCollection(docs) /\ Nicknamed(docs) /\ \A d \in Bikes : docs[d].nick \in Nicks
  BY <1>1, UserAssumption, FieldAssumption DEF IsCollection, Fields, States, Nicknamed
<1>3. named \subseteq Bikes \X Nicks
  BY <1>2 DEF Init
<1>4. /\ screen \in 0..MaxScreens /\ reports \in 0..MaxReports /\ edits \in 0..MaxEdits
      /\ {point, marker} \subseteq Points /\ gps \in [Bikes -> Points]
  BY BoundAssumption DEF Init, Points
<1>5. /\ asked \in Seq(1..MaxScreens) /\ {bicycleListString, listed} \subseteq Seq(Nicks)
      /\ \A i \in DOMAIN results : results[i].to \in 1..MaxScreens /\ IsCollection(results[i].docs)
  BY DEF Init
<1> QED BY <1>2, <1>3, <1>4, <1>5 DEF Init, TypeInv, TypeOK

LEMMA TypeInvariant == Spec => [](Inv /\ TypeInv)
<1>1. Inv /\ TypeInv /\ [Next]_vars => (Inv /\ TypeInv)'
  BY InvStep, TypeStep
<1> QED BY InvInit, <1>1, TypeInit, PTL DEF Spec

\* Every variable keeps its type, however late an answer comes.
THEOREM TypeCorrect == Spec => []TypeOK
<1>1. TypeInv => TypeOK
  BY DEF TypeInv
<1> QED BY <1>1, TypeInvariant, PTL
=============================================================================
