----------------------------- MODULE PBMSProofs -----------------------------
(***************************************************************************)
(* What the database shows of the locks, for every number of boards, users  *)
(* and nicknames and every bound on the events.                             *)
(***************************************************************************)
EXTENDS PBMS, BikeDocsProofs

\* The shape of the state, without the alarm list, which nothing below reads.
Shape == /\ on \in [Bikes -> BOOLEAN] /\ due \in [Bikes -> BOOLEAN]
         /\ mode \in [Bikes -> States] /\ told \in [Bikes -> States]
         /\ goal \in [Bikes -> {DRIVE, LOCKED}]
         /\ bolt \in [Bikes -> {"in", "out", "loose"}]
         /\ stale \in [Bikes -> SUBSET {"missed", "app"}]
         /\ IsCollection(docs)

\* A board with power has the mode of its bolt, one without has nothing to tell.
BoltInv(d) == /\ on[d] /\ bolt[d] = "in" => mode[d] \in {LOCKED, STEEL}
              /\ on[d] /\ bolt[d] = "out" => mode[d] = DRIVE
              /\ ~on[d] => bolt[d] = "loose" /\ ~due[d]
              /\ due[d] => bolt[d] # "loose"

\* A board that has nothing to tell and missed nothing has told its mode.
ToldInv(d) == on[d] /\ ~due[d] /\ "missed" \notin stale[d] => told[d] = mode[d]

\* A document holds what the board told, or the 0 that the app wrote since.
DocInv(d) == d \in DOMAIN docs => /\ docs[d].state \in {told[d], DRIVE}
                                  /\ "app" \notin stale[d] => docs[d].state = told[d]

BoardInv(d) == BoltInv(d) /\ ToldInv(d) /\ DocInv(d)

Inv == Shape /\ \A d \in Bikes : BoardInv(d)
-----------------------------------------------------------------------------
\* The codes of states and commands are these numbers.
LEMMA Codes == DRIVE = 0 /\ LOCKED = 1 /\ STEEL = 2 /\ OPEN = 0 /\ CLOSE = 1
               /\ States = {0, 1, 2}
BY DEF DRIVE, LOCKED, STEEL, OPEN, CLOSE, States

\* A patch from the board of d: the document of d has the state, the others stay.
LEMMA PatchedDocs ==
    ASSUME IsCollection(docs), NEW d \in Bikes, NEW s \in States
    PROVE  LET after == Patched(docs, d, s)
           IN  /\ IsCollection(after)
               /\ DOMAIN after = DOMAIN docs \cup {d}
               /\ after[d].state = s
               /\ \A e \in DOMAIN docs \ {d} : after[e] = docs[e]
BY DEF Patched, Put, IsCollection, Fields

\* A registration of d: its document is replaced, with the state 0.
LEMMA RegisteredDocs ==
    ASSUME IsCollection(docs), NEW d \in Bikes, NEW nick \in Nicks, NEW uid \in Users
    PROVE  LET after == Registered(docs, d, nick, uid)
           IN  /\ IsCollection(after)
               /\ DOMAIN after = DOMAIN docs \cup {d}
               /\ after[d].state = DRIVE
               /\ \A e \in DOMAIN docs \ {d} : after[e] = docs[e]
BY Codes DEF Registered, Put, IsCollection, Fields

\* A write of the alarm screen: 0 in the document of d, if it exists.
LEMMA UpdatedDocs ==
    ASSUME IsCollection(docs), NEW d
    PROVE  LET after == Updated(docs, d, DRIVE)
           IN  /\ IsCollection(after)
               /\ DOMAIN after = DOMAIN docs
               /\ \A e \in DOMAIN docs :
                     after[e].state = IF e = d THEN DRIVE ELSE docs[e].state
BY Codes DEF Updated, IsCollection, Fields
-----------------------------------------------------------------------------
\* The shape of what the boards' steps change.
LEMMA BoardShape ==
    ASSUME Shape, NEW d \in Bikes, Board(d)
    PROVE  Shape'
<1> USE Codes DEF Shape
<1>1. CASE PowerOn(d)
  BY <1>1 DEF PowerOn
<1>2. CASE PowerOff(d)
  BY <1>2 DEF PowerOff
<1>3. CASE ReadCommand(d)
  BY <1>3 DEF ReadCommand, Dispatch
<1>4. CASE Finish(d)
  BY <1>4 DEF Finish, ReachedMode
<1>5. CASE RaiseTheft(d)
  BY <1>5 DEF RaiseTheft
<1>6. CASE Send(d)
  <2>1. mode[d] \in States
    OBVIOUS
  <2>2. IsCollection(docs')
    BY <1>6, <2>1, PatchedDocs DEF Send
  <2> QED BY <1>6, <2>2 DEF Send
<1>7. CASE Drop(d)
  BY <1>7 DEF Drop
<1> QED BY <1>1, <1>2, <1>3, <1>4, <1>5, <1>6, <1>7 DEF Board, Program

\* A step of one board keeps what is known of all boards.
LEMMA BoardStep ==
    ASSUME Inv, NEW d \in Bikes, Board(d)
    PROVE  Inv'
<1>s. Shape /\ Shape'
  BY BoardShape DEF Inv
<1> SUFFICES ASSUME NEW e \in Bikes PROVE BoardInv(e)'
  BY <1>s DEF Inv
<1>e. BoardInv(e)
  BY DEF Inv
<1>p. Send(d) => /\ DOMAIN docs' = DOMAIN docs \cup {d}
                 /\ docs'[d].state = mode[d]
                 /\ \A f \in DOMAIN docs \ {d} : docs'[f] = docs[f]
  <2>1. IsCollection(docs) /\ mode[d] \in States
    BY <1>s DEF Shape
  <2>2. Send(d) => docs' = Patched(docs, d, mode[d])
    BY DEF Send
  <2> QED BY <2>1, <2>2, PatchedDocs
<1> USE Codes DEF Shape, BoardInv, BoltInv, ToldInv, DocInv, lock, app
<1>1. CASE PowerOn(d)
  BY <1>s, <1>e, <1>1 DEF PowerOn
<1>2. CASE PowerOff(d)
  BY <1>s, <1>e, <1>2 DEF PowerOff
<1>3. CASE ReadCommand(d)
  BY <1>s, <1>e, <1>3 DEF ReadCommand, Dispatch
<1>4. CASE Finish(d)
  BY <1>s, <1>e, <1>4 DEF Finish, ReachedMode
<1>5. CASE RaiseTheft(d)
  BY <1>s, <1>e, <1>5 DEF RaiseTheft, Stolen
<1>6. CASE Send(d)
  <2>1. /\ UNCHANGED <<on, mode, bolt, goal>>
        /\ due' = [due EXCEPT ![d] = FALSE]
        /\ told' = [told EXCEPT ![d] = mode[d]]
        /\ stale' = [stale EXCEPT ![d] = {}]
    BY <1>6 DEF Send
  <2>2. CASE e = d
    BY <1>s, <1>e, <1>p, <1>6, <2>1, <2>2
  <2>3. CASE e # d
    BY <1>s, <1>e, <1>p, <1>6, <2>1, <2>3
  <2> QED BY <2>2, <2>3
<1>7. CASE Drop(d)
  BY <1>s, <1>e, <1>7 DEF Drop
<1> QED BY <1>1, <1>2, <1>3, <1>4, <1>5, <1>6, <1>7 DEF Board, Program

\* A step of the app keeps it: all the app writes is 0, and it is remembered in stale.
LEMMA AppStep == Inv /\ App => Inv'
<1> SUFFICES ASSUME Inv, App PROVE Inv'
  OBVIOUS
<1>s. Shape
  BY DEF Inv
<1>r. ASSUME NEW d \in Bikes, NEW nick \in Nicks, NEW uid \in Users, Register(d, nick, uid)
      PROVE  /\ IsCollection(docs')
             /\ DOMAIN docs' = DOMAIN docs \cup {d}
             /\ docs'[d].state = DRIVE
             /\ \A e \in DOMAIN docs \ {d} : docs'[e] = docs[e]
  <2>1. IsCollection(docs)
    BY <1>s DEF Shape
  <2>2. docs' = Registered(docs, d, nick, uid)
    BY <1>r DEF Register
  <2> QED BY <2>1, <2>2, RegisteredDocs
<1> USE Codes DEF Shape, Inv, BoardInv, BoltInv, ToldInv, DocInv, boards, lock, app
<1>1. ASSUME UNCHANGED <<lock, goal, docs, stale>> PROVE Inv'
  BY <1>1
<1>2. CASE List \/ (\E c \in {OPEN, CLOSE} : Tap(c)) \/ \E d \in Bikes : Connect(d)
  BY <1>1, <1>2 DEF List, Tap, Connect
<1>3. ASSUME NEW nick \in DOMAIN rows, Clear(nick) PROVE Inv'
  <2>1. /\ IsCollection(docs')
        /\ DOMAIN docs' = DOMAIN docs
        /\ \A e \in DOMAIN docs :
              docs'[e].state = IF e = rows[nick] THEN DRIVE ELSE docs[e].state
    BY <1>s, <1>3, UpdatedDocs DEF Clear
  <2>2. /\ UNCHANGED <<lock, goal>>
        /\ stale' = [stale EXCEPT ![rows[nick]] = @ \cup {"app"}]
    BY <1>3 DEF Clear
  <2>3. Shape'
    BY <1>s, <2>1, <2>2
  <2>4. ASSUME NEW e \in Bikes PROVE BoardInv(e)'
    BY <1>s, <2>1, <2>2, <2>4
  <2> QED BY <2>3, <2>4
<1>4. ASSUME NEW d \in Bikes, NEW nick \in Nicks, NEW uid \in Users, Register(d, nick, uid)
      PROVE  Inv'
  <2>1. /\ IsCollection(docs')
        /\ DOMAIN docs' = DOMAIN docs \cup {d}
        /\ docs'[d].state = DRIVE
        /\ \A e \in DOMAIN docs \ {d} : docs'[e] = docs[e]
    BY <1>4, <1>r
  <2>2. /\ UNCHANGED <<lock, goal>>
        /\ stale' = [stale EXCEPT ![d] = @ \cup {"app"}]
    BY <1>4 DEF Register
  <2>3. Shape'
    BY <1>s, <2>1, <2>2
  <2>4. ASSUME NEW e \in Bikes PROVE BoardInv(e)'
    <3>1. BoardInv(e) /\ UNCHANGED <<on, mode, bolt, due, told>>
      BY <2>2, <2>4
    <3>2. CASE e = d
      BY <1>s, <2>1, <2>2, <3>1, <3>2
    <3>3. CASE e # d
      BY <1>s, <2>1, <2>2, <3>1, <3>3
    <3> QED BY <3>2, <3>3
  <2> QED BY <2>3, <2>4
<1>5. ASSUME NEW nick \in Nicks, RemoveNick(nick) PROVE Inv'
  <2>1. /\ UNCHANGED <<lock, goal, stale>>
        /\ IsCollection(docs')
        /\ DOMAIN docs' \subseteq DOMAIN docs
        /\ \A e \in DOMAIN docs' : docs'[e] = docs[e]
    BY <1>s, <1>5 DEF RemoveNick, Removed, IsCollection
  <2> QED BY <1>s, <2>1
<1> QED BY <1>2, <1>3, <1>4, <1>5 DEF App

\* Inv is inductive.
LEMMA Invariant == Spec => []Inv
<1>1. Init => Inv
  BY Codes, UserAssumption DEF Init, Inv, Shape, IsCollection, Fields, BoardInv, BoltInv, ToldInv, DocInv
<1>2. Inv /\ [Next]_vars => Inv'
  <2>1. Inv /\ UNCHANGED vars => Inv'
    BY DEF vars, Inv, Shape, BoardInv, BoltInv, ToldInv, DocInv
  <2> QED BY <2>1, BoardStep, AppStep DEF Next
<1> QED BY <1>1, <1>2, PTL DEF Spec

\* What the database shows of a lock at rest is true of its bolt, up to dropped
\* updates, restarts and the 0 that the app writes.
THEOREM ShownStateIsTrue == Spec => []ShownIsTrue
<1>1. Inv => ShownIsTrue
  BY Codes DEF Inv, Shape, IsCollection, BoardInv, BoltInv, ToldInv, DocInv, ShownIsTrue
<1> QED BY <1>1, Invariant, PTL
-----------------------------------------------------------------------------
\* A step of a board is a step of its own lock, or none that the lock can see.
LEMMA BoardIsLock ==
    ASSUME Inv, NEW d \in Bikes, Board(d)
    PROVE  [Lock(d)!Next]_(Lock(d)!vars)
<1>s. Shape /\ BoltInv(d)
  BY DEF Inv, BoardInv
<1> USE Codes DEF Shape, BoltInv, lock, app, Lock!Next, Lock!vars, Lock!DRIVE, Lock!LOCKED, Lock!STEEL
<1>1. CASE PowerOn(d)
  BY <1>s, <1>1 DEF PowerOn, Lock!PowerOn
<1>2. CASE PowerOff(d)
  BY <1>s, <1>2 DEF PowerOff, Lock!PowerOff
<1>3. CASE ReadCommand(d)
  BY <1>s, <1>3 DEF ReadCommand, Dispatch, Lock!StartMoving
<1>4. CASE Finish(d)
  BY <1>s, <1>4 DEF Finish, ReachedMode, Lock!FinishLock, Lock!FinishUnlock
<1>5. CASE RaiseTheft(d)
  BY <1>s, <1>5 DEF RaiseTheft, Stolen, Lock!RaiseTheft
<1>6. CASE Send(d) \/ Drop(d)
  BY <1>s, <1>6 DEF Send, Drop, Lock!Report
<1> QED BY <1>1, <1>2, <1>3, <1>4, <1>5, <1>6 DEF Board, Program

\* No other step touches the variables of the lock.
LEMMA OthersLeaveLock ==
    ASSUME Shape, NEW d \in Bikes,
           App \/ UNCHANGED vars \/ \E e \in Bikes \ {d} : Board(e)
    PROVE  UNCHANGED Lock(d)!vars
<1> USE DEF Shape, lock, boards, app, Lock!vars
<1>1. CASE App \/ UNCHANGED vars
  <2>1. UNCHANGED <<on, mode, bolt, due, told>>
    BY <1>1 DEF App, List, Tap, Connect, Clear, Register, RemoveNick, vars
  <2> QED BY <2>1
<1>2. ASSUME NEW e \in Bikes \ {d}, Board(e) PROVE UNCHANGED Lock(d)!vars
  <2>1. CASE PowerOn(e) \/ PowerOff(e)
    BY <2>1 DEF PowerOn, PowerOff
  <2>2. CASE ReadCommand(e)
    BY <2>2 DEF ReadCommand, Dispatch
  <2>3. CASE Finish(e) \/ RaiseTheft(e)
    BY <2>3 DEF Finish, RaiseTheft
  <2>4. CASE Send(e) \/ Drop(e)
    BY <2>4 DEF Send, Drop
  <2> QED BY <1>2, <2>1, <2>2, <2>3, <2>4 DEF Board, Program
<1> QED BY <1>1, <1>2

\* Each board of the system is a lock of BikeLock, in every behaviour.
THEOREM EachBoardIsALock == Spec => BoardsAreLocks
<1>1. Init => \A d \in Bikes : Lock(d)!Init
  BY Codes DEF Init, Lock!Init, Lock!DRIVE
<1>2. Inv /\ [Next]_vars => \A d \in Bikes : [Lock(d)!Next]_(Lock(d)!vars)
  BY BoardIsLock, OthersLeaveLock DEF Next, Inv
<1> QED BY <1>1, <1>2, Invariant, PTL DEF Spec, BoardsAreLocks
-----------------------------------------------------------------------------
\* The alarm list holds texts and bicycles because a document with an owner has a
\* nickname: a document that a board created is never shown.
TypeInv == TypeOK /\ Nicknamed(docs)

\* A poll gives each new text the first stolen document that has it.
LEMMA ListType ==
    ASSUME TypeInv, List
    PROVE  DOMAIN rows' \subseteq Nicks /\ rows' \in [DOMAIN rows' -> Bikes]
<1> DEFINE Of(n) == {d \in Thefts : docs[d].nick = n}
<1>t. /\ IsCollection(docs) /\ Nicknamed(docs)
      /\ DOMAIN rows \subseteq Nicks /\ rows \in [DOMAIN rows -> Bikes]
  BY DEF TypeInv, TypeOK
<1>1. Thefts \subseteq DOMAIN docs /\ \A d \in Thefts : docs[d].nick \in Nicks
  <2>1. User # NoUid
    BY UserAssumption, FieldAssumption
  <2> QED BY <1>t, <2>1 DEF Thefts, Reached, IsCollection, Nicknamed, Fields
<1>2. Texts \subseteq Nicks
  BY <1>1 DEF Texts
<1>3. ASSUME NEW n \in Texts PROVE Ascending(Of(n))[1] \in Bikes
  <2>1. Of(n) \in SUBSET DOMAIN docs /\ Of(n) # {}
    BY <1>1 DEF Texts
  <2> HIDE DEF Of
  <2>2. IsFiniteSet(Of(n)) /\ Of(n) \in SUBSET Int
    BY <1>t, <2>1, Selection
  <2>3. Cardinality(Of(n)) \in Nat /\ Cardinality(Of(n)) # 0
    BY <2>1, <2>2, FS_CardinalityType, FS_EmptySet
  <2>4. Ascending(Of(n)) \in [1..Cardinality(Of(n)) -> Of(n)]
    BY <2>2, AscendingSeq
  <2>5. Ascending(Of(n))[1] \in Of(n)
    BY <2>3, <2>4
  <2> QED BY <1>t, <2>1, <2>5 DEF IsCollection
<1>4. rows' = [n \in DOMAIN rows \cup Texts |->
                 IF n \in DOMAIN rows THEN rows[n] ELSE Ascending(Of(n))[1]]
  BY DEF List
<1> HIDE DEF Of
<1> QED BY <1>t, <1>2, <1>3, <1>4

\* TypeInv is inductive.
LEMMA TypeStep == TypeInv /\ [Next]_vars => TypeInv'
<1> SUFFICES ASSUME TypeInv, [Next]_vars PROVE TypeInv'
  OBVIOUS
<1>t. TypeOK /\ Sound(docs)
  BY DEF TypeInv, TypeOK, Sound
<1>s. ASSUME NEW kind \in Kinds, Spend(kind) PROVE spent' \in [Kinds -> Nat]
  BY <1>s, <1>t DEF Spend, TypeOK
<1>k. {"taps", "thefts", "drops", "cuts", "edits"} = Kinds
  BY DEF Kinds
<1>w. \A d \in Bikes : wire[d] \in Seq({OPEN, CLOSE})
  BY <1>t DEF TypeOK
<1> SUFFICES TypeOK' /\ Sound(docs')
  BY DEF TypeInv, Sound
<1>d. UNCHANGED docs => Sound(docs')
  BY <1>t
<1> USE Codes DEF TypeOK, lock, boards, app
<1>1. ASSUME NEW d \in Bikes, PowerOn(d) \/ ReadCommand(d) \/ Finish(d)
      PROVE  TypeOK' /\ Sound(docs')
  <2>1. <<>> \in Seq({OPEN, CLOSE})
    OBVIOUS
  <2>2. CASE PowerOn(d)
    BY <1>d, <1>t, <2>2 DEF PowerOn, Sound
  <2>3. CASE ReadCommand(d)
    BY <1>d, <1>t, <2>1, <2>3 DEF ReadCommand, Dispatch, Sound
  <2>4. CASE Finish(d)
    BY <1>d, <1>t, <2>4 DEF Finish, ReachedMode, Sound
  <2> QED BY <1>1, <2>2, <2>3, <2>4
<1>2. ASSUME NEW d \in Bikes, PowerOff(d) PROVE TypeOK' /\ Sound(docs')
  <2>1. <<>> \in Seq({OPEN, CLOSE})
    OBVIOUS
  <2>2. spent' \in [Kinds -> Nat]
    BY <1>2, <1>k, <1>s DEF PowerOff
  <2> QED BY <1>2, <1>d, <1>t, <2>1, <2>2 DEF PowerOff, Sound
<1>3. ASSUME NEW d \in Bikes, RaiseTheft(d) \/ Drop(d) PROVE TypeOK' /\ Sound(docs')
  <2>1. spent' \in [Kinds -> Nat]
    BY <1>3, <1>k, <1>s DEF RaiseTheft, Drop
  <2>2. CASE RaiseTheft(d)
    BY <1>d, <1>t, <2>1, <2>2 DEF RaiseTheft, Sound
  <2>3. CASE Drop(d)
    BY <1>d, <1>t, <2>1, <2>3 DEF Drop, Sound
  <2> QED BY <1>3, <2>2, <2>3
<1>4. ASSUME NEW d \in Bikes, Send(d) PROVE TypeOK' /\ Sound(docs')
  <2>1. mode[d] \in States
    BY <1>t
  <2>2. Sound(docs')
    BY <1>4, <1>t, <2>1, WritesStaySound DEF Send
  <2> QED BY <1>4, <1>t, <2>2 DEF Send, Sound
<1>5. CASE List
  <2>1. DOMAIN rows' \subseteq Nicks /\ rows' \in [DOMAIN rows' -> Bikes]
    BY <1>5, ListType
  <2>2. UNCHANGED <<boards, wire, docs, connected, stale, spent>>
    BY <1>5 DEF List
  <2> QED BY <1>d, <1>t, <2>1, <2>2 DEF Sound
<1>6. ASSUME NEW c \in {OPEN, CLOSE}, Tap(c) PROVE TypeOK' /\ Sound(docs')
  <2>1. spent' \in [Kinds -> Nat]
    BY <1>6, <1>k, <1>s DEF Tap
  <2>2. wire' \in [Bikes -> Seq({OPEN, CLOSE})]
    <3>1. \A d \in Bikes : Append(wire[d], c) \in Seq({OPEN, CLOSE})
      BY <1>w
    <3> QED BY <1>6, <1>t, <3>1 DEF Tap
  <2> QED BY <1>6, <1>d, <1>t, <2>1, <2>2 DEF Tap, Sound
<1>7. ASSUME NEW d \in Bikes, Connect(d) PROVE TypeOK' /\ Sound(docs')
  BY <1>7, <1>d, <1>t DEF Connect, Sound
<1>8. ASSUME NEW nick \in DOMAIN rows, Clear(nick) PROVE TypeOK' /\ Sound(docs')
  <2>1. rows[nick] \in Bikes
    BY <1>t
  <2>2. Sound(docs')
    BY <1>8, <1>t, <2>1, WritesStaySound DEF Clear
  <2> QED BY <1>8, <1>t, <2>1, <2>2 DEF Clear, Sound
<1>9. ASSUME NEW d \in Bikes, NEW nick \in Nicks, NEW uid \in Users, Register(d, nick, uid)
      PROVE  TypeOK' /\ Sound(docs')
  <2>1. spent' \in [Kinds -> Nat]
    BY <1>9, <1>k, <1>s DEF Register
  <2>2. Sound(docs')
    BY <1>9, <1>t, WritesStaySound DEF Register
  <2> QED BY <1>9, <1>t, <2>1, <2>2 DEF Register, Sound
<1>10. ASSUME NEW nick \in Nicks, RemoveNick(nick) PROVE TypeOK' /\ Sound(docs')
  <2>1. spent' \in [Kinds -> Nat]
    BY <1>10, <1>k, <1>s DEF RemoveNick
  <2>2. Sound(docs')
    BY <1>10, <1>t, RemovalStaysSound DEF RemoveNick
  <2> QED BY <1>10, <1>t, <2>1, <2>2 DEF RemoveNick, Sound
<1>11. CASE UNCHANGED vars
  BY <1>11, <1>d, <1>t DEF vars, Sound
<1> QED
  BY <1>1, <1>2, <1>3, <1>4, <1>5, <1>6, <1>7, <1>8, <1>9, <1>10, <1>11
  DEF Next, App, Board, Program

\* Every variable keeps its type: a row of the alarm list is a nickname and the
\* document it clears exists or existed as a bicycle's.
THEOREM TypeCorrect == Spec => []TypeOK
<1>1. Init => TypeInv
  <2> SUFFICES ASSUME Init PROVE TypeInv
    OBVIOUS
  <2>1. IsCollection(docs) /\ Nicknamed(docs)
    BY Codes, UserAssumption, FieldAssumption DEF Init, IsCollection, Fields, Nicknamed
  <2>2. DOMAIN rows \subseteq Nicks /\ rows \in [DOMAIN rows -> Bikes]
    BY DEF Init
  <2>3. wire \in [Bikes -> Seq({OPEN, CLOSE})]
    <3>1. <<>> \in Seq({OPEN, CLOSE})
      OBVIOUS
    <3> QED BY <3>1 DEF Init
  <2> QED BY Codes, <2>1, <2>2, <2>3 DEF Init, TypeInv, TypeOK
<1>2. TypeInv => TypeOK
  BY DEF TypeInv
<1> QED BY <1>1, <1>2, TypeStep, PTL DEF Spec
=============================================================================
