---------------------------- MODULE BleLinkProofs ----------------------------
(***************************************************************************)
(* What the phone remembers of its link, for every set of peripherals and   *)
(* every order of callbacks, touches and drops.                             *)
(***************************************************************************)
EXTENDS BleLink, TLAPS, FiniteSetTheorems

\* CoreBluetooth's promises (phase, linked) change in the callbacks, in a choice
\* of the rider and in the world; every other step leaves the stored peripheral
\* and the links alone.
Quiet == UNCHANGED <<linked, dropped, connected>>

\* Touches and callbacks other than didConnect, and events of the world other
\* than a lost link, a failed discovery or a switch of Bluetooth, disturb nothing.
LEMMA QuietSteps ==
    ASSUME \/ Touch \/ DidDiscover \/ Release
           \/ \E p \in Peripherals :
                 \/ DidDiscoverServices(p) \/ DidDiscoverCharacteristics(p)
                 \/ ConnectFails(p)
    PROVE  Quiet
<1>1. ASSUME Touch PROVE Quiet
  BY <1>1 DEF Touch, OpenScan, Select, ConfirmAlert, SwipeAway, OpenMap, CloseMap, Tap,
              Quiet, central, serial, screens, history
<1>2. ASSUME DidDiscover \/ Release PROVE Quiet
  BY <1>2 DEF DidDiscover, Release, Quiet, central, serial, screens, history
<1>3. ASSUME NEW p \in Peripherals,
             \/ DidDiscoverServices(p) \/ DidDiscoverCharacteristics(p)
             \/ ConnectFails(p)
      PROVE  Quiet
  BY <1>3 DEF DidDiscoverServices, DidDiscoverCharacteristics, ConnectFails, Quiet,
              serial, screens, history
<1> QED BY <1>1, <1>2, <1>3

\* StaleOnlyAfterDrop is inductive: didConnect stores a peripheral it has just
\* linked, a lost link is remembered in dropped, a switch of Bluetooth forgets.
LEMMA StaleStep == StaleOnlyAfterDrop /\ [Next]_vars => StaleOnlyAfterDrop'
<1> SUFFICES ASSUME StaleOnlyAfterDrop, [Next]_vars PROVE StaleOnlyAfterDrop'
  OBVIOUS
<1>1. ASSUME Quiet PROVE StaleOnlyAfterDrop'
  BY <1>1 DEF Quiet, StaleOnlyAfterDrop
<1>2. ASSUME NEW p \in Peripherals, DidConnect(p) PROVE StaleOnlyAfterDrop'
  BY <1>2 DEF DidConnect, StaleOnlyAfterDrop
<1>3. ASSUME NEW p \in Peripherals, Drop(p) PROVE StaleOnlyAfterDrop'
  BY <1>3 DEF Drop, serial, StaleOnlyAfterDrop
<1>4. CASE Switch
  BY <1>4 DEF Switch, Forget, StaleOnlyAfterDrop
<1>5. ASSUME NEW p \in Peripherals, DiscoveryFails(p) PROVE StaleOnlyAfterDrop'
  BY <1>5 DEF DiscoveryFails, StaleOnlyAfterDrop
<1>6. CASE UNCHANGED vars
  BY <1>1, <1>6 DEF vars, Quiet
<1> QED
  BY <1>1, <1>2, <1>3, <1>4, <1>5, <1>6, QuietSteps DEF Next, World, Callback

\* The peripheral the app stores as connected is connected, or its link broke
\* without the app being told.
THEOREM StoredLinkIsReal == Spec => []StaleOnlyAfterDrop
<1>1. Init => StaleOnlyAfterDrop
  BY DEF Init, StaleOnlyAfterDrop
<1> QED BY <1>1, StaleStep, PTL DEF Spec
-----------------------------------------------------------------------------
\* What CoreBluetooth's phases say of the links, and of what the app has stored while
\* no link broke.
LinkInv ==
    /\ phase \in [Peripherals -> Phases]
    /\ linked \subseteq Peripherals
    /\ \A p \in Peripherals :
          /\ phase[p] \in {"linked", "services", "found"} => p \in linked
          /\ phase[p] # "idle" => power
    /\ linked # {} => power /\ connected # None
    /\ StaleOnlyAfterDrop
    /\ \A p \in Peripherals \ Foreign :
          dropped = {} /\ linked = {p} /\ phase[p] = "found" => writeChar = p

\* LinkInv is inductive: a characteristic is stored for a linked peripheral only, and
\* the one of the only linked peripheral is not released.
LEMMA LinkStep == LinkInv /\ [Next]_vars => LinkInv'
<1> SUFFICES ASSUME LinkInv, [Next]_vars PROVE LinkInv'
  OBVIOUS
<1>s. StaleOnlyAfterDrop'
  BY StaleStep DEF LinkInv
<1> USE DEF LinkInv, Phases
<1>1. ASSUME UNCHANGED <<power, phase, linked, connected, dropped, writeChar>>
      PROVE  LinkInv'
  BY <1>s, <1>1
<1>2. CASE OpenScan \/ ConfirmAlert \/ SwipeAway \/ OpenMap \/ CloseMap \/ Tap \/ DidDiscover
  <2>1. UNCHANGED <<power, phase, linked, connected, dropped, writeChar>>
    BY <1>2 DEF OpenScan, ConfirmAlert, SwipeAway, OpenMap, CloseMap, Tap, DidDiscover,
                central, serial, screens, history
  <2> QED BY <1>1, <2>1
<1>3. CASE Select
  <2>1. /\ UNCHANGED <<power, linked, connected, dropped, writeChar>>
        /\ \E q : phase' = IF power THEN [phase EXCEPT ![q] = "asked"] ELSE phase
    BY <1>3 DEF Select
  <2>2. /\ phase' \in [Peripherals -> Phases]
        /\ \A p \in Peripherals : phase'[p] = phase[p] \/ (power /\ phase'[p] = "asked")
    BY <2>1
  <2> QED BY <1>s, <2>1, <2>2
<1>4. ASSUME NEW p \in Peripherals, DidConnect(p) PROVE LinkInv'
  <2>1. power /\ p # None
    BY <1>4, NoneAssumption DEF DidConnect
  <2> QED BY <1>s, <1>4, <2>1 DEF DidConnect
<1>5. ASSUME NEW p \in Peripherals, DidDiscoverServices(p) PROVE LinkInv'
  BY <1>s, <1>5 DEF DidDiscoverServices, serial, history
<1>6. ASSUME NEW p \in Peripherals, DidDiscoverCharacteristics(p) PROVE LinkInv'
  <2>1. p \in linked
    BY <1>6 DEF DidDiscoverCharacteristics
  <2>2. /\ UNCHANGED <<power, linked, connected, dropped>>
        /\ phase' = [phase EXCEPT ![p] = "found"]
        /\ IF p \in Foreign THEN UNCHANGED writeChar ELSE writeChar' = p
    BY <1>6 DEF DidDiscoverCharacteristics, Stored, history
  <2> QED BY <1>s, <2>1, <2>2
<1>7. ASSUME NEW p \in Peripherals, Drop(p) PROVE LinkInv'
  BY <1>s, <1>7 DEF Drop, serial
<1>8. ASSUME NEW p \in Peripherals, ConnectFails(p) PROVE LinkInv'
  BY <1>s, <1>8 DEF ConnectFails, serial, history
<1>9. CASE Switch
  BY <1>s, <1>9 DEF Switch, history
<1>10. CASE Release
  <2>1. UNCHANGED <<power, phase, linked, connected, dropped>>
    BY <1>10 DEF Release, central, history
  <2>2. ASSUME NEW p \in Peripherals \ Foreign, dropped = {}, linked = {p}, phase[p] = "found"
        PROVE  FALSE
    <3>1. writeChar = p /\ connected = p
      BY <2>2 DEF StaleOnlyAfterDrop
    <3> QED BY <1>10, <2>2, <3>1 DEF Release
  <2> QED BY <1>s, <2>1, <2>2
<1>11. ASSUME NEW p \in Peripherals, DiscoveryFails(p) PROVE LinkInv'
  BY <1>s, <1>11 DEF DiscoveryFails
<1>12. CASE UNCHANGED vars
  BY <1>1, <1>12 DEF vars
<1> QED
  BY <1>2, <1>3, <1>4, <1>5, <1>6, <1>7, <1>8, <1>9, <1>10, <1>11, <1>12
  DEF Next, Touch, World, Callback

\* The only connected lock can be tapped as soon as its characteristic is named, unless
\* a link broke, whatever attempts and switches of Bluetooth came before.
THEOREM FoundLockIsReady == Spec => []FoundIsReady
<1>1. Init => LinkInv
  BY DEF Init, LinkInv, Phases, StaleOnlyAfterDrop
<1>2. LinkInv => FoundIsReady
  BY NoneAssumption DEF LinkInv, FoundIsReady, bluetoothIsReady, StaleOnlyAfterDrop
<1> QED BY <1>1, <1>2, LinkStep, PTL DEF Spec
-----------------------------------------------------------------------------
\* The table of the scan screen and the types it rests on.
Rows == [p : Peripherals, rssi : Signals \cup {0}]

\* The arrays of a finite set of rows are sequences of them.
LEMMA ArrangedRows ==
    ASSUME NEW R, IsFiniteSet(R), NEW s \in Arranged(R)
    PROVE  s \in Seq(R)
<1>1. Cardinality(R) \in Nat
  BY FS_CardinalityType
<1> QED BY <1>1 DEF Arranged

\* The rows of finitely many peripherals, and of an array, are finitely many.
LEMMA RowsAreFinite ==
    /\ \A S \in SUBSET Peripherals : IsFiniteSet({Retrieved(p) : p \in S})
    /\ \A s \in Seq(Rows) : IsFiniteSet(Range(s))
<1>1. ASSUME NEW S \in SUBSET Peripherals PROVE IsFiniteSet({Retrieved(p) : p \in S})
  <2> DEFINE f == [p \in S |-> Retrieved(p)]
             T == {Retrieved(p) : p \in S}
  <2>1. f \in Surjection(S, T)
    BY DEF Surjection
  <2>2. IsFiniteSet(S)
    BY ReachAssumption, FS_Subset
  <2> HIDE DEF f, T
  <2>3. IsFiniteSet(T)
    BY <2>1, <2>2, FS_Surjection
  <2> QED BY <2>3 DEF T
<1>2. ASSUME NEW s \in Seq(Rows) PROVE IsFiniteSet(Range(s))
  <2>1. s \in Surjection(1..Len(s), Range(s))
    BY DEF Surjection, Range
  <2>2. IsFiniteSet(1..Len(s))
    BY FS_Interval
  <2> QED BY <2>1, <2>2, FS_Surjection
<1> QED BY <1>1, <1>2

\* The two handlers that fill the table: what they arrange is finite, and its rows are
\* those of peripherals.
LEMMA FilledTable ==
    ASSUME TypeOK, OpenScan \/ DidDiscover
    PROVE  list' \in Seq(Rows)
<1>0. linked \subseteq Peripherals /\ list \in Seq(Rows)
  BY DEF TypeOK, Rows
<1>1. ASSUME NEW R \in SUBSET Rows, IsFiniteSet(R), list' \in Arranged(R)
      PROVE  list' \in Seq(Rows)
  <2>1. list' \in Seq(R)
    BY <1>1, ArrangedRows
  <2> QED BY <2>1
<1>2. CASE OpenScan
  <2>1. CASE power
    <3> DEFINE R == {Retrieved(p) : p \in linked}
    <3>1. list' \in Arranged(R)
      BY <1>2, <2>1 DEF OpenScan
    <3>2. R \in SUBSET Rows
      BY <1>0 DEF Retrieved, Rows
    <3>3. IsFiniteSet(R)
      BY <1>0, RowsAreFinite
    <3> HIDE DEF R
    <3> QED BY <1>1, <3>1, <3>2, <3>3
  <2>2. CASE ~power
    BY <1>2, <2>2 DEF OpenScan
  <2> QED BY <2>1, <2>2
<1>3. CASE DidDiscover
  <2>1. PICK p \in Peripherals, r \in Signals :
           IF Known(p) THEN UNCHANGED list
           ELSE list' \in Arranged(Range(list) \cup {[p |-> p, rssi |-> r]})
    BY <1>3 DEF DidDiscover
  <2>2. CASE Known(p)
    BY <1>0, <2>1, <2>2
  <2>3. CASE ~Known(p)
    <3> DEFINE new == [p |-> p, rssi |-> r]
               R == Range(list) \cup {new}
    <3>1. list' \in Arranged(R)
      BY <2>1, <2>3
    <3>2. R \in SUBSET Rows
      <4>1. \A i \in DOMAIN list : list[i] \in Rows
        BY <1>0
      <4>2. new \in Rows
        BY DEF Rows
      <4> QED BY <4>1, <4>2 DEF Range
    <3>3. IsFiniteSet(R)
      BY <1>0, RowsAreFinite, FS_AddElement
    <3> HIDE DEF R
    <3> QED BY <1>1, <3>1, <3>2, <3>3
  <2> QED BY <2>2, <2>3
<1> QED BY <1>2, <1>3

\* TypeOK is inductive: a row that is touched is one of the table.
LEMMA TypeStep == TypeOK /\ [Next]_vars => TypeOK'
<1> SUFFICES ASSUME TypeOK, [Next]_vars PROVE TypeOK'
  OBVIOUS
<1>t. list \in Seq(Rows) /\ MaxSelects \in Nat
  BY SelectAssumption DEF TypeOK, Rows
<1>1. CASE OpenScan
  <2>1. list' \in Seq(Rows)
    BY <1>1, FilledTable
  <2> QED BY <1>1, <2>1 DEF OpenScan, TypeOK, Rows, serial, history
<1>2. CASE DidDiscover
  <2>1. list' \in Seq(Rows)
    BY <1>2, FilledTable
  <2> QED BY <1>2, <2>1 DEF DidDiscover, TypeOK, Rows, central, serial, history
<1>3. CASE Select
  <2>1. PICK i \in DOMAIN list :
           /\ pending' = list[i].p
           /\ phase' = IF power THEN [phase EXCEPT ![list[i].p] = "asked"] ELSE phase
    BY <1>3 DEF Select
  <2>2. list[i] \in Rows
    BY <1>t
  <2>3. list[i].p \in Peripherals
    BY <2>2 DEF Rows
  <2>4. selects' \in 0..MaxSelects
    BY <1>3, <1>t DEF Select, TypeOK
  <2> QED BY <1>3, <2>1, <2>3, <2>4 DEF Select, TypeOK, Phases, screens
<1>4. CASE ConfirmAlert \/ SwipeAway \/ OpenMap \/ CloseMap \/ Tap
  BY <1>4 DEF ConfirmAlert, SwipeAway, OpenMap, CloseMap, Tap, TypeOK,
              central, serial, screens, history
<1>5. ASSUME NEW p \in Peripherals, Callback(p) PROVE TypeOK'
  BY <1>5 DEF Callback, DidConnect, DidDiscoverServices, DidDiscoverCharacteristics,
              Stored, Tell, TypeOK, Phases, serial, screens, history
<1>6. ASSUME NEW p \in Peripherals, Drop(p) \/ ConnectFails(p)
      PROVE  TypeOK'
  BY <1>6 DEF Drop, ConnectFails, TypeOK, Phases, serial, screens, history
<1>7. ASSUME NEW p \in Peripherals, DiscoveryFails(p) PROVE TypeOK'
  <2>1. list' \in Seq([p : Peripherals, rssi : Signals \cup {0}])
    BY <1>7 DEF DiscoveryFails
  <2>2. phase' \in [Peripherals -> Phases]
    BY <1>7 DEF DiscoveryFails, Phases
  <2> QED BY <1>7, <2>1, <2>2 DEF DiscoveryFails, TypeOK
<1>8. CASE Switch \/ Release
  BY <1>8 DEF Switch, Release, Forget, TypeOK, Phases, central, screens, history
<1>9. CASE UNCHANGED vars
  BY <1>9 DEF vars, TypeOK
<1> QED
  BY <1>1, <1>2, <1>3, <1>4, <1>5, <1>6, <1>7, <1>8, <1>9 DEF Next, Touch, World

LEMMA TypeInit == Init => TypeOK
<1> SUFFICES ASSUME Init PROVE TypeOK
  OBVIOUS
<1>1. list \in Seq([p : Peripherals, rssi : Signals \cup {0}])
  BY DEF Init
<1>2. selects \in 0..MaxSelects
  BY SelectAssumption DEF Init
<1>3. phase \in [Peripherals -> Phases]
  BY DEF Init, Phases
<1> QED BY <1>1, <1>2, <1>3 DEF Init, TypeOK

\* Every variable keeps its type, whichever callback comes when.
THEOREM TypeCorrect == Spec => []TypeOK
BY TypeInit, TypeStep, PTL DEF Spec
=============================================================================
