------------------------------- MODULE BleLink -------------------------------
(***************************************************************************)
(* The phone's end of the Bluetooth line: BluetoothSerial.swift with the    *)
(* screens that use it, ScanViewController (find and choose a lock) and the *)
(* two buttons of MapViewController.  CoreBluetooth delivers its callbacks  *)
(* on the main queue, one at a time, so each callback and each touch is one *)
(* action; what happens between two of them is the interleaving.            *)
(***************************************************************************)
EXTENDS Integers, FiniteSets, SequencesExt

CONSTANTS
    Peripherals,  \* what is in reach with the service FFE0
    Foreign,      \* those of them without the characteristic FFE1: no lock of ours
    Signals,      \* values of the signal strength (RSSI), negative
    None,         \* Swift's nil
    MaxSelects    \* bound on how often a row is touched

ASSUME ReachAssumption  == IsFiniteSet(Peripherals)
ASSUME ForeignAssumption == Foreign \subseteq Peripherals
ASSUME SignalAssumption == Signals \subseteq {r \in Int : r < 0}
ASSUME NoneAssumption   == None \notin Peripherals
ASSUME SelectAssumption == MaxSelects \in Nat

VARIABLES
    power,        \* centralManager.state is poweredOn
    scanning,     \* a scan is running
    phase,        \* what CoreBluetooth owes the app for each peripheral
    linked,       \* peripherals that really are connected
    pending,      \* pendingPeripheral
    connected,    \* connectedPeripheral
    writeChar,    \* the peripheral writeCharacteristic belongs to
    delegate,     \* serial.delegate: "none", "scan" or "map"
    list,         \* peripheralList of the scan screen, records of p and rssi
    view,         \* screen in front: "main", "scan" or "map"
    alert,        \* peripheral named by the alert on the screen
    told,         \* history: peripheral the rider was last told about
    dropped,      \* history: peripherals that left since they connected
    sent,         \* peripheral the last tap was written to
    selects       \* history: rows touched so far, up to MaxSelects

central == <<power, scanning, phase, linked>>
serial  == <<pending, connected, writeChar>>
screens == <<list, view, alert, told>>
history == <<dropped, sent, selects>>
vars    == <<power, scanning, phase, linked, pending, connected, writeChar,
             delegate, list, view, alert, told, dropped, sent, selects>>

Phases == {"idle", "asked", "linked", "services", "found"}

\* bluetoothIsReady: three variables that are set by three different callbacks.
bluetoothIsReady == power /\ connected # None /\ writeChar # None
-----------------------------------------------------------------------------
Init == /\ power = FALSE
        /\ scanning = FALSE
        /\ phase = [p \in Peripherals |-> "idle"]
        /\ linked = {}
        /\ pending = None
        /\ connected = None
        /\ writeChar = None
        /\ delegate = "none"
        /\ list = <<>>
        /\ view = "main"
        /\ alert = None
        /\ told = None
        /\ dropped = {}
        /\ sent = None
        /\ selects = 0

Known(p) == \E i \in DOMAIN list : list[i].p = p

\* serialDidDiscoverPeripheral appends a peripheral that is not known and sorts: the
\* arrays of these rows it can give, which leaves open the order of equal signals.
Arranged(rows) == {s \in [1..Cardinality(rows) -> rows] :
                     \A i, j \in DOMAIN s : i < j => s[i] # s[j] /\ s[i].rssi <= s[j].rssi}

\* A peripheral without a signal strength: RSSI?.floatValue ?? 0.0
RetrievedUnavailable(p) == [p |-> p, rssi |-> 127]
Retrieved(p) == [p |-> p, rssi |-> 0]

\* viewDidLoad of the scan screen and startScan(): peripherals that are connected
\* already are offered at once.
OpenScan == /\ view = "main"
            /\ view' = "scan"
            /\ delegate' = "scan"
            /\ IF power
               THEN /\ scanning' = TRUE
                    /\ list' \in Arranged({Retrieved(p) : p \in linked})
               ELSE /\ list' = <<>>
                    /\ UNCHANGED scanning
            /\ UNCHANGED <<power, phase, linked, serial, alert, told, history>>

\* didDiscover; delegates other than the scan screen do nothing with it.
DidDiscover == /\ power /\ scanning
               /\ delegate = "scan"
               /\ \E p \in Peripherals, r \in Signals :
                     IF Known(p) THEN UNCHANGED list
                     ELSE list' \in Arranged(Range(list) \cup {[p |-> p, rssi |-> r]})
               /\ UNCHANGED <<central, serial, delegate, view, alert, told, history>>

\* didSelectRow: the scan stops and the peripheral is asked to connect, also when
\* another one has been asked already.  Every change of the list reloads the table, which
\* lays out before the next touch is delivered: the row touched is a row of the list.
Select == /\ view = "scan"
          /\ alert = None
          /\ selects < MaxSelects
          /\ selects' = selects + 1
          /\ scanning' = FALSE
          /\ \E i \in DOMAIN list :
                /\ pending' = list[i].p
                /\ phase' = IF power THEN [phase EXCEPT ![list[i].p] = "asked"] ELSE phase
          /\ UNCHANGED <<power, linked, connected, writeChar, delegate, screens, dropped, sent>>

\* didConnect
DidConnect(p) == /\ phase[p] = "asked"
                 /\ phase' = [phase EXCEPT ![p] = "linked"]
                 /\ linked' = linked \cup {p}
                 /\ dropped' = dropped \ {p}
                 /\ pending' = None
                 /\ connected' = p
                 /\ UNCHANGED <<power, scanning, writeChar, delegate, screens, sent, selects>>

\* didDiscoverServices asks for the characteristics.
DidDiscoverServices(p) == /\ phase[p] = "linked"
                          /\ phase' = [phase EXCEPT ![p] = "services"]
                          /\ UNCHANGED <<power, scanning, linked, serial, delegate,
                                         screens, history>>

\* serialDidConnectPeripheral: the scan screen shows its alert, if it is still
\* in front, and takes itself off as the delegate.
TellNobody(p) == UNCHANGED <<delegate, alert, told>>

Tell(p) == IF delegate = "scan"
           THEN /\ delegate' = "none"
                /\ alert' = IF view = "scan" THEN p ELSE alert
                /\ told' = IF view = "scan" THEN p ELSE told
           ELSE UNCHANGED <<delegate, alert, told>>

\* The characteristic of the peripheral that answered last replaces what is stored.
StoredFirst(p) == IF writeChar = None THEN p ELSE writeChar
Stored(p) == p

\* didDiscoverCharacteristics; without FFE1 its loop finds nothing to do.
DidDiscoverCharacteristics(p) ==
    /\ phase[p] = "services"
    /\ phase' = [phase EXCEPT ![p] = "found"]
    /\ IF p \in Foreign THEN UNCHANGED <<writeChar, delegate, alert, told>>
                        ELSE writeChar' = Stored(p) /\ Tell(p)
    /\ UNCHANGED <<power, scanning, linked, pending, connected, list, view, history>>

\* Either of the two with an error: there are no services, or no characteristics, to
\* unwrap, which stops the app.  Its links end with it, and it is started again.
DiscoveryFails(p) == /\ phase[p] \in {"linked", "services"}
                     /\ power' = FALSE /\ scanning' = FALSE
                     /\ phase' = [q \in Peripherals |-> "idle"] /\ linked' = {}
                     /\ pending' = None /\ connected' = None /\ writeChar' = None
                     /\ delegate' = "none" /\ list' = <<>> /\ view' = "main"
                     /\ alert' = None /\ told' = None /\ dropped' = {} /\ sent' = None
                     /\ UNCHANGED selects

\* The alert's button closes the scan screen.
ConfirmAlert == /\ alert # None
                /\ alert' = None
                /\ view' = "main"
                /\ UNCHANGED <<central, serial, delegate, list, told, history>>

\* The scan screen is a sheet and can be pulled away.
SwipeAway == /\ view = "scan"
             /\ alert = None
             /\ view' = "main"
             /\ UNCHANGED <<central, serial, delegate, list, alert, told, history>>

OpenMap == /\ view = "main"
           /\ view' = "map"
           /\ UNCHANGED <<central, serial, delegate, list, alert, told, history>>

CloseMap == /\ view = "map"
            /\ view' = "main"
            /\ UNCHANGED <<central, serial, delegate, list, alert, told, history>>

\* lockButtonDidTap and openButtonDidTap, with sendMessageToDevice: the write
\* goes to connectedPeripheral, with whatever characteristic is stored.
Tap == /\ view = "map"
       /\ bluetoothIsReady
       /\ delegate' = "map"
       /\ sent' = connected
       /\ UNCHANGED <<central, serial, screens, dropped, selects>>
-----------------------------------------------------------------------------
(* CoreBluetooth and the world.  The app implements neither                  *)
(* didDisconnectPeripheral nor didFailToConnect.                             *)

\* A connected lock goes out of reach, or its power is lost.
Drop(p) == /\ p \in linked
           /\ linked' = linked \ {p}
           /\ phase' = [phase EXCEPT ![p] = "idle"]
           /\ dropped' = dropped \cup {p}
           /\ UNCHANGED <<power, scanning, serial, delegate, screens, sent, selects>>

ConnectFails(p) == /\ phase[p] = "asked"
                   /\ p \notin linked
                   /\ phase' = [phase EXCEPT ![p] = "idle"]
                   /\ UNCHANGED <<power, scanning, linked, serial, delegate, screens,
                                  history>>

\* centralManagerDidUpdateState: what is stored of the peripherals is forgotten.
ForgetPending == pending' = None /\ UNCHANGED connected
Forget == pending' = None /\ connected' = None

Switch == /\ power' = ~power
          /\ scanning' = FALSE
          /\ linked' = {}
          /\ phase' = [p \in Peripherals |-> "idle"]
          /\ Forget
          /\ UNCHANGED <<writeChar, delegate, screens, history>>

\* writeCharacteristic is weak: iOS may release a characteristic whose peripheral
\* is not in use.
Release == /\ writeChar # None
           /\ ~(writeChar = connected /\ writeChar \in linked)
           /\ writeChar' = None
           /\ UNCHANGED <<central, pending, connected, delegate, screens, history>>
-----------------------------------------------------------------------------
Callback(p) == DidConnect(p) \/ DidDiscoverServices(p) \/ DidDiscoverCharacteristics(p)

Touch == \/ OpenScan \/ Select \/ ConfirmAlert \/ SwipeAway
         \/ OpenMap \/ CloseMap \/ Tap

World == \/ DidDiscover \/ Switch \/ Release
         \/ \E p \in Peripherals : Drop(p) \/ ConnectFails(p) \/ DiscoveryFails(p)

Next == Touch \/ World \/ \E p \in Peripherals : Callback(p)

Spec == Init /\ [][Next]_vars

\* CoreBluetooth answers every request it has not given up; the rider need not
\* touch anything.
FairSpec == Spec /\ \A p \in Peripherals : WF_vars(Callback(p))
-----------------------------------------------------------------------------
TypeOK == /\ power \in BOOLEAN /\ scanning \in BOOLEAN
          /\ phase \in [Peripherals -> Phases]
          /\ linked \subseteq Peripherals
          /\ {pending, connected, writeChar, alert, told, sent}
                \subseteq Peripherals \cup {None}
          /\ delegate \in {"none", "scan", "map"}
          /\ list \in Seq([p : Peripherals, rssi : Signals \cup {0}])
          /\ view \in {"main", "scan", "map"}
          /\ dropped \subseteq Peripherals
          /\ selects \in 0..MaxSelects

\* The stored peripheral is a connected one, unless its link broke while the app
\* was not told: switching Bluetooth off never leaves it behind.
StaleOnlyAfterDrop == connected # None => connected \in linked \cup dropped

\* A lock that is the only peripheral connected and has named its characteristic can be
\* tapped: all three references the taps depend on are its own, also when Bluetooth
\* was switched meanwhile or another attempt is under way, unless a link broke.  With
\* two locks connected, or before the characteristic is named, they may be mixed.
FoundIsReady ==
    \A p \in Peripherals \ Foreign :
        dropped = {} /\ linked = {p} /\ phase[p] = "found"
            => bluetoothIsReady /\ connected = p /\ writeChar = p

\* Who waits on the scan screen for a lock that was asked to connect is told, or
\* the attempt fails.
WaitingIsTold ==
    \A p \in Peripherals \ Foreign :
        (phase[p] = "asked" /\ view = "scan" /\ delegate = "scan")
            ~> (alert # None \/ view # "scan" \/ phase[p] = "idle")

\* A lock that in the end is the only peripheral connected, and no link is broken, ends
\* up as the one the taps go to and stays so, whatever was connected, touched, switched,
\* released or asked before, and in whichever order the callbacks came.
OnlyLockGetsReady ==
    \A p \in Peripherals \ Foreign :
        <>[](linked = {p} /\ dropped = {})
            => <>[](bluetoothIsReady /\ connected = p /\ writeChar = p)
=============================================================================
