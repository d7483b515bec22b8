------------------------------ MODULE Firmware ------------------------------
(***************************************************************************)
(* The program of the lock controller on the bicycle (a NodeMCU board):     *)
(* setup() and loop() of Rock-YOU_nodeMCU.ino with the classes they call,   *)
(* the Bluetooth serial line that delivers the rider's commands, the two    *)
(* servos, the GPS receiver and the bicycle's document in the cloud.        *)
(*                                                                         *)
(* The board runs one thread; pc says where it is, and each step ends where *)
(* something outside (a byte, a movement of the bicycle, the network, a     *)
(* power loss) can be seen to happen before the next one.                   *)
(***************************************************************************)
EXTENDS Integers, Sequences, SequencesExt

CONSTANTS
    MaxPos,   \* last position of a servo: 180 degrees in steps of 5 give 36
    Places,   \* where the bicycle can be; two places are 4 m or more apart
    Coord,    \* values a latitude or a longitude can take, 0 among them
    Junk,     \* bytes on the serial line that are no digits and not '-', which parseInt()
              \* takes for a sign
    RxCap,    \* bytes the receive buffer of the serial line holds
    Limit     \* how often each event of the environment may happen

Kinds == {"bytes", "moves", "misses", "outages", "reboots"}

ASSUME MaxPosAssumption == MaxPos \in Nat \ {0}
ASSUME CoordAssumption  == Coord \subseteq Int /\ 0 \in Coord
ASSUME PlacesAssumption == Places \subseteq (Coord \X Coord)
                           /\ \A p \in Places : p[1] # 0
ASSUME JunkAssumption   == Junk \subseteq ((0..127) \ ({45} \cup (48..57)))
ASSUME RxCapAssumption  == RxCap \in Nat \ {0}
ASSUME LimitAssumption  == Limit \in [Kinds -> Nat]

DRIVE  == 0          \* Value.h, enum bicycleState
LOCKED == 1
STEEL  == 2
OPEN   == 0          \* Value.h, enum lockCmd
CLOSE  == 1
NoAck  == -1         \* nothing written to the Bluetooth module since the start
NoGPS  == <<0, 0>>   \* what initValue() stores: latitude 0 means "no position"
Byte0  == 48         \* the characters the app sends: '0' opens, '1' closes
Byte1  == 49

VARIABLES
    pc,         \* where the program is
    state,      \* Value.state
    pre,        \* Value.preGpsValue, <<latitude, longitude>>
    deg,        \* posDegrees of the running servo loop
    mainServo,  \* position last written to the main gear
    lockServo,  \* position last written to the lock pin, MaxPos is engaged
    rx,         \* bytes received from the Bluetooth module and not yet read
    ack,        \* last byte written to the Bluetooth module
    content,    \* GPS fields of MyFirebase.content, 0 for a field not set
    cloud,      \* the bicycle's document: its state and its GPS point
    net,        \* "down", "wifi" (no token yet) or "ready" (Firebase.ready())
    place,      \* where the bicycle really is
    lost,       \* history: what the last update dropped, or a restart forgot
    moved,      \* history: moved since the last locking, or away from pre then
    spent       \* history: events of the environment so far, up to Limit

servos == <<deg, mainServo, lockServo>>
serial == <<rx, ack>>
env    == <<net, place, moved, spent>>
vars   == <<pc, state, pre, deg, mainServo, lockServo, rx, ack, content,
            cloud, net, place, lost, moved, spent>>

Pos       == 0..MaxPos
Locking   == {"closeMain", "closeLock", "closed"}
Unlocking == {"openLock", "openMain", "opened"}
Moving    == Locking \cup Unlocking
Labels    == {"off", "wifi", "ble", "report", "gps", "lat", "lon", "theft", "alarm"}
                \cup Moving
\* The servos are not being driven and the board has power.
AtRest    == pc \notin Moving \cup {"off"}

Spend(kind) == /\ spent[kind] < Limit[kind]
               /\ spent' = [spent EXCEPT ![kind] = @ + 1]
-----------------------------------------------------------------------------
Init == /\ pc = "off"
        /\ state = DRIVE
        /\ pre = NoGPS
        /\ deg = 0
        /\ mainServo \in Pos
        /\ lockServo \in Pos
        /\ rx = <<>>
        /\ ack = NoAck
        /\ content = NoGPS
        /\ cloud = [state |-> DRIVE, gps |-> NoGPS]
        /\ net = "down"
        /\ place \in Places
        /\ lost = {}
        /\ moved = TRUE
        /\ spent = [k \in Kinds |-> 0]

\* setup() up to connWifi(): RAM starts over, the lock pin is pulled, and the
\* main gear stays or goes where Servo::attach puts it.  The cloud is not told.
PowerOn == /\ pc = "off"
           /\ pc' = "wifi"
           /\ state' = DRIVE
           /\ pre' = NoGPS
           /\ mainServo' \in Pos
           /\ lockServo' = 0
           /\ rx' = <<>>
           /\ ack' = NoAck
           /\ content' = NoGPS
           /\ lost' = {"state", "gps"}
           /\ UNCHANGED <<deg, cloud, net, place, moved, spent>>

\* connWifi() polls until the station is connected; then setup() ends.
WifiConnected == /\ pc = "wifi"
                 /\ net # "down"
                 /\ pc' = "ble"
                 /\ UNCHANGED <<state, pre, servos, serial, content, cloud, lost, env>>
-----------------------------------------------------------------------------
(* The first half of loop(): a command from the Bluetooth module.            *)

IsDigit(b) == b \in 48..57

\* The number a sequence of digit characters stands for, 0 if it is empty.
Decimal(digits) == FoldLeft(LAMBDA v, b : 10 * v + (b - 48), 0, digits)

\* parseInt() reads the first m bytes of s: it skips k bytes that are not
\* digits, takes the digits that follow, and stops at the next byte that is no
\* digit, which stays in the buffer, or when no more bytes come.
Parses(s, k, m) == /\ k <= m
                   /\ \A i \in 1..k : ~IsDigit(s[i])
                   /\ \A i \in (k + 1)..m : IsDigit(s[i])
                   /\ m < Len(s) => k < m /\ ~IsDigit(s[m + 1])

\* getCmdFromBLE() finds nothing available and returns -1.
NoCommand == /\ pc = "ble"
             /\ rx = <<>>
             /\ pc' = "gps"
             /\ UNCHANGED <<state, pre, servos, serial, content, cloud, lost, env>>

\* The switch over the command; every value but OPEN and CLOSE is "invalid".
DispatchSwapped(cmd) ==
    \/ cmd = OPEN /\ pc' = "closeMain" /\ deg' = 0
    \/ cmd = CLOSE /\ pc' = "openLock" /\ deg' = MaxPos
    \/ cmd \notin {CLOSE, OPEN} /\ pc' = "gps" /\ UNCHANGED deg

DispatchGearFirst(cmd) ==
    \/ cmd = CLOSE /\ pc' = "closeMain" /\ deg' = 0
    \/ cmd = OPEN /\ pc' = "openMain" /\ deg' = MaxPos
    \/ cmd \notin {CLOSE, OPEN} /\ pc' = "gps" /\ UNCHANGED deg

Dispatch(cmd) ==
    \/ cmd = CLOSE /\ pc' = "closeMain" /\ deg' = 0
    \/ cmd = OPEN /\ pc' = "openLock" /\ deg' = MaxPos
    \/ cmd \notin {CLOSE, OPEN} /\ pc' = "gps" /\ UNCHANGED deg

\* getCmdFromBLE() finds bytes and parses them.
ReadCommand == /\ pc = "ble"
               /\ rx # <<>>
               /\ \E k, m \in 0..Len(rx) :
                     /\ Parses(rx, k, m)
                     /\ rx' = SubSeq(rx, m + 1, Len(rx))
                     /\ Dispatch(Decimal(SubSeq(rx, k + 1, m)))
               /\ UNCHANGED <<state, pre, mainServo, lockServo, ack, content,
                              cloud, lost, env>>

\* One turn of a servo loop, up to 180 degrees or down to 0, then on to next.
SweepUpTooFar(next) == IF deg <= MaxPos THEN deg' = deg + 1 /\ UNCHANGED pc
                                        ELSE deg' = 0 /\ pc' = next
SweepDownTooShort(next) == IF deg > 1 THEN deg' = deg - 1 /\ UNCHANGED pc
                                      ELSE deg' = MaxPos /\ pc' = next

SweepUp(next) == IF deg < MaxPos THEN deg' = deg + 1 /\ UNCHANGED pc
                                 ELSE deg' = 0 /\ pc' = next
SweepDown(next) == IF deg > 0 THEN deg' = deg - 1 /\ UNCHANGED pc
                              ELSE deg' = MaxPos /\ pc' = next

\* lockBicycle(): the main gear turns from 0 to the end, then the pin goes in.
CloseMain == /\ pc = "closeMain"
             /\ mainServo' = deg
             /\ SweepUp("closeLock")
             /\ UNCHANGED <<state, pre, lockServo, serial, content, cloud, lost, env>>

CloseLock == /\ pc = "closeLock"
             /\ lockServo' = deg
             /\ SweepUp("closed")
             /\ UNCHANGED <<state, pre, mainServo, serial, content, cloud, lost, env>>

\* unlockBicycle(): the pin goes from the end to 0, then the main gear.
OpenLock == /\ pc = "openLock"
            /\ lockServo' = deg
            /\ SweepDown("openMain")
            /\ UNCHANGED <<state, pre, mainServo, serial, content, cloud, lost, env>>

OpenMain == /\ pc = "openMain"
            /\ mainServo' = deg
            /\ SweepDown("opened")
            /\ UNCHANGED <<state, pre, lockServo, serial, content, cloud, lost, env>>

\* Value.state and the answer to the phone, once the servos have stopped.
SettleAnswersFirst(s) ==
             /\ state' = s
             /\ ack' = state
             /\ pc' = "report"
             /\ UNCHANGED <<pre, servos, rx, content, cloud, lost, net, place, spent>>

Settle(s) == /\ state' = s
             /\ ack' = s
             /\ pc' = "report"
             /\ UNCHANGED <<pre, servos, rx, content, cloud, lost, net, place, spent>>

Closed == pc = "closed" /\ Settle(LOCKED) /\ moved' = (place # pre)
Opened == pc = "opened" /\ Settle(DRIVE) /\ UNCHANGED moved
-----------------------------------------------------------------------------
(* MyFirebase: one attempt per update, and none after it.                    *)

\* updateFirebase(STATE, state): content starts over; without ready() nothing
\* is sent, and a patch that fails is only printed.
PatchState == /\ content' = NoGPS
              /\ IF net = "ready"
                 THEN cloud' = [cloud EXCEPT !.state = state] /\ lost' = lost \ {"state"}
                 ELSE lost' = lost \cup {"state"} /\ UNCHANGED cloud

\* content.set() of one coordinate: the other keeps what earlier calls set.
WithCleared(i, value) == [NoGPS EXCEPT ![i] = value]
With(i, value) == [content EXCEPT ![i] = value]

\* updateGPSFirebase(): the field mask "GPS" replaces the whole point, so a
\* coordinate that is not set becomes 0.
PatchGPS == IF net = "ready" THEN cloud' = [cloud EXCEPT !.gps = content']
                             ELSE UNCHANGED cloud

Report == /\ pc = "report"
          /\ pc' = "gps"
          /\ PatchState
          /\ UNCHANGED <<state, pre, servos, serial, env>>
-----------------------------------------------------------------------------
(* The second half of loop(): position, distance and theft.                  *)

\* distance >= 4, or no previous position (latitude 0) to measure from.
FarFromKnown(reading) == pre[1] # 0 /\ reading # pre
FarAnyway(reading) == TRUE
Far(reading) == pre[1] = 0 \/ reading # pre

Locate(reading) ==
    /\ IF Far(reading) THEN pre' = reading /\ pc' = "lat"
                       ELSE UNCHANGED pre /\ pc' = "ble"
    /\ UNCHANGED <<state, servos, serial, content, cloud, lost, net, place, moved>>

\* getGPSValue() with a position decoded within its second.
GPSFix == pc = "gps" /\ Locate(place) /\ UNCHANGED spent

\* getGPSValue() without one returns a struct it never wrote.
GPSMiss == pc = "gps" /\ Spend("misses") /\ \E garbage \in Coord \X Coord : Locate(garbage)

PatchLat == /\ pc = "lat"
            /\ pc' = "lon"
            /\ content' = With(1, pre[1])
            /\ PatchGPS
            /\ UNCHANGED <<state, pre, servos, serial, lost, env>>

PatchLon == /\ pc = "lon"
            /\ pc' = "theft"
            /\ content' = With(2, pre[2])
            /\ PatchGPS
            /\ lost' = IF net = "ready" THEN lost \ {"gps"} ELSE lost \cup {"gps"}
            /\ UNCHANGED <<state, pre, servos, serial, env>>

\* A locked bicycle that is somewhere else is being stolen.
StolenUnlocked == state # STEEL
Stolen == state = LOCKED

CheckTheft == /\ pc = "theft"
              /\ IF Stolen THEN state' = STEEL /\ pc' = "alarm"
                                   ELSE UNCHANGED state /\ pc' = "ble"
              /\ UNCHANGED <<pre, servos, serial, content, cloud, lost, env>>

Alarm == /\ pc = "alarm"
         /\ pc' = "ble"
         /\ PatchState
         /\ UNCHANGED <<state, pre, servos, serial, env>>
-----------------------------------------------------------------------------
(* The environment.                                                          *)

\* The phone (or a talkative Bluetooth module) sends a byte; the receive buffer
\* drops it when full.
ByteArrives == /\ pc # "off"
               /\ Spend("bytes")
               /\ \E b \in {Byte0, Byte1} \cup Junk :
                     rx' = IF Len(rx) < RxCap THEN Append(rx, b) ELSE rx
               /\ UNCHANGED <<pc, state, pre, servos, ack, content, cloud, lost, net,
                              place, moved>>

Move == /\ Spend("moves")
        /\ \E p \in Places \ {place} : place' = p
        /\ moved' = TRUE
        /\ UNCHANGED <<pc, state, pre, servos, serial, content, cloud, lost, net>>

\* The station connects (setup() asks it to, reconnectWiFi does it later).
NetUp == /\ pc # "off"
         /\ net = "down"
         /\ net' = "wifi"
         /\ UNCHANGED <<pc, state, pre, servos, serial, content, cloud, lost, place,
                        moved, spent>>

\* The Firebase library obtains its token: from here on ready() is true.
TokenGranted == /\ pc \notin {"off", "wifi"}
                /\ net = "wifi"
                /\ net' = "ready"
                /\ UNCHANGED <<pc, state, pre, servos, serial, content, cloud, lost,
                               place, moved, spent>>

\* The network goes away, which is also how a request fails.
NetDown == /\ net # "down"
           /\ Spend("outages")
           /\ net' = "down"
           /\ UNCHANGED <<pc, state, pre, servos, serial, content, cloud, lost, place,
                          moved>>

\* The battery is disconnected: everything stops where it is.
PowerLoss == /\ pc # "off"
             /\ Spend("reboots")
             /\ pc' = "off"
             /\ net' = "down"
             /\ UNCHANGED <<state, pre, servos, serial, content, cloud, lost, place,
                            moved>>
-----------------------------------------------------------------------------
Command == NoCommand \/ ReadCommand
Sweep   == CloseMain \/ CloseLock \/ OpenLock \/ OpenMain
Commit  == Closed \/ Opened \/ Report
Locating == GPSFix \/ GPSMiss \/ PatchLat \/ PatchLon \/ CheckTheft \/ Alarm

FirmwareStep == WifiConnected \/ Command \/ Sweep \/ Commit \/ Locating

Environment == ByteArrives \/ Move \/ NetUp \/ TokenGranted \/ NetDown \/ PowerLoss

Next == PowerOn \/ FirmwareStep \/ Environment

Spec == Init /\ [][Next]_vars

\* loop() is called for ever and every blocking call in it times out; WiFi and
\* the token server answer in the end when nothing takes them away again.
Fairness == WF_vars(FirmwareStep) /\ WF_vars(NetUp) /\ WF_vars(TokenGranted)

FairSpec == Spec /\ Fairness
-----------------------------------------------------------------------------
(* What the firmware promises.                                               *)

\* Every variable keeps its type, whatever the receiver returns and wherever
\* the power fails: servo loops stop at the ends, the buffer at its capacity.
TypeOK == /\ pc \in Labels
          /\ state \in {DRIVE, LOCKED, STEEL}
          /\ pre \in Coord \X Coord
          /\ deg \in Pos
          /\ mainServo \in Pos
          /\ lockServo \in Pos
          /\ rx \in Seq(0..127) /\ Len(rx) <= RxCap
          /\ ack \in {NoAck, DRIVE, LOCKED}
          /\ content \in Coord \X Coord
          /\ cloud \in [state : {DRIVE, LOCKED, STEEL}, gps : Coord \X Coord]
          /\ net \in {"down", "wifi", "ready"}
          /\ place \in Places
          /\ lost \subseteq {"state", "gps"}
          /\ moved \in BOOLEAN
          /\ spent \in [Kinds -> Nat]

\* While the servos rest, Value.state tells the truth about them: a bicycle
\* that is locked or stolen has its gear turned and its pin in, one that is
\* being ridden has its pin out (loop() sets the state after the last write).
BoltMatchesState ==
    AtRest => IF state = DRIVE THEN lockServo = 0
                               ELSE lockServo = MaxPos /\ mainServo = MaxPos

\* What the phone was told last still holds of the hardware: after the answer
\* LOCKED the pin stays in until a command moves it, theft or no theft.
AckMatchesBolt ==
    AtRest => /\ ack = LOCKED => lockServo = MaxPos
              /\ ack = DRIVE => lockServo = 0

\* The main gear turns only while the pin is out, except when a bicycle that is
\* locked already is told to lock again (lockBicycle() starts with the gear).
PinGuardsMain ==
    [][mainServo' # mainServo /\ pc # "off"
         => lockServo = 0 \/ (pc = "closeMain" /\ state # DRIVE)]_vars

\* The document follows the board: unless an update was dropped, it holds the
\* state and the position the program acts on, at every point but between a
\* change and its patch.  One of the two GPS patches is enough, when it is the
\* second, because the content object keeps both coordinates.
CloudFollows ==
    /\ pc \notin {"off", "report", "alarm"} /\ "state" \notin lost => cloud.state = state
    /\ pc \notin {"off", "lat", "lon"} /\ "gps" \notin lost => cloud.gps = pre

\* Once loop() has come round, the point on the map is a place of the bicycle and not
\* the latitude of one with the longitude of another, although two requests send it:
\* what can tear it is a dropped update and a second without a GPS sentence.
MapShowsAPlace ==
    pc = "ble" /\ "gps" \notin lost /\ spent["misses"] = 0 => cloud.gps \in Places

\* A bicycle that nobody touched is not reported stolen: while the receiver delivers, a
\* theft means that the bicycle moved after it was locked, or was locked away from the
\* position the board knew (ridden since the last reading, or none read since the start).
TheftMeansMoved == state = STEEL /\ spent["misses"] = 0 => moved

\* The lock seen from outside, see BikeLock: bolt positions are read off the
\* servos, so a state set too early or a sweep cut short is not a BikeLock step.
Bolt == IF ~AtRest THEN "loose"
        ELSE IF lockServo = MaxPos /\ mainServo = MaxPos THEN "in" ELSE "out"

Lock == INSTANCE BikeLock WITH on <- pc # "off", mode <- state, bolt <- Bolt,
                               due <- pc \in {"report", "alarm"}, told <- cloud.state

\* loop(), setup() and a loss of power only do what BikeLock allows.
ImplementsBikeLock == Lock!Spec

\* A locked bicycle that is away from its last known position is noticed:
\* loop() comes to another state, unless the bicycle or its power goes.
TheftDetected ==
    (state = LOCKED /\ pc # "off" /\ place # pre)
        ~> (state # LOCKED \/ place = pre \/ pc = "off")

\* A "lock" command that waits alone in the buffer locks the bicycle, however
\* long setup(), a sweep or the GPS second keep loop() from reading it.
LoneCloseLocks ==
    (rx = <<Byte1>> /\ pc # "off") ~> (state = LOCKED \/ Len(rx) > 1 \/ pc = "off")
-----------------------------------------------------------------------------
(* What its comments and the app say, and the program does not keep.         *)

\* "lock is number 1", "drive = open is number 0": each tap of the app is a
\* command, so bytes '0' and '1' are never an invalid command to the switch.
NoInvalidCommand ==
    [][pc = "ble" /\ rx # <<>> /\ pc' \notin {"ble", "off"}
         => pc' \in {"closeMain", "openLock"}]_vars

\* "update value to firebase firestore": the alarm reaches the document, if the
\* network and the bicycle's state last.
AlarmReachesCloud ==
    state = STEEL ~> (cloud.state = STEEL \/ state # STEEL \/ pc = "off")
=============================================================================
