--------------------------- MODULE FirmwareProofs ---------------------------
(***************************************************************************)
(* Theorems about Firmware for every number of servo steps, every set of    *)
(* places and coordinates, every buffer size and every bound on the events  *)
(* of the environment.                                                      *)
(***************************************************************************)
EXTENDS Firmware, SequenceTheorems, TLAPS

\* What holds of the servos inside lockBicycle() and unlockBicycle(), and what a
\* board that is still connecting has already done.
SweepInv ==
    /\ pc = "wifi" => state = DRIVE
    /\ pc = "alarm" => state = STEEL
    /\ pc = "closeMain" /\ state = DRIVE => lockServo = 0
    /\ pc \in {"closeLock", "closed"} => mainServo = MaxPos
    /\ pc = "closed" => lockServo = MaxPos
    /\ pc \in {"openMain", "opened"} => lockServo = 0

\* The last answer to the phone is the state, up to a theft the phone is not told.
AckInv == pc # "off" => /\ ack = LOCKED => state # DRIVE
                        /\ ack = DRIVE => state = DRIVE

\* Between the two GPS patches the content object holds the new latitude.
LonInv == pc = "lon" => content[1] = pre[1]

BoltInv == TypeOK /\ BoltMatchesState /\ SweepInv /\ AckInv

CloudInv == TypeOK /\ CloudFollows /\ LonInv

\* The position a board with power works with comes from the receiver, once it has
\* one to send, or none was dropped or forgotten since.
PlaceInv == /\ spent["misses"] = 0 /\ pc # "off" => pre \in Places \cup {NoGPS}
            /\ (/\ spent["misses"] = 0 /\ pc # "off"
                /\ pc \in {"lat", "lon"} \/ "gps" \notin lost) => pre \in Places

\* A bicycle that is not being ridden and did not move is where the board knows it to
\* be, so that no reading starts the steps that lead to a theft.
StillInv == spent["misses"] = 0 =>
               /\ state # DRIVE /\ ~moved => pre = place
               /\ pc \in {"lat", "lon", "theft"} /\ state = LOCKED => moved
               /\ state = STEEL => moved

TheftInv == TypeOK /\ StillInv
-----------------------------------------------------------------------------
\* The codes of the states are different numbers.
LEMMA StateCodes == DRIVE = 0 /\ LOCKED = 1 /\ STEEL = 2 /\ NoAck = -1
BY DEF DRIVE, LOCKED, STEEL, NoAck

\* The starting state has the types.
LEMMA TypeInit == Init => TypeOK
<1> SUFFICES ASSUME Init PROVE TypeOK
    OBVIOUS
<1>1. 0 \in Pos
    BY MaxPosAssumption DEF Pos
<1>2. NoGPS \in Coord \X Coord
    BY CoordAssumption DEF NoGPS
<1>3. [k \in Kinds |-> 0] \in [Kinds -> Nat]
    OBVIOUS
<1>4. rx \in Seq(0..127) /\ Len(rx) <= RxCap
    BY RxCapAssumption DEF Init
<1> QED
    BY <1>1, <1>2, <1>3, <1>4 DEF Init, TypeOK, Labels, Moving, Locking, Unlocking

\* Spending an event keeps the counters' type.
LEMMA SpendType ==
    ASSUME TypeOK, NEW kind \in Kinds, Spend(kind)
    PROVE  spent' \in [Kinds -> Nat]
BY DEF TypeOK, Spend

\* The places are pairs of coordinates.
LEMMA PlaceType == ASSUME TypeOK PROVE place \in Coord \X Coord
BY PlacesAssumption DEF TypeOK

\* One position fix or miss keeps the types.
LEMMA LocateType ==
    ASSUME TypeOK, NEW reading \in Coord \X Coord, Locate(reading),
           spent' \in [Kinds -> Nat]
    PROVE  TypeOK'
BY DEF TypeOK, Locate, servos, serial, Labels

\* What is left of a buffer after a read is a buffer, and no longer than before.
LEMMA SuffixType ==
    ASSUME NEW S, NEW s \in Seq(S), NEW m \in 0..Len(s)
    PROVE  LET rest == SubSeq(s, m + 1, Len(s))
           IN  rest \in Seq(S) /\ Len(rest) \in Nat /\ Len(rest) <= Len(s)
<1>1. Len(s) \in Nat /\ m \in Nat /\ m <= Len(s)
    OBVIOUS
<1>2. \A i \in (m + 1)..Len(s) : s[i] \in S
    BY <1>1
<1>3. /\ SubSeq(s, m + 1, Len(s)) \in Seq(S)
      /\ Len(SubSeq(s, m + 1, Len(s)))
           = IF m + 1 <= Len(s) THEN Len(s) - (m + 1) + 1 ELSE 0
    <2>1. m + 1 \in Int /\ Len(s) \in Int
        BY <1>1
    <2> QED BY <1>2, <2>1, SubSeqProperties, Zenon
<1> QED
    BY <1>1, <1>3

\* Every step keeps the types: this is TypeOK's induction step.
LEMMA TypeNext == TypeOK /\ [Next]_vars => TypeOK'
<1> SUFFICES ASSUME TypeOK, [Next]_vars PROVE TypeOK'
    OBVIOUS
<1> USE DEF Labels, Moving, Locking, Unlocking, servos, serial, env
<1>1. CASE PowerOn
    <2>1. 0 \in Pos /\ NoGPS \in Coord \X Coord
        BY MaxPosAssumption, CoordAssumption DEF Pos, NoGPS
    <2>2. <<>> \in Seq(0..127) /\ Len(<<>>) <= RxCap
        BY RxCapAssumption
    <2> QED BY <1>1, <2>1, <2>2 DEF PowerOn, TypeOK
<1>2. CASE WifiConnected
    BY <1>2 DEF WifiConnected, TypeOK
<1>3. CASE NoCommand
    BY <1>3 DEF NoCommand, TypeOK
<1>4. CASE ReadCommand
    <2>1. PICK k \in 0..Len(rx), m \in 0..Len(rx) :
              /\ rx' = SubSeq(rx, m + 1, Len(rx))
              /\ Dispatch(Decimal(SubSeq(rx, k + 1, m)))
        BY <1>4 DEF ReadCommand
    <2>2. rx' \in Seq(0..127) /\ Len(rx') <= RxCap
        <3>1. rx \in Seq(0..127) /\ Len(rx) \in Nat /\ Len(rx) <= RxCap /\ RxCap \in Nat
            BY RxCapAssumption DEF TypeOK
        <3>2. rx' \in Seq(0..127) /\ Len(rx') \in Nat /\ Len(rx') <= Len(rx)
            BY <2>1, <3>1, SuffixType
        <3> QED BY <3>1, <3>2
    <2>3. pc' \in Labels /\ deg' \in Pos
        BY <2>1, MaxPosAssumption DEF Dispatch, TypeOK, Pos
    <2> QED BY <1>4, <2>2, <2>3 DEF ReadCommand, TypeOK
<1>5. CASE Sweep
    <2>1. pc' \in Labels /\ deg' \in Pos /\ mainServo' \in Pos /\ lockServo' \in Pos
        BY <1>5, MaxPosAssumption
        DEF Sweep, CloseMain, CloseLock, OpenLock, OpenMain, SweepUp, SweepDown, TypeOK, Pos
    <2> QED BY <1>5, <2>1 DEF Sweep, CloseMain, CloseLock, OpenLock, OpenMain, TypeOK
<1>6. CASE Closed \/ Opened
    BY <1>6 DEF Closed, Opened, Settle, TypeOK
<1>7. CASE Report \/ Alarm
    <2>1. content' \in Coord \X Coord
        BY <1>7, CoordAssumption DEF Report, Alarm, PatchState, NoGPS
    <2>2. cloud' \in [state : {DRIVE, LOCKED, STEEL}, gps : Coord \X Coord]
        BY <1>7 DEF Report, Alarm, PatchState, TypeOK
    <2>3. lost' \subseteq {"state", "gps"}
        BY <1>7 DEF Report, Alarm, PatchState, TypeOK
    <2> QED BY <1>7, <2>1, <2>2, <2>3 DEF Report, Alarm, TypeOK
<1>8. CASE GPSFix
    <2>1. spent' \in [Kinds -> Nat]
        BY <1>8 DEF GPSFix, TypeOK
    <2> QED BY <1>8, <2>1, PlaceType, LocateType DEF GPSFix
<1>9. CASE GPSMiss
    <2>1. spent' \in [Kinds -> Nat]
        BY <1>9, SpendType DEF GPSMiss, Kinds
    <2> QED BY <1>9, <2>1, LocateType DEF GPSMiss
<1>10. CASE PatchLat \/ PatchLon
    <2>1. content' \in Coord \X Coord
        BY <1>10 DEF PatchLat, PatchLon, With, TypeOK
    <2>2. cloud' \in [state : {DRIVE, LOCKED, STEEL}, gps : Coord \X Coord]
        BY <1>10, <2>1 DEF PatchLat, PatchLon, PatchGPS, TypeOK
    <2>3. lost' \subseteq {"state", "gps"}
        BY <1>10 DEF PatchLat, PatchLon, TypeOK
    <2> QED BY <1>10, <2>1, <2>2, <2>3 DEF PatchLat, PatchLon, TypeOK
<1>11. CASE CheckTheft
    BY <1>11 DEF CheckTheft, Stolen, TypeOK
<1>12. CASE ByteArrives
    <2>1. PICK b \in {Byte0, Byte1} \cup Junk :
              rx' = IF Len(rx) < RxCap THEN Append(rx, b) ELSE rx
        BY <1>12 DEF ByteArrives
    <2>2. b \in 0..127
        BY JunkAssumption DEF Byte0, Byte1
    <2>3. rx' \in Seq(0..127) /\ Len(rx') <= RxCap
        <3>1. rx \in Seq(0..127) /\ Len(rx) \in Nat /\ Len(rx) <= RxCap /\ RxCap \in Nat
            BY RxCapAssumption DEF TypeOK
        <3>2. Append(rx, b) \in Seq(0..127) /\ Len(Append(rx, b)) = Len(rx) + 1
            BY <2>2, <3>1, AppendProperties
        <3> QED BY <2>1, <3>1, <3>2
    <2>4. spent' \in [Kinds -> Nat]
        BY <1>12, SpendType DEF ByteArrives, Kinds
    <2> QED BY <1>12, <2>3, <2>4 DEF ByteArrives, TypeOK
<1>13. CASE Move
    <2>1. spent' \in [Kinds -> Nat]
        BY <1>13, SpendType DEF Move, Kinds
    <2> QED BY <1>13, <2>1 DEF Move, TypeOK
<1>14. CASE NetUp \/ TokenGranted
    <2>1. CASE NetUp
        BY <2>1 DEF NetUp, TypeOK
    <2>2. CASE TokenGranted
        BY <2>2 DEF TokenGranted, TypeOK
    <2> QED BY <1>14, <2>1, <2>2
<1>15. CASE NetDown
    <2>1. spent' \in [Kinds -> Nat]
        BY <1>15, SpendType DEF NetDown, Kinds
    <2> QED BY <1>15, <2>1 DEF NetDown, TypeOK
<1>16. CASE PowerLoss
    <2>1. spent' \in [Kinds -> Nat]
        BY <1>16, SpendType DEF PowerLoss, Kinds
    <2> QED BY <1>16, <2>1 DEF PowerLoss, TypeOK
<1>17. CASE UNCHANGED vars
    BY <1>17 DEF vars, TypeOK
<1> QED
    BY <1>1, <1>2, <1>3, <1>4, <1>5, <1>6, <1>7, <1>8, <1>9, <1>10, <1>11, <1>12,
       <1>13, <1>14, <1>15, <1>16, <1>17
    DEF Next, FirmwareStep, Command, Commit, Locating, Environment

\* Type correctness: no sequence of commands, readings, patches, failures and
\* restarts takes a variable of the firmware out of its type.
THEOREM TypeCorrect == Spec => []TypeOK
BY TypeInit, TypeNext, PTL DEF Spec
-----------------------------------------------------------------------------
\* The starting state: no power, so nothing is claimed of the servos.
LEMMA BoltInit == Init => BoltInv
BY TypeInit, StateCodes
DEF Init, BoltInv, BoltMatchesState, SweepInv, AckInv, AtRest, Moving, Locking, Unlocking

\* The servos, the state and the answers stay consistent through every step.
LEMMA BoltNext == BoltInv /\ [Next]_vars => BoltInv'
<1> SUFFICES ASSUME BoltInv, [Next]_vars PROVE BoltInv'
    OBVIOUS
<1>t. TypeOK /\ TypeOK'
    BY TypeNext DEF BoltInv
<1> USE StateCodes DEF Moving, Locking, Unlocking, AtRest, Pos
<1>1. CASE PowerOn
    BY <1>t, <1>1 DEF PowerOn, BoltInv, BoltMatchesState, SweepInv, AckInv
<1>2. CASE WifiConnected \/ NoCommand
    BY <1>2, <1>t
    DEF WifiConnected, NoCommand, servos, serial, BoltInv, BoltMatchesState, SweepInv, AckInv
<1>3. CASE ReadCommand
    <2>1. /\ pc = "ble" /\ pc' \in {"closeMain", "openLock", "gps"}
          /\ UNCHANGED <<state, mainServo, lockServo, ack>>
        BY <1>3 DEF ReadCommand, Dispatch
    <2> QED BY <1>t, <2>1 DEF BoltInv, BoltMatchesState, SweepInv, AckInv
<1>4. CASE Sweep
    <2>1. CASE CloseMain
        BY <1>t, <2>1, MaxPosAssumption
        DEF CloseMain, SweepUp, serial, TypeOK, BoltInv, BoltMatchesState, SweepInv, AckInv
    <2>2. CASE CloseLock
        BY <1>t, <2>2, MaxPosAssumption
        DEF CloseLock, SweepUp, serial, TypeOK, BoltInv, BoltMatchesState, SweepInv, AckInv
    <2>3. CASE OpenLock
        BY <1>t, <2>3, MaxPosAssumption
        DEF OpenLock, SweepDown, serial, TypeOK, BoltInv, BoltMatchesState, SweepInv, AckInv
    <2>4. CASE OpenMain
        BY <1>t, <2>4, MaxPosAssumption
        DEF OpenMain, SweepDown, serial, TypeOK, BoltInv, BoltMatchesState, SweepInv, AckInv
    <2> QED BY <1>4, <2>1, <2>2, <2>3, <2>4 DEF Sweep
<1>5. CASE Closed
    BY <1>t, <1>5
    DEF Closed, Settle, servos, BoltInv, BoltMatchesState, SweepInv, AckInv
<1>6. CASE Opened
    BY <1>t, <1>6
    DEF Opened, Settle, servos, BoltInv, BoltMatchesState, SweepInv, AckInv
<1>7. CASE Report \/ Alarm
    BY <1>t, <1>7
    DEF Report, Alarm, servos, serial, BoltInv, BoltMatchesState, SweepInv, AckInv
<1>8. CASE GPSFix \/ GPSMiss
    <2>1. /\ pc = "gps" /\ pc' \in {"lat", "ble"}
          /\ UNCHANGED <<state, servos, serial>>
        BY <1>8 DEF GPSFix, GPSMiss, Locate
    <2> QED BY <1>t, <2>1 DEF servos, serial, BoltInv, BoltMatchesState, SweepInv, AckInv
<1>9. CASE PatchLat \/ PatchLon
    BY <1>t, <1>9
    DEF PatchLat, PatchLon, servos, serial, BoltInv, BoltMatchesState, SweepInv, AckInv
<1>10. CASE CheckTheft
    BY <1>t, <1>10
    DEF CheckTheft, Stolen, servos, serial, BoltInv, BoltMatchesState, SweepInv, AckInv
<1>11. CASE PowerLoss
    BY <1>t, <1>11
    DEF PowerLoss, servos, serial, BoltInv, BoltMatchesState, SweepInv, AckInv
<1>12. CASE ByteArrives \/ Move \/ NetUp \/ TokenGranted \/ NetDown
    <2>1. UNCHANGED <<pc, state, mainServo, lockServo, ack>>
        BY <1>12 DEF ByteArrives, Move, NetUp, TokenGranted, NetDown, servos, serial
    <2> QED BY <1>t, <2>1 DEF BoltInv, BoltMatchesState, SweepInv, AckInv
<1>13. CASE UNCHANGED vars
    BY <1>t, <1>13 DEF vars, BoltInv, BoltMatchesState, SweepInv, AckInv
<1> QED
    BY <1>1, <1>2, <1>3, <1>4, <1>5, <1>6, <1>7, <1>8, <1>9, <1>10, <1>11, <1>12, <1>13
    DEF Next, FirmwareStep, Command, Commit, Locating, Environment

\* BoltInv is inductive.
LEMMA BoltInvariant == Spec => []BoltInv
BY BoltInit, BoltNext, PTL DEF Spec

\* Whenever the servos rest, Value.state tells the truth about the lock: locked
\* and stolen mean gear turned and pin in, riding means pin out.
THEOREM StateIsTrue == Spec => []BoltMatchesState
BY BoltInvariant, PTL DEF BoltInv

\* The last answer sent to the phone stays true of the hardware.
THEOREM AnswerIsTrue == Spec => []AckMatchesBolt
<1>1. BoltInv => AckMatchesBolt
    BY StateCodes DEF BoltInv, BoltMatchesState, AckInv, AckMatchesBolt, AtRest
<1> QED
    BY <1>1, BoltInvariant, PTL
-----------------------------------------------------------------------------
\* A step never turns the main gear against an engaged pin, but in a lockBicycle()
\* of a bicycle that is locked already.
THEOREM PinGuardsMainGear == Spec => PinGuardsMain
<1>1. ASSUME BoltInv, [Next]_vars, mainServo' # mainServo, pc # "off"
      PROVE  lockServo = 0 \/ (pc = "closeMain" /\ state # DRIVE)
    <2>1. CASE CloseMain
        BY <1>1, <2>1 DEF CloseMain, BoltInv, SweepInv
    <2>2. CASE OpenMain
        BY <1>1, <2>2 DEF OpenMain, BoltInv, SweepInv
    <2>3. mainServo' # mainServo => PowerOn \/ CloseMain \/ OpenMain
        BY <1>1
        DEF Next, FirmwareStep, Command, Commit, Locating, Environment, Sweep, WifiConnected,
            NoCommand, ReadCommand, CloseLock, OpenLock, Closed, Opened, Settle, Report,
            GPSFix, GPSMiss, Locate, PatchLat, PatchLon, CheckTheft, Alarm, ByteArrives,
            Move, NetUp, TokenGranted, NetDown, PowerLoss, servos, vars
    <2> QED
        BY <1>1, <2>1, <2>2, <2>3 DEF PowerOn
<1>2. BoltInv /\ [Next]_vars
        => [mainServo' # mainServo /\ pc # "off"
              => lockServo = 0 \/ (pc = "closeMain" /\ state # DRIVE)]_vars
    BY <1>1
<1> QED
    BY <1>2, BoltInvariant, PTL DEF Spec, PinGuardsMain
-----------------------------------------------------------------------------
\* The starting state: the document and the board agree by definition.
LEMMA CloudInit == Init => CloudInv
BY TypeInit DEF Init, CloudInv, CloudFollows, LonInv

\* The document keeps following through every step.
LEMMA CloudNext == CloudInv /\ [Next]_vars => CloudInv'
<1> SUFFICES ASSUME CloudInv, [Next]_vars PROVE CloudInv'
    OBVIOUS
<1>t. TypeOK /\ TypeOK'
    BY TypeNext DEF CloudInv
<1> USE DEF CloudInv, CloudFollows, LonInv
<1>1. CASE PowerOn
    BY <1>t, <1>1 DEF PowerOn
<1>2. CASE WifiConnected \/ Command
    <2>1. /\ pc \in {"wifi", "ble"} /\ pc' \in {"ble", "gps", "closeMain", "openLock"}
          /\ UNCHANGED <<state, pre, content, cloud, lost>>
        BY <1>2 DEF WifiConnected, Command, NoCommand, ReadCommand, Dispatch
    <2> QED BY <1>t, <2>1
<1>3. CASE Sweep
    <2>1. /\ pc \in Moving /\ pc' \in Moving
          /\ UNCHANGED <<state, pre, content, cloud, lost>>
        BY <1>3 DEF Sweep, CloseMain, CloseLock, OpenLock, OpenMain, SweepUp, SweepDown,
           Moving, Locking, Unlocking
    <2> QED BY <1>t, <2>1 DEF Moving, Locking, Unlocking
<1>4. CASE Closed \/ Opened
    BY <1>t, <1>4 DEF Closed, Opened, Settle
<1>5. CASE Report \/ Alarm
    <2>1. /\ pc \in {"report", "alarm"} /\ pc' \in {"gps", "ble"}
          /\ UNCHANGED <<state, pre>>
        BY <1>5 DEF Report, Alarm
    <2>2. /\ cloud'.gps = cloud.gps /\ ("gps" \in lost <=> "gps" \in lost')
          /\ "state" \notin lost' => cloud'.state = state
        BY <1>t, <1>5 DEF Report, Alarm, PatchState, TypeOK
    <2> QED BY <1>t, <2>1, <2>2
<1>6. CASE GPSFix \/ GPSMiss
    <2>1. /\ pc = "gps"
          /\ \/ pc' = "lat"
             \/ pc' = "ble" /\ UNCHANGED pre
          /\ UNCHANGED <<state, content, cloud, lost>>
        BY <1>6 DEF GPSFix, GPSMiss, Locate
    <2> QED BY <1>t, <2>1
<1>7. CASE PatchLat
    <2>1. /\ pc = "lat" /\ pc' = "lon" /\ UNCHANGED <<state, pre, lost>>
          /\ content'[1] = pre[1] /\ cloud'.state = cloud.state
        BY <1>t, <1>7 DEF PatchLat, With, PatchGPS, TypeOK
    <2> QED BY <1>t, <2>1
<1>8. CASE PatchLon
    <2>1. /\ pc = "lon" /\ pc' = "theft" /\ UNCHANGED <<state, pre>>
          /\ cloud'.state = cloud.state /\ ("state" \in lost <=> "state" \in lost')
        BY <1>t, <1>8 DEF PatchLon, PatchGPS, TypeOK
    <2>2. content' = pre
        BY <1>t, <1>8 DEF PatchLon, With, TypeOK
    <2>3. "gps" \notin lost' => cloud'.gps = pre
        BY <1>t, <1>8, <2>2 DEF PatchLon, PatchGPS, TypeOK
    <2> QED BY <1>t, <2>1, <2>3
<1>9. CASE CheckTheft
    BY <1>t, <1>9 DEF CheckTheft, Stolen
<1>10. CASE PowerLoss
    BY <1>t, <1>10 DEF PowerLoss
<1>11. CASE ByteArrives \/ Move \/ NetUp \/ TokenGranted \/ NetDown
    <2>1. UNCHANGED <<pc, state, pre, content, cloud, lost>>
        BY <1>11 DEF ByteArrives, Move, NetUp, TokenGranted, NetDown
    <2> QED BY <1>t, <2>1
<1>12. CASE UNCHANGED vars
    BY <1>t, <1>12 DEF vars
<1> QED
    BY <1>1, <1>2, <1>3, <1>4, <1>5, <1>6, <1>7, <1>8, <1>9, <1>10, <1>11, <1>12
    DEF Next, FirmwareStep, Commit, Locating, Environment

\* The document holds the state and the position the board acts on, unless an
\* update was dropped: in particular the second GPS patch repairs a lost first one.
THEOREM DocumentFollows == Spec => []CloudFollows
<1>1. CloudInv => CloudFollows
    BY DEF CloudInv
<1> QED
    BY <1>1, CloudInit, CloudNext, PTL DEF Spec
-----------------------------------------------------------------------------
\* Reading the receiver establishes PlaceInv; a restart forgets the position and says
\* so in lost.
LEMMA PlaceNext == TypeOK /\ PlaceInv /\ [Next]_vars => PlaceInv'
<1> SUFFICES ASSUME TypeOK, PlaceInv, [Next]_vars PROVE PlaceInv'
    OBVIOUS
<1> USE DEF PlaceInv
<1>1. CASE PowerOn
    BY <1>1 DEF PowerOn
<1>2. CASE PowerLoss
    BY <1>2 DEF PowerLoss
<1>3. CASE GPSFix
    <2>1. pc = "gps" /\ place \in Places /\ UNCHANGED <<lost, spent>>
        BY <1>3 DEF GPSFix, Locate, TypeOK
    <2>2. pre' = place \/ (UNCHANGED pre /\ pc' = "ble")
        BY <1>3 DEF GPSFix, Locate
    <2> QED BY <2>1, <2>2
<1>4. CASE GPSMiss
    <2>1. spent'["misses"] # 0
        BY <1>4 DEF GPSMiss, Spend, TypeOK, Kinds
    <2> QED BY <2>1
<1>5. CASE PatchLat
    BY <1>5 DEF PatchLat, env
<1>6. CASE PatchLon
    <2>1. pc = "lon" /\ UNCHANGED <<pre, spent>>
        BY <1>6 DEF PatchLon, env
    <2> QED BY <2>1
<1>7. CASE Report \/ Alarm
    <2>1. /\ pc \in {"report", "alarm"} /\ pc' \in {"gps", "ble"}
          /\ UNCHANGED <<pre, spent>>
        BY <1>7 DEF Report, Alarm, env
    <2>2. "gps" \in lost <=> "gps" \in lost'
        BY <1>7 DEF Report, Alarm, PatchState, TypeOK
    <2> QED BY <2>1, <2>2
<1>8. CASE WifiConnected \/ Command \/ Sweep \/ Closed \/ Opened \/ CheckTheft
    <2>1. pc # "off" /\ pc' \notin {"lat", "lon"} /\ UNCHANGED <<pre, lost, spent>>
        BY <1>8 DEF WifiConnected, Command, NoCommand, ReadCommand, Dispatch, Sweep, CloseMain,
           CloseLock, OpenLock, OpenMain, SweepUp, SweepDown, Closed, Opened, Settle,
           CheckTheft, env
    <2> QED BY <2>1
<1>9. CASE ByteArrives \/ Move \/ NetUp \/ TokenGranted \/ NetDown
    <2>1. UNCHANGED <<pc, pre, lost>>
        BY <1>9 DEF ByteArrives, Move, NetUp, TokenGranted, NetDown
    <2>2. spent'["misses"] = spent["misses"]
        BY <1>9 DEF ByteArrives, Move, NetUp, TokenGranted, NetDown, Spend, TypeOK, Kinds
    <2> QED BY <2>1, <2>2
<1>10. CASE UNCHANGED vars
    BY <1>10 DEF vars
<1> QED
    BY <1>1, <1>2, <1>3, <1>4, <1>5, <1>6, <1>7, <1>8, <1>9, <1>10
    DEF Next, FirmwareStep, Commit, Locating, Environment

\* The point on the map is a place of the bicycle, unless an update was dropped or a
\* second passed without a GPS sentence.
THEOREM MapIsTrue == Spec => []MapShowsAPlace
<1>1. Init => PlaceInv
    BY DEF Init, PlaceInv
<1>2. CloudInv /\ PlaceInv => MapShowsAPlace
    BY DEF CloudInv, CloudFollows, PlaceInv, MapShowsAPlace
<1>3. Spec => [](CloudInv /\ PlaceInv)
    <2>1. CloudInv => TypeOK
        BY DEF CloudInv
    <2> QED BY <1>1, <2>1, CloudInit, CloudNext, PlaceNext, PTL DEF Spec
<1> QED
    BY <1>2, <1>3, PTL
-----------------------------------------------------------------------------
\* A reading of a bicycle that stands still where it was locked changes nothing.
LEMMA StillNext == TheftInv /\ [Next]_vars => TheftInv'
<1> SUFFICES ASSUME TheftInv, [Next]_vars PROVE TheftInv'
    OBVIOUS
<1>t. TypeOK /\ TypeOK'
    BY TypeNext DEF TheftInv
<1> USE StateCodes DEF TheftInv, StillInv
<1>1. CASE PowerOn
    BY <1>t, <1>1 DEF PowerOn
<1>2. CASE Closed
    <2>1. pc' = "report" /\ state' = LOCKED /\ UNCHANGED <<pre, place, spent>>
        BY <1>2 DEF Closed, Settle
    <2>2. ~moved' => pre = place
        BY <1>2, Zenon DEF Closed
    <2> QED BY <1>t, <2>1, <2>2
<1>3. CASE Opened
    BY <1>t, <1>3 DEF Opened, Settle
<1>4. CASE GPSFix
    <2>1. /\ pc = "gps" /\ UNCHANGED <<state, place, moved, spent>>
          /\ \/ Far(place) /\ pc' = "lat" /\ pre' = place
             \/ ~Far(place) /\ pc' = "ble" /\ pre' = pre
        BY <1>4 DEF GPSFix, Locate
    <2>2. pre = place => ~Far(place)
        BY <1>t, PlacesAssumption DEF Far, TypeOK
    <2>3. pre' = pre \/ pre' = place
        BY <2>1
    <2>4. spent["misses"] = 0 /\ state # DRIVE /\ ~moved => pc' = "ble"
        BY <2>1, <2>2
    <2> QED BY <1>t, <2>1, <2>3, <2>4
<1>5. CASE GPSMiss
    <2>1. spent'["misses"] # 0
        BY <1>t, <1>5 DEF GPSMiss, Spend, TypeOK, Kinds
    <2> QED BY <1>t, <2>1
<1>6. CASE PatchLat \/ PatchLon
    <2>1. /\ pc \in {"lat", "lon"} /\ pc' \in {"lon", "theft"}
          /\ UNCHANGED <<state, pre, place, moved, spent>>
        BY <1>6 DEF PatchLat, PatchLon, env
    <2> QED BY <1>t, <2>1
<1>7. CASE CheckTheft
    <2>1. /\ pc = "theft" /\ pc' \in {"alarm", "ble"}
          /\ UNCHANGED <<pre, place, moved, spent>>
          /\ (state = LOCKED /\ state' = STEEL) \/ state' = state
        BY <1>7 DEF CheckTheft, Stolen, env
    <2> QED BY <1>t, <2>1
<1>8. CASE Move
    <2>1. /\ moved' = TRUE /\ UNCHANGED <<pc, state, pre>>
          /\ spent'["misses"] = spent["misses"]
        BY <1>8, <1>t DEF Move, Spend, TypeOK, Kinds
    <2> QED BY <1>t, <2>1
<1>9. CASE WifiConnected \/ Command \/ Sweep \/ Report \/ Alarm \/ PowerLoss
    <2>1. /\ pc' \notin {"lat", "lon", "theft"} /\ UNCHANGED <<state, pre, place, moved>>
        BY <1>9 DEF WifiConnected, Command, NoCommand, ReadCommand, Dispatch, Sweep, CloseMain,
           CloseLock, OpenLock, OpenMain, SweepUp, SweepDown, Report, Alarm, PowerLoss, env
    <2>2. spent'["misses"] = spent["misses"]
        BY <1>9, <1>t DEF WifiConnected, Command, NoCommand, ReadCommand, Sweep, CloseMain,
           CloseLock, OpenLock, OpenMain, Report, Alarm, PowerLoss, env, Spend, TypeOK, Kinds
    <2> QED BY <1>t, <2>1, <2>2
<1>10. CASE ByteArrives \/ NetUp \/ TokenGranted \/ NetDown
    <2>1. UNCHANGED <<pc, state, pre, place, moved>>
        BY <1>10 DEF ByteArrives, NetUp, TokenGranted, NetDown
    <2>2. spent'["misses"] = spent["misses"]
        BY <1>10, <1>t DEF ByteArrives, NetUp, TokenGranted, NetDown, Spend, TypeOK, Kinds
    <2> QED BY <1>t, <2>1, <2>2
<1>11. CASE UNCHANGED vars
    BY <1>t, <1>11 DEF vars
<1> QED
    BY <1>1, <1>2, <1>3, <1>4, <1>5, <1>6, <1>7, <1>8, <1>9, <1>10, <1>11
    DEF Next, FirmwareStep, Commit, Locating, Environment

\* No false alarm: while the receiver delivers, a theft is raised only for a bicycle
\* that moved since it was locked or was not where the board knew it to be then.
THEOREM NoFalseAlarm == Spec => []TheftMeansMoved
<1>1. Init => TheftInv
    BY TypeInit, StateCodes DEF Init, TheftInv, StillInv
<1>2. TheftInv => TheftMeansMoved
    BY DEF TheftInv, StillInv, TheftMeansMoved
<1> QED
    BY <1>1, <1>2, StillNext, PTL DEF Spec
-----------------------------------------------------------------------------
\* The firmware starts as BikeLock starts.
LEMMA LockInit == Init => Lock!Init
BY StateCodes DEF Init, Lock!Init, Lock!DRIVE, Bolt, AtRest, Moving

\* Every step of the firmware is a step of BikeLock, or invisible to it.
LEMMA LockNext == BoltInv /\ BoltInv' /\ [Next]_vars => [Lock!Next]_(Lock!vars)
<1> SUFFICES ASSUME BoltInv, BoltInv', [Next]_vars PROVE [Lock!Next]_(Lock!vars)
    OBVIOUS
<1>t. TypeOK /\ TypeOK'
    BY DEF BoltInv
<1> USE StateCodes DEF Moving, Locking, Unlocking, AtRest, Bolt, Lock!vars,
        Lock!DRIVE, Lock!LOCKED, Lock!STEEL
<1>1. CASE PowerOn
    <2>1. lockServo' = 0 /\ MaxPos # 0
        BY <1>1, MaxPosAssumption DEF PowerOn
    <2> QED BY <1>1, <2>1 DEF PowerOn, Lock!Next, Lock!PowerOn
<1>2. CASE PowerLoss
    BY <1>2 DEF PowerLoss, servos, serial, Lock!Next, Lock!PowerOff
<1>3. CASE ReadCommand
    <2>1. /\ pc = "ble" /\ pc' \in {"closeMain", "openLock", "gps"}
          /\ UNCHANGED <<state, mainServo, lockServo, cloud>>
        BY <1>3 DEF ReadCommand, Dispatch
    <2> QED BY <2>1 DEF Lock!Next, Lock!StartMoving
<1>4. CASE Sweep
    <2>1. pc \in Moving /\ pc' \in Moving /\ UNCHANGED <<state, cloud>>
        BY <1>4 DEF Sweep, CloseMain, CloseLock, OpenLock, OpenMain, SweepUp, SweepDown
    <2> QED BY <2>1
<1>5. CASE Closed
    <2>1. pc = "closed" /\ pc' = "report" /\ state' = LOCKED
          /\ lockServo' = MaxPos /\ mainServo' = MaxPos /\ UNCHANGED cloud
        BY <1>5 DEF Closed, Settle, servos, BoltInv, SweepInv
    <2> QED BY <2>1 DEF Lock!Next, Lock!FinishLock
<1>6. CASE Opened
    <2>1. pc = "opened" /\ pc' = "report" /\ state' = DRIVE /\ lockServo' = 0
          /\ UNCHANGED cloud
        BY <1>6 DEF Opened, Settle, servos, BoltInv, SweepInv
    <2>2. MaxPos # 0
        BY MaxPosAssumption
    <2> QED BY <2>1, <2>2 DEF Lock!Next, Lock!FinishUnlock
<1>7. CASE CheckTheft
    <2>1. /\ pc = "theft" /\ UNCHANGED <<mainServo, lockServo, cloud>>
          /\ \/ pc' = "alarm" /\ state = LOCKED /\ state' = STEEL
             \/ pc' = "ble" /\ UNCHANGED state
        BY <1>7 DEF CheckTheft, Stolen, servos
    <2>2. state = LOCKED => lockServo = MaxPos /\ mainServo = MaxPos
        BY <2>1 DEF BoltInv, BoltMatchesState
    <2> QED BY <2>1, <2>2 DEF Lock!Next, Lock!RaiseTheft
<1>8. CASE WifiConnected \/ NoCommand \/ GPSFix \/ GPSMiss
    <2>1. /\ pc \in {"wifi", "ble", "gps"} /\ pc' \in {"ble", "gps", "lat"}
          /\ UNCHANGED <<state, mainServo, lockServo, cloud>>
        BY <1>8 DEF WifiConnected, NoCommand, GPSFix, GPSMiss, Locate, servos
    <2> QED BY <2>1
<1>9. CASE PatchLat \/ PatchLon
    <2>1. /\ pc \in {"lat", "lon"} /\ pc' \in {"lon", "theft"}
          /\ UNCHANGED <<state, mainServo, lockServo>>
        BY <1>9 DEF PatchLat, PatchLon, servos
    <2>2. cloud'.state = cloud.state
        BY <1>t, <1>9 DEF PatchLat, PatchLon, PatchGPS, TypeOK
    <2> QED BY <2>1, <2>2
<1>10. CASE Report \/ Alarm
    <2>1. /\ pc \in {"report", "alarm"} /\ pc' \in {"gps", "ble"}
          /\ UNCHANGED <<state, mainServo, lockServo>>
        BY <1>10 DEF Report, Alarm, servos
    <2>2. cloud'.state \in {cloud.state, state}
        BY <1>t, <1>10 DEF Report, Alarm, PatchState, TypeOK
    <2> QED BY <2>1, <2>2 DEF Lock!Next, Lock!Report
<1>11. CASE ByteArrives \/ Move \/ NetUp \/ TokenGranted \/ NetDown
    <2>1. UNCHANGED <<pc, state, mainServo, lockServo, cloud>>
        BY <1>11 DEF ByteArrives, Move, NetUp, TokenGranted, NetDown, servos
    <2> QED BY <2>1
<1>12. CASE UNCHANGED vars
    BY <1>12 DEF vars
<1> QED
    BY <1>1, <1>2, <1>3, <1>4, <1>5, <1>6, <1>7, <1>8, <1>9, <1>10, <1>11, <1>12
    DEF Next, FirmwareStep, Command, Commit, Locating, Environment

\* The firmware implements the abstract lock: setup(), loop() and a power loss at
\* any point only do what BikeLock allows, with the bolt read off the servos.
THEOREM FirmwareIsALock == Spec => ImplementsBikeLock
BY LockInit, LockNext, BoltInvariant, PTL DEF Spec, ImplementsBikeLock, Lock!Spec
=============================================================================
