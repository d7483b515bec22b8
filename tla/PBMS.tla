-------------------------------- MODULE PBMS --------------------------------
(***************************************************************************)
(* The whole system: several boards, each a BikeLock, the collection of the *)
(* database, and the app that taps a lock through its connected peripheral, *)
(* lists thefts, clears them, registers and removes bicycles.  Board and    *)
(* app write the same field and never talk to each other about it; this     *)
(* module says what the field is then worth.                                *)
(*                                                                         *)
(* Servos, bytes that are no digits and GPS are in Firmware, callbacks of   *)
(* Bluetooth in BleLink, the delay between a poll and its callback in Alarm.*)
(***************************************************************************)
EXTENDS BikeDocs

CONSTANTS
    User,     \* the user whose alarm screen is open
    None,     \* no lock takes the taps
    Limit     \* how often each kind of event may happen

Kinds == {"taps", "thefts", "drops", "cuts", "edits"}

ASSUME UserAssumption  == User \in Users
ASSUME NoneAssumption  == None \notin Bikes
ASSUME LimitAssumption == Limit \in [Kinds -> Nat]

DRIVE  == 0          \* Value.h, enum bicycleState
LOCKED == 1
STEEL  == 2
OPEN   == 0          \* Value.h, enum lockCmd
CLOSE  == 1

VARIABLES
    on, mode, bolt, due, told,   \* of each board: the variables of BikeLock
    goal,        \* the mode its running movement ends in
    wire,        \* commands in its serial buffer
    docs,        \* the collection in the database
    connected,   \* the board whose link to the phone is up and takes its taps
    rows,        \* the alarm list: nickname of a row -> the document it clears
    stale,       \* history: what made the document differ from the board since it
                 \* was told last: "missed" (dropped update, restart), "app" (a write)
    spent        \* history: events so far, up to Limit

lock   == <<on, mode, bolt, due, told>>
boards == <<lock, goal>>
app    == <<connected, rows>>
vars   == <<on, mode, bolt, due, told, goal, wire, docs, connected, rows, stale, spent>>

Spend(kind) == /\ spent[kind] < Limit[kind]
               /\ spent' = [spent EXCEPT ![kind] = @ + 1]

\* All bicycles are registered to the user, and no board has power yet.
Init == /\ on = [d \in Bikes |-> FALSE]
        /\ mode = [d \in Bikes |-> DRIVE]
        /\ bolt = [d \in Bikes |-> "loose"]
        /\ due = [d \in Bikes |-> FALSE]
        /\ told = [d \in Bikes |-> DRIVE]
        /\ goal = [d \in Bikes |-> DRIVE]
        /\ wire = [d \in Bikes |-> <<>>]
        /\ docs \in {[d \in Bikes |-> [uid |-> User, nick |-> nick[d], state |-> DRIVE]]
                       : nick \in [Bikes -> Nicks]}
        /\ connected = None
        /\ rows = <<>>
        /\ stale = [d \in Bikes |-> {}]
        /\ spent = [k \in Kinds |-> 0]
-----------------------------------------------------------------------------
(* The boards.                                                               *)

PowerOn(d) == /\ ~on[d]
              /\ on' = [on EXCEPT ![d] = TRUE]
              /\ mode' = [mode EXCEPT ![d] = DRIVE]
              /\ bolt' = [bolt EXCEPT ![d] = "out"]
              /\ stale' = [stale EXCEPT ![d] = @ \cup {"missed"}]
              /\ UNCHANGED <<due, told, goal, wire, docs, app, spent>>

PowerOff(d) == /\ on[d]
               /\ Spend("cuts")
               /\ on' = [on EXCEPT ![d] = FALSE]
               /\ bolt' = [bolt EXCEPT ![d] = "loose"]
               /\ due' = [due EXCEPT ![d] = FALSE]
               /\ wire' = [wire EXCEPT ![d] = <<>>]
               /\ connected' = IF connected = d THEN None ELSE connected
               /\ UNCHANGED <<mode, told, goal, docs, rows, stale>>

\* The number that the digits which wait together stand for.
Number(digits) == FoldLeft(LAMBDA v, c : 10 * v + c, 0, digits)

\* The switch over the command: a sweep starts whatever the state is.
DispatchChange(d, cmd) ==
    IF cmd \in {OPEN, CLOSE} /\ mode[d] # cmd
    THEN bolt' = [bolt EXCEPT ![d] = "loose"] /\ goal' = [goal EXCEPT ![d] = cmd]
    ELSE UNCHANGED <<bolt, goal>>

Dispatch(d, cmd) ==
    IF cmd \in {OPEN, CLOSE}
    THEN bolt' = [bolt EXCEPT ![d] = "loose"] /\ goal' = [goal EXCEPT ![d] = cmd]
    ELSE UNCHANGED <<bolt, goal>>

ReadCommand(d) == /\ on[d] /\ ~due[d] /\ bolt[d] # "loose"
                  /\ wire[d] # <<>>
                  /\ wire' = [wire EXCEPT ![d] = <<>>]
                  /\ Dispatch(d, Number(wire[d]))
                  /\ UNCHANGED <<on, mode, due, told, docs, app, stale, spent>>

\* The sweep ends, and Value.state follows.
ReachedLocked(d) == LOCKED
ReachedMode(d) == goal[d]

Finish(d) == /\ on[d] /\ bolt[d] = "loose"
             /\ bolt' = [bolt EXCEPT ![d] = IF goal[d] = LOCKED THEN "in" ELSE "out"]
             /\ mode' = [mode EXCEPT ![d] = ReachedMode(d)]
             /\ due' = [due EXCEPT ![d] = TRUE]
             /\ UNCHANGED <<on, told, goal, wire, docs, app, stale, spent>>

\* A locked bicycle is found away from its position.
StolenAnyway(d) == mode[d] # STEEL
Stolen(d) == mode[d] = LOCKED

RaiseTheft(d) == /\ on[d] /\ ~due[d] /\ bolt[d] # "loose"
                 /\ Stolen(d)
                 /\ Spend("thefts")
                 /\ mode' = [mode EXCEPT ![d] = STEEL]
                 /\ due' = [due EXCEPT ![d] = TRUE]
                 /\ UNCHANGED <<on, bolt, told, goal, wire, docs, app, stale>>

\* updateFirebase() sends the state, or drops it.
Send(d) == /\ due[d]
           /\ due' = [due EXCEPT ![d] = FALSE]
           /\ told' = [told EXCEPT ![d] = mode[d]]
           /\ docs' = Patched(docs, d, mode[d])
           /\ stale' = [stale EXCEPT ![d] = {}]
           /\ UNCHANGED <<on, mode, bolt, goal, wire, app, spent>>

Drop(d) == /\ due[d]
           /\ Spend("drops")
           /\ due' = [due EXCEPT ![d] = FALSE]
           /\ stale' = [stale EXCEPT ![d] = @ \cup {"missed"}]
           /\ UNCHANGED <<on, mode, bolt, told, goal, wire, docs, app>>
-----------------------------------------------------------------------------
(* The app.                                                                  *)

\* A lock is chosen on the scan screen and becomes ready (BleLink).
Connect(d) == /\ on[d]
              /\ connected' = d
              /\ UNCHANGED <<boards, wire, docs, rows, stale, spent>>

\* A tap goes to the connected lock, whichever bicycle the map shows; one that goes to
\* a broken link does nothing at all.
Tap(c) == /\ connected # None
          /\ Spend("taps")
          /\ wire' = [wire EXCEPT ![connected] = Append(@, c)]
          /\ UNCHANGED <<boards, docs, app, stale>>

\* Documents that the loop of stateCheck() finds stolen, and their texts.
Thefts == {d \in Reached(docs) : docs[d].uid = User /\ docs[d].state = STEEL}

TextsFirst == IF DOMAIN rows = {} THEN {docs[d].nick : d \in Thefts} ELSE {}
Texts == {docs[d].nick : d \in Thefts}

\* A poll of the alarm screen: a text that has a row keeps it, a new one gets a row for
\* the first document that has it.
List == /\ rows' = [n \in DOMAIN rows \cup Texts |->
                      IF n \in DOMAIN rows THEN rows[n]
                      ELSE Ascending({d \in Thefts : docs[d].nick = n})[1]]
        /\ UNCHANGED <<boards, wire, docs, connected, stale, spent>>

\* A row is deleted: its document gets the state 0, and the board is not told.
Clear(nick) == /\ rows' = [n \in DOMAIN rows \ {nick} |-> rows[n]]
               /\ docs' = Updated(docs, rows[nick], DRIVE)
               /\ stale' = [stale EXCEPT ![rows[nick]] = @ \cup {"app"}]
               /\ UNCHANGED <<boards, wire, connected, spent>>

\* Some phone registers the number of a lock, again or anew.
Register(d, nick, uid) == /\ Spend("edits")
                          /\ docs' = Registered(docs, d, nick, uid)
                          /\ stale' = [stale EXCEPT ![d] = @ \cup {"app"}]
                          /\ UNCHANGED <<boards, wire, app>>

\* Some phone removes the bicycles of a nickname.
RemoveNick(nick) == /\ Spend("edits")
                    /\ docs' = Removed(docs, Named(docs, nick))
                    /\ UNCHANGED <<boards, wire, app, stale>>
-----------------------------------------------------------------------------
Program(d) == ReadCommand(d) \/ Finish(d) \/ Send(d) \/ Drop(d)
Board(d)   == Program(d) \/ PowerOn(d) \/ PowerOff(d) \/ RaiseTheft(d)

App == \/ List
       \/ \E c \in {OPEN, CLOSE} : Tap(c)
       \/ \E d \in Bikes : Connect(d)
       \/ \E nick \in DOMAIN rows : Clear(nick)
       \/ \E d \in Bikes, nick \in Nicks, uid \in Users : Register(d, nick, uid)
       \/ \E nick \in Nicks : RemoveNick(nick)

Next == App \/ \E d \in Bikes : Board(d)

Spec == Init /\ [][Next]_vars

\* loop() runs on every board with power, and the alarm screen polls.
FairSpec == Spec /\ WF_vars(List) /\ \A d \in Bikes : WF_vars(Program(d))
-----------------------------------------------------------------------------
TypeOK == /\ {on, due} \subseteq [Bikes -> BOOLEAN]
          /\ {mode, told} \subseteq [Bikes -> States]
          /\ goal \in [Bikes -> {DRIVE, LOCKED}]
          /\ bolt \in [Bikes -> {"in", "out", "loose"}]
          /\ wire \in [Bikes -> Seq({OPEN, CLOSE})]
          /\ IsCollection(docs)
          /\ connected \in Bikes \cup {None}
          /\ DOMAIN rows \subseteq Nicks /\ rows \in [DOMAIN rows -> Bikes]
          /\ stale \in [Bikes -> SUBSET {"missed", "app"}]
          /\ spent \in [Kinds -> Nat]

\* What the database shows of a lock at rest is true of its bolt: "locked" and
\* "stolen" are reports of the board and hold until an update is dropped or the board
\* restarts, because the app writes only 0; "ridden" is true unless the app wrote it.
ShownIsTrue ==
    \A d \in DOMAIN docs :
        on[d] /\ ~due[d] /\ bolt[d] # "loose" =>
            IF docs[d].state = DRIVE
            THEN stale[d] = {} => bolt[d] = "out"
            ELSE "missed" \notin stale[d] => docs[d].state = mode[d] /\ bolt[d] = "in"

Lock(d) == INSTANCE BikeLock WITH on <- on[d], mode <- mode[d], bolt <- bolt[d],
                                  due <- due[d], told <- told[d]

\* Each board of the system is the lock that the firmware implements, whatever the
\* app and the other boards do.
BoardsAreLocks == /\ \A d \in Bikes : Lock(d)!Init
                  /\ [][\A d \in Bikes : [Lock(d)!Next]_(Lock(d)!vars)]_vars

\* A theft raised by the board of a registered bicycle gets a row on its owner's alarm
\* screen, unless the update is dropped, the lock is operated or loses its power, the
\* document is written by the app, or the loop over the documents ends before it.
TheftReachesOwner ==
    \A d \in Bikes :
        (mode[d] = STEEL /\ due[d] /\ d \in DOMAIN docs /\ docs[d].uid = User)
            ~> \/ d \in DOMAIN docs /\ docs[d].nick \in DOMAIN rows
               \/ mode[d] # STEEL \/ ~on[d] \/ bolt[d] = "loose"
               \/ ~due[d] /\ stale[d] # {}
               \/ d \notin Reached(docs) \/ docs[d].uid # User

\* One command that the lock carries out repairs what a restart, a dropped update, a
\* cleared alarm or a registration left wrong in the document, also when the lock is
\* in the commanded position already.
OperationRepairs ==
    \A d \in Bikes :
        (/\ stale[d] # {} /\ on[d] /\ wire[d] \in {<<OPEN>>, <<CLOSE>>}
         /\ spent["drops"] = Limit["drops"])
            ~> (stale[d] = {} \/ ~on[d] \/ Len(wire[d]) > 1)
=============================================================================
