# Rock-YOU: a verification project

Rock-YOU ("PBMS", Personal Bicycle Management System) is a bicycle lock on a NodeMCU
board, a phone app, and a Firestore database between them. The phone opens and closes the
lock over Bluetooth; the board writes the lock's state and position to the bicycle's
document; the app reads that document to show the bicycle and to raise an alarm.

This directory holds TLA+ modules of the board's program and of the app's screens, TLC
configurations that check them on small instances, and proofs, checked by TLAPS, of what
holds for every instance. `PROJECT.json` maps every definition to the lines it models and
lists runs, mutants, findings, hazards and theorems.

    tlc -config FirmwareSafety.cfg MCFirmware.tla      # a run
    tlapm FirmwareProofs.tla                           # the proofs

## 1. Inventory

### Embedded side (`src/embedded/Rock-YOU_nodeMCU`, C++)

| Component | State it keeps | Operations |
|---|---|---|
| Firmware loop (`Rock-YOU_nodeMCU.ino`) | none of its own | `setup()`, `loop()`: command, position, theft |
| MyBluetooth | serial receive buffer | `getCmdFromBLE` (`available`, `parseInt`), `sendCmdToBLE` |
| MyMotor | positions of main gear and lock pin | `setMotor`, `lockBicycle`, `unlockBicycle` |
| MyGPS | decoder | `getGPSValue` (one second window) |
| MyFirebase | `content` (shared JSON object), token | `setFirebase`, `updateFirebase`, `updateGPSFirebase` |
| MyWifi | connection | `connWifi` (blocks) |
| Value | `state`, `preGpsValue` | `initValue` |

One thread runs all of it, with blocking calls: a sweep of two servos, a second of GPS,
two or three requests. Commands, movement of the bicycle, the network and the power
change meanwhile, and that is where its hard behaviour is: bytes that wait together, an
update that finds no network, a power loss in the middle of a sweep, a position that is
older than the locking. It is correct when the state in RAM, the answer to the phone, the
pin and the gear, and the cloud document agree whenever somebody can look; when a theft is
raised for a locked bicycle that moves; and when a command that is received is carried out.

### App (`src/app/RockYou`, Swift)

| Component | State it keeps | Operations |
|---|---|---|
| BluetoothSerial | manager state, pending and connected peripheral, write characteristic | scan, connect, send, delegate callbacks |
| ScanViewController | list of peripherals | discover, select, connected |
| MapViewController | latitude and longitude, marker | 1 s poll of the position, lock and open taps, back |
| AlarmViewController, AlarmTableModel | two arrays: documents and texts of the alarms | 1 s poll of the states, reset, delete a row |
| MainViewController, LabelViewModel | list of bicycles, laid-out cells | read, synchronise, refresh, choose, remove |
| BicycleRegisterViewController | page of the form | next, register, cancel |
| LoginViewController | session (`userid`, `identification`), alert | log in, go to sign-up |
| SignUpViewController | form, alert | sign up (two requests), back |
| UserViewController | labels, text of the list | read user, list bicycles |

Everything runs on the main queue, one touch or callback at a time. The hard behaviour is
between two of them: an answer of the database is handled after touches that came later,
several questions are under way at once, CoreBluetooth's callbacks of two connections
interleave, a link breaks without a callback the app implements. The screens are correct
when what a touch acts on is what the user sees, when parallel arrays stay parallel, when
thefts reach the list, when "ready" means that a tap reaches the lock, when the map marks the
bicycle that was touched, and when a session is its user's and each account gets its document.

### Database and interactions

    phone --'0'/'1' over BLE--> board --patch "state", patch "GPS"--> document of the bicycle
    phone <--answer 0/1-------- board                                      |
    app: setData (register), updateData (clear alarm), delete, getDocuments (poll, list)

The number on a lock is the name of its document. Board and app both write the field
`state`; the app never tells the board. Four loops of the app (main list, alarm, user page,
map) return at the first document without an owner.

### Left out

`WLITextField.swift` (third-party text field), `Pods` (vendored SDKs), storyboard, marker
and delegates of app and scene (layout, templates), the sketch `Rock-YOU_nodeMCUone` (its
`loop()` is empty), `example/`, `test/` (trial sketches for single parts), `RockYouTests`
(empty templates), `hardware modeling` (printing files).

## 2. Modules

| Module | Models | Extends |
|---|---|---|
| `BikeLock` | what a lock promises: power, mode, bolt, report to the document | |
| `Firmware` | the board: `setup()`, `loop()` and all classes, with the world around it | |
| `FirmwareProofs` | proofs about `Firmware`, refinement of `BikeLock` | `Firmware`, `TLAPS` |
| `PBMS` | the system: boards (instances of `BikeLock`), the collection, the app's writes | `BikeDocs` |
| `PBMSProofs` | proofs about `PBMS`, refinement of `BikeLock` by each board | `PBMS`, `BikeDocsProofs` |
| `BleLink` | BluetoothSerial, the scan screen, the two taps of the map | |
| `BleLinkProofs` | proofs about `BleLink` | `BleLink`, `TLAPS` |
| `BikeDocs` | the collection "bicycle": what every writer and reader does to it | |
| `BikeDocsProofs` | lemmas about its operators and about sequences, for the modules below | `BikeDocs`, `TLAPS` |
| `Alarm` | the alarm screen with boards, other phones and the database around it | `BikeDocs` |
| `AlarmProofs` | proofs about `Alarm` | `Alarm`, `BikeDocsProofs` |
| `BikeList` | the main screen, the registration form, the removal | `BikeDocs` |
| `BikeListProofs` | proofs about `BikeList` | `BikeList`, `BikeDocsProofs` |
| `BikeViews` | the map's poll and marker, the list of the user's page | `BikeDocs` |
| `BikeViewsProofs` | proofs about `BikeViews` | `BikeViews`, `BikeDocsProofs` |
| `Session` | sign-up, login, the user's labels | |
| `SessionProofs` | proofs about `Session` | `Session`, `TLAPS` |
| `MC...` | constants of the runs | the module checked |

### Firmware

`pc` is the place in the program. A step ends where something outside can be seen to
happen: `PowerOn`/`WifiConnected` (`setup()`), `NoCommand`/`ReadCommand` (`parseInt` and the
switch), `CloseMain`, `CloseLock`, `OpenLock`, `OpenMain` (one write to a servo each),
`Closed`/`Opened` (state and answer), `Report` (patch of the state), `GPSFix`/`GPSMiss`,
`PatchLat`, `PatchLon`, `CheckTheft`, `Alarm`. The environment: `ByteArrives`, `Move`,
`NetUp`, `TokenGranted`, `NetDown`, `PowerLoss`.

Abstractions, and why they lose nothing the properties tell apart:

- A servo has `0..MaxPos` positions (36 steps of 5 degrees in the code). The proofs hold
  for every `MaxPos`.
- Two different places are 4 m or more apart, so "distance >= 4" is "another place".
  Coordinates are integers; 0 is the code's "no position", and no place has latitude 0.
- `parseInt` is atomic: bytes that arrive while it waits are in the model bytes that arrived
  just before. A minus sign and numbers of ten or more digits are not among the inputs.
- A request that fails is a `NetDown` just before it: the code treats both alike.
- The struct that `getGPSValue` never wrote holds any coordinates.
- `Servo::attach` may move the main gear anywhere before the first write.
- A coordinate that was not set is 0 in the GPS point, as the SDK writes it.
- `lost`, `moved` and `spent` are history variables: no step's other effects read them
  but the bounds on environment events.

`BikeLock` is what others may rely on: power, the mode, the bolt, and, for each change of mode,
one attempt (`due`) to tell the document (`told`) before the bolt moves again. `Firmware` maps
`due` to the two places in `loop()` just before `updateFirebase`, and `told` to the document.

### BleLink

One action per callback and per touch. `phase[p]` is what CoreBluetooth still owes for
peripheral `p`; `linked` is the truth about links, which the app does not see. A lost link
(`Drop`) and a failed attempt (`ConnectFails`) change nothing in the app, because it has no
callback for either. `Release` is the weak reference `writeCharacteristic` going nil.
`Arranged` is the append and the sort of the list: any array of the rows that ascends by signal.
Rows of equal signals may be in either order, which is what Swift's `sort` promises. `Foreign`
are peripherals without the characteristic FFE1: they connect, and the loop over their
characteristics finds nothing. `DiscoveryFails` is a discovery that ends with an error, where the
forced unwrapping stops the app. `Select` takes row number and list together: each change of the
list reloads the table in the same turn of the main queue, and the table lays out before the next
touch is handled, so a touched row is a row of the list.

### BikeDocs, Alarm, BikeList

A collection is a function from lock numbers to fields, read in the order of the names.
`Reached` is where a loop over it ends, and `Ascending` the order in which it meets the documents
it selects. `Unlisted` says which of them an alarm callback adds: not those whose text is listed,
and of several with one new text the first.
The SDK answers a query of this app with its own writes included, so a stale answer is one
whose callback is waiting in the main queue (`results`) when the user touches something;
answers of `BikeList` may come in another order than the questions (`Answer(i)`).

`Alarm` keeps the two arrays, and `shown`, the rows UIKit has laid out: `deleteRows` compares
both counts and stops the app when they do not fit (`crashed`, then `Relaunch`). `BikeList`
keeps `cells` beside `list` for the same reason: when the screen appears again, `viewWillAppear`
empties the list without a `reloadData()`, the old cells stay, and `labelInfo(at:)` traps beyond
the end. `Refresh` does call `reloadData()` before it empties the list; the collection view lays
out after both, from the empty list. A list that is filled while the screen is covered by another
is laid out when it appears. A registration of a number of blanks passes the form and stops the
app in `document("")` (`RegisterBlank`). `Register` and `RemoveNick` of `Alarm` are what other
phones write: a removal deletes every document of the nickname, and a board that reports
afterwards creates its document anew, without an owner. `board` in `Alarm` is the state of each
board as `BikeLock` allows it: a theft only after a locking.

### PBMS

Several boards, each with the five variables of `BikeLock` and its running movement (`goal`),
the serial line of each (`wire`: bytes that wait together are one number, as in `Firmware`), the
collection, the connected board and the alarm list. `BoardsAreLocks` says that every step of a
board in the composition is a step of `BikeLock`, and `ImplementsBikeLock` of `Firmware` says the
same of the detailed program: both keep what `BikeLock` promises. That the boards of the
composition can do all that the program can is shown by neither; it is by construction that
`Dispatch`, `Finish`, `RaiseTheft`, `Send` and `Drop` take the program's branches. `stale[d]` is
history: a
dropped update or a restart (`missed`) and writes of the app (`app`) since the board told its
document last. The alarm list is a function from nicknames to documents: a row is found by
its text, which is the nickname. `List` is poll and callback in one step; what may happen
between them is in `Alarm`, and `Connect` stands for the callbacks of `BleLink`.

The firmware names one document in its source (`MyFirebase.cpp:22`), the registration form any
number. Each board is taken to be built with its own.

### BikeViews

A map is opened for a nickname (`Open`), polls while it is open, and is left (`Back`); a
question carries the screen that asked it, because the callback writes to that screen. A
position is `<<d, n>>`, the n-th report, made by the board of `d`. `Deliver` is the whole
callback: the loop, its three early returns and the marker that every turn sets. The user's
page is a tab, whose view is loaded once (`ShowPage`); `addBicycleList` is the callback of its one
question: it gathers nicknames in `bicycleListString` and sets the text only after the loop, so
that a document without an owner leaves the text as it was, which is empty. No property is stated
of that list: a text that is set once from one loop leaves nothing to relate.

### Session

A sign-up is a record that steps from `create` to `created` (the account exists, its callback
is due) to `save` (the document is on its way); a login carries the answer it got. `opened`
and `alone` remember which login opened the session and whether another was under way;
`lost` the accounts that will never have a document. `Presented` is UIKit's rule that a screen
which presents something, or is not shown, presents nothing more. A restart drops every
callback; a document sent before it is kept, because the database's client keeps its writes.
A name of blanks, which passes the forms and is trimmed to nothing, stops the app in
`document("")` (`LoginViewController.swift:82`, `SignUpViewController.swift:107`): one of the
restarts.

## 3. Runs

| Run | Checks | Shows |
|---|---|---|
| `firmware_safety` | `TypeOK`, `BoltMatchesState`, `AckMatchesBolt`, `CloudFollows`, `MapShowsAPlace`, `TheftMeansMoved`, `PinGuardsMain`, `ImplementsBikeLock` | servos, state, answers and document stay consistent through commands, junk bytes, moves, GPS misses, an outage and a power loss at any step; no theft without a reason; every step is one of the lock |
| `firmware_live` | `TheftDetected`, `LoneCloseLocks` | a carried-off bicycle is noticed; a lone lock command is carried out |
| `firmware_taps` | refutes `NoInvalidCommand` | bytes of two taps become one number |
| `firmware_lost_alarm` | refutes `AlarmReachesCloud` | a theft raised while `ready()` is false is never sent |
| `ble_link` | `TypeOK`, `StaleOnlyAfterDrop`, `FoundIsReady`, `WaitingIsTold`, `OnlyLockGetsReady` | references and alert stay consistent with two locks and a foreign device; the lock that stays connected alone becomes the one that is tapped |
| `alarm` | `TypeOK`, `RowsMatch`, `ShownIsPrefix`, `TheftIsListed` | the arrays and the rows stay in step; thefts are listed |
| `alarm_ownerless` | refutes `OthersDoNotHide` | a document without an owner, created by a board's report, hides the theft that comes after it in the loop |
| `bike_list` | `TypeOK`, `TouchHitsCell`, `ListedOnce`, `EmptyEnds` | a touch opens the bicycle its cell shows; nothing is listed twice but after overlapping reads; the list fills again |
| `bike_list_cells` | refutes `CellsHaveData` | a touch on a cell that `viewWillAppear` left without its data stops the app |
| `pbms` | `TypeOK`, `ShownIsTrue`, `BoardsAreLocks`, `TheftReachesOwner`, `OperationRepairs` | what the database shows of a lock is true, with named exceptions; a theft comes to its owner; one operation repairs what was left wrong; each board is a lock |
| `bike_views` | `TypeOK`, `MarkerIsOfName`, `MarkerFollows` | the map marks the touched bicycle, comes to its last position and stays there |
| `session` | `TypeOK`, `EveryAccountOnce`, `PageShowsLogin`, `LoginOpens`, `SignUpIsDone` | an account has one fate; the page is that of the login that opened the session, if it was the only one under way; logins and sign-ups end |

Each property of a passing run has a mutant: the module with one mapped definition changed
as a bug would change it, under which the same run finds the property violated.

### Bounds

- `Limit` (Firmware) bounds bytes, moves, misses, outages and reboots. Two bytes are the
  shortest sequence with an order between commands and with bytes that wait together; two
  places differ in both coordinates, so a torn point is neither; one power loss hits every
  step, one outage every request. `MaxPos = 2` gives each sweep a middle. `firmware_live`
  has three bytes and two moves: a bicycle locked, carried off and brought back, with the
  command in front of or behind others.
- BleLink: two locks and a foreign device. `MaxSelects = 2`: two choices overlap, which is what two connections need; drops,
  failures and switches of Bluetooth are unbounded.
- `MaxQueries = 2` (Alarm, BikeList): two questions overlap, and one answer waits while
  another is handled. `MaxReports = 2`, with the bicycles locked at the start, gives two
  thefts, the second while the first is on the screen; `MaxEdits = 1` gives a change of
  nickname, of owner, a removal, or a board that creates a document nobody registered.
  `AlarmOwnerless.cfg` has two reports: one to create the document without an owner after its
  removal, and one theft behind it. `MaxForms = 1` gives one registration or one removal, which matches up to two documents.
- Two bicycles, nicknames and users: a duplicate, an order and a stranger.
- `PBMSLimit` (PBMS): two taps and two thefts, so that bytes merge, a lock is opened after it
  was closed, and two boards raise a theft, or one of them after the other's was cleared; one
  dropped update, one power loss and one edit, each at any point between the others.
- BikeViews: two bicycles, so that one stands before the other in the loop, as another bicycle
  of the nickname or as a document without an owner; two reports, so that the marker has a
  position to leave for the next one and answers with the older are under way when the newer is
  reported; two maps, so that an answer meets another screen than the one that asked; two polls
  under way; one edit at any time.
- Session: four forms over two names, passwords and addresses: two sign-ups share a name, an
  address, both or neither, and the password tells which of them wrote a document. Two logins
  overlap; one fault is a failed request or a restart.

`session` and `bike_views` run with `CHECK_DEADLOCK FALSE`: when the submissions are used up and
everything is answered, or when the last map is left and every event has happened, the app waits
for its user.

### Fairness

- Firmware: `WF` of the program's step (`loop()` is called for ever and every blocking call
  in it returns), of `NetUp` and of `TokenGranted` (the station reconnects and the token is
  renewed by the libraries). Nothing is assumed of commands, moves or failures.
- BleLink: `WF` of each peripheral's callbacks: CoreBluetooth answers what it has not given
  up. Nothing of the rider.
- Alarm: `WF` of the repeating timer and of the main queue, `SF` of the answer: the database
  may fail any poll, but not all of them for ever.
- BikeList: `WF` of the main queue, and of "some question is answered or fails". Reads are
  not repeated, so `EmptyEnds` has the failed read as one of its outcomes (`unread`).
- PBMS: `WF` of each board's program and of the alarm screen's poll. Nothing of taps, thefts,
  power, edits or of the deletion of rows.
- BikeViews: as in `Alarm`: `WF` of the timer and of the main queue, `SF` of the answer.
- Session: `WF` of "some sign-up moves" and of "some login moves": requests end with an answer
  or an error and their callbacks run. Nothing is assumed of the user, who need not close
  an alert.

## 4. Proofs

| Theorem | Module | Says, for every value of the constants |
|---|---|---|
| `TypeCorrect` | every component | `TypeOK` |
| `StateIsTrue` | `Firmware` | at rest, `Value.state` agrees with pin and gear |
| `AnswerIsTrue` | `Firmware` | the last answer to the phone stays true of the pin |
| `PinGuardsMainGear` | `Firmware` | the gear turns only with the pin out, but in a repeated lock command |
| `DocumentFollows` | `Firmware` | without a dropped update, document and board agree |
| `MapIsTrue` | `Firmware` | without a dropped update or a missed second, the point is a place of the bicycle |
| `NoFalseAlarm` | `Firmware` | without a missed second, a theft means that the bicycle was moved since it was locked, or locked away from the stored position |
| `FirmwareIsALock` | `Firmware` | it implements `BikeLock` |
| `ShownStateIsTrue` | `PBMS` | the state in the database is true of a lock at rest, with the exceptions of `ShownIsTrue` |
| `EachBoardIsALock` | `PBMS` | every board implements `BikeLock` |
| `StoredLinkIsReal` | `BleLink` | the stored peripheral is linked, or its link broke unnoticed |
| `FoundLockIsReady` | `BleLink` | the only lock that is up and has named its characteristic can be tapped |
| `AscendingSeq` | `BikeDocs` | a loop over a finite set of documents meets each once, in order |
| `RowsStayInStep` | `Alarm` | the two arrays of the alarm list stay parallel; no text twice |
| `ScreenIsPrefix` | `Alarm` | the rows on the screen are the first of the list |
| `TouchIsTrue` | `BikeList` | a touch opens the bicycle its cell shows |
| `ListHoldsOnce` | `BikeList` | no bicycle is listed twice, unless two reads overlapped |
| `MarkerIsTrue` | `BikeViews` | the marker is where a bicycle of the touched name was that the user registered |
| `AccountsHaveOneFate` | `Session` | each account has one document, or is about to get it, or has lost it |
| `PageIsTrue` | `Session` | the page shows the name and password of the login that opened the session, if no other login was under way when it did |
| `FailuresAreSilent` | `Session` | no failure of a sign-up is ever shown |

With these, every invariant and every action property of the passing runs is a theorem.

Assumptions are the named `ASSUME`s of the modules: a servo has two positions or more, 0 is
a coordinate, no place has latitude 0, junk is not a digit, the buffer holds a byte, the numbers
of locks are finitely many integers, finitely many peripherals are in reach, and the values that
stand for "none" are none of the others.

Arguments:

- `BoltMatchesState` is not inductive: in the middle of a sweep nothing relates the state to
  the pin. `BoltInv` adds `SweepInv`, which says where a finished part of a sweep
  has left its servo and which state a label implies, and `AckInv`, which ties the last answer
  to the state. `PinGuardsMain`, `AckMatchesBolt` and the refinement
  follow from the same invariant; the refinement needs it before and after the step, to
  know that the bolt is in when `Closed` and `CheckTheft` say so.
- `CloudFollows` needs `LonInv`: between the two GPS patches, `content` already holds the
  latitude of `pre`. The second patch then writes the whole point, which is why it makes up
  for a lost first one.
- `MapShowsAPlace` needs `PlaceInv`: with no missed second, `pre` is a place as soon as the
  board has one to send. `lost` stays non-empty from a restart to the next complete update.
- `TheftMeansMoved` (`StillInv`): a bicycle that is not being ridden and did not move is where
  the board knows it to be, so no reading starts the steps that lead to a theft.
- `StaleOnlyAfterDrop` and `TouchHitsCell` are inductive as they stand; the steps that leave
  their variables alone are one lemma each.
- `FoundIsReady` (`LinkInv`): a phase past "asked" is one of a linked peripheral, and the
  characteristic of the only linked one is not released while its link is up.
- The types of `BleLink` need that arranging a finite set of rows gives an array (`ArrangedRows`):
  `OpenScan` arranges one row per linked peripheral, `DidDiscover` adds a row.
- `PBMS` (`Inv`): a board's mode follows its bolt (`BoltInv`), what it told last is its mode
  unless it missed something (`ToldInv`), and its document holds that or the app's 0
  (`DocInv`). `ShownIsTrue` is the three together. The same `BoltInv` gives the refinement,
  whose `RaiseTheft` needs the bolt in.
- `BikeDocsProofs` proves once what the app's loops rely on. `AscendingSeq`: a finite set of
  numbers has its ascending sequence, because the rank of a number among them is a bijection.
  `WritesStaySound`, `RemovalStaysSound`: every write keeps `Nicknamed`, that a document with an
  owner has a nickname, although a board creates documents that have neither. The types of
  `Alarm`, `BikeList`, `BikeViews` and `PBMS` rest on it: without it a row, cell or text without
  a nickname could not be excluded, and `TypeOK` is not inductive.
- `Alarm` (`Inv` = `Queue`, `Rows`, `Store`): the answers that wait are `Nicknamed` too. A callback
  appends to both arrays the thefts whose texts are new (`NewThefts`), a deletion removes the same
  index from both (`RemoveAtSeq`), and the first rows stay where they are; `deleteRows` either
  finds the screen complete or stops the app.
- `ListedOnce` of `BikeList` needs `OneRead`: unless reads overlapped, at most one of those asked
  and those answered is for the list, and none while the list holds anything. So an answer for the
  list is appended to an empty one, and one answer names a bicycle once.
- `BikeViews` (`Inv`): in the database and in every waiting answer a document of the user has a
  name he registered it by and a position of its own board (`Sourced`), and `point` comes from
  one of the touched name. Pairs only ever enter `named`, so an answer stays sourced while it
  waits.
- `Session` (`AccountInv`): the sign-ups past `create`, the documents and `lost` divide the accounts
  among them. `SessionInv` adds that an answer which a login waits with, or which opened the
  session, stays true (`Known`): a document is replaced only by one of another account, so
  whatever document still has that uid is the one that was read. The silence of failures
  (`AlertInv`) is that an open form has the alert "done" before it.

Only model-checked: the liveness properties (`TheftDetected`, `LoneCloseLocks`, `WaitingIsTold`, `OnlyLockGetsReady`,
`TheftIsListed`, `EmptyEnds`, `TheftReachesOwner`, `OperationRepairs`, `MarkerFollows`, `LoginOpens`,
`SignUpIsDone`), because fairness and ENABLED are beyond this prover, and that the refuted
properties of section 3 fail.

## 5. What the code does not keep

The refuted properties of section 3 are the findings of `PROJECT.json`, each with the line
it contradicts. Other departures met while modelling, described by the models and visible in
the exceptions their properties have to make:

- A restart pulls the pin, sets `DRIVE` and tells nobody: the document still says locked
  (`MyMotor.cpp:6`). `CloudFollows` excepts it by `lost`.
- The second of the two GPS patches fails: the point mixes two places (`Rock-YOU_nodeMCU.ino:63`).
  A second without a sentence: the position is an unwritten struct (`MyGPS.cpp:37`). Both are
  the exceptions of `MapShowsAPlace`.
- `unlockBicycle` on an open bicycle first drives the pin to its engaged end (`MyMotor.cpp:11`).
- A lost link leaves `bluetoothIsReady` true (`BluetoothSerial.swift:53`): the second case of
  `StaleOnlyAfterDrop`. Two choices on the scan screen: the alert names one lock, taps may go
  to the other (`BluetoothSerial.swift:145`).
- Two stolen bicycles of one nickname share one alarm row (`AlarmViewController.swift:62`),
  which is why `TheftIsListed` speaks of texts. An answer that waited while a row was deleted
  adds it again (`:65`). Deleting a row writes 0 while the board stays in STEEL (`:90`).
  A poll between layout and deletion makes `deleteRows` stop the app (`:88`): `crashed`.
- A bicycle that was ridden since its last reading, or had none since the start, and is then
  locked raises a theft at the first reading (`Rock-YOU_nodeMCU.ino:64`): the second half
  of `TheftMeansMoved`'s "moved".
- With two connections, `connectedPeripheral` and `writeCharacteristic` may be of different
  locks while the app is "ready" (`BluetoothSerial.swift:145`): `FoundIsReady` speaks of one.
- Two reads of the main list under way list every bicycle twice (`MainViewController.swift:65`):
  `overlap`.
- Removing a nickname removes the bicycles of other users that have it
  (`MainViewController.swift:135`); registering a number again overwrites its document
  (`BicycleRegisterViewController.swift:212`). That and the clearing of an alarm are the "app" in
  `ShownIsTrue`: the app writes 0 for a lock that is locked, and the board is not told.
- A document without an owner ends the map's loop (`MapViewController.swift:73`) and leaves the
  user's page without a list (`UserViewController.swift:157`): `Only` in
  `MarkerFollows`. A bicycle that has no position yet ends the map's loop too (`:80`).
- No failure of a sign-up reaches the user (`SignUpViewController.swift:102`, `:110`): the alert
  "done" is up or has closed the screen, so the calls of `ShowAlert` there never have an effect.
  The theorem `FailuresAreSilent` says so of every order of answers and touches.
- Two logins under way: the later answer sets the globals, also when the earlier one opened the
  session, or when its own password is wrong (`LoginViewController.swift:86`): `alone`.
- A second sign-up of a name replaces the first one's document (`SignUpViewController.swift:107`),
  and a failure between the two requests leaves an account without one: `lost`.

## 6. Not modelled, and the plan

Every screen and every class of the board that keeps state is modelled. Not modelled:

- what section 1 leaves out, and the vendored SDKs, which appear by how the app uses them (the
  definitions marked external in the map);
- of `BluetoothSerial`, the byte and data variants of send and the receiving callbacks, which
  nothing uses and which change no state;
- texts the forms refuse, and what they do to a text (trimming, masks): names, passwords and
  nicknames are values. Labels, colours, vibration and layout;
- NMEA decoding, TLS, tokens beyond "there is one", and `distance_between`;
- minus signs and numbers of ten or more digits on the serial line.

What could still be added:

1. The alarm screen in `PBMS` with its two arrays and delayed answers, which multiplies the states
   of the composition by those of `Alarm`; today the two are checked apart.
2. The read of the user's labels in two steps, as the map's poll has it: an answer for a
   page that is gone changes nothing that anyone sees.
3. An abstract alarm list, a set of the texts of thefts seen and not cleared, that both `Alarm` and
   the rows of `PBMS` implement; the invariants that the liveness properties rest on, as the safety
   part of `EmptyEnds` (an empty list has a read under way, or one failed).
