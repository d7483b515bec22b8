------------------------------ MODULE BikeViews ------------------------------
(***************************************************************************)
(* The two screens that only read bicycles.  MapViewController polls the    *)
(* collection every second while it is open and marks the position of the   *)
(* user's bicycle of one nickname; UserViewController lists the user's      *)
(* bicycles when its tab is first shown.  Answers come late: a question     *)
(* belongs to the screen that asked it, and may be answered when another    *)
(* one is open.                                                             *)
(***************************************************************************)
EXTENDS BikeDocs

CONSTANTS
    User,         \* the user who is logged in
    MaxScreens,   \* bound on how often the map is opened
    MaxQueries,   \* bound on polls under way
    MaxReports,   \* bound on positions reported by the boards
    MaxEdits      \* bound on bicycles registered or removed

ASSUME UserAssumption  == User \in Users
ASSUME BoundAssumption == {MaxScreens, MaxQueries, MaxReports, MaxEdits} \subseteq Nat

\* A position is <<d, n>>, the n-th reported, by the board of d; these two are none.
Origin  == <<0, 0>>      \* latitude and longitude 0, where a new map stands
NoPoint == <<0, -1>>     \* the field GPS is missing, or the map has no marker
Points  == {Origin, NoPoint} \cup (Bikes \X (1..MaxReports))

VARIABLES
    docs,         \* the collection in the database
    gps,          \* the field GPS of its documents
    screen,       \* the map on the screen is the screen-th one, 0: none was opened
    open,         \* it is still on the screen, and its timer runs
    nick,         \* bicycleNicknameOfCell
    point,        \* <<latitude, longitude>>
    marker,       \* the annotation on the map
    asked,        \* screens whose polls the database has not answered
    results,      \* answers whose callback waits in the main queue
    page,         \* the user's page: "new", "asked" or "answered"
    bicycleListString,   \* the nicknames it has gathered
    listed,       \* listView.text: the nicknames it shows
    named,        \* history: <<d, nick>> of what was ever registered to User
    reports,      \* history: reports so far, up to MaxReports
    edits         \* history: edits so far, up to MaxEdits

map  == <<screen, open, nick, point, marker>>
user == <<page, bicycleListString, listed>>
vars == <<docs, gps, map, asked, results, user, named, reports, edits>>

\* All bicycles are registered to the user, and none has reported a position.
Init == /\ docs \in {[d \in Bikes |-> [uid |-> User, nick |-> name[d], state |-> 0]]
                       : name \in [Bikes -> Nicks]}
        /\ gps = [d \in Bikes |-> NoPoint]
        /\ screen = 0 /\ open = FALSE /\ nick = NoNick
        /\ point = Origin /\ marker = NoPoint
        /\ asked = <<>> /\ results = <<>>
        /\ page = "new" /\ bicycleListString = <<>> /\ listed = <<>>
        /\ named = {<<d, docs[d].nick>> : d \in Bikes}
        /\ reports = 0 /\ edits = 0
-----------------------------------------------------------------------------
\* A cell of the list is touched: a new map for the nickname it shows.
OpenKept(name) == /\ ~open /\ screen < MaxScreens
                  /\ screen' = screen + 1 /\ open' = TRUE /\ nick' = name
                  /\ marker' = NoPoint
                  /\ UNCHANGED <<docs, gps, point, asked, results, user, named, reports, edits>>

Open(name) == /\ ~open /\ screen < MaxScreens
              /\ screen' = screen + 1 /\ open' = TRUE /\ nick' = name
              /\ point' = Origin
              /\ marker' = NoPoint
              /\ UNCHANGED <<docs, gps, asked, results, user, named, reports, edits>>

Back == /\ open
        /\ open' = FALSE
        /\ UNCHANGED <<docs, gps, screen, nick, point, marker, asked, results, user,
                       named, reports, edits>>

\* The timer fires; earlier questions may still be open.
PollOnce == /\ open /\ marker = NoPoint
            /\ Len(asked) + Len(results) < MaxQueries
            /\ asked' = Append(asked, screen)
            /\ UNCHANGED <<docs, gps, map, results, user, named, reports, edits>>

Poll == /\ open
        /\ Len(asked) + Len(results) < MaxQueries
        /\ asked' = Append(asked, screen)
        /\ UNCHANGED <<docs, gps, map, results, user, named, reports, edits>>

\* The database answers with what it holds now; the callback is queued.
Answer == /\ asked # <<>>
          /\ asked' = Tail(asked)
          /\ results' = Append(results, [to |-> Head(asked), docs |-> docs, gps |-> gps])
          /\ UNCHANGED <<docs, gps, map, user, named, reports, edits>>

Fail == /\ asked # <<>>
        /\ asked' = Tail(asked)
        /\ UNCHANGED <<docs, gps, map, results, user, named, reports, edits>>

\* The bicycle of the touched cell.
ChosenOfAnyone(answer, d) == answer.docs[d].nick = nick
Chosen(answer, d) == answer.docs[d].uid = User /\ answer.docs[d].nick = nick

\* Documents whose turn of the loop comes to its end: no document up to them lacks
\* an owner or a nickname, or a position if it is a chosen one.
Passed(answer) ==
    {d \in DOMAIN answer.docs :
        \A e \in DOMAIN answer.docs :
            e <= d => /\ answer.docs[e].uid # NoUid
                      /\ answer.docs[e].nick # NoNick
                      /\ Chosen(answer, e) => answer.gps[e] # NoPoint}

\* latitude and longitude after the loop: the last chosen bicycle wins.
Located(answer) ==
    LET hits == {d \in Passed(answer) : Chosen(answer, d)}
    IN  IF hits = {} THEN {point}
        ELSE {answer.gps[d] : d \in {e \in hits : \A f \in hits : f <= e}}

\* getGPSData()'s callback, on the screen that asked; every turn moves the marker.
Deliver == /\ results # <<>>
           /\ results' = Tail(results)
           /\ LET answer == Head(results)
              IN  IF open /\ answer.to = screen
                  THEN /\ point' \in Located(answer)
                       /\ marker' = IF Passed(answer) = {} THEN marker ELSE point'
                  ELSE UNCHANGED <<point, marker>>
           /\ UNCHANGED <<docs, gps, screen, open, nick, asked, user, named, reports, edits>>

\* The tab of the user's page is selected: viewDidLoad() asks for the collection, once.
ShowPage == /\ ~open /\ page = "new"
            /\ page' = "asked"
            /\ UNCHANGED <<docs, gps, map, asked, results, bicycleListString, listed, named,
                           reports, edits>>

\* addBicycleList()'s callback gathers the nicknames, and shows them if no document
\* without an owner has ended it.
addBicycleList ==
    /\ page = "asked"
    /\ page' = "answered"
    /\ LET mine == Mine(docs, User)
       IN  bicycleListString' = bicycleListString \o [i \in DOMAIN mine |-> docs[mine[i]].nick]
    /\ listed' = IF Reached(docs) = DOMAIN docs THEN bicycleListString' ELSE listed
    /\ UNCHANGED <<docs, gps, map, asked, results, named, reports, edits>>

PageFails == /\ page = "asked"
             /\ page' = "answered"
             /\ UNCHANGED <<docs, gps, map, asked, results, bicycleListString, listed, named,
                            reports, edits>>
-----------------------------------------------------------------------------
\* A board reports a position, also for a document that nobody registered.  Such a new
\* document has no field state either; nothing reads the state of one without an owner.
Report(d) == /\ reports < MaxReports
             /\ reports' = reports + 1
             /\ docs' = IF d \in DOMAIN docs THEN docs ELSE Patched(docs, d, 0)
             /\ gps' = [gps EXCEPT ![d] = <<d, reports'>>]
             /\ UNCHANGED <<map, asked, results, user, named, edits>>

\* Some phone registers a lock, and its position is gone, or removes a nickname.
Register(d, name, uid) ==
    /\ edits < MaxEdits
    /\ edits' = edits + 1
    /\ docs' = Registered(docs, d, name, uid)
    /\ gps' = [gps EXCEPT ![d] = NoPoint]
    /\ named' = IF uid = User THEN named \cup {<<d, name>>} ELSE named
    /\ UNCHANGED <<map, asked, results, user, reports>>

RemoveNick(name) ==
    /\ edits < MaxEdits
    /\ edits' = edits + 1
    /\ docs' = Removed(docs, Named(docs, name))
    /\ gps' = [d \in Bikes |-> IF d \in Named(docs, name) THEN NoPoint ELSE gps[d]]
    /\ UNCHANGED <<map, asked, results, user, named, reports>>
-----------------------------------------------------------------------------
Screens == Back \/ Poll \/ Deliver \/ ShowPage \/ \E name \in Nicks : Open(name)

World == \/ Answer \/ Fail \/ addBicycleList \/ PageFails
         \/ \E d \in Bikes : Report(d)
         \/ \E d \in Bikes, name \in Nicks, uid \in Users : Register(d, name, uid)
         \/ \E name \in Nicks : RemoveNick(name)

Next == Screens \/ World

Spec == Init /\ [][Next]_vars

\* The timer repeats, the main queue runs, and the database answers again and again.
FairSpec == Spec /\ WF_vars(Poll) /\ WF_vars(Deliver) /\ SF_vars(Answer)
-----------------------------------------------------------------------------
TypeOK == /\ IsCollection(docs)
          /\ gps \in [Bikes -> Points]
          /\ screen \in 0..MaxScreens /\ open \in BOOLEAN
          /\ nick \in Nicks \cup {NoNick}
          /\ {point, marker} \subseteq Points
          /\ asked \in Seq(1..MaxScreens)
          /\ \A i \in DOMAIN results : /\ results[i].to \in 1..MaxScreens
                                       /\ IsCollection(results[i].docs)
          /\ page \in {"new", "asked", "answered"}
          /\ {bicycleListString, listed} \subseteq Seq(Nicks)
          /\ named \subseteq Bikes \X Nicks
          /\ reports \in 0..MaxReports /\ edits \in 0..MaxEdits

\* The marker stands where the board of some bicycle was that the user has registered
\* by the nickname of the touched cell, and never where another map's or another
\* user's bicycle is, however late the answers come and whatever is edited meanwhile.
MarkerIsOfName == marker \in {NoPoint, Origin} \/ <<marker[1], nick>> \in named

\* The one bicycle of the touched nickname, which the loop comes to.
Only(d) == /\ open
           /\ {e \in DOMAIN docs : docs[e].uid = User /\ docs[e].nick = nick} = {d}
           /\ \A e \in DOMAIN docs : e <= d => docs[e].uid # NoUid /\ docs[e].nick # NoNick

\* The marker comes to the position that the board of the touched bicycle reported last,
\* and stays there: no answer that is older, belongs to another map or fails undoes it.
MarkerFollows ==
    \A d \in Bikes, n \in 1..MaxReports :
        <>[](Only(d) /\ gps[d] = <<d, n>>) => <>[](marker = <<d, n>>)
=============================================================================
