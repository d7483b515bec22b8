------------------------------- MODULE BikeList -------------------------------
(***************************************************************************)
(* The list of the user's bicycles: MainViewController with its view model  *)
(* LabelViewModel, the form that registers a bicycle, and the dialogue that *)
(* removes one.  Every read of the database is a question whose answer is   *)
(* handled later, on the main queue, behind the user's touches.             *)
(***************************************************************************)
EXTENDS BikeDocs

CONSTANTS
    User,         \* the user who is logged in
    Listing,      \* a question asked to fill the list; a nickname: to remove it
    MaxQueries,   \* bound on questions that have not been handled
    MaxEdits,     \* bound on what others do to the collection
    MaxForms      \* bound on bicycles the user registers or removes

ASSUME UserAssumption    == User \in Users
ASSUME ListingAssumption == Listing \notin Nicks
ASSUME BoundAssumption   == {MaxQueries, MaxEdits, MaxForms} \subseteq Nat

VARIABLES
    docs,         \* the collection in the database
    asked,        \* questions the database has not answered, in the order asked
    results,      \* answers whose callback waits in the main queue
    list,         \* labelViewModel.labelDataList: document and nickname
    cells,        \* cells the collection view has laid out
    pulled,       \* a pull to refresh waits for its 1.5 seconds
    view,         \* "main", "map", another tab, or a page of the registration form
    bicycleName,  \* nickname handed to the map
    crashed,      \* a touch or a form has stopped the app
    unread,       \* history: a read failed or found nothing since the last sync
    overlap,      \* history: the list was last emptied while a read was under way
    edits,        \* history: changes by others so far, up to MaxEdits
    forms         \* history: registrations and removals so far, up to MaxForms

screen == <<list, cells, pulled, view, bicycleName, crashed>>
vars   == <<docs, asked, results, list, cells, pulled, view, bicycleName, crashed,
            unread, overlap, edits, forms>>

reads  == <<unread, overlap>>

Forms   == {"page1", "page2", "page3"}
Entries == [id : Bikes, nick : Nicks \cup {NoNick}]

Init == /\ docs \in {[d \in Bikes |-> [uid |-> User, nick |-> nick[d], state |-> 0]]
                       : nick \in [Bikes -> Nicks]}
        /\ asked = <<Listing>>
        /\ results = <<>>
        /\ list = <<>>
        /\ cells = <<>>
        /\ pulled = FALSE
        /\ view = "main"
        /\ bicycleName = NoNick
        /\ crashed = FALSE
        /\ unread = FALSE
        /\ overlap = FALSE
        /\ edits = 0
        /\ forms = 0

Room == Len(asked) + Len(results) < MaxQueries
-----------------------------------------------------------------------------
Reading == \/ Listing \in Range(asked)
           \/ \E i \in DOMAIN results : results[i].to = Listing

\* syncCollectioview(): the view model is emptied and asks again; the collection
\* view is not told.
EmptiedOnly == /\ list' = <<>>
               /\ unread' = FALSE
               /\ overlap' = Reading
               /\ UNCHANGED asked

AskedOnly == /\ unread' = FALSE
             /\ overlap' = Reading
             /\ asked' = Append(asked, Listing)
             /\ UNCHANGED list

syncCollectioview == /\ list' = <<>>
                     /\ unread' = FALSE
                     /\ overlap' = Reading
                     /\ asked' = Append(asked, Listing)

\* viewWillAppear, when the tab comes back or a full screen is closed: the map by its
\* back button, the form by cancelling any page or by the button of its last page.
Appear == /\ ~crashed
          /\ view # "main"
          /\ view' = "main"
          /\ Room
          /\ syncCollectioview
          /\ UNCHANGED <<docs, results, cells, pulled, bicycleName, crashed, edits, forms>>

\* didPullToRefresh starts the 1.5 seconds.
Pull == /\ ~crashed
        /\ view = "main"
        /\ ~pulled
        /\ pulled' = TRUE
        /\ UNCHANGED <<docs, asked, results, list, cells, view, bicycleName, crashed,
                       reads, edits, forms>>

\* ... and then reloads and synchronises.  The collection view lays out after both, when
\* the list is empty.
Refresh == /\ ~crashed
           /\ pulled
           /\ pulled' = FALSE
           /\ Room
           /\ cells' = <<>>
           /\ syncCollectioview
           /\ UNCHANGED <<docs, results, view, bicycleName, crashed, edits, forms>>

\* didSelectItemAt: the cell's position is looked up in the view model.
Select(i) == /\ ~crashed
             /\ view = "main"
             /\ IF i <= Len(list)
                THEN /\ bicycleName' = list[i].nick
                     /\ view' = "map"
                     /\ UNCHANGED crashed
                ELSE /\ crashed' = TRUE
                     /\ UNCHANGED <<bicycleName, view>>
             /\ UNCHANGED <<docs, asked, results, list, cells, pulled, reads, edits, forms>>

\* The remove dialogue is confirmed: the collection is read for the nickname.
AskRemove == /\ ~crashed
             /\ view = "main"
             /\ Room
             /\ forms < MaxForms
             /\ forms' = forms + 1
             /\ \E nick \in Nicks : asked' = Append(asked, nick)
             /\ UNCHANGED <<docs, results, screen, reads, edits>>

\* Another tab comes in front, or the registration form.
Leave    == /\ ~crashed
            /\ view = "main"
            /\ view' \in {"tab", "page1"}
            /\ UNCHANGED <<docs, asked, results, list, cells, pulled, bicycleName, crashed,
                           reads, edits, forms>>

NextPage == /\ ~crashed
            /\ view = "page1"
            /\ view' = "page2"
            /\ UNCHANGED <<docs, asked, results, list, cells, pulled, bicycleName, crashed,
                           reads, edits, forms>>

\* The second page is sent: the last page says that the registration is complete.
Register == /\ ~crashed
            /\ view = "page2"
            /\ forms < MaxForms
            /\ forms' = forms + 1
            /\ view' = "page3"
            /\ \E d \in Bikes, nick \in Nicks : docs' = Registered(docs, d, nick, User)
            /\ UNCHANGED <<asked, results, list, cells, pulled, bicycleName, crashed, reads,
                           edits>>

\* A number of blanks is not empty, is trimmed to nothing, and names no document:
\* document("") raises, which stops the app.
RegisterBlank == /\ ~crashed
                 /\ view = "page2"
                 /\ crashed' = TRUE
                 /\ UNCHANGED <<docs, asked, results, list, cells, pulled, view, bicycleName,
                                reads, edits, forms>>
-----------------------------------------------------------------------------
\* One question is answered with what the database holds now.
Answer(i) == /\ asked' = RemoveAt(asked, i)
             /\ results' = Append(results, [to |-> asked[i], snapshot |-> docs])
             /\ UNCHANGED <<docs, screen, reads, edits, forms>>

\* One question fails, which is only printed.
Fail(i) == /\ asked' = RemoveAt(asked, i)
           /\ unread' = (unread \/ asked[i] = Listing)
           /\ UNCHANGED <<docs, results, screen, overlap, edits, forms>>

Listed(snapshot) == [i \in DOMAIN Mine(snapshot, User) |->
                       LET d == Mine(snapshot, User)[i] IN [id |-> d, nick |-> snapshot[d].nick]]

\* The collection view is reloaded once something was added to the list.  Behind another
\* screen it lays out when it comes back, and then the list has just been emptied.
ReloadedLate(entries) == cells
Reloaded(entries) == IF view = "main" THEN list \o entries ELSE <<>>

\* readServerData()'s callback appends what it reads.
Fill(snapshot) ==
    /\ IF Listed(snapshot) = <<>>
       THEN unread' = TRUE /\ UNCHANGED <<list, cells>>
       ELSE /\ list' = list \o Listed(snapshot)
            /\ cells' = Reloaded(Listed(snapshot))
            /\ UNCHANGED unread
    /\ UNCHANGED <<docs, asked, overlap>>

\* The removal's callback: each of them is deleted, and the list synchronised each
\* time.
RemoveNamed(snapshot, nick) ==
    LET gone == Named(snapshot, nick)
    IN  /\ docs' = Removed(docs, gone)
        /\ asked' = asked \o [i \in 1..Cardinality(gone) |-> Listing]
        /\ list' = IF gone = {} THEN list ELSE <<>>
        /\ unread' = (gone = {} /\ unread)
        /\ overlap' = IF gone = {} THEN overlap ELSE Reading \/ Cardinality(gone) > 1
        /\ UNCHANGED cells

\* The callback at the head of the main queue, whatever screen is in front.
Deliver == /\ ~crashed
           /\ results # <<>>
           /\ results' = Tail(results)
           /\ LET r == Head(results)
              IN  IF r.to = Listing THEN Fill(r.snapshot) ELSE RemoveNamed(r.snapshot, r.to)
           /\ UNCHANGED <<pulled, view, bicycleName, crashed, edits, forms>>

\* A board reports, or another user registers or removes a bicycle.
Others == /\ edits < MaxEdits
          /\ edits' = edits + 1
          /\ \E d \in Bikes :
                \/ docs' = Patched(docs, d, 1)
                \/ \E nick \in Nicks, uid \in Users \ {User} :
                      docs' = Registered(docs, d, nick, uid)
                \/ \E nick \in Nicks : docs' = Removed(docs, Named(docs, nick))
          /\ UNCHANGED <<asked, results, screen, reads, forms>>

\* The user starts a stopped app again and logs in.
Relaunch == /\ crashed
            /\ crashed' = FALSE
            /\ asked' = <<Listing>>
            /\ results' = <<>>
            /\ list' = <<>>
            /\ cells' = <<>>
            /\ pulled' = FALSE
            /\ view' = "main"
            /\ bicycleName' = NoNick
            /\ unread' = FALSE
            /\ overlap' = FALSE
            /\ UNCHANGED <<docs, edits, forms>>
-----------------------------------------------------------------------------
Touch == \/ Appear \/ Pull \/ AskRemove \/ Leave \/ NextPage \/ Register \/ RegisterBlank
         \/ Relaunch
         \/ \E i \in DOMAIN cells : Select(i)

Database == Others \/ \E i \in DOMAIN asked : Answer(i) \/ Fail(i)

Next == Touch \/ Refresh \/ Deliver \/ Database

Spec == Init /\ [][Next]_vars

\* The main queue runs, and a question is answered or fails in the end.
FairSpec == /\ Spec
            /\ WF_vars(Deliver)
            /\ WF_vars(\E i \in DOMAIN asked : Answer(i) \/ Fail(i))
-----------------------------------------------------------------------------
TypeOK == /\ IsCollection(docs)
          /\ asked \in Seq(Nicks \cup {Listing})
          /\ \A i \in DOMAIN results : /\ results[i].to \in Nicks \cup {Listing}
                                       /\ IsCollection(results[i].snapshot)
          /\ list \in Seq(Entries)
          /\ cells \in Seq(Entries)
          /\ pulled \in BOOLEAN
          /\ view \in {"main", "map", "tab"} \cup Forms
          /\ bicycleName \in Nicks \cup {NoNick}
          /\ crashed \in BOOLEAN
          /\ {unread, overlap} \subseteq BOOLEAN
          /\ edits \in 0..MaxEdits
          /\ forms \in 0..MaxForms

\* A touch opens the bicycle its cell shows: the view model, when it holds anything,
\* is what was laid out, however many answers were appended to it.
TouchHitsCell == view = "main" /\ list # <<>> => cells = list

\* A bicycle is in the list once, although every answer is appended: the list was
\* emptied for the question it answers, unless it was emptied while another read was
\* under way, whose answer is then appended as well.
ListedOnce == ~overlap => \A i, j \in DOMAIN list : i # j => list[i].id # list[j].id

\* syncCollectioview() empties the list only together with a question that fills it
\* again: the list does not stay empty unless a read fails or finds no bicycle.
EmptyEnds == (list = <<>> /\ ~unread) ~> (list # <<>> \/ unread \/ crashed)
-----------------------------------------------------------------------------
\* "synchronise the collection view with the server": every cell has its entry, so
\* no touch looks beyond the end of the list and stops the app.
CellsHaveData == [][(\E i \in DOMAIN cells : Select(i)) => ~crashed']_vars
=============================================================================
