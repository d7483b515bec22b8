-------------------------------- MODULE Alarm --------------------------------
(***************************************************************************)
(* The alarm screen: AlarmViewController polls the bicycles every second,   *)
(* lists those of the user that are stolen, and clears a theft when the row *)
(* is deleted.  Around it: the boards that report their state, other        *)
(* phones that register and remove bicycles, and the database's answers,    *)
(* which wait in the main queue behind the user's touches.                  *)
(***************************************************************************)
EXTENDS BikeDocs

CONSTANTS
    User,         \* the user who is logged in
    MaxQueries,   \* bound on polls that have not been handled
    MaxReports,   \* bound on reports of the boards
    MaxEdits      \* bound on bicycles registered or removed

ASSUME UserAssumption  == User \in Users
ASSUME BoundAssumption == {MaxQueries, MaxReports, MaxEdits} \subseteq Nat

DRIVE  == 0
LOCKED == 1
STEEL  == 2

VARIABLES
    docs,         \* the collection in the database
    board,        \* Value.state of each bicycle's board
    asked,        \* polls the database has not answered
    results,      \* answers whose callback waits in the main queue
    arr,          \* documents of the rows
    alarmDatas,   \* nicknames in the texts of the rows, alarmModel.alarmDatas
    shown,        \* rows the table view has laid out
    crashed,      \* UIKit has found the rows inconsistent and stopped the app
    listed,       \* history: <<document, nickname>> of the thefts in the answers so far
    reports,      \* history: reports so far, up to MaxReports
    edits         \* history: registrations and removals so far, up to MaxEdits

rows   == <<arr, alarmDatas, shown, crashed, listed>>
vars   == <<docs, board, asked, results, arr, alarmDatas, shown, crashed, listed,
            reports, edits>>

\* The alarm screen is opened while all bicycles of the user are parked and locked.
Init == /\ docs \in {[d \in Bikes |-> [uid |-> User, nick |-> nick[d], state |-> LOCKED]]
                       : nick \in [Bikes -> Nicks]}
        /\ board = [d \in Bikes |-> LOCKED]
        /\ asked = 0
        /\ results = <<>>
        /\ arr = <<>>
        /\ alarmDatas = <<>>
        /\ shown = <<>>
        /\ crashed = FALSE
        /\ listed = {}
        /\ reports = 0
        /\ edits = 0
-----------------------------------------------------------------------------
\* The timer fires and stateCheck() asks for all documents; earlier questions may
\* still be open.
Poll == /\ ~crashed
        /\ asked + Len(results) < MaxQueries
        /\ asked' = asked + 1
        /\ UNCHANGED <<docs, board, results, rows, reports, edits>>

\* The database answers with what it holds now; the callback is queued.
Answer == /\ asked > 0
          /\ asked' = asked - 1
          /\ results' = Append(results, docs)
          /\ UNCHANGED <<docs, board, rows, reports, edits>>

\* The request fails and the callback only prints.
Fail == /\ asked > 0
        /\ asked' = asked - 1
        /\ UNCHANGED <<docs, board, results, rows, reports, edits>>

\* Stolen bicycles of the user that the loop comes to.
Thefts(snapshot) == {d \in Reached(snapshot) : /\ snapshot[d].uid = User
                                               /\ snapshot[d].state = STEEL}

\* Those whose text is not in the list when the loop comes to them: neither was it
\* there before, nor has an earlier one of the same nickname just added it.
UnlistedKnown(snapshot) ==
    {d \in Thefts(snapshot) :
        \E i \in DOMAIN alarmDatas : alarmDatas[i] = snapshot[d].nick}

Unlisted(snapshot) ==
    {d \in Thefts(snapshot) :
        /\ \A i \in DOMAIN alarmDatas : alarmDatas[i] # snapshot[d].nick
        /\ \A e \in Thefts(snapshot) : e < d => snapshot[e].nick # snapshot[d].nick}

\* append() to an array, for each of the new ones.
InFront(array, new)  == new \o array
Appended(array, new) == array \o new

\* stateCheck()'s callback adds the new thefts to both arrays; the table view is not
\* told.
Deliver == /\ ~crashed
           /\ results # <<>>
           /\ LET snapshot == Head(results)
                  new == Ascending(Unlisted(snapshot))
              IN  /\ arr' = Appended(arr, new)
                  /\ alarmDatas' = Appended(alarmDatas, [i \in DOMAIN new |-> snapshot[new[i]].nick])
                  /\ listed' = listed \cup {<<d, snapshot[d].nick>> : d \in Thefts(snapshot)}
           /\ results' = Tail(results)
           /\ UNCHANGED <<docs, board, asked, shown, crashed, reports, edits>>

\* resetBtnDidTap: the table view lays out its rows again.
Reset == /\ ~crashed
         /\ shown' = alarmDatas
         /\ UNCHANGED <<docs, board, asked, results, arr, alarmDatas, crashed, listed,
                        reports, edits>>

\* arr.remove(at: row)
WithoutFirst(s, i) == Tail(s)
Without(s, i) == RemoveAt(s, i)

\* deleteRows() checks that the number of rows went down by one since the last
\* layout; if a poll added one meanwhile, UIKit raises, and the update of the
\* database is never reached.
Clear(i) == IF Len(shown) = Len(alarmDatas)
              THEN /\ shown' = RemoveAt(alarmDatas, i)
                   /\ docs' = Updated(docs, arr[i], DRIVE)
                   /\ UNCHANGED crashed
              ELSE /\ crashed' = TRUE
                   /\ UNCHANGED <<shown, docs>>

\* A row on the screen is swiped away.
Delete == /\ ~crashed
          /\ \E i \in DOMAIN shown :
                /\ arr' = Without(arr, i)
                /\ alarmDatas' = RemoveAt(alarmDatas, i)
                /\ Clear(i)
          /\ UNCHANGED <<board, asked, results, listed, reports, edits>>

\* The user starts the app again: nothing of the list was saved.
Relaunch == /\ crashed
            /\ crashed' = FALSE
            /\ asked' = 0
            /\ results' = <<>>
            /\ arr' = <<>>
            /\ alarmDatas' = <<>>
            /\ shown' = <<>>
            /\ listed' = {}
            /\ UNCHANGED <<docs, board, reports, edits>>
-----------------------------------------------------------------------------
\* A board locks, unlocks or raises a theft (BikeLock) and its update arrives.
Report == /\ reports < MaxReports
          /\ reports' = reports + 1
          /\ \E d \in Bikes, s \in States :
                /\ s = STEEL => board[d] = LOCKED
                /\ board' = [board EXCEPT ![d] = s]
                /\ docs' = Patched(docs, d, s)
          /\ UNCHANGED <<asked, results, rows, edits>>

\* Some phone registers a lock.
Register(d, nick, uid) == /\ edits < MaxEdits
                          /\ edits' = edits + 1
                          /\ docs' = Registered(docs, d, nick, uid)
                          /\ UNCHANGED <<board, asked, results, rows, reports>>

\* Some phone removes the bicycles of a nickname: one callback deletes them all.
RemoveNick(nick) == /\ edits < MaxEdits
                    /\ edits' = edits + 1
                    /\ docs' = Removed(docs, Named(docs, nick))
                    /\ UNCHANGED <<board, asked, results, rows, reports>>
-----------------------------------------------------------------------------
Screen == Poll \/ Deliver \/ Reset \/ Delete \/ Relaunch
Edit   == \E nick \in Nicks : \/ RemoveNick(nick)
                              \/ \E d \in Bikes, uid \in Users : Register(d, nick, uid)
World  == Answer \/ Fail \/ Report \/ Edit

Next == Screen \/ World

Spec == Init /\ [][Next]_vars

\* The timer repeats, the main queue runs, and the database answers again and
\* again; nothing is assumed of the user's fingers.
FairSpec == Spec /\ WF_vars(Poll) /\ WF_vars(Deliver) /\ SF_vars(Answer)
-----------------------------------------------------------------------------
TypeOK == /\ IsCollection(docs)
          /\ board \in [Bikes -> States]
          /\ asked \in 0..MaxQueries
          /\ \A i \in DOMAIN results : IsCollection(results[i])
          /\ asked + Len(results) <= MaxQueries
          /\ arr \in Seq(Bikes)
          /\ alarmDatas \in Seq(Nicks)
          /\ shown \in Seq(Nicks)
          /\ crashed \in BOOLEAN
          /\ listed \subseteq Bikes \X (Nicks \cup {NoNick})
          /\ reports \in 0..MaxReports
          /\ edits \in 0..MaxEdits

\* The two arrays behind the table stay in step through polls and deletions: row i
\* names the bicycle whose document it clears, and no text is listed twice.
RowsMatch == /\ Len(arr) = Len(alarmDatas)
             /\ \A i \in DOMAIN arr : <<arr[i], alarmDatas[i]>> \in listed
             /\ IsInjective(alarmDatas)

\* What the user sees is what a touch acts on: rows on the screen are the first
\* rows of the list, so a poll between layout and touch never shifts them.
ShownIsPrefix == ~crashed => IsPrefix(shown, alarmDatas)

Stolen(d) == /\ d \in Reached(docs)
             /\ docs[d].uid = User
             /\ docs[d].state = STEEL

\* A stolen bicycle of the user that the loop reaches gets its text into the list.
TheftIsListed ==
    \A d \in Bikes :
        Stolen(d) ~> (~Stolen(d) \/ crashed
                       \/ \E i \in DOMAIN alarmDatas : alarmDatas[i] = docs[d].nick)
-----------------------------------------------------------------------------
\* "load the data of the logged-in user": a document of someone else, or of nobody,
\* does not keep the text of the user's theft from the list.
OthersDoNotHide ==
    \A d \in Bikes :
        (d \in DOMAIN docs /\ docs[d].uid = User /\ docs[d].state = STEEL)
            ~> (crashed \/ d \notin DOMAIN docs \/ docs[d].uid # User
                 \/ docs[d].state # STEEL
                 \/ \E i \in DOMAIN alarmDatas : alarmDatas[i] = docs[d].nick)
=============================================================================
