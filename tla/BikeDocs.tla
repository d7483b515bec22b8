------------------------------ MODULE BikeDocs ------------------------------
(***************************************************************************)
(* The collection "bicycle" of the database and what the program does with  *)
(* it: the board patches, the app registers, updates, removes and reads.    *)
(* A collection is a function from the numbers of its documents (the number *)
(* on a lock is the name of its document) to their fields; documents are    *)
(* read in the order of their names.                                        *)
(***************************************************************************)
EXTENDS Integers, FiniteSets, SequencesExt

CONSTANTS
    Bikes,    \* numbers of the locks
    Users,    \* values of the field uid
    Nicks,    \* values of the field bicycleNickname
    NoUid,    \* a document without an owner: the field is missing
    NoNick    \* a document without a nickname

ASSUME BikesAssumption == Bikes \subseteq Int /\ IsFiniteSet(Bikes)
ASSUME FieldAssumption == NoUid \notin Users /\ NoNick \notin Nicks

States == 0..2          \* DRIVE, LOCKED, STEEL as the board writes them

Fields == [uid : Users \cup {NoUid}, nick : Nicks \cup {NoNick}, state : States]

IsCollection(docs) == DOMAIN docs \subseteq Bikes /\ docs \in [DOMAIN docs -> Fields]

\* The collection with document d set, whether it existed or not.
Put(docs, d, doc) == [e \in DOMAIN docs \cup {d} |-> IF e = d THEN doc ELSE docs[e]]

\* patchDocument with mask "state", from the board: a document that does not exist
\* is created, with this field only.
Patched(docs, d, s) ==
    Put(docs, d, IF d \in DOMAIN docs THEN [docs[d] EXCEPT !.state = s]
                                      ELSE [uid |-> NoUid, nick |-> NoNick, state |-> s])

\* setData: the document is replaced, state 0, whatever it held.
RegisteredWithoutOwner(docs, d, nick, uid) == Put(docs, d, [nick |-> nick, state |-> 0])

Registered(docs, d, nick, uid) == Put(docs, d, [uid |-> uid, nick |-> nick, state |-> 0])

\* updateData(["state": s]) fails for a document that does not exist.
Updated(docs, d, s) == IF d \in DOMAIN docs THEN [docs EXCEPT ![d].state = s] ELSE docs

\* delete() of each of these documents.
Removed(docs, gone) == [e \in DOMAIN docs \ gone |-> docs[e]]

\* Documents the removal deletes: those of the nickname, whoever owns them, that come
\* before the first document without one.
Named(snapshot, nick) ==
    {d \in DOMAIN snapshot :
        /\ snapshot[d].nick = nick
        /\ \A e \in DOMAIN snapshot : e < d => snapshot[e].nick # NoNick}

\* The loops over a query's documents return at the first one without an owner.
Reached(docs) ==
    {d \in DOMAIN docs : \A e \in DOMAIN docs : e <= d => docs[e].uid # NoUid}

\* These documents in the order a loop meets them.
Ascending(ds) ==
    CHOOSE s \in [1..Cardinality(ds) -> ds] :
        \A i, j \in 1..Cardinality(ds) : i < j => s[i] < s[j]

\* The documents such a loop takes to be the user's.
Mine(docs, user) == Ascending({d \in Reached(docs) : docs[d].uid = user})
=============================================================================
