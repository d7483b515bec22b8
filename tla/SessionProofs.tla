---------------------------- MODULE SessionProofs ----------------------------
(***************************************************************************)
(* Accounts, documents and sessions, for every set of names, passwords,     *)
(* addresses and forms and every number of submissions and faults.          *)
(***************************************************************************)
EXTENDS Session, TLAPS

SignUps == [no : Nat, name : Names, password : Passwords, account : Accounts,
            step : {"create", "created", "save"}]

\* The sign-ups that have an account and no document yet.
Pending == {s \in signups : s.step # "create"}

Shape == /\ auth \subseteq Accounts /\ signups \subseteq SignUps
         /\ users \in [DOMAIN users -> Docs]
         /\ submitted \in [logins : Nat, signups : Nat]

\* An account is in at most one of three places, alone in the first two ...
Documented == \A n \in DOMAIN users :
                 /\ users[n].uid \in auth \ lost
                 /\ \A m \in DOMAIN users : users[m].uid = users[n].uid => m = n
Underway == \A s \in Pending :
                 /\ s.account \in auth \ lost
                 /\ \A t \in Pending : t.account = s.account => t = s
                 /\ \A n \in DOMAIN users : users[n].uid # s.account

\* ... and in at least one.
Covered == /\ lost \subseteq auth
           /\ \A a \in auth : \/ a \in lost
                              \/ \E n \in DOMAIN users : users[n].uid = a
                              \/ \E s \in Pending : s.account = a

AccountInv == Shape /\ Documented /\ Underway /\ Covered
-----------------------------------------------------------------------------
\* A document is written once for its account.
LEMMA WrittenDocs ==
    ASSUME Shape, NEW s \in signups
    PROVE  /\ Written(s) \in [DOMAIN users \cup {s.name} -> Docs]
           /\ Written(s)[s.name] = [uid |-> s.account, password |-> s.password]
           /\ \A n \in DOMAIN users \ {s.name} : Written(s)[n] = users[n]
BY DEF Shape, SignUps, Docs, Written

\* A step of a sign-up changes its step only.
LEMMA SteppedSignUp ==
    ASSUME Shape, NEW s \in signups, NEW step \in {"created", "save"}
    PROVE  LET t == [s EXCEPT !.step = step]
           IN  /\ t \in SignUps /\ t.step = step /\ t.account = s.account
               /\ Stepped(s, step) = (signups \ {s}) \cup {t}
BY DEF Shape, SignUps, Stepped

\* Every step keeps each account in its one place.
LEMMA AccountStep == AccountInv /\ [Next]_vars => AccountInv'
<1> SUFFICES ASSUME AccountInv, [Next]_vars PROVE AccountInv'
  OBVIOUS
<1> USE DEF AccountInv, Shape
<1>1. ASSUME UNCHANGED <<auth, users, lost>>, signups' \subseteq SignUps, Pending' = Pending,
             submitted' \in [logins : Nat, signups : Nat]
      PROVE  AccountInv'
  BY <1>1 DEF Documented, Underway, Covered
<1>2. CASE \/ GoSignUp \/ Back \/ CloseAlert \/ ShowPage \/ UNCHANGED vars
           \/ \E n \in Names, p \in Passwords : SubmitLogin(n, p)
           \/ LogIn
  <2>1. UNCHANGED <<auth, users, lost, signups>> /\ submitted' \in [logins : Nat, signups : Nat]
    <3>1. CASE GoSignUp \/ Back \/ CloseAlert \/ ShowPage \/ UNCHANGED vars
      BY <3>1 DEF GoSignUp, Back, CloseAlert, ShowPage, vars
    <3>2. ASSUME NEW n \in Names, NEW p \in Passwords, SubmitLogin(n, p)
          PROVE  UNCHANGED <<auth, users, lost, signups>>
                 /\ submitted' \in [logins : Nat, signups : Nat]
      BY <3>2 DEF SubmitLogin
    <3>3. CASE LogIn
      BY <3>3 DEF LogIn, Answer, Deliver
    <3> QED BY <1>2, <3>1, <3>2, <3>3
  <2> QED BY <1>1, <2>1 DEF Pending
<1>3. ASSUME NEW f \in Forms, SubmitSignUp(f) PROVE AccountInv'
  <2> DEFINE s == [no |-> submitted.signups, name |-> f.name, password |-> f.password,
                   account |-> f.account, step |-> "create"]
  <2>1. s \in SignUps
    BY FormsAssumption DEF SignUps
  <2>2. /\ UNCHANGED <<auth, users, lost>> /\ signups' = signups \cup {s}
        /\ submitted' \in [logins : Nat, signups : Nat]
    BY <1>3 DEF SubmitSignUp
  <2>3. Pending' = Pending
    BY <2>2 DEF Pending
  <2> QED BY <1>1, <2>1, <2>2, <2>3
<1>4. CASE Restart
  <2>1. /\ UNCHANGED <<auth, users>> /\ signups' = {s \in signups : s.step = "save"}
        /\ lost' = lost \cup {s.account : s \in {t \in signups : t.step = "created"}}
        /\ submitted' = submitted
    BY <1>4 DEF Restart
  <2>2. Pending' = {s \in Pending : s.step = "save"}
    BY <2>1 DEF Pending
  <2>3. \A s \in Pending \ Pending' : s.account \in lost'
    BY <2>1, <2>2 DEF Pending, SignUps
  <2>4. \A a \in lost' : a \in lost \/ \E s \in Pending \ Pending' : s.account = a
    BY <2>1, <2>2 DEF Pending
  <2>5. Shape' /\ Documented' /\ Underway' /\ Covered'
    BY <2>1, <2>2, <2>3, <2>4 DEF Documented, Underway, Covered
  <2> QED BY <2>5
<1>5. ASSUME NEW s \in signups, Create(s) PROVE AccountInv'
  <2> DEFINE t == [s EXCEPT !.step = "created"]
  <2>1. /\ t \in SignUps /\ t.step = "created" /\ t.account = s.account
        /\ signups' = (signups \ {s}) \cup {t}
        /\ UNCHANGED <<users, lost, submitted>> /\ auth' = auth \cup {s.account}
        /\ s.step = "create" /\ s.account \notin auth /\ s.account \in Accounts
    BY <1>5, SteppedSignUp DEF Create, Free, SignUps
  <2> HIDE DEF t
  <2>2. Pending' = Pending \cup {t}
    BY <2>1 DEF Pending
  <2>3. Shape' /\ Documented' /\ Underway' /\ Covered'
    BY <2>1, <2>2 DEF Documented, Underway, Covered
  <2> QED BY <2>3
<1>6. ASSUME NEW s \in signups, Refuse(s) PROVE AccountInv'
  BY <1>1, <1>6 DEF Refuse, Pending
<1>7. ASSUME NEW s \in signups, Created(s) PROVE AccountInv'
  <2> DEFINE t == [s EXCEPT !.step = "save"]
  <2>1. /\ t \in SignUps /\ t.step = "save" /\ t.account = s.account
        /\ signups' = (signups \ {s}) \cup {t}
        /\ UNCHANGED <<auth, users, lost, submitted>> /\ s.step = "created"
    BY <1>7, SteppedSignUp DEF Created
  <2> HIDE DEF t
  <2>2. s \in Pending /\ Pending' = (Pending \ {s}) \cup {t}
    BY <2>1 DEF Pending
  <2>3. Shape' /\ Documented' /\ Underway' /\ Covered'
    BY <2>1, <2>2 DEF Documented, Underway, Covered
  <2> QED BY <2>3
<1>8. ASSUME NEW s \in signups, Save(s) PROVE AccountInv'
  <2>1. /\ s \in Pending /\ Pending' = Pending \ {s} /\ signups' = signups \ {s}
        /\ UNCHANGED <<auth, submitted>>
        /\ lost' = lost \cup {users[n].uid : n \in DOMAIN users \cap {s.name}}
    BY <1>8 DEF Save, Pending
  <2>2. /\ DOMAIN users' = DOMAIN users \cup {s.name} /\ users' \in [DOMAIN users' -> Docs]
        /\ users'[s.name].uid = s.account
        /\ \A n \in DOMAIN users \ {s.name} : users'[n] = users[n]
    <3>1. users' = Written(s)
      BY <1>8 DEF Save
    <3>2. /\ Written(s) \in [DOMAIN users \cup {s.name} -> Docs]
          /\ Written(s)[s.name] = [uid |-> s.account, password |-> s.password]
          /\ \A n \in DOMAIN users \ {s.name} : Written(s)[n] = users[n]
      BY WrittenDocs
    <3> QED BY <3>1, <3>2
  <2>3. Documented'
    BY <2>1, <2>2 DEF Documented, Underway
  <2>4. Underway'
    BY <2>1, <2>2 DEF Documented, Underway
  <2>5. Covered'
    BY <2>1, <2>2 DEF Documented, Covered
  <2> QED BY <2>1, <2>2, <2>3, <2>4, <2>5
<1>9. ASSUME NEW s \in signups, SaveFails(s) PROVE AccountInv'
  <2>1. /\ s \in Pending /\ Pending' = Pending \ {s} /\ signups' = signups \ {s}
        /\ UNCHANGED <<auth, users, submitted>> /\ lost' = lost \cup {s.account}
    BY <1>9 DEF SaveFails, Pending
  <2>2. Shape' /\ Documented' /\ Underway' /\ Covered'
    BY <2>1 DEF Documented, Underway, Covered
  <2> QED BY <2>2
<1> QED BY <1>2, <1>3, <1>4, <1>5, <1>6, <1>7, <1>8, <1>9 DEF Next, Touches, SignUp

\* AccountInv is inductive.
LEMMA AccountInvariant == Spec => []AccountInv
<1>1. Init => AccountInv
  BY DEF Init, AccountInv, Shape, Documented, Underway, Covered, Pending
<1> QED BY <1>1, AccountStep, PTL DEF Spec

\* Each account has one document, is about to get it, or has lost it for good.
THEOREM AccountsHaveOneFate == Spec => []EveryAccountOnce
<1>1. AccountInv => EveryAccountOnce
  <2> SUFFICES ASSUME AccountInv, NEW a \in Accounts
               PROVE  IF a \in auth THEN \E f \in Fates(a) : Fates(a) = {f} ELSE Fates(a) = {}
    BY DEF EveryAccountOnce
  <2> USE DEF AccountInv, Documented, Underway, Covered, Pending, Fates
  <2>1. CASE a \notin auth
    BY <2>1
  <2>2. CASE a \in lost
    <3>1. Fates(a) = {<<"lost", a>>}
      BY <2>2
    <3> QED BY <2>2, <3>1
  <2>3. ASSUME NEW n \in DOMAIN users, users[n].uid = a
        PROVE  a \in auth /\ Fates(a) = {<<"document", n>>}
    BY <2>3
  <2>4. ASSUME NEW s \in Pending, s.account = a
        PROVE  a \in auth /\ Fates(a) = {<<"sign-up", s>>}
    BY <2>4
  <2> QED BY <2>1, <2>2, <2>3, <2>4
<1> QED BY <1>1, AccountInvariant, PTL
-----------------------------------------------------------------------------
Logins == [no : Nat, name : Names, password : Passwords, doc : Docs \cup {None, NoAnswer}]

\* What login l was told: if a document has that uid, it is that of his name, unchanged.
Known(l) == /\ l.doc.uid \in auth
            /\ \A n \in DOMAIN users : users[n].uid = l.doc.uid => n = l.name /\ users[n] = l.doc
            /\ \A s \in Pending : s.account # l.doc.uid

\* The alert "done" stays on its sign-up screen until the screen is left.
AlertInv == /\ screen = "signup" /\ form # None => alert = "done"
            /\ alert = "done" => screen = "signup"
            /\ alert # "error"

\* The session: who opened it, and that nobody interferes if he was alone.
OpenedInv == /\ opened # None \/ page # None => screen = "main"
             /\ screen = "main" => /\ opened \in Logins /\ opened.doc \in Docs
                                   /\ opened.doc.password = opened.password
             /\ screen = "main" /\ alone => /\ logins = {} /\ userid = opened.doc.uid
                                            /\ identification = opened.name

\* The answers that the session and the logins under way rest on are still true.
KnownInv == /\ \A l \in logins : l.doc \in Docs => Known(l)
            /\ screen = "main" => Known(opened)

SessionInv == logins \subseteq Logins /\ AlertInv /\ OpenedInv /\ KnownInv /\ PageShowsLogin

\* No step makes an answer untrue: an account's document is not written again.
LEMMA KnownStep ==
    ASSUME AccountInv, [Next]_vars, NEW l, Known(l) PROVE Known(l)'
<1> USE DEF AccountInv, Shape
<1>1. ASSUME auth \subseteq auth', UNCHANGED users,
             \A s \in Pending' : s.account # l.doc.uid
      PROVE  Known(l)'
  BY <1>1 DEF Known
<1>2. CASE UNCHANGED <<auth, users, signups>>
  BY <1>1, <1>2 DEF Known, Pending
<1>3. CASE SignUp
  <2>1. ASSUME NEW s \in signups, Create(s) PROVE Known(l)'
    <3> DEFINE t == [s EXCEPT !.step = "created"]
    <3>1. /\ t.account = s.account /\ signups' = (signups \ {s}) \cup {t}
          /\ UNCHANGED users /\ auth' = auth \cup {s.account} /\ s.account \notin auth
      BY <2>1, SteppedSignUp DEF Create, Free
    <3> HIDE DEF t
    <3> QED BY <1>1, <3>1 DEF Known, Pending
  <2>2. ASSUME NEW s \in signups, Created(s) PROVE Known(l)'
    <3> DEFINE t == [s EXCEPT !.step = "save"]
    <3>1. /\ t.account = s.account /\ signups' = (signups \ {s}) \cup {t}
          /\ UNCHANGED <<auth, users>> /\ s.step = "created"
      BY <2>2, SteppedSignUp DEF Created
    <3> HIDE DEF t
    <3> QED BY <1>1, <3>1 DEF Known, Pending
  <2>3. ASSUME NEW s \in signups, Refuse(s) \/ SaveFails(s) PROVE Known(l)'
    BY <1>1, <2>3 DEF Refuse, SaveFails, Known, Pending
  <2>4. ASSUME NEW s \in signups, Save(s) PROVE Known(l)'
    <3>1. s \in Pending /\ signups' = signups \ {s} /\ auth' = auth /\ users' = Written(s)
      BY <2>4 DEF Save, Pending
    <3>2. /\ Written(s) \in [DOMAIN users \cup {s.name} -> Docs]
          /\ Written(s)[s.name] = [uid |-> s.account, password |-> s.password]
          /\ \A n \in DOMAIN users \ {s.name} : Written(s)[n] = users[n]
      BY WrittenDocs
    <3> QED BY <3>1, <3>2 DEF Known, Pending
  <2> QED BY <1>3, <2>1, <2>2, <2>3, <2>4 DEF SignUp
<1>4. CASE Restart
  BY <1>1, <1>4 DEF Restart, Known, Pending
<1>5. ASSUME NEW f \in Forms, SubmitSignUp(f) PROVE Known(l)'
  <2> DEFINE s == [no |-> submitted.signups, name |-> f.name, password |-> f.password,
                   account |-> f.account, step |-> "create"]
  <2>1. UNCHANGED <<auth, users>> /\ signups' = signups \cup {s} /\ s.step = "create"
    BY <1>5 DEF SubmitSignUp
  <2> HIDE DEF s
  <2> QED BY <1>1, <2>1 DEF Known, Pending
<1>6. CASE \/ GoSignUp \/ Back \/ CloseAlert \/ ShowPage \/ UNCHANGED vars \/ LogIn
           \/ \E n \in Names, p \in Passwords : SubmitLogin(n, p)
  BY <1>2, <1>6 DEF GoSignUp, Back, CloseAlert, ShowPage, vars, LogIn, Answer, Deliver, SubmitLogin
<1> QED BY <1>3, <1>4, <1>5, <1>6 DEF Next, Touches

\* A step that leaves the session and its alert alone, and asks or forgets logins only
\* on the login screen, keeps what is known.
LEMMA QuietStep ==
    ASSUME AccountInv, SessionInv, [Next]_vars,
           UNCHANGED <<userid, identification, page, opened, alone, logins>>,
           (screen' = "main") <=> (screen = "main"), AlertInv'
    PROVE  SessionInv'
<1>1. KnownInv'
  BY KnownStep DEF SessionInv, KnownInv, OpenedInv
<1> QED BY <1>1 DEF SessionInv, OpenedInv, PageShowsLogin

\* A callback opens the session for a login whose document it has just compared.
LEMMA DeliverStep ==
    ASSUME AccountInv, SessionInv, [Next]_vars, NEW l \in logins, Deliver(l) PROVE SessionInv'
<1> USE DEF SessionInv
<1>1. \A k \in logins : k.doc \in Docs => Known(k)'
  BY KnownStep DEF KnownInv
<1>2. screen = "main" /\ UNCHANGED opened => Known(opened)'
  BY KnownStep DEF KnownInv
<1>3. logins' = logins \ {l} /\ UNCHANGED <<form, page>>
  BY DEF Deliver, app
<1>4. CASE l.doc = None
  <2>1. UNCHANGED app
    BY <1>4 DEF Deliver
  <2> QED BY <1>1, <1>2, <1>3, <2>1
          DEF app, AlertInv, OpenedInv, KnownInv, PageShowsLogin
<1>5. CASE l.doc # None /\ Fits(l) /\ screen = "login"
  <2>1. l \in Logins /\ l.doc \in Docs /\ l.doc.password = l.password
    BY <1>5 DEF Deliver, Logins, Fits
  <2>2. /\ screen' = "main" /\ alert' = "none" /\ opened' = l
        /\ userid' = l.doc.uid /\ identification' = l.name
    BY <1>5 DEF Deliver
  <2>3. alone' => logins = {l}
    BY <1>5 DEF Deliver
  <2>4. page = None
    BY <1>5 DEF OpenedInv
  <2>5. AlertInv' /\ OpenedInv' /\ PageShowsLogin'
    BY <1>3, <2>1, <2>2, <2>3, <2>4 DEF AlertInv, OpenedInv, PageShowsLogin
  <2>6. KnownInv'
    BY <1>1, <1>3, <2>1, <2>2 DEF KnownInv
  <2> QED BY <1>3, <2>5, <2>6
<1>6. CASE l.doc # None /\ ~(Fits(l) /\ screen = "login")
  <2>1. UNCHANGED <<screen, opened, alone>> /\ alert' \in {alert, "wrong"}
        /\ (alert' # alert => screen = "login")
    BY <1>6 DEF Deliver, Presented
  <2>2. ~(screen = "main" /\ alone)
    BY DEF OpenedInv
  <2>3. AlertInv'
    BY <1>3, <2>1 DEF AlertInv
  <2>4. OpenedInv' /\ PageShowsLogin'
    BY <1>3, <2>1, <2>2 DEF OpenedInv, PageShowsLogin
  <2>5. KnownInv'
    BY <1>1, <1>2, <1>3, <2>1 DEF KnownInv
  <2> QED BY <1>3, <2>3, <2>4, <2>5
<1> QED BY <1>4, <1>5, <1>6

\* Every step keeps the session its opener's.
LEMMA SessionStep == AccountInv /\ SessionInv /\ [Next]_vars => SessionInv'
<1> SUFFICES ASSUME AccountInv, SessionInv, [Next]_vars PROVE SessionInv'
  OBVIOUS
<1>1. CASE GoSignUp \/ Back \/ CloseAlert
  <2>1. /\ UNCHANGED <<userid, identification, page, opened, alone, logins>>
        /\ (screen' = "main") <=> (screen = "main")
        /\ AlertInv'
    BY <1>1 DEF GoSignUp, Back, CloseAlert, SessionInv, AlertInv
  <2> QED BY <2>1, QuietStep
<1>2. CASE UNCHANGED vars
  BY <1>2, QuietStep DEF vars, app, SessionInv, AlertInv
<1>3. ASSUME NEW f \in Forms, SubmitSignUp(f) PROVE SessionInv'
  BY <1>3, QuietStep DEF SubmitSignUp, SessionInv, AlertInv
<1>4. CASE SignUp
  <2>1. ASSUME NEW s \in signups, Create(s) \/ Created(s) \/ Save(s) PROVE SessionInv'
    BY <2>1, QuietStep DEF Create, Created, Save, app, SessionInv, AlertInv
  <2>2. ASSUME NEW s \in signups, Refuse(s) \/ SaveFails(s) PROVE SessionInv'
    <3>1. s.no # None
      BY NoneAssumption DEF AccountInv, Shape, SignUps
    <3> QED BY <2>2, <3>1, QuietStep
            DEF Refuse, SaveFails, Presented, SessionInv, AlertInv
  <2> QED BY <1>4, <2>1, <2>2 DEF SignUp
<1>5. CASE Restart
  BY <1>5 DEF Restart, SessionInv, AlertInv, OpenedInv,
              KnownInv, PageShowsLogin
<1>6. ASSUME NEW n \in Names, NEW p \in Passwords, SubmitLogin(n, p) PROVE SessionInv'
  <2> DEFINE l == [no |-> submitted.logins, name |-> n, password |-> p, doc |-> NoAnswer]
  <2>1. l \in Logins /\ l.doc \notin Docs
    BY AnswerAssumption DEF Logins, AccountInv, Shape
  <2>2. logins' = logins \cup {l} /\ UNCHANGED app /\ screen = "login"
    BY <1>6 DEF SubmitLogin
  <2> HIDE DEF l
  <2>3. KnownInv'
    BY <2>1, <2>2, KnownStep DEF SessionInv, KnownInv, app
  <2> QED BY <2>1, <2>2, <2>3
          DEF app, SessionInv, AlertInv, OpenedInv, PageShowsLogin
<1>7. CASE LogIn
  <2>1. ASSUME NEW l \in logins, Answer(l) PROVE SessionInv'
    <3>1. PICK doc \in Docs \cup {None} :
            /\ logins' = Answered(l, doc)
            /\ doc # None => l.name \in DOMAIN users /\ doc = users[l.name]
      BY <2>1 DEF Answer, AccountInv, Shape
    <3> DEFINE k == [l EXCEPT !.doc = doc]
    <3>2. k \in Logins /\ k.doc = doc /\ k.name = l.name
      BY DEF SessionInv, Logins
    <3>3. logins' = (logins \ {l}) \cup {k} /\ UNCHANGED <<auth, users, signups, app>>
      BY <2>1, <3>1 DEF Answer, Answered
    <3> HIDE DEF k
    <3>4. doc \in Docs => Known(k)
      BY <3>1, <3>2, NoneAssumption DEF Known, AccountInv, Documented, Underway
    <3>5. doc \in Docs => Known(k)'
      BY <3>4, KnownStep
    <3>6. KnownInv'
      BY <3>2, <3>3, <3>5, KnownStep DEF SessionInv, KnownInv, app
    <3>7. ~(screen = "main" /\ alone)
      BY DEF SessionInv, OpenedInv
    <3> QED BY <3>2, <3>3, <3>6, <3>7
            DEF app, SessionInv, AlertInv, OpenedInv, PageShowsLogin
  <2> QED BY <1>7, <2>1, DeliverStep DEF LogIn
<1>8. CASE ShowPage
  <2>1. UNCHANGED <<users, logins, userid, identification, screen, form, alert, opened, alone>>
        /\ screen = "main"
    BY <1>8 DEF ShowPage
  <2>2. PICK n \in DOMAIN users : users[n].uid = userid
                                 /\ page' = [id |-> n, password |-> users[n].password]
    BY <1>8 DEF ShowPage, OwnUid
  <2>3. KnownInv'
    BY <2>1, KnownStep DEF SessionInv, KnownInv
  <2>4. PageShowsLogin'
    <3>1. alone => userid = opened.doc.uid
      BY <2>1 DEF SessionInv, OpenedInv
    <3> QED BY <2>1, <2>2, <3>1 DEF SessionInv, OpenedInv, KnownInv, Known, PageShowsLogin
  <2> QED BY <2>1, <2>3, <2>4 DEF SessionInv, AlertInv, OpenedInv
<1> QED BY <1>1, <1>2, <1>3, <1>4, <1>5, <1>6, <1>7, <1>8 DEF Next, Touches

LEMMA SessionInvariant == Spec => []SessionInv
<1>1. Init => SessionInv
  BY DEF Init, SessionInv, AlertInv, OpenedInv, KnownInv, PageShowsLogin
<1> QED BY <1>1, SessionStep, AccountInvariant, PTL DEF Spec

\* The user's page shows the name and the password of the login that opened the session,
\* if no other login was under way when it did: no sign-up
\* replaces the document that the login was compared with without taking its uid away.
THEOREM PageIsTrue == Spec => []PageShowsLogin
<1>1. SessionInv => PageShowsLogin
  BY DEF SessionInv
<1> QED BY <1>1, SessionInvariant, PTL

\* What SignUpViewController does with an error comes to nothing: "done" is presented
\* before any answer and closing it leaves the screen, so that in no order of answers and
\* touches is a failed sign-up shown to the user.
THEOREM FailuresAreSilent == Spec => [](alert # "error")
<1>1. SessionInv => alert # "error"
  BY DEF SessionInv, AlertInv
<1> QED BY <1>1, SessionInvariant, PTL
-----------------------------------------------------------------------------
\* The parts of TypeOK: what the services hold, and what the screens show.
ServicesOK ==
    /\ auth \subseteq Accounts /\ lost \subseteq Accounts
    /\ DOMAIN users \subseteq Names /\ users \in [DOMAIN users -> Docs]
    /\ signups \subseteq [no : 0..MaxSignUps, name : Names, password : Passwords,
                          account : Accounts, step : {"create", "created", "save"}]
    /\ faults \in 0..MaxFaults

ScreensOK ==
    /\ \A l \in logins : /\ l.no \in 0..MaxLogins /\ l.name \in Names
                         /\ l.password \in Passwords
                         /\ l.doc \in Docs \cup {None, NoAnswer}
    /\ userid \in Accounts \cup {None} /\ identification \in Names \cup {None}
    /\ screen \in {"login", "signup", "main"}
    /\ form \in 0..MaxSignUps \cup {None}
    /\ alert \in {"none", "wrong", "done", "error"}
    /\ page = None \/ page \in [id : Names, password : Passwords]
    /\ alone \in BOOLEAN
    /\ submitted \in [logins : 0..MaxLogins, signups : 0..MaxSignUps]

LEMMA TypeParts == TypeOK <=> ServicesOK /\ ScreensOK
BY DEF TypeOK, ServicesOK, ScreensOK

\* The services: an account or a document is what a sign-up under way asked for.
LEMMA ServicesStep == ServicesOK /\ ScreensOK /\ [Next]_vars => ServicesOK'
<1> SUFFICES ASSUME ServicesOK, ScreensOK, [Next]_vars PROVE ServicesOK'
  OBVIOUS
<1>f. ASSUME Fault PROVE faults' \in 0..MaxFaults
  BY <1>f, BoundAssumption DEF Fault, ServicesOK
<1>w. ASSUME NEW s \in signups, NEW step \in {"created", "save"}
      PROVE  Stepped(s, step) \subseteq [no : 0..MaxSignUps, name : Names, password : Passwords,
                                        account : Accounts, step : {"create", "created", "save"}]
  BY DEF ServicesOK, Stepped
<1>1. CASE UNCHANGED <<auth, users, signups, lost, faults>>
  BY <1>1 DEF ServicesOK
<1>2. ASSUME NEW f \in Forms, SubmitSignUp(f) PROVE ServicesOK'
  <2>1. submitted.signups \in 0..MaxSignUps
    BY DEF ScreensOK
  <2>2. f.name \in Names /\ f.password \in Passwords /\ f.account \in Accounts
    BY FormsAssumption
  <2> QED BY <1>2, <2>1, <2>2 DEF SubmitSignUp, ServicesOK
<1>3. ASSUME NEW s \in signups, Create(s) PROVE ServicesOK'
  BY <1>3, <1>w DEF Create, ServicesOK
<1>4. ASSUME NEW s \in signups, Created(s) PROVE ServicesOK'
  BY <1>4, <1>w DEF Created, ServicesOK
<1>5. ASSUME NEW s \in signups, Refuse(s) PROVE ServicesOK'
  <2>1. faults' \in 0..MaxFaults
    BY <1>5, <1>f DEF Refuse, ServicesOK
  <2> QED BY <1>5, <2>1 DEF Refuse, ServicesOK
<1>6. ASSUME NEW s \in signups, Save(s) PROVE ServicesOK'
  <2>1. /\ Written(s) \in [DOMAIN users \cup {s.name} -> Docs]
        /\ s.name \in Names
    BY DEF ServicesOK, Written, Docs
  <2>2. lost' \subseteq Accounts
    BY <1>6 DEF Save, ServicesOK, Docs
  <2> QED BY <1>6, <2>1, <2>2 DEF Save, ServicesOK
<1>7. ASSUME NEW s \in signups, SaveFails(s) PROVE ServicesOK'
  BY <1>7, <1>f DEF SaveFails, ServicesOK
<1>8. ASSUME NEW l \in logins, Answer(l) PROVE ServicesOK'
  <2>1. faults' \in 0..MaxFaults
    BY <1>8, <1>f DEF Answer, ServicesOK
  <2> QED BY <1>8, <2>1 DEF Answer, ServicesOK
<1>9. CASE Restart
  BY <1>9, <1>f DEF Restart, ServicesOK
<1>10. CASE \/ GoSignUp \/ Back \/ CloseAlert \/ ShowPage \/ UNCHANGED vars
            \/ (\E l \in logins : Deliver(l))
            \/ \E n \in Names, p \in Passwords : SubmitLogin(n, p)
  BY <1>1, <1>10 DEF GoSignUp, Back, CloseAlert, ShowPage, vars, Deliver, SubmitLogin
<1> QED BY <1>2, <1>3, <1>4, <1>5, <1>6, <1>7, <1>8, <1>9, <1>10 DEF Next, Touches, SignUp, LogIn

\* The screens: the globals and the page come from documents of the collection.
LEMMA ScreensStep == SessionInv /\ ServicesOK /\ ScreensOK /\ [Next]_vars => ScreensOK'
<1> SUFFICES ASSUME SessionInv, ServicesOK, ScreensOK, [Next]_vars PROVE ScreensOK'
  OBVIOUS
<1>b. MaxLogins \in Nat /\ MaxSignUps \in Nat
  BY BoundAssumption
<1>1. CASE GoSignUp \/ Back \/ CloseAlert
  BY <1>1 DEF GoSignUp, Back, CloseAlert, ScreensOK
<1>2. CASE UNCHANGED vars
  BY <1>2 DEF vars, app, ScreensOK
<1>3. ASSUME NEW f \in Forms, SubmitSignUp(f) PROVE ScreensOK'
  <2>1. submitted' \in [logins : 0..MaxLogins, signups : 0..MaxSignUps]
    BY <1>3, <1>b DEF SubmitSignUp, ScreensOK
  <2> QED BY <1>3, <2>1 DEF SubmitSignUp, ScreensOK
<1>4. ASSUME NEW s \in signups, Create(s) \/ Created(s) \/ Save(s) PROVE ScreensOK'
  BY <1>4 DEF Create, Created, Save, app, ScreensOK
<1>5. ASSUME NEW s \in signups, Refuse(s) \/ SaveFails(s) PROVE ScreensOK'
  BY <1>5 DEF Refuse, SaveFails, Presented, ScreensOK
<1>6. ASSUME NEW n \in Names, NEW p \in Passwords, SubmitLogin(n, p) PROVE ScreensOK'
  <2> DEFINE l == [no |-> submitted.logins, name |-> n, password |-> p, doc |-> NoAnswer]
  <2>1. /\ l.no \in 0..MaxLogins /\ l.name \in Names
        /\ l.password \in Passwords /\ l.doc \in Docs \cup {None, NoAnswer}
    BY DEF ScreensOK
  <2>2. logins' = logins \cup {l}
    BY <1>6 DEF SubmitLogin
  <2> HIDE DEF l
  <2>3. submitted' \in [logins : 0..MaxLogins, signups : 0..MaxSignUps]
    BY <1>6, <1>b DEF SubmitLogin, ScreensOK
  <2> QED BY <1>6, <2>1, <2>2, <2>3 DEF SubmitLogin, app, ScreensOK
<1>7. ASSUME NEW l \in logins, Answer(l) PROVE ScreensOK'
  <2>1. PICK doc \in Docs \cup {None} : logins' = Answered(l, doc)
    BY <1>7 DEF Answer, ServicesOK
  <2>2. UNCHANGED <<app, submitted>>
    BY <1>7 DEF Answer
  <2>3. \A k \in logins' : /\ k.no \in 0..MaxLogins /\ k.name \in Names
                           /\ k.password \in Passwords
                           /\ k.doc \in Docs \cup {None, NoAnswer}
    <3>1. l \in Logins
      BY DEF SessionInv
    <3> DEFINE k == [l EXCEPT !.doc = doc]
    <3>2. k.no = l.no /\ k.name = l.name /\ k.password = l.password /\ k.doc = doc
      BY <3>1 DEF Logins
    <3>3. logins' = (logins \ {l}) \cup {k}
      BY <2>1 DEF Answered
    <3> HIDE DEF k
    <3> QED BY <3>2, <3>3 DEF ScreensOK
  <2> QED BY <2>2, <2>3 DEF app, ScreensOK
<1>8. ASSUME NEW l \in logins, Deliver(l) PROVE ScreensOK'
  <2>1. l.doc # None => l.doc.uid \in Accounts /\ l.name \in Names
    BY <1>8 DEF Deliver, ScreensOK, Docs
  <2>2. logins' \subseteq logins /\ (logins = {l}) \in BOOLEAN
    BY <1>8 DEF Deliver
  <2>3. /\ userid' \in Accounts \cup {None} /\ identification' \in Names \cup {None}
        /\ screen' \in {"login", "signup", "main"} /\ alert' \in {"none", "wrong", "done", "error"}
        /\ alone' \in BOOLEAN /\ UNCHANGED <<form, page, submitted>>
    BY <1>8, <2>1, <2>2 DEF Deliver, Presented, app, ScreensOK
  <2> QED BY <2>2, <2>3 DEF ScreensOK
<1>9. CASE ShowPage
  <2>1. page' \in [id : Names, password : Passwords]
    BY <1>9 DEF ShowPage, ServicesOK, Docs
  <2> QED BY <1>9, <2>1 DEF ShowPage, ScreensOK
<1>10. CASE Restart
  BY <1>10 DEF Restart, ScreensOK
<1> QED BY <1>1, <1>2, <1>3, <1>4, <1>5, <1>6, <1>7, <1>8, <1>9, <1>10 DEF Next, Touches, SignUp, LogIn

\* Every variable keeps its type, whatever is answered when.
THEOREM TypeCorrect == Spec => []TypeOK
<1>1. Init => ServicesOK /\ ScreensOK
  BY BoundAssumption DEF Init, ServicesOK, ScreensOK
<1>2. SessionInv /\ ServicesOK /\ ScreensOK /\ [Next]_vars => (ServicesOK /\ ScreensOK)'
  BY ServicesStep, ScreensStep
<1> QED BY <1>1, <1>2, SessionInvariant, TypeParts, PTL DEF Spec
=============================================================================
