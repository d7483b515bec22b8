------------------------------- MODULE Session -------------------------------
(***************************************************************************)
(* Accounts and sessions: SignUpViewController asks the authentication for  *)
(* an account and then writes the user's document, LoginViewController      *)
(* reads that document, compares the password and opens the session, and    *)
(* UserViewController shows who it belongs to.  Each answer comes when it   *)
(* comes, whatever screen is then open.  Empty fields are refused without a *)
(* request; a name of blanks is trimmed to an empty one, and document("")   *)
(* stops the app, which Restart may do at any time.                         *)
(***************************************************************************)
EXTENDS Naturals, FiniteSets

CONSTANTS
    Names,       \* user names, which name the documents of the collection "users"
    Passwords,
    Accounts,    \* e-mail addresses; the uid of an account is named by its address
    Forms,       \* what may be filled in on the sign-up screen
    None,        \* no name, no uid, no document
    NoAnswer,    \* a login that is not answered yet
    MaxLogins, MaxSignUps,   \* bounds on the submissions of the two forms
    MaxFaults                \* bound on failed requests and restarts of the app

Docs == [uid : Accounts, password : Passwords]

ASSUME FormsAssumption == Forms \subseteq [name : Names, password : Passwords, account : Accounts]
ASSUME NoneAssumption  == None \notin Names \cup Accounts \cup Docs \cup Nat
ASSUME AnswerAssumption == NoAnswer \notin Docs \cup {None}
ASSUME BoundAssumption == {MaxLogins, MaxSignUps, MaxFaults} \subseteq Nat

VARIABLES
    auth,            \* addresses that have an account
    users,           \* the documents: name -> uid and password
    signups,         \* sign-ups under way
    logins,          \* logins under way
    userid, identification,   \* the globals of the session
    screen,          \* "login", "signup" (over the login screen) or "main"
    form,            \* the sign-up submitted on the sign-up screen that is open
    alert,           \* the alert on the screen, "none" without one
    page,            \* labels of the user's page, None before it has any
    opened,          \* history: the login that opened the session, None without one
    alone,           \* history: no other login was under way then
    lost,            \* history: accounts whose document was not written or was replaced
    submitted, faults   \* history: submissions of each form, faults

app  == <<userid, identification, screen, form, alert, page, opened, alone>>
vars == <<auth, users, signups, logins, app, lost, submitted, faults>>


\* Nobody has an account, and the app shows the login screen.
Init == /\ auth = {} /\ users = [n \in {} |-> {}]
        /\ signups = {} /\ logins = {}
        /\ userid = None /\ identification = None
        /\ screen = "login" /\ form = None /\ alert = "none" /\ page = None
        /\ opened = None /\ alone = TRUE
        /\ lost = {}
        /\ submitted = [logins |-> 0, signups |-> 0] /\ faults = 0

Fault == faults < MaxFaults /\ faults' = faults + 1

\* present(): a screen that presents something already, or is not shown, does nothing.
Presented(shown, text) == IF shown /\ alert = "none" THEN text ELSE alert
-----------------------------------------------------------------------------
(* Signing up.                                                               *)

GoSignUp == /\ screen = "login" /\ alert = "none"
            /\ screen' = "signup" /\ form' = None
            /\ UNCHANGED <<auth, users, signups, logins, userid, identification, alert, page,
                           opened, alone, lost, submitted, faults>>

Back == /\ screen = "signup" /\ alert = "none"
        /\ screen' = "login"
        /\ UNCHANGED <<auth, users, signups, logins, userid, identification, form, alert,
                       page, opened, alone, lost, submitted, faults>>

\* The request is made and the alert "done" presented, which waits for no answer.
SubmitSignUp(f) ==
    /\ screen = "signup" /\ alert = "none"
    /\ submitted.signups < MaxSignUps
    /\ submitted' = [submitted EXCEPT !.signups = @ + 1]
    /\ signups' = signups \cup {[no |-> submitted.signups, name |-> f.name,
                                 password |-> f.password, account |-> f.account,
                                 step |-> "create"]}
    /\ alert' = "done" /\ form' = submitted.signups
    /\ UNCHANGED <<auth, users, logins, userid, identification, screen, page, opened, alone,
                   lost, faults>>

\* OK: the one of the alert "done" also leaves the sign-up screen.
CloseAlert == /\ alert # "none"
              /\ alert' = "none"
              /\ screen' = IF alert = "done" THEN "login" ELSE screen
              /\ UNCHANGED <<auth, users, signups, logins, userid, identification, form,
                             page, opened, alone, lost, submitted, faults>>

Stepped(s, step) == (signups \ {s}) \cup {[s EXCEPT !.step = step]}

\* createUser: an address gets one account.
Unchecked(s) == TRUE
Free(s) == s.account \notin auth

Create(s) == /\ s.step = "create"
             /\ Free(s)
             /\ auth' = auth \cup {s.account}
             /\ signups' = Stepped(s, "created")
             /\ UNCHANGED <<users, logins, app, lost, submitted, faults>>

\* Its callback with an error: the address is taken, or the request failed.
Refuse(s) == /\ s.step = "create"
             /\ IF Free(s) THEN Fault ELSE UNCHANGED faults
             /\ signups' = signups \ {s}
             /\ alert' = Presented(screen = "signup" /\ form = s.no, "error")
             /\ UNCHANGED <<auth, users, logins, userid, identification, screen, form, page,
                            opened, alone, lost, submitted>>

\* Its callback without one sends the document.
Created(s) == /\ s.step = "created"
              /\ signups' = Stepped(s, "save")
              /\ UNCHANGED <<auth, users, logins, app, lost, submitted, faults>>

\* setData: the document of that name is replaced if there is one.
Kept(s) == IF s.name \in DOMAIN users THEN users
           ELSE [n \in DOMAIN users \cup {s.name} |->
                   IF n = s.name THEN [uid |-> s.account, password |-> s.password] ELSE users[n]]
Nameless(s) == [n \in DOMAIN users \cup {s.name} |->
                  IF n = s.name THEN [password |-> s.password] ELSE users[n]]
Written(s) == [n \in DOMAIN users \cup {s.name} |->
                 IF n = s.name THEN [uid |-> s.account, password |-> s.password] ELSE users[n]]

Save(s) == /\ s.step = "save"
           /\ users' = Written(s)
           /\ lost' = lost \cup {users[n].uid : n \in DOMAIN users \cap {s.name}}
           /\ signups' = signups \ {s}
           /\ UNCHANGED <<auth, logins, app, submitted, faults>>

SaveFails(s) == /\ s.step = "save"
                /\ Fault
                /\ lost' = lost \cup {s.account}
                /\ signups' = signups \ {s}
                /\ alert' = Presented(screen = "signup" /\ form = s.no, "error")
                /\ UNCHANGED <<auth, users, logins, userid, identification, screen, form,
                               page, opened, alone, submitted>>
-----------------------------------------------------------------------------
(* Logging in.                                                               *)

SubmitLogin(name, password) ==
    /\ screen = "login" /\ alert = "none"
    /\ submitted.logins < MaxLogins
    /\ submitted' = [submitted EXCEPT !.logins = @ + 1]
    /\ logins' = logins \cup {[no |-> submitted.logins, name |-> name,
                               password |-> password, doc |-> NoAnswer]}
    /\ UNCHANGED <<auth, users, signups, app, lost, faults>>

Answered(l, doc) == (logins \ {l}) \cup {[l EXCEPT !.doc = doc]}

\* getDocument is answered with what the collection holds now, or fails.
Answer(l) == /\ l.doc = NoAnswer
             /\ \/ /\ logins' = Answered(l, IF l.name \in DOMAIN users THEN users[l.name] ELSE None)
                   /\ UNCHANGED faults
                \/ Fault /\ logins' = Answered(l, None)
             /\ UNCHANGED <<auth, users, signups, app, lost, submitted>>

FitsLast(l) == l.doc.password = l.password /\ logins = {l}
Fits(l)     == l.doc.password = l.password

\* getUserData()'s callback: the globals are set before the password is compared; one that
\* fits opens the session if the login screen is shown.
Deliver(l) ==
    /\ l.doc # NoAnswer
    /\ logins' = logins \ {l}
    /\ IF l.doc = None
       THEN UNCHANGED app
       ELSE /\ identification' = l.name
            /\ userid' = l.doc.uid
            /\ IF Fits(l)
               THEN IF screen = "login"
                    THEN /\ screen' = "main" /\ alert' = "none"
                         /\ opened' = l /\ alone' = (logins = {l})
                    ELSE UNCHANGED <<screen, alert, opened, alone>>
               ELSE /\ alert' = Presented(screen = "login", "wrong")
                    /\ UNCHANGED <<screen, opened, alone>>
            /\ UNCHANGED <<form, page>>
    /\ UNCHANGED <<auth, users, signups, lost, submitted, faults>>

\* The user's page: the document that has the uid of the session.
AnyUid(n) == TRUE
OwnUid(n) == users[n].uid = userid

ShowPage == /\ screen = "main" /\ page = None
            /\ \E n \in DOMAIN users : /\ OwnUid(n)
                                       /\ page' = [id |-> n, password |-> users[n].password]
            /\ UNCHANGED <<auth, users, signups, logins, userid, identification, screen, form,
                           alert, opened, alone, lost, submitted, faults>>

\* The app is ended and started again.  A document that was sent already is kept and
\* sent by the database's client; an account without its callback never gets one.
Restart == /\ Fault
           /\ signups' = {s \in signups : s.step = "save"}
           /\ lost' = lost \cup {s.account : s \in {t \in signups : t.step = "created"}}
           /\ logins' = {}
           /\ userid' = None /\ identification' = None
           /\ screen' = "login" /\ form' = None /\ alert' = "none" /\ page' = None
           /\ opened' = None /\ alone' = TRUE
           /\ UNCHANGED <<auth, users, submitted>>
-----------------------------------------------------------------------------
Touches == \/ GoSignUp \/ Back \/ CloseAlert \/ ShowPage \/ Restart
           \/ \E n \in Names, p \in Passwords : SubmitLogin(n, p)
           \/ \E f \in Forms : SubmitSignUp(f)

SignUp == \E s \in signups : Create(s) \/ Refuse(s) \/ Created(s) \/ Save(s) \/ SaveFails(s)
LogIn  == \E l \in logins : Answer(l) \/ Deliver(l)

Next == Touches \/ SignUp \/ LogIn

Spec == Init /\ [][Next]_vars

\* Requests are answered and callbacks run; nothing is assumed of the user.
FairSpec == Spec /\ WF_vars(SignUp) /\ WF_vars(LogIn)
-----------------------------------------------------------------------------
TypeOK == /\ auth \subseteq Accounts /\ lost \subseteq Accounts
          /\ DOMAIN users \subseteq Names /\ users \in [DOMAIN users -> Docs]
          /\ signups \subseteq [no : 0..MaxSignUps, name : Names, password : Passwords,
                                account : Accounts, step : {"create", "created", "save"}]
          /\ \A l \in logins : /\ l.no \in 0..MaxLogins /\ l.name \in Names
                               /\ l.password \in Passwords
                               /\ l.doc \in Docs \cup {None, NoAnswer}
          /\ userid \in Accounts \cup {None} /\ identification \in Names \cup {None}
          /\ screen \in {"login", "signup", "main"}
          /\ form \in 0..MaxSignUps \cup {None}
          /\ alert \in {"none", "wrong", "done", "error"}
          /\ page = None \/ page \in [id : Names, password : Passwords]
          /\ alone \in BOOLEAN
          /\ submitted \in [logins : 0..MaxLogins, signups : 0..MaxSignUps]
          /\ faults \in 0..MaxFaults

\* What an account has: documents, sign-ups that are past its creation, its loss.
Fates(a) == {<<"document", n>> : n \in {m \in DOMAIN users : users[m].uid = a}}
            \cup {<<"sign-up", s>> : s \in {t \in signups : t.step # "create" /\ t.account = a}}
            \cup {<<"lost", a>> : b \in lost \cap {a}}

\* An account and its document are made by two requests, yet each account has one
\* document, or is about to get it, or has lost it for good to a failed request, a
\* restart in between or a later sign-up of the same name.
EveryAccountOnce == \A a \in Accounts : IF a \in auth THEN \E f \in Fates(a) : Fates(a) = {f}
                                                      ELSE Fates(a) = {}

\* The user's page shows the name and the password of the login that opened the session,
\* if no other login was under way then: globals of an earlier, failed one do not stay, nor
\* does it matter that the name or the address is used in another sign-up meanwhile.  (Of
\* two under way the last answer sets the globals, whichever of them opened the session.)
PageShowsLogin ==
    page # None /\ alone => page = [id |-> opened.name, password |-> opened.password]

\* A login with the right password opens the session, whatever else is under way, unless
\* the rider has gone to the sign-up screen or the document is replaced meanwhile.
LoginOpens ==
    \A n \in Names, p \in Passwords :
        (/\ \E l \in logins : l.name = n /\ l.password = p /\ l.doc = NoAnswer
         /\ n \in DOMAIN users /\ users[n].password = p /\ faults = MaxFaults)
            ~> (screen # "login" \/ (n \in DOMAIN users /\ users[n].password # p))

\* A sign-up for a free address ends with a document of that account, if no request
\* fails and the app is not ended: the alert "done" comes true.
SignUpIsDone ==
    \A a \in Accounts :
        (a \notin auth /\ faults = MaxFaults /\ \E s \in signups : s.account = a)
            ~> (\E n \in DOMAIN users : users[n].uid = a)
=============================================================================
