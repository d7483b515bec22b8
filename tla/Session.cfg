SPECIFICATION FairSpec
CONSTANTS
    Names = {kim, lee}
    Passwords = {p1, p2}
    Accounts = {a1, a2}
    kim = kim
    lee = lee
    p1 = p1
    p2 = p2
    a1 = a1
    a2 = a2
    Forms <- FourForms
    None = None
    NoAnswer = NoAnswer
    MaxLogins = 2
    MaxSignUps = 2
    MaxFaults = 1
INVARIANTS
    TypeOK
    EveryAccountOnce
    PageShowsLogin
PROPERTIES
    LoginOpens
    SignUpIsDone
CHECK_DEADLOCK FALSE
