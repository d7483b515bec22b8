SPECIFICATION FairSpec
CONSTANTS
    Bikes <- TwoBikes
    Users = {rider, other}
    Nicks = {red, blue}
    NoUid = NoUid
    NoNick = NoNick
    User = rider
    MaxScreens = 2
    MaxQueries = 2
    MaxReports = 2
    MaxEdits = 1
INVARIANTS
    TypeOK
    MarkerIsOfName
PROPERTIES
    MarkerFollows
\* With every bounded step taken and no map open the system may stop.
CHECK_DEADLOCK FALSE
