SPECIFICATION FairSpec
CONSTANTS
    Bikes <- TwoBikes
    Users = {rider, other}
    Nicks = {red, blue}
    NoUid = NoUid
    NoNick = NoNick
    User = rider
    MaxQueries = 1
    MaxReports = 2
    MaxEdits = 1
PROPERTY OthersDoNotHide
