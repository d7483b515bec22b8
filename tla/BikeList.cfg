SPECIFICATION FairSpec
CONSTANTS
    Bikes <- TwoBikes
    Users = {rider, other}
    Nicks = {red, blue}
    NoUid = NoUid
    NoNick = NoNick
    User = rider
    Listing = Listing
    MaxQueries = 2
    MaxEdits = 1
    MaxForms = 1
INVARIANTS
    TypeOK
    TouchHitsCell
    ListedOnce
PROPERTY EmptyEnds
