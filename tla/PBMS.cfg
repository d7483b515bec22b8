SPECIFICATION FairSpec
CONSTANTS
    Bikes <- TwoBikes
    Users = {rider, other}
    Nicks = {red, blue}
    NoUid = NoUid
    NoNick = NoNick
    User = rider
    None = None
    Limit <- PBMSLimit
INVARIANTS
    TypeOK
    ShownIsTrue
PROPERTIES
    BoardsAreLocks
    TheftReachesOwner
    OperationRepairs
