SPECIFICATION Spec
CONSTANTS
    Bikes <- TwoBikes
    Users = {rider, other}
    Nicks = {red, blue}
    NoUid = NoUid
    NoNick = NoNick
    User = rider
    Listing = Listing
    MaxQueries = 1
    MaxEdits = 0
    MaxForms = 1
PROPERTY CellsHaveData
