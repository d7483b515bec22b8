SPECIFICATION Spec
CONSTANTS
    MaxPos = 1
    Places <- TwoPlaces
    Coord <- Numbers
    Junk = {}
    RxCap = 2
    Limit <- TapLimit
PROPERTY NoInvalidCommand
