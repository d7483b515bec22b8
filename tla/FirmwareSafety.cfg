SPECIFICATION Spec
CONSTANTS
    MaxPos = 2
    Places <- TwoPlaces
    Coord <- Numbers
    Junk <- CR
    RxCap = 2
    Limit <- SafetyLimit
INVARIANTS
    TypeOK
    BoltMatchesState
    AckMatchesBolt
    CloudFollows
    MapShowsAPlace
    TheftMeansMoved
PROPERTIES
    PinGuardsMain
    ImplementsBikeLock
