SPECIFICATION FairSpec
CONSTANTS
    Peripherals = {lockA, lockB, other}
    Foreign = {other}
    Signals <- TwoSignals
    None = None
    MaxSelects = 2
INVARIANTS
    TypeOK
    StaleOnlyAfterDrop
    FoundIsReady
PROPERTIES
    WaitingIsTold
    OnlyLockGetsReady
