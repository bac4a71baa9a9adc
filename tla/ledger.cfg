SPECIFICATION Spec
CONSTANTS
    Signals = {s1, s2}
    Naming = {s1}
    TradeTtl = 1
    BootTtl = 1
    CacheTtl = 1
    Grace = 1
    Interval = 1
    Hour = 2
    MaxClock = 4
    MaxBoots = 1
    MaxFaults = 1
    None = None
INVARIANTS
    TypeOK
    RepairsDoLittleHarm
PROPERTIES
    LockoutLasts
    LostIsEngineOutage
CHECK_DEADLOCK FALSE
