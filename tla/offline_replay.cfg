SPECIFICATION LiveSpec
CONSTANTS
    Relays = {home, other}
    Home = home
    None = none
    Coincide = {}
    MaxSaves = 3
    MaxFails = 1
    MaxRestarts = 1
CHECK_DEADLOCK FALSE
INVARIANTS
    HomeOnly
    LatestAccounted
PROPERTIES
    RelayNeverRegresses
    LatestReachesRelay
