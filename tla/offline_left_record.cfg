SPECIFICATION Spec
CONSTANTS
    Relays = {home, other}
    Home = home
    None = none
    Coincide = {"leftRecords"}
    MaxSaves = 3
    MaxFails = 1
    MaxRestarts = 1
CHECK_DEADLOCK FALSE
PROPERTIES
    RelayNeverRegresses
