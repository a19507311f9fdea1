SPECIFICATION PhySpec
CONSTANTS
    ConfigSpeed = 100
    Speeds = {100}
    Slow = FALSE
    WaitForLink = FALSE
    PowerUp = {{6, 8, 12}}
    MaxLinks = 1
    MaxQueries = 1
    None = None
INVARIANTS SpeedTellsLinkDown
