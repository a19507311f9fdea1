SPECIFICATION YmodemSpec
CONSTANTS
    Transfers <- DamagedTransfers
    SmallSize = 1
    LargeSize = 3
    IndexMod = 4
    Drain = 3
    Cancels = 2
INVARIANTS DamagedIsNotStored
