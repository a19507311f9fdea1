SPECIFICATION MCSpec
CONSTANTS
    Slots = {1, 2, 3}
    Duration = 2
    Commands = {"tcp", "udp_speed", "tcp_speed"}
    Pool = 2
    Accepts = 1
    Listens = FALSE
    ConfigSpeed = 100
    Speeds = {10, 100, 1000}
    Slow = TRUE
    WaitForLink = TRUE
    PowerUp = {{6, 8, 12}, {11, 13}}
    MaxLinks = 3
    MaxQueries = 2
    None = None
    Transfers <- SomeTransfers
    SmallSize = 1
    LargeSize = 3
    IndexMod = 4
    Drain = 3
    Cancels = 2
INVARIANTS NothingLeaked OneTestAtATime PhyIsConfigured LinkReportIsTrue FileIsWhatWasSent PacketFits
PROPERTIES TestsProceed PhyCallsReturn TransferEnds
