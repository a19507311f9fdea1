SPECIFICATION MCSpec
CONSTANTS
    Delayers = {"d"}
    Periodics = {"p"}
    Waiters = {"w"}
    Times = {2, 4}
    TickRange = 5
    MaxTick = 12
    MaxPended = 2
    None = None
    Total = 124
    Align = 8
    Header = 8
    SizeMax = 511
    Requests = {0, 1, 8, 22, 64, 300, 505}
INVARIANTS NoneOverslept NextIsEarliest NoTickLost TimersAreOnTime HeapIsSound
PROPERTIES WokenOnTime PeriodKept WaitsAsAsked
