SPECIFICATION MCSpec
CONSTANTS
    DescNum = 2
    Senders = {netin, tcpip}
    MaskedSenders = {netin}
    MaxPackets = 5
    MaxUnderflows = 2
    Interrupt = TRUE
    Nobody = Nobody
INVARIANTS RingIsSound
PROPERTIES ImplementsSafeService AcceptedLeaves OutputReturns
CHECK_DEADLOCK FALSE
