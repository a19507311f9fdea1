SPECIFICATION Spec
CONSTANTS
    DescNum = 2
    Senders = {netin, tcpip}
    MaskedSenders = {netin}
    MaxPackets = 2
    MaxUnderflows = 0
    Interrupt = TRUE
    Nobody = Nobody
PROPERTIES ImplementsService
CHECK_DEADLOCK FALSE
