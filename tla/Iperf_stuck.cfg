SPECIFICATION Spec
CONSTANTS
    Slots = {1, 2}
    Duration = 2
    Commands = {"udp_speed", "tcp_speed"}
    Pool = 2
    Accepts = 1
    Listens = FALSE
INVARIANTS RefusedIsRunning
