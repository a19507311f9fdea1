SPECIFICATION MCSpec
CONSTANTS
    s1 = s1
    s2 = s2
    r1 = r1
    r2 = r2
    Nobody = Nobody
    Tasks = {s1, s2, r1, r2}
    Items = {"a"}
    Prio <- MCPrio
    Calls <- CrowdCalls
    Waits = {"some"}
    IsrCalls = {"back", "recv"}
    Length = 2
INVARIANTS NobodyForgotten SendersGetTheRoom
PROPERTIES ImplementsFifo
