SPECIFICATION FairSpec
CONSTANTS
    o1 = o1
    p1 = p1
    p2 = p2
    r1 = r1
    r2 = r2
    Msgs = {o1, p1}
    Own = {o1}
    Sealed = {}
    AutoMsgs = {p1}
    Relays = {r1}
    Limit = 1
    MaxSeen = 2
    EvictN = 1
    MaxClock = 1
    MaxFaults = 1
INVARIANTS
    AnsweredOnce
PROPERTIES
    Arrives
