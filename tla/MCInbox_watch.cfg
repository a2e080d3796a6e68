SPECIFICATION Spec
CONSTANTS
    o1 = o1
    p1 = p1
    p2 = p2
    r1 = r1
    r2 = r2
    Msgs = {o1}
    Own = {o1}
    Sealed = {}
    AutoMsgs = {}
    Relays = {r1, r2}
    Limit = 1
    MaxSeen = 1
    EvictN = 1
    MaxClock = 2
    MaxFaults = 2
INVARIANTS
    TypeOK
    AnsweredOnce
PROPERTIES
    ArrivalKept
SYMMETRY Symmetric
