SPECIFICATION Spec
CONSTANTS
    o1 = o1
    p1 = p1
    p2 = p2
    r1 = r1
    r2 = r2
    Msgs = {p1, p2}
    Own = {}
    Sealed = {}
    AutoMsgs = {}
    Relays = {r1}
    Limit = 2
    MaxSeen = 2
    EvictN = 1
    MaxClock = 0
    MaxFaults = 0
PROPERTIES
    NoEviction
