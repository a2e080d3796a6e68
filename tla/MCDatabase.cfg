SPECIFICATION MCSpec
CONSTANTS
    Shells = {s1, s2}
    Workers = {w1, w2}
    Workloads <- MCWorkloads
    MaxCommands = 3
    MaxFaults = 1
    MaxTampers = 2
    Npubs = {"alice", "bob"}
    Mine = {"alice", "bob"}
    Legacy = {m1, m2}
    LegacyFiles = {"none", "json", "broken"}
    Relays = {r1, r2}
    Prices = {0, 1, 2}
    ScreenLimit = 1
    Times = {1, 2}
SYMMETRY Symmetry
CHECK_DEADLOCK FALSE
INVARIANTS
    TypeOK
    ChainVerifies
    TamperEvident
    LogTellsTruth
    CreatorIsAdmin
    LegacyKept
    LegacyOnce
    SentIsStored
    NothingVanishes
    ScreenCurrent
    
    
    FreshAfterDiscover
PROPERTIES
    DroppedOnlyByOthers
    TextKept
