SPECIFICATION FairSpec
CONSTANTS
    Fresh = {m1}
    Legacy = {g1}
    Twins = {}
    Garbled = {g1}
    Daemon = d
    RetryCmds = {r1}
    ClearCmds = {c1}
    MaxRetries = 2
    MinFailures = 1
    Overlap = TRUE
    MaxFaults = 1
INVARIANTS
    StatusIsEarned
    RetryBound
PROPERTIES
    Settles
