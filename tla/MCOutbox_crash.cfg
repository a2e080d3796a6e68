SPECIFICATION Spec
CONSTANTS
    Fresh = {m1}
    Legacy = {}
    Twins = {}
    Garbled = {}
    Daemon = d
    RetryCmds = {}
    ClearCmds = {}
    MaxRetries = 2
    MinFailures = 1
    Overlap = FALSE
    MaxFaults = 1
INVARIANTS
    NoDoubleSend
