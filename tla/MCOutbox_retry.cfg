SPECIFICATION Spec
CONSTANTS
    Fresh = {}
    Legacy = {l1, l2}
    Twins = {}
    Garbled = {}
    Daemon = d
    RetryCmds = {r1}
    ClearCmds = {}
    MaxRetries = 2
    MinFailures = 1
    Overlap = TRUE
    MaxFaults = 0
PROPERTIES
    RetryTouchesOneEntry
