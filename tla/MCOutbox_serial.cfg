SPECIFICATION Spec
CONSTANTS
    Fresh = {m1}
    Legacy = {t1, t2, g1}
    Twins = {t1, t2}
    Garbled = {g1}
    Daemon = d
    RetryCmds = {r1}
    ClearCmds = {c1}
    MaxRetries = 2
    MinFailures = 1
    Overlap = FALSE
    MaxFaults = 2
INVARIANTS
    TypeOK
    NoSilentLoss
    NoDoubleSendUnlessFault
    RecordedWhenAcked
    StuckOnlyByFault
PROPERTIES
    NoResurrection
    KeepsPromise
