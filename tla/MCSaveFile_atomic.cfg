SPECIFICATION Spec
CONSTANTS
    Writers = {w1, w2}
    Schemes = {"unique", "fixed"}
    Overlap = FALSE
    short = short
    long = long
    Docs = {short, long}
    Size <- MCSize
    Inodes = {1, 2, 3, 4}
INVARIANTS
    NeverTorn
PROPERTIES
    PublishedIsFinal
    SavesAtomically
SYMMETRY Symmetric
