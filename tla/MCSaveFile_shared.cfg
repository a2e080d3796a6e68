SPECIFICATION Spec
CONSTANTS
    Writers = {w1, w2}
    Schemes = {"fixed"}
    Overlap = TRUE
    short = short
    long = long
    Docs = {short, long}
    Size <- MCSize
    Inodes = {1, 2, 3, 4}
INVARIANTS
    NeverTorn
