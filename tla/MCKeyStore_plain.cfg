SPECIFICATION Spec
CONSTANTS
    Commands = {c1, c2}
    Names = {n1, n2}
    Passwords = {pw1, pw2}
INVARIANTS
    NoPlainKey
SYMMETRY Symmetric
CHECK_DEADLOCK FALSE
