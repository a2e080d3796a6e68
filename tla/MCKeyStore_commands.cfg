SPECIFICATION Spec
CONSTANTS
    Commands = {c1, c2, c3}
    Names = {n1, n2}
    Passwords = {pw1, pw2}
INVARIANTS
    TypeOK
    OneKeyOpensAll
    KeysSurvive
PROPERTIES
    StaysEncrypted
SYMMETRY Symmetric
CHECK_DEADLOCK FALSE
