----------------------------- MODULE MCSaveFile -----------------------------
(***************************************************************************)
(* Small instances of SaveFile.  The documents are one and two blocks      *)
(* long: a shorter one written over a longer one is the case that leaves a *)
(* mixture.                                                                *)
(***************************************************************************)
EXTENDS SaveFile, TLC

CONSTANTS short, long

MCSize == [d \in Docs |-> IF d = short THEN 1 ELSE 2]

\* Writers differ in nothing but their names.
Symmetric == Permutations(Writers)

=============================================================================
