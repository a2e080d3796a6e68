------------------------------ MODULE MCKeyStore ------------------------------
(***************************************************************************)
(* Small instances of module KeyStore.                                     *)
(***************************************************************************)
EXTENDS KeyStore, TLC

\* Commands, nicknames and passwords are interchangeable.
Symmetric == Permutations(Commands) \cup Permutations(Names) \cup Permutations(Passwords)

=============================================================================
