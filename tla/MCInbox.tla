------------------------------- MODULE MCInbox -------------------------------
(***************************************************************************)
(* Small instances of module Inbox.                                        *)
(***************************************************************************)
EXTENDS Inbox, TLC

CONSTANTS o1,      \* sent by this identity to itself
          p1, p2,  \* sent by others
          r1, r2

\* Relays are interchangeable.  Only for runs without liveness properties.
Symmetric == Permutations(Relays)

=============================================================================
