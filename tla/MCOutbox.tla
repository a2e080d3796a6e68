------------------------------ MODULE MCOutbox ------------------------------
(***************************************************************************)
(* Small instances of Outbox for TLC.  The retry budget is 2 instead of 10 *)
(* and clear's threshold 1 instead of 5; both sides of every comparison    *)
(* still occur.                                                            *)
(***************************************************************************)
EXTENDS Outbox

=============================================================================
