------------------------------ MODULE MCDatabase ------------------------------
(***************************************************************************)
(* Two shells and two goroutines.  A behaviour does the jobs of one        *)
(* workload: those that meet in the same rows.                             *)
(***************************************************************************)
EXTENDS Database, TLC

MCWorkloads ==
    {{"create", "add-member", "leave"},
     {"msg", "tamper"},
     {"msg", "peer", "receive", "inbox"},
     {"reply", "receive", "inbox"},
     {"msg", "retry", "migrate"},
     {"chat", "send", "msg"},
     {"publish", "discover"}}

\* messages.json is looked at in two of them, and stamps in one, without that file.
MCInit ==
    /\ Init
    /\ workload \cap {"migrate", "chat"} # {} \/ file = "none"
    /\ ("chat" \in workload /\ file = "none") \/ created = [id \in Numbers |-> 1]

MCSpec == MCInit /\ [][Next]_vars

Symmetry == Permutations(Shells) \cup Permutations(Workers) \cup Permutations(Legacy)
=============================================================================
