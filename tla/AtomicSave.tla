------------------------------ MODULE AtomicSave ------------------------------
(***************************************************************************)
(* What a caller of SaveOutbox or SaveKeyStore counts on: a save that says *)
(* ok has replaced the whole file, one that returns an error has changed   *)
(* nothing, and a power loss leaves a complete document, the current one   *)
(* or the one the disk held last.  Outbox's Save(ob) is this, seen by a    *)
(* process that is alone in saving.                                        *)
(***************************************************************************)
CONSTANTS Writers, Docs

VARIABLES
    value,    \* the document a reader gets
    durable,  \* the document a power loss leaves
    saving,   \* what each writer is saving, or "nothing"
    result    \* how each writer's last save returned

vars == <<value, durable, saving, result>>

Init ==
    /\ value \in Docs
    /\ durable = value
    /\ saving = [p \in Writers |-> "nothing"]
    /\ result = [p \in Writers |-> "none"]

Begin(p, d) ==
    /\ saving[p] = "nothing"
    /\ saving' = [saving EXCEPT ![p] = d]
    /\ result' = [result EXCEPT ![p] = "none"]
    /\ UNCHANGED <<value, durable>>

Refuse(p) ==
    /\ saving[p] = "nothing"
    /\ result' = [result EXCEPT ![p] = "error"]
    /\ UNCHANGED <<value, durable, saving>>

Return(p, r) ==
    /\ saving[p] # "nothing"
    /\ saving' = [saving EXCEPT ![p] = "nothing"]
    /\ result' = [result EXCEPT ![p] = r]

Commit(p) == Return(p, "ok") /\ value' = saving[p] /\ UNCHANGED durable
Abort(p)  == Return(p, "error") /\ UNCHANGED <<value, durable>>

Flush == durable' = value /\ UNCHANGED <<value, saving, result>>

Crash(p) ==
    /\ saving' = [saving EXCEPT ![p] = "nothing"]
    /\ UNCHANGED <<value, durable, result>>

PowerLoss ==
    /\ value' = durable
    /\ saving' = [p \in Writers |-> "nothing"]
    /\ result' = [p \in Writers |-> "none"]
    /\ UNCHANGED durable

Next ==
    \/ \E p \in Writers :
          \/ \E d \in Docs : Begin(p, d)
          \/ Refuse(p) \/ Commit(p) \/ Abort(p) \/ Crash(p)
    \/ Flush
    \/ PowerLoss

Spec == Init /\ [][Next]_vars

=============================================================================
