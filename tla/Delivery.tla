------------------------------ MODULE Delivery ------------------------------
(***************************************************************************)
(* What the outbox promises about each message, without files, processes   *)
(* or retries.  A message that has been queued is delivered, given up or   *)
(* removed, and never simply gone; a message that was given up may still   *)
(* be delivered by hand; delivered and removed are final.                  *)
(***************************************************************************)
CONSTANT Msgs

VARIABLE fate   \* of each message

Fates == {"new", "queued", "delivered", "givenup", "removed"}

\* Messages found in the queue at the start are queued.
Init == fate \in [Msgs -> {"new", "queued"}]

Move(S, from, to) ==
    /\ \A m \in S : fate[m] \in from
    /\ fate' = [m \in Msgs |-> IF m \in S THEN to ELSE fate[m]]

Queue(m)   == Move({m}, {"new"}, "queued")
Deliver(m) == Move({m}, {"new", "queued", "givenup"}, "delivered")

\* One save may publish several entries' verdicts: those of attempts whose
\* own save failed are still in the copy it writes.
GiveUp(S)  == Move(S, {"queued"}, "givenup")
Remove(S)  == Move(S, {"queued", "givenup"}, "removed")

Next ==
    \/ \E m \in Msgs : Queue(m) \/ Deliver(m)
    \/ \E S \in SUBSET Msgs : GiveUp(S) \/ Remove(S)

Spec == Init /\ [][Next]_fate

=============================================================================
