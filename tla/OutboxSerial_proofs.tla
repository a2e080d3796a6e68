------------------------- MODULE OutboxSerial_proofs -------------------------
(***************************************************************************)
(* What else holds of Outbox while load-to-save windows do not overlap:    *)
(* entries that left the file stay out of it, the outbox implements        *)
(* Delivery, and, as long as nothing crashes or fails, no message is sent  *)
(* twice and no entry rests with its retries used up.                      *)
(*                                                                         *)
(* The argument: the copy of the one process between load and save follows *)
(* the file.  It lists nothing the file does not list, and of a message    *)
(* that was not acknowledged it says what the file says, except that a     *)
(* "failed" may not have reached the file.  So whatever is saved next      *)
(* moves every message along in the order Delivery allows.                 *)
(***************************************************************************)
EXTENDS OutboxLoss_proofs

\* ob may be saved over the file when the messages in A are acknowledged.
Follows(ob, file, A) ==
    \A m \in Msgs :
        /\ Present(ob, m) => Present(file, m)
        /\ m \notin A => \/ ob[m].status = file[m].status
                         \/ file[m].status = "pending" /\ ob[m].status = "failed"

\* Places with a copy that nothing has been done to since its load.
Untouched == {"clean", "confirm", "unqueue", "enqueue"}

FollowInv ==
    \A p \in Procs :
        /\ pc[p] \in Holding => Follows(snap[p], disk, acked)
        /\ pc[p] \in Untouched => snap[p] = disk

\* Before a message is queued it has no entry, and no acknowledgement but that
\* of its own `agent msg`.
QueuedInv ==
    /\ \A m \in Msgs : Present(disk, m) => m \in queued
    /\ dropped \subseteq queued
    /\ \A m \in Fresh : m \in queued => pc[m] = "done"
    /\ \A m \in Fresh : pc[m] \in {"ready", "loadadd", "enqueue"} => m \notin acked

SerialInv == AllInv /\ FollowInv /\ QueuedInv

(* What a step does to the file and to the sets of messages.               *)

Idles == UNCHANGED <<disk, acked, queued, dropped>>

\* A relay says OK to a message that is queued, or to one that was never.
Acks(m) ==
    /\ acked' = acked \cup {m}
    /\ UNCHANGED <<disk, queued, dropped>>
    /\ Present(disk, m) \/ (m \in Fresh /\ pc[m] = "ready")

\* An attempt, or `agent msg` after an OK, saves its copy.
Writes(ob) ==
    /\ disk' = ob
    /\ Follows(ob, disk, acked)
    /\ UNCHANGED <<acked, queued, dropped>>

Enqueues(m) ==
    /\ m \in Fresh /\ pc[m] = "enqueue"
    /\ disk' = Added(disk, m)
    /\ queued' = queued \cup {m}
    /\ UNCHANGED <<acked, dropped>>

\* The cleanup or the user takes entries out.
Drops(S) ==
    /\ \A m \in S : Present(disk, m)
    /\ disk' = Without(disk, S)
    /\ dropped' = dropped \cup S
    /\ UNCHANGED <<acked, queued>>

Effect ==
    \/ Idles
    \/ \E m \in Msgs : Acks(m) \/ Enqueues(m)
    \/ \E ob \in Copies : Writes(ob)
    \/ \E S \in SUBSET Msgs : Drops(S)

-----------------------------------------------------------------------------
(* Copies that follow the file.                                            *)

\* The operations of an attempt keep a copy behind the file.
LEMMA OperationFollows ==
    ASSUME NEW ob \in Copies, NEW file \in Copies, NEW m \in Msgs, NEW A,
           Follows(ob, file, A), Earned(ob, A), Only(ob, m)
    PROVE  /\ m \in A => Follows(WithStatus(ob, m, "sent"), file, A)
           /\ m \in A => Follows(Removed(ob, m), file, A)
           /\ Follows(WithStatus(ob, m, "failed"), file, A)
           /\ Follows(WithRetry(ob, m), file, A)
<1>1. \A n \in Msgs : ob[n] \in Entry /\ file[n] \in Entry
  BY DEF Copies
<1>2. /\ \A n \in Msgs, s \in {"sent", "failed"} :
            WithStatus(ob, m, s)[n].status = IF n = m THEN s ELSE ob[n].status
      /\ \A n \in Msgs : WithRetry(ob, m)[n].status = ob[n].status
  BY <1>1 DEF WithStatus, WithRetry, Copies, Entry
<1>3. \A n \in Msgs : Removed(ob, m)[n].status = IF n = m THEN "absent" ELSE ob[n].status
  <2>1. ~Duplicated(ob, m)
    BY DEF Only
  <2>2. \A n \in Msgs : n # m /\ SameId(m, n) => ob[n].status = "absent"
    BY <2>1 DEF Only, Duplicated, Present
  <2>3. \A n \in Msgs : Removed(ob, m)[n] = IF SameId(m, n) THEN Absent ELSE ob[n]
    BY <2>1 DEF Removed
  <2>4. Absent.status = "absent" /\ SameId(m, m)
    BY DEF Absent, SameId
  <2> QED
    BY <2>2, <2>3, <2>4
<1>4. ob[m].status # "absent"
  BY DEF Only, Present
<1>5. m \in A => Follows(WithStatus(ob, m, "sent"), file, A)
  BY <1>2, <1>4 DEF Follows, Present
<1>6. m \in A => Follows(Removed(ob, m), file, A)
  BY <1>3 DEF Follows, Present
<1>7. Follows(WithRetry(ob, m), file, A)
  BY <1>2 DEF Follows, Present
<1>8. Follows(WithStatus(ob, m, "failed"), file, A)
  <2> DEFINE new == WithStatus(ob, m, "failed")
  <2>1. Present(file, m) /\ \A n \in Msgs : Present(new, n) => Present(ob, n)
    BY <1>2, <1>4 DEF Follows, Present
  <2>2. m \notin A => file[m].status \in {"pending", "failed"}
    <3>1. m \notin A => ob[m].status \in {"pending", "failed"}
      BY <1>1, <1>4 DEF Earned, Entry
    <3> QED
      BY <3>1 DEF Follows
  <2>3. \A n \in Msgs : new[n].status = IF n = m THEN "failed" ELSE ob[n].status
    BY <1>2
  <2> HIDE DEF new
  <2>4. ASSUME NEW n \in Msgs
        PROVE  /\ Present(new, n) => Present(file, n)
               /\ n \notin A => \/ new[n].status = file[n].status
                                \/ file[n].status = "pending" /\ new[n].status = "failed"
    <3>1. CASE n = m
      BY <2>1, <2>2, <2>3, <3>1 DEF Present
    <3>2. CASE n # m
      BY <2>1, <2>3, <3>2 DEF Follows
    <3> QED
      BY <3>1, <3>2
  <2> QED
    BY <2>4 DEF Follows, new
<1> QED
  BY <1>5, <1>6, <1>7, <1>8

\* What is acknowledged later takes nothing from a copy that follows the file.
LEMMA MoreFollows ==
    ASSUME NEW ob, NEW file, NEW A, NEW B, A \subseteq B, Follows(ob, file, A)
    PROVE  Follows(ob, file, B)
BY DEF Follows

\* The file follows itself.
LEMMA FileFollows ==
    ASSUME NEW file, NEW A
    PROVE  Follows(file, file, A)
BY DEF Follows

\* A save of a copy that follows the file leaves it following the file.
LEMMA SaveFollows ==
    ASSUME NEW ob, NEW A, Follows(ob, disk, A), Save(ob)
    PROVE  Follows(ob, disk', A)
BY FileFollows DEF Save

\* Initially nobody holds a copy, and what is queued is in the file.
LEMMA InitSerial == Init => SerialInv
<1> SUFFICES ASSUME Init PROVE SerialInv
  OBVIOUS
<1>1. AllInv
  BY InitTypes, InitEarned, InitKeeps DEF AllInv
<1>2. \A p \in Procs : pc[p] \in {"idle", "ready"}
  BY DEF Init
<1>3. {"idle", "ready"} \cap (Holding \cup Untouched) = {}
  BY DEF Holding, Sending, Untouched
<1>4. FollowInv
  BY <1>2, <1>3 DEF FollowInv
<1>5. QueuedInv
  BY MsgsAssumption DEF Init, QueuedInv
<1> QED
  BY <1>1, <1>4, <1>5 DEF SerialInv

-----------------------------------------------------------------------------
(* What each step does.                                                    *)

\* The steps of AttemptSend acknowledge the entry, or save a copy that follows.
LEMMA AttemptEffect ==
    ASSUME SerialInv, NEW p \in Procs, AttemptSend(p)
    PROVE  /\ Effect
           /\ pc'[p] \in Holding => Follows(snap'[p], disk', acked')
           /\ pc'[p] \notin Untouched
<1> USE DEF SerialInv, AllInv
<1> DEFINE m  == cur[p]
           ob == snap[p]
<1>1. pc[p] \in Sending /\ pc[p] \in Holding
  BY DEF AttemptSend, PublishAcked, PublishFailed, MarkSent, Unlist,
         StoreSent, RaiseRetry, GiveUp, Sending, Holding
<1>2. m \in Msgs /\ ob \in Copies /\ disk \in Copies /\ Earned(ob, acked)
  BY <1>1 DEF TypeInv, TypeOK, Aims, Copies, EarnedInv
<1>3. Follows(ob, disk, acked)
  BY <1>1 DEF FollowInv
<1>4. pc[p] \in Attempting => Only(ob, m)
  BY DEF KeepInv
<1>5. /\ pc' = [pc EXCEPT ![p] = pc'[p]]
      /\ pc'[p] \in {"sent", "raise", "remove", "store", "giveup", "pass", "done"}
  BY DEF AttemptSend, PublishAcked, PublishFailed, MarkSent, Unlist,
         StoreSent, RaiseRetry, GiveUp, Resume, Goto, TypeInv, TypeOK
<1>6. pc'[p] \notin Untouched
  BY <1>5 DEF Untouched
<1>7. "done" \notin Holding
  BY DEF Holding, Sending
<1>8. ASSUME NEW new \in Copies, Follows(new, disk, acked), Save(new) \/ UNCHANGED disk,
             UNCHANGED <<acked, queued, dropped>>,
             snap'[p] = new \/ pc'[p] = "done"
      PROVE  Effect /\ (pc'[p] \in Holding => Follows(snap'[p], disk', acked'))
  <2>1. Follows(new, disk', acked')
    BY <1>8, SaveFollows
  <2>2. Writes(new) \/ Idles
    BY <1>8 DEF Writes, Idles, Save
  <2> QED
    BY <1>7, <1>8, <2>1, <2>2 DEF Effect
<1>9. ASSUME NEW new, Resume(p, new) PROVE snap'[p] = new \/ pc'[p] = "done"
  BY <1>9 DEF Resume, Goto, TypeInv, TypeOK
<1>10. CASE PublishAcked(p)
  <2>1. acked' = acked \cup {m} /\ UNCHANGED <<disk, snap, queued, dropped>> /\ pc[p] = "dial"
    BY <1>10 DEF PublishAcked, Acknowledge
  <2>2. Present(disk, m)
    BY <1>2, <1>3, <1>4, <2>1 DEF Attempting, Only, Follows
  <2>3. Acks(m)
    BY <2>1, <2>2 DEF Acks
  <2>4. Follows(snap'[p], disk', acked')
    BY <1>3, <2>1, MoreFollows
  <2> QED
    BY <1>2, <1>6, <2>3, <2>4 DEF Effect
<1>11. CASE PublishFailed(p)
  BY <1>2, <1>3, <1>6, <1>8, <1>11 DEF PublishFailed, observed
<1>12. CASE MarkSent(p)
  <2>1. /\ Save(WithStatus(ob, m, "sent")) /\ UNCHANGED <<acked, queued, dropped>>
        /\ snap'[p] = WithStatus(ob, m, "sent")
        /\ pc[p] = "sent"
    BY <1>12 DEF MarkSent, observed, TypeInv, TypeOK
  <2>2. m \in acked /\ Only(ob, m)
    BY <1>4, <2>1 DEF EarnedInv, Attempting
  <2> QED
    BY <1>2, <1>3, <1>6, <1>8, <2>1, <2>2, OperationTypes, OperationFollows
<1>13. CASE Unlist(p)
  <2>1. /\ Save(Removed(ob, m)) /\ UNCHANGED <<acked, queued, dropped>>
        /\ snap'[p] = Removed(ob, m)
        /\ pc[p] = "remove"
    BY <1>13 DEF Unlist, observed, TypeInv, TypeOK
  <2>2. m \in acked /\ Only(ob, m)
    BY <1>4, <2>1 DEF EarnedInv, Attempting
  <2> QED
    BY <1>2, <1>3, <1>6, <1>8, <2>1, <2>2, OperationTypes, OperationFollows
<1>14. CASE StoreSent(p)
  BY <1>2, <1>3, <1>6, <1>8, <1>9, <1>14 DEF StoreSent, observed
<1>15. CASE RaiseRetry(p)
  <2>1. /\ Save(WithRetry(ob, m)) /\ UNCHANGED <<acked, queued, dropped>>
        /\ pc[p] = "raise"
    BY <1>15 DEF RaiseRetry, observed
  <2>2. snap'[p] = WithRetry(ob, m) \/ pc'[p] = "done"
    BY <1>9, <1>15 DEF RaiseRetry, TypeInv, TypeOK
  <2>3. Only(ob, m)
    BY <1>4, <2>1 DEF Attempting
  <2> QED
    BY <1>2, <1>3, <1>6, <1>8, <2>1, <2>2, <2>3, OperationTypes, OperationFollows
<1>16. CASE GiveUp(p)
  <2>1. /\ Save(WithStatus(ob, m, "failed")) /\ UNCHANGED <<acked, queued, dropped>>
        /\ pc[p] = "giveup"
    BY <1>16 DEF GiveUp, observed
  <2>2. snap'[p] = WithStatus(ob, m, "failed") \/ pc'[p] = "done"
    BY <1>9, <1>16 DEF GiveUp
  <2>3. Only(ob, m)
    BY <1>4, <2>1 DEF Attempting
  <2> QED
    BY <1>2, <1>3, <1>6, <1>8, <2>1, <2>2, <2>3, OperationTypes, OperationFollows
<1> QED
  BY <1>10, <1>11, <1>12, <1>13, <1>14, <1>15, <1>16 DEF AttemptSend

Unsent == {"ready", "loadadd", "enqueue"}

\* One process moves and leaves SerialInv's facts about copies and places true.
Tidy(p) ==
    /\ pc' = [pc EXCEPT ![p] = pc'[p]]
    /\ snap' = [snap EXCEPT ![p] = snap'[p]]
    /\ disk' = disk \/ pc[p] \in Holding
    /\ pc'[p] \in Holding => Follows(snap'[p], disk', acked')
    /\ pc'[p] \in Untouched => snap'[p] = disk'
    /\ p \in Fresh => /\ pc[p] = "done" => pc'[p] = "done"
                      /\ pc'[p] \in Unsent => pc[p] \in Unsent
    /\ queued' \subseteq queued \cup {p} /\ (queued' # queued => pc'[p] = "done")
    /\ \A m \in acked' \cap Fresh :
          m \in acked \/ m \in queued \/ (m = p /\ pc'[p] = "record")

\* After the step the file lists only queued messages, and nothing was forgotten.
ListsQueued ==
    /\ \A m \in Msgs : Present(disk', m) => m \in queued'
    /\ dropped' \subseteq queued'
    /\ queued \subseteq queued' /\ acked \subseteq acked'

\* Whatever a step does, the file lists only queued messages.
LEMMA EffectQueued == SerialInv /\ Effect => ListsQueued
<1> SUFFICES ASSUME SerialInv, Effect PROVE ListsQueued
  OBVIOUS
<1> USE DEF SerialInv, AllInv, ListsQueued
<1>1. /\ \A m \in Msgs : Present(disk, m) => m \in queued
      /\ dropped \subseteq queued
  BY DEF QueuedInv
<1>2. disk \in Copies
  BY DEF TypeInv, TypeOK, Copies
<1>3. CASE Idles
  BY <1>1, <1>3 DEF Idles
<1>4. ASSUME NEW m \in Msgs, Acks(m) PROVE ListsQueued
  BY <1>1, <1>4 DEF Acks
<1>5. ASSUME NEW m \in Msgs, Enqueues(m) PROVE ListsQueued
  <2>1. \A n \in Msgs : n # m => Added(disk, m)[n] = disk[n]
    BY <1>2 DEF Added, Copies
  <2> QED
    BY <1>1, <1>5, <2>1 DEF Enqueues, Present
<1>6. ASSUME NEW ob \in Copies, Writes(ob) PROVE ListsQueued
  BY <1>1, <1>6 DEF Writes, Follows
<1>7. ASSUME NEW S \in SUBSET Msgs, Drops(S) PROVE ListsQueued
  <2>1. \A m \in Msgs : Present(disk', m) => Present(disk, m)
    BY <1>7 DEF Drops, Without, Present, Absent
  <2> QED
    BY <1>1, <1>7, <2>1 DEF Drops
<1> QED
  BY <1>3, <1>4, <1>5, <1>6, <1>7 DEF Effect

\* The copies follow the file after such a step, too.
LEMMA TidyKeeps ==
    ASSUME SerialInv, Effect, NEW p \in Procs, Tidy(p)
    PROVE  FollowInv' /\ QueuedInv'
<1> USE DEF SerialInv, AllInv
<1>1. \A q \in Procs : q # p => pc'[q] = pc[q] /\ snap'[q] = snap[q]
  BY DEF Tidy, TypeInv, TypeOK
<1>2. acked \subseteq acked' /\ queued \subseteq queued'
  BY EffectQueued DEF ListsQueued
<1>3. Untouched \subseteq Holding
  BY DEF Untouched, Holding
<1>4. ASSUME NEW q \in Procs
      PROVE  /\ pc'[q] \in Holding => Follows(snap'[q], disk', acked')
             /\ pc'[q] \in Untouched => snap'[q] = disk'
  <2>1. CASE q = p
    BY <2>1 DEF Tidy
  <2>2. CASE q # p /\ pc[q] \in Holding
    <3>1. disk' = disk
      BY <2>2 DEF Tidy, KeepInv
    <3>2. Follows(snap[q], disk, acked) /\ (pc[q] \in Untouched => snap[q] = disk)
      BY <2>2 DEF FollowInv
    <3>3. Follows(snap[q], disk, acked')
      BY <1>2, <3>2, MoreFollows
    <3> QED
      BY <1>1, <2>2, <3>1, <3>2, <3>3
  <2>3. CASE q # p /\ pc[q] \notin Holding
    BY <1>1, <1>3, <2>3
  <2> QED
    BY <2>1, <2>2, <2>3
<1>5. FollowInv'
  BY <1>4 DEF FollowInv
<1>6. Fresh \subseteq Procs
  BY DEF Procs
<1>7. ASSUME NEW m \in Fresh, m \in queued' PROVE pc'[m] = "done"
  <2>1. m \in queued => pc[m] = "done"
    BY DEF QueuedInv
  <2> QED
    BY <1>1, <1>6, <1>7, <2>1 DEF Tidy
<1>8. ASSUME NEW m \in Fresh, pc'[m] \in Unsent PROVE m \notin acked'
  <2>1. pc[m] \in Unsent
    BY <1>1, <1>6, <1>8 DEF Tidy
  <2>2. m \notin acked /\ m \notin queued
    BY <2>1 DEF QueuedInv, Unsent
  <2> QED
    BY <1>8, <2>2 DEF Tidy, Unsent
<1>9. QueuedInv'
  BY <1>7, <1>8, EffectQueued DEF ListsQueued, QueuedInv, Unsent
<1> QED
  BY <1>5, <1>9

\* A step that only moves a process, loads, or releases a copy.
LEMMA PlainTidy ==
    ASSUME SerialInv, NEW p \in Procs, NEW place, NEW c,
           Goto(p, place), snap' = [snap EXCEPT ![p] = c], Idles,
           place \in Holding => c = disk \/ (c = snap[p] /\ pc[p] \in Holding),
           place \in Untouched => c = disk,
           p \in Fresh => /\ pc[p] = "done" => place = "done"
                          /\ place \in Unsent => pc[p] \in Unsent
    PROVE  Effect /\ Tidy(p)
<1>1. pc'[p] = place /\ snap'[p] = c
  BY DEF SerialInv, AllInv, TypeInv, TypeOK, Goto
<1>2. place \in Holding => Follows(c, disk', acked')
  BY FileFollows DEF SerialInv, FollowInv, Idles
<1> QED
  BY <1>1, <1>2 DEF Effect, Tidy, Goto, Idles

\* A step that takes entries out of a copy that is the file, and saves it.
LEMMA DropTidy ==
    ASSUME SerialInv, NEW p \in Procs \ Fresh, pc[p] \in Untouched,
           NEW gone \in SUBSET Msgs, \A m \in gone : Present(snap[p], m),
           Save(Without(snap[p], gone)),
           dropped' = IF disk' = Without(snap[p], gone) THEN dropped \cup gone ELSE dropped,
           NEW place \in {"idle", "done"}, Goto(p, place),
           snap' = [snap EXCEPT ![p] = Empty],
           UNCHANGED <<acked, queued>>
    PROVE  Effect /\ Tidy(p)
<1>1. snap[p] = disk /\ pc[p] \in Holding
  BY DEF SerialInv, FollowInv, Untouched, Holding
<1>2. pc'[p] = place /\ snap'[p] = Empty /\ place \notin Holding \cup Untouched
  BY DEF SerialInv, AllInv, TypeInv, TypeOK, Goto, Holding, Sending, Untouched
<1>3. ASSUME disk' = Without(snap[p], gone) PROVE Effect
  <2>1. disk' = Without(disk, gone) /\ \A m \in gone : Present(disk, m)
    BY <1>1, <1>3 DEF Without, Present
  <2>2. Drops(gone)
    BY <1>3, <2>1 DEF Drops
  <2> QED
    BY <2>2 DEF Effect
<1>4. ASSUME disk' # Without(snap[p], gone) PROVE Effect
  BY <1>4 DEF Effect, Idles, Save
<1>5. Tidy(p)
  BY <1>1, <1>2 DEF Tidy, Goto
<1> QED
  BY <1>3, <1>4, <1>5

\* An attempt is such a move.
LEMMA AttemptTidy ==
    ASSUME SerialInv, NEW p \in Procs, AttemptSend(p)
    PROVE  Effect /\ Tidy(p)
<1>1. /\ Effect
      /\ pc'[p] \in Holding => Follows(snap'[p], disk', acked')
      /\ pc'[p] \notin Untouched
  BY AttemptEffect
<1>2. pc[p] \in Holding /\ UNCHANGED <<queued, dropped>>
  BY DEF AttemptSend, PublishAcked, PublishFailed, MarkSent, Unlist,
         StoreSent, RaiseRetry, GiveUp, Holding, Sending, Acknowledge, observed
<1>3. /\ pc' = [pc EXCEPT ![p] = pc'[p]]
      /\ pc'[p] \notin Unsent
      /\ pc[p] # "done"
  BY DEF AttemptSend, PublishAcked, PublishFailed, MarkSent, Unlist,
         StoreSent, RaiseRetry, GiveUp, Resume, Goto, Unsent, SerialInv, AllInv, TypeInv, TypeOK
<1>4. snap' = [snap EXCEPT ![p] = snap'[p]]
  BY DEF AttemptSend, PublishAcked, PublishFailed, MarkSent, Unlist,
         StoreSent, RaiseRetry, GiveUp, Resume, SerialInv, AllInv, TypeInv, TypeOK
<1>5. \A m \in acked' \cap Fresh : m \in acked \/ m \in queued
  <2>1. CASE PublishAcked(p)
    <3>1. pc[p] = "dial" /\ acked' = acked \cup {cur[p]}
      BY <2>1 DEF PublishAcked, Acknowledge
    <3>2. /\ cur[p] \in Msgs /\ Only(snap[p], cur[p]) /\ Follows(snap[p], disk, acked)
      BY <1>2, <3>1 DEF SerialInv, AllInv, KeepInv, FollowInv, TypeInv, Aims, Attempting, Sending
    <3>3. cur[p] \in queued
      BY <3>2 DEF Only, Follows, SerialInv, QueuedInv
    <3> QED
      BY <3>1, <3>3
  <2>2. CASE ~PublishAcked(p)
    BY <2>2 DEF AttemptSend, PublishFailed, MarkSent, Unlist, StoreSent, RaiseRetry,
       GiveUp, observed
  <2> QED
    BY <2>1, <2>2
<1> QED
  BY <1>1, <1>2, <1>3, <1>4, <1>5 DEF Tidy

\* The daemon's steps.
LEMMA DaemonTidy ==
    ASSUME SerialInv, DaemonStep
    PROVE  Effect /\ Tidy(Daemon)
<1> USE DEF SerialInv, AllInv
<1>1. Daemon \in Procs \ Fresh
  BY ProcsAssumption DEF Procs
<1>2. /\ {"pass", "dial"} \subseteq Holding \ Untouched
      /\ "clean" \in Holding
      /\ "idle" \notin Holding \cup Untouched
  BY DEF Holding, Sending, Untouched
<1>3. snap = [snap EXCEPT ![Daemon] = snap[Daemon]] /\ (pc' = pc => Goto(Daemon, pc[Daemon]))
  BY DEF TypeInv, TypeOK, Goto
<1>4. CASE PassBegin \/ CleanBegin
  <2>1. PICK place \in {"pass", "clean"} : Goto(Daemon, place)
    BY <1>4 DEF PassBegin, CleanBegin
  <2>2. snap' = [snap EXCEPT ![Daemon] = disk] /\ Idles
    BY <1>4 DEF PassBegin, CleanBegin, Load, Idles, observed
  <2> QED
    BY <1>1, <2>1, <2>2, PlainTidy
<1>5. CASE \E m \in Msgs : PassOver(m) \/ PassSend(m)
  <2>1. PICK place \in {"pass", "dial"} : Goto(Daemon, place)
    BY <1>3, <1>5 DEF PassOver, PassSend
  <2>2. snap' = [snap EXCEPT ![Daemon] = snap[Daemon]] /\ Idles /\ pc[Daemon] = "pass"
    BY <1>3, <1>5 DEF PassOver, PassSend, Idles, observed
  <2> QED
    BY <1>1, <1>2, <2>1, <2>2, PlainTidy
<1>6. CASE PassEnd \/ Restart
  <2>1. PICK c : snap' = [snap EXCEPT ![Daemon] = c]
    BY <1>3, <1>6 DEF PassEnd, Restart
  <2>2. Goto(Daemon, "idle") /\ Idles
    BY <1>6 DEF PassEnd, Restart, Idles, observed
  <2> QED
    BY <1>1, <1>2, <2>1, <2>2, PlainTidy
<1>7. CASE CleanSave
  <2>1. PICK old \in SUBSET {m \in Msgs : snap[Daemon][m].status \in {"sent", "failed"}} :
            /\ Save(Without(snap[Daemon], old))
            /\ dropped' = IF disk' = Without(snap[Daemon], old) THEN dropped \cup old ELSE dropped
    BY <1>7 DEF CleanSave
  <2>2. /\ pc[Daemon] = "clean" /\ Goto(Daemon, "idle")
        /\ snap' = [snap EXCEPT ![Daemon] = Empty] /\ UNCHANGED <<acked, queued>>
    BY <1>7 DEF CleanSave
  <2>3. \A m \in old : Present(snap[Daemon], m)
    BY <2>1 DEF Present
  <2>4. pc[Daemon] \in Untouched /\ old \in SUBSET Msgs
    BY <2>1, <2>2 DEF Untouched
  <2> QED
    BY <1>1, <2>1, <2>2, <2>3, <2>4, DropTidy
<1>8. CASE AttemptSend(Daemon)
  BY <1>1, <1>8, AttemptTidy
<1> QED
  BY <1>4, <1>5, <1>6, <1>7, <1>8 DEF DaemonStep

\* The steps of the retry and clear commands.
LEMMA CommandTidy ==
    ASSUME SerialInv, NEW p \in RetryCmds \cup ClearCmds, RetryStep(p) \/ ClearStep(p)
    PROVE  Effect /\ Tidy(p)
<1>1. p \in Procs \ Fresh
  BY ProcsAssumption DEF Procs
<1>2. /\ "confirm" \in Untouched /\ "dial" \notin Untouched
      /\ "done" \notin Holding \cup Untouched
  BY DEF Holding, Sending, Untouched
<1>3. CASE AttemptSend(p)
  BY <1>1, <1>3, AttemptTidy
<1>4. CASE ClearBegin(p) \/ \E m \in Msgs : RetryBegin(p, m)
  <2>1. PICK place \in {"confirm", "dial"} : Goto(p, place)
    BY <1>4 DEF ClearBegin, RetryBegin
  <2>2. snap' = [snap EXCEPT ![p] = disk] /\ Idles
    BY <1>4 DEF ClearBegin, RetryBegin, Load, Idles, observed
  <2> QED
    BY <1>1, <2>1, <2>2, PlainTidy
<1>5. CASE ClearAnswer(p)
  <2> DEFINE gone == Clearable(snap[p])
  <2>1. /\ pc[p] \in Untouched /\ Goto(p, "done")
        /\ snap' = [snap EXCEPT ![p] = Empty] /\ UNCHANGED <<acked, queued>>
    BY <1>2, <1>5 DEF ClearAnswer
  <2>2. gone \in SUBSET Msgs /\ \A m \in gone : Present(snap[p], m)
    BY DEF Clearable
  <2>3. CASE /\ Save(Without(snap[p], gone))
             /\ dropped' = IF disk' = Without(snap[p], gone) THEN dropped \cup gone ELSE dropped
    <3> HIDE DEF gone
    <3> QED
      BY <1>1, <2>1, <2>2, <2>3, DropTidy
  <2>4. CASE UNCHANGED <<disk, dropped>>
    <3>1. Idles
      BY <2>1, <2>4 DEF Idles
    <3> QED
      BY <1>1, <1>2, <2>1, <3>1, PlainTidy
  <2> QED
    BY <1>5, <2>3, <2>4 DEF ClearAnswer
<1> QED
  BY <1>3, <1>4, <1>5 DEF RetryStep, ClearStep

\* The steps of `agent msg`.
LEMMA SenderTidy ==
    ASSUME SerialInv, NEW m \in Fresh, SendStep(m)
    PROVE  Effect /\ Tidy(m)
<1> USE DEF SerialInv, AllInv
<1>1. m \in Procs /\ m \in Msgs
  BY DEF Procs, Msgs
<1>2. /\ {"record", "loadrm", "loadadd", "done"} \cap (Holding \cup Untouched) = {}
      /\ {"unqueue", "enqueue"} \subseteq Untouched \cap Holding
  BY DEF Holding, Sending, Untouched
<1>3. snap = [snap EXCEPT ![m] = snap[m]] /\ pc \in [Procs -> Places]
  BY DEF TypeInv, TypeOK
<1>4. CASE SendAcked(m)
  <2>1. /\ pc[m] = "ready" /\ acked' = acked \cup {m} /\ Goto(m, "record")
        /\ UNCHANGED <<disk, snap, queued, dropped>>
    BY <1>4 DEF SendAcked, Acknowledge
  <2>2. Effect
    BY <1>1, <2>1 DEF Effect, Acks
  <2>3. pc'[m] = "record"
    BY <1>1, <1>3, <2>1 DEF Goto
  <2>4. Tidy(m)
    BY <1>2, <1>3, <2>1, <2>3 DEF Tidy, Goto, Unsent
  <2> QED
    BY <2>2, <2>4
<1>5. CASE SendFailed(m) \/ SendRecord(m)
  <2>1. PICK place \in {"loadadd", "loadrm"} :
            Goto(m, place) /\ (place = "loadadd" => pc[m] = "ready")
    BY <1>5 DEF SendFailed, SendRecord
  <2>2. pc[m] # "done" /\ snap' = [snap EXCEPT ![m] = snap[m]] /\ Idles
    BY <1>3, <1>5 DEF SendFailed, SendRecord, Idles, observed
  <2> QED
    BY <1>1, <1>2, <2>1, <2>2, PlainTidy DEF Unsent
<1>6. CASE SendLoad(m)
  <2>1. PICK place \in {"unqueue", "enqueue"} :
            Goto(m, place) /\ (place = "enqueue" => pc[m] = "loadadd")
    BY <1>6 DEF SendLoad
  <2>2. pc[m] # "done" /\ snap' = [snap EXCEPT ![m] = disk] /\ Idles
    BY <1>6 DEF SendLoad, Load, Idles, observed
  <2> QED
    BY <1>1, <1>2, <2>1, <2>2, PlainTidy DEF Unsent
<1>7. CASE SendSave(m)
  <2> DEFINE ob == IF pc[m] = "enqueue" THEN Added(snap[m], m) ELSE Removed(snap[m], m)
  <2>1. /\ pc[m] \in {"unqueue", "enqueue"} /\ Save(ob)
        /\ queued' = (IF pc[m] = "enqueue" /\ disk' = ob THEN queued \cup {m} ELSE queued)
        /\ snap' = [snap EXCEPT ![m] = Empty] /\ Goto(m, "done")
        /\ UNCHANGED <<acked, dropped>>
    BY <1>7 DEF SendSave
  <2>2. snap[m] = disk /\ pc[m] \in Holding /\ disk \in Copies
    BY <1>1, <1>2, <2>1 DEF FollowInv, TypeInv, TypeOK, Copies
  <2>3. ASSUME disk' = disk, queued' = queued PROVE Effect
    BY <2>1, <2>3 DEF Effect, Idles
  <2>4. ASSUME pc[m] = "enqueue", disk' = ob PROVE Effect
    <3>1. disk' = Added(disk, m)
      BY <2>2, <2>4 DEF Added
    <3>2. Enqueues(m)
      BY <2>1, <2>4, <3>1 DEF Enqueues
    <3> QED
      BY <1>1, <3>2 DEF Effect
  <2>5. ASSUME pc[m] = "unqueue", disk' = ob PROVE Effect
    <3>1. m \in acked
      BY <2>5 DEF KeepInv, Acking
    <3>2. \A n \in Msgs : SameId(m, n) => m = n
      BY MsgsAssumption DEF SameId
    <3>3. \A n \in Msgs : n # m => ob[n] = disk[n]
      BY <2>2, <2>5, <3>2 DEF Removed
    <3>4. Present(ob, m) => Present(disk, m)
      BY <1>1, <2>2, <2>5 DEF Removed, Present, Absent, SameId
    <3>5. Follows(ob, disk, acked)
      BY <3>1, <3>3, <3>4 DEF Follows, Present
    <3>6. ob \in Copies
      BY <1>1, <2>2, <2>5, OperationTypes
    <3>7. Writes(ob)
      BY <2>1, <2>5, <3>5 DEF Writes
    <3> HIDE DEF ob
    <3> QED
      BY <3>6, <3>7 DEF Effect
  <2> HIDE DEF ob
  <2>6. Effect
    BY <2>1, <2>3, <2>4, <2>5 DEF Save
  <2>7. pc'[m] = "done" /\ snap'[m] = Empty
    BY <1>1, <1>3, <2>1 DEF Goto, TypeInv, TypeOK
  <2>8. Tidy(m)
    <3>1. queued' \subseteq queued \cup {m}
      BY <2>1
    <3> QED
      BY <1>2, <2>1, <2>2, <2>7, <3>1 DEF Tidy, Goto, Unsent
  <2> QED
    BY <2>6, <2>8
<1> QED
  BY <1>4, <1>5, <1>6, <1>7 DEF SendStep

\* A crash gives the copy up.
LEMMA CrashTidy ==
    ASSUME SerialInv, NEW p \in Procs, Crash(p)
    PROVE  Effect /\ Tidy(p)
<1>1. PICK place \in {"down", "done"} : Goto(p, place) /\ pc[p] # "done"
  BY DEF Crash
<1>2. snap' = [snap EXCEPT ![p] = Empty] /\ Idles
  BY DEF Crash, Idles, observed
<1>3. {"down", "done"} \cap (Holding \cup Untouched \cup Unsent) = {}
  BY DEF Holding, Sending, Untouched, Unsent
<1> QED
  BY <1>1, <1>2, <1>3, PlainTidy

\* Every step has one of the effects, and keeps the invariant.
LEMMA StepEffect ==
    ASSUME ~Overlap, SerialInv, [Next]_vars
    PROVE  Effect /\ SerialInv'
<1>1. AllInv'
  BY StepKeeps DEF SerialInv
<1>2. /\ Daemon \in Procs /\ RetryCmds \subseteq Procs /\ ClearCmds \subseteq Procs
      /\ Fresh \subseteq Procs
  BY DEF Procs
<1>3. ASSUME NEW p \in Procs, Effect, Tidy(p) PROVE Effect /\ SerialInv'
  BY <1>1, <1>3, TidyKeeps DEF SerialInv
<1>4. CASE DaemonStep
  BY <1>2, <1>3, <1>4, DaemonTidy
<1>5. CASE \E p \in RetryCmds : RetryStep(p)
  BY <1>2, <1>3, <1>5, CommandTidy
<1>6. CASE \E p \in ClearCmds : ClearStep(p)
  BY <1>2, <1>3, <1>6, CommandTidy
<1>7. CASE \E m \in Fresh : SendStep(m)
  BY <1>2, <1>3, <1>7, SenderTidy
<1>8. CASE \E p \in Procs : Crash(p)
  BY <1>3, <1>8, CrashTidy
<1>9. CASE UNCHANGED vars
  <2>1. Effect
    BY <1>9 DEF Effect, Idles, vars
  <2>2. FollowInv' /\ QueuedInv'
    BY <1>9 DEF vars, SerialInv, FollowInv, QueuedInv
  <2> QED
    BY <1>1, <2>1, <2>2 DEF SerialInv
<1> QED
  BY <1>4, <1>5, <1>6, <1>7, <1>8, <1>9 DEF Next

-----------------------------------------------------------------------------
(* Out is out.                                                             *)

\* No step brings back an entry that left the file: not the save of a pass that
\* loaded it before, not a retry, not `agent msg`.
THEOREM NothingResurrected ==
    ASSUME ~Overlap
    PROVE  Spec => NoResurrection
<1>1. SerialInv /\ [Next]_vars => SerialInv'
  BY StepEffect
<1>2. ASSUME SerialInv, [Next]_vars, NEW m \in queued, ~Present(disk, m)
      PROVE  ~Present(disk', m)
  <2>1. Effect /\ m \in Msgs /\ disk \in Copies
    BY <1>2, StepEffect DEF SerialInv, AllInv, TypeInv, TypeOK, Copies
  <2>2. CASE UNCHANGED disk
    BY <1>2, <2>2
  <2>3. ASSUME NEW n \in Msgs, Enqueues(n) PROVE ~Present(disk', m)
    <3>1. n # m
      BY <1>2, <2>3 DEF Enqueues, SerialInv, QueuedInv
    <3> QED
      BY <1>2, <2>1, <2>3, <3>1 DEF Enqueues, Added, Present, Copies
  <2>4. ASSUME NEW ob \in Copies, Writes(ob) PROVE ~Present(disk', m)
    BY <1>2, <2>1, <2>4 DEF Writes, Follows
  <2>5. ASSUME NEW S \in SUBSET Msgs, Drops(S) PROVE ~Present(disk', m)
    BY <1>2, <2>1, <2>5 DEF Drops, Without, Present, Absent
  <2> QED
    BY <2>1, <2>2, <2>3, <2>4, <2>5 DEF Effect, Idles, Acks
<1>3. SerialInv /\ [Next]_vars =>
          [\A m \in queued : ~Present(disk, m) => ~Present(disk', m)]_vars
  BY <1>2
<1> QED
  BY InitSerial, <1>1, <1>3, PTL DEF Spec, NoResurrection

-----------------------------------------------------------------------------
(* The promise of Delivery.                                                *)

\* Fate, as a function of the file, the acknowledged and the dropped messages.
FateIn(file, A, D, m) ==
    CASE m \in A                                    -> "delivered"
      [] file[m].status = "pending" /\ m \notin A   -> "queued"
      [] file[m].status = "failed" /\ m \notin A    -> "givenup"
      [] ~Present(file, m) /\ m \in D \ A           -> "removed"
      [] OTHER                                      -> "new"

\* Of a message without an acknowledgement, the fate is what its entry says.
LEMMA FateCases ==
    ASSUME NEW file \in Copies, NEW A, NEW D, NEW m \in Msgs, Earned(file, A)
    PROVE  /\ m \in A => FateIn(file, A, D, m) = "delivered"
           /\ m \notin A =>
                 /\ file[m].status # "sent"
                 /\ file[m].status = "pending" => FateIn(file, A, D, m) = "queued"
                 /\ file[m].status = "failed"  => FateIn(file, A, D, m) = "givenup"
                 /\ ~Present(file, m) =>
                       FateIn(file, A, D, m) = IF m \in D THEN "removed" ELSE "new"
<1>1. m \notin A => file[m].status \in {"absent", "pending", "failed"}
  BY DEF Copies, Entry, Earned
<1>2. CASE m \in A
  BY <1>2 DEF FateIn
<1>3. CASE m \notin A /\ file[m].status = "pending"
  BY <1>3 DEF FateIn, Present
<1>4. CASE m \notin A /\ file[m].status = "failed"
  BY <1>4 DEF FateIn, Present
<1>5. CASE m \notin A /\ file[m].status = "absent"
  BY <1>5 DEF FateIn, Present
<1> QED
  BY <1>1, <1>2, <1>3, <1>4, <1>5

\* Fates that all move from one of a set to another are a step of Delivery.
LEMMA FatesMove ==
    ASSUME NEW S \in SUBSET Msgs, NEW from, NEW to,
           \A m \in S : Fate(m) \in from,
           \A m \in Msgs : Fate(m)' = IF m \in S THEN to ELSE Fate(m)
    PROVE  Promise!Move(S, from, to)
<1>1. [m \in Msgs |-> Fate(m)]' = [m \in Msgs |-> Fate(m)']
  OBVIOUS
<1> QED
  BY <1>1 DEF Promise!Move

\* Every step of the outbox is one of Delivery, or changes no fate.
LEMMA StepPromised ==
    ASSUME SerialInv, SerialInv', Effect
    PROVE  [Promise!Next]_([m \in Msgs |-> Fate(m)])
<1> USE DEF SerialInv, AllInv
<1> DEFINE old(m) == FateIn(disk, acked, dropped, m)
           new(m) == FateIn(disk', acked', dropped', m)
<1>1. \A m \in Msgs : Fate(m) = old(m) /\ Fate(m)' = new(m)
  BY DEF Fate, FateIn
<1>2. /\ disk \in Copies /\ Earned(disk, acked)
      /\ disk' \in Copies /\ Earned(disk', acked')
  BY DEF TypeInv, TypeOK, Copies, EarnedInv
<1>3. \A m \in Msgs :
         /\ m \in acked => old(m) = "delivered"
         /\ m \notin acked =>
               /\ disk[m].status # "sent"
               /\ disk[m].status = "pending" => old(m) = "queued"
               /\ disk[m].status = "failed"  => old(m) = "givenup"
               /\ ~Present(disk, m) => old(m) = IF m \in dropped THEN "removed" ELSE "new"
  BY <1>2, FateCases
<1>4. \A m \in Msgs :
         /\ m \in acked' => new(m) = "delivered"
         /\ m \notin acked' =>
               /\ disk'[m].status # "sent"
               /\ disk'[m].status = "pending" => new(m) = "queued"
               /\ disk'[m].status = "failed"  => new(m) = "givenup"
               /\ ~Present(disk', m) => new(m) = IF m \in dropped' THEN "removed" ELSE "new"
  BY <1>2, FateCases
<1> HIDE DEF old, new
<1>5. \A m \in Msgs : /\ disk[m].status \in {"absent", "pending", "sent", "failed"}
                      /\ disk'[m].status \in {"absent", "pending", "sent", "failed"}
  BY <1>2 DEF Copies, Entry
<1>6. ASSUME NEW S \in SUBSET Msgs, NEW from, NEW to,
             \A m \in S : old(m) \in from,
             \A m \in Msgs : new(m) = IF m \in S THEN to ELSE old(m)
      PROVE  Promise!Move(S, from, to)
  BY <1>1, <1>6, FatesMove
<1>7. CASE Idles
  <2>1. \A m \in Msgs : Fate(m)' = Fate(m)
    BY <1>7 DEF Idles, Fate, Present
  <2> QED
    BY <2>1
<1>8. ASSUME NEW m \in Msgs, Acks(m) PROVE Promise!Next \/ \A n \in Msgs : Fate(n)' = Fate(n)
  <2>1. CASE m \in acked
    <3>1. UNCHANGED <<disk, acked, dropped>>
      BY <1>8, <2>1 DEF Acks
    <3> QED
      BY <3>1 DEF Fate, Present
  <2>2. CASE m \notin acked
    <3>1. old(m) \in {"new", "queued", "givenup"}
      <4>1. CASE Present(disk, m)
        BY <1>3, <1>5, <2>2, <4>1 DEF Present
      <4>2. CASE ~Present(disk, m)
        <5>1. m \in Fresh /\ pc[m] = "ready"
          BY <1>8, <4>2 DEF Acks
        <5>2. m \notin dropped
          BY <5>1 DEF QueuedInv
        <5> QED
          BY <1>3, <2>2, <4>2, <5>2
      <4> QED
        BY <4>1, <4>2
    <3>2. ASSUME NEW n \in Msgs PROVE new(n) = IF n \in {m} THEN "delivered" ELSE old(n)
      <4>1. CASE n = m
        BY <1>4, <1>8, <4>1 DEF Acks
      <4>2. CASE n # m
        BY <1>8, <4>2 DEF Acks, old, new, FateIn, Present
      <4> QED
        BY <4>1, <4>2
    <3>3. Promise!Deliver(m)
      BY <1>6, <3>1, <3>2 DEF Promise!Deliver
    <3> QED
      BY <3>3 DEF Promise!Next
  <2> QED
    BY <2>1, <2>2
<1>9. ASSUME NEW m \in Msgs, Enqueues(m) PROVE Promise!Next
  <2>1. m \notin acked /\ m \notin queued /\ ~Present(disk, m) /\ m \notin dropped
    BY <1>9 DEF Enqueues, QueuedInv
  <2>2. old(m) \in {"new"}
    BY <1>3, <2>1
  <2>3. ASSUME NEW n \in Msgs PROVE new(n) = IF n \in {m} THEN "queued" ELSE old(n)
    <3>1. CASE n = m
      <4>1. disk'[n].status = "pending" /\ n \notin acked'
        BY <1>2, <1>9, <2>1, <3>1 DEF Enqueues, Added, Pending, Copies
      <4> QED
        BY <1>4, <3>1, <4>1
    <3>2. CASE n # m
      <4>1. disk'[n] = disk[n] /\ acked' = acked /\ dropped' = dropped
        BY <1>2, <1>9, <3>2 DEF Enqueues, Added, Copies
      <4> QED
        BY <3>2, <4>1 DEF old, new, FateIn, Present
    <3> QED
      BY <3>1, <3>2
  <2>4. Promise!Queue(m)
    BY <1>6, <2>2, <2>3 DEF Promise!Queue
  <2> QED
    BY <2>4 DEF Promise!Next
<1>10. ASSUME NEW ob \in Copies, Writes(ob) PROVE Promise!Next
  <2> DEFINE S == {m \in Msgs : /\ m \notin acked
                                /\ disk[m].status = "pending" /\ ob[m].status = "failed"}
  <2>1. \A m \in S : old(m) \in {"queued"}
    BY <1>3
  <2>2. ASSUME NEW m \in Msgs PROVE new(m) = IF m \in S THEN "givenup" ELSE old(m)
    <3>1. disk' = ob /\ acked' = acked /\ dropped' = dropped
      BY <1>10 DEF Writes
    <3>2. CASE m \in acked
      BY <1>3, <1>4, <3>1, <3>2
    <3>3. CASE m \in S
      BY <1>4, <3>1, <3>3
    <3>4. CASE m \notin acked /\ m \notin S
      <4>1. disk'[m].status = disk[m].status
        BY <1>10, <3>1, <3>4 DEF Writes, Follows
      <4> QED
        BY <1>3, <1>4, <1>5, <3>1, <3>4, <4>1 DEF Present
    <3> QED
      BY <3>2, <3>3, <3>4
  <2> HIDE DEF S
  <2>3. S \in SUBSET Msgs
    BY DEF S
  <2>4. Promise!GiveUp(S)
    BY <1>6, <2>1, <2>2, <2>3 DEF Promise!GiveUp
  <2> QED
    BY <2>3, <2>4 DEF Promise!Next
<1>11. ASSUME NEW T \in SUBSET Msgs, Drops(T) PROVE Promise!Next
  <2> DEFINE S == T \ acked
  <2>1. \A m \in S : old(m) \in {"queued", "givenup"}
    BY <1>3, <1>5, <1>11 DEF Drops, Present
  <2>2. ASSUME NEW m \in Msgs PROVE new(m) = IF m \in S THEN "removed" ELSE old(m)
    <3>1. acked' = acked /\ dropped' = dropped \cup T
      BY <1>11 DEF Drops
    <3>2. disk'[m].status = IF m \in T THEN "absent" ELSE disk[m].status
      BY <1>11 DEF Drops, Without, Absent
    <3>3. CASE m \in acked
      BY <1>3, <1>4, <3>1, <3>3
    <3>4. CASE m \in S
      BY <1>4, <3>1, <3>2, <3>4 DEF Present
    <3>5. CASE m \notin acked /\ m \notin S
      BY <1>3, <1>4, <1>5, <3>1, <3>2, <3>5 DEF Present
    <3> QED
      BY <3>3, <3>4, <3>5
  <2> HIDE DEF S
  <2>3. S \in SUBSET Msgs
    BY DEF S
  <2>4. Promise!Remove(S)
    BY <1>6, <2>1, <2>2, <2>3 DEF Promise!Remove
  <2> QED
    BY <2>3, <2>4 DEF Promise!Next
<1> QED
  BY <1>7, <1>8, <1>9, <1>10, <1>11 DEF Effect

\* While windows do not overlap the outbox implements Delivery: with crashes,
\* failed writes, duplicate IDs and every command, a queued message is delivered,
\* given up or removed, and what is delivered or removed stays so.
THEOREM PromiseKept ==
    ASSUME ~Overlap
    PROVE  Spec => KeepsPromise
<1>1. Init => Promise!Init
  <2> SUFFICES ASSUME Init PROVE Promise!Init
    OBVIOUS
  <2>1. acked = {} /\ dropped = {} /\ \A m \in Msgs : disk[m].status \in {"absent", "pending"}
    BY DEF Init, Absent
  <2>2. \A m \in Msgs : Fate(m) \in {"new", "queued"}
    BY <2>1 DEF Fate
  <2> QED
    BY <2>2 DEF Promise!Init
<1>2. SerialInv /\ [Next]_vars => SerialInv' /\ [Promise!Next]_([m \in Msgs |-> Fate(m)])
  BY StepEffect, StepPromised
<1> QED
  BY InitSerial, <1>1, <1>2, PTL DEF Spec, KeepsPromise, Promise!Spec

-----------------------------------------------------------------------------
(* As long as nothing crashed and no write failed.                         *)

\* Places of an attempt that got its OK and has yet to take the entry out.
Unfinished == {"sent", "remove"}

\* The one copy is the file.  What is acknowledged and still listed is being
\* taken out, and what has no retries left is being given up.
FaultlessInv ==
    faults = 0 =>
        /\ resent = {}
        /\ \A p \in Procs : pc[p] \in Holding => snap[p] = disk
        /\ \A m \in acked : Present(disk, m) =>
               \E p \in Procs : cur[p] = m /\ pc[p] \in Unfinished
        /\ \A m \in Fresh : Stuck(disk, m) =>
               \E p \in Procs : cur[p] = m /\ pc[p] = "giveup"

\* p moves outside AttemptSend: it takes entries out, or adds a fresh one.
Aside(p) ==
    /\ pc[p] \notin Sending
    /\ \A q \in Procs \ {p} :
          pc'[q] = pc[q] /\ cur'[q] = cur[q] /\ snap'[q] = snap[q]
    /\ pc'[p] \in Holding => snap'[p] = disk'
    /\ disk' = disk \/ pc[p] \in Holding
    /\ \A m \in Msgs :
          \/ disk'[m] \in {disk[m], Absent}
          \/ disk'[m] = Pending /\ m \notin acked
    /\ \A m \in acked' : m \in acked \/ ~Present(disk', m)
    /\ UNCHANGED resent

\* A fault is one too many.
LEMMA NoFault ==
    ASSUME TypeInv, faults' = 0
    PROVE  /\ faults # faults' => faults' # faults + 1
           /\ \A ob : Save(ob) => disk' = ob /\ faults = 0
           /\ \A m : Record(m) => faults = 0
           /\ \A p : ~Crash(p)
<1>1. faults \in Nat /\ faults + 1 # 0
  BY BoundsAssumption DEF TypeInv, TypeOK
<1> QED
  BY <1>1 DEF Save, Record, Crash

\* Faults are only ever counted up.
LEMMA StepCounts == [Next]_vars => faults' \in {faults, faults + 1}
<1>1. \A ob, m : Save(ob) \/ Record(m) => faults' \in {faults, faults + 1}
  BY DEF Save, Record
<1>2. \A p : AttemptSend(p) => faults' \in {faults, faults + 1}
  BY <1>1 DEF AttemptSend, PublishAcked, PublishFailed, MarkSent, Unlist,
     StoreSent, RaiseRetry, GiveUp
<1>3. DaemonStep => faults' \in {faults, faults + 1}
  BY <1>1, <1>2 DEF DaemonStep, PassBegin, PassOver, PassSend, PassEnd,
     CleanBegin, CleanSave, Restart
<1>4. \A p : RetryStep(p) \/ ClearStep(p) => faults' \in {faults, faults + 1}
  BY <1>1, <1>2 DEF RetryStep, RetryBegin, ClearStep, ClearBegin, ClearAnswer
<1>5. \A m : SendStep(m) => faults' \in {faults, faults + 1}
  BY <1>1 DEF SendStep, SendAcked, SendFailed, SendRecord, SendLoad, SendSave
<1> QED
  BY <1>3, <1>4, <1>5 DEF Next, Crash, vars

\* Steps aside leave the attempts, and what they are about, alone.
LEMMA AsideFaultless ==
    ASSUME SerialInv, FaultlessInv, NEW p \in Procs, Aside(p), faults = 0
    PROVE  FaultlessInv'
<1> USE DEF SerialInv, AllInv
<1>1. Unfinished \cup {"giveup"} \subseteq Sending
  BY DEF Unfinished, Sending
<1>2. ASSUME NEW q \in Procs, pc'[q] \in Holding PROVE snap'[q] = disk'
  <2>1. CASE q = p
    BY <1>2, <2>1 DEF Aside
  <2>2. CASE q # p
    <3>1. pc[q] \in Holding /\ snap'[q] = snap[q]
      BY <1>2, <2>2 DEF Aside
    <3>2. disk' = disk
      BY <2>2, <3>1 DEF Aside, KeepInv
    <3> QED
      BY <3>1, <3>2 DEF FaultlessInv
  <2> QED
    BY <2>1, <2>2
<1>3. ASSUME NEW m \in Msgs, NEW S \in SUBSET Sending,
             \E q \in Procs : cur[q] = m /\ pc[q] \in S
      PROVE  \E q \in Procs : cur'[q] = m /\ pc'[q] \in S
  BY <1>3 DEF Aside
<1>4. ASSUME NEW m \in acked', Present(disk', m)
      PROVE  \E q \in Procs : cur'[q] = m /\ pc'[q] \in Unfinished
  <2>1. m \in acked /\ m \in Msgs
    BY <1>4 DEF Aside, TypeInv, TypeOK
  <2>2. Present(disk, m)
    BY <1>4, <2>1 DEF Aside, Present, Absent
  <2>3. \E q \in Procs : cur[q] = m /\ pc[q] \in Unfinished
    BY <2>1, <2>2 DEF FaultlessInv
  <2> QED
    BY <1>1, <1>3, <2>1, <2>3
<1>5. ASSUME NEW m \in Fresh, Stuck(disk', m)
      PROVE  \E q \in Procs : cur'[q] = m /\ pc'[q] = "giveup"
  <2>1. m \in Msgs
    BY DEF Msgs
  <2>2. disk'[m] # Absent /\ disk'[m] # Pending
    BY <1>5, BoundsAssumption DEF Stuck, Absent, Pending
  <2>3. Stuck(disk, m)
    BY <1>5, <2>1, <2>2 DEF Aside, Stuck
  <2>4. \E q \in Procs : cur[q] = m /\ pc[q] \in {"giveup"}
    BY <2>3 DEF FaultlessInv
  <2>5. \E q \in Procs : cur'[q] = m /\ pc'[q] \in {"giveup"}
    BY <1>1, <1>3, <2>1, <2>4
  <2> QED
    BY <2>5
<1>6. resent' = {}
  BY DEF Aside, FaultlessInv
<1> QED
  BY <1>2, <1>4, <1>5, <1>6 DEF FaultlessInv

\* The steps of AttemptSend.
LEMMA AttemptFaultless ==
    ASSUME SerialInv, FaultlessInv, NEW p \in Procs, AttemptSend(p), faults' = 0
    PROVE  FaultlessInv'
<1> USE DEF SerialInv, AllInv
<1> DEFINE m == cur[p]
<1>1. faults = 0 /\ \A ob : Save(ob) => disk' = ob
  BY NoFault DEF AttemptSend, PublishAcked, PublishFailed, MarkSent, Unlist,
     StoreSent, RaiseRetry, GiveUp
<1>2. pc[p] \in Sending /\ pc[p] \in Holding
  BY DEF AttemptSend, PublishAcked, PublishFailed, MarkSent, Unlist,
         StoreSent, RaiseRetry, GiveUp, Sending, Holding
<1>3. m \in Msgs /\ disk \in Copies /\ snap[p] = disk
  BY <1>1, <1>2 DEF TypeInv, TypeOK, Aims, Copies, FaultlessInv
<1>4. /\ resent = {}
      /\ \A n \in acked : Present(disk, n) =>
             \E q \in Procs : cur[q] = n /\ pc[q] \in Unfinished
      /\ \A n \in Fresh : Stuck(disk, n) =>
             \E q \in Procs : cur[q] = n /\ pc[q] = "giveup"
  BY <1>1 DEF FaultlessInv
<1>5. \A q \in Procs : pc[q] \in Holding => q = p
  BY <1>2 DEF KeepInv
<1>6. Unfinished \cup {"giveup"} \subseteq Holding
  BY DEF Unfinished, Holding, Sending
\* Nobody but p is at work, so what p is not at is already settled.
<1>7. /\ \A n \in acked : Present(disk, n) => n = m /\ pc[p] \in Unfinished
      /\ \A n \in Fresh : Stuck(disk, n) => n = m /\ pc[p] = "giveup"
  BY <1>4, <1>5, <1>6
<1>8. \A q \in Procs \ {p} : pc'[q] = pc[q]
  BY DEF AttemptSend, PublishAcked, PublishFailed, MarkSent, Unlist,
         StoreSent, RaiseRetry, GiveUp, Resume, Goto, TypeInv, TypeOK
<1>9. ASSUME snap'[p] = disk' \/ pc'[p] \notin Holding,
             resent' = {},
             \A n \in acked' : Present(disk', n) => n = cur'[p] /\ pc'[p] \in Unfinished,
             \A n \in Fresh : Stuck(disk', n) => n = cur'[p] /\ pc'[p] = "giveup"
      PROVE  FaultlessInv'
  BY <1>5, <1>8, <1>9 DEF FaultlessInv
<1>10. ASSUME NEW ob, Resume(p, ob) PROVE snap'[p] = ob \/ pc'[p] \notin Holding
  BY <1>10 DEF Resume, Goto, Holding, Sending, TypeInv, TypeOK
<1>11. pc[p] \in Attempting => Only(disk, m)
  BY <1>3 DEF KeepInv
<1>12. \A n \in Msgs : disk[n] \in Entry
  BY <1>3 DEF Copies
<1>13. CASE PublishAcked(p)
  <2>1. /\ pc[p] = "dial" /\ acked' = acked \cup {m} /\ resent' = resent \cup (acked \cap {m})
        /\ UNCHANGED <<disk, snap, cur>> /\ pc'[p] = "sent"
    BY <1>13 DEF PublishAcked, Acknowledge, Goto, TypeInv, TypeOK
  <2>2. Present(disk, m)
    BY <1>11, <2>1 DEF Attempting, Only
  <2>3. m \notin acked
    BY <1>7, <2>1, <2>2 DEF Unfinished
  <2>4. resent' = {}
    BY <1>4, <2>1, <2>3
  <2>5. \A n \in acked' : Present(disk', n) => n = cur'[p] /\ pc'[p] \in Unfinished
    BY <1>7, <2>1 DEF Unfinished, Present
  <2>6. \A n \in Fresh : ~Stuck(disk', n)
    BY <1>7, <2>1 DEF Stuck
  <2> QED
    BY <1>3, <1>9, <2>1, <2>4, <2>5, <2>6
<1>14. CASE PublishFailed(p)
  <2>1. pc[p] = "dial" /\ UNCHANGED <<disk, snap, cur, acked, resent>>
    BY <1>14 DEF PublishFailed, observed
  <2>2. \A n \in acked' : ~Present(disk', n)
    BY <1>7, <2>1 DEF Unfinished, Present
  <2>3. \A n \in Fresh : ~Stuck(disk', n)
    BY <1>7, <2>1 DEF Stuck
  <2> QED
    BY <1>3, <1>4, <1>9, <2>1, <2>2, <2>3
<1>15. CASE MarkSent(p)
  <2> DEFINE ob == WithStatus(disk, m, "sent")
  <2>1. /\ disk' = ob /\ snap'[p] = ob /\ pc'[p] = "remove" /\ pc[p] = "sent"
        /\ UNCHANGED <<cur, acked, resent>>
    BY <1>1, <1>3, <1>15 DEF MarkSent, Goto, observed, TypeInv, TypeOK
  <2>2. \A n \in Msgs : n # m => ob[n] = disk[n]
    BY <1>3 DEF WithStatus, Copies
  <2>3. ob[m].status = "sent"
    BY <1>3 DEF WithStatus, Copies, Entry
  <2> HIDE DEF ob
  <2>4. \A n \in acked' : Present(disk', n) => n = cur'[p] /\ pc'[p] \in Unfinished
    BY <1>7, <2>1, <2>2 DEF Unfinished, Present, TypeInv, TypeOK
  <2>5. \A n \in Fresh : ~Stuck(disk', n)
    BY <1>7, <2>1, <2>2, <2>3 DEF Stuck, Msgs
  <2> QED
    BY <1>4, <1>9, <2>1, <2>4, <2>5
<1>16. CASE Unlist(p)
  <2> DEFINE ob == Removed(disk, m)
  <2>1. /\ disk' = ob /\ snap'[p] = ob /\ pc[p] = "remove"
        /\ UNCHANGED <<cur, acked, resent>>
    BY <1>1, <1>3, <1>16 DEF Unlist, observed, TypeInv, TypeOK
  <2>2. ~Duplicated(disk, m)
    BY <1>11, <2>1 DEF Attempting, Only
  <2>3. \A n \in Msgs : ob[n] = disk[n] \/ ob[n] = Absent
    BY <2>2 DEF Removed
  <2>4. ob[m] = Absent
    BY <1>3, <2>2 DEF Removed, SameId
  <2> HIDE DEF ob
  <2>5. \A n \in acked' : ~Present(disk', n)
    BY <1>7, <2>1, <2>3, <2>4 DEF Present, Absent, TypeInv, TypeOK
  <2>6. \A n \in Fresh : ~Stuck(disk', n)
    BY <1>7, <2>1, <2>3 DEF Stuck, Msgs, Absent
  <2> QED
    BY <1>4, <1>9, <2>1, <2>5, <2>6
<1>17. CASE StoreSent(p)
  <2>1. pc[p] = "store" /\ UNCHANGED <<disk, acked, resent>>
    BY <1>17 DEF StoreSent, observed
  <2>2. snap'[p] = disk' \/ pc'[p] \notin Holding
    BY <1>3, <1>10, <1>17, <2>1 DEF StoreSent
  <2>3. \A n \in acked' : ~Present(disk', n)
    BY <1>7, <2>1 DEF Unfinished, Present
  <2>4. \A n \in Fresh : ~Stuck(disk', n)
    BY <1>7, <2>1 DEF Stuck
  <2> QED
    BY <1>4, <1>9, <2>1, <2>2, <2>3, <2>4
<1>18. CASE RaiseRetry(p)
  <2> DEFINE ob == WithRetry(disk, m)
  <2>1. disk' = ob /\ pc[p] = "raise" /\ UNCHANGED <<acked, resent>>
    BY <1>1, <1>3, <1>18 DEF RaiseRetry, observed
  <2>2. \A n \in Msgs : n # m => ob[n] = disk[n]
    BY <1>3 DEF WithRetry, Copies
  <2>3. ob[m].status = disk[m].status /\ ob[m].retries = disk[m].retries + 1
    BY <1>3 DEF WithRetry, Copies, Entry
  <2>4. \/ LastTry(disk, m) /\ snap'[p] = ob /\ pc'[p] = "giveup" /\ cur'[p] = m
        \/ ~LastTry(disk, m) /\ Resume(p, ob)
    BY <1>3, <1>18 DEF RaiseRetry, Goto, TypeInv, TypeOK
  <2> HIDE DEF ob
  <2>5. snap'[p] = disk' \/ pc'[p] \notin Holding
    BY <1>10, <2>1, <2>4
  <2>6. \A n \in acked' : ~Present(disk', n)
    BY <1>7, <2>1, <2>2, <2>3 DEF Unfinished, Present, TypeInv, TypeOK
  <2>7. Stuck(disk', m) => LastTry(disk, m)
    BY <1>3, <1>12, <2>1, <2>3, BoundsAssumption DEF Stuck, LastTry, Entry
  <2>8. \A n \in Fresh : n # m => ~Stuck(disk', n)
    BY <1>7, <2>1, <2>2 DEF Stuck, Msgs
  <2>9. \A n \in Fresh : Stuck(disk', n) => n = cur'[p] /\ pc'[p] = "giveup"
    BY <2>4, <2>7, <2>8
  <2> QED
    BY <1>4, <1>9, <2>1, <2>5, <2>6, <2>9
<1>19. CASE GiveUp(p)
  <2> DEFINE ob == WithStatus(disk, m, "failed")
  <2>1. disk' = ob /\ pc[p] = "giveup" /\ Resume(p, ob) /\ UNCHANGED <<acked, resent>>
    BY <1>1, <1>3, <1>19 DEF GiveUp, observed
  <2>2. \A n \in Msgs : n # m => ob[n] = disk[n]
    BY <1>3 DEF WithStatus, Copies
  <2>3. ob[m].status = "failed"
    BY <1>3 DEF WithStatus, Copies, Entry
  <2>4. Present(disk, m)
    BY <1>11, <2>1 DEF Attempting, Only
  <2> HIDE DEF ob
  <2>5. \A n \in acked' : ~Present(disk', n)
    BY <1>7, <2>1, <2>2, <2>4 DEF Unfinished, Present, TypeInv, TypeOK
  <2>6. \A n \in Fresh : ~Stuck(disk', n)
    BY <1>7, <2>1, <2>2, <2>3 DEF Stuck, Msgs
  <2> QED
    BY <1>4, <1>9, <1>10, <2>1, <2>5, <2>6
<1> HIDE DEF m
<1> QED
  BY <1>13, <1>14, <1>15, <1>16, <1>17, <1>18, <1>19 DEF AttemptSend

\* Initially no message of this run is listed and nothing was acknowledged.
LEMMA InitFaultless == Init => FaultlessInv
<1> SUFFICES ASSUME Init PROVE FaultlessInv
  OBVIOUS
<1>1. acked = {} /\ resent = {} /\ \A p \in Procs : pc[p] \notin Holding
  BY DEF Init, Holding, Sending
<1>2. \A m \in Fresh : ~Stuck(disk, m)
  BY MsgsAssumption DEF Init, Msgs, Present, Stuck
<1> QED
  BY <1>1, <1>2 DEF FaultlessInv

\* The steps that load, skip, or end something take no entry anywhere.
LEMMA PlainAside ==
    ASSUME TypeInv, NEW p \in Procs, NEW place \in Places, NEW c \in {snap[p], disk, Empty},
           pc[p] \notin Sending, Goto(p, place), snap' = [snap EXCEPT ![p] = c],
           \A q \in Procs \ {p} : cur'[q] = cur[q],
           place \in Holding => c = disk,
           UNCHANGED <<disk, acked, resent>>
    PROVE  Aside(p)
BY DEF Aside, Goto, TypeInv, TypeOK

\* So do, as far as attempts are concerned, the saves outside AttemptSend.
LEMMA SaveAside ==
    ASSUME TypeInv, NEW p \in Procs, NEW place \in Places \ Holding, NEW ob \in Copies,
           pc[p] \in Holding \ Sending, Goto(p, place), snap' = [snap EXCEPT ![p] = Empty],
           disk' = ob, UNCHANGED <<cur, acked, resent>>,
           \A m \in Msgs : ob[m] \in {disk[m], Absent} \/ (ob[m] = Pending /\ m \notin acked)
    PROVE  Aside(p)
BY DEF Aside, Goto, TypeInv, TypeOK

\* Every other step of a run without faults is a step aside.
LEMMA OthersAside ==
    ASSUME SerialInv, FaultlessInv, [Next]_vars, faults' = 0
    PROVE  \/ \E p \in Procs : AttemptSend(p) \/ Aside(p)
           \/ UNCHANGED vars
<1> USE DEF SerialInv, AllInv
<1>1. \A ob : Save(ob) => disk' = ob /\ faults = 0
  BY NoFault
<1>2. ASSUME UNCHANGED faults \/ \E ob : Save(ob)
      PROVE  \A p \in Procs : pc[p] \in Holding => snap[p] = disk
  BY <1>1, <1>2 DEF FaultlessInv
<1>3. {"idle", "clean", "pass", "dial", "down", "ready", "confirm", "unqueue", "enqueue",
       "record", "loadrm", "loadadd", "done"} \subseteq Places
  BY DEF Places, Holding, Sending
<1>4. /\ {"idle", "down", "ready", "record", "loadrm", "loadadd", "done"} \cap Holding = {}
      /\ {"clean", "pass", "confirm", "unqueue", "enqueue"} \subseteq Holding \ Sending
  BY DEF Holding, Sending
<1>5. \A p \in Procs : /\ snap = [snap EXCEPT ![p] = snap[p]]
                       /\ pc[p] \in Places /\ (pc' = pc => Goto(p, pc[p]))
  BY DEF TypeInv, TypeOK, Goto
<1>6. disk \in Copies
  BY DEF TypeInv, TypeOK, Copies
<1>7. ASSUME DaemonStep PROVE AttemptSend(Daemon) \/ Aside(Daemon)
  <2>1. Daemon \in Procs
    BY DEF Procs
  <2>2. CASE PassBegin \/ CleanBegin
    <3>1. PICK place \in {"pass", "clean"} : Goto(Daemon, place)
      BY <2>2 DEF PassBegin, CleanBegin
    <3>2. /\ pc[Daemon] = "idle" /\ snap' = [snap EXCEPT ![Daemon] = disk]
          /\ UNCHANGED <<disk, cur, acked, resent>>
      BY <2>2 DEF PassBegin, CleanBegin, Load, observed
    <3> QED
      BY <1>3, <1>4, <2>1, <3>1, <3>2, PlainAside DEF Holding
  <2>3. CASE \E m \in Msgs : PassOver(m) \/ PassSend(m)
    <3>1. PICK place \in {"pass", "dial"} : Goto(Daemon, place)
      BY <1>5, <2>1, <2>3 DEF PassOver, PassSend
    <3>2. /\ pc[Daemon] = "pass" /\ snap' = [snap EXCEPT ![Daemon] = snap[Daemon]]
          /\ UNCHANGED <<disk, acked, resent, faults>>
          /\ \A q \in Procs \ {Daemon} : cur'[q] = cur[q]
      BY <1>5, <2>1, <2>3 DEF PassOver, PassSend, observed, TypeInv, TypeOK
    <3>3. snap[Daemon] = disk
      BY <1>2, <1>4, <2>1, <3>2
    <3> QED
      BY <1>3, <1>4, <2>1, <3>1, <3>2, <3>3, PlainAside
  <2>4. CASE PassEnd \/ Restart
    <3>1. PICK c \in {snap[Daemon], Empty} : snap' = [snap EXCEPT ![Daemon] = c]
      BY <1>5, <2>1, <2>4 DEF PassEnd, Restart
    <3>2. /\ pc[Daemon] \in {"pass", "down"} /\ Goto(Daemon, "idle")
          /\ UNCHANGED <<disk, cur, acked, resent>>
      BY <2>4 DEF PassEnd, Restart, observed
    <3>3. pc[Daemon] \notin Sending
      BY <1>4, <3>2 DEF Sending
    <3> QED
      BY <1>3, <1>4, <2>1, <3>1, <3>2, <3>3, PlainAside
  <2>5. CASE CleanSave
    <3>1. PICK old \in SUBSET Msgs : Save(Without(snap[Daemon], old))
      BY <2>5 DEF CleanSave
    <3>2. /\ pc[Daemon] = "clean" /\ Goto(Daemon, "idle")
          /\ snap' = [snap EXCEPT ![Daemon] = Empty] /\ UNCHANGED <<cur, acked, resent>>
      BY <2>5 DEF CleanSave
    <3>3. disk' = Without(disk, old) /\ Without(disk, old) \in Copies
      <4>1. disk' = Without(disk, old)
        BY <1>1, <1>2, <1>4, <2>1, <3>1, <3>2
      <4> QED
        BY <1>6, <4>1 DEF Without, Copies, Absent, Entry
    <3>4. \A m \in Msgs : Without(disk, old)[m] \in {disk[m], Absent}
      BY DEF Without
    <3> QED
      BY <1>3, <1>4, <2>1, <3>2, <3>3, <3>4, SaveAside
  <2> QED
    BY <2>2, <2>3, <2>4, <2>5, <1>7 DEF DaemonStep
<1>8. ASSUME NEW p \in RetryCmds \cup ClearCmds, RetryStep(p) \/ ClearStep(p)
      PROVE  AttemptSend(p) \/ Aside(p)
  <2>1. p \in Procs
    BY DEF Procs
  <2>2. CASE ClearBegin(p) \/ \E m \in Msgs : RetryBegin(p, m)
    <3>1. PICK place \in {"confirm", "dial"} : Goto(p, place)
      BY <2>2 DEF ClearBegin, RetryBegin
    <3>2. /\ pc[p] = "ready" /\ snap' = [snap EXCEPT ![p] = disk]
          /\ UNCHANGED <<disk, acked, resent>>
          /\ \A q \in Procs \ {p} : cur'[q] = cur[q]
      BY <2>2 DEF ClearBegin, RetryBegin, Load, observed, TypeInv, TypeOK
    <3> QED
      BY <1>3, <2>1, <3>1, <3>2, PlainAside DEF Sending
  <2>3. CASE ClearAnswer(p)
    <3> DEFINE gone == Clearable(snap[p])
    <3>1. /\ pc[p] = "confirm" /\ Goto(p, "done")
          /\ snap' = [snap EXCEPT ![p] = Empty] /\ UNCHANGED <<cur, acked, resent>>
      BY <2>3 DEF ClearAnswer
    <3>2. CASE Save(Without(snap[p], gone))
      <4>1. disk' = Without(disk, gone)
        BY <1>1, <1>2, <1>4, <2>1, <3>1, <3>2
      <4> HIDE DEF gone
      <4>2. Without(disk, gone) \in Copies
        BY <1>6 DEF Without, Copies, Absent, Entry
      <4>3. \A m \in Msgs : Without(disk, gone)[m] \in {disk[m], Absent}
        BY DEF Without
      <4> QED
        BY <1>3, <1>4, <2>1, <3>1, <4>1, <4>2, <4>3, SaveAside
    <3>3. CASE UNCHANGED disk
      BY <1>3, <1>4, <2>1, <3>1, <3>3, PlainAside DEF Sending
    <3> QED
      BY <2>3, <3>2, <3>3 DEF ClearAnswer
  <2> QED
    BY <1>8, <2>2, <2>3 DEF RetryStep, ClearStep
<1>9. ASSUME NEW m \in Fresh, SendStep(m)
      PROVE  Aside(m)
  <2>1. m \in Procs /\ m \in Msgs
    BY DEF Procs, Msgs
  <2>2. CASE SendAcked(m)
    <3>1. /\ pc[m] = "ready" /\ acked' = acked \cup {m} /\ Goto(m, "record")
          /\ resent' = resent \cup (acked \cap {m})
          /\ UNCHANGED <<disk, snap, cur>>
      BY <2>2 DEF SendAcked, Acknowledge
    <3>2. m \notin acked /\ ~Present(disk, m)
      BY <2>1, <3>1 DEF QueuedInv
    <3>3. pc'[m] \notin Holding /\ \A q \in Procs \ {m} : pc'[q] = pc[q]
      BY <1>4, <2>1, <3>1 DEF Goto, TypeInv, TypeOK
    <3> QED
      BY <3>1, <3>2, <3>3 DEF Aside, Sending, Present
  <2>3. CASE SendFailed(m) \/ SendRecord(m)
    <3>1. PICK place \in {"loadadd", "loadrm"} : Goto(m, place)
      BY <2>3 DEF SendFailed, SendRecord
    <3>2. /\ pc[m] \in {"ready", "record"} /\ snap' = [snap EXCEPT ![m] = snap[m]]
          /\ UNCHANGED <<disk, cur, acked, resent>>
      BY <1>5, <2>1, <2>3 DEF SendFailed, SendRecord, observed
    <3> QED
      BY <1>3, <1>4, <2>1, <3>1, <3>2, PlainAside DEF Sending
  <2>4. CASE SendLoad(m)
    <3>1. PICK place \in {"unqueue", "enqueue"} : Goto(m, place)
      BY <2>4 DEF SendLoad
    <3>2. /\ pc[m] \in {"loadrm", "loadadd"} /\ snap' = [snap EXCEPT ![m] = disk]
          /\ UNCHANGED <<disk, cur, acked, resent>>
      BY <2>4 DEF SendLoad, Load, observed
    <3> QED
      BY <1>3, <2>1, <3>1, <3>2, PlainAside DEF Sending
  <2>5. CASE SendSave(m)
    <3> DEFINE ob == IF pc[m] = "enqueue" THEN Added(disk, m) ELSE Removed(disk, m)
    <3>1. /\ pc[m] \in {"unqueue", "enqueue"} /\ Goto(m, "done")
          /\ snap' = [snap EXCEPT ![m] = Empty] /\ UNCHANGED <<cur, acked, resent>>
      BY <2>5 DEF SendSave
    <3>2. disk' = ob
      BY <1>1, <1>2, <1>4, <2>1, <2>5, <3>1 DEF SendSave
    <3>3. ob \in Copies
      BY <1>6, <2>1, OperationTypes
    <3>4. ASSUME NEW n \in Msgs
          PROVE  ob[n] \in {disk[n], Absent} \/ (ob[n] = Pending /\ n \notin acked)
      <4>1. CASE pc[m] = "enqueue" /\ n = m
        BY <1>6, <2>1, <4>1 DEF Added, Copies, QueuedInv
      <4>2. CASE pc[m] = "enqueue" /\ n # m
        BY <1>6, <4>2 DEF Added, Copies
      <4>3. CASE pc[m] # "enqueue"
        BY <4>3 DEF Removed
      <4> QED
        BY <4>1, <4>2, <4>3
    <3> HIDE DEF ob
    <3> QED
      BY <1>3, <1>4, <2>1, <3>1, <3>2, <3>3, <3>4, SaveAside
  <2> QED
    BY <1>9, <2>2, <2>3, <2>4, <2>5 DEF SendStep
<1>10. \A p \in Procs : ~Crash(p)
  BY NoFault
<1> QED
  BY <1>7, <1>8, <1>9, <1>10 DEF Next, Procs

\* Without faults every step keeps the invariant, and faults are not undone.
LEMMA StepFaultless ==
    ASSUME SerialInv, FaultlessInv, [Next]_vars
    PROVE  FaultlessInv'
<1> SUFFICES ASSUME faults' = 0 PROVE FaultlessInv'
  BY DEF FaultlessInv
<1>1. faults = 0
  BY StepCounts, FaultCounted DEF SerialInv, AllInv
<1>2. ASSUME NEW p \in Procs, AttemptSend(p) PROVE FaultlessInv'
  BY <1>2, AttemptFaultless
<1>3. ASSUME NEW p \in Procs, Aside(p) PROVE FaultlessInv'
  BY <1>1, <1>3, AsideFaultless
<1>4. CASE UNCHANGED vars
  BY <1>4 DEF vars, FaultlessInv, Present, Stuck
<1> QED
  BY <1>2, <1>3, <1>4, OthersAside

\* Without overlap, crashes and failed writes no message gets a second OK.
THEOREM NothingSentTwice ==
    ASSUME ~Overlap
    PROVE  Spec => []NoDoubleSendUnlessFault
<1>1. SerialInv /\ FaultlessInv /\ [Next]_vars => SerialInv' /\ FaultlessInv'
  BY StepEffect, StepFaultless
<1>2. FaultlessInv => NoDoubleSendUnlessFault
  BY DEF FaultlessInv, NoDoubleSendUnlessFault, NoDoubleSend
<1> QED
  BY InitSerial, InitFaultless, <1>1, <1>2, PTL DEF Spec

\* Nor does one of this run's entries rest pending with its retries used up: the
\* attempt that uses up the last one is about to mark it failed.
THEOREM NothingStuck ==
    ASSUME ~Overlap
    PROVE  Spec => []StuckOnlyByFault
<1>1. SerialInv /\ FaultlessInv /\ [Next]_vars => SerialInv' /\ FaultlessInv'
  BY StepEffect, StepFaultless
<1>2. FaultlessInv => StuckOnlyByFault
  BY DEF FaultlessInv, StuckOnlyByFault
<1> QED
  BY InitSerial, InitFaultless, <1>1, <1>2, PTL DEF Spec

=============================================================================
