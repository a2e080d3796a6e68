-------------------------- MODULE OutboxLoss_proofs --------------------------
(***************************************************************************)
(* No queued message is lost silently while load-to-save windows do not    *)
(* overlap: for any number of messages, commands, crashes, failed writes   *)
(* and entries under one ID.                                               *)
(*                                                                         *)
(* The argument: one process at a time is between load and save; its copy  *)
(* accounts for every queued message just as the file does; and the one    *)
(* entry an attempt removes is the only one with its ID, and acknowledged. *)
(***************************************************************************)
EXTENDS Outbox_proofs

Settled == acked \cup dropped

\* ob still lists every message of Q that is not in A.
Keeps(ob, Q, A) == \A m \in Q : Present(ob, m) \/ m \in A

Only(ob, m) == Present(ob, m) /\ ~Duplicated(ob, m)

\* Up to its removal an attempt's entry is the only one with its ID.
Attempting == {"dial", "sent", "remove", "raise", "giveup"}

Acking == {"record", "loadrm", "unqueue"}

KeepInv ==
    /\ \A p, q \in Procs : pc[p] \in Holding /\ pc[q] \in Holding => p = q
    /\ Keeps(disk, queued, Settled)
    /\ \A p \in Procs : pc[p] \in Holding => Keeps(snap[p], queued, Settled)
    /\ \A p \in Procs : pc[p] \in Attempting => Only(snap[p], cur[p])
    /\ \A m \in Fresh : pc[m] \in Acking => m \in acked

\* What the daemon's pass has still to look at is in its copy.
TodoInv ==
    pc[Daemon] \in Sending \cup {"pass"} =>
        \A m \in todo : /\ Present(snap[Daemon], m)
                        /\ pc[Daemon] \in Sending => cur[Daemon] # m

AllInv == TypeInv /\ EarnedInv /\ KeepInv /\ TodoInv

-----------------------------------------------------------------------------
\* The operations on a copy lose no message but the ones they are meant to.
LEMMA OperationKeeps ==
    ASSUME NEW ob \in Copies, NEW m \in Msgs, NEW Q \in SUBSET Msgs, NEW A, NEW gone,
           Keeps(ob, Q, A)
    PROVE  /\ \A s \in {"sent", "failed"} : Keeps(WithStatus(ob, m, s), Q, A)
           /\ Keeps(WithRetry(ob, m), Q, A)
           /\ Keeps(Added(ob, m), Q \cup {m}, A)
           /\ Only(ob, m) /\ m \in A => Keeps(Removed(ob, m), Q, A)
           /\ m \in Fresh /\ m \in A => Keeps(Removed(ob, m), Q, A)
           /\ Keeps(Without(ob, gone), Q, A \cup gone)
<1>1. \A s \in {"sent", "failed"} : Keeps(WithStatus(ob, m, s), Q, A)
  BY DEF Keeps, WithStatus, Present, Copies, Entry
<1>2. Keeps(WithRetry(ob, m), Q, A)
  BY DEF Keeps, WithRetry, Present, Copies, Entry
<1>3. Keeps(Added(ob, m), Q \cup {m}, A)
  BY DEF Keeps, Added, Pending, Present, Copies, Entry
<1>4. ASSUME Only(ob, m), m \in A PROVE Keeps(Removed(ob, m), Q, A)
  BY <1>4 DEF Keeps, Only, Removed, Duplicated, Present
<1>5. ASSUME m \in Fresh, m \in A PROVE Keeps(Removed(ob, m), Q, A)
  <2>1. \A n \in Msgs : SameId(m, n) => m = n
    BY <1>5, MsgsAssumption DEF SameId
  <2> QED
    BY <1>5, <2>1 DEF Keeps, Removed, Present
<1>6. Keeps(Without(ob, gone), Q, A \cup gone)
  BY DEF Keeps, Without, Present
<1> QED
  BY <1>1, <1>2, <1>3, <1>4, <1>5, <1>6

\* Marking an entry and counting its failures leave the other entries alone.
LEMMA OperationOnly ==
    ASSUME NEW ob \in Copies, NEW m \in Msgs, Only(ob, m)
    PROVE  /\ \A s \in {"sent", "failed"} : Only(WithStatus(ob, m, s), m)
           /\ Only(WithRetry(ob, m), m)
           /\ \A n \in Msgs : Present(ob, n) =>
                /\ \A s \in {"sent", "failed"} : Present(WithStatus(ob, m, s), n)
                /\ Present(WithRetry(ob, m), n)
                /\ n # m => Present(Removed(ob, m), n)
<1>1. ASSUME NEW n \in Msgs
      PROVE  /\ \A s \in {"sent", "failed"} : Present(WithStatus(ob, m, s), n) <=> Present(ob, n)
             /\ Present(WithRetry(ob, m), n) <=> Present(ob, n)
  BY <1>1 DEF Only, WithStatus, WithRetry, Present, Copies, Entry
<1>2. ASSUME NEW n \in Msgs, Present(ob, n), n # m PROVE Present(Removed(ob, m), n)
  BY <1>2 DEF Only, Removed, Duplicated, Present
<1>3. \A s \in {"sent", "failed"} : Only(WithStatus(ob, m, s), m)
  BY <1>1 DEF Only, Duplicated
<1>4. Only(WithRetry(ob, m), m)
  BY <1>1 DEF Only, Duplicated
<1> QED
  BY <1>1, <1>2, <1>3, <1>4

\* A save leaves the old file or the new one.
LEMMA SaveKeeps ==
    ASSUME NEW ob, NEW Q, NEW A, Keeps(disk, Q, A), Keeps(ob, Q, A), Save(ob)
    PROVE  Keeps(disk', Q, A)
BY DEF Save

\* What is settled stays settled.
LEMMA MoreSettled ==
    ASSUME NEW ob, NEW Q, NEW A, NEW B, A \subseteq B, Keeps(ob, Q, A)
    PROVE  Keeps(ob, Q, B)
BY DEF Keeps

\* The initial file lists every legacy message and nobody holds a copy.
LEMMA InitKeeps == Init => KeepInv /\ TodoInv
<1> SUFFICES ASSUME Init PROVE KeepInv /\ TodoInv
  OBVIOUS
<1>1. \A p \in Procs : pc[p] \in {"idle", "ready"}
  BY DEF Init
<1>2. pc[Daemon] = "idle"
  BY DEF Init, Procs
<1>3. Keeps(disk, queued, Settled)
  BY DEF Init, Keeps, Msgs
<1>4. {"idle", "ready"} \cap (Holding \cup Attempting \cup Acking \cup Sending) = {}
  BY DEF Holding, Attempting, Acking, Sending
<1>5. Fresh \subseteq Procs
  BY DEF Procs
<1>6. KeepInv
  BY <1>1, <1>3, <1>4, <1>5 DEF KeepInv
<1>7. TodoInv
  BY <1>2, <1>4 DEF TodoInv
<1> QED
  BY <1>6, <1>7

-----------------------------------------------------------------------------
\* One process moves: it held its copy before or nobody did, and what it
\* leaves in the file and in its copy accounts for every queued message.
LEMMA MoveKeeps ==
    ASSUME TypeInv, KeepInv, NEW p \in Procs, NEW ob, NEW place \in Places,
           snap' = [snap EXCEPT ![p] = ob],
           Goto(p, place),
           \A q \in Procs \ {p} : cur'[q] = cur[q],
           place \in Holding => pc[p] \in Holding \/ \A q \in Procs : pc[q] \notin Holding,
           queued' = queued \/ pc[p] \in Holding,
           acked \subseteq acked', dropped \subseteq dropped',
           Keeps(disk', queued', Settled'),
           place \in Holding => Keeps(ob, queued', Settled'),
           place \in Attempting => Only(ob, cur'[p]),
           p \in Fresh /\ place \in Acking => p \in acked'
    PROVE  KeepInv'
<1>1. /\ snap'[p] = ob /\ pc'[p] = place
      /\ \A q \in Procs \ {p} : snap'[q] = snap[q] /\ pc'[q] = pc[q]
  BY DEF TypeInv, TypeOK, Goto
<1>2. Settled \subseteq Settled'
  BY DEF Settled
<1>3. ASSUME NEW q \in Procs, NEW r \in Procs, pc'[q] \in Holding, pc'[r] \in Holding
      PROVE  q = r
  BY <1>1, <1>3 DEF KeepInv
<1>4. ASSUME NEW q \in Procs, pc'[q] \in Holding PROVE Keeps(snap'[q], queued', Settled')
  <2>1. CASE q = p
    BY <1>1, <1>4, <2>1
  <2>2. CASE q # p
    <3>1. pc[q] \in Holding /\ snap'[q] = snap[q]
      BY <1>1, <1>4, <2>2
    <3>2. queued' = queued
      BY <2>2, <3>1 DEF KeepInv
    <3>3. Keeps(snap[q], queued, Settled)
      BY <3>1 DEF KeepInv
    <3> QED
      BY <1>2, <3>1, <3>2, <3>3, MoreSettled
  <2> QED
    BY <2>1, <2>2
<1>5. ASSUME NEW q \in Procs, pc'[q] \in Attempting PROVE Only(snap'[q], cur'[q])
  <2>1. CASE q = p
    BY <1>1, <1>5, <2>1
  <2>2. CASE q # p
    BY <1>1, <1>5, <2>2 DEF KeepInv
  <2> QED
    BY <2>1, <2>2
<1>6. ASSUME NEW m \in Fresh, pc'[m] \in Acking PROVE m \in acked'
  <2>1. m \in Procs
    BY DEF Procs
  <2> QED
    BY <1>1, <1>6, <2>1 DEF KeepInv
<1> QED
  BY <1>3, <1>4, <1>5, <1>6 DEF KeepInv

\* The processes other than the daemon leave its pass alone.
LEMMA OthersTodo ==
    ASSUME TypeInv, TodoInv, NEW p \in Procs, p # Daemon, UNCHANGED todo,
           NEW ob, snap' = [snap EXCEPT ![p] = ob],
           NEW place, Goto(p, place),
           \A q \in Procs \ {p} : cur'[q] = cur[q]
    PROVE  TodoInv'
<1>1. Daemon \in Procs
  BY DEF Procs
<1>2. snap'[Daemon] = snap[Daemon] /\ pc'[Daemon] = pc[Daemon] /\ cur'[Daemon] = cur[Daemon]
  BY <1>1 DEF TypeInv, TypeOK, Goto
<1> QED
  BY <1>2 DEF TodoInv

\* An attempt, the daemon's included, keeps every other entry of its copy.
LEMMA AttemptTodo ==
    ASSUME TypeInv, TodoInv, NEW p \in Procs, pc[p] \in Sending, UNCHANGED todo,
           NEW ob, snap' = [snap EXCEPT ![p] = ob],
           NEW place, Goto(p, place),
           \A q \in Procs \ {p} : cur'[q] = cur[q],
           place \in Sending => cur'[p] = cur[p],
           p = Daemon => \A n \in Msgs : Present(snap[p], n) /\ n # cur[p] => Present(ob, n)
    PROVE  TodoInv'
<1>1. CASE p = Daemon
  <2>1. snap'[Daemon] = ob /\ pc'[Daemon] = place
    BY <1>1 DEF TypeInv, TypeOK, Goto
  <2>2. todo \subseteq Msgs
    BY DEF TypeInv, TypeOK
  <2> QED
    BY <1>1, <2>1, <2>2 DEF TodoInv
<1>2. CASE p # Daemon
  BY <1>2, OthersTodo
<1> QED
  BY <1>1, <1>2

\* AttemptSend's return is such a move.
LEMMA ResumeKeeps ==
    ASSUME TypeInv, KeepInv, TodoInv, NEW p \in Procs, NEW ob \in Copies,
           pc[p] \in Sending, Resume(p, ob),
           UNCHANGED <<todo, acked, queued, dropped>>,
           Keeps(disk', queued, Settled), Keeps(ob, queued, Settled),
           \A n \in Msgs : Present(snap[p], n) /\ n # cur[p] => Present(ob, n)
    PROVE  KeepInv' /\ TodoInv'
<1> DEFINE place == IF p = Daemon THEN "pass" ELSE "done"
           copy  == IF p = Daemon THEN ob ELSE Empty
<1>1. /\ place \in Places
      /\ place \notin Attempting \cup Acking \cup Sending
      /\ pc[p] \in Holding
      /\ place \in Holding => p = Daemon
  BY DEF Places, Holding, Sending, Attempting, Acking
<1>2. /\ snap' = [snap EXCEPT ![p] = copy]
      /\ Goto(p, place)
      /\ \A q \in Procs \ {p} : cur'[q] = cur[q]
  BY DEF Resume, TypeInv, TypeOK
<1>3. place \in Holding => Keeps(copy, queued', Settled')
  BY <1>1 DEF Settled
<1>4. Keeps(disk', queued', Settled')
  BY DEF Settled
<1>5. p = Daemon => \A n \in Msgs : Present(snap[p], n) /\ n # cur[p] => Present(copy, n)
  OBVIOUS
<1> HIDE DEF place, copy
<1>6. KeepInv'
  BY <1>1, <1>2, <1>3, <1>4, MoveKeeps
<1>7. TodoInv'
  BY <1>1, <1>2, <1>5, AttemptTodo
<1> QED
  BY <1>6, <1>7

\* AttemptSend removes only the entry it sent, and only after an OK.
LEMMA AttemptKeeps ==
    ASSUME AllInv, NEW p \in Procs, AttemptSend(p)
    PROVE  KeepInv' /\ TodoInv'
<1> USE DEF AllInv
<1> DEFINE m == cur[p]
<1>1. pc[p] \in Sending /\ pc[p] \in Holding
  BY DEF AttemptSend, PublishAcked, PublishFailed, MarkSent, Unlist,
         StoreSent, RaiseRetry, GiveUp, Sending, Holding
<1>2. m \in Msgs /\ snap[p] \in Copies /\ queued \in SUBSET Msgs
  BY <1>1 DEF TypeInv, TypeOK, Aims, Copies
<1>3. Keeps(disk, queued, Settled) /\ Keeps(snap[p], queued, Settled)
  BY <1>1 DEF KeepInv
<1>4. {"sent", "raise", "remove", "store", "giveup"} \subseteq Places \cap Sending \cap Holding
  BY DEF Places, Holding, Sending
<1>5. {"sent", "raise", "remove", "store", "giveup"} \cap Acking = {}
  BY DEF Acking
<1>6. CASE PublishAcked(p) \/ PublishFailed(p)
  <2>1. PICK place \in {"sent", "raise"} : Goto(p, place)
    BY <1>6 DEF PublishAcked, PublishFailed
  <2>2. snap' = [snap EXCEPT ![p] = snap[p]] /\ UNCHANGED <<disk, cur, todo, queued, dropped>>
    BY <1>6 DEF PublishAcked, PublishFailed, Acknowledge, observed, TypeInv, TypeOK
  <2>3. acked \subseteq acked'
    BY <1>6 DEF PublishAcked, PublishFailed, Acknowledge, observed
  <2>4. Only(snap[p], cur'[p])
    BY <1>6, <2>2 DEF PublishAcked, PublishFailed, Attempting, KeepInv
  <2>5. Keeps(disk', queued', Settled') /\ Keeps(snap[p], queued', Settled')
    BY <1>3, <2>2, <2>3 DEF Keeps, Settled
  <2>6. KeepInv'
    BY <1>1, <1>4, <1>5, <2>1, <2>2, <2>3, <2>4, <2>5, MoveKeeps
  <2>7. TodoInv'
    BY <1>1, <2>1, <2>2, AttemptTodo
  <2> QED
    BY <2>6, <2>7
<1>7. CASE MarkSent(p)
  <2> DEFINE ob == WithStatus(snap[p], m, "sent")
  <2>1. Only(snap[p], m)
    BY <1>7 DEF MarkSent, KeepInv, Attempting
  <2>2. ob \in Copies /\ Keeps(ob, queued, Settled) /\ Only(ob, m)
    BY <1>2, <1>3, <2>1, OperationTypes, OperationKeeps, OperationOnly
  <2>3. \A n \in Msgs : Present(snap[p], n) => Present(ob, n)
    BY <1>2, <2>1, OperationOnly
  <2>4. /\ Save(ob) /\ snap' = [snap EXCEPT ![p] = ob] /\ Goto(p, "remove")
        /\ UNCHANGED <<cur, todo, acked, queued, dropped>>
    BY <1>7 DEF MarkSent, observed
  <2> HIDE DEF ob
  <2>5. Keeps(disk', queued', Settled') /\ Keeps(ob, queued', Settled')
    BY <1>3, <2>2, <2>4, SaveKeeps DEF Settled
  <2>6. KeepInv'
    BY <1>1, <1>4, <1>5, <2>2, <2>4, <2>5, MoveKeeps
  <2>7. TodoInv'
    BY <1>1, <2>3, <2>4, AttemptTodo
  <2> QED
    BY <2>6, <2>7
<1>8. CASE Unlist(p)
  <2> DEFINE ob == Removed(snap[p], m)
  <2>1. Only(snap[p], m)
    BY <1>8 DEF Unlist, KeepInv, Attempting
  <2>2. m \in Settled
    BY <1>8 DEF Unlist, EarnedInv, Settled
  <2>3. Keeps(ob, queued, Settled)
    BY <1>2, <1>3, <2>1, <2>2, OperationKeeps
  <2>4. \A n \in Msgs : Present(snap[p], n) /\ n # m => Present(ob, n)
    BY <1>2, <2>1, OperationOnly
  <2>5. /\ Save(ob) /\ snap' = [snap EXCEPT ![p] = ob] /\ Goto(p, "store")
        /\ UNCHANGED <<cur, todo, acked, queued, dropped>>
    BY <1>8 DEF Unlist, observed
  <2> HIDE DEF ob
  <2>6. Keeps(disk', queued', Settled') /\ Keeps(ob, queued', Settled')
    BY <1>3, <2>3, <2>5, SaveKeeps DEF Settled
  <2>7. KeepInv'
    BY <1>1, <1>4, <1>5, <2>5, <2>6, MoveKeeps DEF Attempting
  <2>8. TodoInv'
    BY <1>1, <2>4, <2>5, AttemptTodo
  <2> QED
    BY <2>7, <2>8
<1>9. CASE StoreSent(p)
  <2>1. Resume(p, snap[p]) /\ UNCHANGED <<disk, todo, acked, queued, dropped>>
    BY <1>9 DEF StoreSent, observed
  <2> QED
    BY <1>1, <1>2, <1>3, <2>1, ResumeKeeps
<1>10. CASE RaiseRetry(p)
  <2> DEFINE ob == WithRetry(snap[p], m)
  <2>1. Only(snap[p], m)
    BY <1>10 DEF RaiseRetry, KeepInv, Attempting
  <2>2. ob \in Copies /\ Keeps(ob, queued, Settled) /\ Only(ob, m)
    BY <1>2, <1>3, <2>1, OperationTypes, OperationKeeps, OperationOnly
  <2>3. \A n \in Msgs : Present(snap[p], n) => Present(ob, n)
    BY <1>2, <2>1, OperationOnly
  <2>4. Save(ob) /\ UNCHANGED <<todo, acked, queued, dropped>>
    BY <1>10 DEF RaiseRetry, observed
  <2>5. Keeps(disk', queued, Settled)
    BY <1>3, <2>2, <2>4, SaveKeeps
  <2>6. CASE Resume(p, ob)
    BY <1>1, <2>2, <2>3, <2>4, <2>5, <2>6, ResumeKeeps
  <2>7. CASE snap' = [snap EXCEPT ![p] = ob] /\ Goto(p, "giveup") /\ UNCHANGED cur
    <3> HIDE DEF ob
    <3>1. Keeps(disk', queued', Settled') /\ Keeps(ob, queued', Settled')
      BY <2>2, <2>4, <2>5 DEF Settled
    <3>2. KeepInv'
      BY <1>1, <1>4, <1>5, <2>2, <2>4, <2>7, <3>1, MoveKeeps
    <3>3. TodoInv'
      BY <1>1, <2>3, <2>4, <2>7, AttemptTodo
    <3> QED
      BY <3>2, <3>3
  <2> QED
    BY <1>10, <2>6, <2>7 DEF RaiseRetry
<1>11. CASE GiveUp(p)
  <2> DEFINE ob == WithStatus(snap[p], m, "failed")
  <2>1. Only(snap[p], m)
    BY <1>11 DEF GiveUp, KeepInv, Attempting
  <2>2. ob \in Copies /\ Keeps(ob, queued, Settled)
    BY <1>2, <1>3, OperationTypes, OperationKeeps
  <2>3. \A n \in Msgs : Present(snap[p], n) => Present(ob, n)
    BY <1>2, <2>1, OperationOnly
  <2>4. Save(ob) /\ Resume(p, ob) /\ UNCHANGED <<todo, acked, queued, dropped>>
    BY <1>11 DEF GiveUp, observed
  <2>5. Keeps(disk', queued, Settled)
    BY <1>3, <2>2, <2>4, SaveKeeps
  <2> QED
    BY <1>1, <2>2, <2>3, <2>4, <2>5, ResumeKeeps
<1> QED
  BY <1>6, <1>7, <1>8, <1>9, <1>10, <1>11 DEF AttemptSend

-----------------------------------------------------------------------------
(* The theorem is about an environment that serialises the windows.        *)

\* A load happens when nobody else is between load and save.
LEMMA LoadFree ==
    ASSUME ~Overlap, NEW p \in Procs, Load(p)
    PROVE  \A q \in Procs : pc[q] \notin Holding
BY DEF Load, Free

\* A move that changes neither the file nor the message sets: a load, a
\* release of the copy, or a step with the copy as it was.
LEMMA PlainKeeps ==
    ASSUME TypeInv, KeepInv, NEW p \in Procs, NEW place \in Places \ Attempting,
           NEW copy \in {snap[p], disk, Empty},
           snap' = [snap EXCEPT ![p] = copy],
           Goto(p, place),
           \A q \in Procs \ {p} : cur'[q] = cur[q],
           UNCHANGED <<disk, queued, dropped>>, acked \subseteq acked',
           place \in Holding => \/ pc[p] \in Holding /\ copy = snap[p]
                                \/ (\A q \in Procs : pc[q] \notin Holding) /\ copy = disk,
           p \in Fresh /\ place \in Acking => p \in acked'
    PROVE  KeepInv'
<1>1. Settled \subseteq Settled'
  BY DEF Settled
<1>2. Keeps(disk', queued', Settled')
  BY <1>1, MoreSettled DEF KeepInv
<1>3. place \in Holding => Keeps(copy, queued', Settled')
  BY <1>1, <1>2, MoreSettled DEF KeepInv
<1> QED
  BY <1>2, <1>3, MoveKeeps

\* A save of a copy that only takes out what it records as dropped, after
\* which the copy is released.
LEMMA DropKeeps ==
    ASSUME TypeInv, KeepInv, NEW p \in Procs, pc[p] \in Holding,
           NEW gone \in SUBSET Msgs,
           Save(Without(snap[p], gone)),
           dropped' = IF disk' = Without(snap[p], gone) THEN dropped \cup gone ELSE dropped,
           snap' = [snap EXCEPT ![p] = Empty],
           NEW place \in {"idle", "done"}, Goto(p, place),
           UNCHANGED <<cur, acked, queued>>
    PROVE  KeepInv'
<1>1. /\ place \in Places
      /\ place \notin Holding \cup Attempting \cup Acking
  BY DEF Places, Holding, Sending, Attempting, Acking
<1>2. Keeps(disk', queued, Settled')
  <2>1. CASE disk' = Without(snap[p], gone)
    <3>1. \A m \in queued : Present(snap[p], m) \/ m \in Settled
      BY DEF KeepInv, Keeps
    <3>2. queued \subseteq Msgs
      BY DEF TypeInv, TypeOK
    <3>3. dropped' = dropped \cup gone
      BY <2>1
    <3> QED
      BY <2>1, <3>1, <3>2, <3>3 DEF Keeps, Without, Present, Settled
  <2>2. CASE disk' = disk
    <3>1. dropped \subseteq dropped'
      OBVIOUS
    <3> QED
      BY <2>2, <3>1 DEF KeepInv, Keeps, Settled
  <2> QED
    BY <2>1, <2>2 DEF Save
<1>3. dropped \subseteq dropped'
  OBVIOUS
<1> QED
  BY <1>1, <1>2, <1>3, MoveKeeps

\* The daemon's steps.
LEMMA DaemonKeeps == ~Overlap /\ AllInv /\ DaemonStep => KeepInv' /\ TodoInv'
<1> SUFFICES ASSUME ~Overlap, AllInv, DaemonStep PROVE KeepInv' /\ TodoInv'
  OBVIOUS
<1> USE DEF AllInv
<1> DEFINE p == Daemon
<1>1. p \in Procs /\ p \notin Fresh
  BY ProcsAssumption DEF Procs
<1>2. {"pass", "clean"} \subseteq (Places \cap Holding) \ (Attempting \cup Acking \cup Sending)
  BY DEF Places, Holding, Sending, Attempting, Acking
<1>3. "idle" \in Places /\ "idle" \notin Holding \cup Attempting \cup Acking \cup Sending
  BY DEF Places, Holding, Sending, Attempting, Acking
<1>4. snap = [snap EXCEPT ![p] = snap[p]] /\ pc \in [Procs -> Places]
  BY DEF TypeInv, TypeOK
<1>5. CASE PassBegin
  <2>1. /\ snap' = [snap EXCEPT ![p] = disk] /\ Goto(p, "pass")
        /\ UNCHANGED <<disk, cur, acked, queued, dropped>>
        /\ \A q \in Procs : pc[q] \notin Holding
    BY <1>1, <1>5, LoadFree DEF PassBegin, Load, observed
  <2>2. todo' = Sendable(disk)
    BY <1>5 DEF PassBegin
  <2>3. snap'[Daemon] = disk /\ pc'[Daemon] = "pass"
    BY <1>1, <2>1 DEF TypeInv, TypeOK, Goto
  <2>4. TodoInv'
    BY <1>2, <2>2, <2>3 DEF TodoInv, Sendable, Present
  <2> HIDE DEF p
  <2>5. KeepInv'
    BY <1>1, <1>2, <2>1, PlainKeeps
  <2> QED
    BY <2>4, <2>5
<1>6. CASE CleanBegin
  <2>1. /\ snap' = [snap EXCEPT ![p] = disk] /\ Goto(p, "clean")
        /\ UNCHANGED <<disk, cur, acked, queued, dropped>>
        /\ \A q \in Procs : pc[q] \notin Holding
    BY <1>1, <1>6, LoadFree DEF CleanBegin, Load, observed
  <2>2. pc'[Daemon] = "clean"
    BY <1>1, <1>4, <2>1 DEF Goto
  <2>3. TodoInv'
    BY <1>2, <2>2 DEF TodoInv
  <2> HIDE DEF p
  <2>4. KeepInv'
    BY <1>1, <1>2, <2>1, PlainKeeps
  <2> QED
    BY <2>3, <2>4
<1>7. CASE \E m \in Msgs : PassOver(m)
  <2>1. UNCHANGED <<disk, snap, pc, cur, acked, queued, dropped>> /\ todo' \subseteq todo
    BY <1>7 DEF PassOver, observed
  <2>2. KeepInv'
    BY <2>1 DEF KeepInv, Settled
  <2>3. TodoInv'
    BY <2>1 DEF TodoInv
  <2> QED
    BY <2>2, <2>3
<1>8. CASE \E m \in Msgs : PassSend(m)
  <2>1. PICK m \in Msgs : PassSend(m)
    BY <1>8
  <2>2. /\ cur' = [cur EXCEPT ![p] = m] /\ Goto(p, "dial")
        /\ UNCHANGED <<disk, snap, acked, queued, dropped>>
        /\ todo' = todo \ {m}
        /\ pc[p] = "pass" /\ m \in todo
    BY <2>1 DEF PassSend, observed
  <2>3. cur'[Daemon] = m /\ \A q \in Procs \ {p} : cur'[q] = cur[q]
    BY <1>1, <2>2 DEF TypeInv, TypeOK
  <2>4. \A n \in todo : Present(snap[p], n)
    BY <2>2 DEF TodoInv
  <2>5. Only(snap[p], m)
    BY <2>1, <2>2, <2>4 DEF PassSend, Refused, Only
  <2>6. TodoInv'
    BY <2>2, <2>3, <2>4 DEF TodoInv
  <2>7. "dial" \in Places /\ "dial" \in Holding /\ "dial" \notin Acking
    BY DEF Places, Holding, Sending, Acking
  <2>8. Keeps(disk', queued', Settled') /\ Keeps(snap[p], queued', Settled')
    BY <1>1, <1>2, <2>2 DEF KeepInv, Settled
  <2>9. pc[p] \in Holding /\ snap' = [snap EXCEPT ![p] = snap[p]]
    BY <1>2, <1>4, <2>2
  <2>10. Only(snap[p], cur'[p])
    BY <2>3, <2>5
  <2> HIDE DEF p
  <2>11. KeepInv'
    BY <1>1, <2>2, <2>3, <2>7, <2>8, <2>9, <2>10, MoveKeeps
  <2> QED
    BY <2>6, <2>11
<1>9. CASE PassEnd \/ Restart
  <2>1. PICK copy \in {snap[p], Empty} : snap' = [snap EXCEPT ![p] = copy]
    BY <1>4, <1>9 DEF PassEnd, Restart
  <2>2. Goto(p, "idle") /\ UNCHANGED <<disk, cur, acked, queued, dropped>>
    BY <1>9 DEF PassEnd, Restart, observed
  <2>3. pc'[Daemon] = "idle"
    BY <1>1, <1>4, <2>2 DEF Goto
  <2>4. TodoInv'
    BY <1>3, <2>3 DEF TodoInv
  <2> HIDE DEF p
  <2>5. KeepInv'
    BY <1>1, <1>3, <2>1, <2>2, PlainKeeps
  <2> QED
    BY <2>4, <2>5
<1>10. CASE AttemptSend(Daemon)
  BY <1>1, <1>10, AttemptKeeps
<1>11. CASE CleanSave
  <2>1. PICK old \in SUBSET Msgs :
          /\ Save(Without(snap[p], old))
          /\ dropped' = IF disk' = Without(snap[p], old) THEN dropped \cup old ELSE dropped
    BY <1>11 DEF CleanSave
  <2>2. /\ snap' = [snap EXCEPT ![p] = Empty] /\ Goto(p, "idle")
        /\ UNCHANGED <<cur, acked, queued>> /\ pc[p] = "clean"
    BY <1>11 DEF CleanSave
  <2>3. pc'[Daemon] = "idle"
    BY <1>1, <1>4, <2>2 DEF Goto
  <2>4. TodoInv'
    BY <1>3, <2>3 DEF TodoInv
  <2> HIDE DEF p
  <2>5. KeepInv'
    BY <1>1, <1>2, <2>1, <2>2, DropKeeps
  <2> QED
    BY <2>4, <2>5
<1> QED
  BY <1>5, <1>6, <1>7, <1>8, <1>9, <1>10, <1>11 DEF DaemonStep

\* The steps of a retry or clear command.
LEMMA CommandKeeps ==
    ASSUME ~Overlap, AllInv, NEW p \in RetryCmds \cup ClearCmds,
           RetryStep(p) \/ ClearStep(p)
    PROVE  KeepInv' /\ TodoInv'
<1> USE DEF AllInv
<1>1. p \in Procs /\ p # Daemon
  BY ProcsAssumption DEF Procs
<1>2. "confirm" \in Places \cap Holding /\ "confirm" \notin Attempting \cup Acking
  BY DEF Places, Holding, Sending, Attempting, Acking
<1>3. "done" \in Places /\ "done" \notin Holding \cup Attempting \cup Acking
  BY DEF Places, Holding, Sending, Attempting, Acking
<1>4. CASE AttemptSend(p)
  BY <1>1, <1>4, AttemptKeeps
<1>5. CASE \E m \in Msgs : RetryBegin(p, m)
  <2>1. PICK m \in Msgs : RetryBegin(p, m)
    BY <1>5
  <2>2. /\ snap' = [snap EXCEPT ![p] = disk] /\ Goto(p, "dial")
        /\ cur' = [cur EXCEPT ![p] = m]
        /\ UNCHANGED <<disk, todo, acked, queued, dropped>>
    BY <2>1 DEF RetryBegin, Load, observed
  <2>3. \A q \in Procs : pc[q] \notin Holding
    BY <1>1, <2>1, LoadFree DEF RetryBegin
  <2>4. cur'[p] = m /\ \A q \in Procs \ {p} : cur'[q] = cur[q]
    BY <1>1, <2>2 DEF TypeInv, TypeOK
  <2>5. Only(disk, cur'[p])
    BY <2>1, <2>4 DEF RetryBegin, Refused, Only
  <2>6. Keeps(disk', queued', Settled')
    BY <2>2 DEF KeepInv, Settled
  <2>7. "dial" \in Places /\ "dial" \notin Acking
    BY DEF Places, Holding, Sending, Acking
  <2>8. KeepInv'
    BY <1>1, <2>2, <2>3, <2>4, <2>5, <2>6, <2>7, MoveKeeps
  <2>9. TodoInv'
    BY <1>1, <2>2, <2>4, OthersTodo
  <2> QED
    BY <2>8, <2>9
<1>6. CASE ClearBegin(p)
  <2>1. /\ snap' = [snap EXCEPT ![p] = disk] /\ Goto(p, "confirm")
        /\ UNCHANGED <<disk, cur, todo, acked, queued, dropped>>
        /\ \A q \in Procs : pc[q] \notin Holding
    BY <1>1, <1>6, LoadFree DEF ClearBegin, Load, observed
  <2>2. KeepInv'
    BY <1>1, <1>2, <2>1, PlainKeeps
  <2>3. TodoInv'
    BY <1>1, <2>1, OthersTodo
  <2> QED
    BY <2>2, <2>3
<1>7. CASE ClearAnswer(p)
  <2> DEFINE gone == Clearable(snap[p])
  <2>1. /\ snap' = [snap EXCEPT ![p] = Empty] /\ Goto(p, "done")
        /\ UNCHANGED <<cur, todo, acked, queued>> /\ pc[p] \in Holding
    BY <1>2, <1>7 DEF ClearAnswer
  <2>2. gone \in SUBSET Msgs
    BY DEF Clearable
  <2>3. TodoInv'
    BY <1>1, <2>1, OthersTodo
  <2>4. CASE /\ Save(Without(snap[p], gone))
             /\ dropped' = IF disk' = Without(snap[p], gone) THEN dropped \cup gone ELSE dropped
    <3> HIDE DEF gone
    <3> QED
      BY <1>1, <2>1, <2>2, <2>3, <2>4, DropKeeps
  <2>5. CASE UNCHANGED <<disk, faults, dropped>>
    BY <1>1, <1>3, <2>1, <2>3, <2>5, PlainKeeps
  <2> QED
    BY <1>7, <2>4, <2>5 DEF ClearAnswer
<1> QED
  BY <1>4, <1>5, <1>6, <1>7 DEF RetryStep, ClearStep

\* The steps of `agent msg`, which removes an entry only after an OK.
LEMMA SenderKeeps ==
    ASSUME ~Overlap, AllInv, NEW m \in Fresh, SendStep(m)
    PROVE  KeepInv' /\ TodoInv'
<1> USE DEF AllInv
<1>1. m \in Procs /\ m # Daemon /\ m \in Msgs
  BY ProcsAssumption DEF Procs, Msgs
<1>2. {"record", "loadrm", "loadadd", "done"} \subseteq Places \ (Holding \cup Attempting)
  BY DEF Places, Holding, Sending, Attempting
<1>3. {"unqueue", "enqueue"} \subseteq (Places \cap Holding) \ Attempting
  BY DEF Places, Holding, Sending, Attempting
<1>4. "loadadd" \notin Acking /\ "enqueue" \notin Acking /\ "done" \notin Acking
  BY DEF Acking
<1>5. snap = [snap EXCEPT ![m] = snap[m]]
  BY DEF TypeInv, TypeOK
<1>6. CASE SendAcked(m) \/ SendFailed(m) \/ SendRecord(m)
  <2>1. PICK place \in {"record", "loadadd", "loadrm"} :
          Goto(m, place) /\ (place \in Acking => m \in acked')
    BY <1>4, <1>6 DEF SendAcked, SendFailed, SendRecord, Acknowledge, observed, KeepInv, Acking
  <2>2. UNCHANGED <<disk, snap, cur, todo, queued, dropped>> /\ acked \subseteq acked'
    BY <1>6 DEF SendAcked, SendFailed, SendRecord, Acknowledge, observed
  <2>3. KeepInv'
    BY <1>1, <1>2, <1>5, <2>1, <2>2, PlainKeeps
  <2>4. TodoInv'
    BY <1>1, <1>5, <2>1, <2>2, OthersTodo
  <2> QED
    BY <2>3, <2>4
<1>7. CASE SendLoad(m)
  <2>1. PICK place \in {"unqueue", "enqueue"} :
          Goto(m, place) /\ (place \in Acking => m \in acked)
    BY <1>4, <1>7 DEF SendLoad, KeepInv, Acking
  <2>2. /\ snap' = [snap EXCEPT ![m] = disk]
        /\ UNCHANGED <<disk, cur, todo, acked, queued, dropped>>
        /\ \A q \in Procs : pc[q] \notin Holding
    BY <1>1, <1>7, LoadFree DEF SendLoad, Load, observed
  <2>3. KeepInv'
    BY <1>1, <1>3, <2>1, <2>2, PlainKeeps
  <2>4. TodoInv'
    BY <1>1, <2>1, <2>2, OthersTodo
  <2> QED
    BY <2>3, <2>4
<1>8. CASE SendSave(m)
  <2> DEFINE ob == IF pc[m] = "enqueue" THEN Added(snap[m], m) ELSE Removed(snap[m], m)
  <2>1. pc[m] \in {"unqueue", "enqueue"} /\ pc[m] \in Holding
    BY <1>3, <1>8 DEF SendSave
  <2>2. /\ snap[m] \in Copies /\ queued \in SUBSET Msgs
        /\ Keeps(snap[m], queued, Settled) /\ Keeps(disk, queued, Settled)
    BY <1>1, <2>1 DEF TypeInv, TypeOK, Copies, KeepInv
  <2>3. /\ Save(ob) /\ snap' = [snap EXCEPT ![m] = Empty] /\ Goto(m, "done")
        /\ queued' = (IF pc[m] = "enqueue" /\ disk' = ob THEN queued \cup {m} ELSE queued)
        /\ UNCHANGED <<cur, todo, acked, dropped>>
    BY <1>8 DEF SendSave
  <2>4. Keeps(disk', queued', Settled')
    <3>1. Settled' = Settled
      BY <2>3 DEF Settled
    <3>2. CASE disk' = disk /\ queued' = queued
      BY <2>2, <3>1, <3>2
    <3>3. CASE pc[m] = "enqueue" /\ disk' = ob
      BY <1>1, <2>2, <2>3, <3>1, <3>3, OperationKeeps
    <3>4. CASE pc[m] = "unqueue" /\ disk' = ob
      <4>1. m \in Settled
        BY <3>4 DEF KeepInv, Acking, Settled
      <4> QED
        BY <1>1, <2>2, <2>3, <3>1, <3>4, <4>1, OperationKeeps
    <3> HIDE DEF ob
    <3> QED
      BY <2>1, <2>3, <3>2, <3>3, <3>4 DEF Save
  <2> HIDE DEF ob
  <2>5. KeepInv'
    BY <1>1, <1>2, <1>4, <2>1, <2>3, <2>4, MoveKeeps
  <2>6. TodoInv'
    BY <1>1, <2>3, OthersTodo
  <2> QED
    BY <2>5, <2>6
<1> QED
  BY <1>6, <1>7, <1>8 DEF SendStep

\* A crash gives the copy up and leaves the file as it is.
LEMMA CrashKeeps ==
    ASSUME AllInv, NEW p \in Procs, Crash(p)
    PROVE  KeepInv' /\ TodoInv'
<1> USE DEF AllInv
<1>1. PICK place \in {"down", "done"} : Goto(p, place) /\ (p = Daemon => place = "down")
  BY DEF Crash
<1>2. /\ snap' = [snap EXCEPT ![p] = Empty]
      /\ \A q \in Procs \ {p} : cur'[q] = cur[q]
      /\ UNCHANGED <<disk, acked, queued, dropped>>
  BY DEF Crash, observed, TypeInv, TypeOK
<1>3. {"down", "done"} \subseteq Places \ (Holding \cup Attempting \cup Acking \cup Sending \cup {"pass"})
  BY DEF Places, Holding, Sending, Attempting, Acking
<1>4. KeepInv'
  BY <1>1, <1>2, <1>3, PlainKeeps
<1>5. CASE p = Daemon
  <2>1. pc'[Daemon] = "down"
    BY <1>1, <1>5 DEF Goto, TypeInv, TypeOK
  <2> QED
    BY <1>3, <1>4, <2>1 DEF TodoInv
<1>6. CASE p # Daemon
  <2>1. UNCHANGED todo
    BY <1>6 DEF Crash
  <2> QED
    BY <1>1, <1>2, <1>4, <1>6, <2>1, OthersTodo
<1> QED
  BY <1>5, <1>6

\* The conjunction of the four invariants is inductive.
LEMMA StepKeeps == ~Overlap /\ AllInv /\ [Next]_vars => AllInv'
<1> SUFFICES ASSUME ~Overlap, AllInv, [Next]_vars PROVE AllInv'
  OBVIOUS
<1>1. TypeInv' /\ EarnedInv'
  BY StepTypes, StepEarned DEF AllInv
<1>2. RetryCmds \cup ClearCmds \subseteq Procs
  BY DEF Procs
<1>3. CASE DaemonStep
  BY <1>1, <1>3, DaemonKeeps DEF AllInv
<1>4. CASE \E p \in RetryCmds : RetryStep(p)
  BY <1>1, <1>4, CommandKeeps DEF AllInv
<1>5. CASE \E p \in ClearCmds : ClearStep(p)
  BY <1>1, <1>5, CommandKeeps DEF AllInv
<1>6. CASE \E m \in Fresh : SendStep(m)
  BY <1>1, <1>6, SenderKeeps DEF AllInv
<1>7. CASE \E p \in Procs : Crash(p)
  BY <1>1, <1>7, CrashKeeps DEF AllInv
<1>8. CASE UNCHANGED vars
  <2>1. KeepInv' /\ TodoInv'
    BY <1>8 DEF vars, AllInv, KeepInv, TodoInv, Settled
  <2> QED
    BY <1>1, <2>1 DEF AllInv
<1> QED
  BY <1>3, <1>4, <1>5, <1>6, <1>7, <1>8 DEF Next

\* While windows do not overlap, a queued message stays in outbox.json until a
\* relay acknowledged it, the user cleared it or the cleanup removed it.
THEOREM NothingLost ==
    ASSUME ~Overlap
    PROVE  Spec => []NoSilentLoss
<1>1. Init => AllInv
  BY InitTypes, InitEarned, InitKeeps DEF AllInv
<1>2. AllInv /\ [Next]_vars => AllInv'
  BY StepKeeps
<1>3. AllInv => NoSilentLoss
  BY DEF AllInv, KeepInv, Keeps, Settled, NoSilentLoss
<1> QED
  BY <1>1, <1>2, <1>3, PTL DEF Spec

=============================================================================
