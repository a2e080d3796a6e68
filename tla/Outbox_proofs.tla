--------------------------- MODULE Outbox_proofs ---------------------------
(***************************************************************************)
(* Theorems about Outbox, for any number of messages, commands, retries,   *)
(* crashes and failed writes.                                              *)
(***************************************************************************)
EXTENDS Outbox, FiniteSetTheorems, TLAPS

Copies == [Msgs -> Entry]

\* A process that is sending has a message to send.
Aims == \A p \in Procs : pc[p] \in Sending => cur[p] \in Msgs

TypeInv == TypeOK /\ Aims

-----------------------------------------------------------------------------
(* What the operations on a loaded outbox return.                          *)

\* The operations on a loaded copy return copies of the same type.
LEMMA OperationTypes ==
    ASSUME NEW ob \in Copies, NEW m \in Msgs, NEW gone
    PROVE  /\ \A s \in {"sent", "failed"} : WithStatus(ob, m, s) \in Copies
           /\ WithRetry(ob, m) \in Copies
           /\ Added(ob, m) \in Copies
           /\ Removed(ob, m) \in Copies
           /\ Without(ob, gone) \in Copies
           /\ Empty \in Copies
<1>1. Absent \in Entry /\ Pending \in Entry
  BY DEF Absent, Pending, Entry
<1>2. ob[m] \in Entry
  BY DEF Copies
<1>3. \A s \in {"sent", "failed"} : [ob[m] EXCEPT !.status = s] \in Entry
  BY <1>2 DEF Entry
<1>4. [ob[m] EXCEPT !.retries = ob[m].retries + 1] \in Entry
  BY <1>2 DEF Entry
<1>5. \A s \in {"sent", "failed"} : WithStatus(ob, m, s) \in Copies
  BY <1>3 DEF WithStatus, Copies
<1>6. WithRetry(ob, m) \in Copies
  BY <1>4 DEF WithRetry, Copies
<1>7. Added(ob, m) \in Copies
  BY <1>1 DEF Added, Copies
<1>8. Removed(ob, m) \in Copies
  BY <1>1 DEF Removed, Copies
<1>9. Without(ob, gone) \in Copies
  BY <1>1 DEF Without, Copies
<1>10. Empty \in Copies
  BY <1>1 DEF Empty, Copies
<1> QED
  BY <1>5, <1>6, <1>7, <1>8, <1>9, <1>10

\* A save, also a failed one, leaves a typed file and counts within the bound.
LEMMA SaveType ==
    ASSUME NEW ob \in Copies, disk \in Copies, faults \in 0 .. MaxFaults, Save(ob)
    PROVE  disk' \in Copies /\ faults' \in 0 .. MaxFaults
BY BoundsAssumption DEF Save

\* So does a write to the message store.
LEMMA RecordType ==
    ASSUME NEW m \in Msgs, history \subseteq Msgs, faults \in 0 .. MaxFaults, Record(m)
    PROVE  history' \subseteq Msgs /\ faults' \in 0 .. MaxFaults
BY BoundsAssumption DEF Record

\* The initial states are typed and nobody is sending.
LEMMA InitTypes == Init => TypeInv
<1> SUFFICES ASSUME Init PROVE TypeInv
  OBVIOUS
<1>1. disk \in [Msgs -> Entry]
  BY BoundsAssumption DEF Init, Entry, Absent
<1>2. Empty \in Copies
  BY DEF Empty, Copies, Absent, Entry
<1>3. snap \in [Procs -> [Msgs -> Entry]]
  BY <1>2 DEF Init, Copies
<1>4. pc \in [Procs -> Places]
  BY DEF Init, Places
<1>5. cur \in [Procs -> Msgs \cup {"none"}]
  BY DEF Init
<1>6. faults \in 0 .. MaxFaults
  BY BoundsAssumption DEF Init
<1>7. Legacy \subseteq Msgs
  BY DEF Msgs
<1>8. Aims
  BY DEF Init, Aims, Sending
<1> QED
  BY <1>1, <1>3, <1>4, <1>5, <1>6, <1>7, <1>8 DEF TypeInv, TypeOK, Init

\* A type-correct assignment to snap, pc and cur after one process moved.
LEMMA MoveTypes ==
    ASSUME TypeInv, NEW p \in Procs, NEW ob \in Copies, NEW place \in Places,
           snap' = [snap EXCEPT ![p] = ob],
           Goto(p, place),
           \/ UNCHANGED cur /\ (place \in Sending => cur[p] \in Msgs)
           \/ \E m \in Msgs : cur' = [cur EXCEPT ![p] = m]
           \/ cur' = [cur EXCEPT ![p] = "none"] /\ place \notin Sending
    PROVE  /\ snap' \in [Procs -> [Msgs -> Entry]]
           /\ pc' \in [Procs -> Places]
           /\ cur' \in [Procs -> Msgs \cup {"none"}]
           /\ Aims'
<1>1. snap' \in [Procs -> [Msgs -> Entry]]
  BY DEF TypeInv, TypeOK, Copies
<1>2. pc' \in [Procs -> Places]
  BY DEF TypeInv, TypeOK, Goto
<1>3. cur' \in [Procs -> Msgs \cup {"none"}]
  BY DEF TypeInv, TypeOK
<1>4. ASSUME NEW q \in Procs, pc'[q] \in Sending PROVE cur'[q] \in Msgs
  <2>1. CASE q = p
    BY <1>4, <2>1 DEF TypeInv, TypeOK, Goto
  <2>2. CASE q # p
    BY <1>4, <2>2 DEF TypeInv, TypeOK, Aims, Goto
  <2> QED
    BY <2>1, <2>2
<1> QED
  BY <1>1, <1>2, <1>3, <1>4 DEF Aims

\* Resume and the steps that keep the copy are such moves.
LEMMA ResumeTypes ==
    ASSUME TypeInv, NEW p \in Procs, NEW ob \in Copies, Resume(p, ob)
    PROVE  /\ snap' \in [Procs -> [Msgs -> Entry]]
           /\ pc' \in [Procs -> Places]
           /\ cur' \in [Procs -> Msgs \cup {"none"}]
           /\ Aims'
<1> DEFINE place == IF p = Daemon THEN "pass" ELSE "done"
           copy  == IF p = Daemon THEN ob ELSE Empty
<1>1. Empty \in Copies
  BY DEF Empty, Copies, Absent, Entry
<1>2. place \in Places /\ place \notin Sending /\ copy \in Copies
  BY <1>1 DEF Places, Holding, Sending
<1>3. /\ snap' = [snap EXCEPT ![p] = copy]
      /\ Goto(p, place)
      /\ cur' = [cur EXCEPT ![p] = "none"]
  BY DEF Resume
<1> HIDE DEF place, copy
<1> QED
  BY <1>2, <1>3, MoveTypes

\* The steps of AttemptSend, whoever runs it, keep the types.
LEMMA AttemptTypes ==
    ASSUME TypeInv, NEW p \in Procs, AttemptSend(p)
    PROVE  TypeInv'
<1> DEFINE m == cur[p]
<1>1. pc[p] \in Sending
  BY DEF AttemptSend, PublishAcked, PublishFailed, MarkSent, Unlist,
         StoreSent, RaiseRetry, GiveUp, Sending
<1>2. m \in Msgs
  BY <1>1 DEF TypeInv, Aims
<1>3. /\ disk \in Copies /\ snap[p] \in Copies /\ faults \in 0 .. MaxFaults
      /\ history \subseteq Msgs /\ acked \subseteq Msgs /\ resent \subseteq Msgs
      /\ queued \subseteq Msgs /\ dropped \subseteq Msgs /\ todo \subseteq Msgs
      /\ snap = [snap EXCEPT ![p] = snap[p]]
  BY DEF TypeInv, TypeOK, Copies
<1>4. CASE PublishAcked(p) \/ PublishFailed(p)
  <2>1. PICK place \in {"sent", "raise"} : Goto(p, place)
    BY <1>4 DEF PublishAcked, PublishFailed
  <2>2. place \in Places /\ place \in Sending
    BY DEF Places, Holding, Sending
  <2>3. snap' = [snap EXCEPT ![p] = snap[p]] /\ UNCHANGED cur
    BY <1>3, <1>4 DEF PublishAcked, PublishFailed
  <2>4. acked' \subseteq Msgs /\ resent' \subseteq Msgs
    BY <1>2, <1>3, <1>4 DEF PublishAcked, PublishFailed, Acknowledge, observed
  <2>5. UNCHANGED <<disk, todo, history, faults, queued, dropped>>
    BY <1>4 DEF PublishAcked, PublishFailed, Acknowledge, observed
  <2> QED
    BY <1>2, <1>3, <2>1, <2>2, <2>3, <2>4, <2>5, MoveTypes
    DEF TypeInv, TypeOK, Copies
<1>5. CASE MarkSent(p) \/ Unlist(p)
  <2>1. PICK ob \in Copies, place \in {"remove", "store"} :
          /\ Save(ob)
          /\ snap' = [snap EXCEPT ![p] = ob]
          /\ Goto(p, place)
    BY <1>2, <1>3, <1>5, OperationTypes DEF MarkSent, Unlist
  <2>2. place \in Places /\ place \in Sending
    BY DEF Places, Holding, Sending
  <2>3. disk' \in Copies /\ faults' \in 0 .. MaxFaults
    BY <1>3, <2>1, SaveType
  <2>4. UNCHANGED <<cur, todo, history, acked, resent, queued, dropped>>
    BY <1>5 DEF MarkSent, Unlist, observed
  <2> QED
    BY <1>2, <1>3, <2>1, <2>2, <2>3, <2>4, MoveTypes
    DEF TypeInv, TypeOK, Copies
<1>6. CASE StoreSent(p)
  <2>1. history' \subseteq Msgs /\ faults' \in 0 .. MaxFaults
    BY <1>2, <1>3, <1>6, RecordType DEF StoreSent
  <2>2. UNCHANGED <<disk, todo, acked, resent, queued, dropped>>
    BY <1>6 DEF StoreSent, observed
  <2> QED
    BY <1>3, <1>6, <2>1, <2>2, ResumeTypes
    DEF StoreSent, TypeInv, TypeOK, Copies
<1>7. CASE RaiseRetry(p)
  <2> DEFINE ob == WithRetry(snap[p], m)
  <2>1. ob \in Copies
    BY <1>2, <1>3, OperationTypes
  <2>2. disk' \in Copies /\ faults' \in 0 .. MaxFaults
    BY <1>3, <1>7, <2>1, SaveType DEF RaiseRetry
  <2>3. UNCHANGED <<todo, history, acked, resent, queued, dropped>>
    BY <1>7 DEF RaiseRetry, observed
  <2>4. CASE snap' = [snap EXCEPT ![p] = ob] /\ Goto(p, "giveup") /\ UNCHANGED cur
    <3>1. "giveup" \in Places
      BY DEF Places, Holding, Sending
    <3> QED
      BY <1>2, <1>3, <2>1, <2>2, <2>3, <2>4, <3>1, MoveTypes
      DEF TypeInv, TypeOK, Copies
  <2>5. CASE Resume(p, ob)
    BY <1>3, <2>1, <2>2, <2>3, <2>5, ResumeTypes DEF TypeInv, TypeOK, Copies
  <2> QED
    BY <1>7, <2>4, <2>5 DEF RaiseRetry
<1>8. CASE GiveUp(p)
  <2> DEFINE ob == WithStatus(snap[p], m, "failed")
  <2>1. ob \in Copies
    BY <1>2, <1>3, OperationTypes
  <2>2. disk' \in Copies /\ faults' \in 0 .. MaxFaults
    BY <1>3, <1>8, <2>1, SaveType DEF GiveUp
  <2>3. UNCHANGED <<todo, history, acked, resent, queued, dropped>>
    BY <1>8 DEF GiveUp, observed
  <2> QED
    BY <1>3, <1>8, <2>1, <2>2, <2>3, ResumeTypes
    DEF GiveUp, TypeInv, TypeOK, Copies
<1> QED
  BY <1>4, <1>5, <1>6, <1>7, <1>8 DEF AttemptSend

\* The daemon's steps keep the types.
LEMMA DaemonTypes == TypeInv /\ DaemonStep => TypeInv'
<1> SUFFICES ASSUME TypeInv, DaemonStep PROVE TypeInv'
  OBVIOUS
<1> DEFINE p == Daemon
<1>1. p \in Procs
  BY DEF Procs
<1>2. /\ disk \in Copies /\ snap[p] \in Copies /\ faults \in 0 .. MaxFaults
      /\ snap = [snap EXCEPT ![p] = snap[p]]
      /\ Empty \in Copies
  BY <1>1 DEF TypeInv, TypeOK, Copies, Empty, Absent, Entry
<1>3. {"idle", "pass", "dial", "clean"} \subseteq Places
  BY DEF Places, Holding, Sending
<1>4. {"idle", "pass", "clean"} \cap Sending = {}
  BY DEF Sending
<1>5. CASE PassBegin \/ CleanBegin
  <2>1. PICK place \in {"pass", "clean"} :
          Goto(p, place) /\ snap' = [snap EXCEPT ![p] = disk] /\ UNCHANGED cur
    BY <1>5 DEF PassBegin, CleanBegin, Load
  <2>2. place \in Places /\ place \notin Sending
    BY <1>3, <1>4
  <2>3. todo' \subseteq Msgs
    BY <1>5 DEF PassBegin, CleanBegin, Sendable, TypeInv, TypeOK
  <2>4. UNCHANGED <<disk, history, faults, acked, resent, queued, dropped>>
    BY <1>5 DEF PassBegin, CleanBegin, observed
  <2>. HIDE DEF p
  <2> QED
    BY <1>1, <1>2, <2>1, <2>2, <2>3, <2>4, MoveTypes DEF TypeInv, TypeOK
<1>6. CASE \E m \in Msgs : PassOver(m)
  BY <1>6 DEF PassOver, observed, TypeInv, TypeOK, Aims
<1>7. CASE \E m \in Msgs : PassSend(m)
  <2>1. PICK m \in Msgs : PassSend(m)
    BY <1>7
  <2>2. snap' = [snap EXCEPT ![p] = snap[p]]
    BY <1>2, <2>1 DEF PassSend
  <2>3. Goto(p, "dial") /\ cur' = [cur EXCEPT ![p] = m] /\ todo' \subseteq Msgs
    BY <2>1 DEF PassSend, TypeInv, TypeOK
  <2>4. UNCHANGED <<disk, history, faults, acked, resent, queued, dropped>>
    BY <2>1 DEF PassSend, observed
  <2>. HIDE DEF p
  <2> QED
    BY <1>1, <1>2, <1>3, <2>2, <2>3, <2>4, MoveTypes DEF TypeInv, TypeOK
<1>8. CASE PassEnd
  <2>1. snap' = [snap EXCEPT ![p] = Empty] /\ Goto(p, "idle") /\ UNCHANGED cur
    BY <1>8 DEF PassEnd
  <2>2. UNCHANGED <<disk, todo, history, faults, acked, resent, queued, dropped>>
    BY <1>8 DEF PassEnd, observed
  <2>. HIDE DEF p
  <2> QED
    BY <1>1, <1>2, <1>3, <1>4, <2>1, <2>2, MoveTypes DEF TypeInv, TypeOK
<1>9. CASE AttemptSend(Daemon)
  BY <1>1, <1>9, AttemptTypes
<1>10. CASE CleanSave
  <2>1. PICK old \in SUBSET Msgs :
          /\ Save(Without(snap[p], old))
          /\ dropped' = IF disk' = Without(snap[p], old) THEN dropped \cup old ELSE dropped
          /\ snap' = [snap EXCEPT ![p] = Empty]
          /\ Goto(p, "idle")
          /\ UNCHANGED <<cur, todo, history, acked, resent, queued>>
    BY <1>10 DEF CleanSave
  <2>2. Without(snap[p], old) \in Copies
    BY <1>2 DEF Without, Copies, Absent, Entry
  <2>3. disk' \in Copies /\ faults' \in 0 .. MaxFaults
    BY <1>2, <2>1, <2>2, SaveType
  <2>4. dropped' \subseteq Msgs
    BY <2>1 DEF TypeInv, TypeOK
  <2>. HIDE DEF p
  <2> QED
    BY <1>1, <1>2, <1>3, <1>4, <2>1, <2>3, <2>4, MoveTypes
    DEF TypeInv, TypeOK, Copies
<1>11. CASE Restart
  <2>1. /\ snap' = [snap EXCEPT ![p] = snap[p]]
        /\ Goto(p, "idle") /\ UNCHANGED cur
    BY <1>2, <1>11 DEF Restart
  <2>2. UNCHANGED <<disk, todo, history, faults, acked, resent, queued, dropped>>
    BY <1>11 DEF Restart, observed
  <2>. HIDE DEF p
  <2> QED
    BY <1>1, <1>2, <1>3, <1>4, <2>1, <2>2, MoveTypes DEF TypeInv, TypeOK
<1> QED
  BY <1>5, <1>6, <1>7, <1>8, <1>9, <1>10, <1>11 DEF DaemonStep

\* The steps of the retry and clear commands keep the types.
LEMMA CommandTypes ==
    ASSUME TypeInv, NEW p \in Procs, RetryStep(p) \/ ClearStep(p)
    PROVE  TypeInv'
<1>1. /\ disk \in Copies /\ snap[p] \in Copies /\ faults \in 0 .. MaxFaults
      /\ Empty \in Copies
  BY DEF TypeInv, TypeOK, Copies, Empty, Absent, Entry
<1>2. {"dial", "confirm", "done"} \subseteq Places
  BY DEF Places, Holding, Sending
<1>3. {"confirm", "done"} \cap Sending = {}
  BY DEF Sending
<1>4. CASE AttemptSend(p)
  BY <1>4, AttemptTypes
<1>5. CASE \E m \in Msgs : RetryBegin(p, m)
  <2>1. PICK m \in Msgs : RetryBegin(p, m)
    BY <1>5
  <2>2. /\ snap' = [snap EXCEPT ![p] = disk]
        /\ Goto(p, "dial")
        /\ cur' = [cur EXCEPT ![p] = m]
    BY <2>1 DEF RetryBegin, Load
  <2>3. UNCHANGED <<disk, todo, history, faults, acked, resent, queued, dropped>>
    BY <2>1 DEF RetryBegin, observed
  <2> QED
    BY <1>1, <1>2, <2>2, <2>3, MoveTypes DEF TypeInv, TypeOK
<1>6. CASE ClearBegin(p)
  <2>1. /\ snap' = [snap EXCEPT ![p] = disk]
        /\ Goto(p, "confirm")
        /\ UNCHANGED cur
    BY <1>6 DEF ClearBegin, Load
  <2>2. UNCHANGED <<disk, todo, history, faults, acked, resent, queued, dropped>>
    BY <1>6 DEF ClearBegin, observed
  <2> QED
    BY <1>1, <1>2, <1>3, <2>1, <2>2, MoveTypes DEF TypeInv, TypeOK
<1>7. CASE ClearAnswer(p)
  <2> DEFINE gone == Clearable(snap[p])
             ob   == Without(snap[p], gone)
  <2>1. ob \in Copies /\ gone \subseteq Msgs
    BY <1>1 DEF Without, Copies, Absent, Entry, Clearable
  <2>2. /\ snap' = [snap EXCEPT ![p] = Empty]
        /\ Goto(p, "done")
        /\ UNCHANGED <<cur, todo, history, acked, resent, queued>>
    BY <1>7 DEF ClearAnswer
  <2>3. CASE /\ Save(ob)
             /\ dropped' = IF disk' = ob THEN dropped \cup gone ELSE dropped
    <3>1. disk' \in Copies /\ faults' \in 0 .. MaxFaults
      BY <1>1, <2>1, <2>3, SaveType
    <3>2. dropped' \subseteq Msgs
      BY <2>1, <2>3 DEF TypeInv, TypeOK
    <3> QED
      BY <1>1, <1>2, <1>3, <2>2, <3>1, <3>2, MoveTypes DEF TypeInv, TypeOK, Copies
  <2>4. CASE UNCHANGED <<disk, faults, dropped>>
    BY <1>1, <1>2, <1>3, <2>2, <2>4, MoveTypes DEF TypeInv, TypeOK
  <2> QED
    BY <1>7, <2>3, <2>4 DEF ClearAnswer
<1> QED
  BY <1>4, <1>5, <1>6, <1>7 DEF RetryStep, ClearStep

\* The steps of agent msg keep the types.
LEMMA SenderTypes ==
    ASSUME TypeInv, NEW m \in Fresh, SendStep(m)
    PROVE  TypeInv'
<1>1. m \in Procs /\ m \in Msgs
  BY DEF Procs, Msgs
<1>2. /\ disk \in Copies /\ snap[m] \in Copies /\ faults \in 0 .. MaxFaults
      /\ snap = [snap EXCEPT ![m] = snap[m]]
      /\ history \subseteq Msgs /\ acked \subseteq Msgs /\ resent \subseteq Msgs
      /\ queued \subseteq Msgs /\ dropped \subseteq Msgs /\ todo \subseteq Msgs
      /\ Empty \in Copies
  BY <1>1 DEF TypeInv, TypeOK, Copies, Empty, Absent, Entry
<1>3. {"record", "loadrm", "loadadd", "unqueue", "enqueue", "done"} \subseteq Places
  BY DEF Places, Holding, Sending
<1>4. {"record", "loadrm", "loadadd", "unqueue", "enqueue", "done"} \cap Sending = {}
  BY DEF Sending
<1>5. CASE SendAcked(m) \/ SendFailed(m) \/ SendRecord(m)
  <2>1. PICK place \in {"record", "loadadd", "loadrm"} : Goto(m, place)
    BY <1>5 DEF SendAcked, SendFailed, SendRecord
  <2>2. snap' = [snap EXCEPT ![m] = snap[m]] /\ UNCHANGED <<cur, disk, todo>>
    BY <1>2, <1>5 DEF SendAcked, SendFailed, SendRecord
  <2>3. /\ history' \subseteq Msgs /\ faults' \in 0 .. MaxFaults
        /\ acked' \subseteq Msgs /\ resent' \subseteq Msgs
        /\ queued' \subseteq Msgs /\ dropped' \subseteq Msgs
    BY <1>1, <1>2, <1>5, RecordType
    DEF SendAcked, SendFailed, SendRecord, Acknowledge, observed
  <2> QED
    BY <1>1, <1>2, <1>3, <1>4, <2>1, <2>2, <2>3, MoveTypes
    DEF TypeInv, TypeOK, Copies
<1>6. CASE SendLoad(m)
  <2>1. PICK place \in {"unqueue", "enqueue"} : Goto(m, place)
    BY <1>6 DEF SendLoad
  <2>2. snap' = [snap EXCEPT ![m] = disk] /\ UNCHANGED cur
    BY <1>6 DEF SendLoad, Load
  <2>3. UNCHANGED <<disk, todo, history, faults, acked, resent, queued, dropped>>
    BY <1>6 DEF SendLoad, observed
  <2> QED
    BY <1>1, <1>2, <1>3, <1>4, <2>1, <2>2, <2>3, MoveTypes DEF TypeInv, TypeOK
<1>7. CASE SendSave(m)
  <2>1. PICK ob \in Copies :
          /\ Save(ob)
          /\ queued' = IF pc[m] = "enqueue" /\ disk' = ob
                       THEN queued \cup {m} ELSE queued
    BY <1>1, <1>2, <1>7, OperationTypes DEF SendSave
  <2>2. disk' \in Copies /\ faults' \in 0 .. MaxFaults
    BY <1>2, <2>1, SaveType
  <2>3. queued' \subseteq Msgs
    BY <1>1, <1>2, <2>1
  <2>4. /\ snap' = [snap EXCEPT ![m] = Empty]
        /\ Goto(m, "done")
        /\ UNCHANGED <<cur, todo, history, acked, resent, dropped>>
    BY <1>7 DEF SendSave
  <2> QED
    BY <1>1, <1>2, <1>3, <1>4, <2>2, <2>3, <2>4, MoveTypes
    DEF TypeInv, TypeOK, Copies
<1> QED
  BY <1>5, <1>6, <1>7 DEF SendStep

\* Killing a process keeps the types.
LEMMA CrashTypes ==
    ASSUME TypeInv, NEW p \in Procs, Crash(p)
    PROVE  TypeInv'
<1> DEFINE place == IF p = Daemon THEN "down" ELSE "done"
<1>1. place \in Places /\ place \notin Sending
  BY DEF Places, Holding, Sending
<1>2. Empty \in Copies
  BY DEF Copies, Empty, Absent, Entry
<1>3. /\ snap' = [snap EXCEPT ![p] = Empty]
      /\ cur' = [cur EXCEPT ![p] = "none"]
      /\ Goto(p, place)
  BY DEF Crash
<1>4. faults' \in 0 .. MaxFaults /\ todo' \subseteq Msgs
  BY BoundsAssumption DEF Crash, TypeInv, TypeOK
<1>5. UNCHANGED <<disk, history, acked, resent, queued, dropped>>
  BY DEF Crash, observed
<1> HIDE DEF place
<1> QED
  BY <1>1, <1>2, <1>3, <1>4, <1>5, MoveTypes DEF TypeInv, TypeOK

\* TypeInv is inductive: one case per disjunct of Next, and stuttering.
LEMMA StepTypes == TypeInv /\ [Next]_vars => TypeInv'
<1> SUFFICES ASSUME TypeInv, [Next]_vars PROVE TypeInv'
  OBVIOUS
<1>1. /\ Daemon \in Procs /\ RetryCmds \subseteq Procs /\ ClearCmds \subseteq Procs
  BY DEF Procs
<1>2. CASE DaemonStep
  BY <1>2, DaemonTypes
<1>3. CASE \E p \in RetryCmds : RetryStep(p)
  BY <1>1, <1>3, CommandTypes
<1>4. CASE \E p \in ClearCmds : ClearStep(p)
  BY <1>1, <1>4, CommandTypes
<1>5. CASE \E m \in Fresh : SendStep(m)
  BY <1>5, SenderTypes
<1>6. CASE \E p \in Procs : Crash(p)
  BY <1>6, CrashTypes
<1>7. CASE UNCHANGED vars
  BY <1>7 DEF vars, TypeInv, TypeOK, Aims
<1> QED
  BY <1>2, <1>3, <1>4, <1>5, <1>6, <1>7 DEF Next

\* Every variable keeps its type, and a sending process has a message.
THEOREM TypeCorrect == Spec => []TypeOK
<1>1. Spec => []TypeInv
  BY InitTypes, StepTypes, PTL DEF Spec
<1>2. TypeInv => TypeOK
  BY DEF TypeInv
<1> QED
  BY <1>1, <1>2, PTL

-----------------------------------------------------------------------------
(***************************************************************************)
(* StatusIsEarned holds however the load-to-save windows overlap, because  *)
(* it holds of every copy: a stale copy may undo a verdict but cannot      *)
(* invent one.  The inductive invariant adds what a process knows between  *)
(* its publish and its last save.                                          *)
(***************************************************************************)
Earned(ob, accepted) ==
    \A m \in Msgs :
        /\ ob[m].status = "sent" => m \in accepted
        /\ ob[m].status = "failed" => ob[m].retries >= MaxRetries

EarnedInv ==
    /\ Earned(disk, acked)
    /\ \A p \in Procs : Earned(snap[p], acked)
    /\ \A p \in Procs : pc[p] \in {"sent", "remove", "store"} => cur[p] \in acked
    /\ \A p \in Procs : pc[p] = "giveup" => snap[p][cur[p]].retries >= MaxRetries

\* No operation on a copy invents a verdict.
LEMMA OperationsEarned ==
    ASSUME NEW ob \in Copies, NEW m \in Msgs, NEW gone, NEW accepted,
           Earned(ob, accepted)
    PROVE  /\ m \in accepted => Earned(WithStatus(ob, m, "sent"), accepted)
           /\ ob[m].retries >= MaxRetries => Earned(WithStatus(ob, m, "failed"), accepted)
           /\ Earned(WithRetry(ob, m), accepted)
           /\ Earned(Added(ob, m), accepted)
           /\ Earned(Removed(ob, m), accepted)
           /\ Earned(Without(ob, gone), accepted)
           /\ Earned(Empty, accepted)
<1>1. m \in accepted => Earned(WithStatus(ob, m, "sent"), accepted)
  BY DEF Earned, WithStatus, Copies, Entry
<1>2. ob[m].retries >= MaxRetries => Earned(WithStatus(ob, m, "failed"), accepted)
  BY DEF Earned, WithStatus, Copies, Entry
<1>3. Earned(WithRetry(ob, m), accepted)
  BY BoundsAssumption DEF Earned, WithRetry, Copies, Entry
<1>4. Earned(Added(ob, m), accepted)
  BY DEF Earned, Added, Pending, Copies
<1>5. Earned(Removed(ob, m), accepted)
  BY DEF Earned, Removed, Absent, Copies
<1>6. Earned(Without(ob, gone), accepted)
  BY DEF Earned, Without, Absent, Copies
<1>7. Earned(Empty, accepted)
  BY DEF Earned, Empty, Absent
<1> QED
  BY <1>1, <1>2, <1>3, <1>4, <1>5, <1>6, <1>7

\* A save publishes an earned file or leaves the earned file that was there.
LEMMA SaveEarned ==
    ASSUME NEW ob, NEW accepted, Earned(disk, accepted), Earned(ob, accepted), Save(ob)
    PROVE  Earned(disk', accepted)
BY DEF Save

\* A verdict that was earned stays earned when more is acknowledged.
LEMMA MoreAccepted ==
    ASSUME NEW ob, NEW A, NEW B, A \subseteq B, Earned(ob, A)
    PROVE  Earned(ob, B)
BY DEF Earned

\* Initially every entry is pending and nobody holds a copy.
LEMMA InitEarned == Init => EarnedInv
<1> SUFFICES ASSUME Init PROVE EarnedInv
  OBVIOUS
<1>1. Earned(disk, acked)
  BY DEF Init, Earned, Absent
<1>2. \A p \in Procs : Earned(snap[p], acked)
  BY DEF Init, Earned, Empty, Absent
<1> QED
  BY <1>1, <1>2 DEF EarnedInv, Init

\* One process moves to a place, with an earned copy, and saves at most that.
LEMMA MoveEarned ==
    ASSUME TypeInv, EarnedInv, NEW p \in Procs, NEW ob, NEW place \in Places,
           acked \subseteq acked',
           Earned(disk', acked'), Earned(ob, acked'),
           snap' = [snap EXCEPT ![p] = ob],
           Goto(p, place),
           \A q \in Procs \ {p} : cur'[q] = cur[q],
           place \in {"sent", "remove", "store"} => cur'[p] \in acked',
           place = "giveup" => ob[cur'[p]].retries >= MaxRetries
    PROVE  EarnedInv'
<1>1. /\ snap'[p] = ob /\ pc'[p] = place
      /\ \A q \in Procs \ {p} : snap'[q] = snap[q] /\ pc'[q] = pc[q]
  BY DEF TypeInv, TypeOK, Goto
<1>2. ASSUME NEW q \in Procs PROVE Earned(snap'[q], acked')
  BY <1>1, <1>2, MoreAccepted DEF EarnedInv
<1>3. ASSUME NEW q \in Procs, pc'[q] \in {"sent", "remove", "store"}
      PROVE  cur'[q] \in acked'
  BY <1>1, <1>3 DEF EarnedInv
<1>4. ASSUME NEW q \in Procs, pc'[q] = "giveup"
      PROVE  snap'[q][cur'[q]].retries >= MaxRetries
  <2>1. CASE q = p
    BY <1>1, <1>4, <2>1
  <2>2. CASE q # p
    BY <1>1, <1>4, <2>2 DEF EarnedInv
  <2> QED
    BY <2>1, <2>2
<1> QED
  BY <1>2, <1>3, <1>4 DEF EarnedInv

\* AttemptSend's return is such a move.
LEMMA ResumeEarned ==
    ASSUME TypeInv, EarnedInv, NEW p \in Procs, NEW ob \in Copies, Resume(p, ob),
           UNCHANGED acked, Earned(disk', acked), Earned(ob, acked)
    PROVE  EarnedInv'
<1> DEFINE place == IF p = Daemon THEN "pass" ELSE "done"
           copy  == IF p = Daemon THEN ob ELSE Empty
<1>1. Earned(Empty, acked)
  BY DEF Earned, Empty, Absent
<1>2. /\ place \in Places
      /\ place \notin {"sent", "remove", "store", "giveup"}
      /\ Earned(copy, acked')
  BY <1>1 DEF Places, Holding, Sending
<1>3. /\ snap' = [snap EXCEPT ![p] = copy]
      /\ Goto(p, place)
      /\ \A q \in Procs \ {p} : cur'[q] = cur[q]
  BY DEF Resume, TypeInv, TypeOK
<1>4. Earned(disk', acked') /\ acked \subseteq acked'
  OBVIOUS
<1> HIDE DEF place, copy
<1> QED
  BY <1>2, <1>3, <1>4, MoveEarned

\* AttemptSend writes "sent" after an OK and "failed" on the last retry.
LEMMA AttemptEarned ==
    ASSUME TypeInv, EarnedInv, NEW p \in Procs, AttemptSend(p)
    PROVE  EarnedInv'
<1> DEFINE m == cur[p]
<1>1. m \in Msgs
  BY DEF AttemptSend, PublishAcked, PublishFailed, MarkSent, Unlist,
         StoreSent, RaiseRetry, GiveUp, Sending, TypeInv, Aims
<1>2. /\ disk \in Copies /\ snap[p] \in Copies
      /\ snap = [snap EXCEPT ![p] = snap[p]]
  BY DEF TypeInv, TypeOK, Copies
<1>3. Earned(disk, acked) /\ Earned(snap[p], acked)
  BY DEF EarnedInv
<1>4. {"sent", "raise", "remove", "store", "giveup"} \subseteq Places
  BY DEF Places, Holding, Sending
<1>5. CASE PublishAcked(p)
  <2>1. acked' = acked \cup {m} /\ Goto(p, "sent")
    BY <1>5 DEF PublishAcked, Acknowledge
  <2>2. UNCHANGED <<disk, snap, cur>>
    BY <1>5 DEF PublishAcked
  <2>3. Earned(disk', acked') /\ Earned(snap[p], acked')
    BY <1>3, <2>1, <2>2, MoreAccepted
  <2> QED
    BY <1>2, <1>4, <2>1, <2>2, <2>3, MoveEarned
<1>6. CASE PublishFailed(p)
  <2>1. Goto(p, "raise") /\ UNCHANGED <<disk, snap, cur, acked>>
    BY <1>6 DEF PublishFailed, observed
  <2> QED
    BY <1>2, <1>3, <1>4, <2>1, MoveEarned
<1>7. CASE MarkSent(p)
  <2> DEFINE ob == WithStatus(snap[p], m, "sent")
  <2>1. m \in acked
    BY <1>7 DEF MarkSent, EarnedInv
  <2>2. Earned(ob, acked)
    BY <1>1, <1>2, <1>3, <2>1, OperationsEarned
  <2>3. /\ Save(ob) /\ snap' = [snap EXCEPT ![p] = ob] /\ Goto(p, "remove")
        /\ UNCHANGED <<cur, acked>>
    BY <1>7 DEF MarkSent, observed
  <2>4. Earned(disk', acked')
    BY <1>3, <2>2, <2>3, SaveEarned
  <2> HIDE DEF ob
  <2> QED
    BY <1>4, <2>1, <2>2, <2>3, <2>4, MoveEarned
<1>8. CASE Unlist(p)
  <2> DEFINE ob == Removed(snap[p], m)
  <2>1. m \in acked
    BY <1>8 DEF Unlist, EarnedInv
  <2>2. Earned(ob, acked)
    BY <1>1, <1>2, <1>3, OperationsEarned
  <2>3. /\ Save(ob) /\ snap' = [snap EXCEPT ![p] = ob] /\ Goto(p, "store")
        /\ UNCHANGED <<cur, acked>>
    BY <1>8 DEF Unlist, observed
  <2>4. Earned(disk', acked')
    BY <1>3, <2>2, <2>3, SaveEarned
  <2> HIDE DEF ob
  <2> QED
    BY <1>4, <2>1, <2>2, <2>3, <2>4, MoveEarned
<1>9. CASE StoreSent(p)
  <2>1. Resume(p, snap[p]) /\ UNCHANGED <<disk, acked>>
    BY <1>9 DEF StoreSent, observed
  <2> QED
    BY <1>2, <1>3, <2>1, ResumeEarned
<1>10. CASE RaiseRetry(p)
  <2> DEFINE ob == WithRetry(snap[p], m)
  <2>1. ob \in Copies /\ Earned(ob, acked)
    BY <1>1, <1>2, <1>3, OperationTypes, OperationsEarned
  <2>2. Save(ob) /\ UNCHANGED acked
    BY <1>10 DEF RaiseRetry, observed
  <2>3. Earned(disk', acked')
    BY <1>3, <2>1, <2>2, SaveEarned
  <2>4. CASE Resume(p, ob)
    BY <2>1, <2>2, <2>3, <2>4, ResumeEarned
  <2>5. CASE /\ LastTry(snap[p], m)
             /\ snap' = [snap EXCEPT ![p] = ob]
             /\ Goto(p, "giveup")
             /\ UNCHANGED cur
    <3>1. ob[m].retries >= MaxRetries
      BY <1>1, <1>2, <2>5, BoundsAssumption DEF LastTry, WithRetry, Copies, Entry
    <3> HIDE DEF ob
    <3> QED
      BY <1>4, <2>1, <2>2, <2>3, <2>5, <3>1, MoveEarned
  <2> QED
    BY <1>10, <2>4, <2>5 DEF RaiseRetry
<1>11. CASE GiveUp(p)
  <2> DEFINE ob == WithStatus(snap[p], m, "failed")
  <2>1. snap[p][m].retries >= MaxRetries
    BY <1>11 DEF GiveUp, EarnedInv
  <2>2. ob \in Copies /\ Earned(ob, acked)
    BY <1>1, <1>2, <1>3, <2>1, OperationTypes, OperationsEarned
  <2>3. Save(ob) /\ Resume(p, ob) /\ UNCHANGED acked
    BY <1>11 DEF GiveUp, observed
  <2>4. Earned(disk', acked')
    BY <1>3, <2>2, <2>3, SaveEarned
  <2> QED
    BY <2>2, <2>3, <2>4, ResumeEarned
<1> QED
  BY <1>5, <1>6, <1>7, <1>8, <1>9, <1>10, <1>11 DEF AttemptSend

Neutral == Places \ {"sent", "remove", "store", "giveup"}

\* Loads, releases and moves of a copy that is not in the middle of an attempt.
LEMMA PlainEarned ==
    ASSUME TypeInv, EarnedInv, NEW p \in Procs, NEW place \in Neutral,
           NEW copy \in {snap[p], disk, Empty},
           acked \subseteq acked', Earned(disk', acked'),
           snap' = [snap EXCEPT ![p] = copy],
           Goto(p, place),
           \A q \in Procs \ {p} : cur'[q] = cur[q]
    PROVE  EarnedInv'
<1>1. Earned(Empty, acked)
  BY DEF Earned, Empty, Absent
<1>2. Earned(copy, acked)
  BY <1>1 DEF EarnedInv
<1>3. Earned(copy, acked')
  BY <1>2, MoreAccepted
<1>4. place \in Places /\ place \notin {"sent", "remove", "store", "giveup"}
  BY DEF Neutral
<1> QED
  BY <1>3, <1>4, MoveEarned

\* The daemon's steps keep verdicts earned.
LEMMA DaemonEarned == TypeInv /\ EarnedInv /\ DaemonStep => EarnedInv'
<1> SUFFICES ASSUME TypeInv, EarnedInv, DaemonStep PROVE EarnedInv'
  OBVIOUS
<1> DEFINE p == Daemon
<1>1. p \in Procs
  BY DEF Procs
<1>2. /\ disk \in Copies /\ snap[p] \in Copies
      /\ snap = [snap EXCEPT ![p] = snap[p]]
      /\ Earned(disk, acked) /\ Earned(snap[p], acked)
  BY <1>1 DEF TypeInv, TypeOK, Copies, EarnedInv
<1>3. {"idle", "pass", "dial", "clean"} \subseteq Neutral
  BY DEF Neutral, Places, Holding, Sending
<1>4. CASE PassBegin \/ CleanBegin
  <2>1. PICK place \in {"pass", "clean"} : Goto(p, place)
    BY <1>4 DEF PassBegin, CleanBegin
  <2>2. snap' = [snap EXCEPT ![p] = disk] /\ UNCHANGED <<cur, disk, acked>>
    BY <1>4 DEF PassBegin, CleanBegin, Load, observed
  <2>3. place \in Neutral
    BY <1>3
  <2> HIDE DEF p
  <2> QED
    BY <1>1, <1>2, <2>1, <2>2, <2>3, PlainEarned
<1>5. CASE \E m \in Msgs : PassOver(m)
  <2>1. UNCHANGED <<disk, snap, pc, cur, acked>>
    BY <1>5 DEF PassOver, observed
  <2> QED
    BY <2>1 DEF EarnedInv
<1>6. CASE \E m \in Msgs : PassSend(m)
  <2>1. Goto(p, "dial") /\ \A q \in Procs \ {p} : cur'[q] = cur[q]
    BY <1>6 DEF PassSend, TypeInv, TypeOK
  <2>2. UNCHANGED <<disk, snap, acked>>
    BY <1>6 DEF PassSend, observed
  <2> HIDE DEF p
  <2> QED
    BY <1>1, <1>2, <1>3, <2>1, <2>2, PlainEarned
<1>7. CASE PassEnd
  <2>1. /\ snap' = [snap EXCEPT ![p] = Empty]
        /\ Goto(p, "idle") /\ UNCHANGED <<disk, cur, acked>>
    BY <1>7 DEF PassEnd, observed
  <2> HIDE DEF p
  <2> QED
    BY <1>1, <1>2, <1>3, <2>1, PlainEarned
<1>8. CASE AttemptSend(Daemon)
  BY <1>1, <1>8, AttemptEarned
<1>9. CASE CleanSave
  <2>1. PICK old \in SUBSET Msgs :
          /\ Save(Without(snap[p], old))
          /\ snap' = [snap EXCEPT ![p] = Empty]
          /\ Goto(p, "idle")
          /\ UNCHANGED <<cur, acked>>
    BY <1>9 DEF CleanSave
  <2>2. Earned(Without(snap[p], old), acked)
    BY <1>2 DEF Earned, Without, Absent, Copies
  <2>3. Earned(disk', acked')
    BY <1>2, <2>1, <2>2, SaveEarned
  <2> HIDE DEF p
  <2> QED
    BY <1>1, <1>2, <1>3, <2>1, <2>3, PlainEarned
<1>10. CASE Restart
  <2>1. Goto(p, "idle") /\ UNCHANGED <<disk, snap, cur, acked>>
    BY <1>10 DEF Restart, observed
  <2> HIDE DEF p
  <2> QED
    BY <1>1, <1>2, <1>3, <2>1, PlainEarned
<1> QED
  BY <1>4, <1>5, <1>6, <1>7, <1>8, <1>9, <1>10 DEF DaemonStep

\* The steps of the retry and clear commands keep verdicts earned.
LEMMA CommandEarned ==
    ASSUME TypeInv, EarnedInv, NEW p \in Procs, RetryStep(p) \/ ClearStep(p)
    PROVE  EarnedInv'
<1>1. /\ disk \in Copies /\ snap[p] \in Copies
      /\ Earned(disk, acked) /\ Earned(snap[p], acked)
  BY DEF TypeInv, TypeOK, Copies, EarnedInv
<1>2. {"dial", "confirm", "done"} \subseteq Neutral
  BY DEF Neutral, Places, Holding, Sending
<1>3. CASE AttemptSend(p)
  BY <1>3, AttemptEarned
<1>4. CASE (\E m \in Msgs : RetryBegin(p, m)) \/ ClearBegin(p)
  <2>1. PICK place \in {"dial", "confirm"} : Goto(p, place)
    BY <1>4 DEF RetryBegin, ClearBegin
  <2>2. /\ snap' = [snap EXCEPT ![p] = disk]
        /\ \A q \in Procs \ {p} : cur'[q] = cur[q]
        /\ UNCHANGED <<disk, acked>>
    BY <1>4 DEF RetryBegin, ClearBegin, Load, observed, TypeInv, TypeOK
  <2>3. place \in Neutral
    BY <1>2
  <2> QED
    BY <1>1, <2>1, <2>2, <2>3, PlainEarned
<1>5. CASE ClearAnswer(p)
  <2> DEFINE ob == Without(snap[p], Clearable(snap[p]))
  <2>1. Earned(ob, acked)
    BY <1>1 DEF Earned, Without, Absent, Copies
  <2>2. /\ snap' = [snap EXCEPT ![p] = Empty]
        /\ Goto(p, "done") /\ UNCHANGED <<cur, acked>>
        /\ Save(ob) \/ UNCHANGED disk
    BY <1>5 DEF ClearAnswer
  <2>3. Earned(disk', acked')
    BY <1>1, <2>1, <2>2, SaveEarned
  <2> QED
    BY <1>2, <2>2, <2>3, PlainEarned
<1> QED
  BY <1>3, <1>4, <1>5 DEF RetryStep, ClearStep

\* The steps of agent msg keep verdicts earned.
LEMMA SenderEarned ==
    ASSUME TypeInv, EarnedInv, NEW m \in Fresh, SendStep(m)
    PROVE  EarnedInv'
<1>1. m \in Procs /\ m \in Msgs
  BY DEF Procs, Msgs
<1>2. /\ disk \in Copies /\ snap[m] \in Copies
      /\ snap = [snap EXCEPT ![m] = snap[m]]
      /\ Earned(disk, acked) /\ Earned(snap[m], acked)
  BY <1>1 DEF TypeInv, TypeOK, Copies, EarnedInv
<1>3. {"record", "loadrm", "loadadd", "unqueue", "enqueue", "done"} \subseteq Neutral
  BY DEF Neutral, Places, Holding, Sending
<1>4. CASE SendAcked(m) \/ SendFailed(m) \/ SendRecord(m)
  <2>1. PICK place \in {"record", "loadadd", "loadrm"} : Goto(m, place)
    BY <1>4 DEF SendAcked, SendFailed, SendRecord
  <2>2. UNCHANGED <<disk, snap, cur>> /\ acked \subseteq acked'
    BY <1>4 DEF SendAcked, SendFailed, SendRecord, Acknowledge, observed
  <2>3. Earned(disk', acked')
    BY <1>2, <2>2, MoreAccepted
  <2>4. place \in Neutral
    BY <1>3
  <2> QED
    BY <1>1, <1>2, <2>1, <2>2, <2>3, <2>4, PlainEarned
<1>5. CASE SendLoad(m)
  <2>1. PICK place \in {"unqueue", "enqueue"} : Goto(m, place)
    BY <1>5 DEF SendLoad
  <2>2. snap' = [snap EXCEPT ![m] = disk] /\ UNCHANGED <<disk, cur, acked>>
    BY <1>5 DEF SendLoad, Load, observed
  <2>3. place \in Neutral
    BY <1>3
  <2> QED
    BY <1>1, <1>2, <2>1, <2>2, <2>3, PlainEarned
<1>6. CASE SendSave(m)
  <2>1. PICK ob \in {Added(snap[m], m), Removed(snap[m], m)} : Save(ob)
    BY <1>6 DEF SendSave
  <2>2. Earned(ob, acked)
    BY <1>1, <1>2, OperationsEarned
  <2>3. /\ snap' = [snap EXCEPT ![m] = Empty]
        /\ Goto(m, "done") /\ UNCHANGED <<cur, acked>>
    BY <1>6 DEF SendSave
  <2>4. Earned(disk', acked')
    BY <1>2, <2>1, <2>2, <2>3, SaveEarned
  <2> QED
    BY <1>1, <1>3, <2>3, <2>4, PlainEarned
<1> QED
  BY <1>4, <1>5, <1>6 DEF SendStep

\* A crash gives a copy up and writes nothing.
LEMMA CrashEarned ==
    ASSUME TypeInv, EarnedInv, NEW p \in Procs, Crash(p)
    PROVE  EarnedInv'
<1>1. PICK place \in {"down", "done"} : Goto(p, place)
  BY DEF Crash
<1>2. /\ snap' = [snap EXCEPT ![p] = Empty]
      /\ \A q \in Procs \ {p} : cur'[q] = cur[q]
      /\ UNCHANGED <<disk, acked>>
  BY DEF Crash, observed, TypeInv, TypeOK
<1>3. place \in Neutral
  BY DEF Neutral, Places, Holding, Sending
<1>4. Earned(disk', acked') /\ acked \subseteq acked'
  BY <1>2 DEF EarnedInv
<1> QED
  BY <1>1, <1>2, <1>3, <1>4, PlainEarned

\* EarnedInv is inductive relative to TypeInv.
LEMMA StepEarned == TypeInv /\ EarnedInv /\ [Next]_vars => EarnedInv'
<1> SUFFICES ASSUME TypeInv, EarnedInv, [Next]_vars PROVE EarnedInv'
  OBVIOUS
<1>1. RetryCmds \subseteq Procs /\ ClearCmds \subseteq Procs
  BY DEF Procs
<1>2. CASE DaemonStep
  BY <1>2, DaemonEarned
<1>3. CASE \E p \in RetryCmds : RetryStep(p)
  BY <1>1, <1>3, CommandEarned
<1>4. CASE \E p \in ClearCmds : ClearStep(p)
  BY <1>1, <1>4, CommandEarned
<1>5. CASE \E m \in Fresh : SendStep(m)
  BY <1>5, SenderEarned
<1>6. CASE \E p \in Procs : Crash(p)
  BY <1>6, CrashEarned
<1>7. CASE UNCHANGED vars
  BY <1>7 DEF vars, EarnedInv
<1> QED
  BY <1>2, <1>3, <1>4, <1>5, <1>6, <1>7 DEF Next

\* The file never says "sent" of a message no relay acknowledged, nor "failed"
\* of one with retries left, with or without overlapping windows.
THEOREM StatusEarned == Spec => []StatusIsEarned
<1>1. TypeInv /\ EarnedInv /\ [Next]_vars => TypeInv' /\ EarnedInv'
  BY StepTypes, StepEarned
<1>2. Spec => [](TypeInv /\ EarnedInv)
  BY InitTypes, InitEarned, <1>1, PTL DEF Spec
<1>3. EarnedInv => StatusIsEarned
  BY DEF EarnedInv, Earned, StatusIsEarned
<1> QED
  BY <1>2, <1>3, PTL

-----------------------------------------------------------------------------
(***************************************************************************)
(* RetryBound, too, holds however the windows overlap.  The daemon raises  *)
(* only counts below MaxRetries; a retry command raises any count, but     *)
(* once, after which it is at "giveup" or "done": no copy exceeds          *)
(* MaxRetries by more than the number of commands that have got so far.    *)
(***************************************************************************)
Spent  == {p \in RetryCmds : pc[p] \in {"giveup", "done"}}
Budget == MaxRetries + Cardinality(Spent)

Within(ob, n) == \A m \in Msgs : ob[m].retries <= n

WithinInv == Within(disk, Budget) /\ \A p \in Procs : Within(snap[p], Budget)

\* What the daemon's pass sends, or has still to look at, has retries left.
PassInv ==
    /\ pc[Daemon] \in Sending \cup {"pass"} =>
           \A m \in todo : /\ snap[Daemon][m].retries < MaxRetries
                           /\ pc[Daemon] \in Sending => cur[Daemon] # m
    /\ pc[Daemon] \in {"dial", "raise"} => snap[Daemon][cur[Daemon]].retries < MaxRetries

\* saved raises no count above what ob has, or above 0.
NoneRaised(saved, ob) ==
    \A m \in Msgs : saved[m].retries <= ob[m].retries \/ saved[m].retries = 0

\* p counts a failed attempt.
Raises(p, saved) ==
    /\ pc[p] = "raise"
    /\ p \in {Daemon} \cup RetryCmds
    /\ saved = WithRetry(snap[p], cur[p])

\* One process moves to a place with the copy c, and may have saved a file.
Moves(p, place, c, saved) ==
    /\ Goto(p, place)
    /\ snap' = [snap EXCEPT ![p] = c]
    /\ c \in {snap[p], disk, Empty, saved}
    /\ disk' \in {disk, saved}
    /\ NoneRaised(saved, snap[p]) \/ Raises(p, saved)
    /\ p \in RetryCmds /\ (pc[p] \in {"giveup", "done"} \/ Raises(p, saved)) =>
           place \in {"giveup", "done"}

SomeMove(p) == \E place \in Places, c, saved \in Copies : Moves(p, place, c, saved)

\* Only WithRetry raises a count, and only that of its message, by one.
LEMMA OperationRaises ==
    ASSUME NEW ob \in Copies, NEW m \in Msgs, NEW gone
    PROVE  /\ \A s \in {"sent", "failed"} : NoneRaised(WithStatus(ob, m, s), ob)
           /\ NoneRaised(Added(ob, m), ob)
           /\ NoneRaised(Removed(ob, m), ob)
           /\ NoneRaised(Without(ob, gone), ob)
           /\ NoneRaised(ob, ob)
           /\ \A n \in Msgs : WithRetry(ob, m)[n].retries =
                                  IF n = m THEN ob[n].retries + 1 ELSE ob[n].retries
<1>1. \A n \in Msgs : ob[n] \in Entry /\ ob[n].retries \in Nat
  BY DEF Copies, Entry
<1>2. \A s \in {"sent", "failed"} : NoneRaised(WithStatus(ob, m, s), ob)
  BY <1>1 DEF NoneRaised, WithStatus, Copies, Entry
<1>3. NoneRaised(Added(ob, m), ob)
  BY <1>1 DEF NoneRaised, Added, Pending, Copies
<1>4. NoneRaised(Removed(ob, m), ob)
  BY <1>1 DEF NoneRaised, Removed, Absent
<1>5. NoneRaised(Without(ob, gone), ob)
  BY <1>1 DEF NoneRaised, Without, Absent
<1>6. NoneRaised(ob, ob)
  BY <1>1 DEF NoneRaised
<1>7. \A n \in Msgs : WithRetry(ob, m)[n].retries =
                          IF n = m THEN ob[n].retries + 1 ELSE ob[n].retries
  BY <1>1 DEF WithRetry, Copies, Entry
<1> QED
  BY <1>2, <1>3, <1>4, <1>5, <1>6, <1>7

\* A step that saves nothing is a move.
LEMMA PlainMove ==
    ASSUME TypeInv, NEW p \in Procs, NEW place \in Places,
           NEW c \in {snap[p], disk, Empty},
           Goto(p, place), snap' = [snap EXCEPT ![p] = c], disk' = disk,
           p \in RetryCmds => pc[p] \notin {"giveup", "done"} \/ place = "done"
    PROVE  SomeMove(p)
<1>1. snap[p] \in Copies /\ disk \in Copies /\ Empty \in Copies
  BY DEF TypeInv, TypeOK, Copies, Empty, Absent, Entry
<1>2. NoneRaised(snap[p], snap[p])
  BY <1>1 DEF NoneRaised, Copies, Entry
<1>3. CASE Raises(p, snap[p])
  <2>1. Aims
    BY DEF TypeInv
  <2>2. cur[p] \in Msgs
    BY <1>3, <2>1 DEF Raises, Aims, Sending
  <2>3. WithRetry(snap[p], cur[p])[cur[p]].retries = snap[p][cur[p]].retries + 1
    BY <1>1, <2>2, OperationRaises
  <2>4. snap[p][cur[p]].retries \in Nat
    BY <1>1, <2>2 DEF Copies, Entry
  <2>5. FALSE
    BY <1>3, <2>3, <2>4 DEF Raises
  <2> QED
    BY <2>5
<1>4. CASE ~Raises(p, snap[p])
  <2>1. Moves(p, place, c, snap[p])
    BY <1>2, <1>4 DEF Moves
  <2> QED
    BY <1>1, <2>1 DEF SomeMove
<1> QED
  BY <1>3, <1>4

\* So is one that takes entries out of a copy, saves it, and releases it.
LEMMA WithoutMove ==
    ASSUME TypeInv, NEW p \in Procs \ RetryCmds, NEW place \in Places, NEW gone,
           Goto(p, place), snap' = [snap EXCEPT ![p] = Empty],
           disk' \in {disk, Without(snap[p], gone)}
    PROVE  SomeMove(p)
<1> DEFINE ob == Without(snap[p], gone)
<1>1. snap[p] \in Copies /\ Empty \in Copies
  BY DEF TypeInv, TypeOK, Copies, Empty, Absent, Entry
<1>2. ob \in Copies /\ NoneRaised(ob, snap[p])
  <2>1. CASE Msgs = {}
    BY <2>1 DEF Copies, Without, NoneRaised
  <2>2. CASE Msgs # {}
    BY <1>1, <2>2, OperationTypes, OperationRaises
  <2> QED
    BY <2>1, <2>2
<1>3. disk' \in {disk, ob}
  OBVIOUS
<1> HIDE DEF ob
<1>4. Moves(p, place, Empty, ob)
  BY <1>2, <1>3 DEF Moves
<1> QED
  BY <1>1, <1>2, <1>4 DEF SomeMove

\* The steps of AttemptSend are moves.
LEMMA AttemptMoves ==
    ASSUME TypeInv, NEW p \in {Daemon} \cup RetryCmds, AttemptSend(p)
    PROVE  SomeMove(p)
<1> DEFINE m == cur[p]
<1>1. p \in Procs /\ (p \in RetryCmds => p # Daemon)
  BY ProcsAssumption DEF Procs
<1>2. m \in Msgs
  BY <1>1 DEF AttemptSend, PublishAcked, PublishFailed, MarkSent, Unlist,
              StoreSent, RaiseRetry, GiveUp, Sending, TypeInv, Aims
<1>3. /\ snap[p] \in Copies /\ snap = [snap EXCEPT ![p] = snap[p]]
      /\ Empty \in Copies
  BY <1>1 DEF TypeInv, TypeOK, Copies, Empty, Absent, Entry
<1>4. {"sent", "remove", "store", "raise", "giveup", "pass", "done"} \subseteq Places
  BY DEF Places, Holding, Sending
<1>5. CASE PublishAcked(p) \/ PublishFailed(p)
  <2>1. PICK place \in {"sent", "raise"} : Goto(p, place)
    BY <1>5 DEF PublishAcked, PublishFailed
  <2>2. pc[p] = "dial" /\ UNCHANGED <<disk, snap>>
    BY <1>5 DEF PublishAcked, PublishFailed
  <2> QED
    BY <1>1, <1>3, <1>4, <2>1, <2>2, PlainMove
<1>6. CASE MarkSent(p)
  <2> DEFINE ob == WithStatus(snap[p], m, "sent")
  <2>1. ob \in Copies /\ NoneRaised(ob, snap[p])
    BY <1>2, <1>3, OperationTypes, OperationRaises
  <2>2. /\ Goto(p, "remove") /\ snap' = [snap EXCEPT ![p] = ob] /\ disk' \in {disk, ob}
        /\ pc[p] = "sent"
    BY <1>6 DEF MarkSent, Save
  <2> HIDE DEF ob
  <2>3. Moves(p, "remove", ob, ob)
    BY <2>1, <2>2 DEF Moves, Raises
  <2> QED
    BY <1>4, <2>1, <2>3 DEF SomeMove
<1>7. CASE Unlist(p)
  <2> DEFINE ob == Removed(snap[p], m)
  <2>1. ob \in Copies /\ NoneRaised(ob, snap[p])
    BY <1>2, <1>3, OperationTypes, OperationRaises
  <2>2. /\ Goto(p, "store") /\ snap' = [snap EXCEPT ![p] = ob] /\ disk' \in {disk, ob}
        /\ pc[p] = "remove"
    BY <1>7 DEF Unlist, Save
  <2> HIDE DEF ob
  <2>3. Moves(p, "store", ob, ob)
    BY <2>1, <2>2 DEF Moves, Raises
  <2> QED
    BY <1>4, <2>1, <2>3 DEF SomeMove
<1>8. CASE StoreSent(p)
  <2>1. PICK place \in {"pass", "done"}, c \in {snap[p], Empty} :
            /\ Goto(p, place) /\ snap' = [snap EXCEPT ![p] = c]
            /\ p \in RetryCmds => place = "done"
    BY <1>1, <1>8 DEF StoreSent, Resume
  <2>2. disk' = disk
    BY <1>8 DEF StoreSent
  <2> QED
    BY <1>1, <1>4, <2>1, <2>2, PlainMove
<1>9. CASE RaiseRetry(p)
  <2> DEFINE ob == WithRetry(snap[p], m)
  <2>1. ob \in Copies
    BY <1>2, <1>3, OperationTypes
  <2>2. Raises(p, ob) /\ disk' \in {disk, ob}
    BY <1>9 DEF RaiseRetry, Raises, Save
  <2>3. PICK place \in {"pass", "done", "giveup"}, c \in {ob, Empty} :
            /\ Goto(p, place) /\ snap' = [snap EXCEPT ![p] = c]
            /\ p \in RetryCmds => place # "pass"
    BY <1>1, <1>9 DEF RaiseRetry, Resume
  <2> HIDE DEF ob
  <2>4. Moves(p, place, c, ob)
    BY <2>2, <2>3 DEF Moves
  <2> QED
    BY <1>3, <1>4, <2>1, <2>3, <2>4 DEF SomeMove
<1>10. CASE GiveUp(p)
  <2> DEFINE ob == WithStatus(snap[p], m, "failed")
  <2>1. ob \in Copies /\ NoneRaised(ob, snap[p])
    BY <1>2, <1>3, OperationTypes, OperationRaises
  <2>2. disk' \in {disk, ob} /\ pc[p] = "giveup"
    BY <1>10 DEF GiveUp, Save
  <2>3. PICK place \in {"pass", "done"}, c \in {ob, Empty} :
            /\ Goto(p, place) /\ snap' = [snap EXCEPT ![p] = c]
            /\ p \in RetryCmds => place = "done"
    BY <1>1, <1>10 DEF GiveUp, Resume
  <2> HIDE DEF ob
  <2>4. Moves(p, place, c, ob)
    BY <2>1, <2>2, <2>3 DEF Moves
  <2> QED
    BY <1>3, <1>4, <2>1, <2>3, <2>4 DEF SomeMove
<1> QED
  BY <1>5, <1>6, <1>7, <1>8, <1>9, <1>10 DEF AttemptSend

\* Every step is a move of one process.
LEMMA StepMoves ==
    ASSUME TypeInv, [Next]_vars
    PROVE  \E p \in Procs : SomeMove(p)
<1>1. /\ Daemon \in Procs /\ Daemon \notin RetryCmds
      /\ RetryCmds \subseteq Procs /\ ClearCmds \subseteq Procs /\ Fresh \subseteq Procs
      /\ RetryCmds \cap ClearCmds = {} /\ RetryCmds \cap Fresh = {}
  BY ProcsAssumption DEF Procs
<1>2. /\ pc \in [Procs -> Places]
      /\ \A p \in Procs : /\ snap[p] \in Copies /\ snap = [snap EXCEPT ![p] = snap[p]]
                          /\ Goto(p, pc[p]) <=> pc' = pc
      /\ Empty \in Copies
  BY DEF TypeInv, TypeOK, Copies, Empty, Absent, Entry, Goto
<1>3. {"idle", "pass", "dial", "clean", "down", "confirm", "done", "record", "loadadd",
       "loadrm", "unqueue", "enqueue"} \subseteq Places
  BY DEF Places, Holding, Sending
<1>4. CASE \E p \in {Daemon} \cup RetryCmds : AttemptSend(p)
  BY <1>1, <1>4, AttemptMoves
<1>5. CASE UNCHANGED <<disk, snap, pc>>
  <2>1. Goto(Daemon, pc[Daemon]) /\ pc[Daemon] \in Places
    BY <1>1, <1>2, <1>5
  <2> QED
    BY <1>1, <1>2, <1>5, <2>1, PlainMove
<1>6. CASE PassBegin \/ CleanBegin
  <2>1. PICK place \in {"pass", "clean"} : Goto(Daemon, place)
    BY <1>6 DEF PassBegin, CleanBegin
  <2>2. snap' = [snap EXCEPT ![Daemon] = disk] /\ disk' = disk
    BY <1>6 DEF PassBegin, CleanBegin, Load
  <2> QED
    BY <1>1, <1>3, <2>1, <2>2, PlainMove
<1>7. CASE \E m \in Msgs : PassOver(m)
  BY <1>5, <1>7 DEF PassOver
<1>8. CASE \E m \in Msgs : PassSend(m)
  <2>1. Goto(Daemon, "dial") /\ UNCHANGED <<disk, snap>>
    BY <1>8 DEF PassSend
  <2> QED
    BY <1>1, <1>2, <1>3, <2>1, PlainMove
<1>9. CASE PassEnd \/ Restart
  <2>1. PICK c \in {snap[Daemon], Empty} : snap' = [snap EXCEPT ![Daemon] = c]
    BY <1>1, <1>2, <1>9 DEF PassEnd, Restart
  <2>2. Goto(Daemon, "idle") /\ disk' = disk
    BY <1>9 DEF PassEnd, Restart
  <2> QED
    BY <1>1, <1>3, <2>1, <2>2, PlainMove
<1>10. CASE CleanSave \/ \E p \in ClearCmds : ClearAnswer(p)
  <2>1. CASE CleanSave
    <3>1. PICK old \in SUBSET Msgs : Save(Without(snap[Daemon], old))
      BY <2>1 DEF CleanSave
    <3>2. /\ Goto(Daemon, "idle") /\ snap' = [snap EXCEPT ![Daemon] = Empty]
          /\ disk' \in {disk, Without(snap[Daemon], old)}
      BY <2>1, <3>1 DEF CleanSave, Save
    <3> QED
      BY <1>1, <1>3, <3>2, WithoutMove
  <2>2. ASSUME NEW p \in ClearCmds, ClearAnswer(p) PROVE SomeMove(p)
    <3>1. /\ Goto(p, "done") /\ snap' = [snap EXCEPT ![p] = Empty]
          /\ disk' \in {disk, Without(snap[p], Clearable(snap[p]))}
      BY <2>2 DEF ClearAnswer, Save
    <3>2. p \in Procs \ RetryCmds
      BY <1>1
    <3> QED
      BY <1>3, <3>1, <3>2, WithoutMove
  <2> QED
    BY <1>1, <1>10, <2>1, <2>2
<1>11. CASE \E p \in RetryCmds, m \in Msgs : RetryBegin(p, m)
  <2>1. PICK p \in RetryCmds : /\ Goto(p, "dial") /\ pc[p] = "ready"
                               /\ snap' = [snap EXCEPT ![p] = disk] /\ disk' = disk
    BY <1>11 DEF RetryBegin, Load
  <2> QED
    BY <1>1, <1>3, <2>1, PlainMove
<1>12. CASE \E p \in ClearCmds : ClearBegin(p)
  <2>1. PICK p \in ClearCmds : /\ Goto(p, "confirm")
                               /\ snap' = [snap EXCEPT ![p] = disk] /\ disk' = disk
    BY <1>12 DEF ClearBegin, Load
  <2> QED
    BY <1>1, <1>3, <2>1, PlainMove
<1>13. ASSUME NEW m \in Fresh, SendStep(m) PROVE SomeMove(m)
  <2>1. m \in Procs /\ m \in Msgs /\ m \notin RetryCmds
    BY <1>1 DEF Msgs
  <2>2. CASE SendAcked(m) \/ SendFailed(m) \/ SendRecord(m)
    <3>1. PICK place \in {"record", "loadadd", "loadrm"} : Goto(m, place)
      BY <2>2 DEF SendAcked, SendFailed, SendRecord
    <3>2. UNCHANGED <<disk, snap>>
      BY <2>2 DEF SendAcked, SendFailed, SendRecord
    <3> QED
      BY <1>2, <1>3, <2>1, <3>1, <3>2, PlainMove
  <2>3. CASE SendLoad(m)
    <3>1. PICK place \in {"unqueue", "enqueue"} : Goto(m, place)
      BY <2>3 DEF SendLoad
    <3>2. snap' = [snap EXCEPT ![m] = disk] /\ disk' = disk
      BY <2>3 DEF SendLoad, Load
    <3> QED
      BY <1>3, <2>1, <3>1, <3>2, PlainMove
  <2>4. CASE SendSave(m)
    <3> DEFINE ob == IF pc[m] = "enqueue" THEN Added(snap[m], m) ELSE Removed(snap[m], m)
    <3>1. ob \in Copies /\ NoneRaised(ob, snap[m])
      BY <1>2, <2>1, OperationTypes, OperationRaises
    <3>2. /\ Goto(m, "done") /\ snap' = [snap EXCEPT ![m] = Empty]
          /\ disk' \in {disk, ob}
      BY <2>4 DEF SendSave, Save
    <3> HIDE DEF ob
    <3>3. Moves(m, "done", Empty, ob)
      BY <2>1, <3>1, <3>2 DEF Moves
    <3> QED
      BY <1>2, <1>3, <3>1, <3>3 DEF SomeMove
  <2> QED
    BY <1>13, <2>2, <2>3, <2>4 DEF SendStep
<1>14. CASE \E p \in Procs : Crash(p)
  <2>1. PICK p \in Procs : Crash(p)
    BY <1>14
  <2>2. PICK place \in {"down", "done"} : Goto(p, place) /\ (p \in RetryCmds => place = "done")
    BY <1>1, <2>1 DEF Crash
  <2>3. snap' = [snap EXCEPT ![p] = Empty] /\ disk' = disk
    BY <2>1 DEF Crash
  <2> QED
    BY <1>3, <2>2, <2>3, PlainMove
<1> QED
  BY <1>1, <1>4, <1>5, <1>6, <1>7, <1>8, <1>9, <1>10, <1>11, <1>12, <1>13, <1>14
     DEF Next, DaemonStep, RetryStep, ClearStep, vars

\* The commands that have got so far are finitely many, and become more only by
\* the one that raises a count.
LEMMA BudgetGrows ==
    ASSUME TypeInv, NEW p \in Procs, NEW place \in Places, Goto(p, place),
           p \in RetryCmds /\ pc[p] \in {"giveup", "done"} => place \in {"giveup", "done"}
    PROVE  /\ Budget \in Nat /\ Budget' \in Nat
           /\ MaxRetries <= Budget /\ Budget <= Budget'
           /\ /\ p \in RetryCmds /\ pc[p] \notin {"giveup", "done"}
              /\ place \in {"giveup", "done"}
              => Budget + 1 <= Budget'
<1>1. IsFiniteSet(RetryCmds) /\ MaxRetries \in Nat
  BY BoundsAssumption
<1>2. pc' = [pc EXCEPT ![p] = place] /\ pc \in [Procs -> Places] /\ RetryCmds \subseteq Procs
  BY DEF Goto, TypeInv, TypeOK, Procs
<1>3. Spent \subseteq RetryCmds /\ Spent' \subseteq RetryCmds /\ Spent \subseteq Spent'
  BY <1>2 DEF Spent
<1>4. IsFiniteSet(Spent) /\ IsFiniteSet(Spent')
  BY <1>1, <1>3, FS_Subset
<1>5. /\ Cardinality(Spent) \in Nat /\ Cardinality(Spent') \in Nat
      /\ Cardinality(Spent) <= Cardinality(Spent')
  BY <1>3, <1>4, FS_CardinalityType, FS_Subset
<1>6. ASSUME p \in RetryCmds, pc[p] \notin {"giveup", "done"}, place \in {"giveup", "done"}
      PROVE  Cardinality(Spent) + 1 <= Cardinality(Spent')
  <2>1. p \notin Spent /\ Spent \cup {p} \subseteq Spent'
    BY <1>2, <1>3, <1>6 DEF Spent
  <2>2. Cardinality(Spent \cup {p}) = Cardinality(Spent) + 1 /\ IsFiniteSet(Spent \cup {p})
    BY <1>4, <2>1, FS_AddElement
  <2>3. Cardinality(Spent \cup {p}) <= Cardinality(Spent')
    BY <1>4, <2>1, FS_Subset
  <2> QED
    BY <2>2, <2>3
<1>7. Budget = MaxRetries + Cardinality(Spent) /\ Budget' = MaxRetries + Cardinality(Spent')
  BY DEF Budget
<1> QED
  BY <1>1, <1>5, <1>6, <1>7

\* A move keeps every copy within the budget, if the daemon raises no count that
\* is used up.
LEMMA StepWithin == TypeInv /\ WithinInv /\ PassInv /\ [Next]_vars => WithinInv'
<1> SUFFICES ASSUME TypeInv, WithinInv, PassInv, [Next]_vars PROVE WithinInv'
  OBVIOUS
<1>1. PICK p \in Procs, place \in Places, c \in Copies, saved \in Copies :
          Moves(p, place, c, saved)
  BY StepMoves DEF SomeMove
<1>2. /\ Budget \in Nat /\ Budget' \in Nat /\ MaxRetries <= Budget /\ Budget <= Budget'
      /\ /\ p \in RetryCmds /\ pc[p] \notin {"giveup", "done"}
         /\ place \in {"giveup", "done"}
         => Budget + 1 <= Budget'
  BY <1>1, BudgetGrows DEF Moves
<1>3. \A q \in Procs : snap[q] \in Copies /\ Within(snap[q], Budget)
  BY DEF TypeInv, TypeOK, Copies, WithinInv
<1>4. disk \in Copies /\ Within(disk, Budget)
  BY DEF TypeInv, TypeOK, Copies, WithinInv
<1>5. \A ob \in Copies : Within(ob, Budget) => Within(ob, Budget')
  BY <1>2 DEF Within, Copies, Entry
<1>6. Within(saved, Budget')
  <2>1. CASE NoneRaised(saved, snap[p])
    BY <1>2, <1>3, <2>1 DEF NoneRaised, Within, Copies, Entry
  <2>2. CASE Raises(p, saved)
    <3>1. cur[p] \in Msgs
      BY <2>2 DEF Raises, TypeInv, Aims, Sending
    <3>2. \A n \in Msgs : saved[n].retries =
              IF n = cur[p] THEN snap[p][n].retries + 1 ELSE snap[p][n].retries
      BY <1>3, <2>2, <3>1, OperationRaises DEF Raises
    <3>3. \A n \in Msgs : snap[p][n].retries \in Nat /\ snap[p][n].retries <= Budget
      BY <1>3 DEF Within, Copies, Entry
    <3>4. CASE p = Daemon
      <4>1. snap[p][cur[p]].retries < MaxRetries /\ MaxRetries \in Nat
        BY <2>2, <3>4, BoundsAssumption DEF Raises, PassInv
      <4>2. \A n \in Msgs : saved[n].retries <= Budget
        BY <1>2, <3>1, <3>2, <3>3, <4>1
      <4> QED
        BY <1>2, <4>2 DEF Within, Copies, Entry
    <3>5. CASE p \in RetryCmds
      <4>1. Budget + 1 <= Budget'
        BY <1>1, <1>2, <2>2, <3>5 DEF Moves, Raises
      <4>2. \A n \in Msgs : saved[n].retries <= Budget + 1
        BY <1>2, <3>2, <3>3
      <4> QED
        BY <1>2, <4>1, <4>2 DEF Within, Copies, Entry
    <3> QED
      BY <2>2, <3>4, <3>5 DEF Raises
  <2> QED
    BY <1>1, <2>1, <2>2 DEF Moves
<1>7. Within(Empty, Budget')
  BY <1>2 DEF Within, Empty, Absent
<1>8. Within(c, Budget') /\ Within(disk', Budget')
  BY <1>1, <1>3, <1>4, <1>5, <1>6, <1>7 DEF Moves
<1>9. \A q \in Procs : snap'[q] = IF q = p THEN c ELSE snap[q]
  BY <1>1 DEF Moves, TypeInv, TypeOK
<1> QED
  BY <1>3, <1>5, <1>8, <1>9 DEF WithinInv

\* The steps that are not the daemon's leave its pass alone.
LEMMA OthersPass ==
    ASSUME PassInv,
           UNCHANGED <<todo, snap[Daemon], pc[Daemon], cur[Daemon]>>
    PROVE  PassInv'
BY DEF PassInv

\* The daemon looks at each pending entry at most once in a pass, so that the
\* counts it raises are those its pass began with.
LEMMA AttemptPass ==
    ASSUME TypeInv, PassInv, AttemptSend(Daemon)
    PROVE  PassInv'
<1> DEFINE m == cur[Daemon]
           ob == snap[Daemon]
<1>1. Daemon \in Procs
  BY DEF Procs
<1>2. pc[Daemon] \in Sending
  BY DEF AttemptSend, PublishAcked, PublishFailed, MarkSent, Unlist,
         StoreSent, RaiseRetry, GiveUp, Sending
<1>3. m \in Msgs /\ ob \in Copies /\ todo \subseteq Msgs /\ MaxRetries \in Nat \ {0}
  BY <1>1, <1>2, BoundsAssumption DEF TypeInv, TypeOK, Aims, Copies
<1>4. \A n \in todo : ob[n].retries < MaxRetries /\ n # m
  BY <1>2 DEF PassInv
<1>5. todo' = todo
  BY DEF AttemptSend, PublishAcked, PublishFailed, MarkSent, Unlist,
         StoreSent, RaiseRetry, GiveUp
<1>6. CASE PublishAcked(Daemon) \/ PublishFailed(Daemon)
  <2>1. pc'[Daemon] \in {"sent", "raise"} /\ UNCHANGED <<snap, cur>> /\ pc[Daemon] = "dial"
    BY <1>1, <1>6 DEF PublishAcked, PublishFailed, Goto, TypeInv, TypeOK
  <2>2. ob[m].retries < MaxRetries
    BY <2>1 DEF PassInv
  <2> QED
    BY <1>4, <1>5, <2>1, <2>2 DEF PassInv
<1>7. ASSUME NEW saved \in Copies, snap'[Daemon] = saved, pc'[Daemon] \notin {"dial", "raise"},
             \A n \in todo : saved[n].retries <= ob[n].retries \/ saved[n].retries = 0,
             pc'[Daemon] \in Sending => cur'[Daemon] = m
      PROVE  PassInv'
  <2>1. \A n \in todo : saved[n].retries < MaxRetries
    BY <1>3, <1>4, <1>7 DEF Copies, Entry
  <2> QED
    BY <1>4, <1>5, <1>7, <2>1 DEF PassInv
<1>8. ASSUME NEW saved \in Copies, Resume(Daemon, saved)
      PROVE  snap'[Daemon] = saved /\ pc'[Daemon] = "pass"
  BY <1>1, <1>8 DEF Resume, Goto, TypeInv, TypeOK
<1>9. "pass" \notin Sending \cup {"dial", "raise"}
  BY DEF Sending
<1>10. \A s \in {"sent", "failed"} :
          /\ WithStatus(ob, m, s) \in Copies /\ NoneRaised(WithStatus(ob, m, s), ob)
          /\ Removed(ob, m) \in Copies /\ NoneRaised(Removed(ob, m), ob)
          /\ WithRetry(ob, m) \in Copies
          /\ \A n \in todo : WithRetry(ob, m)[n].retries = ob[n].retries
  BY <1>3, <1>4, OperationTypes, OperationRaises
<1>11. \A n \in todo : ob[n].retries <= ob[n].retries
  BY <1>3 DEF Copies, Entry
<1>12. CASE MarkSent(Daemon)
  <2>1. snap'[Daemon] = WithStatus(ob, m, "sent") /\ pc'[Daemon] = "remove" /\ cur' = cur
    BY <1>1, <1>12 DEF MarkSent, Goto, TypeInv, TypeOK
  <2> QED
    BY <1>3, <1>7, <1>10, <2>1 DEF NoneRaised
<1>13. CASE Unlist(Daemon)
  <2>1. snap'[Daemon] = Removed(ob, m) /\ pc'[Daemon] = "store" /\ cur' = cur
    BY <1>1, <1>13 DEF Unlist, Goto, TypeInv, TypeOK
  <2> QED
    BY <1>3, <1>7, <1>10, <2>1 DEF NoneRaised
<1>14. CASE StoreSent(Daemon)
  <2>1. snap'[Daemon] = ob /\ pc'[Daemon] = "pass"
    BY <1>3, <1>8, <1>14 DEF StoreSent
  <2> QED
    BY <1>3, <1>7, <1>9, <1>11, <2>1
<1>15. CASE RaiseRetry(Daemon)
  <2>1. snap'[Daemon] = WithRetry(ob, m)
    BY <1>1, <1>8, <1>10, <1>15 DEF RaiseRetry, TypeInv, TypeOK
  <2>2. \/ pc'[Daemon] = "pass"
        \/ pc'[Daemon] = "giveup" /\ cur' = cur
    BY <1>1, <1>8, <1>10, <1>15 DEF RaiseRetry, Goto, TypeInv, TypeOK
  <2> QED
    BY <1>3, <1>7, <1>9, <1>10, <1>11, <2>1, <2>2
<1>16. CASE GiveUp(Daemon)
  <2>1. snap'[Daemon] = WithStatus(ob, m, "failed") /\ pc'[Daemon] = "pass"
    BY <1>8, <1>10, <1>16 DEF GiveUp
  <2> QED
    BY <1>3, <1>7, <1>9, <1>10, <2>1 DEF NoneRaised
<1> QED
  BY <1>6, <1>12, <1>13, <1>14, <1>15, <1>16 DEF AttemptSend

\* PassInv is inductive relative to the types.
LEMMA StepPass == TypeInv /\ PassInv /\ [Next]_vars => PassInv'
<1> SUFFICES ASSUME TypeInv, PassInv, [Next]_vars PROVE PassInv'
  OBVIOUS
<1>1. /\ Daemon \in Procs /\ Daemon \notin RetryCmds \cup ClearCmds \cup Fresh
      /\ RetryCmds \cup ClearCmds \cup Fresh \subseteq Procs
  BY ProcsAssumption DEF Procs
<1>2. {"idle", "clean", "down"} \cap (Sending \cup {"pass", "dial", "raise"}) = {}
      /\ "pass" \notin Sending
  BY DEF Sending
<1>3. pc \in [Procs -> Places] /\ snap \in [Procs -> [Msgs -> Entry]]
      /\ cur \in [Procs -> Msgs \cup {"none"}]
  BY DEF TypeInv, TypeOK
<1>4. CASE UNCHANGED <<todo, snap[Daemon], pc[Daemon], cur[Daemon]>>
  BY <1>4, OthersPass
<1>5. CASE AttemptSend(Daemon)
  BY <1>5, AttemptPass
<1>6. CASE PassBegin
  <2>1. snap'[Daemon] = disk /\ pc'[Daemon] = "pass" /\ todo' = Sendable(disk)
    BY <1>1, <1>3, <1>6 DEF PassBegin, Load, Goto
  <2> QED
    BY <1>2, <2>1 DEF PassInv, Sendable
<1>7. CASE \E m \in Msgs : PassOver(m)
  <2>1. todo' \subseteq todo /\ UNCHANGED <<snap, pc, cur>>
    BY <1>7 DEF PassOver
  <2> QED
    BY <2>1 DEF PassInv
<1>8. CASE \E m \in Msgs : PassSend(m)
  <2>1. PICK m \in Msgs : PassSend(m)
    BY <1>8
  <2>2. /\ pc[Daemon] = "pass" /\ m \in todo /\ todo' = todo \ {m}
        /\ cur'[Daemon] = m /\ pc'[Daemon] = "dial" /\ snap' = snap
    BY <1>1, <1>3, <2>1 DEF PassSend, Goto
  <2> QED
    BY <2>2 DEF PassInv
<1>9. CASE PassEnd \/ CleanBegin \/ CleanSave \/ Restart \/ Crash(Daemon)
  <2>1. pc'[Daemon] \in {"idle", "clean", "down"}
    BY <1>1, <1>3, <1>9 DEF PassEnd, CleanBegin, CleanSave, Restart, Crash, Goto
  <2> QED
    BY <1>2, <2>1 DEF PassInv
<1>10. ASSUME NEW p \in RetryCmds \cup ClearCmds \cup Fresh,
              RetryStep(p) \/ ClearStep(p) \/ SendStep(p) \/ Crash(p)
       PROVE  UNCHANGED <<todo, snap[Daemon], pc[Daemon], cur[Daemon]>>
  <2>1. p # Daemon /\ p \in Procs /\ Daemon \in Procs
    BY <1>1
  <2>2. CASE AttemptSend(p)
    BY <1>3, <2>1, <2>2 DEF AttemptSend, PublishAcked, PublishFailed, MarkSent, Unlist,
       StoreSent, RaiseRetry, GiveUp, Resume, Goto
  <2>3. CASE \E m \in Msgs : RetryBegin(p, m)
    BY <1>3, <2>1, <2>3 DEF RetryBegin, Load, Goto
  <2>4. CASE ClearStep(p)
    BY <1>3, <2>1, <2>4 DEF ClearStep, ClearBegin, ClearAnswer, Load, Goto
  <2>5. CASE SendStep(p)
    BY <1>3, <2>1, <2>5 DEF SendStep, SendAcked, SendFailed, SendRecord, SendLoad, SendSave,
       Load, Goto
  <2>6. CASE Crash(p)
    BY <1>3, <2>1, <2>6 DEF Crash, Goto
  <2> QED
    BY <1>10, <2>2, <2>3, <2>4, <2>5, <2>6 DEF RetryStep
<1>11. CASE UNCHANGED vars
  BY <1>4, <1>11 DEF vars
<1> QED
  BY <1>4, <1>5, <1>6, <1>7, <1>8, <1>9, <1>10, <1>11 DEF Next, DaemonStep, Procs

\* However the windows overlap, a retry count exceeds MaxRetries by at most one
\* for each manual retry; the daemon alone never goes beyond MaxRetries.
THEOREM RetriesBounded == Spec => []RetryBound
<1>1. Init => WithinInv /\ PassInv
  <2> SUFFICES ASSUME Init PROVE WithinInv /\ PassInv
    OBVIOUS
  <2>1. pc[Daemon] = "idle" /\ Spent = {}
    BY ProcsAssumption DEF Init, Procs, Spent
  <2>2. Budget = MaxRetries /\ MaxRetries \in Nat
    BY <2>1, FS_EmptySet, BoundsAssumption DEF Budget
  <2>3. Within(disk, MaxRetries)
    BY <2>2 DEF Init, Within, Absent
  <2>4. \A p \in Procs : Within(snap[p], MaxRetries)
    BY <2>2 DEF Init, Within, Empty, Absent
  <2>5. PassInv
    BY <2>1 DEF PassInv, Sending
  <2> QED
    BY <2>2, <2>3, <2>4, <2>5 DEF WithinInv
<1>2. TypeInv /\ WithinInv => RetryBound
  <2> SUFFICES ASSUME TypeInv, WithinInv PROVE RetryBound
    OBVIOUS
  <2>1. Spent \subseteq RetryCmds /\ IsFiniteSet(RetryCmds) /\ MaxRetries \in Nat
    BY BoundsAssumption DEF Spent
  <2>2. /\ Cardinality(Spent) \in Nat /\ Cardinality(RetryCmds) \in Nat
        /\ Cardinality(Spent) <= Cardinality(RetryCmds)
    BY <2>1, FS_Subset, FS_CardinalityType
  <2>3. \A m \in Msgs : disk[m].retries \in Nat /\ disk[m].retries <= Budget
    BY DEF TypeInv, TypeOK, Entry, WithinInv, Within
  <2> QED
    BY <2>1, <2>2, <2>3 DEF RetryBound, Budget
<1>3. TypeInv /\ WithinInv /\ PassInv /\ [Next]_vars => TypeInv' /\ WithinInv' /\ PassInv'
  BY StepTypes, StepWithin, StepPass
<1>4. Spec => [](TypeInv /\ WithinInv /\ PassInv)
  BY InitTypes, <1>1, <1>3, PTL DEF Spec
<1> QED
  BY <1>2, <1>4, PTL

-----------------------------------------------------------------------------
(***************************************************************************)
(* RecordedWhenAcked needs no serialisation either: the message store is   *)
(* written by the process that got the acknowledgement, from what it knows *)
(* itself and not from its copy of the outbox.                             *)
(***************************************************************************)
Unrecorded == {"sent", "remove", "store"}

\* One process moves, and while nothing fails it leaves "record" and "store"
\* only with the message in the history.
LEMMA MoveRecorded ==
    ASSUME TypeInv, RecordedWhenAcked, NEW p \in Procs, NEW place, Goto(p, place),
           \A q \in Procs \ {p} : cur'[q] = cur[q],
           history \subseteq history', faults' = 0 => faults = 0,
           faults' = 0 /\ p \in Fresh /\ pc[p] = "record" => p \in history',
           faults' = 0 /\ pc[p] \in Unrecorded =>
               cur[p] \in history' \/ (cur'[p] = cur[p] /\ place \in Unrecorded),
           \A m \in acked' : \/ m \in acked
                             \/ m = p /\ p \in Fresh /\ place = "record"
                             \/ m = cur'[p] /\ place = "sent"
    PROVE  RecordedWhenAcked'
<1>1. \A q \in Procs : pc'[q] = IF q = p THEN place ELSE pc[q]
  BY DEF TypeInv, TypeOK, Goto
<1>2. Fresh \subseteq Procs
  BY DEF Procs
<1>3. SUFFICES ASSUME faults' = 0, NEW m \in acked' PROVE m \in history' \/ InFlight(m)'
  BY DEF RecordedWhenAcked
<1>4. CASE m = p /\ p \in Fresh /\ place = "record"
  BY <1>1, <1>4 DEF InFlight
<1>5. CASE m = cur'[p] /\ place = "sent"
  BY <1>1, <1>5 DEF InFlight
<1>6. CASE m \in acked
  <2>1. m \in history \/ InFlight(m)
    BY <1>3, <1>6 DEF RecordedWhenAcked
  <2>2. CASE m \in Fresh /\ pc[m] = "record"
    BY <1>1, <1>2, <1>3, <2>2 DEF InFlight
  <2>3. ASSUME NEW q \in Procs, cur[q] = m, pc[q] \in Unrecorded
        PROVE  m \in history' \/ InFlight(m)'
    <3>1. CASE q # p
      BY <1>1, <2>3, <3>1 DEF InFlight, Unrecorded
    <3>2. CASE q = p
      BY <1>1, <1>3, <2>3, <3>2 DEF InFlight, Unrecorded
    <3> QED
      BY <3>1, <3>2
  <2> QED
    BY <2>1, <2>2, <2>3 DEF InFlight, Unrecorded
<1> QED
  BY <1>3, <1>4, <1>5, <1>6

\* A step that acknowledges nothing, by a process that has nothing to record.
LEMMA PlainRecorded ==
    ASSUME TypeInv, RecordedWhenAcked, NEW p \in Procs, NEW place, Goto(p, place),
           \A q \in Procs \ {p} : cur'[q] = cur[q],
           UNCHANGED <<history, acked>>, faults' = 0 => faults = 0,
           pc[p] \notin Unrecorded \cup {"record"}
    PROVE  RecordedWhenAcked'
BY MoveRecorded

\* A crash and a failed write are counted.
LEMMA FaultCounted ==
    ASSUME TypeInv, faults' \in {faults, faults + 1}
    PROVE  faults' = 0 => faults = 0
<1>1. faults \in Nat
  BY BoundsAssumption DEF TypeInv, TypeOK
<1> QED
  BY <1>1

\* AttemptSend records the message that was acknowledged after its bookkeeping.
LEMMA AttemptRecorded ==
    ASSUME TypeInv, RecordedWhenAcked, NEW p \in Procs, AttemptSend(p)
    PROVE  RecordedWhenAcked'
<1>1. \A ob, m : Save(ob) \/ Record(m) => faults' \in {faults, faults + 1}
  BY DEF Save, Record
<1>2. ASSUME NEW ob, Resume(p, ob) PROVE \A q \in Procs \ {p} : cur'[q] = cur[q]
  BY <1>2 DEF Resume, TypeInv, TypeOK
<1>3. CASE PublishAcked(p)
  <2>1. /\ Goto(p, "sent") /\ pc[p] = "dial" /\ UNCHANGED <<cur, history, faults>>
        /\ acked' = acked \cup {cur[p]}
    BY <1>3 DEF PublishAcked, Acknowledge
  <2> QED
    BY <2>1, MoveRecorded DEF Unrecorded
<1>4. CASE PublishFailed(p)
  <2>1. Goto(p, "raise") /\ pc[p] = "dial" /\ UNCHANGED <<cur, history, faults, acked>>
    BY <1>4 DEF PublishFailed, observed
  <2> QED
    BY <2>1, PlainRecorded DEF Unrecorded
<1>5. CASE MarkSent(p) \/ Unlist(p)
  <2>1. PICK place \in {"remove", "store"} : Goto(p, place)
    BY <1>5 DEF MarkSent, Unlist
  <2>2. /\ UNCHANGED <<cur, history, acked>> /\ faults' \in {faults, faults + 1}
        /\ pc[p] \in {"sent", "remove"}
    BY <1>1, <1>5 DEF MarkSent, Unlist, observed
  <2> QED
    BY <2>1, <2>2, FaultCounted, MoveRecorded DEF Unrecorded
<1>6. CASE StoreSent(p)
  <2>1. PICK place \in {"pass", "done"} : Goto(p, place)
    BY <1>6 DEF StoreSent, Resume
  <2>2. /\ UNCHANGED acked /\ faults' \in {faults, faults + 1} /\ history \subseteq history'
        /\ pc[p] = "store"
        /\ \A q \in Procs \ {p} : cur'[q] = cur[q]
    BY <1>1, <1>2, <1>6 DEF StoreSent, Record, observed
  <2>3. faults' = 0 => cur[p] \in history'
    <3>1. faults \in Nat
      BY BoundsAssumption DEF TypeInv, TypeOK
    <3> QED
      BY <1>6, <3>1 DEF StoreSent, Record
  <2> QED
    BY <2>1, <2>2, <2>3, FaultCounted, MoveRecorded DEF Unrecorded
<1>7. CASE RaiseRetry(p) \/ GiveUp(p)
  <2>1. PICK place \in {"giveup", "pass", "done"} : Goto(p, place)
    BY <1>7 DEF RaiseRetry, GiveUp, Resume
  <2>2. /\ UNCHANGED <<history, acked>> /\ faults' \in {faults, faults + 1}
        /\ pc[p] \in {"raise", "giveup"}
    BY <1>1, <1>7 DEF RaiseRetry, GiveUp, observed
  <2>3. \A q \in Procs \ {p} : cur'[q] = cur[q]
    BY <1>2, <1>7 DEF RaiseRetry, GiveUp
  <2> QED
    BY <2>1, <2>2, <2>3, FaultCounted, PlainRecorded DEF Unrecorded
<1> QED
  BY <1>3, <1>4, <1>5, <1>6, <1>7 DEF AttemptSend

\* RecordedWhenAcked is inductive relative to the types.
LEMMA StepRecorded == TypeInv /\ RecordedWhenAcked /\ [Next]_vars => RecordedWhenAcked'
<1> SUFFICES ASSUME TypeInv, RecordedWhenAcked, [Next]_vars PROVE RecordedWhenAcked'
  OBVIOUS
<1>1. /\ Daemon \in Procs /\ RetryCmds \cup ClearCmds \cup Fresh \subseteq Procs
      /\ Daemon \notin Fresh
  BY ProcsAssumption DEF Procs
<1>2. cur \in [Procs -> Msgs \cup {"none"}] /\ pc \in [Procs -> Places]
  BY DEF TypeInv, TypeOK
<1>3. \A ob, m : Save(ob) \/ Record(m) => faults' \in {faults, faults + 1}
  BY DEF Save, Record
<1>4. CASE \E p \in {Daemon} \cup RetryCmds : AttemptSend(p)
  BY <1>1, <1>4, AttemptRecorded
<1>5. CASE UNCHANGED <<pc, cur, history, faults, acked>>
  BY <1>5 DEF RecordedWhenAcked, InFlight
<1>6. ASSUME NEW p \in Procs,
             \/ p = Daemon /\ (PassBegin \/ PassEnd \/ CleanBegin \/ CleanSave \/ Restart)
             \/ p = Daemon /\ \E m \in Msgs : PassSend(m)
             \/ \E m \in Msgs : RetryBegin(p, m)
             \/ ClearStep(p)
             \/ SendFailed(p) \/ SendLoad(p) \/ SendSave(p)
      PROVE  RecordedWhenAcked'
  <2>1. PICK place : Goto(p, place)
    BY <1>6 DEF PassBegin, PassEnd, CleanBegin, CleanSave, Restart, PassSend, RetryBegin,
       ClearStep, ClearBegin, ClearAnswer, SendFailed, SendLoad, SendSave
  <2>2. pc[p] \notin Unrecorded \cup {"record"}
    BY <1>6 DEF PassBegin, PassEnd, CleanBegin, CleanSave, Restart, PassSend, RetryBegin,
       ClearStep, ClearBegin, ClearAnswer, SendFailed, SendLoad, SendSave, Unrecorded
  <2>3. UNCHANGED <<history, acked>> /\ faults' \in {faults, faults + 1}
    BY <1>3, <1>6 DEF PassBegin, PassEnd, CleanBegin, CleanSave, Restart, PassSend, RetryBegin,
       ClearStep, ClearBegin, ClearAnswer, SendFailed, SendLoad, SendSave, observed
  <2>4. \A q \in Procs \ {p} : cur'[q] = cur[q]
    BY <1>1, <1>2, <1>6 DEF PassBegin, PassEnd, CleanBegin, CleanSave, Restart, PassSend,
       RetryBegin, ClearStep, ClearBegin, ClearAnswer, SendFailed, SendLoad, SendSave
  <2> QED
    BY <2>1, <2>2, <2>3, <2>4, FaultCounted, PlainRecorded
<1>7. CASE \E m \in Msgs : PassOver(m)
  BY <1>5, <1>7 DEF PassOver, observed
<1>8. ASSUME NEW m \in Fresh, SendAcked(m) PROVE RecordedWhenAcked'
  <2>1. /\ Goto(m, "record") /\ pc[m] = "ready" /\ UNCHANGED <<cur, history, faults>>
        /\ acked' = acked \cup {m}
    BY <1>8 DEF SendAcked, Acknowledge
  <2> QED
    BY <1>1, <2>1, MoveRecorded DEF Unrecorded
<1>9. ASSUME NEW m \in Fresh, SendRecord(m) PROVE RecordedWhenAcked'
  <2>1. /\ Goto(m, "loadrm") /\ pc[m] = "record" /\ UNCHANGED <<cur, acked>>
        /\ faults' \in {faults, faults + 1} /\ history \subseteq history'
    BY <1>3, <1>9 DEF SendRecord, Record, observed
  <2>2. faults' = 0 => m \in history'
    <3>1. faults \in Nat
      BY BoundsAssumption DEF TypeInv, TypeOK
    <3> QED
      BY <1>9, <3>1 DEF SendRecord, Record
  <2> QED
    BY <1>1, <2>1, <2>2, FaultCounted, MoveRecorded DEF Unrecorded
<1>10. CASE \E p \in Procs : Crash(p)
  <2>1. faults' # 0
    <3>1. faults \in Nat
      BY BoundsAssumption DEF TypeInv, TypeOK
    <3> QED
      BY <1>10, <3>1 DEF Crash
  <2> QED
    BY <2>1 DEF RecordedWhenAcked
<1>11. CASE UNCHANGED vars
  BY <1>5, <1>11 DEF vars
<1> QED
  BY <1>1, <1>4, <1>6, <1>7, <1>8, <1>9, <1>10, <1>11
     DEF Next, DaemonStep, RetryStep, SendStep

\* However the windows overlap, as long as nothing crashes or fails a message
\* that a relay acknowledged gets into the local history: `agent msg`, the
\* daemon and the retry command all record it on their way.
THEOREM AckedRecorded == Spec => []RecordedWhenAcked
<1>1. Init => RecordedWhenAcked
  BY DEF Init, RecordedWhenAcked
<1>2. TypeInv /\ RecordedWhenAcked /\ [Next]_vars => TypeInv' /\ RecordedWhenAcked'
  BY StepTypes, StepRecorded
<1>3. Spec => [](TypeInv /\ RecordedWhenAcked)
  BY InitTypes, <1>1, <1>2, PTL DEF Spec
<1> QED
  BY <1>3, PTL

=============================================================================
