------------------------------- MODULE Outbox -------------------------------
(***************************************************************************)
(* The retry queue of undelivered messages: the file ~/.hyphae/outbox.json *)
(* and every process that reads or rewrites it (internal/messaging/        *)
(* outbox.go, outbox_commands.go, agent.go; internal/daemon/daemon.go).    *)
(*                                                                         *)
(* The file is rewritten as a whole: a process loads it, works on its own  *)
(* copy, and saves the copy.  No lock is taken, and the daemon and the     *)
(* retry command dial relays between their load and their saves, so the    *)
(* length of that window is what most of this module is about.             *)
(*                                                                         *)
(* Processes: the daemon, one `agent msg` command for every fresh message, *)
(* and any number of `storage outbox retry` and `storage outbox clear`     *)
(* commands, each run once.                                                *)
(*                                                                         *)
(* Abstracted:                                                             *)
(*  - one save is one step (SaveOutbox writes a temporary file and renames *)
(*    it; module SaveFile models that step by step);                       *)
(*  - LastAttempt and the clock: LastAttempt > 0 exactly when RetryCount   *)
(*    is, since IncrementOutboxRetry sets both; whether the backoff or the *)
(*    seven days have passed is a free choice;                             *)
(*  - the entries' order: the daemon may take its pending entries in any   *)
(*    order;                                                               *)
(*  - the relays of one attempt: they acknowledge the event (at least one  *)
(*    does) or they do not.  An OK that is lost on the way is a relay that *)
(*    did not acknowledge, as it is for the code.                          *)
(***************************************************************************)
EXTENDS Naturals, FiniteSets

CONSTANTS
    Fresh,        \* messages composed during the run, one `agent msg` each
    Legacy,       \* messages whose entries are in the file from the start
    Twins,        \* legacy messages stored under one ID (unsigned events)
    Garbled,      \* legacy messages whose EventJSON does not parse
    Daemon,       \* the daemon process
    RetryCmds,    \* invocations of `storage outbox retry`
    ClearCmds,    \* invocations of `storage outbox clear`
    MaxRetries,   \* OutboxEntry.MaxRetries, 10 in AddToOutbox
    MinFailures,  \* --min-failures of the clear command, 5 by default
    Overlap,      \* may a process load while another one is still to save?
    MaxFaults     \* bound: crashes and failed writes in one behaviour

Msgs  == Fresh \cup Legacy
Procs == {Daemon} \cup Fresh \cup RetryCmds \cup ClearCmds

ASSUME ProcsAssumption ==
    /\ Daemon \notin Fresh \cup RetryCmds \cup ClearCmds
    /\ Fresh \cap (RetryCmds \cup ClearCmds) = {}
    /\ RetryCmds \cap ClearCmds = {}

ASSUME MsgsAssumption ==
    /\ Fresh \cap Legacy = {}
    /\ Twins \subseteq Legacy
    /\ Garbled \subseteq Legacy
    /\ "none" \notin Msgs

ASSUME BoundsAssumption ==
    /\ MaxRetries \in Nat \ {0}
    /\ MinFailures \in Nat
    /\ MaxFaults \in Nat
    /\ Overlap \in BOOLEAN
    /\ IsFiniteSet(RetryCmds)

VARIABLES
    disk,     \* outbox.json
    snap,     \* the copy each process loaded and will save
    pc,       \* where each process is
    cur,      \* the entry a process is sending
    todo,     \* pending entries the daemon's pass has not looked at yet
    history,  \* outgoing messages in the message store
    faults,   \* crashes and failed writes so far
    (* Observations, read by no guard. *)
    acked,    \* messages a relay has acknowledged
    resent,   \* messages acknowledged again after that
    queued,   \* messages whose entry has been in the file
    dropped   \* entries removed by the user or by the cleanup

observed == <<acked, resent, queued, dropped>>
vars == <<disk, snap, pc, cur, todo, history, faults,
          acked, resent, queued, dropped>>

-----------------------------------------------------------------------------
(* Entries and the operations on a loaded outbox.                          *)

Entry   == [status : {"absent", "pending", "sent", "failed"}, retries : Nat]
Absent  == [status |-> "absent", retries |-> 0]
Pending == [status |-> "pending", retries |-> 0]
Empty   == [m \in Msgs |-> Absent]

Present(ob, m) == ob[m].status # "absent"
SameId(m, n)   == m = n \/ {m, n} \subseteq Twins

\* countByID(ob, m) > 1: another entry is stored under m's ID.
Duplicated(ob, m) ==
    \E n \in Msgs \ {m} : SameId(m, n) /\ Present(ob, m) /\ Present(ob, n)

\* Seeded fault: an entry whose budget is used up is offered once more.
SendableOnceMore(ob) ==
    {m \in Msgs : ob[m].status = "pending" /\ ob[m].retries <= MaxRetries}

\* GetPendingOutbox.
Sendable(ob) ==
    {m \in Msgs : ob[m].status = "pending" /\ ob[m].retries < MaxRetries}

\* AttemptSend returns before it dials: the ID is not unique, or the stored
\* event does not parse.
Refused(ob, m) == Duplicated(ob, m) \/ m \in Garbled

\* Seeded faults: failed attempts are not counted, or counted down.
RetryForgotten(ob, m) == ob
RetryDown(ob, m)      == [ob EXCEPT ![m].retries = @ - 1]

\* UpdateOutboxStatus and IncrementOutboxRetry; AttemptSend has made sure that
\* m is the only entry with its ID.
WithStatus(ob, m, s) == [ob EXCEPT ![m].status = s]
WithRetry(ob, m)     == [ob EXCEPT ![m].retries = @ + 1]

\* Seeded faults: the comparison is one too late, or one too early.
LastTryLate(ob, m)  == ob[m].retries >= MaxRetries
LastTryEarly(ob, m) == ob[m].retries >= MaxRetries - 2

\* entry.RetryCount, a copy made by the load, is the count before this failure.
LastTry(ob, m) == ob[m].retries >= MaxRetries - 1

\* Seeded fault: an outbox that cannot be read counts as an empty one.
AddedToNothing(ob, m) == [Empty EXCEPT ![m] = Pending]

\* AddToOutbox.
Added(ob, m) == [ob EXCEPT ![m] = Pending]

\* RemoveFromOutbox: everything stored under m's ID goes, unless two are.
Removed(ob, m) ==
    IF Duplicated(ob, m) THEN ob
    ELSE [n \in Msgs |-> IF SameId(m, n) THEN Absent ELSE ob[n]]

\* What `storage outbox clear --failed` offers to remove.
Clearable(ob) ==
    {m \in Msgs : /\ Present(ob, m)
                  /\ \/ ob[m].status = "failed"
                     \/ ob[m].retries >= MinFailures}

\* isFailedOrStuck's second case: pending, but no pass will pick it up again.
Stuck(ob, m) == ob[m].status = "pending" /\ ob[m].retries >= MaxRetries

Without(ob, gone) == [m \in Msgs |-> IF m \in gone THEN Absent ELSE ob[m]]

-----------------------------------------------------------------------------
(* Control.  A process is between its load and its last save exactly when  *)
(* it is at one of the Holding places.                                     *)

Sending == {"dial", "sent", "remove", "store", "raise", "giveup"}
Holding == Sending \cup {"pass", "clean", "confirm", "unqueue", "enqueue"}
Places  == Holding \cup {"down", "idle", "ready", "record", "loadrm", "loadadd",
                         "done"}

Goto(p, place) == pc' = [pc EXCEPT ![p] = place]

Free == Overlap \/ \A q \in Procs : pc[q] \notin Holding

\* LoadOutbox.
Load(p) == Free /\ snap' = [snap EXCEPT ![p] = disk]

\* SaveOutbox: the file becomes ob, or the write fails and the file stays.
Save(ob) ==
    \/ disk' = ob /\ UNCHANGED faults
    \/ /\ faults < MaxFaults
       /\ faults' = faults + 1
       /\ UNCHANGED disk

\* StoreOutgoingMessage, whose error no caller acts upon.
Record(m) ==
    \/ history' = history \cup {m} /\ UNCHANGED faults
    \/ /\ faults < MaxFaults
       /\ faults' = faults + 1
       /\ UNCHANGED history

Acknowledge(m) ==
    /\ acked' = acked \cup {m}
    /\ resent' = resent \cup (acked \cap {m})
    /\ UNCHANGED <<queued, dropped>>

\* AttemptSend returns: the daemon goes on with its pass, the command exits.
Resume(p, ob) ==
    /\ Goto(p, IF p = Daemon THEN "pass" ELSE "done")
    /\ snap' = [snap EXCEPT ![p] = IF p = Daemon THEN ob ELSE Empty]
    /\ cur' = [cur EXCEPT ![p] = "none"]

-----------------------------------------------------------------------------
(* AttemptSend, run by the daemon and by the retry command p on cur[p].    *)

PublishAcked(p) ==
    /\ pc[p] = "dial"
    /\ Acknowledge(cur[p])
    /\ Goto(p, "sent")
    /\ UNCHANGED <<disk, snap, cur, todo, history, faults>>

\* Seeded fault: the bookkeeping does not ask whether a relay said OK.
PublishFailedUnnoticed(p) ==
    /\ pc[p] = "dial"
    /\ Goto(p, "sent")
    /\ UNCHANGED <<disk, snap, cur, todo, history, faults, observed>>

PublishFailed(p) ==
    /\ pc[p] = "dial"
    /\ Goto(p, "raise")
    /\ UNCHANGED <<disk, snap, cur, todo, history, faults, observed>>

MarkSent(p) ==
    LET ob == WithStatus(snap[p], cur[p], "sent")
    IN  /\ pc[p] = "sent"
        /\ Save(ob)
        /\ snap' = [snap EXCEPT ![p] = ob]
        /\ Goto(p, "remove")
        /\ UNCHANGED <<cur, todo, history, observed>>

\* Seeded faults: the entry is only marked, never removed; or it is removed
\* from the file but not from the copy the pass goes on with.
UnlistNothing(p) ==
    /\ pc[p] = "remove"
    /\ Goto(p, "store")
    /\ UNCHANGED <<disk, snap, cur, todo, history, faults, observed>>

UnlistFileOnly(p) ==
    /\ pc[p] = "remove"
    /\ Save(Removed(snap[p], cur[p]))
    /\ Goto(p, "store")
    /\ UNCHANGED <<snap, cur, todo, history, observed>>

Unlist(p) ==
    LET ob == Removed(snap[p], cur[p])
    IN  /\ pc[p] = "remove"
        /\ Save(ob)
        /\ snap' = [snap EXCEPT ![p] = ob]
        /\ Goto(p, "store")
        /\ UNCHANGED <<cur, todo, history, observed>>

\* Seeded fault: a queued message that is sent at last is not recorded.
StoreSentNothing(p) ==
    /\ pc[p] = "store"
    /\ Resume(p, snap[p])
    /\ UNCHANGED <<disk, todo, history, faults, observed>>

StoreSent(p) ==
    /\ pc[p] = "store"
    /\ Record(cur[p])
    /\ Resume(p, snap[p])
    /\ UNCHANGED <<disk, todo, observed>>

RaiseRetry(p) ==
    LET m  == cur[p]
        ob == WithRetry(snap[p], m)
    IN  /\ pc[p] = "raise"
        /\ Save(ob)
        /\ \/ /\ LastTry(snap[p], m)
              /\ snap' = [snap EXCEPT ![p] = ob]
              /\ Goto(p, "giveup")
              /\ UNCHANGED cur
           \/ /\ ~LastTry(snap[p], m)
              /\ Resume(p, ob)
        /\ UNCHANGED <<todo, history, observed>>

GiveUp(p) ==
    LET ob == WithStatus(snap[p], cur[p], "failed")
    IN  /\ pc[p] = "giveup"
        /\ Save(ob)
        /\ Resume(p, ob)
        /\ UNCHANGED <<todo, history, observed>>

AttemptSend(p) ==
    \/ PublishAcked(p) \/ PublishFailed(p)
    \/ MarkSent(p) \/ Unlist(p) \/ StoreSent(p)
    \/ RaiseRetry(p) \/ GiveUp(p)

-----------------------------------------------------------------------------
(* The daemon: processOutbox, cleanupOutbox, crash and restart.            *)

PassBegin ==
    /\ pc[Daemon] = "idle"
    /\ Load(Daemon)
    /\ Sendable(disk) # {}
    /\ todo' = Sendable(disk)
    /\ Goto(Daemon, "pass")
    /\ UNCHANGED <<disk, cur, history, faults, observed>>

\* The entry was tried before and its backoff has not passed, or AttemptSend
\* refuses it.
PassOver(m) ==
    /\ pc[Daemon] = "pass"
    /\ m \in todo
    /\ snap[Daemon][m].retries > 0 \/ Refused(snap[Daemon], m)
    /\ todo' = todo \ {m}
    /\ UNCHANGED <<disk, snap, pc, cur, history, faults, observed>>

PassSend(m) ==
    /\ pc[Daemon] = "pass"
    /\ m \in todo
    /\ ~Refused(snap[Daemon], m)
    /\ todo' = todo \ {m}
    /\ cur' = [cur EXCEPT ![Daemon] = m]
    /\ Goto(Daemon, "dial")
    /\ UNCHANGED <<disk, snap, history, faults, observed>>

PassEnd ==
    /\ pc[Daemon] = "pass"
    /\ todo = {}
    /\ snap' = [snap EXCEPT ![Daemon] = Empty]
    /\ Goto(Daemon, "idle")
    /\ UNCHANGED <<disk, cur, todo, history, faults, observed>>

CleanBegin ==
    /\ pc[Daemon] = "idle"
    /\ Load(Daemon)
    /\ Goto(Daemon, "clean")
    /\ UNCHANGED <<disk, cur, todo, history, faults, observed>>

\* CleanupOutbox keeps what is pending and what was tried within seven days;
\* an entry that was never tried has LastAttempt 0.
CleanSave ==
    LET ob       == snap[Daemon]
        finished == {m \in Msgs : ob[m].status \in {"sent", "failed"}}
    IN  \E old \in SUBSET finished :
          /\ pc[Daemon] = "clean"
          /\ {m \in finished : ob[m].retries = 0} \subseteq old
          /\ Save(Without(ob, old))
          /\ dropped' = IF disk' = Without(ob, old) THEN dropped \cup old ELSE dropped
          /\ snap' = [snap EXCEPT ![Daemon] = Empty]
          /\ Goto(Daemon, "idle")
          /\ UNCHANGED <<cur, todo, history, acked, resent, queued>>

Restart ==
    /\ pc[Daemon] = "down"
    /\ Goto(Daemon, "idle")
    /\ UNCHANGED <<disk, snap, cur, todo, history, faults, observed>>

-----------------------------------------------------------------------------
(* The commands.                                                           *)

\* `storage outbox retry --id`: exactly one entry has the ID, whatever its
\* status and its retries.
RetryBegin(p, m) ==
    /\ pc[p] = "ready"
    /\ Load(p)
    /\ Present(disk, m)
    /\ ~Refused(disk, m)
    /\ cur' = [cur EXCEPT ![p] = m]
    /\ Goto(p, "dial")
    /\ UNCHANGED <<disk, todo, history, faults, observed>>

\* `storage outbox clear`: the question is asked between load and save.
ClearBegin(p) ==
    /\ pc[p] = "ready"
    /\ Load(p)
    /\ Clearable(disk) # {}
    /\ Goto(p, "confirm")
    /\ UNCHANGED <<disk, cur, todo, history, faults, observed>>

ClearAnswer(p) ==
    LET gone == Clearable(snap[p])
        ob   == Without(snap[p], gone)
    IN  /\ pc[p] = "confirm"
        /\ \/ /\ Save(ob)
              /\ dropped' = IF disk' = ob THEN dropped \cup gone ELSE dropped
           \/ UNCHANGED <<disk, faults, dropped>>
        /\ snap' = [snap EXCEPT ![p] = Empty]
        /\ Goto(p, "done")
        /\ UNCHANGED <<cur, todo, history, acked, resent, queued>>

\* `agent msg` for the message m, once it is signed: with an acknowledgement
\* it records the message and takes it off the outbox, else it queues it.
SendAcked(m) ==
    /\ pc[m] = "ready"
    /\ Acknowledge(m)
    /\ Goto(m, "record")
    /\ UNCHANGED <<disk, snap, cur, todo, history, faults>>

SendFailed(m) ==
    /\ pc[m] = "ready"
    /\ Goto(m, "loadadd")
    /\ UNCHANGED <<disk, snap, cur, todo, history, faults, observed>>

SendRecord(m) ==
    /\ pc[m] = "record"
    /\ Record(m)
    /\ Goto(m, "loadrm")
    /\ UNCHANGED <<disk, snap, cur, todo, observed>>

SendLoad(m) ==
    /\ \/ pc[m] = "loadrm"  /\ Goto(m, "unqueue")
       \/ pc[m] = "loadadd" /\ Goto(m, "enqueue")
    /\ Load(m)
    /\ UNCHANGED <<disk, cur, todo, history, faults, observed>>

SendSave(m) ==
    LET ob == IF pc[m] = "enqueue" THEN Added(snap[m], m) ELSE Removed(snap[m], m)
    IN  /\ pc[m] \in {"unqueue", "enqueue"}
        /\ Save(ob)
        /\ queued' = IF pc[m] = "enqueue" /\ disk' = ob THEN queued \cup {m} ELSE queued
        /\ snap' = [snap EXCEPT ![m] = Empty]
        /\ Goto(m, "done")
        /\ UNCHANGED <<cur, todo, history, acked, resent, dropped>>

\* A process is killed: the daemon may be started again, a command may not.
Crash(p) ==
    /\ faults < MaxFaults
    /\ pc[p] \notin {"ready", "done", "down"}
    /\ faults' = faults + 1
    /\ Goto(p, IF p = Daemon THEN "down" ELSE "done")
    /\ snap' = [snap EXCEPT ![p] = Empty]
    /\ cur' = [cur EXCEPT ![p] = "none"]
    /\ todo' = IF p = Daemon THEN {} ELSE todo
    /\ UNCHANGED <<disk, history, observed>>

-----------------------------------------------------------------------------
\* Legacy entries are as an older binary left them: pending, tried or not.
Init ==
    /\ disk \in [Msgs -> {Absent} \cup [status : {"pending"}, retries : 0 .. MaxRetries]]
    /\ \A m \in Msgs : Present(disk, m) <=> m \in Legacy
    /\ snap = [p \in Procs |-> Empty]
    /\ pc = [p \in Procs |-> IF p = Daemon THEN "idle" ELSE "ready"]
    /\ cur = [p \in Procs |-> "none"]
    /\ todo = {}
    /\ history = {}
    /\ faults = 0
    /\ acked = {}
    /\ resent = {}
    /\ queued = Legacy
    /\ dropped = {}

DaemonStep ==
    \/ PassBegin
    \/ \E m \in Msgs : PassOver(m) \/ PassSend(m)
    \/ PassEnd
    \/ AttemptSend(Daemon)
    \/ CleanBegin
    \/ CleanSave
    \/ Restart

RetryStep(p) == AttemptSend(p) \/ \E m \in Msgs : RetryBegin(p, m)
ClearStep(p) == ClearBegin(p) \/ ClearAnswer(p)

SendStep(m) ==
    \/ SendAcked(m) \/ SendFailed(m) \/ SendRecord(m)
    \/ SendLoad(m) \/ SendSave(m)

Next ==
    \/ DaemonStep
    \/ \E p \in RetryCmds : RetryStep(p)
    \/ \E p \in ClearCmds : ClearStep(p)
    \/ \E m \in Fresh : SendStep(m)
    \/ \E p \in Procs : Crash(p)

Spec == Init /\ [][Next]_vars

(***************************************************************************)
(* Fairness, for the runs that ask whether the queue drains.  The daemon   *)
(* is a Go select over tickers in a loop that launchd restarts: its steps  *)
(* are taken, and a ready retry tick is not passed over for ever by the    *)
(* cleanup tick.  The backoff is at most five minutes, so an entry that    *)
(* every pass offers again is not skipped for ever.  A command that was    *)
(* started runs on; whether the user starts one, or answers the question   *)
(* of clear, is up to the user.                                            *)
(***************************************************************************)
Fairness ==
    /\ WF_vars(AttemptSend(Daemon))
    /\ WF_vars(PassEnd)
    /\ WF_vars(CleanSave)
    /\ WF_vars(Restart)
    /\ SF_vars(PassBegin)
    /\ \A m \in Msgs : SF_vars(PassSend(m)) /\ WF_vars(PassOver(m))
    /\ \A p \in RetryCmds : WF_vars(AttemptSend(p))
    /\ \A m \in Fresh : WF_vars(SendRecord(m) \/ SendLoad(m) \/ SendSave(m))

FairSpec == Spec /\ Fairness

-----------------------------------------------------------------------------
(* Properties.                                                             *)

\* The type of every variable.
TypeOK ==
    /\ disk \in [Msgs -> Entry]
    /\ snap \in [Procs -> [Msgs -> Entry]]
    /\ pc \in [Procs -> Places]
    /\ cur \in [Procs -> Msgs \cup {"none"}]
    /\ todo \subseteq Msgs
    /\ history \subseteq Msgs
    /\ faults \in 0 .. MaxFaults
    /\ acked \subseteq Msgs
    /\ resent \subseteq Msgs
    /\ queued \subseteq Msgs
    /\ dropped \subseteq Msgs

\* A message whose entry has reached outbox.json is still there unless a relay
\* acknowledged it or the user (clear) or the cleanup removed it: no crash,
\* failed write, retry or shared ID makes an entry vanish.
NoSilentLoss ==
    \A m \in queued : Present(disk, m) \/ m \in acked \cup dropped

\* No message is acknowledged by a relay in two different send attempts: "a
\* daemon crash after a successful publish does not double-send".
NoDoubleSend == resent = {}

\* As long as no process crashed and no write failed, the bookkeeping after a
\* publish is enough to keep every later pass and command off the message.
NoDoubleSendUnlessFault == faults = 0 => NoDoubleSend

\* The attempt that got m acknowledged has not finished its bookkeeping.
InFlight(m) ==
    \/ m \in Fresh /\ pc[m] = "record"
    \/ \E p \in Procs : cur[p] = m /\ pc[p] \in {"sent", "remove", "store"}

\* As long as nothing crashed or failed, an acknowledged message is in the
\* local history or its attempt is about to put it there, whichever of agent
\* msg, the daemon and the retry command sent it.
RecordedWhenAcked ==
    faults = 0 => \A m \in acked : m \in history \/ InFlight(m)

\* As long as nothing crashed or failed, a message of this run does not rest
\* pending with its retries used up, where no pass would look at it again: the
\* attempt that uses up the last retry also marks the entry failed.
StuckOnlyByFault ==
    faults = 0 =>
        \A m \in Fresh : Stuck(disk, m) =>
            \E p \in Procs : cur[p] = m /\ pc[p] = "giveup"

\* An entry on disk says "sent" only if a relay has acknowledged the message,
\* and "failed" only if all its retries are used up; also when stale copies
\* overwrite each other.
StatusIsEarned ==
    \A m \in Msgs :
        /\ disk[m].status = "sent" => m \in acked
        /\ disk[m].status = "failed" => disk[m].retries >= MaxRetries

\* A retry count exceeds MaxRetries by at most the manual retries, which ask
\* for no budget; the daemon alone never goes beyond it.
RetryBound ==
    \A m \in Msgs : disk[m].retries <= MaxRetries + Cardinality(RetryCmds)

\* An entry that left the file stays out of it: no save brings back what was
\* sent, cleared or cleaned up.
NoResurrection ==
    [][\A m \in queued : ~Present(disk, m) => ~Present(disk', m)]_vars

\* "retry --id triggers the retry of a single entry and does not affect other
\* entries": no step of a retry command changes another message's entry.
RetryTouchesOneEntry ==
    [][\A p \in RetryCmds : pc'[p] # pc[p] =>
          \A m \in Msgs \ {cur[p]} : disk'[m] = disk[m]]_vars

\* Eventually nothing is left that a pass would send: each entry it can send is
\* sent, failed, exhausted or removed, however the relays answer and however
\* finitely many commands, crashes and failed writes interfere.
Settles ==
    <>[](\A m \in Sendable(disk) : Refused(disk, m))

\* What Delivery sees of a message: an acknowledgement is final, whatever the
\* bookkeeping after it manages to write.
Fate(m) ==
    CASE m \in acked                  -> "delivered"
      [] disk[m].status = "pending" /\ m \notin acked -> "queued"
      [] disk[m].status = "failed" /\ m \notin acked  -> "givenup"
      [] ~Present(disk, m) /\ m \in dropped \ acked   -> "removed"
      [] OTHER                        -> "new"

Promise == INSTANCE Delivery WITH fate <- [m \in Msgs |-> Fate(m)]

\* While no two load-to-save windows overlap, the outbox keeps Delivery's
\* promise through crashes, failed writes, duplicate IDs and every command.
KeepsPromise == Promise!Spec

=============================================================================
