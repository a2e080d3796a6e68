------------------------------- MODULE Messages -------------------------------
(***************************************************************************)
(* The message history: who writes a message to the table messages and     *)
(* with which text, and how a process first opens the store, moving the    *)
(* messages.json of older versions into it.  Sender and addressee are      *)
(* identities of one keystore, so that both of their commands write the    *)
(* same row.  What relays do, and the queue, are left to Outbox and Inbox: *)
(* here a publication is acknowledged, taken without one, or refused.      *)
(***************************************************************************)
EXTENDS AuditLog

CONSTANTS
    Legacy,       \* the messages of messages.json
    LegacyFiles   \* what the file can be at first: "none", "json", "broken"

ASSUME MessagesAssumption == LegacyFiles \subseteq {"none", "json", "broken"}

VARIABLES
    file,        \* messages.json: one of LegacyFiles, or renamed to "backup"
    migrated,    \* the ids its messages have in the table
    history,     \* the plaintext column, "absent" without a row: "text", "cipher",
                 \* "placeholder", "empty"
    opened,      \* a process's store: "closed", "open", or why it stays shut
    mail,        \* the message a thread is busy with
    published,   \* messages some relay has
    queued,      \* messages in outbox.json
    reported,    \* messages `agent msg` called published
    unlucky,     \* messages whose store met a fault or a store shut for a cause
    yields       \* what a message yields: "text"; "cipher" if it does not decrypt;
                 \* if it does not decompress, "empty", or "neither" if encrypted

mailVars ==
    <<file, migrated, history, opened, mail, published, queued, reported, unlucky, yields>>

NoMail == [kind |-> "none", id |-> 0, text |-> "text", todo |-> {}, acked |-> FALSE]
Causes == {"fault", "race", "broken"}

MessageFact(t, what) == [what |-> what, id |-> mail[t].id, npub |-> "none"]

Takes(t, kind, id, text, acked) ==
    mail' = [mail EXCEPT ![t] = [kind |-> kind, id |-> id, text |-> text,
                                 todo |-> {}, acked |-> acked]]

\* A command is a new process, whose store is not open yet.
Begins(t, job, place) ==
    /\ Start(t, job, place)
    /\ opened' = IF t \in Workers THEN opened ELSE [opened EXCEPT ![t] = "closed"]

-----------------------------------------------------------------------------
(* InitStorage and MigrateFromJSON, under a mutex of the process.          *)

\* The mutex is free, or held by t.
Mutex(t) == \A u \in Threads \ {t} :
                Process(u) = Process(t) => pc[u] \notin {"migrate", "rename"}

\* Seeded fault: the id is made from the time of the migration.
LegacyIdByRun(m, t) == <<m, number[t]>>

\* Seeded fault: the id is made from CreatedAt alone, to the second.
LegacyIdBySecond(m, t) == <<CHOOSE n \in Legacy : TRUE, 0>>

\* legacy-<CreatedAt>-<index>, for messages that have no id.
LegacyId(m, t) == <<m, 0>>

\* InitStorage returns: err is kept for all later calls of the process.
Opens(t, how) ==
    /\ opened' = [opened EXCEPT ![Process(t)] = how]
    /\ Goto(t, IF mail[t].kind = "migrate" THEN "idle" ELSE "store")

\* Seeded fault: a missing file is an error.
StatMissing(t) ==
    /\ file \in {"none", "backup"}
    /\ Opens(t, "missing")
    /\ Reads

\* No file: nothing to do.
Stat(t) ==
    /\ file \in {"none", "backup"}
    /\ Opens(t, "open")
    /\ Reads

OpenStore(t) ==
    /\ pc[t] = "open"
    /\ opened[Process(t)] = "closed"
    /\ Mutex(t)
    /\ \/ Stat(t)
       \/ file = "broken" /\ Opens(t, "broken") /\ Reads
       \/ Breaks /\ Opens(t, "fault")
       \/ file = "json" /\ Reads /\ Goto(t, "migrate") /\ UNCHANGED opened
    /\ UNCHANGED <<auditVars, file, migrated, history, mail, published, queued,
                   reported, unlucky, yields>>

\* The singleton is set, or the error of the first call is returned again.
StoreKnown(t) ==
    /\ pc[t] = "open"
    /\ opened[Process(t)] # "closed"
    /\ Reads
    /\ Goto(t, "store")
    /\ UNCHANGED <<auditVars, mailVars>>

\* ReadFile, and one transaction with every message in it.
Migrate(t) ==
    /\ pc[t] = "migrate"
    /\ \/ /\ file = "json"
          /\ migrated' = migrated \cup {LegacyId(m, t) : m \in Legacy}
          /\ Executes(t)
          /\ Goto(t, "rename")
          /\ UNCHANGED opened
       \/ /\ file # "json"
          /\ Opens(t, "race")
          /\ Reads /\ UNCHANGED migrated
       \/ /\ Opens(t, "fault")
          /\ Breaks /\ UNCHANGED migrated
    /\ UNCHANGED <<auditVars, file, history, mail, published, queued, reported, unlucky, yields>>

\* Rename fails too when another process has done it.
Rename(t) ==
    /\ pc[t] = "rename"
    /\ \/ /\ file = "json"
          /\ file' = "backup"
          /\ Opens(t, "open")
          /\ Reads
       \/ /\ file # "json"
          /\ Opens(t, "race")
          /\ Reads /\ UNCHANGED file
       \/ /\ Opens(t, "fault")
          /\ Breaks /\ UNCHANGED file
    /\ UNCHANGED <<auditVars, migrated, history, mail, published, queued, reported, unlucky,
                   yields>>

-----------------------------------------------------------------------------
(* The writers.                                                            *)

\* What a publication can come to: whether a relay has the event, whether the
\* sender knows.
Publishes(id, acked) ==
    \/ acked /\ published' = published \cup {id}
    \/ ~acked /\ published' \in {published, published \cup {id}}

\* agent msg: without an acknowledgement the message is queued.
Send(t) ==
    /\ Begins(t, "msg", "open")
    /\ Publishes(begun + 1, TRUE)
    /\ Takes(t, "msg", begun + 1, "text", TRUE)
    /\ UNCHANGED <<auditVars, file, migrated, history, queued, reported, unlucky, yields>>

SendQueued(t) ==
    /\ pc[t] = "idle" /\ "msg" \in workload /\ begun < MaxCommands
    /\ begun' = begun + 1
    /\ Publishes(begun + 1, FALSE)
    /\ queued' = queued \cup {begun + 1}
    /\ UNCHANGED <<auditVars, workload, pc, number, open, stale, faults, file, migrated,
                   history, opened, mail, reported, unlucky, yields>>

\* agent inbox: every event of the answer, to be decrypted or not.
ReadInbox(t) ==
    /\ Begins(t, "inbox", "inbox")
    /\ \E text \in {"text", "placeholder"} :
          mail' = [mail EXCEPT ![t] = [NoMail EXCEPT !.kind = "inbox", !.text = text,
                                                     !.todo = published]]
    /\ UNCHANGED <<auditVars, file, migrated, history, published, queued, reported, unlucky,
                   yields>>

NextOfInbox(t) ==
    /\ pc[t] = "inbox"
    /\ Reads
    /\ \/ \E id \in mail[t].todo :
             /\ mail' = [mail EXCEPT ![t].id = id, ![t].todo = @ \ {id}]
             /\ Goto(t, "open")
       \/ /\ mail[t].todo = {}
          /\ mail' = [mail EXCEPT ![t] = NoMail]
          /\ Goto(t, "idle")
    /\ UNCHANGED <<auditVars, file, migrated, history, opened, published, queued,
                   reported, unlucky, yields>>

\* The daemon has received an event, whether or not it will decrypt.
Receive(t) ==
    /\ Begins(t, "receive", "open")
    /\ \E id \in published : Takes(t, "receive", id, "text", TRUE)
    /\ UNCHANGED <<auditVars, file, migrated, history, published, queued, reported, unlucky,
                   yields>>

\* sendAutoReply stores and logs the answer whether or not a relay took it.
Reply(t) ==
    /\ Begins(t, "reply", "open")
    /\ \E acked \in BOOLEAN :
          /\ Publishes(begun + 1, acked)
          /\ Takes(t, "reply", begun + 1, "text", acked)
    /\ UNCHANGED <<auditVars, file, migrated, history, queued, reported, unlucky, yields>>

\* AttemptSend has delivered a queued message, of which it has the ciphertext.
Retry(t) ==
    /\ Begins(t, "retry", "open")
    /\ \E id \in queued :
          /\ published' = published \cup {id}
          /\ queued' = queued \ {id}
          /\ Takes(t, "retry", id, "cipher", TRUE)
    /\ UNCHANGED <<auditVars, file, migrated, history, reported, unlucky, yields>>

\* storage migrate.
MigrateCommand(t) ==
    /\ Begins(t, "migrate", "open")
    /\ Takes(t, "migrate", 0, "text", TRUE)
    /\ UNCHANGED <<auditVars, file, migrated, history, published, queued, reported, unlucky,
                   yields>>

\* Another program sends an event to this identity: one it can read or not.
PeerSends ==
    /\ "peer" \in workload /\ begun < MaxCommands
    /\ begun' = begun + 1
    /\ published' = published \cup {begun + 1}
    /\ \E what \in {"text", "cipher", "empty", "neither"} :
          yields' = [yields EXCEPT ![begun + 1] = what]
    /\ UNCHANGED <<auditVars, workload, pc, number, open, stale, faults, file, migrated,
                   history, opened, mail, queued, reported, unlucky>>

\* What each writer does once its row is written or has failed to be.
Stored(t) ==
    /\ reported' = IF mail[t].kind = "msg" THEN reported \cup {mail[t].id} ELSE reported
    /\ CASE mail[t].kind = "msg"   -> Log(t, MessageFact(t, "sent"), "idle")
         [] mail[t].kind = "inbox" -> Log(t, MessageFact(t, "received"), "inbox")
         [] mail[t].kind = "reply" -> Log(t, MessageFact(t, "replied"), "idle")
         [] mail[t].kind = "send"  -> Goto(t, "sent") /\ UNCHANGED auditVars
         [] OTHER                  -> Goto(t, "idle") /\ UNCHANGED auditVars
    /\ mail' = IF mail[t].kind \in {"inbox", "send"} THEN mail ELSE [mail EXCEPT ![t] = NoMail]

\* Seeded fault: the daemon stores an event before it decrypts it.
PlaintextRaw(t) ==
    IF mail[t].kind = "receive" /\ yields[mail[t].id] = "text"
    THEN "cipher"
    ELSE mail[t].text

\* The text a writer has: `agent inbox` has a placeholder for what does not
\* decrypt, the daemon what it tried to decrypt.
Plaintext(t) ==
    LET what == yields[mail[t].id] IN
    CASE what = "text"                                               -> mail[t].text
      [] what \in {"cipher", "neither"} /\ mail[t].kind = "inbox" -> "placeholder"
      [] what = "cipher"                                             -> "cipher"
      [] OTHER                                                       -> "empty"

\* StoreMessage: an upsert, in which an empty text replaces none.
Store(t) ==
    /\ pc[t] = "store"
    /\ opened[Process(t)] = "open"
    /\ Executes(t)
    /\ history' = [history EXCEPT ![mail[t].id] =
                      IF Plaintext(t) = "empty" /\ @ # "absent" THEN @ ELSE Plaintext(t)]
    /\ Stored(t)
    /\ UNCHANGED <<file, migrated, opened, published, queued, unlucky, yields>>

\* The error is printed or ignored.
StoreFails(t) ==
    /\ pc[t] = "store"
    /\ \/ /\ opened[Process(t)] # "open"
          /\ Reads
          /\ unlucky' = IF opened[Process(t)] \in Causes
                        THEN unlucky \cup {mail[t].id} ELSE unlucky
       \/ /\ opened[Process(t)] = "open"
          /\ Breaks
          /\ unlucky' = unlucky \cup {mail[t].id}
    /\ Stored(t)
    /\ UNCHANGED <<file, migrated, history, opened, published, queued, yields>>

MessageStep(t) ==
    \/ t \in Shells /\ (Send(t) \/ SendQueued(t) \/ ReadInbox(t) \/ Retry(t) \/ MigrateCommand(t))
    \/ t \in Workers /\ (Receive(t) \/ Reply(t))
    \/ NextOfInbox(t)
    \/ OpenStore(t) \/ StoreKnown(t) \/ Migrate(t) \/ Rename(t)
    \/ Store(t) \/ StoreFails(t)

MessageEnds(p) ==
    /\ opened' = [opened EXCEPT ![p] = "closed"]
    /\ mail' = [t \in Threads |-> IF Process(t) = p THEN NoMail ELSE mail[t]]
    /\ UNCHANGED <<file, migrated, history, published, queued, reported, unlucky, yields>>

MessageInit ==
    /\ file \in LegacyFiles
    /\ migrated = {}
    /\ history = [id \in Numbers |-> "absent"]
    /\ opened = [p \in Processes |-> "closed"]
    /\ mail = [t \in Threads |-> NoMail]
    /\ published = {}
    /\ queued = {}
    /\ reported = {}
    /\ unlucky = {}
    /\ yields = [id \in Numbers |-> "text"]

-----------------------------------------------------------------------------
\* Once messages.json is renamed all its messages are in the store, whatever
\* ended the migrations before and however many processes ran one.
LegacyKept == file = "backup" => \A m \in Legacy : \E id \in migrated : id[1] = m

\* A migration that is begun again adds no message a second time.
LegacyOnce == \A id1, id2 \in migrated : id1[1] = id2[1] => id1 = id2

\* A message `agent msg` called published, and "stored in local history", is
\* there, unless its write failed or the process could not open the store: for a
\* fault, for a messages.json it cannot parse, or because another process was
\* migrating that file at the same time.
SentIsStored == \A id \in reported : history[id] = "absent" => id \in unlucky

\* The text of a message, once in the history, is replaced only by `agent inbox`
\* run without decryption and by the retry of a message that a relay had taken
\* without saying so.  What does not decrypt is stored too, as ciphertext by the
\* daemon and as a placeholder by `agent inbox`, and never over a text.
TextKept ==
    [][\A id \in Numbers :
           (history[id] = "text" /\ history'[id] # "text")
           => \E t \in Threads :
                /\ mail[t].id = id
                /\ \/ mail[t].kind = "inbox" /\ mail[t].text = "placeholder"
                   \/ mail[t].kind = "retry"]_<<history, mail>>

\* What the log says of messages is true: sent and received ones are on a relay.
MessageLogTellsTruth ==
    \A row \in written : row.fact.what \in {"sent", "received"} => row.fact.id \in published
=============================================================================
