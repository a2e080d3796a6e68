------------------------------- MODULE Database -------------------------------
(***************************************************************************)
(* Everything that shares messages.db: the audit log, groups, messages,    *)
(* the chat screen and profiles, run by shells and by the goroutines of    *)
(* one resident process, with a user who tampers with the audit log.       *)
(***************************************************************************)
EXTENDS Chat, Groups, Profiles

vars == <<sqliteVars, auditVars, groupVars, mailVars, chatVars, profileVars>>

Init ==
    /\ SqliteInit
    /\ AuditInit
    /\ GroupInit
    /\ MessageInit
    /\ ChatInit
    /\ ProfileInit

\* A process is killed.
Crash(p) ==
    /\ \E t \in Threads : Process(t) = p /\ pc[t] # "idle"
    /\ faults < MaxFaults
    /\ faults' = faults + 1
    /\ Ends(p)
    /\ AuditEnds(p)
    /\ GroupEnds(p)
    /\ MessageEnds(p)
    /\ ProfileEnds(p)
    /\ IF p = "resident" THEN ChatEnds ELSE UNCHANGED chatVars

Next ==
    \/ \E t \in Threads :
          \/ LogStep(t) /\ UNCHANGED <<groupVars, mailVars, chatVars, profileVars>>
          \/ MessageStep(t) /\ UNCHANGED <<groupVars, chatVars, profileVars>>
    \/ \E t \in Shells :
          \/ GroupStep(t) /\ UNCHANGED <<mailVars, chatVars, profileVars>>
          \/ ProfileStep(t) /\ UNCHANGED <<auditVars, groupVars, mailVars, chatVars>>
    \/ \E w \in Workers : ChatStep(w) /\ UNCHANGED <<groupVars, profileVars>>
    \/ Quit /\ UNCHANGED <<groupVars, profileVars>>
    \/ PeerSends /\ UNCHANGED <<groupVars, chatVars, profileVars>>
    \/ Tamper /\ UNCHANGED <<groupVars, mailVars, chatVars, profileVars>>
    \/ \E p \in Processes : Crash(p)

Spec == Init /\ [][Next]_vars

-----------------------------------------------------------------------------
Facts == [what : {"created", "added", "removed", "sent", "received", "replied", "forged"},
          id   : 0 .. MaxCommands,
          npub : Npubs \cup {"none"}]

Places == {"idle", "log", "insert", "create", "members", "add-member", "leave", "touch",
           "open", "migrate", "rename", "store", "inbox", "sent", "load", "loaded",
           "publish", "discover", "found"}

\* The types of the variables; a thread has a transaction open exactly while it
\* is between the SELECT and the INSERT of LogAction, whatever ends that, and
\* only then can other handles outdate it.
TypeOK ==
    /\ workload \in Workloads
    /\ pc \in [Threads -> Places]
    /\ number \in [Threads -> 0 .. MaxCommands]
    /\ begun \in 0 .. MaxCommands
    /\ open = {t \in Threads : pc[t] = "insert"}
    /\ \A t \in Threads : stale[t] # {} => t \in open
    /\ faults \in 0 .. MaxFaults
    /\ \A s \in DOMAIN rows : s \in Nat \ {0} /\ rows[s].fact \in Facts
    /\ \A t \in Threads : entry[t].fact \in Facts /\ entry[t].then \in Places
    /\ tampered \in 0 .. MaxTampers
    /\ creator \in [Numbers -> Mine \cup {"none"}]
    /\ member \in [Numbers -> [Npubs -> {"no", "member", "admin"}]]
    /\ \A t \in Threads : task[t].group \in 0 .. MaxCommands /\ task[t].todo \subseteq Npubs
    /\ file \in LegacyFiles \cup {"backup"}
    /\ history \in [Numbers -> {"absent", "text", "cipher", "placeholder", "empty"}]
    /\ yields \in [Numbers -> {"text", "cipher", "empty", "neither"}]
    /\ opened \in [Processes -> {"closed", "open"} \cup Causes]
    /\ \A t \in Threads : mail[t].id \in 0 .. MaxCommands
    /\ published \cup queued \cup reported \cup told \subseteq Numbers
    /\ handled \cup screen \subseteq Numbers
    /\ loaded \in [Workers -> SUBSET Numbers]
    /\ created \in [Numbers -> Times]
    /\ reads \in Nat /\ shown \in Nat /\ nth \in [Workers -> Nat]
    /\ relayHas \in [Relays -> 0 .. MaxCommands]
    /\ local \in 0 .. MaxCommands
    /\ got \in [Threads -> 0 .. MaxCommands]

\* What the log says is true, of groups and of messages.
LogTellsTruth == GroupLogTellsTruth /\ MessageLogTellsTruth
=============================================================================
