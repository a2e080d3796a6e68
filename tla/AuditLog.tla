------------------------------- MODULE AuditLog -------------------------------
(***************************************************************************)
(* The hash chain of internal/audit: LogAction, in one transaction that    *)
(* reads the last row and inserts the next, VerifyChain, and a user who    *)
(* edits or deletes rows behind its back.  A hash is the tuple of what it  *)
(* is computed from: sha256 over the JSON of a fixed struct is taken to be *)
(* injective.  An edit changes what a row says and not its hash; whoever   *)
(* also recomputes the hashes is not found out, since no key goes into     *)
(* them.                                                                   *)
(***************************************************************************)
EXTENDS Sqlite

CONSTANT MaxTampers  \* bound: rows edited or deleted

ASSUME AuditAssumption == MaxTampers \in Nat

VARIABLES
    rows,      \* the table: what is stored under each seq
    entry,     \* what each thread is logging, and where it goes on afterwards
    tail,      \* the last row its transaction has read
    written,   \* every row LogAction has committed
    tampered   \* rows edited or deleted so far

auditVars == <<rows, entry, tail, written, tampered>>

Genesis == <<>>
Forged  == [what |-> "forged", id |-> 0, npub |-> "none"]
NoEntry == [fact |-> Forged, then |-> "idle"]
NoTail  == [seq |-> 0, hash |-> Genesis]

\* Seeded fault: what the row says is not hashed.
HashOfPlace(seq, fact, prev) == <<seq, prev>>

\* computeHash.
Hash(seq, fact, prev) == <<seq, fact, prev>>

Row(seq, fact, prev) ==
    [seq |-> seq, fact |-> fact, prev |-> prev, hash |-> Hash(seq, fact, prev)]

\* The last row there is below a seq.
Below(seq) == CHOOSE n \in {s \in DOMAIN rows : s < seq} \cup {0} :
                 \A s \in DOMAIN rows : s < seq => s <= n

HashAt(n) == IF n = 0 THEN Genesis ELSE rows[n].hash

\* ORDER BY seq DESC LIMIT 1.
LastSeq == CHOOSE n \in DOMAIN rows \cup {0} : \A s \in DOMAIN rows : s <= n

\* VerifyChain: the walk in the order of seq.
Verifies ==
    \A s \in DOMAIN rows :
        /\ rows[s].prev = HashAt(Below(s))
        /\ rows[s].hash = Hash(s, rows[s].fact, rows[s].prev)

-----------------------------------------------------------------------------
(* LogAction, called by a thread that goes on at place when it returns.    *)

Log(t, fact, place) ==
    /\ Goto(t, "log")
    /\ entry' = [entry EXCEPT ![t] = [fact |-> fact, then |-> place]]
    /\ UNCHANGED <<rows, tail, written, tampered>>

\* LogAction returns; its callers only print its error.
Returns(t) ==
    /\ Goto(t, entry[t].then)
    /\ entry' = [entry EXCEPT ![t] = NoEntry]
    /\ tail' = [tail EXCEPT ![t] = NoTail]

\* Seeded fault: the pool has more than one connection.
ReadTailPooled(t) ==
    /\ pc[t] = "log"
    /\ tail' = [tail EXCEPT ![t] = [seq |-> LastSeq, hash |-> HashAt(LastSeq)]]
    /\ open' = open \cup {t}
    /\ Goto(t, "insert")
    /\ UNCHANGED <<workload, number, begun, stale, faults, rows, entry, written, tampered>>

\* Begin takes the one connection of the process, SELECT the snapshot.
ReadTail(t) ==
    /\ pc[t] = "log"
    /\ \A u \in open : Process(u) # Process(t)
    /\ tail' = [tail EXCEPT ![t] = [seq |-> LastSeq, hash |-> HashAt(LastSeq)]]
    /\ open' = open \cup {t}
    /\ Goto(t, "insert")
    /\ UNCHANGED <<workload, number, begun, stale, faults, rows, entry, written, tampered>>

\* getDB, Begin or SELECT fails.  The failure is not remembered.
ReadFails(t) ==
    /\ pc[t] = "log"
    /\ Breaks
    /\ Returns(t)
    /\ UNCHANGED <<rows, written, tampered>>

Adds(row) ==
    /\ rows' = [s \in DOMAIN rows \cup {row.seq} |-> IF s = row.seq THEN row ELSE rows[s]]
    /\ written' = written \cup {row}
    /\ UNCHANGED tampered

Closes(t) ==
    /\ open' = open \ {t}
    /\ stale' = [u \in Threads |->
                    IF u = t THEN {}
                    ELSE IF u \in open THEN stale[u] \cup {Handle(t, "audit")} ELSE stale[u]]

\* Seeded fault: no transaction; the next seq is taken by the INSERT and the
\* hash from the earlier SELECT.
InsertApart(t) ==
    /\ pc[t] = "insert"
    /\ Adds(Row(LastSeq + 1, entry[t].fact, tail[t].hash))
    /\ Closes(t)
    /\ Returns(t)
    /\ UNCHANGED <<workload, number, begun, faults>>

\* INSERT and COMMIT: seq is the primary key, and the snapshot has to be current.
Insert(t) ==
    /\ pc[t] = "insert"
    /\ stale[t] = {}
    /\ tail[t].seq + 1 \notin DOMAIN rows
    /\ Adds(Row(tail[t].seq + 1, entry[t].fact, tail[t].hash))
    /\ Closes(t)
    /\ Returns(t)
    /\ UNCHANGED <<workload, number, begun, faults>>

\* Seeded fault: no deferred Rollback.
InsertFailsOpen(t) ==
    /\ pc[t] = "insert"
    /\ stale[t] # {}
    /\ Returns(t)
    /\ UNCHANGED <<workload, number, begun, open, stale, faults, rows, written, tampered>>

\* INSERT or COMMIT fails; the deferred Rollback ends the transaction.
InsertFails(t) ==
    /\ pc[t] = "insert"
    /\ \/ stale[t] # {} /\ UNCHANGED faults
       \/ faults < MaxFaults /\ faults' = faults + 1
    /\ open' = open \ {t}
    /\ stale' = [stale EXCEPT ![t] = {}]
    /\ Returns(t)
    /\ UNCHANGED <<workload, number, begun, rows, written, tampered>>

LogStep(t) == ReadTail(t) \/ ReadFails(t) \/ Insert(t) \/ InsertFails(t)

-----------------------------------------------------------------------------
(* The user with sqlite3.                                                  *)

Tampers ==
    /\ "tamper" \in workload
    /\ tampered < MaxTampers
    /\ tampered' = tampered + 1
    /\ stale' = [u \in Threads |-> IF u \in open THEN stale[u] \cup {Outside} ELSE stale[u]]
    /\ UNCHANGED <<workload, pc, number, begun, open, faults, entry, tail, written>>

Edit(s) ==
    /\ Tampers
    /\ rows' = [rows EXCEPT ![s].fact = Forged]

Delete(s) ==
    /\ Tampers
    /\ rows' = [n \in DOMAIN rows \ {s} |-> rows[n]]

Tamper == \E s \in DOMAIN rows : Edit(s) \/ Delete(s)

-----------------------------------------------------------------------------
\* What a process that ends was logging is not logged.
AuditEnds(p) ==
    /\ entry' = [t \in Threads |-> IF Process(t) = p THEN NoEntry ELSE entry[t]]
    /\ tail' = [t \in Threads |-> IF Process(t) = p THEN NoTail ELSE tail[t]]
    /\ UNCHANGED <<rows, written, tampered>>

AuditInit ==
    /\ rows = <<>>
    /\ entry = [t \in Threads |-> NoEntry]
    /\ tail = [t \in Threads |-> NoTail]
    /\ written = {}
    /\ tampered = 0

-----------------------------------------------------------------------------
\* A chain nobody has tampered with verifies, however the log actions of all
\* processes and goroutines interleave with each other and with other writes.
ChainVerifies == tampered = 0 => Verifies

\* If the chain verifies, every row is as LogAction wrote it, and they are the
\* first rows of the log without a gap: of all edits and deletions only that of
\* the last rows goes unnoticed.
TamperEvident ==
    Verifies => \A s \in DOMAIN rows :
        /\ rows[s] \in written
        /\ rows[s].seq = s
        /\ s > 1 => s - 1 \in DOMAIN rows

\* LogAction gives up on an entry only because of a fault, or because a commit
\* through another handle came between its SELECT and its INSERT: never because
\* of another LogAction of the same process (SetMaxOpenConns(1), audit.go:110).
DroppedOnlyByOthers ==
    [][\A t \in Threads :
           (/\ pc[t] \in {"log", "insert"}
            /\ pc'[t] \notin {"log", "insert"}
            /\ rows' = rows)
           => \/ faults' > faults
              \/ stale[t] \ {Handle(t, "audit")} # {}]_<<sqliteVars, auditVars>>
=============================================================================
