-------------------------------- MODULE Sqlite --------------------------------
(***************************************************************************)
(* The processes that share ~/.hyphae/messages.db, and what SQLite in WAL  *)
(* mode makes of their writes.                                             *)
(*                                                                         *)
(* A shell runs one command line after the other, each in a process of its *)
(* own; the workers are the goroutines of the one process that stays, the  *)
(* daemon or the chat screen.  Every statement commits by itself, but for  *)
(* the transaction of LogAction, which reads before it writes: SQLite      *)
(* refuses its write (SQLITE_BUSY_SNAPSHOT, which busy_timeout does not    *)
(* wait for) once another connection has committed.  A fault is a          *)
(* statement that fails for good, on a full disk or after the five seconds *)
(* of busy_timeout, or the end of a process between two statements.        *)
(***************************************************************************)
EXTENDS Integers, FiniteSets

CONSTANTS
    Shells,       \* terminals, each with one command at a time
    Workers,      \* goroutines of the process that stays
    Workloads,    \* sets of jobs, of which a behaviour does one
    MaxCommands,  \* bound: jobs begun
    MaxFaults     \* bound: faults

ASSUME SqliteAssumption ==
    /\ Shells \cap Workers = {}
    /\ "resident" \notin Shells \cup Workers
    /\ "outside" \notin Shells
    /\ MaxCommands \in Nat
    /\ MaxFaults \in Nat

VARIABLES
    workload,  \* the jobs that are done
    pc,        \* where each thread is
    number,    \* the number of its job: of the group, message or profile it makes
    begun,     \* jobs begun
    open,      \* threads whose transaction has a snapshot and no write yet
    stale,     \* the handles that have committed since that snapshot
    faults     \* faults so far

sqliteVars == <<workload, pc, number, begun, open, stale, faults>>

Threads    == Shells \cup Workers
Process(t) == IF t \in Workers THEN "resident" ELSE t
Processes  == Shells \cup {"resident"}
Numbers    == 1 .. MaxCommands

\* A process opens the file twice: internal/audit for itself, and the rest.
Handle(t, db) == [process |-> Process(t), db |-> db]

\* Somebody else's handle: the user with sqlite3.
Outside == [process |-> "outside", db |-> "audit"]

Goto(t, place) == pc' = [pc EXCEPT ![t] = place]

\* A job begins; it may be the first of a new process.
Start(t, job, place) ==
    /\ pc[t] = "idle"
    /\ job \in workload
    /\ begun < MaxCommands
    /\ begun' = begun + 1
    /\ number' = [number EXCEPT ![t] = begun + 1]
    /\ Goto(t, place)
    /\ UNCHANGED <<workload, open, stale, faults>>

\* What a commit through handle h does to the snapshots of all but thread t.
Outdates(h, t) ==
    stale' = [u \in Threads |->
                 IF u \in open \ {t} THEN stale[u] \cup {h} ELSE stale[u]]

\* A statement on the store's handle is executed.
Executes(t) ==
    /\ Outdates(Handle(t, "store"), t)
    /\ UNCHANGED <<workload, number, begun, open, faults>>

\* A step that writes nothing to the database.
Reads == UNCHANGED <<workload, number, begun, open, stale, faults>>

\* A statement fails.
Breaks ==
    /\ faults < MaxFaults
    /\ faults' = faults + 1
    /\ UNCHANGED <<workload, number, begun, open, stale>>

\* A process ends; what it had not committed is rolled back.
Ends(p) ==
    LET gone == {t \in Threads : Process(t) = p}
    IN  /\ pc' = [t \in Threads |-> IF t \in gone THEN "idle" ELSE pc[t]]
        /\ open' = open \ gone
        /\ stale' = [t \in Threads |-> IF t \in gone THEN {} ELSE stale[t]]
        /\ UNCHANGED <<workload, number, begun>>

SqliteInit ==
    /\ workload \in Workloads
    /\ pc = [t \in Threads |-> "idle"]
    /\ number = [t \in Threads |-> 0]
    /\ begun = 0
    /\ open = {}
    /\ stale = [t \in Threads |-> {}]
    /\ faults = 0
=============================================================================
