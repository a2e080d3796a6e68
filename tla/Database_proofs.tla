--------------------------- MODULE Database_proofs ---------------------------
(***************************************************************************)
(* Theorems about the audit log of module Database, for any number of      *)
(* processes, goroutines, jobs, faults and manipulations.                  *)
(*                                                                         *)
(* Every row the table has was written by LogAction, but for what an edit  *)
(* made of it; a thread between its SELECT and its INSERT has the last row *)
(* of the log as its tail, or another handle has committed since.  None of *)
(* the other commands touches any of this: they only log.                  *)
(***************************************************************************)
EXTENDS Database, WellFoundedInduction, TLAPS

-----------------------------------------------------------------------------
(* The last row.                                                           *)

\* A set of naturals that is bounded and not empty has a greatest element.
LEMMA Greatest ==
    ASSUME NEW S \in SUBSET Nat, S # {}, NEW b \in Nat, \A s \in S : s <= b
    PROVE  \E m \in S : \A s \in S : s <= m
<1> DEFINE T == {b - s : s \in S}
<1>1. T \subseteq Nat /\ T # {}
  <2>1. ASSUME NEW s \in S PROVE b - s \in Nat
    <3>1. s \in Nat /\ s <= b
      OBVIOUS
    <3> QED
      BY <3>1
  <2> QED
    BY <2>1
<1>2. PICK k \in T : \A j \in T : <<j, k>> \notin OpToRel(<, Nat)
  BY <1>1, NatLessThanWellFounded, WFMin
<1>3. ASSUME NEW i \in Nat, NEW j \in Nat, i < j PROVE <<i, j>> \in OpToRel(<, Nat)
  BY <1>3 DEF OpToRel
<1>4. PICK m \in S : k = b - m
  BY <1>2
<1>5. ASSUME NEW s \in S PROVE s <= m
  <2>1. b - s \in T
    OBVIOUS
  <2>2. ~(b - s < k)
    BY <1>1, <1>2, <1>3, <2>1
  <2>3. s \in Nat /\ m \in Nat
    OBVIOUS
  <2> HIDE DEF T
  <2> QED
    BY <1>4, <2>2, <2>3
<1> QED
  BY <1>5

\* The rows are numbered by naturals from 1, up to some bound.
Numbered == /\ DOMAIN rows \subseteq Nat \ {0}
            /\ \E b \in Nat : \A s \in DOMAIN rows : s <= b

\* n is 0 or the number of the last row.
IsLast(n) == n \in DOMAIN rows \cup {0} /\ \A s \in DOMAIN rows : s <= n

\* The SELECT finds the last row.
LEMMA LastSeqIsLast ==
    ASSUME Numbered
    PROVE  IsLast(LastSeq) /\ LastSeq \in Nat
<1>1. PICK b \in Nat : \A s \in DOMAIN rows : s <= b
  BY DEF Numbered
<1> DEFINE S == DOMAIN rows \cup {0}
<1>2. S \in SUBSET Nat /\ S # {} /\ \A s \in S : s <= b
  BY <1>1 DEF Numbered
<1> HIDE DEF S
<1>3. \E m \in S : \A s \in S : s <= m
  BY <1>2, Greatest
<1>4. PICK m \in DOMAIN rows \cup {0} : \A s \in DOMAIN rows \cup {0} : s <= m
  BY <1>3 DEF S
<1>5. \E n \in DOMAIN rows \cup {0} : \A s \in DOMAIN rows : s <= n
  BY <1>4
<1>6. LastSeq \in DOMAIN rows \cup {0} /\ \A s \in DOMAIN rows : s <= LastSeq
  BY <1>5 DEF LastSeq
<1> QED
  BY <1>6 DEF IsLast, Numbered

\* There is only one.
LEMMA LastIsOne ==
    ASSUME Numbered, NEW m, IsLast(m), NEW n, IsLast(n)
    PROVE  m = n
BY DEF IsLast, Numbered

\* So does the walk of VerifyChain find the row before another.
LEMMA BelowIsBelow ==
    ASSUME Numbered, NEW seq \in Nat \ {0}
    PROVE  LET n == Below(seq)
           IN  /\ n \in Nat
               /\ n \in {s \in DOMAIN rows : s < seq} \cup {0}
               /\ \A s \in DOMAIN rows : s < seq => s <= n
<1> DEFINE S == {s \in DOMAIN rows : s < seq} \cup {0}
<1>1. S \in SUBSET Nat /\ S # {}
  BY DEF Numbered
<1>2. \A s \in S : s <= seq
  <2> TAKE s \in S
  <2>1. s \in Nat /\ (s < seq \/ s = 0)
    BY <1>1
  <2> QED
    BY <2>1
<1>3. PICK m \in S : \A s \in S : s <= m
  BY <1>1, <1>2, Greatest
<1>4. \E n \in {s \in DOMAIN rows : s < seq} \cup {0} :
         \A s \in DOMAIN rows : s < seq => s <= n
  BY <1>3
<1>5. /\ Below(seq) \in {s \in DOMAIN rows : s < seq} \cup {0}
      /\ \A s \in DOMAIN rows : s < seq => s <= Below(seq)
  BY <1>4 DEF Below
<1> QED
  BY <1>1, <1>5

-----------------------------------------------------------------------------
(* The inductive invariant.                                                *)

Aside == Places \ {"insert"}

\* The variables are functions on the threads, and LogAction is not entered in
\* the middle.
Shape ==
    /\ pc \in [Threads -> Places]
    /\ stale = [t \in Threads |-> stale[t]]
    /\ tail = [t \in Threads |-> tail[t]]
    /\ entry = [t \in Threads |-> entry[t]]
    /\ \A t \in Threads : entry[t].then \in Aside
    /\ \A t \in Threads : pc[t] = "insert" => t \in open

\* The hash of row n, of whatever log; Genesis for n = 0.
IsHashOf(n, h) ==
    \/ n = 0 /\ h = Genesis
    \/ n # 0 /\ \E fact, prev : h = Hash(n, fact, prev)

\* What LogAction has ever committed.
WrittenOK ==
    \A w \in written :
        /\ w.seq \in Nat \ {0}
        /\ w = Row(w.seq, w.fact, w.prev)
        /\ IsHashOf(w.seq - 1, w.prev)

\* A row is what was written at its place, or that with another text.
StoredOK ==
    \A s \in DOMAIN rows : \E w \in written :
        /\ w.seq = s
        /\ rows[s] \in {w, [w EXCEPT !.fact = Forged]}

\* Between SELECT and INSERT a thread has the hash of the row its number says;
\* and unless another handle has committed since, that is the last row.
TailOK ==
    \A t \in Threads : pc[t] = "insert" =>
        /\ tail[t].seq \in Nat
        /\ IsHashOf(tail[t].seq, tail[t].hash)
        /\ stale[t] = {} => /\ IsLast(tail[t].seq)
                            /\ tail[t].hash = HashAt(tail[t].seq)

\* Without tampering the rows are the first ones, each on the hash of the one before.
ChainOK ==
    /\ tampered \in Nat
    /\ tampered = 0 =>
          \A s \in DOMAIN rows :
              /\ \A r \in 1 .. s : r \in DOMAIN rows
              /\ rows[s] = Row(s, rows[s].fact, HashAt(s - 1))

LogInv == Shape /\ Numbered /\ WrittenOK /\ StoredOK /\ TailOK /\ ChainOK

-----------------------------------------------------------------------------
(* What the other commands do to the log.                                  *)

\* They leave the table alone; a thread is between SELECT and INSERT only if it
\* was, with what it had read, and with as many commits come between or more.
Untouched ==
    /\ UNCHANGED <<rows, written, tampered>>
    /\ Shape'
    /\ \A t \in Threads : pc'[t] = "insert" =>
          /\ pc[t] = "insert"
          /\ tail'[t] = tail[t]
          /\ stale[t] \subseteq stale'[t]

\* A step that leaves the log alone keeps the invariant of the log.
LEMMA UntouchedOK ==
    ASSUME LogInv, Untouched
    PROVE  LogInv'
<1>1. Numbered' /\ WrittenOK' /\ StoredOK' /\ ChainOK'
  BY DEF LogInv, Untouched, Numbered, WrittenOK, StoredOK, ChainOK, HashAt
<1>2. TailOK'
  <2> SUFFICES ASSUME NEW t \in Threads, pc'[t] = "insert"
               PROVE  /\ tail'[t].seq \in Nat
                      /\ IsHashOf(tail'[t].seq, tail'[t].hash)
                      /\ stale'[t] = {} => /\ IsLast(tail[t].seq)'
                                           /\ (tail[t].hash = HashAt(tail[t].seq))'
    BY DEF TailOK
  <2>1. /\ pc[t] = "insert"
        /\ tail'[t] = tail[t]
        /\ stale'[t] = {} => stale[t] = {}
        /\ rows' = rows
    BY DEF Untouched
  <2> QED
    BY <2>1 DEF LogInv, TailOK, IsLast, HashAt
<1> QED
  BY <1>1, <1>2 DEF LogInv, Untouched

\* A step of one thread that goes elsewhere, whether it writes to the database
\* or not, and calls LogAction or not.
LEMMA MoveUntouched ==
    ASSUME Shape, NEW t \in Threads,
           UNCHANGED <<rows, tail, written, tampered>>,
           UNCHANGED <<open, stale>> \/ Executes(t),
           \/ UNCHANGED entry
           \/ \E fact : \E place \in Aside :
                 entry' = [entry EXCEPT ![t] = [fact |-> fact, then |-> place]],
           UNCHANGED pc \/ \E place \in Aside : Goto(t, place)
    PROVE  Untouched
<1>1. stale' = [u \in Threads |-> stale'[u]] /\ \A u \in Threads : stale[u] \subseteq stale'[u]
  <2>1. CASE UNCHANGED <<open, stale>>
    BY <2>1 DEF Shape
  <2>2. CASE Executes(t)
    BY <2>2 DEF Executes, Outdates
  <2> QED
    BY <2>1, <2>2
<1>2. open' = open
  BY DEF Executes
<1>3. /\ pc' \in [Threads -> Places]
      /\ \A u \in Threads : pc'[u] = "insert" => pc[u] = "insert"
  BY DEF Shape, Goto, Aside
<1>4. entry' = [u \in Threads |-> entry'[u]] /\ \A u \in Threads : entry'[u].then \in Aside
  <2>1. CASE UNCHANGED entry
    BY <2>1 DEF Shape
  <2>2. ASSUME NEW fact, NEW place \in Aside,
               entry' = [entry EXCEPT ![t] = [fact |-> fact, then |-> place]]
        PROVE  entry' = [u \in Threads |-> entry'[u]] /\ \A u \in Threads : entry'[u].then \in Aside
    <3>1. \A u \in Threads : entry'[u] = IF u = t THEN [fact |-> fact, then |-> place] ELSE entry[u]
      BY <2>2 DEF Shape
    <3>2. entry' = [u \in Threads |-> entry'[u]]
      BY <2>2 DEF Shape
    <3> QED
      BY <3>1, <3>2 DEF Shape
  <2> QED
    BY <2>1, <2>2
<1> QED
  BY <1>1, <1>2, <1>3, <1>4 DEF Untouched, Shape

\* The places of the jobs, where LogAction is called from or not.
LEMMA AsideHas ==
    {"idle", "log", "create", "members", "add-member", "leave", "touch", "open", "migrate",
     "rename", "store", "inbox", "sent", "load", "loaded", "publish", "discover", "found"}
      \subseteq Aside
BY DEF Aside, Places

\* A thread logs, and has written or not.
LEMMA LogUntouched ==
    ASSUME Shape, NEW t \in Threads, NEW fact, NEW place \in {"idle", "inbox"},
           Log(t, fact, place),
           UNCHANGED <<open, stale>> \/ Executes(t)
    PROVE  Untouched
<1>1. place \in Aside /\ "log" \in Aside
  BY AsideHas
<1>2. /\ UNCHANGED <<rows, tail, written, tampered>>
      /\ entry' = [entry EXCEPT ![t] = [fact |-> fact, then |-> place]]
      /\ Goto(t, "log")
  BY DEF Log
<1> QED
  BY <1>1, <1>2, MoveUntouched

\* A thread does not log.
LEMMA SilentUntouched ==
    ASSUME Shape, NEW t \in Threads, UNCHANGED auditVars,
           UNCHANGED <<open, stale>> \/ Executes(t),
           UNCHANGED pc \/ \E place \in Aside : Goto(t, place)
    PROVE  Untouched
BY MoveUntouched DEF auditVars

\* The steps of the group commands.
LEMMA GroupUntouched ==
    ASSUME Shape, NEW t \in Shells, GroupStep(t)
    PROVE  Untouched
<1> USE AsideHas, SilentUntouched
<1>1. t \in Threads
  BY DEF Threads
<1>2. CASE CreateGroup(t)
  BY <1>1, <1>2 DEF CreateGroup, Start
<1>3. CASE InsertGroup(t)
  BY <1>1, <1>3 DEF InsertGroup
<1>4. CASE InsertMember(t)
  BY <1>1, <1>4 DEF InsertMember
<1>5. CASE MemberExists(t)
  BY <1>1, <1>5 DEF MemberExists, Reads, Fails
<1>6. CASE GroupCreated(t)
  BY <1>1, <1>6, LogUntouched DEF GroupCreated, Reads
<1>7. CASE FindToAdd(t)
  BY <1>1, <1>7 DEF FindToAdd, Find, Start
<1>8. CASE InsertOrIgnore(t)
  <2>1. (UNCHANGED <<open, stale>> \/ Executes(t)) /\ UNCHANGED auditVars /\ Goto(t, "touch")
    BY <1>8 DEF InsertOrIgnore, Reads
  <2> QED
    BY <1>1, <2>1
<1>9. CASE FindToLeave(t)
  BY <1>1, <1>9 DEF FindToLeave, Find, Start
<1>10. CASE DeleteMember(t)
  BY <1>1, <1>10 DEF DeleteMember, Reads
<1>11. CASE Touch(t)
  BY <1>1, <1>11, LogUntouched DEF Touch
<1>12. CASE StatementFails(t)
  BY <1>1, <1>12 DEF StatementFails, Breaks, Fails
<1> QED
  BY <1>2, <1>3, <1>4, <1>5, <1>6, <1>7, <1>8, <1>9, <1>10, <1>11, <1>12 DEF GroupStep

\* InitStorage and the migration.
LEMMA StorageUntouched ==
    ASSUME Shape, NEW t \in Threads,
           OpenStore(t) \/ StoreKnown(t) \/ Migrate(t) \/ Rename(t)
    PROVE  Untouched
<1> USE AsideHas, SilentUntouched
<1>1. ASSUME NEW how, Opens(t, how) PROVE \E place \in Aside : Goto(t, place)
  BY <1>1 DEF Opens
<1>2. CASE OpenStore(t)
  <2>1. UNCHANGED <<open, stale>> /\ UNCHANGED auditVars
    BY <1>2 DEF OpenStore, Stat, Reads, Breaks
  <2>2. \E place \in Aside : Goto(t, place)
    BY <1>1, <1>2 DEF OpenStore, Stat
  <2> QED
    BY <2>1, <2>2
<1>3. CASE StoreKnown(t)
  BY <1>3 DEF StoreKnown, Reads
<1>4. CASE Migrate(t)
  <2>1. (UNCHANGED <<open, stale>> \/ Executes(t)) /\ UNCHANGED auditVars
    BY <1>4 DEF Migrate, Reads, Breaks
  <2>2. \E place \in Aside : Goto(t, place)
    BY <1>1, <1>4 DEF Migrate
  <2> QED
    BY <2>1, <2>2
<1>5. CASE Rename(t)
  <2>1. UNCHANGED <<open, stale>> /\ UNCHANGED auditVars
    BY <1>5 DEF Rename, Reads, Breaks
  <2>2. \E place \in Aside : Goto(t, place)
    BY <1>1, <1>5 DEF Rename
  <2> QED
    BY <2>1, <2>2
<1> QED
  BY <1>2, <1>3, <1>4, <1>5

\* What follows the writing of a row.
LEMMA StoredUntouched ==
    ASSUME Shape, NEW t \in Threads, Stored(t),
           UNCHANGED <<open, stale>> \/ Executes(t)
    PROVE  Untouched
<1>1. CASE \E fact : Log(t, fact, "idle") \/ Log(t, fact, "inbox")
  BY <1>1, LogUntouched
<1>2. CASE UNCHANGED auditVars /\ (Goto(t, "sent") \/ Goto(t, "idle"))
  BY <1>2, AsideHas, SilentUntouched
<1> QED
  BY <1>1, <1>2 DEF Stored

\* The steps of the message commands and of the daemon.
LEMMA MessageUntouched ==
    ASSUME Shape, NEW t \in Threads, MessageStep(t)
    PROVE  Untouched
<1> USE AsideHas, SilentUntouched
<1>1. CASE Send(t)
  BY <1>1 DEF Send, Begins, Start
<1>2. CASE SendQueued(t)
  BY <1>2 DEF SendQueued
<1>3. CASE ReadInbox(t)
  BY <1>3 DEF ReadInbox, Begins, Start
<1>4. CASE Retry(t)
  BY <1>4 DEF Retry, Begins, Start
<1>5. CASE MigrateCommand(t)
  BY <1>5 DEF MigrateCommand, Begins, Start
<1>6. CASE Receive(t)
  BY <1>6 DEF Receive, Begins, Start
<1>7. CASE Reply(t)
  BY <1>7 DEF Reply, Begins, Start
<1>8. CASE NextOfInbox(t)
  BY <1>8 DEF NextOfInbox, Reads
<1>9. CASE OpenStore(t) \/ StoreKnown(t) \/ Migrate(t) \/ Rename(t)
  BY <1>9, StorageUntouched
<1>10. CASE Store(t)
  BY <1>10, StoredUntouched DEF Store
<1>11. CASE StoreFails(t)
  BY <1>11, StoredUntouched DEF StoreFails, Reads, Breaks
<1> QED
  BY <1>1, <1>2, <1>3, <1>4, <1>5, <1>6, <1>7, <1>8, <1>9, <1>10, <1>11 DEF MessageStep

\* The steps of the chat screen.
LEMMA ChatUntouched ==
    ASSUME Shape, NEW w \in Workers, ChatStep(w)
    PROVE  Untouched
<1> USE AsideHas, SilentUntouched
<1>1. w \in Threads
  BY DEF Threads
<1>2. CASE OpenChat(w)
  BY <1>1, <1>2 DEF OpenChat, Begins, Start
<1>3. CASE Submit(w)
  BY <1>1, <1>3 DEF Submit, Begins, Start
<1>4. CASE DeliverSent(w)
  BY <1>1, <1>4 DEF DeliverSent, Reads
<1>5. CASE Load(w)
  BY <1>1, <1>5 DEF Load, Reads
<1>6. CASE LoadFails(w)
  BY <1>1, <1>6 DEF LoadFails, Breaks
<1>7. CASE DeliverLoaded(w)
  BY <1>1, <1>7 DEF DeliverLoaded, Reads
<1> QED
  BY <1>2, <1>3, <1>4, <1>5, <1>6, <1>7 DEF ChatStep

\* The steps of the profile commands.
LEMMA ProfileUntouched ==
    ASSUME Shape, NEW t \in Shells, ProfileStep(t), UNCHANGED auditVars
    PROVE  Untouched
<1> USE AsideHas, SilentUntouched
<1>1. t \in Threads
  BY DEF Threads
<1>2. CASE Publish(t) \/ Discover(t)
  BY <1>1, <1>2 DEF Publish, Discover, Begin, Start
<1>3. CASE StorePublished(t)
  BY <1>1, <1>3 DEF StorePublished, StoreProfile, Reads, Breaks, Done
<1>4. CASE StoreFound(t)
  BY <1>1, <1>4 DEF StoreFound, StoreProfile, Breaks
<1>5. CASE DiscoverDone(t)
  BY <1>1, <1>5 DEF DiscoverDone, Done, Reads
<1>6. ASSUME NEW r \in Relays, PublishTo(t, r) PROVE Untouched
  BY <1>1, <1>6 DEF PublishTo, Reads
<1>7. ASSUME NEW r \in Relays, DiscoverAt(t, r) PROVE Untouched
  BY <1>1, <1>7 DEF DiscoverAt, Reads
<1> QED
  BY <1>2, <1>3, <1>4, <1>5, <1>6, <1>7 DEF ProfileStep

\* The end of a process takes its transactions with it and no other.
LEMMA EndsUntouched ==
    ASSUME Shape, NEW p \in Processes, Ends(p), AuditEnds(p)
    PROVE  Untouched
<1> DEFINE gone == {t \in Threads : Process(t) = p}
<1>1. /\ pc' = [t \in Threads |-> IF t \in gone THEN "idle" ELSE pc[t]]
      /\ open' = open \ gone
      /\ stale' = [t \in Threads |-> IF t \in gone THEN {} ELSE stale[t]]
  BY DEF Ends
<1>2. /\ entry' = [t \in Threads |-> IF t \in gone THEN NoEntry ELSE entry[t]]
      /\ tail' = [t \in Threads |-> IF t \in gone THEN NoTail ELSE tail[t]]
      /\ UNCHANGED <<rows, written, tampered>>
  BY DEF AuditEnds
<1>3. NoEntry.then \in Aside /\ "idle" \in Aside
  BY AsideHas DEF NoEntry
<1> HIDE DEF gone
<1>4. pc' \in [Threads -> Places]
  BY <1>1, <1>3 DEF Shape, Aside
<1>5. \A t \in Threads : pc'[t] = "insert" => t \notin gone /\ pc[t] = "insert"
  BY <1>1
<1>6. \A t \in Threads : entry'[t].then \in Aside
  BY <1>2, <1>3 DEF Shape
<1> QED
  BY <1>1, <1>2, <1>4, <1>5, <1>6 DEF Untouched, Shape

-----------------------------------------------------------------------------
(* What LogAction does to it.                                              *)

\* A hash says the number and the text of its row.
LEMMA HashSays ==
    ASSUME NEW n, NEW fact, NEW prev, NEW m, NEW text, NEW before,
           Hash(n, fact, prev) = Hash(m, text, before)
    PROVE  n = m /\ fact = text /\ prev = before
BY DEF Hash

\* It is not the hash that the first row has for a predecessor.
LEMMA HashIsNotGenesis ==
    ASSUME NEW n, NEW fact, NEW prev
    PROVE  Hash(n, fact, prev) # Genesis
BY DEF Hash, Genesis

\* A stored row has the hash that was made for its place.
LEMMA StoredHash ==
    ASSUME WrittenOK, StoredOK, NEW s \in DOMAIN rows
    PROVE  /\ \E fact : rows[s].hash = Hash(s, fact, rows[s].prev)
           /\ IsHashOf(s - 1, rows[s].prev)
           /\ s \in Nat \ {0}
<1>1. PICK w \in written : w.seq = s /\ rows[s] \in {w, [w EXCEPT !.fact = Forged]}
  BY DEF StoredOK
<1>2. /\ w = [seq |-> w.seq, fact |-> w.fact, prev |-> w.prev, hash |-> Hash(w.seq, w.fact, w.prev)]
      /\ w.seq \in Nat \ {0}
      /\ IsHashOf(w.seq - 1, w.prev)
  BY DEF WrittenOK, Row
<1>3. rows[s].hash = w.hash /\ rows[s].prev = w.prev
  BY <1>1, <1>2
<1>4. w.hash = Hash(s, w.fact, w.prev)
  BY <1>1, <1>2
<1> QED
  BY <1>1, <1>2, <1>3, <1>4

\* The hash of a stored row, or Genesis for none.
LEMMA HashAtIsHash ==
    ASSUME Numbered, WrittenOK, StoredOK, NEW n \in DOMAIN rows \cup {0}
    PROVE  IsHashOf(n, HashAt(n))
<1>1. CASE n = 0
  BY <1>1 DEF HashAt, IsHashOf
<1>2. CASE n # 0
  BY <1>2, StoredHash DEF HashAt, IsHashOf
<1> QED
  BY <1>1, <1>2

\* The SELECT.
LEMMA ReadTailOK ==
    ASSUME LogInv, NEW t \in Threads, ReadTail(t)
    PROVE  LogInv'
<1>1. /\ tail' = [tail EXCEPT ![t] = [seq |-> LastSeq, hash |-> HashAt(LastSeq)]]
      /\ open' = open \cup {t}
      /\ pc' = [pc EXCEPT ![t] = "insert"]
      /\ UNCHANGED <<stale, rows, entry, written, tampered>>
  BY DEF ReadTail, Goto
<1>2. Shape'
  BY <1>1 DEF LogInv, Shape, Places
<1>3. Numbered' /\ WrittenOK' /\ StoredOK' /\ ChainOK'
  BY <1>1 DEF LogInv, Numbered, WrittenOK, StoredOK, ChainOK, HashAt
<1>4. IsLast(LastSeq) /\ LastSeq \in Nat
  BY LastSeqIsLast DEF LogInv
<1>5. IsHashOf(LastSeq, HashAt(LastSeq))
  BY <1>4, HashAtIsHash DEF LogInv, IsLast
<1>6. TailOK'
  <2> SUFFICES ASSUME NEW u \in Threads, pc'[u] = "insert"
               PROVE  /\ tail'[u].seq \in Nat
                      /\ IsHashOf(tail'[u].seq, tail'[u].hash)
                      /\ stale'[u] = {} => /\ IsLast(tail[u].seq)'
                                           /\ (tail[u].hash = HashAt(tail[u].seq))'
    BY DEF TailOK
  <2>1. CASE u = t
    <3>1. tail'[u].seq = LastSeq /\ tail'[u].hash = HashAt(LastSeq)
      BY <1>1, <2>1 DEF LogInv, Shape
    <3> QED
      BY <1>1, <1>4, <1>5, <3>1 DEF IsLast, HashAt
  <2>2. CASE u # t
    <3>1. tail'[u] = tail[u] /\ pc[u] = "insert"
      BY <1>1, <2>2 DEF LogInv, Shape
    <3> QED
      BY <1>1, <3>1 DEF LogInv, TailOK, IsLast, HashAt
  <2> QED
    BY <2>1, <2>2
<1> QED
  BY <1>2, <1>3, <1>6 DEF LogInv

\* LogAction returns without a row.
LEMMA ReturnsUntouched ==
    ASSUME Shape, NEW t \in Threads, ReadFails(t) \/ InsertFails(t)
    PROVE  Untouched
<1>1. /\ pc' = [pc EXCEPT ![t] = entry[t].then]
      /\ entry' = [entry EXCEPT ![t] = NoEntry]
      /\ tail' = [tail EXCEPT ![t] = NoTail]
      /\ UNCHANGED <<rows, written, tampered>>
  BY DEF ReadFails, InsertFails, Returns, Goto
<1>2. entry[t].then \in Aside /\ NoEntry.then \in Aside
  BY AsideHas DEF NoEntry, Shape
<1>3. /\ pc' \in [Threads -> Places]
      /\ \A u \in Threads : pc'[u] = "insert" => u # t /\ pc[u] = "insert"
  BY <1>1, <1>2 DEF Shape, Aside
<1>4. /\ stale' = [u \in Threads |-> stale'[u]]
      /\ \A u \in Threads \ {t} : stale'[u] = stale[u] /\ (u \in open => u \in open')
  BY DEF ReadFails, Breaks, InsertFails, Shape
<1>5. /\ entry' = [u \in Threads |-> entry'[u]]
      /\ \A u \in Threads : entry'[u].then \in Aside
      /\ tail' = [u \in Threads |-> tail'[u]]
      /\ \A u \in Threads \ {t} : tail'[u] = tail[u]
  BY <1>1, <1>2 DEF Shape
<1> QED
  BY <1>1, <1>3, <1>4, <1>5 DEF Untouched, Shape

\* The commit: the new row is the next one, on the hash of the last.
LEMMA InsertOK ==
    ASSUME LogInv, NEW t \in Threads, Insert(t)
    PROVE  LogInv'
<1> DEFINE n   == tail[t].seq
           row == Row(n + 1, entry[t].fact, tail[t].hash)
<1>1. /\ pc[t] = "insert"
      /\ stale[t] = {}
      /\ n + 1 \notin DOMAIN rows
      /\ rows' = [s \in DOMAIN rows \cup {row.seq} |-> IF s = row.seq THEN row ELSE rows[s]]
      /\ written' = written \cup {row}
      /\ UNCHANGED tampered
  BY DEF Insert, Adds
<1>2. /\ n \in Nat
      /\ IsHashOf(n, tail[t].hash)
      /\ IsLast(n)
      /\ tail[t].hash = HashAt(n)
  BY <1>1 DEF LogInv, TailOK
<1>3. /\ pc' = [pc EXCEPT ![t] = entry[t].then]
      /\ entry' = [entry EXCEPT ![t] = NoEntry]
      /\ tail' = [tail EXCEPT ![t] = NoTail]
      /\ open' = open \ {t}
      /\ stale' = [u \in Threads |->
                      IF u = t THEN {}
                      ELSE IF u \in open THEN stale[u] \cup {Handle(t, "audit")} ELSE stale[u]]
  BY DEF Insert, Closes, Returns, Goto
<1>4. row = [seq |-> n + 1, fact |-> entry[t].fact, prev |-> tail[t].hash,
             hash |-> Hash(n + 1, entry[t].fact, tail[t].hash)]
  BY DEF Row
<1> HIDE DEF row, n
<1>5. row.seq = n + 1 /\ row.prev = tail[t].hash /\ row = Row(row.seq, row.fact, row.prev)
  BY <1>4 DEF Row
<1>6. /\ DOMAIN rows' = DOMAIN rows \cup {n + 1}
      /\ rows'[n + 1] = row
      /\ \A s \in DOMAIN rows : rows'[s] = rows[s]
  BY <1>1, <1>5
<1>7. Shape'
  <2>1. entry[t].then \in Aside /\ NoEntry.then \in Aside
    BY AsideHas DEF NoEntry, LogInv, Shape
  <2>2. /\ pc' \in [Threads -> Places]
        /\ \A u \in Threads : pc'[u] = "insert" => u # t /\ pc[u] = "insert"
    BY <1>3, <2>1 DEF LogInv, Shape, Aside
  <2>3. /\ entry' = [u \in Threads |-> entry'[u]]
        /\ \A u \in Threads : entry'[u].then \in Aside
        /\ tail' = [u \in Threads |-> tail'[u]]
        /\ stale' = [u \in Threads |-> stale'[u]]
    BY <1>3, <2>1 DEF LogInv, Shape
  <2> QED
    BY <1>3, <2>2, <2>3 DEF LogInv, Shape
<1>8. Numbered'
  <2>1. DOMAIN rows' \subseteq Nat \ {0}
    BY <1>2, <1>6 DEF LogInv, Numbered
  <2>2. \A s \in DOMAIN rows' : s <= n + 1
    <3> TAKE s \in DOMAIN rows'
    <3>1. CASE s = n + 1
      BY <1>2, <3>1
    <3>2. CASE s \in DOMAIN rows
      <4>1. s \in Nat /\ s <= n
        BY <1>2, <3>2 DEF IsLast, LogInv, Numbered
      <4> QED
        BY <1>2, <4>1
    <3> QED
      BY <1>6, <3>1, <3>2
  <2>3. n + 1 \in Nat
    BY <1>2
  <2> QED
    BY <2>1, <2>2, <2>3 DEF Numbered
<1>9. WrittenOK'
  <2>1. row.seq \in Nat \ {0} /\ row.seq - 1 = n
    BY <1>2, <1>5
  <2>2. IsHashOf(row.seq - 1, row.prev)
    BY <1>2, <1>5, <2>1
  <2> QED
    BY <1>1, <1>5, <2>1, <2>2 DEF LogInv, WrittenOK
<1>10. StoredOK'
  <2> SUFFICES ASSUME NEW s \in DOMAIN rows'
               PROVE  \E w \in written' : w.seq = s /\ rows'[s] \in {w, [w EXCEPT !.fact = Forged]}
    BY DEF StoredOK
  <2>1. CASE s = n + 1
    BY <1>1, <1>5, <1>6, <2>1
  <2>2. CASE s \in DOMAIN rows
    BY <1>1, <1>6, <2>2 DEF LogInv, StoredOK
  <2> QED
    BY <1>6, <2>1, <2>2
<1>11. TailOK'
  <2> SUFFICES ASSUME NEW u \in Threads, pc'[u] = "insert"
               PROVE  /\ tail'[u].seq \in Nat
                      /\ IsHashOf(tail'[u].seq, tail'[u].hash)
                      /\ stale'[u] # {}
    BY DEF TailOK
  <2>1. u # t /\ pc[u] = "insert"
    BY <1>3, AsideHas DEF LogInv, Shape, Aside
  <2>2. u \in open /\ tail'[u] = tail[u]
    BY <1>3, <2>1 DEF LogInv, Shape
  <2>3. Handle(t, "audit") \in stale'[u]
    BY <1>3, <2>1, <2>2
  <2> QED
    BY <2>1, <2>2, <2>3 DEF LogInv, TailOK
<1>12. ChainOK'
  <2> SUFFICES ASSUME tampered = 0, NEW s \in DOMAIN rows'
               PROVE  /\ \A r \in 1 .. s : r \in DOMAIN rows'
                      /\ rows'[s] = Row(s, rows'[s].fact, HashAt(s - 1)')
    BY <1>1 DEF ChainOK, LogInv
  <2>1. \A r \in DOMAIN rows \cup {0} : HashAt(r)' = HashAt(r)
    BY <1>6 DEF HashAt
  <2>2. CASE s \in DOMAIN rows
    <3>1. /\ \A r \in 1 .. s : r \in DOMAIN rows
          /\ rows[s] = Row(s, rows[s].fact, HashAt(s - 1))
          /\ s \in Nat \ {0}
      BY <2>2 DEF LogInv, ChainOK, Numbered
    <3>2. s - 1 \in DOMAIN rows \cup {0}
      <4>1. s = 1 \/ s - 1 \in 1 .. s
        BY <3>1
      <4> QED
        BY <3>1, <4>1
    <3> QED
      BY <1>6, <2>1, <2>2, <3>1, <3>2
  <2>3. CASE s = n + 1
    <3>1. n \in DOMAIN rows \cup {0} /\ s - 1 = n
      BY <1>2, <2>3 DEF IsLast
    <3>2. HashAt(s - 1)' = tail[t].hash
      BY <1>2, <2>1, <3>1
    <3>3. rows'[s] = Row(s, rows'[s].fact, HashAt(s - 1)')
      BY <1>5, <1>6, <2>3, <3>2
    <3>4. ASSUME NEW r \in 1 .. s PROVE r \in DOMAIN rows'
      <4>1. CASE r = n + 1
        BY <1>6, <4>1
      <4>2. CASE r # n + 1
        <5>1. r \in 1 .. n /\ n # 0
          BY <1>2, <2>3, <4>2
        <5>2. n \in DOMAIN rows
          BY <3>1, <5>1
        <5> QED
          BY <1>6, <5>1, <5>2 DEF LogInv, ChainOK
      <4> QED
        BY <4>1, <4>2
    <3> QED
      BY <3>3, <3>4
  <2> QED
    BY <1>6, <2>2, <2>3
<1> QED
  BY <1>7, <1>8, <1>9, <1>10, <1>11, <1>12 DEF LogInv

\* An edit or a deletion, of which every open snapshot is out of date.
LEMMA TamperOK ==
    ASSUME LogInv, Tamper
    PROVE  LogInv'
<1>1. PICK s \in DOMAIN rows : Edit(s) \/ Delete(s)
  BY DEF Tamper
<1>2. Tampers
  BY <1>1 DEF Edit, Delete
<1>3. /\ stale' = [u \in Threads |-> IF u \in open THEN stale[u] \cup {Outside} ELSE stale[u]]
      /\ UNCHANGED <<pc, open, entry, tail, written>>
  BY <1>2 DEF Tampers
<1>4. Shape'
  BY <1>3 DEF LogInv, Shape
<1>5. TailOK'
  <2> SUFFICES ASSUME NEW u \in Threads, pc'[u] = "insert"
               PROVE  /\ tail'[u].seq \in Nat
                      /\ IsHashOf(tail'[u].seq, tail'[u].hash)
                      /\ stale'[u] # {}
    BY DEF TailOK
  <2>1. u \in open
    BY <1>3 DEF LogInv, Shape
  <2>2. Outside \in stale'[u]
    BY <1>3, <2>1
  <2> QED
    BY <1>3, <2>2 DEF LogInv, TailOK
<1>6. ChainOK'
  <2>1. tampered \in Nat /\ tampered' = tampered + 1
    BY <1>2 DEF Tampers, LogInv, ChainOK
  <2>2. tampered' \in Nat /\ tampered' # 0
    BY <2>1
  <2> QED
    BY <2>2 DEF ChainOK
<1>7. /\ DOMAIN rows' \subseteq DOMAIN rows
      /\ \A r \in DOMAIN rows' : rows'[r] \in {rows[r], [rows[r] EXCEPT !.fact = Forged]}
  <2>1. CASE Edit(s)
    BY <1>1, <2>1 DEF Edit
  <2>2. CASE Delete(s)
    BY <2>2 DEF Delete
  <2> QED
    BY <1>1, <2>1, <2>2
<1>8. Numbered'
  BY <1>7 DEF LogInv, Numbered
<1>9. WrittenOK'
  BY <1>3 DEF LogInv, WrittenOK
<1>10. StoredOK'
  <2> SUFFICES ASSUME NEW r \in DOMAIN rows'
               PROVE  \E w \in written : w.seq = r /\ rows'[r] \in {w, [w EXCEPT !.fact = Forged]}
    BY <1>3 DEF StoredOK
  <2>1. PICK w \in written : w.seq = r /\ rows[r] \in {w, [w EXCEPT !.fact = Forged]}
    BY <1>7 DEF LogInv, StoredOK
  <2>2. w = [seq |-> w.seq, fact |-> w.fact, prev |-> w.prev, hash |-> Hash(w.seq, w.fact, w.prev)]
    BY DEF LogInv, WrittenOK, Row
  <2>3. [rows[r] EXCEPT !.fact = Forged] = [w EXCEPT !.fact = Forged]
    BY <2>1, <2>2
  <2> QED
    BY <1>7, <2>1, <2>3
<1> QED
  BY <1>4, <1>5, <1>6, <1>8, <1>9, <1>10 DEF LogInv

-----------------------------------------------------------------------------
(* The theorems.                                                           *)

\* The log is empty at first.
LEMMA InitLog == Init => LogInv
<1> SUFFICES ASSUME Init PROVE LogInv
  OBVIOUS
<1>1. rows = <<>> /\ written = {} /\ tampered = 0
  BY DEF Init, AuditInit
<1>2. DOMAIN rows = {}
  BY <1>1
<1>3. Shape
  <2>1. \A t \in Threads : entry[t] = NoEntry /\ pc[t] = "idle"
    BY DEF Init, SqliteInit, AuditInit
  <2>2. "idle" \in Aside /\ "idle" \in Places
    BY AsideHas DEF Places
  <2> QED
    BY <2>1, <2>2 DEF Init, SqliteInit, AuditInit, NoEntry, Shape
<1>4. TailOK
  BY DEF Init, SqliteInit, TailOK
<1> QED
  BY <1>1, <1>2, <1>3, <1>4 DEF LogInv, Numbered, WrittenOK, StoredOK, ChainOK

\* So does every step of LogAction.
LEMMA LogStepOK ==
    ASSUME LogInv, NEW t \in Threads, LogStep(t)
    PROVE  LogInv'
BY ReadTailOK, InsertOK, ReturnsUntouched, UntouchedOK DEF LogStep, LogInv

\* The invariant of the log is inductive.
LEMMA StepLog == LogInv /\ [Next]_vars => LogInv'
<1> SUFFICES ASSUME LogInv, [Next]_vars PROVE LogInv'
  OBVIOUS
<1>1. Shape
  BY DEF LogInv
<1>2. ASSUME NEW t \in Threads, LogStep(t) PROVE LogInv'
  BY <1>2, LogStepOK
<1>3. ASSUME NEW t \in Threads, MessageStep(t) PROVE LogInv'
  BY <1>1, <1>3, MessageUntouched, UntouchedOK
<1>4. ASSUME NEW t \in Shells, GroupStep(t) PROVE LogInv'
  BY <1>1, <1>4, GroupUntouched, UntouchedOK
<1>5. ASSUME NEW t \in Shells, ProfileStep(t), UNCHANGED auditVars PROVE LogInv'
  BY <1>1, <1>5, ProfileUntouched, UntouchedOK
<1>6. ASSUME NEW w \in Workers, ChatStep(w) PROVE LogInv'
  BY <1>1, <1>6, ChatUntouched, UntouchedOK
<1>7. CASE Quit
  <2>1. "resident" \in Processes
    BY DEF Processes
  <2> QED
    BY <1>1, <1>7, <2>1, EndsUntouched, UntouchedOK DEF Quit
<1>8. CASE Tamper
  BY <1>8, TamperOK
<1>9. ASSUME NEW p \in Processes, Crash(p) PROVE LogInv'
  BY <1>1, <1>9, EndsUntouched, UntouchedOK DEF Crash
<1>10. CASE PeerSends \/ UNCHANGED vars
  <2>1. UNCHANGED <<rows, written, tampered, pc, open, stale, entry, tail>>
    BY <1>10 DEF PeerSends, vars, sqliteVars, auditVars
  <2>2. Untouched
    BY <1>1, <2>1 DEF Untouched, Shape
  <2> QED
    BY <2>2, UntouchedOK
<1> QED
  BY <1>2, <1>3, <1>4, <1>5, <1>6, <1>7, <1>8, <1>9, <1>10 DEF Next

\* A log nobody tampered with verifies.
LEMMA ChainIsVerified == LogInv => ChainVerifies
<1> SUFFICES ASSUME LogInv, tampered = 0, NEW s \in DOMAIN rows
             PROVE  /\ rows[s].prev = HashAt(Below(s))
                    /\ rows[s].hash = Hash(s, rows[s].fact, rows[s].prev)
  BY DEF ChainVerifies, Verifies
<1>1. /\ \A r \in 1 .. s : r \in DOMAIN rows
      /\ rows[s] = Row(s, rows[s].fact, HashAt(s - 1))
      /\ s \in Nat \ {0}
  BY DEF LogInv, ChainOK, Numbered
<1>2. /\ rows[s].prev = HashAt(s - 1)
      /\ rows[s].hash = Hash(s, rows[s].fact, rows[s].prev)
  BY <1>1 DEF Row
<1>3. Below(s) = s - 1
  <2> DEFINE n == Below(s)
  <2>1. /\ n \in Nat
        /\ n \in {r \in DOMAIN rows : r < s} \cup {0}
        /\ \A r \in DOMAIN rows : r < s => r <= n
    BY <1>1, BelowIsBelow DEF LogInv
  <2>2. n <= s - 1
    <3> HIDE DEF n
    <3> QED
      BY <1>1, <2>1
  <2>3. s # 1 => s - 1 <= n
    <3>1. s # 1 => s - 1 \in 1 .. s /\ s - 1 < s
      BY <1>1
    <3> QED
      BY <1>1, <2>1, <3>1
  <2> HIDE DEF n
  <2>4. n = s - 1
    BY <1>1, <2>1, <2>2, <2>3
  <2> QED
    BY <2>4 DEF n
<1> QED
  BY <1>2, <1>3

\* However the log actions of all processes and goroutines interleave, the chain
\* of a log nobody has tampered with verifies.
THEOREM Chain == Spec => []ChainVerifies
BY InitLog, StepLog, ChainIsVerified, PTL DEF Spec

\* In a log that verifies every row is what was written, and where it was.
LEMMA TamperingShows == LogInv => TamperEvident
<1> SUFFICES ASSUME LogInv, Verifies, NEW s \in DOMAIN rows
             PROVE  /\ rows[s] \in written
                    /\ rows[s].seq = s
                    /\ s > 1 => s - 1 \in DOMAIN rows
  BY DEF TamperEvident
<1>1. PICK w \in written : w.seq = s /\ rows[s] \in {w, [w EXCEPT !.fact = Forged]}
  BY DEF LogInv, StoredOK
<1>2. w = [seq |-> w.seq, fact |-> w.fact, prev |-> w.prev, hash |-> Hash(w.seq, w.fact, w.prev)]
  BY DEF LogInv, WrittenOK, Row
<1>3. /\ rows[s].hash = Hash(s, rows[s].fact, rows[s].prev)
      /\ rows[s].prev = HashAt(Below(s))
  BY DEF Verifies
<1>4. rows[s] = w
  <2>1. rows[s].hash = Hash(w.seq, w.fact, w.prev)
    BY <1>1, <1>2
  <2>2. rows[s].fact = w.fact
    BY <1>3, <2>1, HashSays
  <2> QED
    BY <1>1, <1>2, <2>2
<1>5. ASSUME s > 1 PROVE s - 1 \in DOMAIN rows
  <2>1. /\ s \in Nat \ {0}
        /\ IsHashOf(s - 1, HashAt(Below(s)))
    BY <1>3, StoredHash DEF LogInv
  <2>2. PICK fact, prev : HashAt(Below(s)) = Hash(s - 1, fact, prev)
    BY <1>5, <2>1 DEF IsHashOf
  <2>3. Below(s) # 0
    BY <2>2, HashIsNotGenesis DEF HashAt
  <2>4. Below(s) \in DOMAIN rows
    BY <2>1, <2>3, BelowIsBelow DEF LogInv
  <2>5. PICK text, before : HashAt(Below(s)) = Hash(Below(s), text, before)
    BY <2>3, <2>4, StoredHash DEF LogInv, HashAt
  <2>6. Below(s) = s - 1
    BY <2>2, <2>5, HashSays
  <2> QED
    BY <2>4, <2>6
<1> QED
  BY <1>1, <1>4, <1>5

\* Of all edits and deletions only the deletion of the last rows goes unnoticed
\* by VerifyChain.
THEOREM Tampering == Spec => []TamperEvident
BY InitLog, StepLog, TamperingShows, PTL DEF Spec
=============================================================================
