------------------------ MODULE DatabaseTables_proofs ------------------------
(***************************************************************************)
(* Theorems about the rest of module Database: the types, what the audit   *)
(* log says of groups and messages, the tables, the profiles, why an entry *)
(* of the log can be lost, and the chat screen, for any number of          *)
(* processes, goroutines, jobs and faults.                                 *)
(*                                                                         *)
(* The invariant has one part for each module.  A step of one module       *)
(* leaves the variables of the others alone, and takes no thread to their  *)
(* places, so that their parts stay true (the Frame lemmas); its own part  *)
(* is shown step by step.                                                  *)
(***************************************************************************)
EXTENDS Database_proofs

-----------------------------------------------------------------------------
(* Sqlite.                                                                 *)

\* The number of a job is given to one thread, and its groups, messages and
\* profiles bear it.
SqliteInv ==
    /\ workload \in Workloads
    /\ pc \in [Threads -> Places]
    /\ number \in [Threads -> 0 .. MaxCommands]
    /\ begun \in 0 .. MaxCommands
    /\ open = {t \in Threads : pc[t] = "insert"}
    /\ stale = [t \in Threads |-> stale[t]]
    /\ \A t \in Threads : stale[t] # {} => t \in open
    /\ faults \in 0 .. MaxFaults
    /\ \A t \in Threads : number[t] <= begun
    /\ \A t, u \in Threads : number[t] = number[u] /\ number[t] # 0 => t = u

\* A job begins, or the job of a message that is only queued.
Begun(t) ==
    /\ pc[t] = "idle"
    /\ begun < MaxCommands
    /\ begun' = begun + 1
    /\ number' \in {number, [number EXCEPT ![t] = begun + 1]}
    /\ UNCHANGED <<workload, open, stale, faults>>

\* t stays where it is or goes to one of the places.
Moves(t, places) == UNCHANGED pc \/ \E place \in places : Goto(t, place)

\* What the steps outside LogAction do.
Plain(t) ==
    /\ pc[t] \notin {"log", "insert"}
    /\ Moves(t, Aside)
    /\ Reads \/ Executes(t) \/ Breaks \/ Begun(t)

\* Initially nothing runs.
LEMMA InitSqlite == Init => SqliteInv
<1> SUFFICES ASSUME Init PROVE SqliteInv
  OBVIOUS
<1>1. SqliteInit
  BY DEF Init
<1>2. workload \in Workloads /\ begun = 0 /\ faults = 0 /\ open = {}
  BY <1>1 DEF SqliteInit
<1>3. \A t \in Threads : pc[t] = "idle" /\ number[t] = 0 /\ stale[t] = {}
  BY <1>1 DEF SqliteInit
<1>4. pc \in [Threads -> Places] /\ number \in [Threads -> 0 .. MaxCommands]
  BY <1>1, SqliteAssumption DEF SqliteInit, Places
<1>5. stale = [t \in Threads |-> stale[t]]
  BY <1>1 DEF SqliteInit
<1> QED
  BY <1>2, <1>3, <1>4, <1>5, SqliteAssumption DEF SqliteInv

\* Such a step keeps the part.
LEMMA PlainSqlite ==
    ASSUME SqliteInv, NEW t \in Threads, Plain(t)
    PROVE  SqliteInv'
<1>1. /\ pc' \in [Threads -> Places]
      /\ \A u \in Threads : pc'[u] = "insert" <=> pc[u] = "insert"
  BY DEF SqliteInv, Plain, Moves, Goto, Aside
<1>2. open' = open /\ workload' = workload
  BY DEF Plain, Reads, Executes, Breaks, Begun
<1>3. /\ stale' = [u \in Threads |-> stale'[u]]
      /\ \A u \in Threads : stale'[u] # {} => u \in open
  <2>1. CASE Executes(t)
    <3>1. stale' = [u \in Threads |-> IF u \in open \ {t} THEN stale[u] \cup {Handle(t, "store")}
                                      ELSE stale[u]]
      BY <2>1 DEF Executes, Outdates
    <3> QED
      BY <3>1 DEF SqliteInv
  <2>2. CASE ~Executes(t)
    <3>1. stale' = stale
      BY <2>2 DEF Plain, Reads, Breaks, Begun
    <3> QED
      BY <3>1 DEF SqliteInv
  <2> QED
    BY <2>1, <2>2
<1>4. faults' \in 0 .. MaxFaults
  BY SqliteAssumption DEF SqliteInv, Plain, Reads, Executes, Breaks, Begun
<1>5. /\ number' \in [Threads -> 0 .. MaxCommands]
      /\ begun' \in 0 .. MaxCommands
      /\ \A u \in Threads : number'[u] <= begun'
      /\ \A u, v \in Threads : number'[u] = number'[v] /\ number'[u] # 0 => u = v
  <2>1. CASE UNCHANGED <<number, begun>>
    BY <2>1 DEF SqliteInv
  <2>2. CASE Begun(t)
    <3>1. begun' = begun + 1 /\ begun < MaxCommands /\ begun \in 0 .. MaxCommands
      BY <2>2 DEF Begun, SqliteInv
    <3>2. begun' \in 1 .. MaxCommands /\ begun < begun'
      BY <3>1, SqliteAssumption
    <3>3. \A u \in Threads : number[u] \in 0 .. MaxCommands /\ number[u] <= begun
      BY DEF SqliteInv
    <3>4. CASE number' = number
      <4>1. \A u \in Threads : number'[u] <= begun'
        BY <3>1, <3>2, <3>3, <3>4
      <4> QED
        BY <3>2, <3>4, <4>1 DEF SqliteInv
    <3>5. CASE number' = [number EXCEPT ![t] = begun + 1]
      <4>1. \A u \in Threads : number'[u] = IF u = t THEN begun' ELSE number[u]
        BY <3>1, <3>5 DEF SqliteInv
      <4>2. \A u \in Threads : number'[u] \in 0 .. MaxCommands /\ number'[u] <= begun'
        BY <3>1, <3>2, <3>3, <4>1
      <4>3. \A u \in Threads \ {t} : number'[u] # begun'
        BY <3>1, <3>2, <3>3, <4>1
      <4>4. \A u, v \in Threads : number'[u] = number'[v] /\ number'[u] # 0 => u = v
        BY <4>1, <4>3 DEF SqliteInv
      <4>5. number' \in [Threads -> 0 .. MaxCommands]
        BY <3>1, <3>2, <3>5 DEF SqliteInv
      <4> QED
        BY <3>2, <4>2, <4>4, <4>5
    <3> QED
      BY <2>2, <3>4, <3>5 DEF Begun
  <2> QED
    BY <2>1, <2>2 DEF Plain, Reads, Executes, Breaks
<1> QED
  BY <1>1, <1>2, <1>3, <1>4, <1>5 DEF SqliteInv

\* So do the steps of LogAction, which open and close its transaction.
LEMMA LogSqlite ==
    ASSUME SqliteInv, Shape, NEW t \in Threads, LogStep(t)
    PROVE  SqliteInv'
<1>1. UNCHANGED <<workload, number, begun>> /\ faults' \in {faults, faults + 1} /\
      (faults' = faults + 1 => faults < MaxFaults \/ faults' = faults)
  BY DEF LogStep, ReadTail, ReadFails, Insert, InsertFails, Breaks
<1>2. faults' \in 0 .. MaxFaults
  BY <1>1, SqliteAssumption DEF SqliteInv
<1>3. entry[t].then \in Aside
  BY DEF Shape
<1>4. CASE ReadTail(t)
  <2>1. pc' = [pc EXCEPT ![t] = "insert"] /\ open' = open \cup {t} /\ stale' = stale
    BY <1>4 DEF ReadTail, Goto
  <2> QED
    BY <1>1, <1>2, <2>1 DEF SqliteInv, Places
<1>5. CASE ReadFails(t)
  <2>1. pc' = [pc EXCEPT ![t] = entry[t].then] /\ open' = open /\ stale' = stale /\ pc[t] = "log"
    BY <1>5 DEF ReadFails, Returns, Goto, Breaks
  <2> QED
    BY <1>1, <1>2, <1>3, <2>1 DEF SqliteInv, Aside
<1>6. CASE Insert(t) \/ InsertFails(t)
  <2>1. pc' = [pc EXCEPT ![t] = entry[t].then] /\ open' = open \ {t}
    BY <1>6 DEF Insert, InsertFails, Returns, Goto, Closes
  <2>2. /\ stale' = [u \in Threads |-> stale'[u]]
        /\ stale'[t] = {}
        /\ \A u \in Threads \ {t} : stale'[u] # {} => u \in open
    <3>1. CASE Insert(t)
      BY <3>1 DEF Insert, Closes, SqliteInv
    <3>2. CASE InsertFails(t)
      BY <3>2 DEF InsertFails, SqliteInv
    <3> QED
      BY <1>6, <3>1, <3>2
  <2>3. /\ pc' \in [Threads -> Places]
        /\ \A u \in Threads : pc'[u] = "insert" <=> u # t /\ pc[u] = "insert"
    BY <1>3, <2>1 DEF SqliteInv, Aside
  <2> QED
    BY <1>1, <1>2, <2>1, <2>2, <2>3 DEF SqliteInv
<1> QED
  BY <1>4, <1>5, <1>6 DEF LogStep

\* And the end of a process.
LEMMA EndsSqlite ==
    ASSUME SqliteInv, NEW p \in Processes, Ends(p), faults' \in 0 .. MaxFaults
    PROVE  SqliteInv'
<1> DEFINE gone == {t \in Threads : Process(t) = p}
<1>1. /\ pc' = [t \in Threads |-> IF t \in gone THEN "idle" ELSE pc[t]]
      /\ open' = open \ gone
      /\ stale' = [t \in Threads |-> IF t \in gone THEN {} ELSE stale[t]]
      /\ UNCHANGED <<workload, number, begun>>
  BY DEF Ends
<1> HIDE DEF gone
<1>2. pc' \in [Threads -> Places]
  BY <1>1 DEF SqliteInv, Places
<1> QED
  BY <1>1, <1>2 DEF SqliteInv

-----------------------------------------------------------------------------
(* Where the steps of each module take a thread.                           *)

GroupPlaces   == {"create", "members", "add-member", "leave", "touch", "idle", "log"}
MailPlaces    == {"open", "migrate", "rename", "store", "inbox", "sent", "load", "loaded",
                  "idle", "log"}
ProfilePlaces == {"publish", "discover", "found", "idle"}

\* All of them are outside LogAction's transaction.
LEMMA PlacesAside == GroupPlaces \cup MailPlaces \cup ProfilePlaces \subseteq Aside
BY DEF GroupPlaces, MailPlaces, ProfilePlaces, Aside, Places

\* What is a step of SQLite's, as far as its variables go.
LEMMA StartBegun ==
    ASSUME NEW t, NEW job, NEW place, Start(t, job, place)
    PROVE  Begun(t) /\ Goto(t, place) /\ number' = [number EXCEPT ![t] = begun + 1]
BY DEF Start, Begun

\* A step is plain when it moves t from one of its module's places to another.
LEMMA PlainMoves ==
    ASSUME NEW t, NEW places \in SUBSET Aside,
           pc[t] \notin {"log", "insert"},
           Moves(t, places),
           Reads \/ Executes(t) \/ Breaks \/ Begun(t)
    PROVE  Plain(t) /\ Moves(t, places)
BY DEF Plain, Moves

\* The group commands.
LEMMA GroupPlain ==
    ASSUME NEW t, GroupStep(t)
    PROVE  Plain(t) /\ Moves(t, GroupPlaces)
<1>1. CASE CreateGroup(t)
  BY <1>1, StartBegun, PlainMoves, PlacesAside DEF CreateGroup, Begun, Moves, GroupPlaces
<1>2. CASE InsertGroup(t)
  BY <1>2, PlainMoves, PlacesAside DEF InsertGroup, Moves, GroupPlaces
<1>3. CASE InsertMember(t)
  BY <1>3, PlainMoves, PlacesAside DEF InsertMember, Moves
<1>4. CASE MemberExists(t)
  BY <1>4, PlainMoves, PlacesAside DEF MemberExists, Fails, Moves, GroupPlaces
<1>5. CASE GroupCreated(t)
  BY <1>5, PlainMoves, PlacesAside DEF GroupCreated, Log, Moves, GroupPlaces
<1>6. CASE FindToAdd(t)
  <2>1. PICK who, npub : Find(t, who, "add-member", "added", {npub})
    BY <1>6 DEF FindToAdd
  <2> QED
    BY <2>1, StartBegun, PlainMoves, PlacesAside DEF Find, Begun, Moves, GroupPlaces
<1>7. CASE InsertOrIgnore(t)
  <2>1. /\ pc[t] = "add-member" /\ Goto(t, "touch")
        /\ Executes(t) \/ Reads
    BY <1>7 DEF InsertOrIgnore
  <2> QED
    BY <2>1, PlainMoves, PlacesAside DEF Moves, GroupPlaces
<1>8. CASE FindToLeave(t)
  <2>1. PICK who : Find(t, who, "leave", "removed", {who})
    BY <1>8 DEF FindToLeave
  <2> QED
    BY <2>1, StartBegun, PlainMoves, PlacesAside DEF Find, Begun, Moves, GroupPlaces
<1>9. CASE DeleteMember(t)
  BY <1>9, PlainMoves, PlacesAside DEF DeleteMember, Moves, GroupPlaces
<1>10. CASE Touch(t)
  BY <1>10, PlainMoves, PlacesAside DEF Touch, Log, Moves, GroupPlaces
<1>11. CASE StatementFails(t)
  BY <1>11, PlainMoves, PlacesAside DEF StatementFails, Fails, Moves, GroupPlaces
<1> QED
  BY <1>1, <1>2, <1>3, <1>4, <1>5, <1>6, <1>7, <1>8, <1>9, <1>10, <1>11 DEF GroupStep

\* InitStorage, and what follows the writing of a row.
LEMMA StoragePlain ==
    ASSUME NEW t, OpenStore(t) \/ StoreKnown(t) \/ Migrate(t) \/ Rename(t) \/ Store(t) \/ StoreFails(t)
    PROVE  Plain(t) /\ Moves(t, MailPlaces)
<1>1. ASSUME NEW how, Opens(t, how) PROVE Moves(t, MailPlaces)
  BY <1>1 DEF Opens, Moves, MailPlaces
<1>2. pc[t] \in {"open", "migrate", "rename", "store"}
  BY DEF OpenStore, StoreKnown, Migrate, Rename, Store, StoreFails
<1>3. Reads \/ Executes(t) \/ Breaks
  BY DEF OpenStore, Stat, StoreKnown, Migrate, Rename, Store, StoreFails
<1>4. CASE OpenStore(t) \/ StoreKnown(t)
  <2>1. Moves(t, MailPlaces)
    BY <1>1, <1>4 DEF OpenStore, Stat, StoreKnown, Moves, MailPlaces
  <2> QED
    BY <1>2, <1>3, <2>1, PlainMoves, PlacesAside
<1>5. CASE Migrate(t) \/ Rename(t)
  <2>1. Moves(t, MailPlaces)
    BY <1>1, <1>5 DEF Migrate, Rename, Moves, MailPlaces
  <2> QED
    BY <1>2, <1>3, <2>1, PlainMoves, PlacesAside
<1>6. CASE Store(t) \/ StoreFails(t)
  <2>1. Stored(t)
    BY <1>6 DEF Store, StoreFails
  <2>2. Moves(t, MailPlaces)
    BY <2>1 DEF Stored, Log, Moves, MailPlaces
  <2> QED
    BY <1>2, <1>3, <2>2, PlainMoves, PlacesAside
<1> QED
  BY <1>4, <1>5, <1>6

\* The message commands and the daemon.
LEMMA MessagePlain ==
    ASSUME NEW t, MessageStep(t)
    PROVE  Plain(t) /\ Moves(t, MailPlaces)
<1>1. ASSUME NEW job, NEW place \in {"open", "inbox"}, Begins(t, job, place)
      PROVE  Plain(t) /\ Moves(t, MailPlaces)
  BY <1>1, StartBegun, PlainMoves, PlacesAside DEF Begins, Begun, Moves, MailPlaces
<1>2. CASE Send(t) \/ ReadInbox(t) \/ Retry(t) \/ MigrateCommand(t) \/ Receive(t) \/ Reply(t)
  BY <1>1, <1>2 DEF Send, ReadInbox, Retry, MigrateCommand, Receive, Reply
<1>3. CASE SendQueued(t)
  <2>1. pc[t] = "idle" /\ Moves(t, MailPlaces) /\ Begun(t)
    BY <1>3 DEF SendQueued, Moves, Begun
  <2> QED
    BY <2>1, PlainMoves, PlacesAside
<1>4. CASE NextOfInbox(t)
  <2>1. pc[t] = "inbox" /\ Reads /\ Moves(t, MailPlaces)
    BY <1>4 DEF NextOfInbox, Moves, MailPlaces
  <2> QED
    BY <2>1, PlainMoves, PlacesAside
<1> QED
  BY <1>2, <1>3, <1>4, StoragePlain DEF MessageStep

\* The chat screen.
LEMMA ChatPlain ==
    ASSUME NEW t, ChatStep(t)
    PROVE  Plain(t) /\ Moves(t, MailPlaces)
<1>1. ASSUME NEW job, NEW place \in {"open", "sent", "load"}, Begins(t, job, place)
      PROVE  Plain(t) /\ Moves(t, MailPlaces)
  BY <1>1, StartBegun, PlainMoves, PlacesAside DEF Begins, Begun, Moves, MailPlaces
<1>2. CASE OpenChat(t) \/ Submit(t)
  BY <1>1, <1>2 DEF OpenChat, Submit
<1>3. CASE DeliverSent(t) \/ Load(t) \/ LoadFails(t) \/ DeliverLoaded(t)
  <2>1. pc[t] \in {"sent", "load", "loaded"} /\ (Reads \/ Breaks)
    BY <1>3 DEF DeliverSent, Load, LoadFails, DeliverLoaded
  <2>2. Moves(t, MailPlaces)
    BY <1>3 DEF DeliverSent, Load, LoadFails, DeliverLoaded, Moves, MailPlaces
  <2> QED
    BY <2>1, <2>2, PlainMoves, PlacesAside
<1> QED
  BY <1>2, <1>3 DEF ChatStep

\* The profile commands.
LEMMA ProfilePlain ==
    ASSUME NEW t, ProfileStep(t)
    PROVE  Plain(t) /\ Moves(t, ProfilePlaces)
<1>1. CASE Publish(t) \/ Discover(t)
  BY <1>1, StartBegun, PlainMoves, PlacesAside DEF Publish, Discover, Begin, Begun, Moves, ProfilePlaces
<1>2. CASE StorePublished(t) \/ StoreFound(t) \/ DiscoverDone(t)
  <2>1. pc[t] \in {"publish", "found", "discover"} /\ (Reads \/ Executes(t) \/ Breaks)
    BY <1>2 DEF StorePublished, StoreFound, DiscoverDone, StoreProfile
  <2>2. Moves(t, ProfilePlaces)
    BY <1>2 DEF StorePublished, StoreFound, DiscoverDone, Done, Moves, ProfilePlaces
  <2> QED
    BY <2>1, <2>2, PlainMoves, PlacesAside
<1>3. ASSUME NEW r \in Relays, PublishTo(t, r) \/ DiscoverAt(t, r)
      PROVE  Plain(t) /\ Moves(t, ProfilePlaces)
  <2>1. pc[t] \in {"publish", "discover"} /\ Reads
    BY <1>3 DEF PublishTo, DiscoverAt
  <2>2. Moves(t, ProfilePlaces)
    BY <1>3 DEF PublishTo, DiscoverAt, Moves, ProfilePlaces
  <2> QED
    BY <2>1, <2>2, PlainMoves, PlacesAside
<1> QED
  BY <1>1, <1>2, <1>3 DEF ProfileStep

\* Threads are where they were, with the same job, but for t, which is not at
\* any of the places that are not its module's.
LEMMA PlainFrame ==
    ASSUME SqliteInv, NEW t \in Threads, NEW places, Plain(t), Moves(t, places)
    PROVE  /\ begun \in Nat /\ begun' \in Nat /\ begun <= begun'
           /\ \A u \in Threads \ {t} : pc'[u] = pc[u] /\ number'[u] = number[u]
           /\ \/ pc'[t] = pc[t] /\ (number'[t] = number[t] \/ pc'[t] = "idle")
              \/ pc'[t] \in places
<1>1. begun \in 0 .. MaxCommands /\ begun \in Nat
  BY DEF SqliteInv
<1>2. begun' \in {begun, begun + 1}
  BY DEF Plain, Reads, Executes, Breaks, Begun
<1>3. number' \in {number, [number EXCEPT ![t] = begun + 1]}
  BY DEF Plain, Reads, Executes, Breaks, Begun
<1>4. number' = number \/ pc[t] = "idle"
  BY DEF Plain, Reads, Executes, Breaks, Begun
<1> QED
  BY <1>1, <1>2, <1>3, <1>4 DEF Moves, Goto, SqliteInv

-----------------------------------------------------------------------------
(* Groups.                                                                 *)

Task == [group : 0 .. MaxCommands, who : Npubs \cup {"none"}, todo : SUBSET Npubs,
         what : {"none", "created", "added", "removed"}]

GroupWork == {"create", "members", "add-member", "leave", "touch"}

\* Who created g is its administrator, or has left it.
AdminOrLeft(g) ==
    /\ creator[g] \in Npubs
    /\ <<g, creator[g]>> \in left \/ member[g][creator[g]] = "admin"

\* What a thread at one of the places knows of its group g: while it is being
\* created it is nobody else's, and nobody is in it before its creator.
CreatingAt(t, g) ==
    /\ pc[t] \in {"create", "members"} =>
          /\ g \in Numbers /\ g = number[t]
          /\ task[t].who \in Mine
          /\ \A m \in made : m.group # g
          /\ task[t].who \in task[t].todo => \A n \in Npubs : <<g, n>> \notin ever
    /\ pc[t] = "create" => task[t].who \in task[t].todo
    /\ pc[t] = "members" =>
          /\ creator[g] = task[t].who
          /\ task[t].who \notin task[t].todo => <<g, task[t].who>> \in ever /\ AdminOrLeft(g)

ChangingAt(t, g) ==
    /\ pc[t] \in {"add-member", "leave", "touch"} =>
          /\ g \in Numbers
          /\ \E n \in Npubs : <<g, n>> \in ever
          /\ \E n \in Npubs : task[t].todo = {n}
          /\ task[t].what \in {"added", "removed"}
    /\ pc[t] = "add-member" => task[t].what = "added"
    /\ pc[t] = "leave" => task[t].what = "removed" /\ task[t].todo = {task[t].who}
    /\ pc[t] = "touch" => \A n \in task[t].todo :
          IF task[t].what = "added" THEN <<g, n>> \in ever ELSE <<g, n>> \in left

GroupAt(t, g) == CreatingAt(t, g) /\ ChangingAt(t, g)

MadeOK(m) ==
    /\ m.group \in Numbers
    /\ m.group <= begun
    /\ creator[m.group] \in m.with
    /\ AdminOrLeft(m.group)

GroupInv ==
    /\ creator \in [Numbers -> Mine \cup {"none"}]
    /\ member \in [Numbers -> [Npubs -> {"no", "member", "admin"}]]
    /\ task \in [Threads -> Task]
    /\ \A g \in Numbers, n \in Npubs : member[g][n] # "no" => <<g, n>> \in ever
    /\ \A g \in Numbers, n \in Npubs : <<g, n>> \in ever => g <= begun
    /\ \A m \in made : MadeOK(m)
    /\ \A t \in Threads : GroupAt(t, task[t].group)

\* Initially there is no group.
LEMMA InitGroups == Init => GroupInv
<1> SUFFICES ASSUME Init PROVE GroupInv
  OBVIOUS
<1>1. GroupInit /\ SqliteInit
  BY DEF Init
<1>2. creator \in [Numbers -> Mine \cup {"none"}]
  BY <1>1 DEF GroupInit
<1>3. /\ member \in [Numbers -> [Npubs -> {"no", "member", "admin"}]]
      /\ \A g \in Numbers, n \in Npubs : member[g][n] = "no"
  BY <1>1 DEF GroupInit
<1>4. task \in [Threads -> Task]
  BY <1>1, SqliteAssumption DEF GroupInit, Task, NoTask
<1>5. made = {} /\ ever = {} /\ \A t \in Threads : pc[t] = "idle"
  BY <1>1 DEF GroupInit, SqliteInit
<1> QED
  BY <1>2, <1>3, <1>4, <1>5 DEF GroupInv, GroupAt, CreatingAt, ChangingAt

\* The group t is creating.
Owns(t, g) == pc[t] \in {"create", "members"} /\ g = number[t]

\* What a step of t may do to the tables: with the group it creates what it
\* likes, with another one nothing that its creator or its members would miss.
Evolves(t) ==
    /\ ever \subseteq ever' /\ left \subseteq left'
    /\ \A m \in made' : m \in made \/ Owns(t, m.group)
    /\ made \subseteq made'
    /\ \A g \in Numbers : Owns(t, g) \/
          /\ creator'[g] = creator[g]
          /\ (\A n \in Npubs : <<g, n>> \notin ever) => \A n \in Npubs : <<g, n>> \notin ever'
          /\ AdminOrLeft(g) => AdminOrLeft(g)'

\* The others know what they knew.
LEMMA OthersAt ==
    ASSUME SqliteInv, GroupInv, NEW t \in Threads, Evolves(t), NEW u \in Threads \ {t},
           pc'[u] = pc[u], number'[u] = number[u], task'[u] = task[u]
    PROVE  GroupAt(u, task[u].group)'
<1> DEFINE g == task[u].group
<1>1. GroupAt(u, g)
  BY DEF GroupInv
<1>2. g \in Numbers => g # 0
  BY SqliteAssumption DEF Numbers
<1>3. pc[u] \in {"create", "members"} => g \in Numbers /\ ~Owns(t, g)
  BY <1>1, <1>2 DEF GroupAt, CreatingAt, Owns, SqliteInv
<1>4. ever \subseteq ever' /\ left \subseteq left'
  BY DEF Evolves
<1>5. ASSUME pc[u] \in {"create", "members"}
      PROVE  /\ \A m \in made' : m.group # g
             /\ task[u].who \in task[u].todo => \A n \in Npubs : <<g, n>> \notin ever'
             /\ creator'[g] = creator[g]
  BY <1>1, <1>3, <1>5 DEF Evolves, GroupAt, CreatingAt
<1>6. ASSUME NEW h, h = g PROVE CreatingAt(u, h)'
  <2>1. CreatingAt(u, h)
    BY <1>1, <1>6 DEF GroupAt
  <2>2. pc[u] = "members" /\ task[u].who \notin task[u].todo => AdminOrLeft(h)'
    <3>1. ASSUME AdminOrLeft(h), pc[u] = "members" PROVE AdminOrLeft(h)'
      BY <1>3, <1>6, <3>1 DEF Evolves
    <3> QED
      BY <2>1, <3>1 DEF CreatingAt
  <2> HIDE DEF g
  <2> QED
    BY <1>4, <1>5, <1>6, <2>1, <2>2 DEF CreatingAt
<1>7. ASSUME NEW h, h = g PROVE ChangingAt(u, h)'
  <2>1. ChangingAt(u, h)
    BY <1>1, <1>7 DEF GroupAt
  <2> QED
    BY <1>4, <2>1 DEF ChangingAt
<1> QED
  BY <1>6, <1>7 DEF GroupAt

\* A step of t that evolves the tables and leaves t knowing what it should.
LEMMA GroupKept ==
    ASSUME SqliteInv, GroupInv, NEW t \in Threads, NEW places, Plain(t), Moves(t, places),
           NEW x \in Task, task' = [task EXCEPT ![t] = x], Evolves(t),
           creator' \in [Numbers -> Mine \cup {"none"}],
           member' \in [Numbers -> [Npubs -> {"no", "member", "admin"}]],
           \A g \in Numbers, n \in Npubs : member'[g][n] # "no" => <<g, n>> \in ever',
           \A m \in made' : m \in made \/
               /\ m.group \in Numbers
               /\ creator'[m.group] \in m.with
               /\ AdminOrLeft(m.group)',
           GroupAt(t, x.group)'
    PROVE  GroupInv'
<1>1. /\ begun \in Nat /\ begun' \in Nat /\ begun <= begun'
      /\ \A u \in Threads \ {t} : pc'[u] = pc[u] /\ number'[u] = number[u]
  BY PlainFrame
<1>2. task' \in [Threads -> Task] /\ task'[t] = x /\ \A u \in Threads \ {t} : task'[u] = task[u]
  BY DEF GroupInv
<1>3. ASSUME NEW u \in Threads PROVE GroupAt(u, task[u].group)'
  <2>1. CASE u = t
    BY <1>2, <2>1
  <2>2. CASE u # t
    BY <1>1, <1>2, <2>2, OthersAt
  <2> QED
    BY <2>1, <2>2
<1>4. \A g \in Numbers : Owns(t, g) => g <= begun /\ g \in Nat
  BY DEF Owns, SqliteInv, Numbers
<1>5. ASSUME NEW g \in Numbers, NEW n \in Npubs, <<g, n>> \in ever' PROVE g <= begun'
  <2>1. g <= begun
    BY <1>4, <1>5 DEF Evolves, GroupInv
  <2> QED
    BY <1>1, <2>1 DEF Numbers
<1>6. ASSUME NEW m \in made' PROVE MadeOK(m)'
  <2>1. CASE m \in made
    <3>1. MadeOK(m) /\ GroupAt(t, task[t].group)
      BY <2>1 DEF GroupInv
    <3>3. ~Owns(t, m.group)
      BY <2>1, <3>1 DEF Owns, GroupAt, CreatingAt
    <3>2. m.group \in Numbers /\ m.group <= begun'
      BY <1>1, <3>1 DEF MadeOK, Numbers
    <3> QED
      BY <3>1, <3>2, <3>3 DEF Evolves, MadeOK
  <2>2. CASE m \notin made
    <3>1. m.group \in Numbers /\ m.group <= begun
      BY <1>4, <2>2 DEF Evolves
    <3>2. m.group <= begun'
      BY <1>1, <3>1 DEF Numbers
    <3> QED
      BY <2>2, <3>1, <3>2 DEF MadeOK
  <2> QED
    BY <2>1, <2>2
<1> QED
  BY <1>2, <1>3, <1>5, <1>6 DEF GroupInv

\* The rows stay what they are.
LEMMA RowsEvolve ==
    ASSUME NEW t, UNCHANGED <<creator, member, made, ever, left>>
    PROVE  Evolves(t)
BY DEF Evolves, AdminOrLeft

\* A step of t that leaves the rows alone.
LEMMA TaskKept ==
    ASSUME SqliteInv, GroupInv, NEW t \in Threads, Plain(t), Moves(t, GroupPlaces),
           NEW x \in Task, task' = [task EXCEPT ![t] = x],
           UNCHANGED <<creator, member, made, ever, left>>,
           GroupAt(t, x.group)'
    PROVE  GroupInv'
<1>1. Evolves(t)
  BY RowsEvolve
<1> HIDE DEF Evolves
<1>2. /\ creator' \in [Numbers -> Mine \cup {"none"}]
      /\ member' \in [Numbers -> [Npubs -> {"no", "member", "admin"}]]
      /\ \A g \in Numbers, n \in Npubs : member'[g][n] # "no" => <<g, n>> \in ever'
      /\ \A m \in made' : m \in made
  BY DEF GroupInv
<1> QED
  BY <1>1, <1>2, GroupKept

\* A thread that has finished or given up knows nothing.
LEMMA IdleAt ==
    ASSUME NEW t, pc'[t] \notin GroupWork, NEW g
    PROVE  GroupAt(t, g)'
BY DEF GroupAt, CreatingAt, ChangingAt, GroupWork

\* The steps of group create.
LEMMA CreateOK ==
    ASSUME SqliteInv, GroupInv, NEW t \in Threads,
           CreateGroup(t) \/ InsertGroup(t) \/ InsertMember(t) \/ GroupCreated(t),
           Plain(t), Moves(t, GroupPlaces)
    PROVE  GroupInv'
<1>1. /\ pc \in [Threads -> Places] /\ number \in [Threads -> 0 .. MaxCommands]
      /\ begun \in 0 .. MaxCommands
      /\ task \in [Threads -> Task] /\ task[t] \in Task
      /\ creator \in [Numbers -> Mine \cup {"none"}]
      /\ member \in [Numbers -> [Npubs -> {"no", "member", "admin"}]]
      /\ \A h \in Numbers, n \in Npubs : member[h][n] # "no" => <<h, n>> \in ever
      /\ GroupAt(t, task[t].group)
  BY DEF SqliteInv, GroupInv
<1>2. CASE CreateGroup(t)
  <2>1. PICK who \in Mine, others \in SUBSET Npubs :
            task' = [task EXCEPT ![t] = [group |-> begun + 1, who |-> who,
                                         todo |-> others \cup {who}, what |-> "created"]]
    BY <1>2 DEF CreateGroup
  <2>2. PICK n : n = begun + 1
    OBVIOUS
  <2>3. PICK x : x = [group |-> n, who |-> who, todo |-> others \cup {who}, what |-> "created"]
    OBVIOUS
  <2>4. /\ Begun(t) /\ Goto(t, "create") /\ number' = [number EXCEPT ![t] = n]
        /\ UNCHANGED <<creator, member, made, ever, left>>
    BY <1>2, <2>2, StartBegun DEF CreateGroup
  <2>5. n \in Numbers /\ n \in 0 .. MaxCommands /\ ~(n <= begun)
    BY <1>1, <2>2, <2>4, SqliteAssumption DEF Begun, Numbers
  <2>6. x \in Task /\ task' = [task EXCEPT ![t] = x]
    BY <2>1, <2>2, <2>3, <2>5, GroupsAssumption DEF Task
  <2>7. pc'[t] = "create" /\ number'[t] = n /\ task'[t] = x
    BY <1>1, <2>4, <2>6 DEF Goto
  <2>8. \A m \in made : m.group # n
    BY <2>5 DEF GroupInv, MadeOK
  <2>9. \A npub \in Npubs : <<n, npub>> \notin ever
    BY <2>5 DEF GroupInv
  <2>10. CreatingAt(t, n)' /\ ChangingAt(t, n)'
    BY <2>3, <2>4, <2>5, <2>7, <2>8, <2>9 DEF CreatingAt, ChangingAt
  <2>11. GroupAt(t, x.group)'
    BY <2>3, <2>10 DEF GroupAt
  <2> QED
    BY <2>4, <2>6, <2>11, TaskKept
<1>3. CASE InsertGroup(t)
  <2>1. PICK x \in Task : x = task[t]
    BY <1>1
  <2>2. PICK h : h = x.group
    OBVIOUS
  <2>3. /\ pc[t] = "create" /\ pc'[t] = "members" /\ number' = number
        /\ creator' = [creator EXCEPT ![h] = x.who]
        /\ UNCHANGED <<member, made, ever, left>>
        /\ task' = [task EXCEPT ![t] = x] /\ task'[t] = x
    BY <1>1, <1>3, <2>1, <2>2 DEF InsertGroup, Goto, Executes
  <2>4. /\ h \in Numbers /\ h = number[t] /\ x.who \in Mine /\ x.who \in x.todo
        /\ \A m \in made : m.group # h
        /\ \A n \in Npubs : <<h, n>> \notin ever
    BY <1>1, <2>1, <2>2, <2>3 DEF GroupAt, CreatingAt
  <2>5. creator' \in [Numbers -> Mine \cup {"none"}] /\ creator'[h] = x.who
    BY <1>1, <2>3, <2>4
  <2>6. \A g \in Numbers : g # h => creator'[g] = creator[g]
    BY <1>1, <2>3
  <2>7. Evolves(t)
    BY <2>3, <2>4, <2>6 DEF Evolves, Owns, AdminOrLeft
  <2>8. GroupAt(t, h)'
    <3>1. CreatingAt(t, h)'
      BY <2>3, <2>4, <2>5 DEF CreatingAt
    <3>2. ChangingAt(t, h)'
      BY <2>3 DEF ChangingAt
    <3> QED
      BY <3>1, <3>2 DEF GroupAt
  <2>9. GroupAt(t, x.group)'
    BY <2>2, <2>8
  <2>10. /\ member' \in [Numbers -> [Npubs -> {"no", "member", "admin"}]]
         /\ \A g \in Numbers, n \in Npubs : member'[g][n] # "no" => <<g, n>> \in ever'
         /\ \A m \in made' : m \in made
    BY <1>1, <2>3
  <2> QED
    BY <2>3, <2>5, <2>7, <2>9, <2>10, GroupKept
<1>4. CASE InsertMember(t)
  <2>1. PICK npub \in task[t].todo :
            /\ task[t].who \in task[t].todo => npub = task[t].who
            /\ member[task[t].group][npub] = "no"
            /\ member' = [member EXCEPT ![task[t].group][npub] =
                             IF npub = task[t].who THEN "admin" ELSE "member"]
            /\ ever' = ever \cup {<<task[t].group, npub>>}
            /\ task' = [task EXCEPT ![t].todo = @ \ {npub}]
    BY <1>4 DEF InsertMember
  <2>2. PICK old \in Task : old = task[t]
    BY <1>1
  <2>3. PICK x : x = [old EXCEPT !.todo = @ \ {npub}]
    OBVIOUS
  <2>4. PICK h : h = x.group
    OBVIOUS
  <2>5. /\ x \in Task /\ x.group = h /\ old.group = h /\ x.who = old.who
        /\ x.todo = old.todo \ {npub}
        /\ npub \in Npubs
    BY <2>1, <2>2, <2>3, <2>4 DEF Task
  <2>6. /\ pc[t] = "members" /\ pc' = pc /\ number' = number
        /\ UNCHANGED <<creator, made, left>>
        /\ task' = [task EXCEPT ![t] = x] /\ task'[t] = x
        /\ ever' = ever \cup {<<h, npub>>}
        /\ member' = [member EXCEPT ![h][npub] =
                             IF npub = x.who THEN "admin" ELSE "member"]
        /\ x.who \in old.todo => npub = x.who
    BY <1>1, <1>4, <2>1, <2>2, <2>3, <2>5 DEF InsertMember, Executes
  <2>7. CreatingAt(t, h)
    BY <1>1, <2>2, <2>5 DEF GroupAt
  <2>8. /\ h \in Numbers /\ h = number[t] /\ x.who \in Mine /\ x.who \in Npubs
        /\ \A m \in made : m.group # h
        /\ creator[h] = x.who
        /\ x.who \notin old.todo => <<h, x.who>> \in ever /\ AdminOrLeft(h)
    BY <2>2, <2>5, <2>6, <2>7, GroupsAssumption DEF CreatingAt
  <2>9. /\ member' \in [Numbers -> [Npubs -> {"no", "member", "admin"}]]
        /\ \A g \in Numbers, n \in Npubs :
               member'[g][n] = IF g = h /\ n = npub
                               THEN (IF npub = x.who THEN "admin" ELSE "member")
                               ELSE member[g][n]
    BY <1>1, <2>5, <2>6, <2>8
  <2>10. Evolves(t)
    <3>1. ASSUME NEW g \in Numbers, g # h PROVE AdminOrLeft(g) => AdminOrLeft(g)'
      <4>1. member'[g] = member[g]
        BY <1>1, <2>6, <3>1
      <4> QED
        BY <2>6, <4>1 DEF AdminOrLeft
    <3>2. \A g \in Numbers, n \in Npubs : g # h => (<<g, n>> \in ever' <=> <<g, n>> \in ever)
      BY <2>6
    <3> QED
      BY <2>6, <2>8, <3>1, <3>2 DEF Evolves, Owns
  <2>11. x.who \notin x.todo => <<h, x.who>> \in ever' /\ AdminOrLeft(h)'
    <3>1. CASE x.who \in old.todo
      <4>1. npub = x.who /\ member'[h][x.who] = "admin" /\ creator'[h] = x.who
        BY <2>6, <2>8, <2>9, <3>1
      <4> QED
        BY <2>6, <2>8, <4>1 DEF AdminOrLeft
    <3>2. CASE x.who \notin old.todo
      <4>1. npub # x.who
        BY <2>1, <2>2, <3>2
      <4>2. member'[h][x.who] = member[h][x.who]
        BY <2>8, <2>9, <4>1
      <4> QED
        BY <2>6, <2>8, <3>2, <4>2 DEF AdminOrLeft
    <3> QED
      BY <3>1, <3>2
  <2>12. x.who \notin x.todo
    BY <2>5, <2>6
  <2>13. CreatingAt(t, h)'
    BY <2>6, <2>8, <2>11, <2>12 DEF CreatingAt
  <2>14. ChangingAt(t, h)'
    BY <2>6 DEF ChangingAt
  <2>15. GroupAt(t, x.group)'
    BY <2>4, <2>13, <2>14 DEF GroupAt
  <2>16. \A g \in Numbers, n \in Npubs : member'[g][n] # "no" => <<g, n>> \in ever'
    BY <1>1, <2>6, <2>9
  <2>17. creator' \in [Numbers -> Mine \cup {"none"}] /\ \A m \in made' : m \in made
    BY <1>1, <2>6
  <2> QED
    BY <2>5, <2>6, <2>9, <2>10, <2>15, <2>16, <2>17, GroupKept
<1>5. CASE GroupCreated(t)
  <2>1. PICK old \in Task : old = task[t]
    BY <1>1
  <2>2. PICK h : h = old.group
    OBVIOUS
  <2>3. PICK m : m = [group |-> h, with |-> {n \in Npubs : <<h, n>> \in ever}]
    OBVIOUS
  <2>4. /\ pc[t] = "members" /\ old.todo = {} /\ pc'[t] = "log"
        /\ made' = made \cup {m}
        /\ task' = [task EXCEPT ![t] = NoTask]
        /\ UNCHANGED <<creator, member, ever, left>>
    BY <1>1, <1>5, <2>1, <2>2, <2>3 DEF GroupCreated, Log, Goto
  <2>5. CreatingAt(t, h)
    BY <1>1, <2>1, <2>2 DEF GroupAt
  <2>6. /\ h \in Numbers /\ h = number[t]
        /\ old.who \in Npubs /\ creator[h] = old.who
        /\ <<h, old.who>> \in ever /\ AdminOrLeft(h)
    BY <2>1, <2>4, <2>5, GroupsAssumption DEF CreatingAt
  <2>7. m.group = h /\ creator'[h] \in m.with /\ AdminOrLeft(h)'
    BY <2>3, <2>4, <2>6 DEF AdminOrLeft
  <2>8. Evolves(t)
    BY <2>4, <2>6, <2>7 DEF Evolves, Owns, AdminOrLeft
  <2>9. NoTask \in Task
    BY SqliteAssumption DEF NoTask, Task
  <2>10. GroupAt(t, NoTask.group)'
    BY <2>4, IdleAt DEF GroupWork
  <2>11. ASSUME NEW k \in made', k \notin made
         PROVE  k.group \in Numbers /\ creator'[k.group] \in k.with /\ AdminOrLeft(k.group)'
    <3>1. k = m /\ k.group = h
      BY <2>4, <2>7, <2>11
    <3>2. AdminOrLeft(k.group)'
      BY <2>6, <2>7, <3>1 DEF AdminOrLeft
    <3> QED
      BY <2>6, <2>7, <3>1, <3>2
  <2>12. \A k \in made' : k \in made \/
            /\ k.group \in Numbers
            /\ creator'[k.group] \in k.with
            /\ AdminOrLeft(k.group)'
    BY <2>11
  <2>13. /\ creator' \in [Numbers -> Mine \cup {"none"}]
         /\ member' \in [Numbers -> [Npubs -> {"no", "member", "admin"}]]
         /\ \A g \in Numbers, n \in Npubs : member'[g][n] # "no" => <<g, n>> \in ever'
    BY <1>1, <2>4
  <2> QED
    BY <2>4, <2>8, <2>9, <2>10, <2>12, <2>13, GroupKept
<1> QED
  BY <1>2, <1>3, <1>4, <1>5

\* The steps of group add-member and group leave.
LEMMA ChangeOK ==
    ASSUME SqliteInv, GroupInv, NEW t \in Threads,
           FindToAdd(t) \/ InsertOrIgnore(t) \/ FindToLeave(t) \/ DeleteMember(t) \/ Touch(t),
           Plain(t), Moves(t, GroupPlaces)
    PROVE  GroupInv'
<1>1. /\ pc \in [Threads -> Places] /\ task[t] \in Task /\ task \in [Threads -> Task]
      /\ creator \in [Numbers -> Mine \cup {"none"}]
      /\ member \in [Numbers -> [Npubs -> {"no", "member", "admin"}]]
      /\ \A h \in Numbers, n \in Npubs : member[h][n] # "no" => <<h, n>> \in ever
      /\ GroupAt(t, task[t].group)
  BY DEF SqliteInv, GroupInv
<1>2. ASSUME NEW who \in Mine, NEW job \in {"add-member", "leave"},
             NEW what \in {"added", "removed"}, NEW n \in Npubs,
             Find(t, who, job, what, {n}),
             job = "add-member" => what = "added",
             job = "leave" => what = "removed" /\ n = who
      PROVE  GroupInv'
  <2>1. PICK g \in Numbers :
            /\ member[g][who] # "no"
            /\ task' = [task EXCEPT ![t] = [group |-> g, who |-> who, todo |-> {n},
                                            what |-> what]]
    BY <1>2 DEF Find
  <2>2. PICK x : x = [group |-> g, who |-> who, todo |-> {n}, what |-> what]
    OBVIOUS
  <2>3. x \in Task /\ x.group = g /\ task' = [task EXCEPT ![t] = x] /\ task'[t] = x
    BY <1>1, <2>1, <2>2, GroupsAssumption, SqliteAssumption DEF Task, Numbers
  <2>4. pc'[t] = job /\ UNCHANGED <<creator, member, made, ever, left>>
    BY <1>1, <1>2 DEF Find, Start, Goto
  <2>5. \E m \in Npubs : <<g, m>> \in ever
    BY <1>1, <2>1, GroupsAssumption
  <2>6. ChangingAt(t, g)'
    BY <1>2, <2>2, <2>3, <2>4, <2>5 DEF ChangingAt
  <2>7. CreatingAt(t, g)'
    BY <2>4 DEF CreatingAt
  <2>8. GroupAt(t, x.group)'
    BY <2>3, <2>6, <2>7 DEF GroupAt
  <2> QED
    BY <2>3, <2>4, <2>8, TaskKept
<1>3. CASE FindToAdd(t)
  BY <1>2, <1>3 DEF FindToAdd
<1>4. CASE FindToLeave(t)
  BY <1>2, <1>4, GroupsAssumption DEF FindToLeave
<1>5. CASE InsertOrIgnore(t) \/ DeleteMember(t)
  <2>1. PICK x \in Task : x = task[t]
    BY <1>1
  <2>2. PICK h : h = x.group
    OBVIOUS
  <2>3. /\ pc[t] \in {"add-member", "leave"} /\ pc'[t] = "touch"
        /\ UNCHANGED <<creator, made>>
        /\ task' = [task EXCEPT ![t] = x] /\ task'[t] = x
    BY <1>1, <1>5, <2>1 DEF InsertOrIgnore, DeleteMember, Goto
  <2>4. ChangingAt(t, h)
    BY <1>1, <2>1, <2>2 DEF GroupAt
  <2>5. PICK n \in Npubs : x.todo = {n}
    BY <2>1, <2>3, <2>4 DEF ChangingAt
  <2>6. h \in Numbers /\ \E m \in Npubs : <<h, m>> \in ever
    BY <2>3, <2>4 DEF ChangingAt
  <2>7. \/ /\ x.what = "added" /\ left' = left
           /\ \/ member[h][n] = "no" /\ member' = [member EXCEPT ![h][n] = "member"]
                 /\ ever' = ever \cup {<<h, n>>}
              \/ member[h][n] # "no" /\ UNCHANGED <<member, ever>>
        \/ /\ x.what = "removed" /\ ever' = ever
           /\ member' = [member EXCEPT ![h][n] = "no"]
           /\ left' = left \cup {<<h, n>>}
    <3>1. CASE InsertOrIgnore(t)
      <4>1. x.what = "added" /\ left' = left
        BY <2>1, <2>4, <3>1 DEF ChangingAt, InsertOrIgnore
      <4>2. \/ member[h][n] = "no" /\ member' = [member EXCEPT ![h][n] = "member"]
               /\ ever' = ever \cup {<<h, n>>}
            \/ member[h][n] # "no" /\ UNCHANGED <<member, ever>>
        BY <2>1, <2>2, <2>5, <3>1 DEF InsertOrIgnore
      <4> QED
        BY <4>1, <4>2
    <3>2. CASE DeleteMember(t)
      <4>1. x.what = "removed" /\ n = x.who
        BY <2>1, <2>4, <2>5, <3>2 DEF ChangingAt, DeleteMember
      <4> QED
        BY <2>1, <2>2, <3>2, <4>1 DEF DeleteMember
    <3> QED
      BY <1>5, <3>1, <3>2
  <2>8. PICK row \in {"no", "member", "admin"} :
            /\ row = "admin" => member[h][n] = "admin"
            /\ row # "no" => <<h, n>> \in ever'
            /\ row # "admin" => member[h][n] # "admin" \/ <<h, n>> \in left'
            /\ member' = [member EXCEPT ![h][n] = row]
    <3>1. member = [member EXCEPT ![h][n] = member[h][n]]
      BY <1>1, <2>6
    <3>2. member[h][n] \in {"no", "member", "admin"}
      BY <1>1, <2>6
    <3>3. member[h][n] # "no" => <<h, n>> \in ever
      BY <1>1, <2>6
    <3> QED
      BY <2>7, <3>1, <3>2, <3>3
  <2>9. \A g \in Numbers, m \in Npubs :
            member'[g][m] = IF g = h /\ m = n THEN row ELSE member[g][m]
    BY <1>1, <2>6, <2>8
  <2>10. ever \subseteq ever' /\ left \subseteq left' /\ ever' \subseteq ever \cup {<<h, n>>}
    BY <2>7
  <2>11. \A g \in Numbers : AdminOrLeft(g) => AdminOrLeft(g)'
    BY <2>3, <2>8, <2>9, <2>10 DEF AdminOrLeft
  <2>12. \A g \in Numbers : (\A m \in Npubs : <<g, m>> \notin ever)
                               => \A m \in Npubs : <<g, m>> \notin ever'
    BY <2>6, <2>10
  <2>13. Evolves(t)
    BY <2>3, <2>10, <2>11, <2>12 DEF Evolves
  <2>14. IF x.what = "added" THEN <<h, n>> \in ever' ELSE <<h, n>> \in left'
    BY <1>1, <2>6, <2>7
  <2>15. /\ x.what \in {"added", "removed"}
         /\ \E m \in Npubs : <<h, m>> \in ever'
    BY <2>6, <2>7, <2>10
  <2>16. ChangingAt(t, h)'
    BY <2>3, <2>5, <2>6, <2>14, <2>15 DEF ChangingAt
  <2>17. CreatingAt(t, h)'
    BY <2>3 DEF CreatingAt
  <2>18. GroupAt(t, x.group)'
    BY <2>2, <2>16, <2>17 DEF GroupAt
  <2>19. member' \in [Numbers -> [Npubs -> {"no", "member", "admin"}]]
    BY <1>1, <2>6, <2>8
  <2>20. \A g \in Numbers, m \in Npubs : member'[g][m] # "no" => <<g, m>> \in ever'
    BY <1>1, <2>8, <2>9, <2>10
  <2>21. creator' \in [Numbers -> Mine \cup {"none"}] /\ \A m \in made' : m \in made
    BY <1>1, <2>3
  <2> QED
    BY <2>3, <2>13, <2>18, <2>19, <2>20, <2>21, GroupKept
<1>6. CASE Touch(t)
  <2>1. /\ pc'[t] = "log" /\ task' = [task EXCEPT ![t] = NoTask]
        /\ UNCHANGED <<creator, member, made, ever, left>>
    BY <1>1, <1>6 DEF Touch, Log, Goto
  <2>2. NoTask \in Task
    BY SqliteAssumption DEF NoTask, Task
  <2>3. GroupAt(t, NoTask.group)'
    BY <2>1, IdleAt DEF GroupWork
  <2> QED
    BY <2>1, <2>2, <2>3, TaskKept
<1> QED
  BY <1>3, <1>4, <1>5, <1>6

\* Every step of the group commands; one that fails leaves the tables alone.
LEMMA GroupStepOK ==
    ASSUME SqliteInv, GroupInv, NEW t \in Threads, GroupStep(t)
    PROVE  GroupInv'
<1>1. Plain(t) /\ Moves(t, GroupPlaces)
  BY GroupPlain
<1>2. CASE MemberExists(t) \/ StatementFails(t)
  <2>1. /\ pc'[t] = "idle" /\ task' = [task EXCEPT ![t] = NoTask]
        /\ UNCHANGED <<creator, member, made, ever, left>>
    BY <1>2 DEF MemberExists, StatementFails, Fails, Goto, SqliteInv
  <2>2. NoTask \in Task
    BY SqliteAssumption DEF NoTask, Task
  <2>3. GroupAt(t, NoTask.group)'
    BY <2>1, IdleAt DEF GroupWork
  <2> QED
    BY <1>1, <2>1, <2>2, <2>3, TaskKept
<1> QED
  BY <1>1, <1>2, CreateOK, ChangeOK DEF GroupStep

\* A step that leaves the rows alone, and the threads at work on them.
LEMMA GroupRest ==
    ASSUME GroupInv, UNCHANGED <<creator, member, made, ever, left>>, task' \in [Threads -> Task],
           begun \in Nat, begun' \in Nat, begun <= begun',
           \A u \in Threads : pc'[u] \in GroupWork =>
               pc'[u] = pc[u] /\ number'[u] = number[u] /\ task'[u] = task[u]
    PROVE  GroupInv'
<1>2. ASSUME NEW u \in Threads PROVE GroupAt(u, task[u].group)'
  <2>1. PICK h : h = task'[u].group
    OBVIOUS
  <2>2. GroupAt(u, h)'
    <3>1. CASE pc'[u] \notin GroupWork
      BY <3>1, IdleAt
    <3>2. CASE pc'[u] \in GroupWork
      <4>1. GroupAt(u, h)
        BY <2>1, <3>2 DEF GroupInv
      <4>2. CreatingAt(u, h)'
        BY <3>2, <4>1 DEF GroupAt, CreatingAt, AdminOrLeft
      <4>3. ChangingAt(u, h)'
        BY <3>2, <4>1 DEF GroupAt, ChangingAt
      <4> QED
        BY <4>2, <4>3 DEF GroupAt
    <3> QED
      BY <3>1, <3>2
  <2> QED
    BY <2>1, <2>2
<1>3. ASSUME NEW m \in made' PROVE MadeOK(m)'
  BY <1>3 DEF GroupInv, MadeOK, AdminOrLeft, Numbers
<1>4. \A g \in Numbers, n \in Npubs : <<g, n>> \in ever' => g <= begun'
  BY DEF GroupInv, Numbers
<1> QED
  BY <1>2, <1>3, <1>4 DEF GroupInv

\* A step that is no group command's and takes no thread into one.
LEMMA GroupFrame ==
    ASSUME GroupInv, UNCHANGED groupVars, begun \in Nat, begun' \in Nat, begun <= begun',
           \A u \in Threads : pc'[u] \in GroupWork => pc'[u] = pc[u] /\ number'[u] = number[u]
    PROVE  GroupInv'
<1>1. UNCHANGED <<creator, member, task, made, ever, left>>
  BY DEF groupVars
<1> QED
  BY <1>1, GroupRest DEF GroupInv

-----------------------------------------------------------------------------
(* The message history.                                                    *)

Mail == [kind  : {"none", "msg", "inbox", "receive", "reply", "retry", "migrate", "send"},
         id    : 0 .. MaxCommands,
         text  : {"text", "cipher", "placeholder"},
         todo  : SUBSET Numbers,
         acked : BOOLEAN]

Texts == {"absent", "text", "cipher", "placeholder", "empty"}

MailWork == {"open", "migrate", "rename", "store", "sent"}

\* What is known of the message m a thread is busy with, wherever it is.
MailHas(m) ==
    /\ m \in Mail
    /\ m.todo \subseteq published
    /\ m.kind = "msg" => m.acked
    /\ m.kind \in {"msg", "send"} => m.id \in Numbers /\ (m.acked => m.id \in published)
    /\ \/ m.text = "text"
       \/ m.kind = "inbox" /\ m.text = "placeholder"
       \/ m.kind = "retry"

\* And what at one of the places.
MailAt(t, m) ==
    /\ pc[t] \in MailWork /\ m.kind = "inbox" => m.id \in published
    /\ pc[t] = "sent" => m.kind = "send"
    /\ pc[t] = "store" => opened[Process(t)] # "closed"
    /\ pc[t] = "rename" => \A l \in Legacy : <<l, 0>> \in migrated

MailsOK ==
    /\ mail \in [Threads -> Mail]
    /\ \A t \in Threads : MailHas(mail[t]) /\ MailAt(t, mail[t])

\* The tables and the file.
HistoryOK ==
    /\ file \in LegacyFiles \cup {"backup"}
    /\ file = "backup" => \A l \in Legacy : <<l, 0>> \in migrated
    /\ migrated \subseteq {<<l, 0>> : l \in Legacy}
    /\ history \in [Numbers -> Texts]
    /\ opened \in [Processes -> {"closed", "open"} \cup Causes]
    /\ published \subseteq Numbers /\ queued \subseteq Numbers /\ reported \subseteq Numbers
    /\ SentIsStored

MailInv == MailsOK /\ HistoryOK

\* A message whose text is in the history is one that yields it, and every
\* message that is about was sent.
ReadableInv ==
    /\ yields \in [Numbers -> {"text", "cipher", "empty", "neither"}]
    /\ published \subseteq 1 .. begun /\ queued \subseteq 1 .. begun
    /\ \A t \in Threads : mail[t].id \in 0 .. begun
    /\ \A id \in Numbers : history[id] = "text" => id <= begun /\ yields[id] = "text"

\* Initially there is no message but those of the file.
LEMMA InitMail == Init => MailInv
<1> SUFFICES ASSUME Init PROVE MailInv
  OBVIOUS
<1>1. MessageInit /\ SqliteInit
  BY DEF Init
<1>2. NoMail \in Mail /\ MailHas(NoMail)
  BY SqliteAssumption DEF NoMail, Mail, MailHas
<1>3. \A t \in Threads : mail[t] = NoMail /\ pc[t] = "idle"
  BY <1>1 DEF MessageInit, SqliteInit
<1>4. mail \in [Threads -> Mail]
  BY <1>1, <1>2 DEF MessageInit
<1>5. MailsOK
  BY <1>2, <1>3, <1>4 DEF MailsOK, MailAt, MailWork
<1>6. HistoryOK
  BY <1>1, MessagesAssumption DEF HistoryOK, MessageInit, SentIsStored, Causes, Texts
<1> QED
  BY <1>5, <1>6 DEF MailInv

\* A thread that is at none of the places is owed nothing.
LEMMA ElsewhereAt ==
    ASSUME NEW t, pc'[t] \notin MailWork, NEW m
    PROVE  MailAt(t, m)'
BY DEF MailAt, MailWork

\* What was true of a message stays true when relays have more of them.
LEMMA MailHasMore ==
    ASSUME NEW m, MailHas(m), published \subseteq published'
    PROVE  MailHas(m)'
BY DEF MailHas

\* A step of t that leaves the others where they were, and their stores open,
\* and t with the message x.
LEMMA MailsKept ==
    ASSUME MailsOK, NEW t \in Threads, NEW x, mail' = [mail EXCEPT ![t] = x],
           \A u \in Threads \ {t} :
               /\ pc'[u] = pc[u]
               /\ opened[Process(u)] # "closed" => opened'[Process(u)] # "closed",
           published \subseteq published', migrated \subseteq migrated',
           MailHas(x)', MailAt(t, x)'
    PROVE  MailsOK'
<1>1. x \in Mail
  BY DEF MailHas
<1>2. mail' \in [Threads -> Mail] /\ mail'[t] = x /\ \A u \in Threads \ {t} : mail'[u] = mail[u]
  BY <1>1 DEF MailsOK
<1>3. ASSUME NEW u \in Threads PROVE MailHas(mail[u])' /\ MailAt(u, mail[u])'
  <2>1. CASE u = t
    BY <1>2, <2>1
  <2>2. CASE u # t
    <3>1. PICK m : m = mail[u]
      OBVIOUS
    <3>2. MailHas(m) /\ MailAt(u, m) /\ mail'[u] = m
      BY <1>2, <2>2, <3>1 DEF MailsOK
    <3>3. MailAt(u, m)'
      BY <2>2, <3>2 DEF MailAt
    <3>4. MailHas(m)'
      BY <3>2, MailHasMore
    <3> QED
      BY <3>2, <3>3, <3>4
  <2> QED
    BY <2>1, <2>2
<1> QED
  BY <1>2, <1>3 DEF MailsOK

\* A step that is no message's and takes no thread into one.
LEMMA MailFrame ==
    ASSUME MailInv, UNCHANGED mailVars,
           \A u \in Threads : pc'[u] \in MailWork => pc'[u] = pc[u]
    PROVE  MailInv'
<1>1. UNCHANGED <<file, migrated, history, opened, mail, published, queued, reported, unlucky>>
  BY DEF mailVars
<1>2. HistoryOK'
  BY <1>1 DEF MailInv, HistoryOK, SentIsStored
<1>3. ASSUME NEW u \in Threads PROVE MailHas(mail[u])' /\ MailAt(u, mail[u])'
  <2>1. PICK m : m = mail[u]
    OBVIOUS
  <2>2. MailHas(m) /\ MailAt(u, m) /\ mail'[u] = m
    BY <1>1, <2>1 DEF MailInv, MailsOK
  <2>3. MailHas(m)'
    BY <1>1, <2>2, MailHasMore
  <2>4. MailAt(u, m)'
    <3>1. CASE pc'[u] \in MailWork
      BY <1>1, <2>2, <3>1 DEF MailAt
    <3>2. CASE pc'[u] \notin MailWork
      BY <3>2, ElsewhereAt
    <3> QED
      BY <3>1, <3>2
  <2> QED
    BY <2>2, <2>3, <2>4
<1>4. MailsOK'
  BY <1>1, <1>3 DEF MailInv, MailsOK
<1> QED
  BY <1>2, <1>4 DEF MailInv

\* A command begins, with the message x.
LEMMA BeginsMail ==
    ASSUME SqliteInv, MailInv, NEW t \in Threads, NEW job,
           NEW place \in {"open", "inbox", "sent", "load"}, Begins(t, job, place),
           NEW x, mail' = [mail EXCEPT ![t] = x], MailHas(x)',
           x.kind = "inbox" => place \in {"inbox", "load"},
           place = "sent" => x.kind = "send",
           published \subseteq published', published' \subseteq Numbers, queued' \subseteq Numbers,
           UNCHANGED <<file, migrated, history, reported, unlucky>>
    PROVE  MailInv'
<1>1. /\ pc' = [pc EXCEPT ![t] = place]
      /\ pc'[t] = place
      /\ \A u \in Threads \ {t} : pc'[u] = pc[u]
  BY DEF Begins, Start, Goto, SqliteInv
<1>2. /\ opened' \in [Processes -> {"closed", "open"} \cup Causes]
      /\ \A u \in Threads \ {t} : opened[Process(u)] # "closed" => opened'[Process(u)] # "closed"
  <2>1. CASE t \in Workers
    BY <2>1 DEF Begins, MailInv, HistoryOK
  <2>2. CASE t \notin Workers
    <3>1. t \in Shells /\ opened' = [opened EXCEPT ![t] = "closed"]
      BY <2>2 DEF Begins, Threads
    <3>2. \A u \in Threads \ {t} : Process(u) # t /\ Process(u) \in Processes
      BY <3>1, SqliteAssumption DEF Process, Processes, Threads
    <3>3. opened \in [Processes -> {"closed", "open"} \cup Causes]
      BY DEF MailInv, HistoryOK
    <3> QED
      BY <3>1, <3>2, <3>3
  <2> QED
    BY <2>1, <2>2
<1>3. MailAt(t, x)'
  BY <1>1 DEF MailAt, MailWork
<1>4. MailsOK'
  BY <1>1, <1>2, <1>3, MailsKept DEF MailInv
<1>5. HistoryOK'
  BY <1>2 DEF MailInv, HistoryOK, SentIsStored
<1> QED
  BY <1>4, <1>5 DEF MailInv

\* What a publication does.
LEMMA PublishesMore ==
    ASSUME NEW id \in Numbers, NEW acked \in BOOLEAN, Publishes(id, acked),
           published \subseteq Numbers
    PROVE  /\ published \subseteq published' /\ published' \subseteq Numbers
           /\ acked => id \in published'
BY DEF Publishes

\* The number of a job that begins is one.
LEMMA NewNumber ==
    ASSUME SqliteInv, begun < MaxCommands
    PROVE  begun + 1 \in Numbers
BY SqliteAssumption DEF SqliteInv, Numbers

\* The messages that commands begin with.
LEMMA TakenHas ==
    ASSUME NEW kind \in {"msg", "receive", "reply", "retry", "migrate", "send"},
           NEW id \in 0 .. MaxCommands, NEW text \in {"text", "cipher"}, NEW acked \in BOOLEAN,
           kind = "msg" => acked,
           kind \in {"msg", "send"} => id \in Numbers /\ (acked => id \in published'),
           text = "text" \/ kind = "retry",
           NEW x, x = [kind |-> kind, id |-> id, text |-> text, todo |-> {}, acked |-> acked]
    PROVE  MailHas(x)'
BY DEF MailHas, Mail

\* The commands that begin with a message of their own or another's.
LEMMA TakesOK ==
    ASSUME SqliteInv, MailInv, NEW t \in Threads, NEW job,
           NEW place \in {"open", "sent"}, Begins(t, job, place),
           NEW kind \in {"msg", "receive", "reply", "retry", "migrate", "send"},
           NEW id \in 0 .. MaxCommands, NEW text \in {"text", "cipher"}, NEW acked \in BOOLEAN,
           Takes(t, kind, id, text, acked),
           kind = "msg" => acked,
           kind \in {"msg", "send"} => id \in Numbers /\ (acked => id \in published'),
           text = "text" \/ kind = "retry",
           place = "sent" => kind = "send",
           published \subseteq published', published' \subseteq Numbers, queued' \subseteq Numbers,
           UNCHANGED <<file, migrated, history, reported, unlucky>>
    PROVE  MailInv'
<1>1. PICK x : x = [kind |-> kind, id |-> id, text |-> text, todo |-> {}, acked |-> acked]
  OBVIOUS
<1>2. MailHas(x)'
  BY <1>1, TakenHas
<1>3. mail' = [mail EXCEPT ![t] = x] /\ x.kind = kind /\ x.kind # "inbox"
  BY <1>1 DEF Takes
<1> QED
  BY <1>2, <1>3, BeginsMail

\* The first steps of the commands.
LEMMA BeginOK ==
    ASSUME SqliteInv, MailInv, NEW t \in Threads,
           Send(t) \/ ReadInbox(t) \/ Receive(t) \/ Reply(t) \/ Retry(t) \/ MigrateCommand(t)
    PROVE  MailInv'
<1>1. published \subseteq Numbers /\ queued \subseteq Numbers
  BY DEF MailInv, HistoryOK
<1>2. begun < MaxCommands
  BY DEF Send, ReadInbox, Receive, Reply, Retry, MigrateCommand, Begins, Start
<1>3. PICK n : n = begun + 1
  OBVIOUS
<1>4. n \in Numbers
  BY <1>2, <1>3, NewNumber
<1>5. \A id \in Numbers : id \in 0 .. MaxCommands
  BY SqliteAssumption DEF Numbers
<1>6. CASE Send(t)
  <2>1. /\ Begins(t, "msg", "open") /\ Publishes(n, TRUE) /\ Takes(t, "msg", n, "text", TRUE)
        /\ UNCHANGED <<file, migrated, history, queued, reported, unlucky>>
    BY <1>3, <1>6 DEF Send
  <2>2. published \subseteq published' /\ published' \subseteq Numbers /\ n \in published'
    BY <1>1, <1>4, <2>1, PublishesMore
  <2> QED
    BY <1>1, <1>4, <1>5, <2>1, <2>2, TakesOK
<1>7. CASE ReadInbox(t)
  <2>1. PICK text \in {"text", "placeholder"} :
            mail' = [mail EXCEPT ![t] = [NoMail EXCEPT !.kind = "inbox", !.text = text,
                                                       !.todo = published]]
    BY <1>7 DEF ReadInbox
  <2>2. PICK x : x = [NoMail EXCEPT !.kind = "inbox", !.text = text, !.todo = published]
    OBVIOUS
  <2>3. x = [kind |-> "inbox", id |-> 0, text |-> text, todo |-> published, acked |-> FALSE]
    BY <2>2 DEF NoMail
  <2>4. /\ Begins(t, "inbox", "inbox")
        /\ UNCHANGED <<file, migrated, history, published, queued, reported, unlucky>>
    BY <1>7 DEF ReadInbox
  <2>5. x \in Mail
    BY <1>1, <2>3, SqliteAssumption DEF Mail
  <2>6. MailHas(x)'
    BY <2>3, <2>4, <2>5 DEF MailHas
  <2>7. mail' = [mail EXCEPT ![t] = x] /\ x.kind = "inbox"
    BY <2>1, <2>2, <2>3
  <2> QED
    BY <1>1, <2>4, <2>6, <2>7, BeginsMail
<1>8. CASE Receive(t)
  <2>1. PICK id \in published : Takes(t, "receive", id, "text", TRUE)
    BY <1>8 DEF Receive
  <2>2. /\ Begins(t, "receive", "open")
        /\ UNCHANGED <<file, migrated, history, published, queued, reported, unlucky>>
    BY <1>8 DEF Receive
  <2> QED
    BY <1>1, <1>5, <2>1, <2>2, TakesOK
<1>9. CASE Reply(t)
  <2>1. PICK acked \in BOOLEAN : Publishes(n, acked) /\ Takes(t, "reply", n, "text", acked)
    BY <1>3, <1>9 DEF Reply
  <2>2. /\ Begins(t, "reply", "open")
        /\ UNCHANGED <<file, migrated, history, queued, reported, unlucky>>
    BY <1>9 DEF Reply
  <2>3. published \subseteq published' /\ published' \subseteq Numbers
    BY <1>1, <1>4, <2>1, PublishesMore
  <2> QED
    BY <1>1, <1>4, <1>5, <2>1, <2>2, <2>3, TakesOK
<1>10. CASE Retry(t)
  <2>1. PICK id \in queued : /\ published' = published \cup {id}
                             /\ queued' = queued \ {id}
                             /\ Takes(t, "retry", id, "cipher", TRUE)
    BY <1>10 DEF Retry
  <2>2. /\ Begins(t, "retry", "open")
        /\ UNCHANGED <<file, migrated, history, reported, unlucky>>
    BY <1>10 DEF Retry
  <2> QED
    BY <1>1, <1>5, <2>1, <2>2, TakesOK
<1>11. CASE MigrateCommand(t)
  <2>1. /\ Begins(t, "migrate", "open") /\ Takes(t, "migrate", 0, "text", TRUE)
        /\ UNCHANGED <<file, migrated, history, published, queued, reported, unlucky>>
    BY <1>11 DEF MigrateCommand
  <2>2. 0 \in 0 .. MaxCommands
    BY SqliteAssumption
  <2> QED
    BY <1>1, <2>1, <2>2, TakesOK
<1> QED
  BY <1>6, <1>7, <1>8, <1>9, <1>10, <1>11

\* A step of t that leaves its message alone and can only open its store.
LEMMA OpeningOK ==
    ASSUME SqliteInv, MailInv, NEW t \in Threads,
           NEW place \in {"store", "idle", "migrate", "rename"}, Goto(t, place),
           UNCHANGED <<mail, history, published, queued, reported, unlucky>>,
           UNCHANGED opened \/ \E how \in {"open"} \cup Causes :
                                   opened' = [opened EXCEPT ![Process(t)] = how],
           pc[t] \in MailWork,
           place = "store" => opened'[Process(t)] # "closed",
           place = "rename" => \A l \in Legacy : <<l, 0>> \in migrated',
           migrated \subseteq migrated', migrated' \subseteq {<<l, 0>> : l \in Legacy},
           file' \in LegacyFiles \cup {"backup"},
           file' = "backup" => \A l \in Legacy : <<l, 0>> \in migrated'
    PROVE  MailInv'
<1>1. /\ mail \in [Threads -> Mail] /\ pc \in [Threads -> Places]
      /\ opened \in [Processes -> {"closed", "open"} \cup Causes]
  BY DEF MailInv, MailsOK, HistoryOK, SqliteInv
<1>2. \A u \in Threads : Process(u) \in Processes
  BY DEF Process, Processes, Threads
<1>3. /\ opened' \in [Processes -> {"closed", "open"} \cup Causes]
      /\ \A p \in Processes : opened[p] # "closed" => opened'[p] # "closed"
  <2>1. CASE UNCHANGED opened
    BY <1>1, <2>1
  <2>2. ASSUME NEW how \in {"open"} \cup Causes, opened' = [opened EXCEPT ![Process(t)] = how]
        PROVE  /\ opened' \in [Processes -> {"closed", "open"} \cup Causes]
               /\ \A p \in Processes : opened[p] # "closed" => opened'[p] # "closed"
    BY <1>1, <2>2 DEF Causes
  <2> QED
    BY <2>1, <2>2
<1>4. PICK x : x = mail[t]
  OBVIOUS
<1>5. MailHas(x) /\ MailAt(t, x) /\ mail' = [mail EXCEPT ![t] = x]
  BY <1>1, <1>4 DEF MailInv, MailsOK
<1>6. MailHas(x)'
  BY <1>5, MailHasMore
<1>7. pc'[t] = place /\ \A u \in Threads \ {t} : pc'[u] = pc[u]
  BY <1>1 DEF Goto
<1>8. MailAt(t, x)'
  BY <1>5, <1>7 DEF MailAt, MailWork
<1>9. MailsOK'
  BY <1>2, <1>3, <1>5, <1>6, <1>7, <1>8, MailsKept DEF MailInv
<1>10. HistoryOK'
  BY <1>3 DEF MailInv, HistoryOK, SentIsStored
<1> QED
  BY <1>9, <1>10 DEF MailInv

\* InitStorage and the migration.
LEMMA StorageOK ==
    ASSUME SqliteInv, MailInv, NEW t \in Threads,
           OpenStore(t) \/ StoreKnown(t) \/ Migrate(t) \/ Rename(t)
    PROVE  MailInv'
<1>1. /\ file \in LegacyFiles \cup {"backup"}
      /\ file = "backup" => \A l \in Legacy : <<l, 0>> \in migrated
      /\ migrated \subseteq {<<l, 0>> : l \in Legacy}
      /\ opened \in [Processes -> {"closed", "open"} \cup Causes]
      /\ Process(t) \in Processes
  BY DEF MailInv, HistoryOK, Process, Processes, Threads
<1>2. ASSUME NEW how \in {"open"} \cup Causes, Opens(t, how)
      PROVE  /\ opened' = [opened EXCEPT ![Process(t)] = how]
             /\ opened'[Process(t)] # "closed"
             /\ Goto(t, "store") \/ Goto(t, "idle")
  BY <1>1, <1>2 DEF Opens, Causes
<1>3. CASE OpenStore(t)
  <2>1. /\ UNCHANGED <<file, migrated, history, mail, published, queued, reported, unlucky>>
        /\ pc[t] \in MailWork
    BY <1>3 DEF OpenStore, MailWork
  <2>2. CASE Goto(t, "migrate") /\ UNCHANGED opened
    BY <1>1, <2>1, <2>2, OpeningOK
  <2>3. ASSUME NEW how \in {"open"} \cup Causes, Opens(t, how) PROVE MailInv'
    BY <1>1, <1>2, <2>1, <2>3, OpeningOK
  <2>4. (Goto(t, "migrate") /\ UNCHANGED opened)
        \/ \E how \in {"open"} \cup Causes : Opens(t, how)
    BY <1>3 DEF OpenStore, Stat, Causes
  <2> QED
    BY <2>2, <2>3, <2>4
<1>4. CASE StoreKnown(t)
  <2>1. UNCHANGED <<file, migrated, history, opened, mail, published, queued, reported, unlucky>>
    BY <1>4 DEF StoreKnown, mailVars
  <2>2. Goto(t, "store") /\ pc[t] \in MailWork /\ opened'[Process(t)] # "closed"
    BY <1>4, <2>1 DEF StoreKnown, MailWork
  <2> QED
    BY <1>1, <2>1, <2>2, OpeningOK
<1>5. CASE Migrate(t)
  <2>1. /\ UNCHANGED <<file, history, mail, published, queued, reported, unlucky>>
        /\ pc[t] \in MailWork
    BY <1>5 DEF Migrate, MailWork
  <2>2. CASE /\ migrated' = migrated \cup {LegacyId(m, t) : m \in Legacy}
             /\ Goto(t, "rename") /\ UNCHANGED opened
    <3>1. /\ migrated' \subseteq {<<l, 0>> : l \in Legacy}
          /\ \A l \in Legacy : <<l, 0>> \in migrated'
          /\ migrated \subseteq migrated'
      BY <1>1, <2>2 DEF LegacyId
    <3> QED
      BY <1>1, <2>1, <2>2, <3>1, OpeningOK
  <2>3. ASSUME NEW how \in {"open"} \cup Causes, Opens(t, how), UNCHANGED migrated PROVE MailInv'
    BY <1>1, <1>2, <2>1, <2>3, OpeningOK
  <2>4. \/ /\ migrated' = migrated \cup {LegacyId(m, t) : m \in Legacy}
           /\ Goto(t, "rename") /\ UNCHANGED opened
        \/ \E how \in {"open"} \cup Causes : Opens(t, how) /\ UNCHANGED migrated
    BY <1>5 DEF Migrate, Causes
  <2> QED
    BY <2>2, <2>3, <2>4
<1>6. CASE Rename(t)
  <2>1. /\ UNCHANGED <<migrated, history, mail, published, queued, reported, unlucky>>
        /\ pc[t] \in MailWork /\ pc[t] = "rename"
    BY <1>6 DEF Rename, MailWork
  <2>2. \A l \in Legacy : <<l, 0>> \in migrated
    BY <2>1 DEF MailInv, MailsOK, MailAt
  <2>3. file' \in {file, "backup"}
    BY <1>6 DEF Rename
  <2>4. PICK how \in {"open"} \cup Causes : Opens(t, how)
    BY <1>6 DEF Rename, Causes
  <2> QED
    BY <1>1, <1>2, <2>1, <2>2, <2>3, <2>4, OpeningOK
<1> QED
  BY <1>3, <1>4, <1>5, <1>6

\* The texts that StoreMessage is given, and what makes them readable.
LEMMA PlaintextIs ==
    ASSUME MailInv, ReadableInv, NEW t \in Threads, mail[t].id \in Numbers
    PROVE  /\ Plaintext(t) \in {"text", "cipher", "placeholder", "empty"}
           /\ Plaintext(t) = "text" => yields[mail[t].id] = "text"
           /\ yields[mail[t].id] = "text" => Plaintext(t) = mail[t].text
<1>1. PICK what \in {"text", "cipher", "empty", "neither"} : what = yields[mail[t].id]
  BY DEF ReadableInv
<1>2. mail[t].text \in {"text", "cipher", "placeholder"}
  BY DEF MailInv, MailsOK, Mail
<1> QED
  BY <1>1, <1>2 DEF Plaintext

\* StoreMessage adds the message to the history, or it was out of luck; no
\* message ever leaves the history.
LEMMA StoreRecords ==
    ASSUME MailInv, ReadableInv, NEW t \in Threads, Store(t) \/ StoreFails(t)
    PROVE  /\ history' \in [Numbers -> Texts]
           /\ \A id \in Numbers : history[id] # "absent" => history'[id] # "absent"
           /\ unlucky \subseteq unlucky'
           /\ mail[t].id \in Numbers =>
                 history'[mail[t].id] # "absent" \/ mail[t].id \in unlucky'
<1>1. PICK m \in Mail : m = mail[t]
  BY DEF MailInv, MailsOK
<1>2. history \in [Numbers -> Texts]
  BY DEF MailInv, HistoryOK
<1>3. CASE Store(t)
  <2>1. PICK text : text = Plaintext(t)
    OBVIOUS
  <2>2. /\ history' = [history EXCEPT ![m.id] = IF text = "empty" /\ @ # "absent" THEN @ ELSE text]
        /\ unlucky' = unlucky
    BY <1>1, <1>3, <2>1 DEF Store
  <2>3. m.id \in Numbers => text \in Texts \ {"absent"}
    BY <1>1, <2>1, PlaintextIs DEF Texts
  <2> QED
    BY <1>1, <1>2, <2>2, <2>3
<1>4. CASE StoreFails(t)
  <2>1. opened[Process(t)] \in {"open"} \cup Causes
    <3>1. opened[Process(t)] \in {"closed", "open"} \cup Causes
      BY DEF MailInv, HistoryOK, Process, Processes, Threads
    <3>2. opened[Process(t)] # "closed"
      BY <1>4 DEF StoreFails, MailInv, MailsOK, MailAt
    <3> QED
      BY <3>1, <3>2
  <2>2. history' = history /\ unlucky' = unlucky \cup {m.id}
    BY <1>1, <1>4, <2>1 DEF StoreFails
  <2> QED
    BY <1>1, <1>2, <2>2
<1> QED
  BY <1>3, <1>4

\* The row of a message is written, or fails to be, and the caller goes on.
LEMMA StoreOK ==
    ASSUME SqliteInv, MailInv, ReadableInv, NEW t \in Threads, Store(t) \/ StoreFails(t)
    PROVE  MailInv'
<1>1. PICK m \in Mail : m = mail[t]
  BY DEF MailInv, MailsOK
<1>2. MailHas(m) /\ MailAt(t, m) /\ mail \in [Threads -> Mail] /\ pc \in [Threads -> Places]
  BY <1>1 DEF MailInv, MailsOK, SqliteInv
<1>3. /\ Stored(t) /\ pc[t] = "store"
      /\ UNCHANGED <<file, migrated, opened, published, queued>>
  BY DEF Store, StoreFails
<1>4. \/ pc' = [pc EXCEPT ![t] = "log"]
      \/ pc' = [pc EXCEPT ![t] = "sent"] /\ m.kind = "send"
      \/ pc' = [pc EXCEPT ![t] = "idle"]
  BY <1>1, <1>3 DEF Stored, Log, Goto
<1>5. PICK x \in {m, NoMail} :
          mail' = [mail EXCEPT ![t] = x] /\ (m.kind = "send" => x = m)
  BY <1>1, <1>2, <1>3 DEF Stored
<1>6. NoMail \in Mail /\ MailHas(NoMail)
  BY SqliteAssumption DEF NoMail, Mail, MailHas
<1>7. MailHas(x)'
  BY <1>2, <1>3, <1>5, <1>6, MailHasMore
<1>8. MailAt(t, x)'
  BY <1>2, <1>4, <1>5 DEF MailAt, MailWork
<1>9. \A u \in Threads \ {t} : pc'[u] = pc[u]
  BY <1>2, <1>4
<1>10. MailsOK'
  BY <1>3, <1>5, <1>7, <1>8, <1>9, MailsKept DEF MailInv
<1>11. reported' = IF m.kind = "msg" THEN reported \cup {m.id} ELSE reported
  BY <1>1, <1>3 DEF Stored
<1>12. reported' \subseteq Numbers
  BY <1>2, <1>11 DEF MailInv, HistoryOK, MailHas
<1>13. /\ history' \in [Numbers -> Texts]
       /\ \A id \in Numbers : history[id] # "absent" => history'[id] # "absent"
       /\ unlucky \subseteq unlucky'
       /\ m.id \in Numbers => history'[m.id] # "absent" \/ m.id \in unlucky'
  BY <1>1, StoreRecords
<1>14. SentIsStored'
  <2>1. \A id \in reported : id \in Numbers /\ (history[id] = "absent" => id \in unlucky)
    BY DEF MailInv, HistoryOK, SentIsStored
  <2>2. m.kind = "msg" => m.id \in Numbers
    BY <1>2 DEF MailHas
  <2> QED
    BY <1>11, <1>13, <2>1, <2>2 DEF SentIsStored
<1>15. HistoryOK'
  BY <1>3, <1>12, <1>13, <1>14 DEF MailInv, HistoryOK
<1> QED
  BY <1>10, <1>15 DEF MailInv

\* A step of t that can only change its message.
LEMMA MailStepOK ==
    ASSUME SqliteInv, MailInv, NEW t \in Threads,
           NEW x, mail' = [mail EXCEPT ![t] = x], MailHas(x), MailAt(t, x)',
           \A u \in Threads \ {t} : pc'[u] = pc[u],
           UNCHANGED <<file, migrated, history, opened, published, reported, unlucky>>,
           queued' \subseteq Numbers
    PROVE  MailInv'
<1>1. MailHas(x)'
  BY MailHasMore
<1>2. MailsOK'
  BY <1>1, MailsKept DEF MailInv
<1>3. HistoryOK'
  BY DEF MailInv, HistoryOK, SentIsStored
<1> QED
  BY <1>2, <1>3 DEF MailInv

\* The steps of the message commands and of the daemon.
LEMMA MessageStepOK ==
    ASSUME SqliteInv, MailInv, ReadableInv, NEW t \in Threads, MessageStep(t)
    PROVE  MailInv'
<1>1. /\ mail \in [Threads -> Mail] /\ pc \in [Threads -> Places]
      /\ published \subseteq Numbers /\ queued \subseteq Numbers
  BY DEF MailInv, MailsOK, HistoryOK, SqliteInv
<1>2. PICK m \in Mail : m = mail[t] /\ MailHas(m) /\ MailAt(t, m)
  BY DEF MailInv, MailsOK
<1>3. CASE SendQueued(t)
  <2>1. PICK n : n = begun + 1
    OBVIOUS
  <2>2. n \in Numbers
    BY <1>3, <2>1, NewNumber DEF SendQueued
  <2>3. /\ Publishes(n, FALSE) /\ queued' = queued \cup {n} /\ pc' = pc
        /\ UNCHANGED <<file, migrated, history, opened, mail, reported, unlucky>>
    BY <1>3, <2>1 DEF SendQueued
  <2>4. published \subseteq published' /\ published' \subseteq Numbers
    BY <1>1, <2>2, <2>3, PublishesMore
  <2>5. MailHas(m)' /\ mail' = [mail EXCEPT ![t] = m]
    BY <1>1, <1>2, <2>3, <2>4, MailHasMore
  <2>6. MailAt(t, m)'
    BY <1>2, <2>3, <2>4 DEF MailAt
  <2>7. MailsOK'
    BY <2>3, <2>4, <2>5, <2>6, MailsKept DEF MailInv
  <2>8. HistoryOK'
    BY <1>1, <2>2, <2>3, <2>4 DEF MailInv, HistoryOK, SentIsStored
  <2> QED
    BY <2>7, <2>8 DEF MailInv
<1>4. CASE NextOfInbox(t)
  <2>1. /\ UNCHANGED <<file, migrated, history, opened, published, queued, reported, unlucky>>
        /\ \A u \in Threads \ {t} : pc'[u] = pc[u]
    BY <1>1, <1>4 DEF NextOfInbox, Goto
  <2>2. CASE mail' = [mail EXCEPT ![t] = NoMail] /\ Goto(t, "idle")
    <3>1. MailHas(NoMail)
      BY SqliteAssumption DEF NoMail, Mail, MailHas
    <3>2. MailAt(t, NoMail)'
      BY <1>1, <2>2 DEF MailAt, MailWork, Goto
    <3> QED
      BY <1>1, <2>1, <2>2, <3>1, <3>2, MailStepOK
  <2>3. ASSUME NEW id \in m.todo,
               mail' = [mail EXCEPT ![t].id = id, ![t].todo = @ \ {id}], Goto(t, "open")
        PROVE  MailInv'
    <3>1. PICK x : x = [m EXCEPT !.id = id, !.todo = @ \ {id}]
      OBVIOUS
    <3>2. mail' = [mail EXCEPT ![t] = x]
      BY <1>1, <1>2, <2>3, <3>1
    <3>3. id \in published /\ id \in Numbers /\ id \in 0 .. MaxCommands
      BY <1>1, <1>2, <2>3, SqliteAssumption DEF MailHas, Numbers
    <3>4. /\ x \in Mail /\ x.id = id /\ x.kind = m.kind /\ x.text = m.text
          /\ x.acked = m.acked /\ x.todo = m.todo \ {id}
      BY <1>2, <3>1, <3>3 DEF Mail
    <3>5. MailHas(x)
      BY <1>2, <3>3, <3>4 DEF MailHas
    <3>6. MailAt(t, x)'
      BY <1>1, <2>1, <2>3, <3>3, <3>4 DEF MailAt, Goto
    <3> QED
      BY <1>1, <2>1, <3>2, <3>5, <3>6, MailStepOK
  <2> QED
    BY <1>2, <1>4, <2>2, <2>3 DEF NextOfInbox
<1> QED
  BY <1>3, <1>4, BeginOK, StorageOK, StoreOK DEF MessageStep

\* An event of another program is one more that is published.
LEMMA PeerOK ==
    ASSUME SqliteInv, MailInv, PeerSends
    PROVE  MailInv'
<1>1. PICK n \in Numbers : published' = published \cup {n}
  BY NewNumber DEF PeerSends
<1>2. UNCHANGED <<pc, file, migrated, history, opened, mail, queued, reported, unlucky>>
  BY DEF PeerSends
<1>3. ASSUME NEW u \in Threads PROVE MailHas(mail[u])' /\ MailAt(u, mail[u])'
  <2>1. PICK m : m = mail[u]
    OBVIOUS
  <2>2. MailHas(m) /\ MailAt(u, m) /\ mail'[u] = m
    BY <1>2, <2>1 DEF MailInv, MailsOK
  <2>3. MailHas(m)'
    BY <1>1, <2>2, MailHasMore
  <2>4. MailAt(u, m)'
    BY <1>1, <1>2, <2>2 DEF MailAt
  <2> QED
    BY <2>2, <2>3, <2>4
<1>4. MailsOK'
  BY <1>2, <1>3 DEF MailInv, MailsOK
<1>5. HistoryOK'
  BY <1>1, <1>2 DEF MailInv, HistoryOK, SentIsStored
<1> QED
  BY <1>4, <1>5 DEF MailInv

-----------------------------------------------------------------------------
(* What is readable.                                                       *)

\* A step that leaves the texts alone, and takes up no message that is not sent.
LEMMA ReadableFrame ==
    ASSUME ReadableInv, begun \in Nat, begun' \in Nat, begun <= begun',
           UNCHANGED <<history, yields>>,
           published' \subseteq published \cup queued \cup 1 .. begun',
           queued' \subseteq queued \cup 1 .. begun',
           \A t \in Threads : mail'[t].id \in {mail[t].id} \cup published \cup queued \cup 0 .. begun'
    PROVE  ReadableInv'
<1>1. 1 .. begun \subseteq 1 .. begun' /\ 0 .. begun \subseteq 0 .. begun'
  OBVIOUS
<1>2. 1 .. begun' \subseteq 0 .. begun'
  OBVIOUS
<1>3. published \subseteq 1 .. begun' /\ queued \subseteq 1 .. begun'
  BY <1>1 DEF ReadableInv
<1>4. \A t \in Threads : mail'[t].id \in 0 .. begun'
  BY <1>1, <1>2, <1>3 DEF ReadableInv
<1>5. ASSUME NEW id \in Numbers, history[id] = "text" PROVE id <= begun'
  BY <1>5 DEF ReadableInv, Numbers
<1> QED
  BY <1>3, <1>4, <1>5 DEF ReadableInv

\* A step that is no message's.
LEMMA MailsReadable ==
    ASSUME ReadableInv, begun \in Nat, begun' \in Nat, begun <= begun', UNCHANGED mailVars
    PROVE  ReadableInv'
BY ReadableFrame DEF mailVars

\* The message a thread takes up has the id of x.
LEMMA ReadableTakes ==
    ASSUME SqliteInv, MailInv, ReadableInv, begun' \in {begun, begun + 1},
           UNCHANGED <<history, yields>>,
           published' \subseteq published \cup queued \cup 1 .. begun',
           queued' \subseteq queued \cup 1 .. begun',
           NEW t \in Threads, NEW x, mail' = [mail EXCEPT ![t] = x],
           x.id \in {mail[t].id} \cup published \cup queued \cup 0 .. begun'
    PROVE  ReadableInv'
<1>1. begun \in Nat /\ begun' \in Nat /\ begun <= begun'
  BY DEF SqliteInv
<1>2. mail \in [Threads -> Mail]
  BY DEF MailInv, MailsOK
<1>3. \A u \in Threads : mail'[u] = IF u = t THEN x ELSE mail[u]
  BY <1>2
<1> QED
  BY <1>1, <1>3, ReadableFrame

\* The commands begin with a message of their own, or with one that is about.
LEMMA BeginReadable ==
    ASSUME SqliteInv, MailInv, ReadableInv, NEW t \in Threads,
           Send(t) \/ ReadInbox(t) \/ Receive(t) \/ Reply(t) \/ Retry(t) \/ MigrateCommand(t)
    PROVE  ReadableInv'
<1>1. begun' = begun + 1 /\ UNCHANGED <<history, yields>> /\ begun \in Nat
  <2>1. begun' = begun + 1
    BY DEF Send, ReadInbox, Receive, Reply, Retry, MigrateCommand, Begins, Start
  <2>2. UNCHANGED <<history, yields>>
    BY DEF Send, ReadInbox, Receive, Reply, Retry, MigrateCommand
  <2> QED
    BY <2>1, <2>2 DEF SqliteInv
<1>2. begun' \in 1 .. begun' /\ begun' \in 0 .. begun' /\ 0 \in 0 .. begun'
  BY <1>1
<1>3. PICK n : n = begun'
  OBVIOUS
<1>4. CASE Send(t) \/ Reply(t)
  <2>1. PICK kind, acked : Takes(t, kind, n, "text", acked) /\ Publishes(n, acked) /\ queued' = queued
    BY <1>1, <1>3, <1>4 DEF Send, Reply
  <2>2. published' \subseteq published \cup {n}
    BY <2>1 DEF Publishes
  <2>3. PICK x : x = [kind |-> kind, id |-> n, text |-> "text", todo |-> {}, acked |-> acked]
    OBVIOUS
  <2>4. mail' = [mail EXCEPT ![t] = x] /\ x.id = n
    BY <2>1, <2>3 DEF Takes
  <2> QED
    BY <1>1, <1>2, <1>3, <2>1, <2>2, <2>4, ReadableTakes
<1>5. CASE ReadInbox(t)
  <2>1. PICK text :
            mail' = [mail EXCEPT ![t] = [NoMail EXCEPT !.kind = "inbox", !.text = text,
                                                       !.todo = published]]
    BY <1>5 DEF ReadInbox
  <2>2. PICK x : x = [NoMail EXCEPT !.kind = "inbox", !.text = text, !.todo = published]
    OBVIOUS
  <2>3. mail' = [mail EXCEPT ![t] = x] /\ x.id = 0
    BY <2>1, <2>2 DEF NoMail
  <2>4. UNCHANGED <<published, queued>>
    BY <1>5 DEF ReadInbox
  <2> QED
    BY <1>1, <1>2, <2>3, <2>4, ReadableTakes
<1>6. ASSUME NEW kind, NEW id \in published \cup {0}, Takes(t, kind, id, "text", TRUE),
             UNCHANGED <<published, queued>>
      PROVE  ReadableInv'
  <2>1. PICK x : x = [kind |-> kind, id |-> id, text |-> "text", todo |-> {}, acked |-> TRUE]
    OBVIOUS
  <2>2. mail' = [mail EXCEPT ![t] = x] /\ x.id = id
    BY <1>6, <2>1 DEF Takes
  <2> QED
    BY <1>1, <1>2, <1>6, <2>2, ReadableTakes
<1>7. CASE Receive(t)
  <2>1. PICK id \in published : Takes(t, "receive", id, "text", TRUE)
    BY <1>7 DEF Receive
  <2>2. UNCHANGED <<published, queued>>
    BY <1>7 DEF Receive
  <2> QED
    BY <1>6, <2>1, <2>2
<1>8. CASE MigrateCommand(t)
  <2>1. Takes(t, "migrate", 0, "text", TRUE) /\ UNCHANGED <<published, queued>>
    BY <1>8 DEF MigrateCommand
  <2> QED
    BY <1>6, <2>1
<1>9. CASE Retry(t)
  <2>1. PICK id \in queued : /\ published' = published \cup {id} /\ queued' = queued \ {id}
                             /\ Takes(t, "retry", id, "cipher", TRUE)
    BY <1>9 DEF Retry
  <2>2. PICK x : x = [kind |-> "retry", id |-> id, text |-> "cipher", todo |-> {}, acked |-> TRUE]
    OBVIOUS
  <2>3. mail' = [mail EXCEPT ![t] = x] /\ x.id = id
    BY <2>1, <2>2 DEF Takes
  <2> QED
    BY <1>1, <2>1, <2>3, ReadableTakes
<1> QED
  BY <1>4, <1>5, <1>7, <1>8, <1>9

\* StoreMessage puts a text only where the message yields it.
LEMMA StoreReadable ==
    ASSUME SqliteInv, MailInv, ReadableInv, NEW t \in Threads, Store(t)
    PROVE  ReadableInv'
<1>1. /\ UNCHANGED <<published, queued, yields, begun>> /\ begun \in Nat
      /\ history' = [history EXCEPT ![mail[t].id] =
                        IF Plaintext(t) = "empty" /\ @ # "absent" THEN @ ELSE Plaintext(t)]
  BY DEF Store, Executes, SqliteInv
<1>2. \A u \in Threads : mail'[u].id \in {mail[u].id, 0}
  <2>1. mail' \in {mail, [mail EXCEPT ![t] = NoMail]} /\ mail \in [Threads -> Mail]
    BY DEF Store, Stored, MailInv, MailsOK
  <2> QED
    BY <2>1 DEF NoMail
<1>3. \A u \in Threads : mail'[u].id \in 0 .. begun
  BY <1>1, <1>2 DEF ReadableInv
<1>4. history \in [Numbers -> Texts]
  BY DEF MailInv, HistoryOK
<1>5. ASSUME NEW id \in Numbers, history'[id] = "text" PROVE id <= begun /\ yields[id] = "text"
  <2>1. CASE history[id] = "text"
    BY <2>1 DEF ReadableInv
  <2>2. CASE history[id] # "text"
    <3>1. id = mail[t].id /\ Plaintext(t) = "text"
      BY <1>1, <1>4, <1>5, <2>2
    <3>2. mail[t].id \in 0 .. begun
      BY DEF ReadableInv
    <3> QED
      BY <1>1, <3>1, <3>2, PlaintextIs
  <2> QED
    BY <2>1, <2>2
<1> QED
  BY <1>1, <1>3, <1>5 DEF ReadableInv

\* The steps of the message commands and of the daemon.
LEMMA MessageReadable ==
    ASSUME SqliteInv, MailInv, ReadableInv, NEW t \in Threads, MessageStep(t)
    PROVE  ReadableInv'
<1>1. mail \in [Threads -> Mail] /\ begun \in Nat
  BY DEF MailInv, MailsOK, SqliteInv
<1>2. CASE SendQueued(t)
  <2>1. /\ begun' = begun + 1 /\ UNCHANGED <<history, yields, mail>>
        /\ published' \subseteq published \cup {begun'} /\ queued' = queued \cup {begun'}
    BY <1>2 DEF SendQueued, Publishes
  <2>2. begun' \in 1 .. begun' /\ begun' \in Nat /\ begun <= begun'
    BY <1>1, <2>1
  <2> QED
    BY <1>1, <2>1, <2>2, ReadableFrame
<1>3. CASE NextOfInbox(t)
  <2>1. UNCHANGED <<begun, history, yields, published, queued>>
    BY <1>3 DEF NextOfInbox, Reads
  <2>2. CASE mail' = [mail EXCEPT ![t] = NoMail]
    <3>1. NoMail.id = 0 /\ 0 \in 0 .. begun'
      BY <1>1, <2>1 DEF NoMail
    <3> QED
      BY <2>1, <2>2, <3>1, ReadableTakes
  <2>3. ASSUME NEW id \in mail[t].todo, mail' = [mail EXCEPT ![t].id = id, ![t].todo = @ \ {id}]
        PROVE  ReadableInv'
    <3>1. id \in published
      BY <2>3 DEF MailInv, MailsOK, MailHas
    <3>2. PICK x : x = [mail[t] EXCEPT !.id = id, !.todo = @ \ {id}]
      OBVIOUS
    <3>3. mail' = [mail EXCEPT ![t] = x]
      BY <1>1, <2>3, <3>2
    <3>4. x.id = id
      <4>1. mail[t] \in Mail
        BY <1>1
      <4> QED
        BY <3>2, <4>1 DEF Mail
    <3> QED
      BY <2>1, <3>1, <3>3, <3>4, ReadableTakes
  <2> QED
    BY <1>3, <2>2, <2>3 DEF NextOfInbox
<1>4. CASE OpenStore(t) \/ StoreKnown(t) \/ Migrate(t) \/ Rename(t)
  <2>1. UNCHANGED <<begun, history, yields, published, queued, mail>>
    BY <1>4 DEF OpenStore, Stat, StoreKnown, Migrate, Rename, Reads, Breaks, Executes, mailVars
  <2> QED
    BY <1>1, <2>1, ReadableFrame
<1>5. CASE StoreFails(t)
  <2>1. /\ UNCHANGED <<begun, history, yields, published, queued>>
        /\ mail' \in {mail, [mail EXCEPT ![t] = NoMail]}
    BY <1>5 DEF StoreFails, Stored, Reads, Breaks
  <2>2. \A u \in Threads : mail'[u].id \in {mail[u].id, 0}
    BY <1>1, <2>1 DEF NoMail
  <2>3. 0 \in 0 .. begun'
    BY <1>1, <2>1
  <2> QED
    BY <1>1, <2>1, <2>2, <2>3, ReadableFrame
<1> QED
  BY <1>2, <1>3, <1>4, <1>5, BeginReadable, StoreReadable DEF MessageStep

\* An event of another program has an id of its own.
LEMMA PeerReadable ==
    ASSUME SqliteInv, MailInv, ReadableInv, PeerSends
    PROVE  ReadableInv'
<1>1. /\ begun \in Nat /\ begun' = begun + 1 /\ UNCHANGED <<history, mail, queued>>
      /\ published' = published \cup {begun'}
  BY DEF PeerSends, SqliteInv
<1>2. PICK n \in Numbers : n = begun + 1
  BY NewNumber DEF PeerSends
<1>3. PICK what \in {"text", "cipher", "empty", "neither"} : yields' = [yields EXCEPT ![n] = what]
  BY <1>2 DEF PeerSends
<1>4. yields' \in [Numbers -> {"text", "cipher", "empty", "neither"}]
  BY <1>3 DEF ReadableInv
<1>5. ASSUME NEW id \in Numbers, history[id] = "text" PROVE id <= begun' /\ yields'[id] = "text"
  <2>1. id <= begun /\ yields[id] = "text" /\ id \in Nat
    BY <1>5 DEF ReadableInv, Numbers
  <2>2. id # n
    BY <1>1, <1>2, <2>1
  <2> QED
    BY <1>1, <1>3, <2>1, <2>2 DEF ReadableInv
<1>6. 1 .. begun \subseteq 1 .. begun' /\ 0 .. begun \subseteq 0 .. begun' /\ begun' \in 1 .. begun'
  BY <1>1
<1> QED
  BY <1>1, <1>4, <1>5, <1>6 DEF ReadableInv

-----------------------------------------------------------------------------
(* The chat screen.                                                        *)

ChatInv ==
    /\ screen \subseteq Numbers /\ handled \subseteq Numbers /\ told \subseteq Numbers
    /\ loaded \in [Workers -> SUBSET Numbers]
    /\ created \in [Numbers -> Times]
    /\ reads \in Nat /\ shown \in Nat /\ nth \in [Workers -> Nat]
    /\ NothingVanishes

\* What the steps of the chat screen do to the messages.
LEMMA ChatMailOK ==
    ASSUME SqliteInv, MailInv, NEW w \in Workers, ChatStep(w)
    PROVE  MailInv'
<1>1. /\ w \in Threads
      /\ mail \in [Threads -> Mail] /\ pc \in [Threads -> Places]
      /\ published \subseteq Numbers /\ queued \subseteq Numbers
  BY DEF MailInv, MailsOK, HistoryOK, SqliteInv, Threads
<1>2. PICK m \in Mail : m = mail[w] /\ MailHas(m) /\ MailAt(w, m)
  BY <1>1 DEF MailInv, MailsOK
<1>3. CASE OpenChat(w)
  <2>1. /\ Begins(w, "chat", "load") /\ mail' = [mail EXCEPT ![w] = m]
        /\ UNCHANGED <<file, migrated, history, published, queued, reported, unlucky>>
    BY <1>1, <1>2, <1>3 DEF OpenChat
  <2>2. MailHas(m)'
    BY <1>2, <2>1, MailHasMore
  <2> QED
    BY <1>1, <2>1, <2>2, BeginsMail
<1>4. CASE Submit(w)
  <2>1. PICK n : n = begun + 1
    OBVIOUS
  <2>2. n \in Numbers /\ n \in 0 .. MaxCommands
    <3>1. begun < MaxCommands
      BY <1>4 DEF Submit, Begins, Start
    <3>2. n \in Numbers
      BY <2>1, <3>1, NewNumber
    <3> QED
      BY <3>2, SqliteAssumption DEF Numbers
  <2>3. UNCHANGED <<file, migrated, history, queued, reported, unlucky>>
    BY <1>4 DEF Submit
  <2>4. ASSUME NEW acked \in BOOLEAN, Begins(w, "send", "open"), Publishes(n, acked),
               Takes(w, "send", n, "text", acked)
        PROVE  MailInv'
    <3>1. /\ published \subseteq published' /\ published' \subseteq Numbers
          /\ acked => n \in published'
      BY <1>1, <2>2, <2>4, PublishesMore
    <3> QED
      BY <1>1, <2>2, <2>3, <2>4, <3>1, TakesOK
  <2>5. CASE /\ Begins(w, "send", "sent") /\ Takes(w, "send", n, "text", FALSE)
             /\ UNCHANGED published
    BY <1>1, <2>2, <2>3, <2>5, TakesOK
  <2> QED
    BY <1>4, <2>1, <2>4, <2>5 DEF Submit
<1>5. CASE DeliverSent(w)
  <2>1. /\ mail' = [mail EXCEPT ![w] = NoMail]
        /\ UNCHANGED <<file, migrated, history, opened, published, queued, reported, unlucky>>
        /\ Goto(w, "idle") \/ Goto(w, "load")
    BY <1>5 DEF DeliverSent
  <2>2. MailHas(NoMail)
    BY SqliteAssumption DEF NoMail, Mail, MailHas
  <2>3. pc'[w] \notin MailWork /\ \A u \in Threads \ {w} : pc'[u] = pc[u]
    BY <1>1, <2>1 DEF Goto, MailWork
  <2>4. MailAt(w, NoMail)'
    BY <2>3, ElsewhereAt
  <2> QED
    BY <1>1, <2>1, <2>2, <2>3, <2>4, MailStepOK
<1>6. CASE Load(w) \/ LoadFails(w) \/ DeliverLoaded(w)
  <2>1. UNCHANGED mailVars
    BY <1>6 DEF Load, LoadFails, DeliverLoaded
  <2>2. \A u \in Threads : pc'[u] \in MailWork => pc'[u] = pc[u]
    BY <1>1, <1>6 DEF Load, LoadFails, DeliverLoaded, Goto, MailWork
  <2> QED
    BY <2>1, <2>2, MailFrame
<1> QED
  BY <1>3, <1>4, <1>5, <1>6 DEF ChatStep

\* What they do to the screen: the result of sendMessage is shown as an error,
\* unless a relay has acknowledged the message.
LEMMA ChatStepOK ==
    ASSUME SqliteInv, MailInv, ChatInv, NEW w \in Workers, ChatStep(w)
    PROVE  ChatInv'
<1>1. /\ w \in Threads /\ published \subseteq Numbers
      /\ history \in [Numbers -> Texts]
  BY DEF MailInv, HistoryOK, Threads
<1>2. PICK m \in Mail : m = mail[w] /\ MailHas(m) /\ MailAt(w, m)
  BY <1>1 DEF MailInv, MailsOK
<1>3. CASE OpenChat(w)
  BY <1>3 DEF OpenChat, ChatInv, NothingVanishes
<1>4. CASE Submit(w)
  <2>1. published \subseteq published'
    BY <1>4 DEF Submit, Publishes
  <2> QED
    BY <1>4, <2>1 DEF Submit, chatVars, ChatInv, NothingVanishes
<1>5. CASE DeliverSent(w)
  <2>1. m.kind = "send" /\ m.id \in Numbers /\ (m.acked => m.id \in published)
    BY <1>2, <1>5 DEF DeliverSent, MailAt, MailHas
  <2>2. /\ handled' = handled \cup {m.id}
        /\ told' = IF m.acked THEN told ELSE told \cup {m.id}
        /\ UNCHANGED <<published, screen, loaded, created, reads, nth, shown>>
    BY <1>2, <1>5 DEF DeliverSent, SendError
  <2> QED
    BY <2>1, <2>2 DEF ChatInv, NothingVanishes
<1>6. CASE Load(w)
  <2>1. PICK N \in Newest(InHistory) : loaded' = [loaded EXCEPT ![w] = N]
    BY <1>6 DEF Load
  <2>2. N \subseteq Numbers
    BY DEF Newest, InHistory
  <2>3. loaded' \in [Workers -> SUBSET Numbers]
    BY <2>1, <2>2 DEF ChatInv
  <2>4. reads' \in Nat /\ nth' \in [Workers -> Nat]
    BY <1>6 DEF Load, ChatInv
  <2> QED
    BY <1>6, <2>3, <2>4 DEF Load, mailVars, ChatInv, NothingVanishes
<1>7. CASE LoadFails(w)
  BY <1>7 DEF LoadFails, mailVars, ChatInv, NothingVanishes
<1>8. CASE DeliverLoaded(w)
  BY <1>8 DEF DeliverLoaded, mailVars, ChatInv, NothingVanishes
<1> QED
  BY <1>3, <1>4, <1>5, <1>6, <1>7, <1>8 DEF ChatStep

\* Other steps leave the screen alone.
LEMMA ChatFrame ==
    ASSUME ChatInv, UNCHANGED chatVars, published \subseteq published'
    PROVE  ChatInv'
BY DEF chatVars, ChatInv, NothingVanishes

\* A message that is submitted has a number of its own.
LEMMA ChatReadable ==
    ASSUME SqliteInv, MailInv, ReadableInv, NEW w \in Workers, ChatStep(w)
    PROVE  ReadableInv'
<1>1. w \in Threads /\ begun \in Nat /\ mail \in [Threads -> Mail]
  BY DEF SqliteInv, MailInv, MailsOK, Threads
<1>2. UNCHANGED <<history, yields, queued>>
  BY DEF ChatStep, OpenChat, Submit, DeliverSent, Load, LoadFails, DeliverLoaded, mailVars
<1>3. CASE OpenChat(w)
  <2>1. begun' = begun + 1 /\ UNCHANGED <<published, mail>>
    BY <1>3 DEF OpenChat, Begins, Start
  <2> QED
    BY <1>1, <1>2, <2>1, ReadableFrame
<1>4. CASE Submit(w)
  <2>1. begun' = begun + 1
    BY <1>4 DEF Submit, Begins, Start
  <2>2. PICK n : n = begun'
    OBVIOUS
  <2>3. n \in 1 .. begun' /\ n \in 0 .. begun'
    BY <1>1, <2>1, <2>2
  <2>4. PICK acked : Takes(w, "send", n, "text", acked) /\ published' \subseteq published \cup {n}
    BY <1>4, <2>1, <2>2 DEF Submit, Publishes
  <2>5. PICK x : x = [kind |-> "send", id |-> n, text |-> "text", todo |-> {}, acked |-> acked]
    OBVIOUS
  <2>6. mail' = [mail EXCEPT ![w] = x] /\ x.id = n
    BY <2>4, <2>5 DEF Takes
  <2> QED
    BY <1>1, <1>2, <2>1, <2>3, <2>4, <2>6, ReadableTakes
<1>5. CASE DeliverSent(w)
  <2>1. UNCHANGED <<begun, published>> /\ mail' = [mail EXCEPT ![w] = NoMail]
    BY <1>5 DEF DeliverSent, Reads
  <2>2. NoMail.id = 0 /\ 0 \in 0 .. begun'
    BY <1>1, <2>1 DEF NoMail
  <2> QED
    BY <1>1, <1>2, <2>1, <2>2, ReadableTakes
<1>6. CASE Load(w) \/ LoadFails(w) \/ DeliverLoaded(w)
  <2>1. UNCHANGED <<begun, published, mail>>
    BY <1>6 DEF Load, LoadFails, DeliverLoaded, Reads, Breaks, mailVars
  <2> QED
    BY <1>1, <1>2, <2>1, ReadableFrame
<1> QED
  BY <1>3, <1>4, <1>5, <1>6 DEF ChatStep

\* What ends with a process.
LEMMA EndsMail ==
    ASSUME SqliteInv, MailInv, NEW p \in Processes, Ends(p), MessageEnds(p)
    PROVE  MailInv'
<1> DEFINE gone == {t \in Threads : Process(t) = p}
<1>1. /\ pc' = [t \in Threads |-> IF t \in gone THEN "idle" ELSE pc[t]]
      /\ mail' = [t \in Threads |-> IF t \in gone THEN NoMail ELSE mail[t]]
      /\ opened' = [opened EXCEPT ![p] = "closed"]
      /\ UNCHANGED <<file, migrated, history, published, queued, reported, unlucky>>
  BY DEF Ends, MessageEnds
<1>2. \A t \in Threads : t \notin gone => Process(t) # p
  OBVIOUS
<1> HIDE DEF gone
<1>3. NoMail \in Mail /\ MailHas(NoMail)
  BY SqliteAssumption DEF NoMail, Mail, MailHas
<1>4. mail \in [Threads -> Mail] /\ opened \in [Processes -> {"closed", "open"} \cup Causes]
  BY DEF MailInv, MailsOK, HistoryOK
<1>5. ASSUME NEW u \in Threads PROVE MailHas(mail[u])' /\ MailAt(u, mail[u])'
  <2>1. CASE u \in gone
    <3>1. mail'[u] = NoMail /\ pc'[u] = "idle"
      BY <1>1, <2>1
    <3>2. MailHas(NoMail)' /\ MailAt(u, NoMail)'
      BY <1>1, <1>3, <3>1, MailHasMore, ElsewhereAt DEF MailWork
    <3> QED
      BY <3>1, <3>2
  <2>2. CASE u \notin gone
    <3>1. PICK m : m = mail[u]
      OBVIOUS
    <3>2. MailHas(m) /\ MailAt(u, m) /\ mail'[u] = m
      BY <1>1, <2>2, <3>1 DEF MailInv, MailsOK
    <3>3. MailHas(m)'
      BY <1>1, <3>2, MailHasMore
    <3>4. pc'[u] = pc[u] /\ opened'[Process(u)] = opened[Process(u)]
      BY <1>1, <1>2, <1>4, <2>2 DEF Process, Processes, Threads
    <3>5. MailAt(u, m)'
      BY <1>1, <3>2, <3>4 DEF MailAt
    <3> QED
      BY <3>2, <3>3, <3>5
  <2> QED
    BY <2>1, <2>2
<1>6. mail' \in [Threads -> Mail]
  BY <1>1, <1>3, <1>4
<1>7. opened' \in [Processes -> {"closed", "open"} \cup Causes]
  BY <1>1, <1>4
<1> QED
  BY <1>1, <1>5, <1>6, <1>7 DEF MailInv, MailsOK, HistoryOK, SentIsStored

\* Nor is a text lost with it.
LEMMA EndsReadable ==
    ASSUME SqliteInv, ReadableInv, NEW p, Ends(p), MessageEnds(p)
    PROVE  ReadableInv'
<1>1. UNCHANGED <<begun, history, yields, published, queued>> /\ begun \in Nat
  BY DEF Ends, MessageEnds, SqliteInv
<1>2. \A t \in Threads : mail'[t].id \in {mail[t].id, 0}
  BY DEF MessageEnds, NoMail
<1>3. 0 \in 0 .. begun'
  BY <1>1
<1> QED
  BY <1>1, <1>2, <1>3, ReadableFrame

-----------------------------------------------------------------------------
(* What the audit log is told.                                             *)

\* Of groups and messages it is told the truth.
Told(fact) ==
    /\ fact \in Facts
    /\ fact.what = "created" => \E m \in made : m.group = fact.id
    /\ fact.what = "added"   => <<fact.id, fact.npub>> \in ever
    /\ fact.what = "removed" => <<fact.id, fact.npub>> \in left
    /\ fact.what \in {"sent", "received"} => fact.id \in published

\* What is logged, and what has been, with where a thread goes on afterwards.
FactInv ==
    /\ \A t \in Threads : Told(entry[t].fact) /\ entry[t].then \in {"idle", "inbox"}
    /\ \A row \in written : Told(row.fact)
    /\ tampered \in 0 .. MaxTampers

\* Nothing of what makes it true is ever taken back.
More ==
    /\ made \subseteq made' /\ ever \subseteq ever' /\ left \subseteq left'
    /\ published \subseteq published'

\* So that it stays true.
LEMMA ToldMore ==
    ASSUME More, NEW fact, Told(fact)
    PROVE  Told(fact)'
BY DEF More, Told

\* A thread that logs nothing has an entry that says nothing.
LEMMA NothingTold == Told(NoEntry.fact) /\ NoEntry.then = "idle"
BY SqliteAssumption DEF NoEntry, Forged, Told, Facts

\* Initially nothing is logged.
LEMMA InitFacts == Init => FactInv
BY NothingTold, AuditAssumption DEF Init, AuditInit, FactInv

\* A step that logs nothing.
LEMMA FactFrame ==
    ASSUME FactInv, More, UNCHANGED <<entry, written>>,
           UNCHANGED tampered \/ tampered' \in 0 .. MaxTampers
    PROVE  FactInv'
BY ToldMore DEF FactInv

\* A step of t that logs a fact.
LEMMA LogFact ==
    ASSUME FactInv, Shape, More, NEW t \in Threads, NEW fact, NEW place \in {"idle", "inbox"},
           Log(t, fact, place), Told(fact)'
    PROVE  FactInv'
<1>1. /\ entry' = [entry EXCEPT ![t] = [fact |-> fact, then |-> place]]
      /\ written' = written /\ tampered' = tampered
  BY DEF Log
<1>2. entry'[t].fact = fact /\ entry'[t].then = place
  BY <1>1 DEF Shape
<1>3. \A u \in Threads \ {t} : entry'[u] = entry[u]
  BY <1>1 DEF Shape
<1>4. ASSUME NEW u \in Threads
      PROVE  Told(entry[u].fact)' /\ entry'[u].then \in {"idle", "inbox"}
  <2>1. PICK e : e = entry'[u].fact
    OBVIOUS
  <2>2. CASE u = t
    BY <1>2, <2>1, <2>2
  <2>3. CASE u # t
    <3>1. Told(e) /\ entry'[u].then \in {"idle", "inbox"}
      BY <1>3, <2>1, <2>3 DEF FactInv
    <3>2. Told(e)'
      BY <3>1, ToldMore
    <3> QED
      BY <2>1, <3>1, <3>2
  <2> QED
    BY <2>2, <2>3
<1>5. ASSUME NEW row \in written PROVE Told(row.fact)'
  BY ToldMore DEF FactInv
<1> QED
  BY <1>1, <1>4, <1>5 DEF FactInv

\* The steps of LogAction: what a row says was to be logged.
LEMMA LogStepFact ==
    ASSUME FactInv, Shape, NEW t \in Threads, LogStep(t), UNCHANGED <<groupVars, mailVars>>
    PROVE  FactInv'
<1>1. More
  BY DEF More, groupVars, mailVars
<1>2. CASE ReadTail(t)
  BY <1>1, <1>2, FactFrame DEF ReadTail
<1>3. CASE ReadFails(t) \/ Insert(t) \/ InsertFails(t)
  <2>1. entry' = [entry EXCEPT ![t] = NoEntry]
    BY <1>3 DEF ReadFails, Insert, InsertFails, Returns
  <2>2. ASSUME NEW u \in Threads
        PROVE  Told(entry[u].fact)' /\ entry'[u].then \in {"idle", "inbox"}
    <3>1. PICK e : e = entry'[u]
      OBVIOUS
    <3>2. e \in {entry[u], NoEntry}
      BY <2>1, <3>1 DEF Shape
    <3>3. Told(e.fact) /\ e.then \in {"idle", "inbox"}
      BY <3>2, NothingTold DEF FactInv
    <3>4. Told(e.fact)'
      BY <1>1, <3>3, ToldMore
    <3> QED
      BY <3>1, <3>3, <3>4
  <2>3. ASSUME NEW row \in written' PROVE Told(row.fact)'
    <3>1. CASE row \in written
      BY <1>1, <3>1, ToldMore DEF FactInv
    <3>2. CASE row \notin written
      <4>1. row.fact = entry[t].fact
        BY <1>3, <3>2 DEF ReadFails, Insert, InsertFails, Adds, Row
      <4>2. Told(row.fact)
        BY <4>1 DEF FactInv
      <4> QED
        BY <1>1, <4>2, ToldMore
    <3> QED
      BY <3>1, <3>2
  <2>4. tampered' = tampered
    BY <1>3 DEF ReadFails, Insert, InsertFails, Adds
  <2> QED
    BY <2>2, <2>3, <2>4 DEF FactInv
<1> QED
  BY <1>2, <1>3 DEF LogStep

\* What ends with a process is not logged.
LEMMA EndsFact ==
    ASSUME FactInv, NEW p, AuditEnds(p), More
    PROVE  FactInv'
<1>1. /\ entry' = [t \in Threads |-> IF Process(t) = p THEN NoEntry ELSE entry[t]]
      /\ written' = written /\ tampered' = tampered
  BY DEF AuditEnds
<1>2. ASSUME NEW u \in Threads
      PROVE  Told(entry[u].fact)' /\ entry'[u].then \in {"idle", "inbox"}
  <2>1. PICK e : e = entry'[u]
    OBVIOUS
  <2>2. e \in {entry[u], NoEntry}
    BY <1>1, <2>1
  <2>3. Told(e.fact) /\ e.then \in {"idle", "inbox"}
    BY <2>2, NothingTold DEF FactInv
  <2>4. Told(e.fact)'
    BY <2>3, ToldMore
  <2> QED
    BY <2>1, <2>3, <2>4
<1> QED
  BY <1>1, <1>2, ToldMore DEF FactInv

\* The group commands log the groups created, and who was added or has left.
LEMMA GroupStepFact ==
    ASSUME SqliteInv, GroupInv, FactInv, Shape, UNCHANGED published,
           NEW t \in Threads, GroupStep(t)
    PROVE  FactInv'
<1>1. PICK x \in Task : x = task[t]
  BY DEF GroupInv
<1>2. GroupAt(t, x.group)
  BY <1>1 DEF GroupInv
<1>3. CASE GroupCreated(t)
  <2>1. /\ Log(t, GroupFact(t, "created", "none"), "idle")
        /\ made' = made \cup {[group |-> x.group, with |-> {n \in Npubs : <<x.group, n>> \in ever}]}
        /\ UNCHANGED <<ever, left>>
    BY <1>1, <1>3 DEF GroupCreated
  <2>2. PICK f : f = GroupFact(t, "created", "none")
    OBVIOUS
  <2>3. f = [what |-> "created", id |-> x.group, npub |-> "none"]
    BY <1>1, <2>2 DEF GroupFact
  <2>4. f \in Facts
    BY <2>3 DEF Facts, Task
  <2>5. More
    BY <2>1 DEF More
  <2>6. Told(f)'
    <3>1. PICK m : m = [group |-> x.group, with |-> {n \in Npubs : <<x.group, n>> \in ever}]
      OBVIOUS
    <3>2. m \in made' /\ m.group = x.group
      BY <2>1, <3>1
    <3>3. f.what = "created" /\ f.id = x.group
      BY <2>3
    <3> QED
      BY <2>4, <3>2, <3>3 DEF Told
  <2> QED
    BY <2>1, <2>2, <2>5, <2>6, LogFact
<1>4. CASE Touch(t)
  <2>1. PICK npub \in x.todo : Log(t, GroupFact(t, x.what, npub), "idle")
    BY <1>1, <1>4 DEF Touch
  <2>2. PICK f : f = GroupFact(t, x.what, npub)
    OBVIOUS
  <2>3. f = [what |-> x.what, id |-> x.group, npub |-> npub]
    BY <1>1, <2>2 DEF GroupFact
  <2>4. /\ x.what \in {"added", "removed"}
        /\ IF x.what = "added" THEN <<x.group, npub>> \in ever ELSE <<x.group, npub>> \in left
    <3>1. pc[t] = "touch" /\ ChangingAt(t, x.group)
      BY <1>2, <1>4 DEF Touch, GroupAt
    <3>2. /\ x.what \in {"added", "removed"}
          /\ \A n \in x.todo : IF x.what = "added" THEN <<x.group, n>> \in ever
                                ELSE <<x.group, n>> \in left
      BY <1>1, <3>1 DEF ChangingAt
    <3> QED
      BY <2>1, <3>2
  <2>5. f \in Facts
    BY <2>1, <2>3, <2>4 DEF Facts, Task
  <2>6. Told(f)
    BY <2>3, <2>4, <2>5 DEF Told
  <2>7. More
    BY <1>4 DEF Touch, More
  <2>8. Told(f)'
    BY <2>6, <2>7, ToldMore
  <2> QED
    BY <2>1, <2>2, <2>7, <2>8, LogFact
<1>5. CASE ~GroupCreated(t) /\ ~Touch(t)
  <2>1. UNCHANGED auditVars
    BY <1>5 DEF GroupStep, CreateGroup, InsertGroup, InsertMember, MemberExists, FindToAdd,
                FindToLeave, Find, InsertOrIgnore, DeleteMember, StatementFails, Fails
  <2>2. UNCHANGED <<made>> /\ ever \subseteq ever' /\ left \subseteq left'
    <3>1. CASE InsertOrIgnore(t)
      BY <3>1 DEF InsertOrIgnore
    <3>2. CASE InsertMember(t)
      BY <3>2 DEF InsertMember
    <3>3. CASE ~InsertOrIgnore(t) /\ ~InsertMember(t)
      BY <1>5, <3>3 DEF GroupStep, CreateGroup, InsertGroup, MemberExists, FindToAdd,
                FindToLeave, Find, DeleteMember, StatementFails, Fails
    <3> QED
      BY <3>1, <3>2, <3>3
  <2> QED
    BY <2>1, <2>2, FactFrame DEF More, auditVars
<1> QED
  BY <1>3, <1>4, <1>5

\* The message commands log what is on a relay.
LEMMA StoredFact ==
    ASSUME SqliteInv, MailInv, FactInv, Shape, UNCHANGED groupVars,
           NEW t \in Threads, Store(t) \/ StoreFails(t)
    PROVE  FactInv'
<1>1. PICK m \in Mail : m = mail[t]
  BY DEF MailInv, MailsOK
<1>2. MailHas(m) /\ MailAt(t, m)
  BY <1>1 DEF MailInv, MailsOK
<1>3. Stored(t) /\ pc[t] = "store" /\ UNCHANGED published
  BY DEF Store, StoreFails
<1>4. More
  BY <1>3 DEF More, groupVars
<1>5. ASSUME NEW what \in {"sent", "received", "replied"}, NEW place \in {"idle", "inbox"},
             Log(t, MessageFact(t, what), place),
             what \in {"sent", "received"} => m.id \in published
      PROVE  FactInv'
  <2>1. PICK f : f = MessageFact(t, what)
    OBVIOUS
  <2>2. f = [what |-> what, id |-> m.id, npub |-> "none"]
    BY <1>1, <2>1 DEF MessageFact
  <2>3. f \in Facts
    BY <2>2 DEF Facts, Mail
  <2>4. Told(f)
    BY <1>5, <2>2, <2>3 DEF Told
  <2>5. Told(f)'
    BY <1>4, <2>4, ToldMore
  <2> QED
    BY <1>4, <1>5, <2>1, <2>5, LogFact
<1>6. CASE m.kind = "msg"
  <2>1. Log(t, MessageFact(t, "sent"), "idle") /\ m.id \in published
    BY <1>1, <1>2, <1>3, <1>6 DEF Stored, MailHas
  <2> QED
    BY <1>5, <2>1
<1>7. CASE m.kind = "inbox"
  <2>1. Log(t, MessageFact(t, "received"), "inbox")
    BY <1>1, <1>3, <1>7 DEF Stored
  <2>2. m.id \in published
    BY <1>2, <1>3, <1>7 DEF MailAt, MailWork
  <2> QED
    BY <1>5, <2>1, <2>2
<1>8. CASE m.kind = "reply"
  <2>1. Log(t, MessageFact(t, "replied"), "idle")
    BY <1>1, <1>3, <1>8 DEF Stored
  <2> QED
    BY <1>5, <2>1
<1>9. CASE m.kind \notin {"msg", "inbox", "reply"}
  <2>1. UNCHANGED auditVars
    BY <1>1, <1>3, <1>9 DEF Stored
  <2> QED
    BY <1>4, <2>1, FactFrame DEF auditVars
<1> QED
  BY <1>6, <1>7, <1>8, <1>9

\* The rest of them logs nothing.
LEMMA MessageStepFact ==
    ASSUME SqliteInv, MailInv, FactInv, Shape, UNCHANGED groupVars,
           NEW t \in Threads, MessageStep(t)
    PROVE  FactInv' /\ published \subseteq published'
<1>1. CASE Store(t) \/ StoreFails(t)
  BY <1>1, StoredFact DEF Store, StoreFails
<1>2. CASE ~(Store(t) \/ StoreFails(t))
  <2>1. published \subseteq published'
    BY <1>2 DEF MessageStep, Send, SendQueued, ReadInbox, Retry, MigrateCommand, Receive, Reply,
                NextOfInbox, OpenStore, StoreKnown, Migrate, Rename, Publishes, mailVars
  <2>2. UNCHANGED auditVars
    BY <1>2 DEF MessageStep, Send, SendQueued, ReadInbox, Retry, MigrateCommand, Receive, Reply,
                NextOfInbox, OpenStore, StoreKnown, Migrate, Rename
  <2> QED
    BY <2>1, <2>2, FactFrame DEF More, groupVars, auditVars
<1> QED
  BY <1>1, <1>2

\* Nor do the steps of the chat screen.
LEMMA ChatStepFact ==
    ASSUME FactInv, UNCHANGED groupVars, NEW w \in Workers, ChatStep(w)
    PROVE  FactInv' /\ published \subseteq published'
<1>1. published \subseteq published' /\ UNCHANGED auditVars
  BY DEF ChatStep, OpenChat, Submit, DeliverSent, Load, LoadFails, DeliverLoaded, Publishes, mailVars
<1> QED
  BY <1>1, FactFrame DEF More, groupVars, auditVars

-----------------------------------------------------------------------------
(* Profiles.                                                               *)

ProfileTypes ==
    /\ relayHas \in [Relays -> 0 .. MaxCommands]
    /\ local \in 0 .. MaxCommands
    /\ got \in [Threads -> 0 .. MaxCommands]
    /\ reached \in [Threads -> SUBSET Relays]

ProfileWork == {"publish", "discover", "found"}

\* All relays have the version v.
AllHave(v) == \A r \in Relays : relayHas[r] = v

\* A discover that nothing has interfered with is the only profile command, the
\* relays agree, and what it has to store or has stored is what they have.
AgreedAt(t) ==
    /\ t \in Shells
    /\ pc[t] \in {"discover", "found"}
    /\ \A u \in Threads \ {t} : pc[u] \notin ProfileWork
    /\ \A r, s \in Relays : relayHas[r] = relayHas[s]
    /\ pc[t] = "found" => AllHave(got[t])
    /\ pc[t] = "discover" /\ reached[t] # {} => \A r \in Relays : relayHas[r] \in {0, local}

ProfileInv == ProfileTypes /\ \A t \in agreed : AgreedAt(t)

\* Initially no relay has a profile.
LEMMA InitProfiles == Init => ProfileInv
BY SqliteAssumption DEF Init, ProfileInit, ProfileInv, ProfileTypes

\* A step that is no profile command's and takes no thread into one or out of it.
LEMMA ProfileFrame ==
    ASSUME ProfileInv, UNCHANGED profileVars,
           \A u \in Threads : pc'[u] \in ProfileWork \/ pc[u] \in ProfileWork => pc'[u] = pc[u]
    PROVE  ProfileInv'
<1>1. UNCHANGED <<relayHas, local, got, reached, agreed>>
  BY DEF profileVars
<1>2. ASSUME NEW t \in agreed PROVE AgreedAt(t)'
  <2>1. AgreedAt(t) /\ t \in Threads
    BY DEF ProfileInv, AgreedAt, Threads
  <2>2. pc'[t] = pc[t]
    BY <2>1 DEF AgreedAt, ProfileWork
  <2> QED
    BY <1>1, <2>1, <2>2 DEF AgreedAt, AllHave
<1> QED
  BY <1>1, <1>2 DEF ProfileInv, ProfileTypes

\* The steps of profile publish: they interfere with every discover.
LEMMA PublishOK ==
    ASSUME SqliteInv, ProfileInv, NEW t \in Shells,
           Publish(t) \/ StorePublished(t) \/ \E r \in Relays : PublishTo(t, r)
    PROVE  ProfileInv'
<1>1. /\ t \in Threads /\ pc \in [Threads -> Places]
      /\ relayHas \in [Relays -> 0 .. MaxCommands] /\ local \in 0 .. MaxCommands
      /\ got \in [Threads -> 0 .. MaxCommands] /\ got[t] \in 0 .. MaxCommands
      /\ reached \in [Threads -> SUBSET Relays]
  BY DEF SqliteInv, ProfileInv, ProfileTypes, Threads
<1>2. CASE Publish(t)
  <2>1. PICK n : n = begun + 1
    OBVIOUS
  <2>2. n \in 0 .. MaxCommands
    <3>1. begun < MaxCommands
      BY <1>2 DEF Publish, Begin, Start
    <3>2. n \in Numbers
      BY <2>1, <3>1, NewNumber
    <3> QED
      BY <3>2, SqliteAssumption DEF Numbers
  <2>3. /\ agreed' = {} /\ got' = [got EXCEPT ![t] = n]
        /\ reached' = [reached EXCEPT ![t] = {}]
        /\ UNCHANGED <<relayHas, local>>
    BY <1>2, <2>1 DEF Publish, Begin
  <2> QED
    BY <1>1, <2>2, <2>3 DEF ProfileInv, ProfileTypes
<1>3. ASSUME pc[t] = "publish" PROVE agreed = {}
  BY <1>1, <1>3 DEF ProfileInv, AgreedAt, ProfileWork
<1>4. CASE StorePublished(t)
  <2>1. agreed' = {} /\ relayHas' = relayHas
    BY <1>3, <1>4 DEF StorePublished
  <2>2. /\ local' \in {local, got[t]}
        /\ got' = [got EXCEPT ![t] = 0]
        /\ reached' = [reached EXCEPT ![t] = {}]
    BY <1>4 DEF StorePublished, StoreProfile, Done
  <2>3. local' \in 0 .. MaxCommands
    BY <1>1, <2>2
  <2>4. got' \in [Threads -> 0 .. MaxCommands]
    BY <1>1, <2>2, SqliteAssumption
  <2>5. reached' \in [Threads -> SUBSET Relays]
    BY <1>1, <2>2
  <2> QED
    BY <1>1, <2>1, <2>3, <2>4, <2>5 DEF ProfileInv, ProfileTypes
<1>5. ASSUME NEW r \in Relays, PublishTo(t, r) PROVE ProfileInv'
  <2>1. agreed' = {} /\ UNCHANGED <<local, got>>
    BY <1>3, <1>5 DEF PublishTo
  <2>2. /\ relayHas' \in {relayHas, [relayHas EXCEPT ![r] = Newer(@, got[t])]}
        /\ reached' \in {reached, [reached EXCEPT ![t] = @ \cup {r}]}
    BY <1>5 DEF PublishTo
  <2>3. relayHas' \in [Relays -> 0 .. MaxCommands]
    BY <1>1, <2>2 DEF Newer
  <2>4. reached' \in [Threads -> SUBSET Relays]
    BY <1>1, <2>2
  <2> QED
    BY <1>1, <2>1, <2>3, <2>4 DEF ProfileInv, ProfileTypes
<1> QED
  BY <1>2, <1>4, <1>5

\* The steps of profile discover.
LEMMA DiscoverOK ==
    ASSUME SqliteInv, ProfileInv, NEW t \in Shells,
           Discover(t) \/ StoreFound(t) \/ DiscoverDone(t) \/ \E r \in Relays : DiscoverAt(t, r)
    PROVE  ProfileInv'
<1>1. /\ t \in Threads /\ pc \in [Threads -> Places]
      /\ relayHas \in [Relays -> 0 .. MaxCommands] /\ local \in 0 .. MaxCommands
      /\ got \in [Threads -> 0 .. MaxCommands] /\ got[t] \in 0 .. MaxCommands
      /\ reached \in [Threads -> SUBSET Relays]
      /\ 0 \in 0 .. MaxCommands
  BY SqliteAssumption DEF SqliteInv, ProfileInv, ProfileTypes, Threads
<1>2. CASE Discover(t)
  <2>1. /\ got' = [got EXCEPT ![t] = 0] /\ reached' = [reached EXCEPT ![t] = {}]
        /\ UNCHANGED <<relayHas, local>>
        /\ pc' = [pc EXCEPT ![t] = "discover"]
        /\ agreed' = IF /\ \A u \in Threads : pc[u] \notin ProfileJobs
                        /\ \A r, s \in Relays : relayHas[r] = relayHas[s]
                     THEN {t} ELSE {}
    BY <1>2 DEF Discover, Begin, Start, Goto
  <2>2. ProfileTypes'
    BY <1>1, <2>1 DEF ProfileTypes
  <2>3. ASSUME NEW u \in agreed' PROVE AgreedAt(u)'
    <3>1. /\ u = t
          /\ \A v \in Threads : pc[v] \notin ProfileJobs
          /\ \A r, s \in Relays : relayHas[r] = relayHas[s]
      BY <2>1
    <3>2. pc'[u] = "discover" /\ reached'[u] = {}
      BY <1>1, <2>1, <3>1
    <3>3. \A v \in Threads \ {t} : pc'[v] \notin ProfileWork
      BY <1>1, <2>1, <3>1 DEF ProfileWork, ProfileJobs
    <3> QED
      BY <2>1, <3>1, <3>2, <3>3 DEF AgreedAt
  <2> QED
    BY <2>2, <2>3 DEF ProfileInv
<1>3. CASE DiscoverDone(t)
  <2>1. /\ got' = [got EXCEPT ![t] = 0] /\ reached' = [reached EXCEPT ![t] = {}]
        /\ UNCHANGED <<relayHas, local>> /\ agreed' = agreed \ {t}
        /\ pc[t] = "discover"
    BY <1>3 DEF DiscoverDone, Done
  <2>2. ProfileTypes'
    BY <1>1, <2>1 DEF ProfileTypes
  <2>3. agreed' = {}
    BY <1>1, <2>1 DEF ProfileInv, AgreedAt, ProfileWork
  <2> QED
    BY <2>2, <2>3 DEF ProfileInv
<1>4. ASSUME pc[t] \in {"discover", "found"} PROVE agreed \subseteq {t}
  BY <1>1, <1>4 DEF ProfileInv, AgreedAt, ProfileWork
<1>5. CASE StoreFound(t)
  <2>1. /\ UNCHANGED <<relayHas, got, reached>>
        /\ pc[t] = "found" /\ pc' = [pc EXCEPT ![t] = "discover"]
        /\ \/ local' = got[t] /\ agreed' = agreed
           \/ local' = local /\ agreed' = agreed \ {t}
    BY <1>5 DEF StoreFound, StoreProfile, Goto
  <2>2. ProfileTypes'
    BY <1>1, <2>1 DEF ProfileTypes
  <2>3. ASSUME NEW u \in agreed' PROVE AgreedAt(u)'
    <3>1. u = t /\ local' = got[t] /\ AgreedAt(t)
      BY <1>4, <2>1 DEF ProfileInv
    <3>2. \A r \in Relays : relayHas'[r] = local'
      BY <2>1, <3>1 DEF AgreedAt, AllHave
    <3>3. /\ pc'[t] = "discover"
          /\ \A v \in Threads \ {t} : pc'[v] = pc[v]
      BY <1>1, <2>1
    <3> QED
      BY <2>1, <3>1, <3>2, <3>3 DEF AgreedAt
  <2> QED
    BY <2>2, <2>3 DEF ProfileInv
<1>6. ASSUME NEW r \in Relays, DiscoverAt(t, r) PROVE ProfileInv'
  <2>1. /\ pc[t] = "discover" /\ UNCHANGED <<relayHas, local, agreed>>
        /\ \/ UNCHANGED <<pc, got, reached>>
           \/ /\ reached' = [reached EXCEPT ![t] = @ \cup {r}]
              /\ got' = [got EXCEPT ![t] = relayHas[r]]
              /\ IF relayHas[r] = 0 THEN UNCHANGED pc ELSE pc' = [pc EXCEPT ![t] = "found"]
    BY <1>6 DEF DiscoverAt, Goto
  <2>2. ProfileTypes'
    BY <1>1, <2>1 DEF ProfileTypes
  <2>3. ASSUME NEW u \in agreed' PROVE AgreedAt(u)'
    <3>1. u = t /\ AgreedAt(t)
      BY <1>4, <2>1 DEF ProfileInv
    <3>2. CASE UNCHANGED <<pc, got, reached>>
      BY <2>1, <3>1, <3>2 DEF AgreedAt, AllHave
    <3>3. CASE relayHas[r] = 0 /\ UNCHANGED pc
      BY <2>1, <3>1, <3>3 DEF AgreedAt, AllHave
    <3>4. CASE /\ pc' = [pc EXCEPT ![t] = "found"] /\ got' = [got EXCEPT ![t] = relayHas[r]]
      <4>1. got'[t] = relayHas[r] /\ pc'[t] = "found" /\ \A v \in Threads \ {t} : pc'[v] = pc[v]
        BY <1>1, <3>4
      <4>2. \A s \in Relays : relayHas'[s] = got'[t]
        BY <2>1, <3>1, <4>1 DEF AgreedAt
      <4> QED
        BY <2>1, <3>1, <4>1, <4>2 DEF AgreedAt, AllHave
    <3> QED
      BY <2>1, <3>2, <3>3, <3>4
  <2> QED
    BY <2>2, <2>3 DEF ProfileInv
<1> QED
  BY <1>2, <1>3, <1>5, <1>6

\* Together.
LEMMA ProfileStepOK ==
    ASSUME SqliteInv, ProfileInv, NEW t \in Shells, ProfileStep(t)
    PROVE  ProfileInv'
BY PublishOK, DiscoverOK DEF ProfileStep

\* What ends with a process.
LEMMA EndsProfile ==
    ASSUME SqliteInv, ProfileInv, NEW p \in Processes, Ends(p),
           ProfileEnds(p) \/ (p = "resident" /\ UNCHANGED profileVars)
    PROVE  ProfileInv'
<1>1. pc' = [t \in Threads |-> IF Process(t) = p THEN "idle" ELSE pc[t]]
  BY DEF Ends
<1>2. \A t \in Threads : pc'[t] \in ProfileWork => pc[t] \in ProfileWork
  BY <1>1 DEF ProfileWork
<1>3. \A t \in agreed : t \in Shells /\ t \in Threads /\ Process(t) = t
  BY SqliteAssumption DEF ProfileInv, AgreedAt, Process, Threads
<1>4. /\ UNCHANGED <<relayHas, local>>
      /\ agreed' \subseteq {t \in agreed : Process(t) # p}
      /\ got' = [t \in Threads |-> IF Process(t) = p /\ ProfileEnds(p) THEN 0 ELSE got[t]]
      /\ reached' = [t \in Threads |-> IF Process(t) = p /\ ProfileEnds(p) THEN {} ELSE reached[t]]
  <2>1. CASE ProfileEnds(p)
    BY <2>1 DEF ProfileEnds
  <2>2. CASE p = "resident" /\ UNCHANGED profileVars /\ ~ProfileEnds(p)
    <3>1. \A t \in agreed : Process(t) # p
      BY <1>3, <2>2, SqliteAssumption
    <3>2. got = [t \in Threads |-> got[t]] /\ reached = [t \in Threads |-> reached[t]]
      BY DEF ProfileInv, ProfileTypes
    <3> QED
      BY <2>2, <3>1, <3>2 DEF profileVars
  <2> QED
    BY <2>1, <2>2
<1>5. ProfileTypes'
  BY <1>4, SqliteAssumption DEF ProfileInv, ProfileTypes
<1>6. ASSUME NEW t \in agreed' PROVE AgreedAt(t)'
  <2>1. t \in agreed /\ Process(t) # p /\ t \in Threads /\ AgreedAt(t)
    BY <1>3, <1>4 DEF ProfileInv
  <2>2. pc'[t] = pc[t] /\ got'[t] = got[t] /\ reached'[t] = reached[t]
    BY <1>1, <1>4, <2>1
  <2> QED
    BY <1>2, <1>4, <2>1, <2>2 DEF AgreedAt, AllHave
<1> QED
  BY <1>5, <1>6 DEF ProfileInv

-----------------------------------------------------------------------------
(* The parts together.                                                     *)

TablesInv ==
    /\ LogInv
    /\ SqliteInv
    /\ GroupInv
    /\ MailInv
    /\ ReadableInv
    /\ ChatInv
    /\ FactInv
    /\ ProfileInv

\* A step of a module starts at one of its places.
LEMMA StartsAt ==
    ASSUME NEW t
    PROVE  /\ GroupStep(t) => pc[t] \notin ProfileWork
           /\ MessageStep(t) \/ ChatStep(t) => pc[t] \notin ProfileWork
<1>1. ASSUME GroupStep(t) PROVE pc[t] \notin ProfileWork
  BY <1>1 DEF GroupStep, CreateGroup, InsertGroup, InsertMember, MemberExists, GroupCreated,
              FindToAdd, FindToLeave, Find, InsertOrIgnore, DeleteMember, Touch, StatementFails,
              Start, ProfileWork
<1>2. ASSUME NEW job, NEW place, Begins(t, job, place) PROVE pc[t] = "idle"
  BY <1>2 DEF Begins, Start
<1>3. ASSUME MessageStep(t) PROVE pc[t] \notin ProfileWork
  BY <1>2, <1>3 DEF MessageStep, Send, SendQueued, ReadInbox, Retry, MigrateCommand, Receive,
              Reply, NextOfInbox, OpenStore, StoreKnown, Migrate, Rename, Store, StoreFails,
              ProfileWork
<1>4. ASSUME ChatStep(t) PROVE pc[t] \notin ProfileWork
  BY <1>2, <1>4 DEF ChatStep, OpenChat, Submit, DeliverSent, Load, LoadFails, DeliverLoaded,
              ProfileWork
<1> QED
  BY <1>1, <1>3, <1>4

\* What a step among some places is for those of other modules.
LEMMA ElsewhereOK ==
    ASSUME SqliteInv, NEW t \in Threads, NEW places, Plain(t), Moves(t, places)
    PROVE  /\ begun \in Nat /\ begun' \in Nat /\ begun <= begun'
           /\ places \cap GroupWork = {} =>
                 \A u \in Threads :
                     pc'[u] \in GroupWork => pc'[u] = pc[u] /\ number'[u] = number[u]
           /\ places \cap MailWork = {} =>
                 \A u \in Threads : pc'[u] \in MailWork => pc'[u] = pc[u]
           /\ places \cap ProfileWork = {} /\ pc[t] \notin ProfileWork =>
                 \A u \in Threads :
                     pc'[u] \in ProfileWork \/ pc[u] \in ProfileWork => pc'[u] = pc[u]
<1>1. /\ begun \in Nat /\ begun' \in Nat /\ begun <= begun'
      /\ \A u \in Threads \ {t} : pc'[u] = pc[u] /\ number'[u] = number[u]
      /\ \/ pc'[t] = pc[t] /\ (number'[t] = number[t] \/ pc'[t] = "idle")
         \/ pc'[t] \in places
  BY PlainFrame
<1>2. "idle" \notin GroupWork
  BY DEF GroupWork
<1> QED
  BY <1>1, <1>2

\* The modules' places are their own.
LEMMA PlacesApart ==
    /\ MailPlaces \cap GroupWork = {} /\ MailPlaces \cap ProfileWork = {}
    /\ GroupPlaces \cap MailWork = {} /\ GroupPlaces \cap ProfileWork = {}
    /\ ProfilePlaces \cap GroupWork = {} /\ ProfilePlaces \cap MailWork = {}
BY DEF MailPlaces, GroupPlaces, ProfilePlaces, MailWork, GroupWork, ProfileWork

\* The steps of the messages and of the daemon.
LEMMA MessageCase ==
    ASSUME TablesInv, LogInv', NEW t \in Threads, MessageStep(t),
           UNCHANGED <<groupVars, chatVars, profileVars>>
    PROVE  TablesInv'
<1>1. Plain(t) /\ Moves(t, MailPlaces) /\ pc[t] \notin ProfileWork
  BY MessagePlain, StartsAt
<1>2. SqliteInv'
  BY <1>1, PlainSqlite DEF TablesInv
<1>3. GroupInv'
  BY <1>1, ElsewhereOK, PlacesApart, GroupFrame DEF TablesInv
<1>4. ProfileInv'
  BY <1>1, ElsewhereOK, PlacesApart, ProfileFrame DEF TablesInv
<1>5. MailInv' /\ ReadableInv'
  BY MessageStepOK, MessageReadable DEF TablesInv
<1>6. FactInv' /\ published \subseteq published'
  BY MessageStepFact DEF TablesInv, LogInv
<1>7. ChatInv'
  BY <1>6, ChatFrame DEF TablesInv
<1> QED
  BY <1>2, <1>3, <1>4, <1>5, <1>6, <1>7 DEF TablesInv

\* Of the chat screen.
LEMMA ChatCase ==
    ASSUME TablesInv, LogInv', NEW w \in Workers, ChatStep(w),
           UNCHANGED <<groupVars, profileVars>>
    PROVE  TablesInv'
<1>1. Plain(w) /\ Moves(w, MailPlaces) /\ pc[w] \notin ProfileWork /\ w \in Threads
  BY ChatPlain, StartsAt DEF Threads
<1>2. SqliteInv'
  BY <1>1, PlainSqlite DEF TablesInv
<1>3. GroupInv'
  BY <1>1, ElsewhereOK, PlacesApart, GroupFrame DEF TablesInv
<1>4. ProfileInv'
  BY <1>1, ElsewhereOK, PlacesApart, ProfileFrame DEF TablesInv
<1>5. MailInv' /\ ReadableInv' /\ ChatInv'
  BY ChatMailOK, ChatReadable, ChatStepOK DEF TablesInv
<1>6. FactInv'
  BY ChatStepFact DEF TablesInv
<1> QED
  BY <1>2, <1>3, <1>4, <1>5, <1>6 DEF TablesInv

\* Of the groups.
LEMMA GroupCase ==
    ASSUME TablesInv, LogInv', NEW t \in Shells, GroupStep(t),
           UNCHANGED <<mailVars, chatVars, profileVars>>
    PROVE  TablesInv'
<1>1. Plain(t) /\ Moves(t, GroupPlaces) /\ pc[t] \notin ProfileWork /\ t \in Threads
  BY GroupPlain, StartsAt DEF Threads
<1>2. SqliteInv'
  BY <1>1, PlainSqlite DEF TablesInv
<1>3. GroupInv'
  BY <1>1, GroupStepOK DEF TablesInv
<1>4. ProfileInv'
  BY <1>1, ElsewhereOK, PlacesApart, ProfileFrame DEF TablesInv
<1>5. MailInv' /\ ReadableInv'
  <2>1. MailInv'
    BY <1>1, ElsewhereOK, PlacesApart, MailFrame DEF TablesInv
  <2>2. begun \in Nat /\ begun' \in Nat /\ begun <= begun'
    BY <1>1, PlainFrame DEF TablesInv
  <2> QED
    BY <2>1, <2>2, MailsReadable DEF TablesInv
<1>6. published' = published
  BY DEF mailVars
<1>7. FactInv'
  BY <1>1, <1>6, GroupStepFact DEF TablesInv, LogInv
<1>8. ChatInv'
  BY <1>6, ChatFrame DEF TablesInv
<1> QED
  BY <1>2, <1>3, <1>4, <1>5, <1>7, <1>8 DEF TablesInv

\* Of the profiles.
LEMMA ProfileCase ==
    ASSUME TablesInv, LogInv', NEW t \in Shells, ProfileStep(t),
           UNCHANGED <<auditVars, groupVars, mailVars, chatVars>>
    PROVE  TablesInv'
<1>1. Plain(t) /\ Moves(t, ProfilePlaces) /\ t \in Threads
  BY ProfilePlain DEF Threads
<1>2. SqliteInv'
  BY <1>1, PlainSqlite DEF TablesInv
<1>3. GroupInv'
  BY <1>1, ElsewhereOK, PlacesApart, GroupFrame DEF TablesInv
<1>4. MailInv' /\ ReadableInv'
  <2>1. MailInv'
    BY <1>1, ElsewhereOK, PlacesApart, MailFrame DEF TablesInv
  <2>2. begun \in Nat /\ begun' \in Nat /\ begun <= begun'
    BY <1>1, PlainFrame DEF TablesInv
  <2> QED
    BY <2>1, <2>2, MailsReadable DEF TablesInv
<1>5. ProfileInv'
  BY ProfileStepOK DEF TablesInv
<1>6. published' = published
  BY DEF mailVars
<1>7. FactInv' /\ ChatInv'
  BY <1>6, FactFrame, ChatFrame DEF TablesInv, More, groupVars, auditVars
<1> QED
  BY <1>2, <1>3, <1>4, <1>5, <1>7 DEF TablesInv

\* A step that leaves the variables of the modules alone, and takes no thread
\* but from or to LogAction.
LEMMA SilentCase ==
    ASSUME TablesInv, LogInv', SqliteInv', FactInv',
           UNCHANGED <<groupVars, mailVars, chatVars, profileVars>>,
           UNCHANGED <<begun, number>>,
           \A u \in Threads : \/ pc'[u] = pc[u]
                              \/ pc[u] \in {"log", "insert"} /\ pc'[u] \in {"insert", "idle", "inbox"}
    PROVE  TablesInv'
<1>1. \A u \in Threads :
          /\ pc'[u] \in GroupWork => pc'[u] = pc[u]
          /\ pc'[u] \in MailWork => pc'[u] = pc[u]
          /\ pc'[u] \in ProfileWork \/ pc[u] \in ProfileWork => pc'[u] = pc[u]
  BY DEF GroupWork, MailWork, ProfileWork
<1>2. begun \in Nat
  BY DEF TablesInv, SqliteInv
<1>3. GroupInv'
  BY <1>1, <1>2, GroupFrame DEF TablesInv
<1>4. MailInv' /\ ReadableInv'
  BY <1>1, <1>2, MailFrame, MailsReadable DEF TablesInv
<1>5. ProfileInv'
  BY <1>1, ProfileFrame DEF TablesInv
<1>6. published' = published
  BY DEF mailVars
<1>7. ChatInv'
  BY <1>6, ChatFrame DEF TablesInv
<1> QED
  BY <1>3, <1>4, <1>5, <1>7 DEF TablesInv

\* The steps of LogAction.
LEMMA LogCase ==
    ASSUME TablesInv, LogInv', NEW t \in Threads, LogStep(t),
           UNCHANGED <<groupVars, mailVars, chatVars, profileVars>>
    PROVE  TablesInv'
<1>1. Shape
  BY DEF TablesInv, LogInv
<1>2. SqliteInv'
  BY <1>1, LogSqlite DEF TablesInv
<1>3. FactInv'
  BY <1>1, LogStepFact DEF TablesInv
<1>4. entry[t].then \in {"idle", "inbox"}
  BY DEF TablesInv, FactInv
<1>5. /\ UNCHANGED <<begun, number>> /\ pc[t] \in {"log", "insert"}
      /\ Goto(t, "insert") \/ Goto(t, entry[t].then)
  BY DEF LogStep, ReadTail, ReadFails, Insert, InsertFails, Returns, Breaks
<1>6. \A u \in Threads : \/ pc'[u] = pc[u]
                         \/ pc[u] \in {"log", "insert"} /\ pc'[u] \in {"insert", "idle", "inbox"}
  BY <1>1, <1>4, <1>5 DEF Goto, Shape
<1> QED
  BY <1>2, <1>3, <1>5, <1>6, SilentCase

\* An edit or a deletion.
LEMMA TamperCase ==
    ASSUME TablesInv, LogInv', Tamper, UNCHANGED <<groupVars, mailVars, chatVars, profileVars>>
    PROVE  TablesInv'
<1>1. /\ stale' = [u \in Threads |-> IF u \in open THEN stale[u] \cup {Outside} ELSE stale[u]]
      /\ UNCHANGED <<workload, pc, number, begun, open, faults, entry, written>>
      /\ tampered < MaxTampers /\ tampered' = tampered + 1
  BY DEF Tamper, Edit, Delete, Tampers
<1>2. SqliteInv'
  BY <1>1 DEF TablesInv, SqliteInv
<1>3. FactInv'
  <2>1. tampered' \in 0 .. MaxTampers
    BY <1>1, AuditAssumption DEF TablesInv, FactInv
  <2> QED
    BY <1>1, <2>1, FactFrame DEF TablesInv, More, groupVars, mailVars
<1> QED
  BY <1>1, <1>2, <1>3, SilentCase

\* An event of another program.
LEMMA PeerCase ==
    ASSUME TablesInv, LogInv', PeerSends, UNCHANGED <<groupVars, chatVars, profileVars>>
    PROVE  TablesInv'
<1>1. /\ UNCHANGED <<workload, pc, number, open, stale, faults, entry, written, tampered>>
      /\ begun < MaxCommands /\ begun' = begun + 1
      /\ published \subseteq published'
  BY DEF PeerSends, auditVars
<1>2. begun \in Nat /\ begun' \in 0 .. MaxCommands /\ begun <= begun'
  BY <1>1, SqliteAssumption DEF TablesInv, SqliteInv
<1>3. SqliteInv'
  <2>1. \A t \in Threads : number[t] <= begun'
    BY <1>1, <1>2 DEF TablesInv, SqliteInv
  <2> QED
    BY <1>1, <1>2, <2>1 DEF TablesInv, SqliteInv
<1>4. GroupInv'
  BY <1>1, <1>2, GroupFrame DEF TablesInv
<1>5. ProfileInv'
  BY <1>1, <1>2, ProfileFrame DEF TablesInv
<1>6. MailInv' /\ ReadableInv'
  BY PeerOK, PeerReadable DEF TablesInv
<1>7. FactInv'
  BY <1>1, FactFrame DEF TablesInv, More, groupVars
<1>8. ChatInv'
  BY <1>1, ChatFrame DEF TablesInv
<1> QED
  BY <1>3, <1>4, <1>5, <1>6, <1>7, <1>8 DEF TablesInv

\* A stuttering step.
LEMMA StutterCase ==
    ASSUME TablesInv, LogInv', UNCHANGED vars
    PROVE  TablesInv'
<1>1. UNCHANGED <<sqliteVars, auditVars, groupVars, mailVars, chatVars, profileVars>>
  BY DEF vars
<1>2. UNCHANGED <<workload, pc, number, begun, open, stale, faults, entry, written, tampered>>
  BY <1>1 DEF sqliteVars, auditVars
<1>3. SqliteInv'
  BY <1>2 DEF TablesInv, SqliteInv
<1>4. FactInv'
  BY <1>1, <1>2, FactFrame DEF TablesInv, More, groupVars, mailVars
<1> QED
  BY <1>1, <1>2, <1>3, <1>4, SilentCase

\* The end of a process.
LEMMA EndsCase ==
    ASSUME TablesInv, LogInv', NEW p \in Processes,
           Ends(p), AuditEnds(p), MessageEnds(p), faults' \in 0 .. MaxFaults,
           GroupEnds(p) \/ UNCHANGED groupVars,
           ProfileEnds(p) \/ (p = "resident" /\ UNCHANGED profileVars),
           ChatEnds \/ UNCHANGED chatVars
    PROVE  TablesInv'
<1>1. /\ UNCHANGED <<begun, number, published, made, ever, left>>
      /\ pc' = [t \in Threads |-> IF Process(t) = p THEN "idle" ELSE pc[t]]
  BY DEF Ends, MessageEnds, GroupEnds, groupVars
<1>2. SqliteInv'
  BY EndsSqlite DEF TablesInv
<1>3. MailInv' /\ ReadableInv'
  BY EndsMail, EndsReadable DEF TablesInv
<1>4. ProfileInv'
  BY EndsProfile DEF TablesInv
<1>5. FactInv'
  BY <1>1, EndsFact DEF TablesInv, More
<1>6. ChatInv'
  BY <1>1, ChatFrame DEF TablesInv, ChatEnds, ChatInv, NothingVanishes
<1>7. GroupInv'
  <2>1. UNCHANGED <<creator, member, made, ever, left>>
    BY DEF GroupEnds, groupVars
  <2>2. task' \in [Threads -> Task] /\ \A u \in Threads : task'[u] = task[u] \/ Process(u) = p
    <3>1. task \in [Threads -> Task] /\ NoTask \in Task
      BY SqliteAssumption DEF TablesInv, GroupInv, NoTask, Task
    <3>2. task' \in {task, [u \in Threads |-> IF Process(u) = p THEN NoTask ELSE task[u]]}
      BY DEF GroupEnds, groupVars
    <3> QED
      BY <3>1, <3>2
  <2>3. \A u \in Threads : pc'[u] \in GroupWork =>
            pc'[u] = pc[u] /\ number'[u] = number[u] /\ task'[u] = task[u]
    BY <1>1, <2>2 DEF GroupWork
  <2>4. begun \in Nat /\ begun' = begun
    BY <1>1 DEF TablesInv, SqliteInv
  <2> QED
    BY <2>1, <2>2, <2>3, <2>4, GroupRest DEF TablesInv
<1> QED
  BY <1>2, <1>3, <1>4, <1>5, <1>6, <1>7 DEF TablesInv

\* The parts are inductive together.
LEMMA StepTables == TablesInv /\ [Next]_vars => TablesInv'
<1> SUFFICES ASSUME TablesInv, [Next]_vars PROVE TablesInv'
  OBVIOUS
<1>1. LogInv'
  BY StepLog DEF TablesInv
<1>2. ASSUME NEW t \in Threads,
             LogStep(t), UNCHANGED <<groupVars, mailVars, chatVars, profileVars>>
      PROVE  TablesInv'
  BY <1>1, <1>2, LogCase
<1>3. ASSUME NEW t \in Threads, MessageStep(t), UNCHANGED <<groupVars, chatVars, profileVars>>
      PROVE  TablesInv'
  BY <1>1, <1>3, MessageCase
<1>4. ASSUME NEW t \in Shells, GroupStep(t), UNCHANGED <<mailVars, chatVars, profileVars>>
      PROVE  TablesInv'
  BY <1>1, <1>4, GroupCase
<1>5. ASSUME NEW t \in Shells, ProfileStep(t), UNCHANGED <<auditVars, groupVars, mailVars, chatVars>>
      PROVE  TablesInv'
  BY <1>1, <1>5, ProfileCase
<1>6. ASSUME NEW w \in Workers, ChatStep(w), UNCHANGED <<groupVars, profileVars>>
      PROVE  TablesInv'
  BY <1>1, <1>6, ChatCase
<1>7. faults \in 0 .. MaxFaults
  BY DEF TablesInv, SqliteInv
<1>8. CASE Quit /\ UNCHANGED <<groupVars, profileVars>>
  <2>1. "resident" \in Processes
    BY DEF Processes
  <2>2. Ends("resident") /\ AuditEnds("resident") /\ MessageEnds("resident") /\ ChatEnds
        /\ faults' = faults
    BY <1>8 DEF Quit
  <2> QED
    BY <1>1, <1>7, <1>8, <2>1, <2>2, EndsCase
<1>9. CASE Tamper /\ UNCHANGED <<groupVars, mailVars, chatVars, profileVars>>
  BY <1>1, <1>9, TamperCase
<1>10. ASSUME NEW p \in Processes, Crash(p) PROVE TablesInv'
  <2>1. faults' \in 0 .. MaxFaults
    BY <1>7, <1>10, SqliteAssumption DEF Crash
  <2>2. /\ Ends(p) /\ AuditEnds(p) /\ MessageEnds(p) /\ GroupEnds(p) /\ ProfileEnds(p)
        /\ ChatEnds \/ UNCHANGED chatVars
    BY <1>10 DEF Crash
  <2> QED
    BY <1>1, <2>1, <2>2, EndsCase
<1>11. CASE UNCHANGED vars
  BY <1>1, <1>11, StutterCase
<1>12. CASE PeerSends /\ UNCHANGED <<groupVars, chatVars, profileVars>>
  BY <1>1, <1>12, PeerCase
<1> QED
  BY <1>2, <1>3, <1>4, <1>5, <1>6, <1>8, <1>9, <1>10, <1>11, <1>12 DEF Next

\* And true at first.
LEMMA InitTables == Init => TablesInv
<1> SUFFICES ASSUME Init PROVE TablesInv
  OBVIOUS
<1>1. ChatInv
  BY DEF Init, ChatInit, ChatInv, NothingVanishes
<1>2. ReadableInv
  BY DEF Init, SqliteInit, MessageInit, NoMail, ReadableInv
<1> QED
  BY <1>1, <1>2, InitLog, InitSqlite, InitGroups, InitMail, InitFacts, InitProfiles DEF TablesInv

-----------------------------------------------------------------------------
(* The theorems.                                                           *)

\* The variables have their types, and a thread holds a transaction exactly
\* while it is between the SELECT and the INSERT of LogAction.
LEMMA TablesTyped == TablesInv => TypeOK
<1> SUFFICES ASSUME TablesInv PROVE TypeOK
  OBVIOUS
<1>1. ASSUME NEW s \in DOMAIN rows PROVE s \in Nat \ {0} /\ rows[s].fact \in Facts
  <2>1. PICK w \in written : rows[s] \in {w, [w EXCEPT !.fact = Forged]}
    BY DEF TablesInv, LogInv, StoredOK
  <2>2. w = [seq |-> w.seq, fact |-> w.fact, prev |-> w.prev, hash |-> Hash(w.seq, w.fact, w.prev)]
    BY DEF TablesInv, LogInv, WrittenOK, Row
  <2>3. rows[s].fact \in {w.fact, Forged}
    BY <2>1, <2>2
  <2>4. w.fact \in Facts /\ Forged \in Facts
    BY NothingTold DEF TablesInv, FactInv, Told, NoEntry
  <2> QED
    BY <2>3, <2>4 DEF TablesInv, LogInv, Numbered
<1>2. \A t \in Threads : entry[t].fact \in Facts /\ entry[t].then \in Places
  BY DEF TablesInv, FactInv, Told, Places
<1>3. \A t \in Threads : task[t].group \in 0 .. MaxCommands /\ task[t].todo \subseteq Npubs
  <2> TAKE t \in Threads
  <2>1. task[t] \in Task
    BY DEF TablesInv, GroupInv
  <2> QED
    BY <2>1 DEF Task
<1>4. \A t \in Threads : mail[t].id \in 0 .. MaxCommands
  <2> TAKE t \in Threads
  <2>1. mail[t] \in Mail
    BY DEF TablesInv, MailInv, MailsOK
  <2> QED
    BY <2>1 DEF Mail
<1>5. /\ workload \in Workloads
      /\ pc \in [Threads -> Places]
      /\ number \in [Threads -> 0 .. MaxCommands]
      /\ begun \in 0 .. MaxCommands
      /\ open = {t \in Threads : pc[t] = "insert"}
      /\ \A t \in Threads : stale[t] # {} => t \in open
      /\ faults \in 0 .. MaxFaults
  BY DEF TablesInv, SqliteInv
<1>6. /\ creator \in [Numbers -> Mine \cup {"none"}]
      /\ member \in [Numbers -> [Npubs -> {"no", "member", "admin"}]]
  BY DEF TablesInv, GroupInv
<1>7. /\ file \in LegacyFiles \cup {"backup"}
      /\ history \in [Numbers -> {"absent", "text", "cipher", "placeholder", "empty"}]
      /\ yields \in [Numbers -> {"text", "cipher", "empty", "neither"}]
      /\ opened \in [Processes -> {"closed", "open"} \cup Causes]
      /\ published \cup queued \cup reported \subseteq Numbers
  BY DEF TablesInv, MailInv, HistoryOK, ReadableInv, Texts
<1>8. /\ told \subseteq Numbers /\ handled \cup screen \subseteq Numbers
      /\ loaded \in [Workers -> SUBSET Numbers]
      /\ created \in [Numbers -> Times]
      /\ reads \in Nat /\ shown \in Nat /\ nth \in [Workers -> Nat]
  BY DEF TablesInv, ChatInv
<1>9. /\ relayHas \in [Relays -> 0 .. MaxCommands]
      /\ local \in 0 .. MaxCommands
      /\ got \in [Threads -> 0 .. MaxCommands]
  BY DEF TablesInv, ProfileInv, ProfileTypes
<1>10. tampered \in 0 .. MaxTampers
  BY DEF TablesInv, FactInv
<1> QED
  BY <1>1, <1>2, <1>3, <1>4, <1>5, <1>6, <1>7, <1>8, <1>9, <1>10 DEF TypeOK

\* Whatever processes, goroutines, faults and edits there are, the variables of
\* the database keep their types, and a thread holds a transaction of LogAction
\* exactly while it is between the SELECT and the INSERT.
THEOREM TablesTypesHold == Spec => []TypeOK
BY InitTables, StepTables, TablesTyped, PTL DEF Spec

\* Whoever created a group is its administrator until they leave it, whatever
\* add-member does meanwhile in other processes (AddMember's INSERT OR IGNORE).
THEOREM CreatorKept == Spec => []CreatorIsAdmin
<1>1. TablesInv => CreatorIsAdmin
  BY DEF TablesInv, GroupInv, MadeOK, AdminOrLeft, CreatorIsAdmin
<1> QED
  BY <1>1, InitTables, StepTables, PTL DEF Spec

\* What the audit log says was created, added, removed, sent or received has
\* been, also when the process that logged it is long gone.
THEOREM LogIsTrue == Spec => []LogTellsTruth
<1>1. TablesInv => LogTellsTruth
  <2> SUFFICES ASSUME TablesInv PROVE LogTellsTruth
    OBVIOUS
  <2>1. ASSUME NEW row \in written, row.fact.what = "created"
        PROVE  \E m \in made : m.group = row.fact.id /\ creator[row.fact.id] \in m.with
    <3>1. PICK m \in made : m.group = row.fact.id
      BY <2>1 DEF TablesInv, FactInv, Told
    <3>2. creator[m.group] \in m.with
      BY DEF TablesInv, GroupInv, MadeOK
    <3> QED
      BY <3>1, <3>2
  <2>2. \A row \in written :
            /\ row.fact.what = "added"   => <<row.fact.id, row.fact.npub>> \in ever
            /\ row.fact.what = "removed" => <<row.fact.id, row.fact.npub>> \in left
            /\ row.fact.what \in {"sent", "received"} => row.fact.id \in published
    BY DEF TablesInv, FactInv, Told
  <2> QED
    BY <2>1, <2>2 DEF LogTellsTruth, GroupLogTellsTruth, MessageLogTellsTruth
<1> QED
  BY <1>1, InitTables, StepTables, PTL DEF Spec

\* Once messages.json is renamed every message of it is in the table, whatever
\* ended the migrations before and however many processes ran one at a time.
THEOREM LegacyIsKept == Spec => []LegacyKept
<1>1. TablesInv => LegacyKept
  BY DEF TablesInv, MailInv, HistoryOK, LegacyKept
<1> QED
  BY <1>1, InitTables, StepTables, PTL DEF Spec

\* And none is there twice.
THEOREM LegacyIsOnce == Spec => []LegacyOnce
<1>1. TablesInv => LegacyOnce
  BY DEF TablesInv, MailInv, HistoryOK, LegacyOnce
<1> QED
  BY <1>1, InitTables, StepTables, PTL DEF Spec

\* A message that `agent msg` called published is in the history, unless its
\* write met a fault or the process could not open the store.
THEOREM SentStored == Spec => []SentIsStored
<1>1. TablesInv => SentIsStored
  BY DEF TablesInv, MailInv, HistoryOK
<1> QED
  BY <1>1, InitTables, StepTables, PTL DEF Spec

\* A message the chat screen has submitted is on a relay or the user was told of
\* it, whatever order the results of sendMessage come in.
THEOREM NoneVanishes == Spec => []NothingVanishes
<1>1. TablesInv => NothingVanishes
  BY DEF TablesInv, ChatInv
<1> QED
  BY <1>1, InitTables, StepTables, PTL DEF Spec

\* A discover that has reached all relays, which agreed when it began, leaves
\* their version in the store, also over another one.
THEOREM DiscoverIsFresh == Spec => []FreshAfterDiscover
<1>1. TablesInv => FreshAfterDiscover
  <2> SUFFICES ASSUME TablesInv, NEW t \in agreed, pc[t] = "discover", reached[t] = Relays,
                      NEW r \in Relays
               PROVE  relayHas[r] \in {0, local}
    BY DEF FreshAfterDiscover
  <2>1. AgreedAt(t)
    BY DEF TablesInv, ProfileInv
  <2> QED
    BY <2>1 DEF AgreedAt
<1> QED
  BY <1>1, InitTables, StepTables, PTL DEF Spec

\* A step that replaces the text of a message in the history stores the row of
\* that message for `agent inbox` without decryption or for a retry: a message
\* whose text is there is one that decrypts, for the daemon too.
LEMMA TextStep ==
    ASSUME TablesInv, [Next]_vars, NEW id \in Numbers, history[id] = "text", history'[id] # "text"
    PROVE  \E t \in Threads :
               /\ mail[t].id = id
               /\ (mail[t].kind = "inbox" /\ mail[t].text = "placeholder") \/ mail[t].kind = "retry"
<1>1. history' # history
  OBVIOUS
<1>2. PICK t \in Threads : Store(t)
  <2>1. ASSUME NEW u \in Threads, MessageStep(u) PROVE Store(u)
    BY <1>1, <2>1 DEF MessageStep, Send, SendQueued, ReadInbox, Retry, MigrateCommand, Receive,
                      Reply, NextOfInbox, OpenStore, StoreKnown, Migrate, Rename, StoreFails, mailVars
  <2>2. ASSUME NEW w \in Workers, ChatStep(w) PROVE FALSE
    BY <1>1, <2>2 DEF ChatStep, OpenChat, Submit, DeliverSent, Load, LoadFails, DeliverLoaded, mailVars
  <2> QED
    BY <1>1, <2>1, <2>2 DEF Next, mailVars, vars, Quit, Crash, MessageEnds, PeerSends
<1>3. history' = [history EXCEPT ![mail[t].id] =
                    IF Plaintext(t) = "empty" /\ @ # "absent" THEN @ ELSE Plaintext(t)]
  BY <1>2 DEF Store
<1>4. mail[t].id = id /\ Plaintext(t) # "text"
  BY <1>3 DEF TablesInv, MailInv, HistoryOK
<1>5. Plaintext(t) = mail[t].text
  BY <1>4, PlaintextIs DEF TablesInv, ReadableInv
<1>6. MailHas(mail[t])
  BY DEF TablesInv, MailInv, MailsOK
<1> QED
  BY <1>4, <1>5, <1>6 DEF MailHas

\* The same of every behaviour.
THEOREM TextIsKept == Spec => TextKept
<1>1. TablesInv /\ [Next]_vars =>
          [\A id \in Numbers : (history[id] = "text" /\ history'[id] # "text")
             => \E t \in Threads :
                  /\ mail[t].id = id
                  /\ \/ mail[t].kind = "inbox" /\ mail[t].text = "placeholder"
                     \/ mail[t].kind = "retry"]_<<history, mail>>
  BY TextStep
<1> QED
  BY <1>1, InitTables, StepTables, PTL DEF Spec, TextKept

-----------------------------------------------------------------------------
(* What publish and discover do with their flags.                          *)

\* An availability that is given is what the profile says.
LEMMA GivenIs ==
    ASSUME NEW S, NEW A \in Optional(S)
    PROVE  A = {} \/ \E a \in S : A = {a} /\ (CHOOSE x \in A : TRUE) = a
BY DEF Optional

\* The profile that publish makes of flags it accepts: of a simple or a tagged one
\* the name and the tags, of a structured one all of them.
LEMMA BuiltIs ==
    ASSUME NEW f \in Flags, Accepts(f), NEW p, p = Made(f, {})
    PROVE  /\ p.mode = f.mode /\ f.mode \in Modes
           /\ p.described = f.described /\ p.capable = f.capable /\ p.rating = {}
           /\ p.sheet = (f.mode = "structured") /\ p.prices = Offered(f)
           /\ p.tags = Clean(f.tags)
           /\ f.mode = "simple" => p.tags = "none"
           /\ f.mode = "tagged" => p.tags = "some"
           /\ f.mode # "structured" => /\ f.availability = {} /\ f.rates = {}
                                       /\ ~f.described /\ ~f.capable /\ p.availability = "none"
           /\ f.mode = "structured" =>
                 p.availability = IF f.availability = {} THEN "available"
                                  ELSE CHOOSE a \in f.availability : TRUE
<1>1. p = Built(f) /\ f.mode \in Modes
  BY DEF Made, Accepts, Modes
<1>2. f.described \in BOOLEAN /\ f.capable \in BOOLEAN
  BY DEF Flags
<1>3. CASE f.mode = "structured"
  <2>0. PICK a : a = IF f.availability = {} THEN "available"
                    ELSE CHOOSE x \in f.availability : TRUE
    OBVIOUS
  <2>1. p = [mode |-> f.mode, tags |-> Clean(f.tags), described |-> f.described,
             capable |-> f.capable, availability |-> a,
             sheet |-> TRUE, prices |-> Offered(f), rating |-> {}]
    BY <1>1, <1>2, <1>3, <2>0 DEF Built
  <2>2. /\ p.mode = f.mode /\ p.described = f.described /\ p.capable = f.capable
        /\ p.tags = Clean(f.tags) /\ p.sheet = TRUE
    BY <2>1
  <2>3. p.rating = {} /\ p.prices = Offered(f)
    BY <2>1
  <2>4. p.availability = a
    BY <2>1
  <2>5. p.sheet = (f.mode = "structured")
    BY <1>3, <2>2
  <2>6. f.mode # "simple" /\ f.mode # "tagged"
    BY <1>3
  <2> QED
    BY <1>1, <1>3, <2>0, <2>2, <2>3, <2>4, <2>5, <2>6, Zenon
<1>4. CASE f.mode # "structured"
  <2>1. ~StructuredOnly(f)
    BY <1>1, <1>4 DEF Accepts, Modes
  <2>2. f.availability = {} /\ f.rates = {} /\ f.described = FALSE /\ f.capable = FALSE
    BY <1>2, <2>1 DEF StructuredOnly
  <2>3. Offered(f) = {}
    BY <2>2 DEF Offered
  <2>4. f.mode = "simple" => f.tags = "none"
    BY <1>1, <1>4 DEF Accepts
  <2>5. f.mode = "tagged" => Clean(f.tags) = "some"
    BY <1>1, <1>4 DEF Accepts
  <2>6. p = [mode |-> f.mode, tags |-> IF f.mode = "simple" THEN "none" ELSE Clean(f.tags),
             described |-> FALSE, capable |-> FALSE, availability |-> "none",
             sheet |-> FALSE, prices |-> {}, rating |-> {}]
    BY <1>1, <1>4 DEF Built
  <2>7. p.tags = Clean(f.tags)
    BY <2>4, <2>6 DEF Clean
  <2>8. (f.mode = "simple" => p.tags = "none") /\ (f.mode = "tagged" => p.tags = "some")
    BY <2>5, <2>6, <2>7
  <2>9. /\ p.mode = f.mode /\ p.described = FALSE /\ p.capable = FALSE
        /\ p.availability = "none" /\ p.sheet = FALSE
    BY <2>6
  <2>10. p.rating = {} /\ p.prices = {}
    BY <2>6
  <2>11. p.sheet = (f.mode = "structured")
    BY <1>4, <2>9
  <2>12. ~f.described /\ ~f.capable /\ p.described = f.described /\ p.capable = f.capable
    BY <2>2, <2>9
  <2> QED
    BY <1>1, <1>4, <2>2, <2>3, <2>7, <2>8, <2>9, <2>10, <2>11, <2>12, Zenon
<1> QED
  BY <1>3, <1>4

\* Validate lets it through, unless it states an availability that is not known.
LEMMA BuiltPasses ==
    ASSUME NEW f \in Flags, Accepts(f)
    PROVE  Accepted(f, {}) <=> f.availability # {"other"}
<1>1. PICK p : p = Made(f, {})
  OBVIOUS
<1>2. f.availability \in Optional(Stated)
  BY DEF Flags
<1>3. p.availability = "other" <=> f.availability = {"other"}
  <2>1. CASE f.mode = "structured"
    BY <1>1, <1>2, <2>1, BuiltIs, GivenIs
  <2>2. CASE f.mode # "structured"
    BY <1>1, <2>2, BuiltIs
  <2> QED
    BY <2>1, <2>2
<1>4. p.mode # "other" /\ Effective(p) = f.mode
  BY <1>1, BuiltIs DEF Effective, Modes
<1>5. ASSUME f.mode # "structured" PROVE ~Structured(p)
  <2>1. p.described = f.described /\ p.capable = f.capable /\ ~f.described /\ ~f.capable
    BY <1>1, <1>5, BuiltIs
  <2>2. p.availability = "none" /\ p.sheet = FALSE /\ p.rating = {}
    BY <1>1, <1>5, BuiltIs
  <2> QED
    BY <2>1, <2>2 DEF Structured
<1>6. (f.mode = "simple" => p.tags = "none") /\ (f.mode = "tagged" => p.tags = "some")
  BY <1>1, BuiltIs
<1>7. Valid(p) <=> f.availability # {"other"}
  BY <1>3, <1>4, <1>5, <1>6 DEF Valid
<1> QED
  BY <1>1, <1>7 DEF Accepted

\* What publish accepts of its flags is in the profile it sends, whatever prices
\* there are, but for what the property names; nor does it build a profile that
\* Validate rejects, unless for the availability.
THEOREM BuildsWhole == Spec => []NothingDropped
<1>1. ASSUME NEW f \in Flags, Accepts(f), NEW p, p = Made(f, {})
      PROVE  /\ Accepted(f, {}) <=> f.availability # {"other"}
             /\ f.described => p.described
             /\ f.capable => p.capable
             /\ f.rates # {} => p.sheet
             /\ \A r \in f.rates : r.named => r.price \in p.prices
             /\ \A a \in f.availability : p.availability = a
             /\ f.tags = "some" => p.tags = "some"
  <2>1. \A a \in f.availability : p.availability = a
    <3>1. f.availability \in Optional(Stated)
      BY DEF Flags
    <3> QED
      BY <1>1, <3>1, BuiltIs, GivenIs
  <2>2. \A r \in f.rates : r.named => r.price \in p.prices
    BY <1>1, BuiltIs DEF Offered
  <2>3. f.tags = "some" => p.tags = "some"
    BY <1>1, BuiltIs DEF Clean
  <2>4. (f.described => p.described) /\ (f.capable => p.capable) /\ (f.rates # {} => p.sheet)
    BY <1>1, BuiltIs
  <2> QED
    BY <1>1, <2>1, <2>2, <2>3, <2>4, BuiltPasses
<1>2. NothingDropped
  BY <1>1 DEF NothingDropped, BuiltWhole
<1> QED
  BY <1>2, PTL

\* discover finds a profile made from flags just when the search is for what they
\* state, whatever the bounds and prices; and one from a file that Validate lets
\* through as simple or tagged is found only without a filter.
THEOREM FoundAsSaid == Spec => []FoundAsPublished
<1>1. ASSUME NEW f \in Flags, Accepted(f, {}), NEW g \in Filters
      PROVE  Matches(g, Made(f, {})) <=> Meets(g, f)
  <2>1. Accepts(f)
    BY <1>1 DEF Accepted
  <2>2. PICK p : p = Made(f, {})
    OBVIOUS
  <2>3. WantsStructured(g) => (Effective(p) = "structured" <=> f.mode = "structured")
    BY <2>1, <2>2, BuiltIs DEF Effective, Modes
  <2>4. g.capable => (p.capable <=> f.capable)
    BY <2>1, <2>2, BuiltIs
  <2>5. InRange(p, g.min, g.max)
        <=> \E r \in f.rates : /\ r.named
                               /\ \A b \in g.min : b <= r.price
                               /\ \A b \in g.max : r.price <= b
    <3>1. \A b \in g.min \cup g.max : b \in Int
      BY ProfilesAssumption DEF Filters, Optional
    <3>2. \A r \in f.rates : r.price \in Int
      BY ProfilesAssumption DEF Flags
    <3>3. p.prices = Offered(f)
      BY <2>1, <2>2, BuiltIs
    <3>4. f.rates # {} => p.sheet
      BY <2>1, <2>2, BuiltIs
    <3>5. \A x, y \in Int : x >= y <=> y <= x
      OBVIOUS
    <3>6. ASSUME InRange(p, g.min, g.max)
          PROVE  \E r \in f.rates : /\ r.named
                                    /\ \A b \in g.min : b <= r.price
                                    /\ \A b \in g.max : r.price <= b
      <4>1. PICK x \in Offered(f) : (\A b \in g.min : x >= b) /\ (\A b \in g.max : x <= b)
        BY <3>3, <3>6 DEF InRange
      <4>2. PICK r \in f.rates : r.named /\ r.price = x
        BY DEF Offered
      <4> QED
        BY <3>1, <3>2, <3>5, <4>1, <4>2
    <3>7. ASSUME NEW r \in f.rates, r.named, \A b \in g.min : b <= r.price,
                 \A b \in g.max : r.price <= b
          PROVE  InRange(p, g.min, g.max)
      <4>1. r.price \in Offered(f)
        BY <3>7 DEF Offered
      <4>2. \A b \in g.min : r.price >= b
        BY <3>1, <3>2, <3>5, <3>7
      <4> QED
        BY <3>3, <3>4, <3>7, <4>1, <4>2 DEF InRange
    <3> QED
      BY <3>6, <3>7
  <2>6. (\A b \in g.rating : \E r \in p.rating : r >= b) <=> g.rating = {}
    BY <2>1, <2>2, BuiltIs
  <2>7. p.availability = "available" <=> f.mode = "structured" /\ f.availability \subseteq {"available"}
    <3>1. f.availability \in Optional(Stated)
      BY DEF Flags
    <3>2. CASE f.mode = "structured"
      BY <2>1, <2>2, <3>1, <3>2, BuiltIs, GivenIs
    <3>3. CASE f.mode # "structured"
      BY <2>1, <2>2, <3>3, BuiltIs
    <3> QED
      BY <3>2, <3>3
  <2> QED
    BY <2>2, <2>3, <2>4, <2>5, <2>6, <2>7 DEF Matches, Meets
<1>2. ASSUME NEW p \in Profile, Accepted(NoFlags, {p}), Effective(p) # "structured",
             NEW g \in Filters, Matches(g, p)
      PROVE  ~WantsStructured(g) /\ ~g.online
  <2>1. (CHOOSE q \in {p} : TRUE) = p
    OBVIOUS
  <2>2. Valid(p)
    BY <1>2, <2>1 DEF Accepted, Made
  <2>3. p.availability = "none"
    <3>1. Effective(p) \in {"simple", "tagged"}
      BY <1>2, <2>2 DEF Effective, Valid, Profile, Modes
    <3> QED
      BY <2>2, <3>1 DEF Valid, Structured
  <2> QED
    BY <1>2, <2>3 DEF Matches
<1>3. FoundAsPublished
  BY <1>1, <1>2 DEF FoundAsPublished, FoundByFlags
<1> QED
  BY <1>3, PTL

-----------------------------------------------------------------------------
(* Why LogAction gives up.                                                 *)

\* A process has one transaction at a time, and what outdates it comes through
\* other handles than its own.
HandleInv ==
    /\ \A t, u \in open : Process(t) = Process(u) => t = u
    /\ \A t \in Threads : Handle(t, "audit") \notin stale[t]

\* Goroutines of the chat screen do not log.
ResidentInv ==
    /\ ui => "chat" \in workload
    /\ \A w \in Workers : mail[w].kind \in {"none", "receive", "reply", "send"}
    /\ \A w \in Workers : mail[w].kind = "reply" => "reply" \in workload
    /\ \A w \in Workers : pc[w] \in {"log", "insert"} => "reply" \in workload

\* The handles of audit are other ones than that of the store, than those of other
\* processes, and than the user's.
LEMMA HandlesApart ==
    ASSUME NEW t \in Threads
    PROVE  /\ \A u : Handle(t, "audit") # Handle(u, "store")
           /\ \A u : Handle(t, "audit") = Handle(u, "audit") => Process(t) = Process(u)
           /\ Handle(t, "audit") # Outside
<1>1. Process(t) \in Shells \cup {"resident"}
  BY DEF Process, Threads
<1>2. Process(t) # "outside"
  BY <1>1, SqliteAssumption
<1>3. \A u : Handle(t, "audit").db # Handle(u, "store").db
  BY DEF Handle
<1>4. \A u : Handle(u, "audit").process = Process(u)
  BY DEF Handle
<1> QED
  BY <1>2, <1>3, <1>4 DEF Outside

\* What the steps of other modules, LogAction, an edit and the end of a process do
\* to them.
LEMMA HandlesOK ==
    ASSUME SqliteInv, HandleInv, NEW t \in Threads, Plain(t) \/ LogStep(t)
    PROVE  HandleInv'
<1>1. CASE Plain(t)
  <2>1. open' = open
    BY <1>1 DEF Plain, Reads, Executes, Breaks, Begun
  <2>2. CASE Executes(t)
    BY <2>1, <2>2, HandlesApart DEF Executes, Outdates, HandleInv
  <2>3. CASE ~Executes(t)
    BY <1>1, <2>1, <2>3 DEF Plain, Reads, Breaks, Begun, HandleInv
  <2> QED
    BY <2>2, <2>3
<1>2. CASE ReadTail(t)
  <2>1. /\ \A u \in open : Process(u) # Process(t)
        /\ open' = open \cup {t} /\ stale' = stale
    BY <1>2 DEF ReadTail
  <2> QED
    BY <2>1 DEF HandleInv
<1>3. CASE ReadFails(t)
  BY <1>3 DEF ReadFails, Breaks, HandleInv
<1>4. CASE Insert(t)
  <2>1. /\ open' = open \ {t}
        /\ stale' = [u \in Threads |->
               IF u = t THEN {}
               ELSE IF u \in open THEN stale[u] \cup {Handle(t, "audit")} ELSE stale[u]]
    BY <1>4 DEF Insert, Closes
  <2>2. t \in open
    BY <1>4 DEF Insert, SqliteInv
  <2>3. ASSUME NEW u \in Threads PROVE Handle(u, "audit") \notin stale'[u]
    <3>1. u \in open /\ u # t => Handle(u, "audit") # Handle(t, "audit")
      BY <2>2, HandlesApart DEF HandleInv
    <3> QED
      BY <2>1, <3>1 DEF HandleInv
  <2> QED
    BY <2>1, <2>3 DEF HandleInv
<1>5. CASE InsertFails(t)
  <2>1. open' = open \ {t} /\ stale' = [stale EXCEPT ![t] = {}]
    BY <1>5 DEF InsertFails
  <2> QED
    BY <2>1 DEF HandleInv, SqliteInv
<1> QED
  BY <1>1, <1>2, <1>3, <1>4, <1>5 DEF LogStep

\* The handles stay apart, and the goroutines do their jobs.
LEMMA HandlesStep ==
    ASSUME TablesInv, HandleInv, [Next]_vars
    PROVE  HandleInv'
<1> USE DEF TablesInv
<1>1. ASSUME NEW t \in Threads, LogStep(t) \/ MessageStep(t) PROVE HandleInv'
  BY <1>1, HandlesOK, MessagePlain
<1>2. ASSUME NEW t \in Shells, GroupStep(t) \/ ProfileStep(t) PROVE HandleInv'
  BY <1>2, HandlesOK, GroupPlain, ProfilePlain DEF Threads
<1>3. ASSUME NEW w \in Workers, ChatStep(w) PROVE HandleInv'
  BY <1>3, HandlesOK, ChatPlain DEF Threads
<1>4. ASSUME NEW p, Ends(p) PROVE HandleInv'
  BY <1>4 DEF Ends, HandleInv
<1>5. CASE Tamper
  BY <1>5, HandlesApart DEF Tamper, Edit, Delete, Tampers, HandleInv
<1>6. CASE PeerSends \/ UNCHANGED vars
  BY <1>6 DEF PeerSends, vars, sqliteVars, HandleInv
<1> QED
  BY <1>1, <1>2, <1>3, <1>4, <1>5, <1>6 DEF Next, Quit, Crash

\* A goroutine that is not moved stays in its part.
LEMMA ResidentFrame ==
    ASSUME ResidentInv, workload' = workload, ui' => ui \/ "chat" \in workload,
           \A w \in Workers :
               /\ mail'[w].kind \in {"none", "receive", "reply", "send"}
               /\ mail'[w].kind = "reply" => mail[w].kind = "reply" \/ "reply" \in workload
               /\ pc'[w] \in {"log", "insert"} => pc[w] \in {"log", "insert"} \/ "reply" \in workload
    PROVE  ResidentInv'
BY DEF ResidentInv

\* The steps of a goroutine that change its message.
LEMMA WorkerOK ==
    ASSUME SqliteInv, MailInv, ResidentInv, NEW t \in Workers, ui' = ui, NEW x \in Mail,
           mail' = [mail EXCEPT ![t] = x],
           workload' = workload,
           x.kind \in {"none", "receive", "reply", "send"},
           x.kind = "reply" => "reply" \in workload,
           NEW place, Goto(t, place),
           place \in {"log", "insert"} => "reply" \in workload
    PROVE  ResidentInv'
<1>1. \A w \in Workers : w \in Threads
  BY DEF Threads
<1>2. \A w \in Workers : mail'[w] = IF w = t THEN x ELSE mail[w]
  BY <1>1 DEF MailInv, MailsOK
<1>3. \A w \in Workers : pc'[w] = IF w = t THEN place ELSE pc[w]
  BY <1>1 DEF SqliteInv, Goto
<1> QED
  BY <1>2, <1>3, ResidentFrame DEF ResidentInv

\* The steps of the messages.
LEMMA MessageResident ==
    ASSUME SqliteInv, MailInv, ResidentInv, NEW t \in Threads, MessageStep(t), ui' = ui
    PROVE  ResidentInv'
<1>1. /\ workload' = workload
      /\ \A u \in Threads \ {t} : pc'[u] = pc[u]
  BY MessagePlain, PlainFrame DEF Plain, Reads, Executes, Breaks, Begun
<1>2. mail \in [Threads -> Mail] /\ pc \in [Threads -> Places] /\ NoMail \in Mail
  BY SqliteAssumption DEF MailInv, MailsOK, SqliteInv, NoMail, Mail
<1>3. CASE t \in Shells
  <2>1. \A w \in Workers : w # t /\ w \in Threads
    BY <1>3, SqliteAssumption DEF Threads
  <2>2. mail' = mail \/ \E x : mail' = [mail EXCEPT ![t] = x]
    <3>1. CASE NextOfInbox(t)
      <4>1. ASSUME NEW id, mail' = [mail EXCEPT ![t].id = id, ![t].todo = @ \ {id}]
            PROVE  mail' = [mail EXCEPT ![t] = mail'[t]]
        BY <1>2, <4>1
      <4> QED
        BY <3>1, <4>1 DEF NextOfInbox
    <3>2. CASE ~NextOfInbox(t)
      BY <2>1, <1>3, <3>2, SqliteAssumption DEF MessageStep, Send, SendQueued, ReadInbox, Retry,
            MigrateCommand, OpenStore, StoreKnown, Migrate, Rename, Store, StoreFails, Stored,
            Takes, mailVars
    <3> QED
      BY <3>1, <3>2
  <2>3. \A w \in Workers : mail'[w] = mail[w] /\ pc'[w] = pc[w]
    BY <1>1, <1>2, <2>1, <2>2
  <2> QED
    BY <1>1, <2>3, ResidentFrame DEF ResidentInv
<1>4. CASE t \in Workers
  <2>1. PICK m \in Mail : m = mail[t]
    BY <1>2
  <2>2. /\ m.kind \in {"none", "receive", "reply", "send"}
        /\ m.kind = "reply" => "reply" \in workload
    BY <1>4, <2>1 DEF ResidentInv
  <2>3. mail = [mail EXCEPT ![t] = m]
    BY <1>2, <2>1
  <2>4. ASSUME NEW kind \in {"receive", "reply"}, NEW id \in 0 .. MaxCommands, NEW acked \in BOOLEAN,
               Takes(t, kind, id, "text", acked), Goto(t, "open"),
               kind = "reply" => "reply" \in workload
        PROVE  ResidentInv'
    <3>1. PICK x : x = [kind |-> kind, id |-> id, text |-> "text", todo |-> {}, acked |-> acked]
      OBVIOUS
    <3>2. x \in Mail /\ x.kind = kind /\ mail' = [mail EXCEPT ![t] = x]
      BY <2>4, <3>1 DEF Mail, Takes
    <3> QED
      BY <1>1, <1>4, <2>4, <3>2, WorkerOK
  <2>5. CASE Receive(t)
    <3>1. PICK id \in published : Takes(t, "receive", id, "text", TRUE)
      BY <2>5 DEF Receive
    <3>2. id \in 0 .. MaxCommands
      BY SqliteAssumption DEF MailInv, HistoryOK, Numbers
    <3>3. Goto(t, "open")
      BY <2>5 DEF Receive, Begins, Start
    <3> QED
      BY <2>4, <3>1, <3>2, <3>3
  <2>6. CASE Reply(t)
    <3>1. PICK acked \in BOOLEAN : Takes(t, "reply", begun + 1, "text", acked)
      BY <2>6 DEF Reply
    <3>2. Goto(t, "open") /\ "reply" \in workload /\ begun < MaxCommands
      BY <2>6 DEF Reply, Begins, Start
    <3>3. begun + 1 \in 0 .. MaxCommands
      BY <3>2, SqliteAssumption DEF SqliteInv
    <3> QED
      BY <2>4, <3>1, <3>2, <3>3
  <2>7. CASE NextOfInbox(t)
    <3>1. PICK place \in {"open", "idle"} : Goto(t, place)
      BY <2>7 DEF NextOfInbox
    <3>2. CASE mail' = [mail EXCEPT ![t] = NoMail]
      <4>1. NoMail.kind = "none"
        BY DEF NoMail
      <4> QED
        BY <1>1, <1>2, <1>4, <3>1, <3>2, <4>1, WorkerOK
    <3>3. ASSUME NEW id \in m.todo, mail' = [mail EXCEPT ![t].id = id, ![t].todo = @ \ {id}]
          PROVE  ResidentInv'
      <4>1. PICK x : x = [m EXCEPT !.id = id, !.todo = @ \ {id}]
        OBVIOUS
      <4>2. mail' = [mail EXCEPT ![t] = x]
        BY <1>2, <2>1, <3>3, <4>1
      <4>3. id \in 0 .. MaxCommands
        BY <3>3, SqliteAssumption DEF Mail, Numbers
      <4>4. x \in Mail /\ x.kind = m.kind
        BY <4>1, <4>3 DEF Mail
      <4> QED
        BY <1>1, <1>4, <2>2, <3>1, <4>2, <4>4, WorkerOK
    <3> QED
      BY <2>1, <2>7, <3>2, <3>3 DEF NextOfInbox
  <2>8. CASE OpenStore(t) \/ StoreKnown(t) \/ Migrate(t) \/ Rename(t)
    <3>1. mail' = [mail EXCEPT ![t] = m]
      BY <2>3, <2>8 DEF OpenStore, StoreKnown, Migrate, Rename, mailVars
    <3>2. PICK place \in {"store", "idle", "migrate", "rename"} : Goto(t, place)
      BY <2>8 DEF OpenStore, Stat, StoreKnown, Migrate, Rename, Opens
    <3> QED
      BY <1>1, <1>4, <2>2, <3>1, <3>2, WorkerOK
  <2>9. CASE Store(t) \/ StoreFails(t)
    <3>1. Stored(t)
      BY <2>9 DEF Store, StoreFails
    <3>2. PICK place \in {"log", "sent", "idle"} : Goto(t, place) /\ (place = "log" => m.kind = "reply")
      BY <2>1, <2>2, <3>1 DEF Stored, Log
    <3>3. PICK x \in {m, NoMail} : mail' = [mail EXCEPT ![t] = x]
      <4>1. mail' = mail \/ mail' = [mail EXCEPT ![t] = NoMail]
        BY <3>1 DEF Stored
      <4>2. CASE mail' = mail
        BY <2>3, <4>2
      <4>3. CASE mail' = [mail EXCEPT ![t] = NoMail]
        BY <4>3
      <4> QED
        BY <4>1, <4>2, <4>3
    <3>4. NoMail.kind = "none"
      BY DEF NoMail
    <3>5. x \in Mail /\ x.kind \in {m.kind, "none"}
      <4>1. CASE x = m
        BY <1>2, <2>2, <4>1
      <4>2. CASE x = NoMail
        BY <1>2, <3>4, <4>2
      <4> QED
        BY <3>3, <4>1, <4>2
    <3> QED
      BY <1>1, <1>4, <2>2, <3>2, <3>3, <3>5, WorkerOK
  <2>10. t \notin Shells
    BY <1>4, SqliteAssumption
  <2> QED
    BY <2>5, <2>6, <2>7, <2>8, <2>9, <2>10 DEF MessageStep
<1> QED
  BY <1>3, <1>4 DEF Threads

\* The steps of the chat screen.
LEMMA ChatResident ==
    ASSUME SqliteInv, MailInv, ResidentInv, NEW w \in Workers, ChatStep(w)
    PROVE  ResidentInv'
<1>1. w \in Threads
  BY DEF Threads
<1>2. workload' = workload
  BY <1>1, ChatPlain DEF Plain, Reads, Executes, Breaks, Begun
<1>3. mail \in [Threads -> Mail] /\ pc \in [Threads -> Places] /\ NoMail \in Mail
  BY SqliteAssumption DEF MailInv, MailsOK, SqliteInv, NoMail, Mail
<1>4. \E place \in {"load", "open", "sent", "idle", "loaded"} : Goto(w, place)
  BY DEF ChatStep, OpenChat, Submit, Begins, Start, DeliverSent, Load, LoadFails, DeliverLoaded
<1>5. \A u \in Workers : u \in Threads
  BY DEF Threads
<1>6. \A u \in Workers : pc'[u] \in {"log", "insert"} => pc[u] \in {"log", "insert"}
  BY <1>1, <1>3, <1>4, <1>5 DEF Goto
<1>7. ui' => ui \/ "chat" \in workload
  BY DEF ChatStep, OpenChat, Submit, Begins, Start, DeliverSent, Load, LoadFails, DeliverLoaded,
         chatVars
<1>8. \/ mail' = mail
      \/ mail' = [mail EXCEPT ![w] = NoMail]
      \/ \E id, acked : Takes(w, "send", id, "text", acked)
  BY DEF ChatStep, OpenChat, Submit, DeliverSent, Load, LoadFails, DeliverLoaded, mailVars
<1>9. ASSUME NEW u \in Workers
      PROVE  mail'[u].kind \in {mail[u].kind, "none", "send"}
  <2>1. CASE mail' = mail
    BY <2>1
  <2>2. CASE mail' = [mail EXCEPT ![w] = NoMail]
    BY <1>3, <1>5, <2>2 DEF NoMail
  <2>3. ASSUME NEW id, NEW acked, Takes(w, "send", id, "text", acked)
        PROVE  mail'[u].kind \in {mail[u].kind, "none", "send"}
    BY <1>3, <1>5, <2>3 DEF Takes
  <2> QED
    BY <1>8, <2>1, <2>2, <2>3
<1> QED
  BY <1>2, <1>6, <1>7, <1>9, ResidentFrame DEF ResidentInv

\* The goroutines do the jobs of their process.
LEMMA ResidentStep ==
    ASSUME TablesInv, ResidentInv, [Next]_vars
    PROVE  ResidentInv'
<1> USE DEF TablesInv
<1>1. ASSUME NEW t \in Threads, MessageStep(t), UNCHANGED chatVars PROVE ResidentInv'
  BY <1>1, MessageResident DEF chatVars
<1>2. ASSUME NEW w \in Workers, ChatStep(w) PROVE ResidentInv'
  BY <1>2, ChatResident
<1>3. ASSUME NEW t \in Shells, GroupStep(t) \/ ProfileStep(t), UNCHANGED <<mailVars, chatVars>>
      PROVE  ResidentInv'
  <2>1. PICK places : Plain(t) /\ Moves(t, places)
    BY <1>3, GroupPlain, ProfilePlain
  <2>2. \A w \in Workers : w # t /\ w \in Threads
    BY SqliteAssumption DEF Threads
  <2>3. \A w \in Workers : pc'[w] = pc[w]
    BY <2>1, <2>2, PlainFrame DEF Threads
  <2>4. workload' = workload /\ mail' = mail /\ ui' = ui
    BY <1>3, <2>1 DEF Plain, Reads, Executes, Breaks, Begun, mailVars, chatVars
  <2> QED
    BY <2>3, <2>4, ResidentFrame DEF ResidentInv
<1>4. ASSUME NEW t \in Threads, LogStep(t), UNCHANGED <<mailVars, chatVars>> PROVE ResidentInv'
  <2>1. workload' = workload /\ mail' = mail /\ ui' = ui
    BY <1>4 DEF LogStep, ReadTail, ReadFails, Insert, InsertFails, Breaks, mailVars, chatVars
  <2>2. pc[t] \in {"log", "insert"} /\ \E place : Goto(t, place)
    BY <1>4 DEF LogStep, ReadTail, ReadFails, Insert, InsertFails, Returns
  <2>3. \A w \in Workers : pc'[w] \in {"log", "insert"} => pc[w] \in {"log", "insert"}
    BY <2>2 DEF Goto, SqliteInv, Threads
  <2> QED
    BY <2>1, <2>3, ResidentFrame DEF ResidentInv
<1>5. ASSUME NEW p, Ends(p), MessageEnds(p), ChatEnds \/ UNCHANGED chatVars PROVE ResidentInv'
  <2>1. workload' = workload /\ (ui' => ui)
    BY <1>5 DEF Ends, ChatEnds, chatVars
  <2>2. \A w \in Workers : mail'[w].kind \in {mail[w].kind, "none"}
    BY <1>5 DEF MessageEnds, NoMail, Threads
  <2>3. \A w \in Workers : pc'[w] \in {pc[w], "idle"}
    BY <1>5 DEF Ends, Threads
  <2> QED
    BY <2>1, <2>2, <2>3, ResidentFrame DEF ResidentInv
<1>6. CASE Tamper /\ UNCHANGED <<mailVars, chatVars>>
  BY <1>6 DEF Tamper, Edit, Delete, Tampers, mailVars, chatVars, ResidentInv
<1>7. CASE (PeerSends /\ UNCHANGED chatVars) \/ UNCHANGED vars
  BY <1>7 DEF PeerSends, vars, sqliteVars, mailVars, chatVars, ResidentInv
<1> QED
  BY <1>1, <1>2, <1>3, <1>4, <1>5, <1>6, <1>7 DEF Next, Quit, Crash

\* LogAction returns without a row because of a fault, or because of a commit that
\* was not through its own handle.
LEMMA DroppedStep ==
    ASSUME TablesInv, HandleInv, ResidentInv, [Next]_vars,
           NEW t \in Threads, pc[t] \in {"log", "insert"}, pc'[t] \notin {"log", "insert"},
           rows' = rows
    PROVE  faults' > faults \/ stale[t] \ {Handle(t, "audit")} # {}
<1>1. faults \in Nat /\ pc \in [Threads -> Places] /\ workload \in Workloads
  BY SqliteAssumption DEF TablesInv, SqliteInv
<1>2. ASSUME NEW u \in Threads, LogStep(u) PROVE faults' > faults \/ stale[t] \ {Handle(t, "audit")} # {}
  <2>1. u = t
    <3>1. \E place : Goto(u, place)
      BY <1>2 DEF LogStep, ReadTail, ReadFails, Insert, InsertFails, Returns
    <3> QED
      BY <1>1, <3>1 DEF Goto
  <2>2. ~ReadTail(t)
    BY <1>1 DEF ReadTail, Goto
  <2>3. ~Insert(t)
    <3>1. Insert(t) => DOMAIN rows' = DOMAIN rows \cup {tail[t].seq + 1} /\ tail[t].seq + 1 \notin DOMAIN rows
      BY DEF Insert, Adds, Row
    <3> QED
      BY <3>1
  <2>4. CASE ReadFails(t)
    BY <1>1, <2>4 DEF ReadFails, Breaks
  <2>5. CASE InsertFails(t)
    BY <1>1, <2>5 DEF InsertFails, HandleInv
  <2> QED
    BY <1>2, <2>1, <2>2, <2>3, <2>4, <2>5 DEF LogStep
<1>3. ASSUME NEW u \in Threads, Plain(u) PROVE FALSE
  BY <1>1, <1>3 DEF Plain, Moves, Goto
<1>4. ASSUME NEW p \in Processes, Crash(p) PROVE faults' > faults
  BY <1>1, <1>4 DEF Crash
<1>5. CASE Quit
  <2>1. Process(t) = "resident"
    BY <1>5 DEF Quit, Ends
  <2>2. t \in Workers
    BY <2>1, SqliteAssumption DEF Process, Threads
  <2>3. "reply" \in workload /\ "chat" \in workload
    BY <1>5, <2>2 DEF Quit, ResidentInv
  <2> QED
    BY <1>1, <2>3, ChatAssumption
<1>6. CASE Tamper \/ PeerSends \/ UNCHANGED vars
  BY <1>6 DEF Tamper, Edit, Delete, Tampers, PeerSends, vars, sqliteVars
<1> QED
  BY <1>2, <1>3, <1>4, <1>5, <1>6, MessagePlain, GroupPlain, ProfilePlain, ChatPlain DEF Next, Threads

\* LogAction gives up on an entry only because of a fault, or because a commit
\* through another handle came between its SELECT and its INSERT: never because
\* of another LogAction of the same process.
THEOREM DropsExplained == Spec => DroppedOnlyByOthers
<1>1. Init => HandleInv /\ ResidentInv
  BY DEF Init, SqliteInit, MessageInit, ChatInit, NoMail, HandleInv, ResidentInv, Threads
<1>2. TablesInv /\ HandleInv /\ ResidentInv /\ [Next]_vars => HandleInv' /\ ResidentInv'
  BY HandlesStep, ResidentStep
<1>3. TablesInv /\ HandleInv /\ ResidentInv /\ [Next]_vars =>
          [\A t \in Threads :
              (/\ pc[t] \in {"log", "insert"}
               /\ pc'[t] \notin {"log", "insert"}
               /\ rows' = rows)
              => \/ faults' > faults
                 \/ stale[t] \ {Handle(t, "audit")} # {}]_<<sqliteVars, auditVars>>
  BY DroppedStep
<1> QED
  BY <1>1, <1>2, <1>3, InitTables, StepTables, PTL DEF Spec, DroppedOnlyByOthers

-----------------------------------------------------------------------------
(* What the screen shows when nothing is in flight.                        *)

\* The message is in the history, or its store met a cause to fail.
Recorded(id) == id \in unlucky \/ id \in InHistory

\* The load that has read last covers id, wherever its result is.
LastCovers(id) ==
    /\ \A w \in Workers : pc[w] = "loaded" /\ nth[w] = reads => Covers(loaded[w], id)
    /\ shown = reads => Covers(screen, id)

\* Every message whose result was delivered without an error is in the history,
\* and the load that has read last covers it, unless one has yet to read.
ScreenInv ==
    /\ \A id \in handled \ unlucky : err \/ id \in InHistory
    /\ \A id \in handled \ unlucky : err \/ (\E w \in Workers : pc[w] = "load") \/ LastCovers(id)
    /\ \A w \in Workers : pc[w] = "sent" /\ mail[w].acked => Recorded(mail[w].id)
    /\ \A w \in Workers : nth[w] <= reads
    /\ shown <= reads

\* What is known of a message or of a load stays true while the screen is left
\* alone and no load is.
LEMMA ScreenFrame ==
    ASSUME ScreenInv, UNCHANGED <<created, err, screen, loaded, handled, reads, nth, shown>>,
           unlucky \subseteq unlucky', InHistory \subseteq InHistory',
           \A w \in Workers : pc[w] = "load" => pc'[w] = "load",
           \A w \in Workers : pc'[w] = "loaded" => pc[w] = "loaded",
           \A w \in Workers : pc'[w] = "sent" /\ mail'[w].acked =>
               \/ pc[w] = "sent" /\ mail'[w] = mail[w]
               \/ mail'[w].id \in unlucky' \cup InHistory'
    PROVE  ScreenInv'
<1>1. UNCHANGED <<created, err, screen, loaded, handled, reads, nth, shown>>
  OBVIOUS
<1>2. ASSUME NEW id \in handled' \ unlucky' PROVE err' \/ id \in InHistory'
  BY <1>1, <1>2 DEF ScreenInv
<1>3. ASSUME NEW id \in handled' \ unlucky'
      PROVE  err' \/ (\E w \in Workers : pc'[w] = "load") \/ LastCovers(id)'
  <2>1. err \/ (\E w \in Workers : pc[w] = "load") \/ LastCovers(id)
    BY <1>1, <1>3 DEF ScreenInv
  <2>2. LastCovers(id) => LastCovers(id)'
    BY <1>1 DEF LastCovers, Covers
  <2> QED
    BY <1>1, <2>1, <2>2
<1>4. ASSUME NEW w \in Workers, pc'[w] = "sent", mail'[w].acked
      PROVE  mail'[w].id \in unlucky' \cup InHistory'
  BY <1>4 DEF ScreenInv, Recorded
<1>5. (\A w \in Workers : nth'[w] <= reads') /\ shown' <= reads'
  BY <1>1 DEF ScreenInv
<1> QED
  BY <1>2, <1>3, <1>4, <1>5 DEF ScreenInv, Recorded

\* The steps of the messages and of the daemon: a message is sent once its row
\* was written, or failed to be.
LEMMA MessageScreen ==
    ASSUME SqliteInv, MailInv, ReadableInv, ScreenInv, NEW t \in Threads, MessageStep(t),
           UNCHANGED chatVars
    PROVE  ScreenInv'
<1>1. mail \in [Threads -> Mail] /\ pc \in [Threads -> Places]
  BY DEF MailInv, MailsOK, SqliteInv
<1>2. \A w \in Workers : w \in Threads
  BY DEF Threads
<1>3. CASE Store(t) \/ StoreFails(t)
  <2>1. PICK m \in Mail : m = mail[t]
    BY <1>1
  <2>2. /\ unlucky \subseteq unlucky' /\ InHistory \subseteq InHistory'
        /\ m.id \in Numbers => m.id \in unlucky' \cup InHistory'
    BY <1>3, <2>1, StoreRecords DEF InHistory
  <2>3. m.kind = "send" => m.id \in Numbers
    BY <2>1 DEF MailInv, MailsOK, MailHas
  <2>4. Stored(t) /\ pc[t] = "store"
    BY <1>3 DEF Store, StoreFails
  <2>5. \/ m.kind = "send" /\ mail' = mail /\ Goto(t, "sent")
        \/ (\E x : mail' = [mail EXCEPT ![t] = x]) /\ (Goto(t, "idle") \/ Goto(t, "log"))
    <3>1. mail = [mail EXCEPT ![t] = m]
      BY <1>1, <2>1
    <3> QED
      BY <2>1, <2>4, <3>1 DEF Stored, Log
  <2>6. \A w \in Workers : /\ pc[w] = "load" => pc'[w] = "load"
                           /\ pc'[w] = "loaded" => pc[w] = "loaded"
    BY <1>1, <1>2, <2>4, <2>5 DEF Goto
  <2>7. ASSUME NEW w \in Workers, pc'[w] = "sent"
        PROVE  \/ pc[w] = "sent" /\ mail'[w] = mail[w]
               \/ mail'[w].id \in unlucky' \cup InHistory'
    <3>1. CASE w = t
      BY <1>1, <1>2, <2>1, <2>2, <2>3, <2>5, <2>7, <3>1 DEF Goto
    <3>2. CASE w # t
      BY <1>1, <1>2, <2>5, <2>7, <3>2 DEF Goto
    <3> QED
      BY <3>1, <3>2
  <2> QED
    BY <2>2, <2>6, <2>7, ScreenFrame DEF chatVars
<1>4. CASE ~(Store(t) \/ StoreFails(t))
  <2>1. UNCHANGED <<history, unlucky>>
    BY <1>4 DEF MessageStep, Send, SendQueued, ReadInbox, Retry, MigrateCommand, Receive, Reply,
          NextOfInbox, OpenStore, StoreKnown, Migrate, Rename, mailVars
  <2>2. InHistory' = InHistory
    BY <2>1 DEF InHistory
  <2>3. /\ pc[t] \in {"idle", "inbox", "open", "migrate", "rename"}
        /\ pc' = pc \/ \E place \in {"open", "inbox", "idle", "store", "migrate", "rename"} :
                          Goto(t, place)
    BY <1>4 DEF MessageStep, Send, SendQueued, ReadInbox, Retry, MigrateCommand, Receive, Reply,
          Begins, Start, NextOfInbox, OpenStore, Stat, StoreKnown, Migrate, Rename, Opens
  <2>4. \A w \in Workers : /\ pc[w] = "load" => pc'[w] = "load"
                           /\ pc'[w] = "loaded" => pc[w] = "loaded"
    BY <1>1, <1>2, <2>3 DEF Goto
  <2>5. \A w \in Workers : pc'[w] = "sent" => pc[w] = "sent" /\ w # t
    BY <1>1, <1>2, <2>3 DEF Goto
  <2>6. \A u \in Threads \ {t} : mail'[u] = mail[u]
    BY <1>1, <1>4 DEF MessageStep, Send, SendQueued, ReadInbox, Retry, MigrateCommand, Receive,
          Reply, Takes, NextOfInbox, OpenStore, StoreKnown, Migrate, Rename, mailVars
  <2> QED
    BY <1>2, <2>1, <2>2, <2>4, <2>5, <2>6, ScreenFrame DEF chatVars
<1> QED
  BY <1>3, <1>4

\* The steps of the chat screen: a result without an error is followed by a
\* load, which reads what is in the history by then.
LEMMA ChatScreen ==
    ASSUME SqliteInv, MailInv, ScreenInv, ChatInv, NEW w \in Workers, ChatStep(w)
    PROVE  ScreenInv'
<1>1. /\ mail \in [Threads -> Mail] /\ pc \in [Threads -> Places]
      /\ loaded \in [Workers -> SUBSET Numbers] /\ nth \in [Workers -> Nat]
      /\ reads \in Nat /\ shown \in Nat
  BY DEF MailInv, MailsOK, SqliteInv, ChatInv
<1>2. \A u \in Workers : u \in Threads
  BY DEF Threads
<1>3. UNCHANGED <<history, unlucky>>
  BY DEF ChatStep, OpenChat, Submit, DeliverSent, Load, LoadFails, DeliverLoaded, mailVars
<1>4. InHistory' = InHistory
  BY <1>3 DEF InHistory
<1>5. CASE OpenChat(w)
  <2>1. /\ pc[w] = "idle" /\ Goto(w, "load")
        /\ UNCHANGED <<mail, created, err, screen, loaded, handled, reads, nth, shown>>
    BY <1>5 DEF OpenChat, Begins, Start
  <2>2. \A u \in Workers : pc[u] = "load" \/ pc'[u] \in {"loaded", "sent"} => pc'[u] = pc[u]
    BY <1>1, <1>2, <2>1 DEF Goto
  <2> QED
    BY <1>3, <1>4, <2>1, <2>2, ScreenFrame
<1>6. CASE Submit(w)
  <2>1. PICK place, n, acked :
            /\ pc[w] = "idle" /\ Goto(w, place) /\ Takes(w, "send", n, "text", acked)
            /\ place = "open" \/ (place = "sent" /\ acked = FALSE)
    BY <1>6 DEF Submit, Begins, Start
  <2>2. UNCHANGED <<created, err, screen, loaded, handled, reads, nth, shown>>
    BY <1>6 DEF Submit, chatVars
  <2>3. /\ pc'[w] = place /\ mail'[w].acked = acked
        /\ \A u \in Workers \ {w} : pc'[u] = pc[u] /\ mail'[u] = mail[u]
    BY <1>1, <1>2, <2>1 DEF Goto, Takes
  <2>4. \A u \in Workers : pc[u] = "load" \/ pc'[u] = "loaded" => pc'[u] = pc[u]
    BY <2>1, <2>3
  <2>5. \A u \in Workers : pc'[u] = "sent" /\ mail'[u].acked => pc[u] = "sent" /\ mail'[u] = mail[u]
    BY <2>1, <2>3
  <2> QED
    BY <1>3, <1>4, <2>2, <2>4, <2>5, ScreenFrame
<1>7. CASE DeliverSent(w)
  <2>1. PICK m \in Mail : m = mail[w]
    BY <1>1, <1>2
  <2>2. /\ pc[w] = "sent" /\ handled' = handled \cup {m.id}
        /\ IF m.acked THEN Goto(w, "load") /\ err' = err ELSE err' = TRUE /\ Goto(w, "idle")
        /\ mail' = [mail EXCEPT ![w] = NoMail]
        /\ UNCHANGED <<reads, nth, shown>>
    BY <1>7, <2>1 DEF DeliverSent, SendError
  <2>3. /\ pc'[w] \in {"load", "idle"} /\ (m.acked => pc'[w] = "load")
        /\ \A u \in Workers \ {w} : pc'[u] = pc[u] /\ mail'[u] = mail[u]
    BY <1>1, <1>2, <2>2 DEF Goto
  <2>4. m.acked => m.id \in unlucky \/ m.id \in InHistory
    BY <2>1, <2>2 DEF ScreenInv, Recorded
  <2>5. \A id \in handled' \ unlucky' : err' \/ id \in InHistory'
    BY <1>3, <1>4, <2>2, <2>4 DEF ScreenInv
  <2>6. err' \/ pc'[w] = "load"
    BY <2>2, <2>3
  <2>7. pc'[w] = "load" => \E u \in Workers : pc'[u] = "load"
    OBVIOUS
  <2>8. \A u \in Workers : pc'[u] = "sent" => u # w
    BY <2>3
  <2>9. \A u \in Workers : pc'[u] = "sent" /\ mail'[u].acked => mail'[u].id \in unlucky' \cup InHistory'
    BY <1>3, <1>4, <2>3, <2>8 DEF ScreenInv, Recorded
  <2>10. (\A u \in Workers : nth'[u] <= reads') /\ shown' <= reads'
    BY <2>2 DEF ScreenInv
  <2> QED
    BY <2>5, <2>6, <2>7, <2>9, <2>10 DEF ScreenInv, Recorded
<1>8. CASE Load(w) \/ LoadFails(w) \/ DeliverLoaded(w)
  <2>1. /\ UNCHANGED <<mail, handled>>
        /\ pc[w] \in {"load", "loaded"} /\ (Goto(w, "loaded") \/ Goto(w, "idle"))
        /\ err => err'
    BY <1>8 DEF Load, LoadFails, DeliverLoaded, mailVars
  <2>2. \A u \in Workers \ {w} : pc'[u] = pc[u]
    BY <1>1, <1>2, <2>1 DEF Goto
  <2>3. pc'[w] \in {"loaded", "idle"}
    BY <1>1, <1>2, <2>1 DEF Goto
  <2>4. \A u \in Workers : pc'[u] = "sent" => pc[u] = "sent"
    BY <2>2, <2>3
  <2>5. \A u \in Workers : pc'[u] = "sent" /\ mail'[u].acked => mail'[u].id \in unlucky' \cup InHistory'
    BY <1>3, <1>4, <2>1, <2>4 DEF ScreenInv, Recorded
  <2>6. \A id \in handled' \ unlucky' : err' \/ id \in InHistory'
    BY <1>3, <1>4, <2>1 DEF ScreenInv
  <2>7. CASE Load(w)
    <3>1. PICK N \in Newest(InHistory) : loaded' = [loaded EXCEPT ![w] = N]
      BY <2>7 DEF Load
    <3>2. /\ reads' = reads + 1 /\ nth' = [nth EXCEPT ![w] = reads + 1]
          /\ UNCHANGED <<created, err, screen, shown>>
      BY <2>7 DEF Load
    <3>3. /\ reads < reads' /\ shown <= reads /\ shown < reads'
          /\ \A u \in Workers : nth'[u] <= reads' /\ (nth'[u] = reads' => u = w)
      BY <1>1, <3>2 DEF ScreenInv
    <3>4. loaded'[w] = N
      BY <1>1, <3>1
    <3>5. ASSUME NEW id \in handled' \ unlucky' PROVE err' \/ LastCovers(id)'
      <4>1. CASE id \in InHistory
        <5>1. Covers(N, id)'
          BY <3>2, <4>1 DEF Newest, Covers
        <5>2. ASSUME NEW u \in Workers, nth'[u] = reads' PROVE Covers(loaded[u], id)'
          BY <3>3, <3>4, <5>1, <5>2
        <5>3. shown' # reads'
          BY <3>2, <3>3
        <5> QED
          BY <5>2, <5>3 DEF LastCovers
      <4>2. CASE id \notin InHistory
        BY <1>4, <2>6, <4>2, <3>5
      <4> QED
        BY <4>1, <4>2
    <3>6. (\A u \in Workers : nth'[u] <= reads') /\ shown' <= reads'
      BY <1>1, <3>2, <3>3
    <3> QED
      BY <2>5, <2>6, <3>5, <3>6 DEF ScreenInv, Recorded
  <2>8. CASE LoadFails(w)
    <3>1. err' /\ UNCHANGED <<reads, nth, shown>>
      BY <2>8 DEF LoadFails
    <3> QED
      BY <2>5, <2>6, <3>1 DEF ScreenInv, Recorded
  <2>9. CASE DeliverLoaded(w)
    <3>1. /\ screen' = loaded[w] /\ shown' = nth[w] /\ pc[w] = "loaded"
          /\ loaded' = [loaded EXCEPT ![w] = {}] /\ nth' = [nth EXCEPT ![w] = 0]
          /\ UNCHANGED <<created, err, reads>> /\ Goto(w, "idle")
      BY <2>9 DEF DeliverLoaded
    <3>2. \A u \in Workers \ {w} : nth'[u] = nth[u] /\ loaded'[u] = loaded[u]
      BY <1>1, <3>1
    <3>3. pc'[w] = "idle" /\ nth'[w] = 0
      BY <1>1, <1>2, <3>1 DEF Goto
    <3>4. ASSUME NEW id \in handled' \ unlucky'
          PROVE  err' \/ (\E u \in Workers : pc'[u] = "load") \/ LastCovers(id)'
      <4>1. err \/ (\E u \in Workers : pc[u] = "load") \/ LastCovers(id)
        BY <1>3, <2>1, <3>4 DEF ScreenInv
      <4>2. (\E u \in Workers : pc[u] = "load") => \E u \in Workers : pc'[u] = "load"
        BY <2>2, <3>1
      <4>3. ASSUME LastCovers(id) PROVE LastCovers(id)'
        <5>1. shown' = reads' => Covers(screen, id)'
          BY <3>1, <4>3 DEF LastCovers, Covers
        <5>2. ASSUME NEW u \in Workers, pc'[u] = "loaded", nth'[u] = reads'
              PROVE  Covers(loaded[u], id)'
          <6>1. u # w
            BY <3>3, <5>2
          <6>2. pc[u] = "loaded" /\ nth[u] = reads
            BY <2>2, <3>1, <3>2, <5>2, <6>1
          <6>3. Covers(loaded[u], id)
            BY <4>3, <6>2 DEF LastCovers
          <6> QED
            BY <3>1, <3>2, <6>1, <6>3 DEF Covers
        <5> QED
          BY <5>1, <5>2 DEF LastCovers
      <4> QED
        BY <3>1, <4>1, <4>2, <4>3
    <3>5. (\A u \in Workers : nth'[u] <= reads') /\ shown' <= reads'
      <4>1. 0 <= reads
        BY <1>1
      <4> QED
        BY <3>1, <3>2, <3>3, <4>1 DEF ScreenInv
    <3> QED
      BY <2>5, <2>6, <3>4, <3>5 DEF ScreenInv, Recorded
  <2> QED
    BY <1>8, <2>7, <2>8, <2>9
<1> QED
  BY <1>5, <1>6, <1>7, <1>8 DEF ChatStep

\* The screen's invariant is inductive, with those of the other parts.
LEMMA ScreenStep ==
    ASSUME TablesInv, ScreenInv, [Next]_vars
    PROVE  ScreenInv'
<1> USE DEF TablesInv
<1>1. \A w \in Workers : w \in Threads
  BY DEF Threads
<1>2. ASSUME UNCHANGED <<mailVars, chatVars>>,
             \A w \in Workers : pc[w] = "load" => pc'[w] = "load",
             \A w \in Workers : pc'[w] \in {"loaded", "sent"} => pc'[w] = pc[w]
      PROVE  ScreenInv'
  <2>1. /\ InHistory' = InHistory /\ UNCHANGED <<mail, unlucky>>
        /\ UNCHANGED <<created, err, screen, loaded, handled, reads, nth, shown>>
    BY <1>2 DEF InHistory, mailVars, chatVars
  <2> QED
    BY <1>2, <2>1, ScreenFrame
<1>3. ASSUME NEW t \in Threads, MessageStep(t), UNCHANGED chatVars PROVE ScreenInv'
  BY <1>3, MessageScreen
<1>4. ASSUME NEW w \in Workers, ChatStep(w) PROVE ScreenInv'
  BY <1>4, ChatScreen
<1>5. ASSUME NEW t \in Shells, GroupStep(t) \/ ProfileStep(t), UNCHANGED <<mailVars, chatVars>>
      PROVE  ScreenInv'
  <2>1. PICK places : Plain(t) /\ Moves(t, places)
    BY <1>5, GroupPlain, ProfilePlain
  <2>2. \A w \in Workers : w # t
    BY SqliteAssumption
  <2>3. \A w \in Workers : pc'[w] = pc[w]
    BY <1>1, <2>1, <2>2, PlainFrame DEF Threads
  <2> QED
    BY <1>2, <1>5, <2>3
<1>6. ASSUME NEW t \in Threads, LogStep(t), UNCHANGED <<mailVars, chatVars>> PROVE ScreenInv'
  <2>1. entry[t].then \in {"idle", "inbox"}
    BY DEF FactInv
  <2>2. pc[t] \in {"log", "insert"} /\ \E place \in {"insert", "idle", "inbox"} : Goto(t, place)
    BY <1>6, <2>1 DEF LogStep, ReadTail, ReadFails, Insert, InsertFails, Returns
  <2>3. \A u \in Threads : /\ pc[u] = "load" => pc'[u] = "load"
                           /\ pc'[u] \in {"loaded", "sent"} => pc'[u] = pc[u]
    BY <2>2 DEF Goto, SqliteInv
  <2> QED
    BY <1>1, <1>2, <1>6, <2>3
<1>7. ASSUME NEW p \in Processes, Ends(p), MessageEnds(p),
             IF p = "resident" THEN ChatEnds ELSE UNCHANGED chatVars
      PROVE  ScreenInv'
  <2>1. /\ pc' = [u \in Threads |-> IF Process(u) = p THEN "idle" ELSE pc[u]]
        /\ mail' = [u \in Threads |-> IF Process(u) = p THEN NoMail ELSE mail[u]]
        /\ UNCHANGED <<history, unlucky>>
    BY <1>7 DEF Ends, MessageEnds
  <2>2. \A w \in Workers : Process(w) = "resident"
    BY SqliteAssumption DEF Process
  <2>3. CASE p = "resident"
    <3>1. /\ handled' = {} /\ \A w \in Workers : pc'[w] = "idle"
          /\ shown' <= reads' /\ \A w \in Workers : nth'[w] <= reads'
      BY <1>1, <1>7, <2>1, <2>2, <2>3 DEF ChatEnds
    <3> QED
      BY <3>1 DEF ScreenInv
  <2>4. CASE p # "resident"
    <3>1. \A w \in Workers : pc'[w] = pc[w] /\ mail'[w] = mail[w]
      BY <1>1, <2>1, <2>2, <2>4
    <3>2. UNCHANGED <<created, err, screen, loaded, handled, reads, nth, shown>>
      BY <1>7, <2>4 DEF chatVars
    <3>3. InHistory' = InHistory
      BY <2>1 DEF InHistory
    <3> QED
      BY <2>1, <3>1, <3>2, <3>3, ScreenFrame
  <2> QED
    BY <2>3, <2>4
<1>8. CASE Tamper /\ UNCHANGED <<mailVars, chatVars>>
  BY <1>2, <1>8 DEF Tamper, Edit, Delete, Tampers
<1>9. CASE UNCHANGED vars
  BY <1>2, <1>9 DEF vars, sqliteVars
<1>10. CASE PeerSends /\ UNCHANGED chatVars
  <2>1. UNCHANGED <<pc, mail, history, unlucky>>
    BY <1>10 DEF PeerSends
  <2>2. InHistory' = InHistory
    BY <2>1 DEF InHistory
  <2> QED
    BY <1>10, <2>1, <2>2, ScreenFrame DEF chatVars
<1>11. "resident" \in Processes
  BY DEF Processes
<1> QED
  BY <1>3, <1>4, <1>5, <1>6, <1>7, <1>8, <1>9, <1>10, <1>11 DEF Next, Quit, Crash

\* When nothing is in flight, no error is shown and the load on the screen is the
\* one that was read last, the screen shows every submitted message but those that
\* could not be stored, or is full of messages that are not older; for any limit,
\* and whatever stamps the messages have.
THEOREM ScreenIsCurrent == Spec => []ScreenCurrent
<1>1. Init => ScreenInv
  BY DEF Init, SqliteInit, ChatInit, ScreenInv, Threads
<1>2. TablesInv /\ ScreenInv /\ [Next]_vars => ScreenInv'
  BY ScreenStep
<1>3. TablesInv /\ ScreenInv => ScreenCurrent
  BY DEF ScreenInv, ScreenCurrent, Busy, LastCovers
<1> QED
  BY <1>1, <1>2, <1>3, InitTables, StepTables, PTL DEF Spec

=============================================================================
