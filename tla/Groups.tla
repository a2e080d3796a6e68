-------------------------------- MODULE Groups --------------------------------
(***************************************************************************)
(* group create, add-member and leave on the tables groups and             *)
(* group_members.  No command removes others or deletes a group: those     *)
(* print "not yet implemented", and DeleteGroup and StoreGroupMessage have *)
(* no caller.  All groups have the same name: which one a name means is    *)
(* any of the groups of that name its user is a member of, the one touched *)
(* last, to the second.  Roles, nicknames and descriptions are left out.   *)
(***************************************************************************)
EXTENDS AuditLog

CONSTANTS
    Npubs,  \* people and agents
    Mine    \* those of them that are identities of the keystore

ASSUME GroupsAssumption == Mine \subseteq Npubs /\ "none" \notin Npubs

VARIABLES
    creator,  \* of each group, "none" when there is no row
    member,   \* whether each of Npubs is "no", a "member" or an "admin" of it
    task,     \* the group a command works on, for whom, and whom it still has to write
    made,     \* groups whose CreateGroup succeeded, and with whom
    ever,     \* who has been a member of what
    left      \* who has left what

groupVars == <<creator, member, task, made, ever, left>>

NoTask == [group |-> 0, who |-> "none", todo |-> {}, what |-> "none"]

GroupFact(t, what, npub) == [what |-> what, id |-> task[t].group, npub |-> npub]

\* The command fails: its error is printed and nothing is logged or undone.
Fails(t) ==
    /\ Goto(t, "idle")
    /\ task' = [task EXCEPT ![t] = NoTask]
    /\ UNCHANGED <<auditVars, creator, member, made, ever, left>>

\* GetGroupsForUser, and the first of them that has the name.
Find(t, who, job, what, todo) ==
    /\ \E g \in Numbers :
          /\ member[g][who] # "no"
          /\ task' = [task EXCEPT ![t] = [group |-> g, who |-> who,
                                          todo |-> todo, what |-> what]]
    /\ Start(t, job, job)
    /\ UNCHANGED <<auditVars, creator, member, made, ever, left>>

-----------------------------------------------------------------------------
(* group create.                                                           *)

CreateGroup(t) ==
    /\ Start(t, "create", "create")
    /\ \E who \in Mine : \E others \in SUBSET (Npubs \ {who}) :
          task' = [task EXCEPT ![t] = [group |-> begun + 1, who |-> who,
                                       todo |-> others \cup {who}, what |-> "created"]]
    /\ UNCHANGED <<auditVars, creator, member, made, ever, left>>

InsertGroup(t) ==
    /\ pc[t] = "create"
    /\ Executes(t)
    /\ Goto(t, "members")
    /\ creator' = [creator EXCEPT ![task[t].group] = task[t].who]
    /\ UNCHANGED <<auditVars, member, task, made, ever, left>>

\* The creator comes first, the others in the order they were given.
InsertMember(t) ==
    LET g == task[t].group
    IN  /\ pc[t] = "members"
        /\ \E npub \in task[t].todo :
              /\ task[t].who \in task[t].todo => npub = task[t].who
              /\ member[g][npub] = "no"
              /\ member' = [member EXCEPT ![g][npub] =
                               IF npub = task[t].who THEN "admin" ELSE "member"]
              /\ ever' = ever \cup {<<g, npub>>}
              /\ task' = [task EXCEPT ![t].todo = @ \ {npub}]
        /\ Executes(t)
        /\ UNCHANGED <<auditVars, pc, creator, made, left>>

\* GetGroup has read the group back, with the members it counts.
GroupCreated(t) ==
    /\ pc[t] = "members"
    /\ task[t].todo = {}
    /\ Reads
    /\ Log(t, GroupFact(t, "created", "none"), "idle")
    /\ made' = made \cup {[group |-> task[t].group,
                           with  |-> {n \in Npubs : <<task[t].group, n>> \in ever}]}
    /\ task' = [task EXCEPT ![t] = NoTask]
    /\ UNCHANGED <<creator, member, ever, left>>

-----------------------------------------------------------------------------
(* group add-member and group leave: one statement for the member, one for *)
(* updated_at.                                                             *)

FindToAdd(t) ==
    \E who \in Mine, npub \in Npubs : Find(t, who, "add-member", "added", {npub})

FindToLeave(t) ==
    \E who \in Mine : Find(t, who, "leave", "removed", {who})

\* Seeded fault: INSERT OR REPLACE.
InsertOrReplace(t) ==
    LET g == task[t].group
    IN  /\ pc[t] = "add-member"
        /\ \E npub \in task[t].todo :
              /\ member' = [member EXCEPT ![g][npub] = "member"]
              /\ ever' = ever \cup {<<g, npub>>}
        /\ Executes(t)
        /\ Goto(t, "touch")
        /\ UNCHANGED <<auditVars, creator, task, made, left>>

\* INSERT OR IGNORE: a row that is there stays what it is.
InsertOrIgnore(t) ==
    LET g == task[t].group
    IN  /\ pc[t] = "add-member"
        /\ \E npub \in task[t].todo :
              IF member[g][npub] = "no"
              THEN /\ member' = [member EXCEPT ![g][npub] = "member"]
                   /\ ever' = ever \cup {<<g, npub>>}
                   /\ Executes(t)
              ELSE Reads /\ UNCHANGED <<member, ever>>
        /\ Goto(t, "touch")
        /\ UNCHANGED <<auditVars, creator, task, made, left>>

DeleteMember(t) ==
    LET g == task[t].group
    IN  /\ pc[t] = "leave"
        /\ member' = [member EXCEPT ![g][task[t].who] = "no"]
        /\ left' = left \cup {<<g, task[t].who>>}
        /\ IF member[g][task[t].who] = "no" THEN Reads ELSE Executes(t)
        /\ Goto(t, "touch")
        /\ UNCHANGED <<auditVars, creator, task, made, ever>>

Touch(t) ==
    /\ pc[t] = "touch"
    /\ Executes(t)
    /\ \E npub \in task[t].todo : Log(t, GroupFact(t, task[t].what, npub), "idle")
    /\ task' = [task EXCEPT ![t] = NoTask]
    /\ UNCHANGED <<creator, member, made, ever, left>>

\* Seeded fault: add-member goes on when AddMember has failed.
FailsAndLogs(t) ==
    /\ pc[t] \in {"create", "members", "add-member", "leave", "touch"}
    /\ Breaks
    /\ \E npub \in Npubs : Log(t, GroupFact(t, task[t].what, npub), "idle")
    /\ task' = [task EXCEPT ![t] = NoTask]
    /\ UNCHANGED <<creator, member, made, ever, left>>

\* Another process has added the member before CreateGroup got to it.
MemberExists(t) ==
    /\ pc[t] = "members"
    /\ \E npub \in task[t].todo : member[task[t].group][npub] # "no"
    /\ Reads
    /\ Fails(t)

\* Any of the statements fails, or the read of GetGroup after them.
StatementFails(t) ==
    /\ pc[t] \in {"create", "members", "add-member", "leave", "touch"}
    /\ Breaks
    /\ Fails(t)

GroupStep(t) ==
    \/ CreateGroup(t) \/ InsertGroup(t) \/ InsertMember(t) \/ MemberExists(t)
    \/ GroupCreated(t)
    \/ FindToAdd(t) \/ InsertOrIgnore(t)
    \/ FindToLeave(t) \/ DeleteMember(t)
    \/ Touch(t)
    \/ StatementFails(t)

GroupEnds(p) ==
    /\ task' = [t \in Threads |-> IF Process(t) = p THEN NoTask ELSE task[t]]
    /\ UNCHANGED <<creator, member, made, ever, left>>

GroupInit ==
    /\ creator = [g \in Numbers |-> "none"]
    /\ member = [g \in Numbers |-> [n \in Npubs |-> "no"]]
    /\ task = [t \in Threads |-> NoTask]
    /\ made = {}
    /\ ever = {}
    /\ left = {}

-----------------------------------------------------------------------------
\* Whoever created a group is its administrator until they leave it, whatever
\* add-member does meanwhile in other processes: adding a member again does not
\* demote them.
CreatorIsAdmin ==
    \A m \in made :
        LET g == m.group
        IN  <<g, creator[g]>> \in left \/ member[g][creator[g]] = "admin"

\* What the log says of groups is true: a group it calls created has a row and
\* had all its members, whom it calls added has been a member, whom it calls
\* removed has left.
GroupLogTellsTruth ==
    \A row \in written :
        LET id == row.fact.id npub == row.fact.npub
        IN  /\ row.fact.what = "created" => \E m \in made : m.group = id /\ creator[id] \in m.with
            /\ row.fact.what = "added"   => <<id, npub>> \in ever
            /\ row.fact.what = "removed" => <<id, npub>> \in left
=============================================================================
