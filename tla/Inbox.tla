-------------------------------- MODULE Inbox --------------------------------
(***************************************************************************)
(* The receiving side of one identity: the daemon's watch loop             *)
(* (internal/daemon/daemon.go), the in-memory set of seen events, the rows *)
(* of the message store (internal/storage/message.go) and the processes    *)
(* that write the same rows: `agent msg` to oneself, `agent inbox`, and    *)
(* the goroutines that send auto-replies.                                  *)
(*                                                                         *)
(* An event is <<m, n>>: the message m for n = 0, the automatic answer to  *)
(* <<m, n - 1>> for n > 0.  Answers to one's own messages come back to the *)
(* same inbox; answers to other senders do not.                            *)
(*                                                                         *)
(* Abstracted: of a row, whether it exists and is marked incoming; of a    *)
(* message, whether it can be read and whether it is an auto-reply; of     *)
(* time, the order of created_at stamps and daemon starts.  A sender's     *)
(* stamp may be early (a message that waited in an outbox) or late (a      *)
(* clock that is ahead).                                                   *)
(*                                                                         *)
(* The relays (external) keep what is published and answer a subscription  *)
(* with the newest Limit matches, then with what arrives until it is       *)
(* closed.  Kind 30078 is addressable: of one sender's events without a    *)
(* "d" tag a relay keeps the last.                                         *)
(***************************************************************************)
EXTENDS Integers, Sequences, FiniteSets, SequencesExt

CONSTANTS
    Msgs,      \* messages to this identity
    Own,       \* those it sends itself, with `agent msg`
    Sealed,    \* those that are tagged encrypted and do not decrypt
    AutoMsgs,  \* those that are auto-replies of other daemons
    Relays,
    Limit,     \* the filter's Limit, 10 in watchInbox
    MaxSeen,   \* maxSeenMessages, 10000
    EvictN,    \* how many of the oldest go at once, maxSeenMessages / 10
    MaxClock,  \* bound: the last moment of a behaviour
    MaxFaults  \* bound: crashes and failed writes in a behaviour

ASSUME InboxAssumption ==
    /\ Own \subseteq Msgs /\ Sealed \subseteq Msgs \ Own /\ AutoMsgs \subseteq Msgs \ Own
    /\ IsFiniteSet(Msgs)
    /\ Limit \in Nat \ {0}
    /\ MaxSeen \in Nat /\ EvictN \in 1 .. MaxSeen
    /\ "none" \notin Relays
    /\ MaxClock \in Nat /\ MaxFaults \in Nat

VARIABLES
    clock,
    relay,     \* the events each relay holds
    created,   \* each published event's created_at
    up,        \* is the daemon running?
    since,     \* when it was started
    seen,      \* the seen set, oldest first
    todo,      \* relays this watch tick has not polled
    watched,   \* the relay it is subscribed to, or "none"
    storeErr,  \* could its message store not be opened?  Then it never will be
    batch,     \* events delivered and not yet handled
    rows,      \* the message store
    replying,  \* events whose auto-reply is to be published, or stored
    own,       \* each `agent msg` to oneself
    faults,
    (* Observations, read by no guard. *)
    answered,  \* how often the daemon decided to answer each event
    unstored,  \* events whose row could not be written when they arrived
    forgotten  \* events that were answered and then left out of the seen set

daemon == <<up, since, seen, todo, watched, storeErr>>
observed == <<answered, unstored, forgotten>>
vars == <<clock, relay, created, up, since, seen, todo, watched, storeErr,
          batch, rows, replying, own, faults, answered, unstored, forgotten>>

MaxGen == 1   \* bound: answers to answers are counted, not published
Events == Msgs \X (0 .. MaxGen)
Reply(e) == <<e[1], e[2] + 1>>

Mine(e)     == e[2] = 0 \/ e[1] \in Own      \* addressed to this identity
Readable(e) == e[1] \notin Sealed
IsAutoReply(e) == e[2] > 0 \/ e[1] \in AutoMsgs

-----------------------------------------------------------------------------
(* Pure parts.                                                             *)

Seen == ToSet(seen)

\* Seeded fault: the seen set is not bounded.
AddUnbounded(s, e) == IF e \in ToSet(s) THEN s ELSE Append(s, e)

\* seenSet.Add.
Add(s, e) ==
    IF e \in ToSet(s) THEN s
    ELSE LET t == Append(s, e)
         IN  IF Len(t) > MaxSeen THEN SubSeq(t, EvictN + 1, Len(t)) ELSE t

ShouldAutoReply(e) == Readable(e) /\ ~IsAutoReply(e)

\* Seeded fault: the last writer wins.
UpsertLast(row, incoming) == IF incoming THEN "incoming" ELSE "outgoing"

\* The UPSERT of StoreMessage.
Upsert(row, incoming) ==
    IF incoming \/ row = "incoming" THEN "incoming" ELSE "outgoing"

\* Seeded fault: the query does not ask for is_incoming = 1.
ArrivedOrSent == {e \in Events : rows[e] # "absent"}

Arrived == {e \in Events : rows[e] = "incoming"}

\* What GetRecentIncomingEventIDs(MaxSeen) may return: the newest, newest
\* first, those of one moment in any order.
Recents ==
    LET n == Min({MaxSeen, Cardinality(Arrived)})
    IN  {ids \in [1 .. n -> Arrived] :
            /\ IsInjective(ids)
            /\ \A i \in 1 .. n :
                  /\ \A j \in i .. n : created[ids[i]] >= created[ids[j]]
                  /\ \A e \in Arrived \ ToSet(ids) : created[ids[i]] >= created[e]}

\* Seeded fault: a restarted daemon has seen nothing.
PreloadedNothing(ids) == <<>>

\* preloadRecentSeen: one ID after the other into an empty seen set.
Preloaded(ids) ==
    LET adding[n \in 0 .. Len(ids)] ==
            IF n = 0 THEN <<>> ELSE Add(adding[n - 1], ids[n])
    IN  adding[Len(ids)]

Matches(e) == Mine(e) /\ created[e] >= since

\* What relay r may answer: the newest Limit matches.
Answers(r) ==
    LET found == {e \in relay[r] : Matches(e)}
    IN  {N \in SUBSET found :
            /\ Cardinality(N) = Min({Limit, Cardinality(found)})
            /\ \A e \in N, f \in found \ N : created[e] >= created[f]}

-----------------------------------------------------------------------------
(* Publishing.                                                             *)

\* e, stamped at, replaces `gone` on the relays in R; an open subscription to
\* one of them passes it on.
Publish(e, at, R, gone) ==
    /\ relay' = [r \in Relays |-> IF r \in R THEN (relay[r] \ gone) \cup {e} ELSE relay[r]]
    /\ created' = [created EXCEPT ![e] = at]
    /\ batch' = IF watched \in R /\ Mine(e) /\ at >= since THEN batch \cup {e} ELSE batch

\* Another process sends m; stamp and arrival need not agree.
PeerSends(m) ==
    \E at \in 0 .. MaxClock, R \in SUBSET Relays \ {{}} :
        /\ created[<<m, 0>>] = -1
        /\ Publish(<<m, 0>>, at, R, {})
        /\ UNCHANGED <<clock, daemon, rows, replying, own, faults, observed>>

\* `agent msg` to oneself: publish first, then store.
OwnSends(m) ==
    \E R \in SUBSET Relays \ {{}} :
        /\ own[m] = "new"
        /\ Publish(<<m, 0>>, clock, R, {})
        /\ own' = [own EXCEPT ![m] = "published"]
        /\ UNCHANGED <<clock, daemon, rows, replying, faults, observed>>

\* StoreMessage: the row is written, or the write fails.
Store(e, incoming) ==
    \/ /\ rows' = [rows EXCEPT ![e] = Upsert(@, incoming)]
       /\ UNCHANGED faults
    \/ /\ faults < MaxFaults
       /\ faults' = faults + 1
       /\ UNCHANGED rows

\* The same in the daemon: InitStorage keeps the error of its first call.
DaemonStore(e, incoming) ==
    IF storeErr THEN UNCHANGED <<rows, faults>> ELSE Store(e, incoming)

OwnStores(m) ==
    /\ own[m] = "published"
    /\ Store(<<m, 0>>, FALSE)
    /\ own' = [own EXCEPT ![m] = "done"]
    /\ UNCHANGED <<clock, relay, created, daemon, batch, replying, observed>>

\* `agent inbox` stores what the relays return, however old, as incoming.
InboxCommand(e) ==
    /\ Mine(e) /\ \E r \in Relays : e \in relay[r]
    /\ rows' = [rows EXCEPT ![e] = Upsert(@, TRUE)]
    /\ UNCHANGED <<clock, relay, created, daemon, batch, replying, own, faults, observed>>

-----------------------------------------------------------------------------
(* The daemon.                                                             *)

\* A watch tick, taken when the previous one is through with all relays.
WatchBegin ==
    /\ up /\ watched = "none" /\ todo = {}
    /\ todo' = Relays
    /\ UNCHANGED <<clock, relay, created, up, since, seen, watched, storeErr, batch,
                   rows, replying, own, faults, observed>>

Subscribe(r) ==
    /\ watched = "none" /\ r \in todo
    /\ todo' = todo \ {r}
    /\ watched' = r
    /\ batch' \in Answers(r)
    /\ UNCHANGED <<clock, relay, created, up, since, seen, storeErr, rows,
                   replying, own, faults, observed>>

\* The relay cannot be reached: it is skipped until the next tick.
SkipRelay(r) ==
    /\ watched = "none" /\ r \in todo
    /\ todo' = todo \ {r}
    /\ UNCHANGED <<clock, relay, created, up, since, seen, watched, storeErr,
                   batch, rows, replying, own, faults, observed>>

HandleKnown(e) ==
    /\ e \in batch /\ e \in Seen
    /\ batch' = batch \ {e}
    /\ UNCHANGED <<clock, relay, created, daemon, rows, replying, own, faults, observed>>

\* Marked as seen, stored, and an answer started in a goroutine; a failed
\* store is only printed.
HandleNew(e) ==
    LET known == Add(seen, e)
    IN  /\ e \in batch /\ e \notin Seen
        /\ batch' = batch \ {e}
        /\ seen' = known
        /\ DaemonStore(e, TRUE)
        /\ unstored' = IF rows'[e] = "incoming" THEN unstored ELSE unstored \cup {e}
        /\ answered' = [answered EXCEPT ![e] =
               IF ShouldAutoReply(e) /\ @ < 2 THEN @ + 1 ELSE @]
        /\ replying' = [replying EXCEPT ![e] =
               IF ShouldAutoReply(e) /\ e[2] < MaxGen THEN "publish" ELSE @]
        /\ forgotten' = forgotten \cup
               {f \in (Seen \cup {e}) \ ToSet(known) : answered'[f] > 0}
        /\ UNCHANGED <<clock, relay, created, up, since, todo, watched, storeErr, own>>

\* subscribeWindow ends, whether or not everything was handled.
CloseWindow ==
    /\ watched # "none"
    /\ watched' = "none"
    /\ batch' = {}
    /\ UNCHANGED <<clock, relay, created, up, since, seen, todo, storeErr,
                   rows, replying, own, faults, observed>>

\* sendAutoReply stops at the first relay that takes the answer; the answer
\* carries no "d" tag.
PublishReply(e) ==
    /\ replying[e] = "publish"
    /\ \/ \E r \in Relays :
             Publish(Reply(e), clock, {r}, {f \in Events : f[2] > 0 /\ f # Reply(e)})
       \/ UNCHANGED <<relay, created, batch>>
    /\ replying' = [replying EXCEPT ![e] = "store"]
    /\ UNCHANGED <<clock, daemon, rows, own, faults, observed>>

StoreReply(e) ==
    /\ replying[e] = "store"
    /\ DaemonStore(Reply(e), FALSE)
    /\ replying' = [replying EXCEPT ![e] = "no"]
    /\ UNCHANGED <<clock, relay, created, daemon, batch, own, observed>>

\* The daemon is killed, its goroutines with it.
Crash ==
    /\ up /\ faults < MaxFaults
    /\ faults' = faults + 1
    /\ up' = FALSE /\ since' = 0
    /\ seen' = <<>> /\ storeErr' = FALSE
    /\ todo' = {} /\ watched' = "none" /\ batch' = {}
    /\ replying' = [e \in Events |-> "no"]
    /\ UNCHANGED <<clock, relay, created, rows, own, observed>>

\* preloadRecentSeen, then since.  An error of the query, or of opening the
\* store, is only printed.
Start ==
    /\ ~up
    /\ up' = TRUE
    /\ since' = clock
    /\ \/ /\ \E ids \in Recents :
                /\ seen' = Preloaded(ids)
                /\ forgotten' = forgotten \cup {e \in Arrived \ ToSet(ids) : answered[e] > 0}
          /\ UNCHANGED <<storeErr, faults>>
       \/ /\ faults < MaxFaults
          /\ faults' = faults + 1
          /\ seen' = <<>>
          /\ storeErr' \in BOOLEAN
          /\ forgotten' = forgotten \cup {e \in Arrived : answered[e] > 0}
    /\ UNCHANGED <<clock, relay, created, todo, watched, batch, rows, replying,
                   own, answered, unstored>>

Tick ==
    /\ clock < MaxClock
    /\ clock' = clock + 1
    /\ UNCHANGED <<relay, created, daemon, batch, rows, replying, own, faults, observed>>

Init ==
    /\ clock = 0
    /\ relay = [r \in Relays |-> {}]
    /\ created = [e \in Events |-> -1]
    /\ up = FALSE
    /\ since = 0
    /\ seen = <<>>
    /\ todo = {}
    /\ watched = "none"
    /\ storeErr = FALSE
    /\ batch = {}
    /\ rows = [e \in Events |-> "absent"]
    /\ replying = [e \in Events |-> "no"]
    /\ own = [m \in Own |-> "new"]
    /\ faults = 0
    /\ answered = [e \in Events |-> 0]
    /\ unstored = {}
    /\ forgotten = {}

DaemonStep ==
    \/ WatchBegin \/ CloseWindow
    \/ \E r \in Relays : Subscribe(r) \/ SkipRelay(r)
    \/ \E e \in Events : HandleKnown(e) \/ HandleNew(e) \/ PublishReply(e) \/ StoreReply(e)
    \/ Start

Next ==
    \/ DaemonStep
    \/ \E m \in Msgs \ Own : PeerSends(m)
    \/ \E m \in Own : OwnSends(m) \/ OwnStores(m)
    \/ \E e \in Events : InboxCommand(e)
    \/ Crash
    \/ Tick

Spec == Init /\ [][Next]_vars

\* The daemon's loop runs and is restarted; every relay is tried in every tick,
\* with whatever luck; and handling an event that is delivered again and again
\* is not for ever slower than the three seconds of the window.
Fairness ==
    /\ WF_vars(WatchBegin) /\ WF_vars(CloseWindow) /\ WF_vars(Start)
    /\ \A r \in Relays : WF_vars(Subscribe(r) \/ SkipRelay(r))
    /\ \A e \in Events : SF_vars(HandleKnown(e) \/ HandleNew(e))

FairSpec == Spec /\ Fairness

-----------------------------------------------------------------------------
(* Properties.                                                             *)

\* The type of every variable, and the bound on the seen set.
TypeOK ==
    /\ clock \in 0 .. MaxClock
    /\ relay \in [Relays -> SUBSET Events]
    /\ created \in [Events -> -1 .. MaxClock]
    /\ up \in BOOLEAN
    /\ since \in 0 .. MaxClock
    /\ seen \in Seq(Events) /\ Len(seen) <= MaxSeen
    /\ todo \subseteq Relays
    /\ watched \in Relays \cup {"none"}
    /\ storeErr \in BOOLEAN
    /\ batch \subseteq Events
    /\ rows \in [Events -> {"absent", "outgoing", "incoming"}]
    /\ replying \in [Events -> {"no", "publish", "store"}]
    /\ own \in [Own -> {"new", "published", "done"}]
    /\ faults \in 0 .. MaxFaults
    /\ answered \in [Events -> 0 .. 2]
    /\ unstored \subseteq Events
    /\ forgotten \subseteq Events

\* Once an arrival is recorded it stays recorded, whichever order the echo and
\* the sender's own write reach the store in: is_incoming is monotonic.
ArrivalKept ==
    [][\A e \in Events : rows[e] = "incoming" => rows'[e] = "incoming"]_vars

\* An event is answered at most once, across relays, subscriptions and daemon
\* restarts, unless its row could not be written or the seen set overflowed.
AnsweredOnce ==
    \A e \in Events : answered[e] <= 1 \/ e \in unstored \cup forgotten

\* Publishing never makes another message vanish from a relay: without a "d"
\* tag of their own, messages of one sender "would evict each other".
NoEviction ==
    [][\A r \in Relays : relay[r] \subseteq relay'[r]]_vars

\* e is on r and every answer r can give has it.
Assured(e, r) ==
    /\ e \in relay[r] /\ Matches(e) /\ up
    /\ Cardinality({f \in relay[r] \ {e} : Matches(f) /\ created[f] >= created[e]}) < Limit

\* A message that one relay keeps offering is stored as arrived in the end, if
\* that relay can be reached again and again, whatever the others do, and
\* unless the write fails.
Arrives ==
    \A m \in Msgs, r \in Relays :
        <>[]Assured(<<m, 0>>, r) /\ []<><<Subscribe(r)>>_vars =>
            <>(rows[<<m, 0>>] = "incoming" \/ <<m, 0>> \in unstored)

=============================================================================
