----------------------------- MODULE Inbox_proofs -----------------------------
(***************************************************************************)
(* Theorems about Inbox, for any messages and relays, any size of the seen *)
(* set, and any number of crashes and failed writes.                       *)
(*                                                                         *)
(* The argument for AnsweredOnce: of an event that was answered the row    *)
(* stays, which no other writer takes back, and the running daemon has it  *)
(* in the seen set; a restart fills the seen set from the rows.  What      *)
(* falls out of either is counted in unstored or forgotten.                *)
(***************************************************************************)
EXTENDS Inbox, FiniteSetTheorems, SequenceTheorems, WellFoundedInduction, TLAPS

SeenSets == {s \in Seq(Events) : Len(s) <= MaxSeen}

\* Answers are sent to messages only, so that they are events themselves.
Answerable == \A e \in Events : replying[e] # "no" => e[2] < MaxGen

TypeInv == TypeOK /\ Answerable

\* An event that was answered is recorded, and known to the running daemon.
Remembered ==
    \A e \in Events : answered[e] > 0 /\ e \notin unstored \cup forgotten =>
        /\ rows[e] = "incoming"
        /\ up => e \in Seen

\* A daemon that is down polls nothing and has nothing to handle.
Quiet == ~up => todo = {} /\ watched = "none" /\ batch = {}

\* The inductive invariant of AnsweredOnce.
OnceInv == TypeInv /\ Quiet /\ Remembered /\ AnsweredOnce

-----------------------------------------------------------------------------
(* The seen set.                                                           *)

\* A set of naturals that is not empty has a least element.
LEMMA Least ==
    ASSUME NEW T \in SUBSET Nat, T # {}
    PROVE  \E n \in T : \A k \in T : n <= k
<1>1. \E n \in T : \A k \in Nat : k < n => k \notin T
  <2>1. IsWellFoundedOn(OpToRel(<, Nat), Nat)
    BY NatLessThanWellFounded
  <2>2. \E n \in T : \A k \in T : ~(<<k, n>> \in OpToRel(<, Nat))
    BY <2>1, WFMin
  <2> QED
    BY <2>2 DEF OpToRel
<1> QED
  BY <1>1

\* Add keeps the bound, adds the event, and evicts only when the set is full.
LEMMA AddProperties ==
    ASSUME NEW s \in SeenSets, NEW e \in Events
    PROVE  /\ Add(s, e) \in SeenSets
           /\ e \notin ToSet(s) /\ Len(s) < MaxSeen => Add(s, e) = Append(s, e)
<1> DEFINE t == Append(s, e)
<1>1. /\ s \in Seq(Events) /\ Len(s) \in Nat /\ Len(s) <= MaxSeen
      /\ MaxSeen \in Nat /\ EvictN \in 1 .. MaxSeen
  BY LenProperties, InboxAssumption DEF SeenSets
<1>2. t \in Seq(Events) /\ Len(t) = Len(s) + 1
  BY <1>1, AppendProperties
<1>3. CASE e \in ToSet(s)
  BY <1>3 DEF Add
<1>4. CASE e \notin ToSet(s) /\ Len(t) <= MaxSeen
  <2>1. Add(s, e) = t
    BY <1>1, <1>2, <1>4 DEF Add
  <2> QED
    BY <1>2, <1>4, <2>1 DEF SeenSets
<1>5. CASE e \notin ToSet(s) /\ Len(t) > MaxSeen
  <2>1. Add(s, e) = SubSeq(t, EvictN + 1, Len(t))
    BY <1>5 DEF Add
  <2> HIDE DEF t
  <2>2. \A i \in EvictN + 1 .. Len(t) : t[i] \in Events
    BY <1>1, <1>2, ElementOfSeq
  <2>3. /\ SubSeq(t, EvictN + 1, Len(t)) \in Seq(Events)
        /\ Len(SubSeq(t, EvictN + 1, Len(t)))
             = IF EvictN + 1 <= Len(t) THEN Len(t) - (EvictN + 1) + 1 ELSE 0
    BY <1>1, <1>2, <2>2, SubSeqProperties
  <2> QED
    BY <1>1, <1>2, <1>5, <2>1, <2>3 DEF SeenSets
<1> QED
  BY <1>1, <1>2, <1>3, <1>4, <1>5

\* Adding at most MaxSeen different events to an empty seen set keeps them all.
LEMMA PreloadedAll ==
    ASSUME NEW ids \in Seq(Events), Len(ids) <= MaxSeen, IsInjective(ids)
    PROVE  Preloaded(ids) = ids
<1> DEFINE N == Len(ids)
           IsAdding(f) == f = [n \in 0 .. N |->
                                  IF n = 0 THEN <<>> ELSE Add(f[n - 1], ids[n])]
           adding == CHOOSE f : IsAdding(f)
           g == [n \in 0 .. N |-> SubSeq(ids, 1, n)]
<1>1. N \in Nat /\ MaxSeen \in Nat /\ N <= MaxSeen
  BY LenProperties, InboxAssumption
<1>2. Preloaded(ids) = adding[N]
  BY DEF Preloaded
<1>3. ASSUME NEW n \in 1 .. N
      PROVE  Add(SubSeq(ids, 1, n - 1), ids[n]) = SubSeq(ids, 1, n)
  <2> DEFINE s == SubSeq(ids, 1, n - 1)
  <2>1. \A i \in 1 .. N : ids[i] \in Events
    BY ElementOfSeq
  <2>2. /\ s \in Seq(Events) /\ Len(s) = n - 1
        /\ \A i \in 1 .. n - 1 : s[i] = ids[i]
    <3>1. 1 \in Int /\ n - 1 \in Int /\ \A i \in 1 .. n - 1 : ids[i] \in Events
      BY <1>1, <2>1
    <3>2. /\ s \in Seq(Events)
          /\ Len(s) = IF 1 <= n - 1 THEN (n - 1) - 1 + 1 ELSE 0
          /\ \A i \in 1 .. (n - 1) - 1 + 1 : s[i] = ids[1 + i - 1]
      BY <3>1, SubSeqProperties
    <3> QED
      BY <1>1, <3>2
  <2> HIDE DEF s
  <2>3. ids[n] \notin ToSet(s)
    <3>1. DOMAIN s = 1 .. n - 1 /\ DOMAIN ids = 1 .. N
      BY <2>2, LenProperties
    <3>2. \A i \in 1 .. n - 1 : ids[i] # ids[n]
      BY <1>1, <3>1 DEF IsInjective
    <3> QED
      BY <2>2, <3>1, <3>2 DEF ToSet
  <2>4. s \in SeenSets /\ Len(s) < MaxSeen
    BY <1>1, <2>2 DEF SeenSets
  <2>5. Add(s, ids[n]) = Append(s, ids[n])
    BY <2>1, <2>3, <2>4, AddProperties
  <2>6. Append(s, ids[n]) = SubSeq(ids, 1, n)
    <3>1. Append(s, ids[n]) = s \o <<ids[n]>>
      BY <2>1, <2>2, AppendIsConcat
    <3>2. SubSeq(ids, 1, n) = SubSeq(ids, 1, n - 1) \o <<ids[n]>>
      BY <1>1, SubSeqRecursiveSecond
    <3> QED
      BY <3>1, <3>2 DEF s
  <2> QED
    BY <2>5, <2>6 DEF s
<1>4. SubSeq(ids, 1, 0) = <<>>
  BY SubSeqEmpty
<1>5. IsAdding(g)
  <2>1. ASSUME NEW n \in 0 .. N
        PROVE  SubSeq(ids, 1, n) = IF n = 0 THEN <<>> ELSE Add(g[n - 1], ids[n])
    <3>1. CASE n = 0
      BY <1>4, <3>1
    <3>2. CASE n # 0
      <4>1. n - 1 \in 0 .. N /\ n \in 1 .. N
        BY <1>1, <3>2
      <4>2. g[n - 1] = SubSeq(ids, 1, n - 1)
        BY <4>1
      <4> HIDE DEF g
      <4> QED
        BY <1>3, <3>2, <4>1, <4>2
    <3> QED
      BY <3>1, <3>2
  <2>2. g = [n \in 0 .. N |-> IF n = 0 THEN <<>> ELSE Add(g[n - 1], ids[n])]
    BY <2>1
  <2> QED
    BY <2>2
<1>6. IsAdding(adding)
  BY <1>5
<1> HIDE DEF adding, g
<1>7. \A n \in 0 .. N : adding[n] = SubSeq(ids, 1, n)
  <2> DEFINE T == {n \in 0 .. N : adding[n] # SubSeq(ids, 1, n)}
  <2> SUFFICES ASSUME T # {} PROVE FALSE
    OBVIOUS
  <2>0. T \in SUBSET Nat
    BY <1>1
  <2>1. PICK n \in T : \A k \in T : n <= k
    <3> HIDE DEF T
    <3> QED
      BY <2>0, Least
  <2>2. adding[n] = IF n = 0 THEN <<>> ELSE Add(adding[n - 1], ids[n])
    BY <1>6, <2>1
  <2>3. CASE n = 0
    BY <1>4, <2>1, <2>2, <2>3
  <2>4. CASE n # 0
    <3>1. n - 1 \in 0 .. N /\ n - 1 \notin T /\ n \in 1 .. N
      BY <1>1, <2>1, <2>4
    <3>2. adding[n - 1] = SubSeq(ids, 1, n - 1)
      BY <3>1
    <3> QED
      BY <1>3, <2>1, <2>2, <2>4, <3>1, <3>2
  <2> QED
    BY <2>3, <2>4
<1>8. SubSeq(ids, 1, N) = ids
  BY SubSeqFull
<1> QED
  BY <1>1, <1>2, <1>7, <1>8

\* What the query for recent events returns fits into the seen set.
LEMMA RecentsFit ==
    ASSUME rows \in [Events -> {"absent", "outgoing", "incoming"}], NEW ids \in Recents
    PROVE  ids \in SeenSets /\ IsInjective(ids) /\ Arrived \subseteq Events
<1> DEFINE c == Cardinality(Arrived)
           n == Min({MaxSeen, c})
<1>1. Arrived \subseteq Events
  BY DEF Arrived
<1>2. c \in Nat
  <2>1. IsFiniteSet(0 .. MaxGen) /\ IsFiniteSet(Msgs)
    <3>1. 0 \in Int /\ MaxGen \in Int
      BY DEF MaxGen
    <3> QED
      BY <3>1, FS_Interval, InboxAssumption
  <2>2. IsFiniteSet(Events)
    <3>1. IsFiniteSet(Msgs \X (0 .. MaxGen))
      BY <2>1, FS_Product
    <3> QED
      BY <3>1 DEF Events
  <2> QED
    BY <1>1, <2>2, FS_Subset, FS_CardinalityType
<1> HIDE DEF c
<1>3. n \in Nat /\ n <= MaxSeen
  <2>1. MaxSeen \in Nat
    BY InboxAssumption
  <2>2. \E x \in {MaxSeen, c} : \A y \in {MaxSeen, c} : x <= y
    BY <1>2, <2>1
  <2>3. n \in {MaxSeen, c} /\ \A y \in {MaxSeen, c} : n <= y
    BY <2>2 DEF Min
  <2> QED
    BY <1>2, <2>1, <2>3
<1>4. ids \in [1 .. n -> Arrived] /\ IsInjective(ids)
  BY DEF Recents, c
<1> HIDE DEF n
<1>5. ids \in Seq(Events) /\ Len(ids) = n
  BY <1>1, <1>3, <1>4
<1> QED
  BY <1>1, <1>3, <1>4, <1>5 DEF SeenSets

-----------------------------------------------------------------------------
(* Types.                                                                  *)

\* Publishing puts an event on relays, with its stamp.
LEMMA PublishTypes ==
    ASSUME TypeOK, NEW e \in Events, NEW at \in 0 .. MaxClock, NEW R \in SUBSET Relays,
           NEW gone, Publish(e, at, R, gone)
    PROVE  /\ relay' \in [Relays -> SUBSET Events]
           /\ created' \in [Events -> -1 .. MaxClock]
           /\ batch' \subseteq Events
<1>1. at \in -1 .. MaxClock
  BY InboxAssumption
<1>2. relay' \in [Relays -> SUBSET Events]
  BY DEF Publish, TypeOK
<1>3. created' \in [Events -> -1 .. MaxClock]
  BY <1>1 DEF Publish, TypeOK
<1>4. batch' \subseteq Events
  BY DEF Publish, TypeOK
<1> QED
  BY <1>2, <1>3, <1>4

\* A write of a row, also one that fails, leaves a typed table.
LEMMA StoreTypes ==
    ASSUME TypeOK, NEW e \in Events, NEW incoming \in BOOLEAN,
           Store(e, incoming) \/ DaemonStore(e, incoming)
    PROVE  /\ rows' \in [Events -> {"absent", "outgoing", "incoming"}]
           /\ faults' \in 0 .. MaxFaults
<1>1. Store(e, incoming) \/ UNCHANGED <<rows, faults>>
  BY DEF DaemonStore
<1>2. CASE UNCHANGED <<rows, faults>>
  BY <1>2 DEF TypeOK
<1>3. CASE Store(e, incoming)
  <2>1. Upsert(rows[e], incoming) \in {"absent", "outgoing", "incoming"}
    BY DEF Upsert
  <2>2. faults' \in 0 .. MaxFaults
    BY <1>3, InboxAssumption DEF Store, TypeOK
  <2>3. rows' \in [Events -> {"absent", "outgoing", "incoming"}]
    BY <1>3, <2>1 DEF Store, TypeOK
  <2> QED
    BY <2>2, <2>3
<1> QED
  BY <1>1, <1>2, <1>3

\* A message and the answer to it are events.
LEMMA EventsClosed ==
    /\ \A m \in Msgs : <<m, 0>> \in Events
    /\ \A e \in Events : e[2] < MaxGen => Reply(e) \in Events
BY DEF Events, Reply, MaxGen

\* Nothing has happened yet.
LEMMA InitTypes == Init => TypeInv
<1> SUFFICES ASSUME Init PROVE TypeInv
  OBVIOUS
<1>1. <<>> \in Seq(Events) /\ Len(<<>>) = 0
  BY EmptySeq
<1>2. 0 \in 0 .. MaxClock /\ -1 \in -1 .. MaxClock /\ 0 \in 0 .. MaxFaults /\ 0 <= MaxSeen
  BY InboxAssumption
<1>3. seen \in Seq(Events) /\ Len(seen) <= MaxSeen
  BY <1>1, <1>2 DEF Init
<1>4. clock \in 0 .. MaxClock /\ since \in 0 .. MaxClock /\ faults \in 0 .. MaxFaults
  BY <1>2 DEF Init
<1>5. relay \in [Relays -> SUBSET Events] /\ created \in [Events -> -1 .. MaxClock]
  BY <1>2 DEF Init
<1>6. /\ rows \in [Events -> {"absent", "outgoing", "incoming"}]
      /\ replying \in [Events -> {"no", "publish", "store"}]
      /\ own \in [Own -> {"new", "published", "done"}]
      /\ answered \in [Events -> 0 .. 2]
  BY DEF Init
<1>7. /\ up \in BOOLEAN /\ storeErr \in BOOLEAN
      /\ todo \subseteq Relays /\ watched \in Relays \cup {"none"}
      /\ batch \subseteq Events /\ unstored \subseteq Events /\ forgotten \subseteq Events
  BY DEF Init
<1>8. Answerable
  BY DEF Init, Answerable
<1> QED
  BY <1>3, <1>4, <1>5, <1>6, <1>7, <1>8 DEF TypeInv, TypeOK

\* The watch loop.
LEMMA WatchTypes ==
    ASSUME TypeInv,
           \/ WatchBegin \/ CloseWindow
           \/ \E r \in Relays : Subscribe(r) \/ SkipRelay(r)
           \/ \E e \in Events : HandleKnown(e)
    PROVE  TypeInv'
<1>1. /\ todo' \subseteq Relays
      /\ watched' \in Relays \cup {"none"}
      /\ batch' \subseteq Events
  <2>1. todo \subseteq Relays /\ watched \in Relays \cup {"none"} /\ batch \subseteq Events
    BY DEF TypeInv, TypeOK
  <2>2. CASE WatchBegin
    BY <2>1, <2>2 DEF WatchBegin
  <2>3. CASE CloseWindow
    BY <2>1, <2>3 DEF CloseWindow
  <2>4. ASSUME NEW r \in Relays, Subscribe(r) PROVE <1>1!:
    <3>1. batch' \in Answers(r) /\ relay[r] \subseteq Events
      BY <2>4 DEF Subscribe, TypeInv, TypeOK
    <3>2. batch' \subseteq Events
      BY <3>1 DEF Answers
    <3> QED
      BY <2>1, <2>4, <3>2 DEF Subscribe
  <2>5. ASSUME NEW r \in Relays, SkipRelay(r) PROVE <1>1!:
    BY <2>1, <2>5 DEF SkipRelay
  <2>6. ASSUME NEW e \in Events, HandleKnown(e) PROVE <1>1!:
    BY <2>1, <2>6 DEF HandleKnown, daemon
  <2> QED
    BY <2>2, <2>3, <2>4, <2>5, <2>6
<1>2. UNCHANGED <<clock, relay, created, up, since, seen, storeErr, rows,
                  replying, own, faults, answered, unstored, forgotten>>
  BY DEF WatchBegin, CloseWindow, Subscribe, SkipRelay, HandleKnown, daemon, observed
<1> QED
  BY <1>1, <1>2 DEF TypeInv, TypeOK, Answerable

\* A new event.
LEMMA HandleNewTypes ==
    ASSUME TypeInv, NEW e \in Events, HandleNew(e)
    PROVE  TypeInv'
<1> USE DEF TypeInv, TypeOK
<1>1. seen' \in SeenSets
  <2>1. seen \in SeenSets /\ seen' = Add(seen, e)
    BY DEF HandleNew, SeenSets
  <2> QED
    BY <2>1, AddProperties
<1>2. /\ rows' \in [Events -> {"absent", "outgoing", "incoming"}]
      /\ faults' \in 0 .. MaxFaults
  <2>1. DaemonStore(e, TRUE)
    BY DEF HandleNew
  <2> QED
    BY <2>1, StoreTypes
<1>3. answered' \in [Events -> 0 .. 2]
  <2>1. answered' = [answered EXCEPT ![e] =
            IF ShouldAutoReply(e) /\ answered[e] < 2 THEN answered[e] + 1 ELSE answered[e]]
    BY DEF HandleNew
  <2>2. answered[e] \in 0 .. 2
    OBVIOUS
  <2>3. (IF ShouldAutoReply(e) /\ answered[e] < 2 THEN answered[e] + 1 ELSE answered[e]) \in 0 .. 2
    BY <2>2
  <2> QED
    BY <2>1, <2>3
<1>4. replying' \in [Events -> {"no", "publish", "store"}] /\ Answerable'
  BY DEF HandleNew, Answerable
<1>5. unstored' \subseteq Events
  BY DEF HandleNew
<1>6. forgotten' \subseteq Events
  <2>1. Seen \subseteq Events
    <3>1. seen \in Seq(Events)
      OBVIOUS
    <3>2. DOMAIN seen = 1 .. Len(seen) /\ \A i \in 1 .. Len(seen) : seen[i] \in Events
      BY <3>1, LenProperties, ElementOfSeq
    <3> QED
      BY <3>2 DEF Seen, ToSet
  <2> QED
    BY <2>1 DEF HandleNew
<1>7. batch' \subseteq Events
  BY DEF HandleNew
<1> QED
  BY <1>1, <1>2, <1>3, <1>4, <1>5, <1>6, <1>7 DEF HandleNew, SeenSets

\* The goroutines that answer.
LEMMA ReplyTypes ==
    ASSUME TypeInv, NEW e \in Events, PublishReply(e) \/ StoreReply(e)
    PROVE  TypeInv'
<1> USE DEF TypeInv, TypeOK
<1>1. replying[e] # "no" /\ Reply(e) \in Events
  BY EventsClosed DEF PublishReply, StoreReply, Answerable
<1>2. CASE PublishReply(e)
  <2>1. /\ relay' \in [Relays -> SUBSET Events]
        /\ created' \in [Events -> -1 .. MaxClock]
        /\ batch' \subseteq Events
    <3>1. CASE UNCHANGED <<relay, created, batch>>
      BY <3>1
    <3>2. ASSUME NEW r \in Relays,
                 Publish(Reply(e), clock, {r}, {f \in Events : f[2] > 0 /\ f # Reply(e)})
          PROVE  <2>1!:
      BY <1>1, <3>2, PublishTypes
    <3> QED
      BY <1>2, <3>1, <3>2 DEF PublishReply
  <2>2. replying' \in [Events -> {"no", "publish", "store"}] /\ Answerable'
    BY <1>1, <1>2 DEF PublishReply, Answerable
  <2> QED
    BY <1>2, <2>1, <2>2 DEF PublishReply, daemon, observed
<1>3. CASE StoreReply(e)
  <2>1. /\ rows' \in [Events -> {"absent", "outgoing", "incoming"}]
        /\ faults' \in 0 .. MaxFaults
    BY <1>1, <1>3, StoreTypes DEF StoreReply
  <2>2. replying' \in [Events -> {"no", "publish", "store"}] /\ Answerable'
    BY <1>1, <1>3 DEF StoreReply, Answerable
  <2> QED
    BY <1>3, <2>1, <2>2 DEF StoreReply, daemon, observed
<1> QED
  BY <1>2, <1>3

\* A restart fills the seen set from the store, or leaves it empty.
LEMMA StartTypes ==
    ASSUME TypeInv, Start
    PROVE  TypeInv'
<1> USE DEF TypeInv, TypeOK
<1>1. Arrived \subseteq Events
  BY DEF Arrived
<1>2. /\ seen' \in SeenSets /\ storeErr' \in BOOLEAN
      /\ faults' \in 0 .. MaxFaults /\ forgotten' \subseteq Events
  <2>1. ASSUME NEW ids \in Recents, seen' = Preloaded(ids),
               forgotten' = forgotten \cup {e \in Arrived \ ToSet(ids) : answered[e] > 0},
               UNCHANGED <<storeErr, faults>>
        PROVE  <1>2!:
    <3>1. ids \in SeenSets /\ IsInjective(ids)
      BY RecentsFit
    <3>2. Preloaded(ids) = ids
      BY <3>1, PreloadedAll DEF SeenSets
    <3> QED
      BY <1>1, <2>1, <3>1, <3>2
  <2>2. ASSUME faults < MaxFaults, faults' = faults + 1, seen' = <<>>, storeErr' \in BOOLEAN,
               forgotten' = forgotten \cup {e \in Arrived : answered[e] > 0}
        PROVE  <1>2!:
    <3>1. <<>> \in SeenSets
      BY EmptySeq, InboxAssumption DEF SeenSets
    <3>2. faults' \in 0 .. MaxFaults
      BY <2>2, InboxAssumption
    <3> QED
      BY <1>1, <2>2, <3>1, <3>2
  <2> QED
    BY <2>1, <2>2 DEF Start
<1> QED
  BY <1>2 DEF Start, SeenSets, Answerable

\* The other processes, a crash, and time.
LEMMA OthersTypes ==
    ASSUME TypeInv,
           \/ \E m \in Msgs \ Own : PeerSends(m)
           \/ \E m \in Own : OwnSends(m) \/ OwnStores(m)
           \/ \E e \in Events : InboxCommand(e)
           \/ Crash
           \/ Tick
    PROVE  TypeInv'
<1> USE DEF TypeInv, TypeOK
<1>1. ASSUME NEW m \in Msgs \ Own, PeerSends(m) PROVE TypeInv'
  <2>1. PICK at \in 0 .. MaxClock, R \in SUBSET Relays :
            /\ Publish(<<m, 0>>, at, R, {})
            /\ UNCHANGED <<clock, daemon, rows, replying, own, faults, observed>>
    BY <1>1 DEF PeerSends
  <2>2. /\ relay' \in [Relays -> SUBSET Events]
        /\ created' \in [Events -> -1 .. MaxClock]
        /\ batch' \subseteq Events
    BY <2>1, EventsClosed, PublishTypes
  <2> QED
    BY <2>1, <2>2 DEF daemon, observed, Answerable
<1>2. ASSUME NEW m \in Own, OwnSends(m) PROVE TypeInv'
  <2>1. PICK R \in SUBSET Relays :
            /\ Publish(<<m, 0>>, clock, R, {})
            /\ own' = [own EXCEPT ![m] = "published"]
            /\ UNCHANGED <<clock, daemon, rows, replying, faults, observed>>
    BY <1>2 DEF OwnSends
  <2>2. m \in Msgs
    BY InboxAssumption
  <2>3. /\ relay' \in [Relays -> SUBSET Events]
        /\ created' \in [Events -> -1 .. MaxClock]
        /\ batch' \subseteq Events
    BY <2>1, <2>2, EventsClosed, PublishTypes
  <2> QED
    BY <2>1, <2>3 DEF daemon, observed, Answerable
<1>3. ASSUME NEW m \in Own, OwnStores(m) PROVE TypeInv'
  <2>1. <<m, 0>> \in Events
    BY InboxAssumption, EventsClosed
  <2>2. /\ rows' \in [Events -> {"absent", "outgoing", "incoming"}]
        /\ faults' \in 0 .. MaxFaults
    BY <1>3, <2>1, StoreTypes DEF OwnStores
  <2> QED
    BY <1>3, <2>2 DEF OwnStores, daemon, observed, Answerable
<1>4. ASSUME NEW e \in Events, InboxCommand(e) PROVE TypeInv'
  <2>1. rows' \in [Events -> {"absent", "outgoing", "incoming"}]
    BY <1>4 DEF InboxCommand, Upsert
  <2> QED
    BY <1>4, <2>1 DEF InboxCommand, daemon, observed, Answerable
<1>5. CASE Crash
  <2>1. <<>> \in Seq(Events) /\ Len(<<>>) <= MaxSeen
    BY EmptySeq, InboxAssumption
  <2>2. faults' \in 0 .. MaxFaults /\ since' \in 0 .. MaxClock
    BY <1>5, InboxAssumption DEF Crash
  <2> QED
    BY <1>5, <2>1, <2>2 DEF Crash, observed, Answerable
<1>6. CASE Tick
  <2>1. clock' \in 0 .. MaxClock
    BY <1>6, InboxAssumption DEF Tick
  <2> QED
    BY <1>6, <2>1 DEF Tick, daemon, observed, Answerable
<1> QED
  BY <1>1, <1>2, <1>3, <1>4, <1>5, <1>6

\* The type invariant is inductive.
LEMMA StepTypes == TypeInv /\ [Next]_vars => TypeInv'
<1> SUFFICES ASSUME TypeInv, [Next]_vars PROVE TypeInv'
  OBVIOUS
<1>1. CASE DaemonStep
  BY <1>1, WatchTypes, HandleNewTypes, ReplyTypes, StartTypes DEF DaemonStep
<1>2. CASE UNCHANGED vars
  BY <1>2 DEF vars, TypeInv, TypeOK, Answerable
<1> QED
  BY <1>1, <1>2, OthersTypes DEF Next

\* The types of Inbox hold in every state, and with them the bound on the seen set.
THEOREM TypesHold == Spec => []TypeOK
<1>1. TypeInv => TypeOK
  BY DEF TypeInv
<1> QED
  BY InitTypes, StepTypes, <1>1, PTL DEF Spec

-----------------------------------------------------------------------------
(* Rows.                                                                   *)

\* No write of a row takes "incoming" back, whoever writes and in whichever order.
LEMMA RowsKept ==
    ASSUME TypeInv, [Next]_vars, NEW e \in Events, rows[e] = "incoming"
    PROVE  rows'[e] = "incoming"
<1>1. rows \in [Events -> {"absent", "outgoing", "incoming"}]
  BY DEF TypeInv, TypeOK
<1>2. ASSUME NEW f \in Events, NEW incoming \in BOOLEAN,
             \/ rows' = [rows EXCEPT ![f] = Upsert(@, incoming)]
             \/ Store(f, incoming) \/ DaemonStore(f, incoming)
      PROVE  rows'[e] = "incoming"
  <2>1. UNCHANGED rows \/ rows' = [rows EXCEPT ![f] = Upsert(rows[f], incoming)]
    BY <1>2 DEF DaemonStore, Store
  <2> QED
    BY <1>1, <2>1 DEF Upsert
<1>3. CASE UNCHANGED rows
  BY <1>3
<1>4. CASE \E m \in Own : OwnStores(m)
  <2>1. PICK m \in Own : Store(<<m, 0>>, FALSE)
    BY <1>4 DEF OwnStores
  <2>2. <<m, 0>> \in Events
    BY InboxAssumption, EventsClosed
  <2> QED
    BY <1>2, <2>1, <2>2
<1>5. CASE \E f \in Events : InboxCommand(f)
  BY <1>2, <1>5 DEF InboxCommand
<1>6. CASE \E f \in Events : HandleNew(f)
  BY <1>2, <1>6 DEF HandleNew
<1>7. CASE \E f \in Events : StoreReply(f)
  <2>1. PICK f \in Events : StoreReply(f)
    BY <1>7
  <2>2. Reply(f) \in Events
    BY <2>1, EventsClosed DEF StoreReply, TypeInv, Answerable
  <2> QED
    BY <1>2, <2>1, <2>2 DEF StoreReply
<1>8. ASSUME ~UNCHANGED rows
      PROVE  \/ \E m \in Own : OwnStores(m)
             \/ \E f \in Events : InboxCommand(f) \/ HandleNew(f) \/ StoreReply(f)
  BY <1>8 DEF Next, DaemonStep, WatchBegin, CloseWindow, Subscribe, SkipRelay, HandleKnown,
              PublishReply, Start, PeerSends, OwnSends, Crash, Tick, vars
<1> QED
  BY <1>3, <1>4, <1>5, <1>6, <1>7, <1>8

\* is_incoming is monotonic: an arrival that is recorded stays recorded, whatever
\* `agent msg`, `agent inbox`, the watch loop and the answers write after it.
THEOREM ArrivalsKept == Spec => ArrivalKept
<1>1. Spec => []TypeInv
  BY InitTypes, StepTypes, PTL DEF Spec
<1>2. TypeInv /\ [Next]_vars =>
          [\A e \in Events : rows[e] = "incoming" => rows'[e] = "incoming"]_vars
  BY RowsKept
<1> QED
  BY <1>1, <1>2, PTL DEF Spec, ArrivalKept

-----------------------------------------------------------------------------
(* Answers.                                                                *)

\* A daemon that is down stays quiet until it is started.
LEMMA StepQuiet == TypeInv /\ Quiet /\ [Next]_vars => Quiet'
<1> SUFFICES ASSUME TypeInv, Quiet, [Next]_vars, ~up'
             PROVE  todo' = {} /\ watched' = "none" /\ batch' = {}
  BY DEF Quiet
<1>1. CASE Crash
  BY <1>1 DEF Crash
<1>2. CASE up' = up
  <2>1. todo = {} /\ watched = "none" /\ batch = {}
    BY <1>2 DEF Quiet
  <2>2. ASSUME NEW e, NEW at, NEW R \in SUBSET Relays, NEW gone, Publish(e, at, R, gone)
        PROVE  batch' = {}
    BY <2>1, <2>2, InboxAssumption DEF Publish
  <2>3. \/ UNCHANGED <<todo, watched>>
        \/ WatchBegin \/ CloseWindow \/ \E r \in Relays : Subscribe(r) \/ SkipRelay(r)
    BY <1>2 DEF Next, DaemonStep, HandleKnown, HandleNew, PublishReply, StoreReply, Start,
           PeerSends, OwnSends, OwnStores, InboxCommand, Crash, Tick, vars, daemon
  <2>4. UNCHANGED <<todo, watched>>
    BY <1>2, <2>1, <2>3 DEF WatchBegin, CloseWindow, Subscribe, SkipRelay
  <2>5. batch' = {}
    <3>1. CASE \E m \in Msgs \ Own : PeerSends(m)
      BY <2>2, <3>1 DEF PeerSends
    <3>2. CASE \E m \in Own : OwnSends(m)
      BY <2>2, <3>2 DEF OwnSends
    <3>3. CASE \E e \in Events : PublishReply(e)
      <4>1. PICK e \in Events :
                \/ \E r \in Relays :
                      Publish(Reply(e), clock, {r}, {f \in Events : f[2] > 0 /\ f # Reply(e)})
                \/ UNCHANGED <<relay, created, batch>>
        BY <3>3 DEF PublishReply
      <4> QED
        BY <2>1, <2>2, <4>1
    <3>4. CASE \E e \in Events : HandleKnown(e) \/ HandleNew(e)
      BY <2>1, <3>4 DEF HandleKnown, HandleNew
    <3>5. CASE UNCHANGED batch
      BY <2>1, <3>5
    <3> QED
      BY <1>2, <2>1, <3>1, <3>2, <3>3, <3>4, <3>5
         DEF Next, DaemonStep, WatchBegin, CloseWindow, Subscribe, SkipRelay, StoreReply,
             Start, OwnStores, InboxCommand, Crash, Tick, vars
  <2> QED
    BY <2>1, <2>4, <2>5
<1>3. Crash \/ Start \/ up' = up
  BY DEF Next, DaemonStep, WatchBegin, CloseWindow, Subscribe, SkipRelay, HandleKnown,
         HandleNew, PublishReply, StoreReply, PeerSends, OwnSends, OwnStores,
         InboxCommand, Tick, vars, daemon
<1>4. ~Start
  BY DEF Start
<1> QED
  BY <1>1, <1>2, <1>3, <1>4

\* HandleNew remembers what it answers: a row is written, or the event counts
\* as unstored; it enters the seen set, and what it displaces counts as forgotten.
LEMMA HandleNewRemembers ==
    ASSUME OnceInv, [Next]_vars, NEW e \in Events, HandleNew(e)
    PROVE  Remembered' /\ AnsweredOnce'
<1>1. up /\ up'
  BY DEF OnceInv, Quiet, HandleNew
<1>2. /\ unstored' = IF rows'[e] = "incoming" THEN unstored ELSE unstored \cup {e}
      /\ forgotten' = forgotten \cup {f \in (Seen \cup {e}) \ Seen' : answered'[f] > 0}
      /\ e \notin Seen
  BY DEF HandleNew, Seen
<1>3. ASSUME NEW f \in Events, f # e PROVE answered'[f] = answered[f]
  BY <1>3 DEF HandleNew, OnceInv, TypeInv, TypeOK
<1>4. answered'[e] <= answered[e] + 1 /\ answered[e] \in 0 .. 2
  BY DEF HandleNew, OnceInv, TypeInv, TypeOK
<1>5. ASSUME NEW f \in Events, answered'[f] > 0, f \notin unstored' \cup forgotten'
      PROVE  rows'[f] = "incoming" /\ f \in Seen'
  <2>1. CASE f = e
    BY <1>2, <1>5, <2>1
  <2>2. CASE f # e
    <3>1. f \notin unstored \cup forgotten /\ answered[f] > 0
      BY <1>2, <1>3, <1>5, <2>2
    <3>2. rows[f] = "incoming" /\ f \in Seen
      BY <1>1, <3>1 DEF OnceInv, Remembered
    <3>3. rows'[f] = "incoming"
      BY <3>2, RowsKept DEF OnceInv
    <3> QED
      BY <1>2, <1>5, <3>2, <3>3
  <2> QED
    BY <2>1, <2>2
<1>6. ASSUME NEW f \in Events PROVE answered'[f] <= 1 \/ f \in unstored' \cup forgotten'
  <2>1. CASE f = e
    <3>1. answered[e] = 0 \/ e \in unstored \cup forgotten
      BY <1>1, <1>2, <1>4 DEF OnceInv, Remembered
    <3>2. answered'[e] \in 0 .. 2
      BY HandleNewTypes DEF OnceInv, TypeInv, TypeOK
    <3> QED
      BY <1>2, <1>4, <2>1, <3>1, <3>2
  <2>2. CASE f # e
    BY <1>2, <1>3, <2>2 DEF OnceInv, AnsweredOnce
  <2> QED
    BY <2>1, <2>2
<1> QED
  BY <1>5, <1>6 DEF Remembered, AnsweredOnce

\* A restarted daemon knows what the store holds of what it answered, and
\* counts the rest as forgotten.
LEMMA StartRemembers ==
    ASSUME OnceInv, Start
    PROVE  Remembered' /\ AnsweredOnce'
<1>1. UNCHANGED <<rows, answered, unstored>> /\ rows \in [Events -> {"absent", "outgoing", "incoming"}]
  BY DEF Start, OnceInv, TypeInv, TypeOK
<1>2. forgotten \subseteq forgotten'
  BY DEF Start
<1>3. ASSUME NEW e \in Events, rows[e] = "incoming", answered[e] > 0, e \notin forgotten'
      PROVE  e \in Seen'
  <2>1. e \in Arrived
    BY <1>3 DEF Arrived
  <2>2. PICK ids \in Recents :
            /\ seen' = Preloaded(ids)
            /\ forgotten' = forgotten \cup {f \in Arrived \ ToSet(ids) : answered[f] > 0}
    BY <1>3, <2>1 DEF Start
  <2>3. ids \in Seq(Events) /\ Len(ids) <= MaxSeen /\ IsInjective(ids)
    BY <1>1, RecentsFit DEF SeenSets
  <2>4. seen' = ids
    BY <2>2, <2>3, PreloadedAll
  <2> QED
    BY <1>3, <2>1, <2>2, <2>4 DEF Seen
<1>4. Remembered'
  BY <1>1, <1>2, <1>3 DEF OnceInv, Remembered
<1>5. AnsweredOnce'
  BY <1>1, <1>2 DEF OnceInv, AnsweredOnce
<1> QED
  BY <1>4, <1>5

\* The invariant of AnsweredOnce is inductive.
LEMMA StepOnce == OnceInv /\ [Next]_vars => OnceInv'
<1> SUFFICES ASSUME OnceInv, [Next]_vars PROVE OnceInv'
  OBVIOUS
<1>1. TypeInv' /\ Quiet'
  BY StepTypes, StepQuiet DEF OnceInv
<1>2. CASE \E e \in Events : HandleNew(e)
  BY <1>1, <1>2, HandleNewRemembers DEF OnceInv
<1>3. CASE Start
  BY <1>1, <1>3, StartRemembers DEF OnceInv
<1>4. CASE UNCHANGED observed /\ (~up' \/ UNCHANGED <<up, seen>>)
  <2>1. ASSUME NEW e \in Events, answered'[e] > 0, e \notin unstored' \cup forgotten'
        PROVE  rows'[e] = "incoming" /\ (up' => e \in Seen')
    <3>1. rows[e] = "incoming" /\ (up => e \in Seen)
      BY <1>4, <2>1 DEF observed, OnceInv, Remembered
    <3>2. rows'[e] = "incoming"
      BY <3>1, RowsKept DEF OnceInv
    <3> QED
      BY <1>4, <3>1, <3>2 DEF Seen
  <2>2. AnsweredOnce'
    BY <1>4 DEF observed, OnceInv, AnsweredOnce
  <2> QED
    BY <1>1, <2>1, <2>2 DEF OnceInv, Remembered
<1>5. \/ \E e \in Events : HandleNew(e)
      \/ Start
      \/ UNCHANGED observed /\ (~up' \/ UNCHANGED <<up, seen>>)
  BY DEF Next, DaemonStep, WatchBegin, CloseWindow, Subscribe, SkipRelay, HandleKnown,
         PublishReply, StoreReply, PeerSends, OwnSends, OwnStores, InboxCommand, Crash,
         Tick, vars, daemon, observed
<1> QED
  BY <1>2, <1>3, <1>4, <1>5

\* An event is answered at most once, across relays, subscriptions, redelivery
\* and daemon restarts, unless its row could not be written or a full seen set
\* left it out.
THEOREM AnsweredAtMostOnce == Spec => []AnsweredOnce
<1>1. Init => OnceInv
  <2>1. Init => Quiet /\ Remembered /\ AnsweredOnce
    BY DEF Init, Quiet, Remembered, AnsweredOnce
  <2> QED
    BY <2>1, InitTypes DEF OnceInv
<1>2. OnceInv => AnsweredOnce
  BY DEF OnceInv
<1> QED
  BY <1>1, <1>2, StepOnce, PTL DEF Spec

=============================================================================
