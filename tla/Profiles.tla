------------------------------- MODULE Profiles -------------------------------
(***************************************************************************)
(* Agent profiles: what publish makes of its flags or of a file, what      *)
(* Validate and the filters of discover accept, and how one agent's        *)
(* profile reaches relays and the table agent_profiles.  A version is the  *)
(* created_at of its event; relays keep the newest (kind 30078 with a      *)
(* fixed d tag).  Texts are reduced to whether they are set.               *)
(***************************************************************************)
EXTENDS Sqlite

CONSTANTS
    Relays,
    Prices   \* of rates, and ratings

ASSUME ProfilesAssumption == Prices \subseteq Int

VARIABLES
    relayHas,  \* the version each relay has, 0 for none
    local,     \* the version in agent_profiles, 0 for none
    asks,      \* relays a command has still to turn to
    got,       \* the version it has to store
    reached,   \* relays that answered it
    agreed     \* discovers begun when all relays had the same and nothing else
               \* went on, and nothing has interfered with since

profileVars == <<relayHas, local, asks, got, reached, agreed>>

-----------------------------------------------------------------------------
(* Profiles.  Mode "" is that of profiles from before there were modes;    *)
(* relays and files may have any mode and any availability.  "Described"   *)
(* stands for a description, version, contact or other capabilities than   *)
(* the one looked for.                                                     *)

Modes   == {"simple", "tagged", "structured"}
TagSets == {"none", "blank", "some"}
Stated  == {"none", "available", "busy", "other"}

\* A pointer, or a flag that need not be given: at most one value.
Optional(S) == {{}} \cup {{v} : v \in S}

\* hasNonBlankTag; cleanTags leaves nothing of blank ones.
Clean(tags) == IF tags = "some" THEN "some" ELSE "none"

Profile == {p \in [mode : Modes \cup {"", "other"}, tags : TagSets, described : BOOLEAN,
                   capable : BOOLEAN, availability : Stated, sheet : BOOLEAN,
                   prices : SUBSET Prices, rating : Optional(Prices)] :
               ~p.sheet => p.prices = {}}

Effective(p) == IF p.mode = "" THEN "structured" ELSE p.mode

Structured(p) ==
    \/ p.described \/ p.capable \/ p.availability # "none"
    \/ p.sheet \/ p.rating # {}

\* Validate; the name is set.
Valid(p) ==
    /\ p.mode # "other"
    /\ p.availability # "other"
    /\ Effective(p) = "simple" => p.tags = "none" /\ ~Structured(p)
    /\ Effective(p) = "tagged" => p.tags = "some" /\ ~Structured(p)

\* The flags of publish: whether each is set, and to what.  A rate may lack the
\* name of its service.
Flags == [mode : Modes \cup {"other"}, tags : TagSets, described : BOOLEAN,
          capable : BOOLEAN, availability : Optional(Stated), currency : BOOLEAN,
          rates : SUBSET [named : BOOLEAN, price : Prices]]

NoFlags == [mode |-> "structured", tags |-> "none", described |-> FALSE,
            capable |-> FALSE, availability |-> {}, currency |-> FALSE, rates |-> {}]

StructuredOnly(f) ==
    f.described \/ f.capable \/ f.availability # {} \/ f.currency \/ f.rates # {}

\* What is left of the rates: those that name a service.
Offered(f) == {r.price : r \in {s \in f.rates : s.named}}

\* Seeded fault: simple mode takes the name and ignores the rest.
AcceptsSimply(f) ==
    CASE f.mode = "simple"     -> TRUE
      [] f.mode = "tagged"     -> ~StructuredOnly(f) /\ Clean(f.tags) = "some"
      [] f.mode = "structured" -> TRUE
      [] OTHER                 -> FALSE

\* Flags that do not belong to the mode are an error.
Accepts(f) ==
    CASE f.mode = "simple"     -> ~StructuredOnly(f) /\ f.tags = "none"
      [] f.mode = "tagged"     -> ~StructuredOnly(f) /\ Clean(f.tags) = "some"
      [] f.mode = "structured" -> TRUE
      [] OTHER                 -> FALSE

\* The profile of the flags; structured ones always have a rate sheet and,
\* unless the flag says otherwise, are available.
Built(f) ==
    LET full == f.mode = "structured"
    IN  [mode |-> f.mode,
         tags |-> IF f.mode = "simple" THEN "none" ELSE Clean(f.tags),
         described |-> full /\ f.described,
         capable |-> full /\ f.capable,
         availability |-> IF ~full THEN "none"
                          ELSE IF f.availability = {} THEN "available"
                          ELSE CHOOSE a \in f.availability : TRUE,
         sheet |-> full,
         prices |-> IF full THEN Offered(f) ELSE {},
         rating |-> {}]

\* --json-file: its profile is taken as it is, and the flags are not looked at.
Made(f, json) == IF json = {} THEN Built(f) ELSE CHOOSE p \in json : TRUE

\* Validate has the last word on either.
Accepted(f, json) == (json = {} => Accepts(f)) /\ Valid(Made(f, json))

\* The flags of discover.
Filters == [capable : BOOLEAN, min : Optional(Prices), max : Optional(Prices),
            rating : Optional(Prices), online : BOOLEAN]

WantsStructured(g) == g.capable \/ g.min # {} \/ g.max # {} \/ g.rating # {}

\* Seeded fault: the bounds are numbers, of which 0 means none.
InRangeZero(p, min, max) ==
    /\ p.sheet
    /\ \E r \in p.prices : (\A b \in min \ {0} : r >= b) /\ (\A b \in max \ {0} : r <= b)

\* matchesPriceRange.
InRange(p, min, max) ==
    p.sheet /\ \E r \in p.prices : (\A b \in min : r >= b) /\ (\A b \in max : r <= b)

\* DiscoverFilter.Matches.
Matches(g, p) ==
    /\ WantsStructured(g) => Effective(p) = "structured"
    /\ g.capable => p.capable
    /\ g.min \cup g.max # {} => InRange(p, g.min, g.max)
    /\ \A b \in g.rating : \E r \in p.rating : r >= b
    /\ g.online => p.availability = "available"

-----------------------------------------------------------------------------
(* profile publish and profile discover.                                   *)

ProfileJobs == {"publish", "publishing", "discover", "found"}

\* Another command interferes with every discover under way.
Begin(t, job, alone) ==
    /\ Start(t, job, job)
    /\ asks' = [asks EXCEPT ![t] = Relays]
    /\ reached' = [reached EXCEPT ![t] = {}]
    /\ agreed' = IF /\ alone
                    /\ \A u \in Threads : pc[u] \notin ProfileJobs
                    /\ \A r, s \in Relays : relayHas[r] = relayHas[s]
                 THEN {t} ELSE {}
    /\ UNCHANGED <<relayHas, local>>

Publish(t) ==
    /\ Begin(t, "publish", FALSE)
    /\ got' = [got EXCEPT ![t] = begun + 1]

Newer(a, b) == IF a > b THEN a ELSE b

\* One relay after the other, in the order they were given.
PublishTo(t, r) ==
    /\ pc[t] = "publish"
    /\ r \in asks[t]
    /\ asks' = [asks EXCEPT ![t] = @ \ {r}]
    /\ \/ /\ relayHas' = [relayHas EXCEPT ![r] = Newer(@, got[t])]
          /\ reached' = [reached EXCEPT ![t] = @ \cup {r}]
       \/ UNCHANGED <<relayHas, reached>>
    /\ Reads
    /\ UNCHANGED <<pc, local, got, agreed>>

Done(t) ==
    /\ Goto(t, "idle")
    /\ got' = [got EXCEPT ![t] = 0]
    /\ asks' = [asks EXCEPT ![t] = {}]
    /\ reached' = [reached EXCEPT ![t] = {}]

\* Seeded fault: INSERT OR IGNORE.
KeepProfile(t) ==
    /\ Executes(t)
    /\ local' = IF local = 0 THEN got[t] ELSE local

\* StoreProfile: INSERT OR REPLACE, whatever version is there.
StoreProfile(t) ==
    /\ Executes(t)
    /\ local' = got[t]

\* The profile is stored if a relay took it; an error is ignored.
StorePublished(t) ==
    /\ pc[t] = "publish"
    /\ asks[t] = {}
    /\ \/ reached[t] # {} /\ StoreProfile(t)
       \/ reached[t] # {} /\ Breaks /\ UNCHANGED local
       \/ reached[t] = {} /\ Reads /\ UNCHANGED local
    /\ Done(t)
    /\ UNCHANGED <<relayHas, agreed>>

Discover(t) ==
    /\ Begin(t, "discover", TRUE)
    /\ got' = [got EXCEPT ![t] = 0]

\* A relay cannot be reached, or answers with its event, if it has one.
DiscoverAt(t, r) ==
    /\ pc[t] = "discover"
    /\ r \in asks[t]
    /\ asks' = [asks EXCEPT ![t] = @ \ {r}]
    /\ \/ UNCHANGED <<pc, got, reached>>
       \/ /\ reached' = [reached EXCEPT ![t] = @ \cup {r}]
          /\ got' = [got EXCEPT ![t] = relayHas[r]]
          /\ IF relayHas[r] = 0 THEN UNCHANGED pc ELSE Goto(t, "found")
    /\ Reads
    /\ UNCHANGED <<relayHas, local, agreed>>

StoreFound(t) ==
    /\ pc[t] = "found"
    /\ \/ StoreProfile(t) /\ UNCHANGED agreed
       \/ Breaks /\ UNCHANGED local /\ agreed' = agreed \ {t}
    /\ Goto(t, "discover")
    /\ UNCHANGED <<relayHas, asks, got, reached>>

DiscoverDone(t) ==
    /\ pc[t] = "discover"
    /\ asks[t] = {}
    /\ Done(t)
    /\ Reads
    /\ agreed' = agreed \ {t}
    /\ UNCHANGED <<relayHas, local>>

ProfileStep(t) ==
    \/ Publish(t) \/ StorePublished(t)
    \/ Discover(t) \/ StoreFound(t) \/ DiscoverDone(t)
    \/ \E r \in Relays : PublishTo(t, r) \/ DiscoverAt(t, r)

ProfileEnds(p) ==
    /\ asks' = [t \in Threads |-> IF Process(t) = p THEN {} ELSE asks[t]]
    /\ got' = [t \in Threads |-> IF Process(t) = p THEN 0 ELSE got[t]]
    /\ reached' = [t \in Threads |-> IF Process(t) = p THEN {} ELSE reached[t]]
    /\ agreed' = {t \in agreed : Process(t) # p}
    /\ UNCHANGED <<relayHas, local>>

ProfileInit ==
    /\ relayHas = [r \in Relays |-> 0]
    /\ local = 0
    /\ asks = [t \in Threads |-> {}]
    /\ got = [t \in Threads |-> 0]
    /\ reached = [t \in Threads |-> {}]
    /\ agreed = {}

-----------------------------------------------------------------------------
\* What becomes of every choice of flags.
BuiltWhole ==
    \A f \in Flags : Accepts(f) =>
        LET p == Made(f, {})
        IN  /\ Accepted(f, {}) <=> f.availability # {"other"}
            /\ f.described => p.described
            /\ f.capable => p.capable
            /\ f.rates # {} => p.sheet
            /\ \A r \in f.rates : r.named => r.price \in p.prices
            /\ \A a \in f.availability : p.availability = a
            /\ f.tags = "some" => p.tags = "some"

\* The search of g is for something that the publisher has said with f.
Meets(g, f) ==
    /\ WantsStructured(g) => f.mode = "structured"
    /\ g.capable => f.capable
    /\ g.min \cup g.max # {} =>
           \E r \in f.rates : /\ r.named
                              /\ \A b \in g.min : b <= r.price
                              /\ \A b \in g.max : r.price <= b
    /\ g.rating = {}
    /\ g.online => f.mode = "structured" /\ f.availability \subseteq {"available"}

\* What discover finds of what is published, with flags or from a file.
FoundByFlags ==
    /\ \A f \in Flags : Accepted(f, {}) =>
           \A g \in Filters : Matches(g, Made(f, {})) <=> Meets(g, f)
    /\ \A p \in Profile : Accepted(NoFlags, {p}) /\ Effective(p) # "structured" =>
           \A g \in Filters : Matches(g, p) => ~WantsStructured(g) /\ ~g.online

\* Without --json-file, what publish accepts is in the profile, but for blank
\* tags and rates that name no service, which go silently; and what it builds
\* passes Validate, unless the availability is none of those known.
NothingDropped == (\E t \in Threads : pc[t] = "publish") => BuiltWhole

\* What publish sends and what discover looks for fit together: of a profile made
\* from flags, any combination of filters, a bound of 0 included, finds exactly
\* what the publisher stated, a range of prices by a single rate, and no rating,
\* for which publish has no flag; one that Validate lets through as simple or
\* tagged, from a file too, is found only without a filter.
FoundAsPublished == (\E t \in Threads : pc[t] = "found") => FoundByFlags

\* A discover that has reached every relay, all of which had the same version
\* when it began, leaves that version in the store, also over another one;
\* unless a write failed or another command went on at the same time.
FreshAfterDiscover ==
    \A t \in agreed :
        (pc[t] = "discover" /\ asks[t] = {} /\ reached[t] = Relays)
        => \A r \in Relays : relayHas[r] \in {0, local}
=============================================================================
