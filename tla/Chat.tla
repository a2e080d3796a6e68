--------------------------------- MODULE Chat ---------------------------------
(***************************************************************************)
(* The chat screen: Update handles keys and the results of commands one    *)
(* after the other; each command, sendMessage or loadMessages, runs in a   *)
(* goroutine of its own, and their results come in any order.  Only the    *)
(* messages of this conversation that this version of the program stores   *)
(* count here; scrolling, sizes, and the list of contacts are left out.    *)
(*                                                                         *)
(* A load reads the newest messages up to a limit, by the created_at their *)
(* senders gave them: clocks differ and are set back, so that stamps have  *)
(* any order, equal ones in any order too.                                 *)
(***************************************************************************)
EXTENDS Messages

CONSTANTS
    ScreenLimit,  \* how many messages a load reads, 100 in loadMessages
    Times         \* stamps

\* The process that stays is the daemon or the chat screen.
ASSUME ChatAssumption ==
    /\ \A W \in Workloads : "chat" \in W => W \cap {"receive", "reply"} = {}
    /\ ScreenLimit \in Nat \ {0}
    /\ Times \subseteq Int

VARIABLES
    created,    \* the created_at of each message, fixed from the start
    ui,         \* whether the program runs
    err,        \* whether it shows an error, where any key ends it
    screen,     \* the messages it shows
    loaded,     \* what a load has read and not yet delivered
    handled,    \* submitted messages whose result was delivered
    told,       \* those of them it has shown an error for
    reads,      \* how many loads have read
    nth,        \* the how manieth the one not yet delivered was
    shown       \* and the one on the screen

chatVars == <<created, ui, err, screen, loaded, handled, told, reads, nth, shown>>

Busy == {w \in Workers : pc[w] # "idle"}
InHistory == {id \in Numbers : history[id] # "absent"}

\* ORDER BY created_at DESC LIMIT: fewer only if there are no more.
Newest(S) ==
    {N \in SUBSET S :
        /\ Cardinality(N) <= ScreenLimit
        /\ N # S => Cardinality(N) = ScreenLimit
        /\ \A n \in N, o \in S \ N : created[n] >= created[o]}

\* NewChatModel and the load of Init.
OpenChat(w) ==
    /\ ~ui
    /\ Begins(w, "chat", "load")
    /\ ui' = TRUE
    /\ UNCHANGED <<auditVars, file, migrated, history, mail, published, queued, reported,
                   unlucky, yields, created, err, screen, loaded, handled, told, reads, nth, shown>>

\* Enter: sendMessage, up to where it has tried every relay, or where it could
\* not even make the event: no keystore, no key, no ciphertext.
Submit(w) ==
    /\ ui /\ ~err
    /\ \/ /\ Begins(w, "send", "open")
          /\ \E acked \in BOOLEAN :
                /\ Publishes(begun + 1, acked)
                /\ Takes(w, "send", begun + 1, "text", acked)
       \/ /\ Begins(w, "send", "sent")
          /\ Takes(w, "send", begun + 1, "text", FALSE)
          /\ UNCHANGED published
    /\ UNCHANGED <<auditVars, file, migrated, history, queued, reported, unlucky, yields, chatVars>>

\* Seeded fault, after the comment of sendMessage: an error only if the message
\* is neither published nor stored.
SendErrorIfBoth(w) == ~mail[w].acked /\ history[mail[w].id] = "absent"

\* sendMessage returns an error if no relay took the message.
SendError(w) == ~mail[w].acked

\* Seeded fault: a success does not load the messages again.
DeliverSentOnly(w) ==
    /\ pc[w] = "sent"
    /\ Reads
    /\ handled' = handled \cup {mail[w].id}
    /\ mail' = [mail EXCEPT ![w] = NoMail]
    /\ err' = (err \/ SendError(w))
    /\ told' = IF SendError(w) THEN told \cup {mail[w].id} ELSE told
    /\ Goto(w, "idle")
    /\ UNCHANGED <<auditVars, file, migrated, history, opened, published, queued, reported,
                   unlucky, yields, created, ui, screen, loaded, reads, nth, shown>>

\* messageSentMsg.
DeliverSent(w) ==
    /\ pc[w] = "sent"
    /\ Reads
    /\ handled' = handled \cup {mail[w].id}
    /\ mail' = [mail EXCEPT ![w] = NoMail]
    /\ IF SendError(w)
       THEN /\ err' = TRUE
            /\ told' = told \cup {mail[w].id}
            /\ Goto(w, "idle")
       ELSE Goto(w, "load") /\ UNCHANGED <<err, told>>
    /\ UNCHANGED <<auditVars, file, migrated, history, opened, published, queued, reported,
                   unlucky, yields, created, ui, screen, loaded, reads, nth, shown>>

\* GetConversation.
Load(w) ==
    /\ pc[w] = "load"
    /\ \E N \in Newest(InHistory) : loaded' = [loaded EXCEPT ![w] = N]
    /\ reads' = reads + 1
    /\ nth' = [nth EXCEPT ![w] = reads + 1]
    /\ Reads
    /\ Goto(w, "loaded")
    /\ UNCHANGED <<auditVars, mailVars, created, ui, err, screen, handled, told, shown>>

\* errorMsg.
LoadFails(w) ==
    /\ pc[w] = "load"
    /\ Breaks
    /\ err' = TRUE
    /\ Goto(w, "idle")
    /\ UNCHANGED <<auditVars, mailVars, created, ui, screen, loaded, handled, told,
                   reads, nth, shown>>

\* messagesMsg.
DeliverLoaded(w) ==
    /\ pc[w] = "loaded"
    /\ screen' = loaded[w]
    /\ shown' = nth[w]
    /\ loaded' = [loaded EXCEPT ![w] = {}]
    /\ nth' = [nth EXCEPT ![w] = 0]
    /\ Reads
    /\ Goto(w, "idle")
    /\ UNCHANGED <<auditVars, mailVars, created, ui, err, handled, told, reads>>

\* What ends with the process.
ChatEnds ==
    /\ ui' = FALSE
    /\ err' = FALSE
    /\ screen' = {}
    /\ loaded' = [w \in Workers |-> {}]
    /\ handled' = {}
    /\ told' = {}
    /\ reads' = 0
    /\ nth' = [w \in Workers |-> 0]
    /\ shown' = 0
    /\ UNCHANGED created

\* Esc, or any key under an error: the program ends, with it what is in flight.
Quit ==
    /\ ui
    /\ Ends("resident")
    /\ AuditEnds("resident")
    /\ MessageEnds("resident")
    /\ ChatEnds
    /\ UNCHANGED faults

ChatStep(w) ==
    \/ OpenChat(w) \/ Submit(w) \/ DeliverSent(w)
    \/ Load(w) \/ LoadFails(w) \/ DeliverLoaded(w)

ChatInit ==
    /\ created \in [Numbers -> Times]
    /\ ui = FALSE
    /\ err = FALSE
    /\ screen = {}
    /\ loaded = [w \in Workers |-> {}]
    /\ handled = {}
    /\ told = {}
    /\ reads = 0
    /\ nth = [w \in Workers |-> 0]
    /\ shown = 0

-----------------------------------------------------------------------------
\* A message that was submitted, once its result is in, is on a relay or the
\* user was told of it.
NothingVanishes == handled \subseteq published \cup told

\* The screen S shows the message, or is full of others that are not older.
Covers(S, id) ==
    \/ id \in S
    \/ Cardinality(S) = ScreenLimit /\ \A s \in S : created[s] >= created[id]

\* When nothing is in flight and no error is shown, the screen shows every
\* submitted message that could be stored, unless it is full of messages that
\* are not older: also after results that came in the wrong order, as soon as
\* the load that is shown is the one that was read last.
ScreenCurrent ==
    (ui /\ ~err /\ Busy = {} /\ shown = reads)
    => \A id \in handled \ unlucky : Covers(screen, id)
=============================================================================
