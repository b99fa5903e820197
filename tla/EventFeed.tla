------------------------------ MODULE EventFeed ------------------------------
(***************************************************************************)
(* The events of one session on their way to the handlers of a client:     *)
(* recordEvents and getSessionEvents of src/packages/sdk/src/cms.ts (with  *)
(* the procedures of cms-migrations.ts) and the polling of PilotSwarmSession *)
(* in client.ts.                                                           *)
(*                                                                         *)
(* Activities record events without waiting for each other, so several     *)
(* transactions are open at once: a sequence number is taken at the insert *)
(* and becomes visible at the commit.  A client asks for what is beyond    *)
(* the last number it has seen, on a timer and on notifications.           *)
(***************************************************************************)
EXTENDS Naturals, Sequences

CONSTANTS
    MaxEvents,     \* bound: events recorded
    PageSize,      \* the limit _poll asks for
    MaxMishaps     \* bound: failing queries, rollbacks, throwing handlers, unsubscribing

ASSUME EventBounds == {MaxEvents, MaxMishaps} \subseteq Nat /\ PageSize \in Nat \ {0}

VARIABLES
    lastSeq,       \* the sequence session_events.seq
    open,          \* numbers of transactions that are not committed
    events,        \* the committed rows of session_events
    subscribed,    \* a handler is registered, so the timer of _startPolling runs
    listening,     \* the session has a connection that listens
    notified,      \* a notification is on its way on it
    polling,       \* the flag of PilotSwarmSession
    poll,          \* the calls of _poll in progress, with the rows they read
    lastSeenSeq,
    delivered,     \* the numbers each handler has been called with
    hidden,        \* events the feed is not bound to deliver, see below
    mishaps        \* the counter of its bound

storeVars == <<lastSeq, open, events>>
feedVars == <<storeVars, subscribed, listening, notified, polling, poll, lastSeenSeq, delivered, hidden, mishaps>>

Seqs == 1 .. MaxEvents
Call == {1, 2}
Handler == {"typed", "catchAll"}
Stage == {"none", "asked", "read"}
NoPoll == [stage |-> "none", rows |-> <<>>]
Rows(seq) == {seq[i] : i \in DOMAIN seq}

EventFeedInit ==
    /\ lastSeq = 0 /\ open = {} /\ events = {}
    /\ subscribed = FALSE /\ listening = FALSE /\ notified = FALSE
    /\ polling = FALSE /\ poll = [c \in Call |-> NoPoll] /\ lastSeenSeq = 0
    /\ delivered = [h \in Handler |-> <<>>] /\ hidden = {} /\ mishaps = 0

Mishap == mishaps < MaxMishaps /\ mishaps' = mishaps + 1

----------------------------------------------------------------------------
(* recordEvents.                                                           *)

Insert ==
    /\ lastSeq < MaxEvents
    /\ lastSeq' = lastSeq + 1 /\ open' = open \union {lastSeq'}
    /\ UNCHANGED <<events, subscribed, listening, notified, polling, poll, lastSeenSeq, delivered, hidden, mishaps>>

(* A row committed behind a later one that the client has read stays       *)
(* hidden from it.                                                         *)
PassedOver(e) ==
    \/ e < lastSeenSeq
    \/ \E c \in Call : \E f \in Rows(poll[c].rows) : e < f

Commit(e) ==
    /\ e \in open
    /\ open' = open \ {e} /\ events' = events \union {e}
    /\ notified' = (notified \/ listening)
    /\ hidden' = IF PassedOver(e) THEN hidden \union {e} ELSE hidden
    /\ UNCHANGED <<lastSeq, subscribed, listening, polling, poll, lastSeenSeq, delivered, mishaps>>

Rollback(e) ==
    /\ e \in open /\ Mishap /\ open' = open \ {e}
    /\ UNCHANGED <<lastSeq, events, subscribed, listening, notified, polling, poll, lastSeenSeq, delivered, hidden>>

(* cms_get_session_events: the first rows beyond a number, but the last    *)
(* rows when the number is 0.  There is one such page.                     *)
Ascending(rows) == \A i, j \in DOMAIN rows : i < j => rows[i] < rows[j]
Page == UNION {[1 .. n -> Seqs] : n \in 0 .. PageSize}
getSessionEvents(afterSeq) ==
    LET beyond == {e \in events : e > afterSeq}
    IN  {rows \in Page :
           LET rest == beyond \ Rows(rows)
           IN  /\ Ascending(rows) /\ Rows(rows) \subseteq beyond
               /\ rest # {} => Len(rows) = PageSize
               /\ \A e \in Rows(rows), f \in rest : IF afterSeq > 0 THEN e < f ELSE f < e}

----------------------------------------------------------------------------
(* The client.                                                             *)

(* Fault: a call does not notice that another is in progress.              *)
AskAnyway(c) ==
    /\ poll[c].stage = "none"
    /\ polling' = TRUE /\ poll' = [poll EXCEPT ![c].stage = "asked"]

Ask(c) ==
    /\ ~polling /\ poll[c].stage = "none"
    /\ polling' = TRUE /\ poll' = [poll EXCEPT ![c].stage = "asked"]

(* The interval timer calls _poll, and so does a notification; a call made *)
(* while another is in progress returns at once.                           *)
Tick(c) ==
    /\ subscribed /\ Ask(c)
    /\ UNCHANGED <<storeVars, subscribed, listening, notified, lastSeenSeq, delivered, hidden, mishaps>>

Notification ==
    /\ notified /\ notified' = FALSE
    /\ IF polling THEN UNCHANGED <<polling, poll>> ELSE \E c \in Call : Ask(c)
    /\ UNCHANGED <<storeVars, subscribed, listening, lastSeenSeq, delivered, hidden, mishaps>>

(* The query is answered; rows before the first page are left out for good.*)
Read(c) ==
    /\ poll[c].stage = "asked"
    /\ \E rows \in getSessionEvents(lastSeenSeq) :
         /\ poll' = [poll EXCEPT ![c] = [stage |-> "read", rows |-> rows]]
         /\ hidden' = IF lastSeenSeq = 0 /\ rows # <<>>
                      THEN hidden \union {e \in events : e < Head(rows)} ELSE hidden
    /\ UNCHANGED <<storeVars, subscribed, listening, notified, polling, lastSeenSeq, delivered, mishaps>>

(* Fault: the flag is not reset when the query fails.                      *)
FailsWhilePolling(c) ==
    /\ poll[c].stage = "asked" /\ Mishap
    /\ poll' = [poll EXCEPT ![c] = NoPoll]
    /\ UNCHANGED <<storeVars, subscribed, listening, notified, polling, lastSeenSeq, delivered, hidden>>

QueryFails(c) ==
    /\ poll[c].stage = "asked" /\ Mishap
    /\ poll' = [poll EXCEPT ![c] = NoPoll] /\ polling' = FALSE
    /\ UNCHANGED <<storeVars, subscribed, listening, notified, lastSeenSeq, delivered, hidden>>

(* The loop over the rows advances lastSeenSeq before it dispatches.  A    *)
(* page that arrives when the last handler is gone is passed over.         *)
Deliver(c) ==
    /\ poll[c].stage = "read"
    /\ lastSeenSeq' = IF poll[c].rows = <<>> THEN lastSeenSeq ELSE poll[c].rows[Len(poll[c].rows)]
    /\ IF subscribed
       THEN delivered' = [h \in Handler |-> delivered[h] \o poll[c].rows] /\ UNCHANGED hidden
       ELSE hidden' = hidden \union Rows(poll[c].rows) /\ UNCHANGED delivered
    /\ poll' = [poll EXCEPT ![c] = NoPoll] /\ polling' = FALSE
    /\ UNCHANGED <<storeVars, subscribed, listening, notified, mishaps>>

(* A handler for the type throws: the loop ends, the catch-all handlers    *)
(* never get this event, the rest of the page is asked for again.          *)
DeliverThrowing(c) ==
    /\ poll[c].stage = "read" /\ subscribed /\ Mishap
    /\ \E i \in DOMAIN poll[c].rows :
         LET event == poll[c].rows[i] IN
         /\ lastSeenSeq' = event /\ hidden' = hidden \union {event}
         /\ delivered' = [h \in Handler |-> delivered[h] \o
                            SubSeq(poll[c].rows, 1, IF h = "typed" THEN i ELSE i - 1)]
    /\ poll' = [poll EXCEPT ![c] = NoPoll] /\ polling' = FALSE
    /\ UNCHANGED <<storeVars, subscribed, listening, notified>>

(* The listening connection is set up, and lost with what is on its way.   *)
ListenerChanges ==
    /\ subscribed /\ listening' = ~listening /\ notified' = FALSE
    /\ UNCHANGED <<storeVars, subscribed, polling, poll, lastSeenSeq, delivered, hidden, mishaps>>

(* on starts the timer and polls at once; with the last handler gone       *)
(* _stopPolling clears the timer and tears the listener down.              *)
Subscribe ==
    /\ ~subscribed /\ subscribed' = TRUE
    /\ IF polling THEN UNCHANGED <<polling, poll>> ELSE \E c \in Call : Ask(c)
    /\ UNCHANGED <<storeVars, listening, notified, lastSeenSeq, delivered, hidden, mishaps>>

Unsubscribe ==
    /\ subscribed /\ Mishap /\ subscribed' = FALSE /\ listening' = FALSE /\ notified' = FALSE
    /\ UNCHANGED <<storeVars, polling, poll, lastSeenSeq, delivered, hidden>>

Writer == \E e \in Seqs : Commit(e) \/ Rollback(e)
PollStep(c) == Read(c) \/ QueryFails(c) \/ Deliver(c) \/ DeliverThrowing(c)

EventFeedNext ==
    \/ Insert \/ Writer \/ Notification \/ ListenerChanges \/ Subscribe \/ Unsubscribe
    \/ \E c \in Call : Tick(c) \/ PollStep(c)

(* Transactions end, the timer goes on and calls of _poll return.          *)
Polls == \E c \in Call : Tick(c) \/ PollStep(c)
EventFeedFairness == WF_feedVars(Writer) /\ WF_feedVars(Polls)

EventFeedSpec == EventFeedInit /\ [][EventFeedNext]_feedVars /\ EventFeedFairness

----------------------------------------------------------------------------
(* Properties.                                                             *)

EventFeedTypeOK ==
    /\ lastSeq \in 0 .. MaxEvents /\ open \subseteq Seqs /\ events \subseteq Seqs
    /\ subscribed \in BOOLEAN /\ listening \in BOOLEAN /\ notified \in BOOLEAN /\ polling \in BOOLEAN
    /\ poll \in [Call -> [stage : Stage, rows : Seq(Seqs)]]
    /\ lastSeenSeq \in 0 .. MaxEvents /\ hidden \subseteq Seqs
    /\ delivered \in [Handler -> Seq(Seqs)] /\ mishaps \in 0 .. MaxMishaps

(* Each handler gets each event once at most and in the order of the       *)
(* numbers, whatever commits, notifications, timer ticks and exceptions    *)
(* happen while a poll is in progress.                                     *)
DeliveredOnceInOrder ==
    \A h \in Handler : Ascending(delivered[h])

(* An event is delivered to every handler in the end, even if its          *)
(* notification was lost or came while a poll was in progress.  Not bound  *)
(* to be are: one committed behind a later one that was read, one before   *)
(* the first page, one on which a handler threw and one read when no       *)
(* handler was left.                                                       *)
EveryEventDelivered ==
    LET due == {e \in events \ hidden : \E h \in Handler : e \notin Rows(delivered[h])}
    IN  []<>(due = {} \/ ~subscribed)
=============================================================================
