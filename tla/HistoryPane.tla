----------------------------- MODULE HistoryPane -----------------------------
(***************************************************************************)
(* The history of one session as a user interface shows it: the controller *)
(* of src/packages/ui-core/src (controller.js, history.js, reducer.js).    *)
(*                                                                         *)
(* Three things write the history and none waits for another: a load       *)
(* replaces it by the latest events, an expansion puts older events before *)
(* the ones it found when it started, and single events are merged, from   *)
(* the subscription or from the query of a refresh.  Queries are awaited,  *)
(* so an answer may be older than what the pane shows by then.             *)
(***************************************************************************)
EXTENDS Naturals, Sequences

CONSTANTS
    MaxRecorded,   \* bound: events of the session
    Window,        \* DEFAULT_HISTORY_EVENT_LIMIT
    FeedPage,      \* what the first poll of a subscription asks for
    SyncPage,      \* the limit syncSessionEvents asks for
    MaxMoves       \* bound: moves of the user, evictions and failing queries

ASSUME PaneBounds ==
    {MaxRecorded, MaxMoves} \subseteq Nat /\ {Window, FeedPage, SyncPage} \subseteq Nat \ {0}

VARIABLES
    recorded,      \* events 1 .. recorded are in the catalog
    selected,      \* the session is the active one
    attached,      \* activeSessionSubscriptionId is this session
    otherLoads,    \* a loadSession of another session has not attached yet
    seen,          \* the last event the handle of the client has passed on
    pane,          \* the entry of history.bySessionId
    queries,       \* loads and queries under way
    expansion,     \* the entry of sessionHistoryExpansionLoads
    outpaced,      \* events the pane or its feed had when an older answer replaced it
    moves          \* the counter of its bound

paneVars == <<recorded, selected, attached, otherLoads, seen, pane, queries, expansion, outpaced, moves>>

Query == {1, 2}
Larger(m, n) == IF m > n THEN m ELSE n
Smaller(m, n) == IF m < n THEN m ELSE n
Interval(first, last) == [i \in 1 .. (last + 1 - first) |-> first + i - 1]
Latest(n) == Interval(Larger(recorded, n) + 1 - n, recorded)
Clamp(events, n) == IF Len(events) <= n THEN events ELSE SubSeq(events, Len(events) + 1 - n, Len(events))

NoPane == [events |-> <<>>, lastSeq |-> 0, loadedEventLimit |-> Window, hasOlderEvents |-> FALSE]
NoQuery == [kind |-> "none", limit |-> 0, rows |-> <<>>]
NoExpansion == [base |-> NoPane, rows |-> <<>>]

PaneInit ==
    \* more than the first load shows
    /\ recorded = Window + 1
    /\ selected = FALSE /\ attached = FALSE /\ otherLoads = FALSE /\ seen = 0
    /\ pane = NoPane /\ queries = [c \in Query |-> NoQuery] /\ expansion = NoExpansion
    /\ outpaced = {} /\ moves = 0

Move == moves < MaxMoves /\ moves' = moves + 1
Unused(c) == queries[c] = NoQuery
NextUnused(c) == Unused(c) /\ \A d \in Query : Unused(d) => c <= d

(* getSessionEvents as ensureSessionHistory and syncSessionEvents call it; *)
(* with an afterSeq of 0 it returns the latest rows.  The rows are read    *)
(* when the call is made and used when it is answered.                     *)
RowsFor(kind, history, limit) ==
    IF kind = "sync" /\ history.lastSeq > 0
    THEN Interval(history.lastSeq + 1, Smaller(recorded, history.lastSeq + limit))
    ELSE Latest(limit)

Asked(kind, history) ==
    LET limit == IF kind = "sync" THEN SyncPage ELSE history.loadedEventLimit
    IN  [kind |-> kind, limit |-> limit, rows |-> RowsFor(kind, history, limit)]

AskFor(c, kind) == queries' = [queries EXCEPT ![c] = Asked(kind, pane)]

RecordEvent ==
    /\ recorded < MaxRecorded /\ recorded' = recorded + 1
    /\ UNCHANGED <<selected, attached, otherLoads, seen, pane, queries, expansion, outpaced, moves>>

----------------------------------------------------------------------------
(* history/set by something else than a merge, and history/evict.          *)

Replace(history) ==
    /\ pane' = history
    /\ outpaced' = outpaced \union (history.lastSeq + 1 .. Larger(seen, pane.lastSeq))

(* Fault: what is shown already is appended again.                         *)
MergedUnguarded(history, rows) ==
    IF rows = <<>> THEN history
    ELSE [history EXCEPT !.events = Clamp(@ \o rows, history.loadedEventLimit), !.lastSeq = rows[Len(rows)]]

(* mergeSessionEvent and appendEventToHistory, one after the other for     *)
(* rows that have consecutive numbers: those beyond lastSeq are appended.  *)
Merged(history, rows) ==
    IF rows = <<>> \/ rows[Len(rows)] <= history.lastSeq
    THEN history
    ELSE LET last == rows[Len(rows)]
             fresh == Interval(Larger(rows[1], history.lastSeq + 1), last)
         IN  [history EXCEPT !.events = Clamp(@ \o fresh, history.loadedEventLimit), !.lastSeq = last]

----------------------------------------------------------------------------
(* What the user does, and the selection of another session meanwhile.     *)

(* loadSession, of a session selected already too.                         *)
LoadSession(c) ==
    /\ Move /\ NextUnused(c)
    /\ selected' = TRUE /\ AskFor(c, "loadSession")
    /\ UNCHANGED <<recorded, attached, otherLoads, seen, pane, expansion, outpaced>>

SelectOther ==
    /\ selected /\ Move
    /\ selected' = FALSE /\ otherLoads' = TRUE
    /\ UNCHANGED <<recorded, attached, seen, pane, queries, expansion, outpaced>>

(* attachActiveSession of the other session, even when it is not active    *)
(* any more by then; a refresh attaches the active one.                    *)
AttachOther ==
    /\ otherLoads \/ (~selected /\ attached)
    /\ attached' = FALSE /\ otherLoads' = FALSE
    /\ UNCHANGED <<recorded, selected, seen, pane, queries, expansion, outpaced, moves>>

EvictStale ==
    /\ ~selected /\ pane # NoPane
    /\ Replace(NoPane)
    /\ UNCHANGED <<recorded, selected, attached, otherLoads, seen, queries, expansion, moves>>

----------------------------------------------------------------------------
(* The subscription: _poll of the client queries the handler with what is    *)
(* beyond its lastSeenSeq, which the handle keeps while nobody subscribes.  *)

NextOfFeed == IF seen = 0 THEN Larger(recorded, FeedPage) + 1 - FeedPage ELSE seen + 1
Jumped == IF seen = 0 THEN pane.lastSeq + 1 .. NextOfFeed - 1 ELSE {}

EventArrives ==
    /\ attached /\ seen < recorded
    /\ seen' = NextOfFeed
    /\ pane' = Merged(pane, <<NextOfFeed>>)
    /\ outpaced' = outpaced \union Jumped
    /\ UNCHANGED <<recorded, selected, attached, otherLoads, queries, expansion, moves>>

----------------------------------------------------------------------------
(* Fault: the subscription is trusted once it is there.                    *)
RefreshUnattached(c) ==
    /\ selected /\ NextUnused(c)
    /\ \/ pane.events = <<>> /\ AskFor(c, "refreshLoad") /\ UNCHANGED attached
       \/ pane.events # <<>> /\ ~attached /\ AskFor(c, "sync") /\ attached' = TRUE
    /\ UNCHANGED <<recorded, selected, otherLoads, seen, pane, expansion, outpaced, moves>>

(* refreshSessions, on its timer: load what is missing, attach, and ask    *)
(* for what the subscription did not bring.  The query attachActiveSession *)
(* starts by itself stands for both; the next refresh asks again.          *)

Refresh(c) ==
    /\ selected /\ NextUnused(c)
    /\ \/ pane.events = <<>> /\ AskFor(c, "refreshLoad") /\ UNCHANGED attached
       \/ pane.events # <<>> /\ AskFor(c, "sync") /\ attached' = TRUE
    /\ UNCHANGED <<recorded, selected, otherLoads, seen, pane, expansion, outpaced, moves>>

(* buildHistoryModel.                                                      *)
Loaded(rows, limit) ==
    [events |-> rows, lastSeq |-> IF rows = <<>> THEN 0 ELSE rows[Len(rows)],
     loadedEventLimit |-> limit, hasOlderEvents |-> Len(rows) >= limit]

(* ensureSessionHistory, then attachActiveSession with its query.          *)
LoadAnswered(c) ==
    /\ queries[c].kind \in {"loadSession", "refreshLoad"}
    /\ Replace(Loaded(queries[c].rows, queries[c].limit))
    /\ attached' = TRUE
    /\ queries' = [queries EXCEPT ![c] = Asked("sync", pane')]
    /\ UNCHANGED <<recorded, selected, otherLoads, seen, expansion, moves>>

SyncAnswered(c) ==
    /\ queries[c].kind = "sync"
    /\ pane' = Merged(pane, queries[c].rows)
    /\ queries' = [queries EXCEPT ![c] = NoQuery]
    /\ UNCHANGED <<recorded, selected, attached, otherLoads, seen, expansion, outpaced, moves>>

(* A failed load of refreshSessions still attaches, one of loadSession     *)
(* does not.                                                               *)
LoadFails(c) ==
    /\ ~Unused(c) /\ Move
    /\ queries' = [queries EXCEPT ![c] = NoQuery]
    /\ attached' = (attached \/ queries[c].kind = "refreshLoad")
    /\ UNCHANGED <<recorded, selected, otherLoads, seen, pane, expansion, outpaced>>

----------------------------------------------------------------------------
(* expandSessionHistory, one at a time.                                    *)

(* Fault: the page begins at the oldest event.                             *)
OldestFirst(seq) == Interval(1, Smaller(seq - 1, Window))

(* getSessionEventsBefore.                                                 *)
OlderThan(seq) == Clamp(Interval(1, seq - 1), Window)

Expand ==
    /\ selected /\ expansion = NoExpansion /\ Move
    /\ pane.hasOlderEvents /\ pane.events # <<>> /\ pane.events[1] > 1
    /\ expansion' = [base |-> pane, rows |-> OlderThan(pane.events[1])]
    /\ UNCHANGED <<recorded, selected, attached, otherLoads, seen, pane, queries, outpaced>>

Expanded(base, older) ==
    LET combined == older \o base.events
    IN  [base EXCEPT !.events = combined, !.loadedEventLimit = Larger(Window, Len(combined)),
                     !.hasOlderEvents = Len(older) >= Window /\ older[1] > 1]

ExpansionAnswered ==
    /\ expansion # NoExpansion
    /\ Replace(Expanded(expansion.base, expansion.rows))
    /\ expansion' = NoExpansion
    /\ UNCHANGED <<recorded, selected, attached, otherLoads, seen, queries, moves>>

ExpansionFails ==
    /\ expansion # NoExpansion
    /\ expansion' = NoExpansion
    /\ UNCHANGED <<recorded, selected, attached, otherLoads, seen, pane, queries, outpaced, moves>>

----------------------------------------------------------------------------
PaneNext ==
    \/ RecordEvent \/ SelectOther \/ AttachOther \/ EvictStale \/ EventArrives
    \/ Expand \/ ExpansionAnswered \/ ExpansionFails
    \/ \E c \in Query :
        \/ LoadSession(c) \/ Refresh(c)
        \/ LoadAnswered(c) \/ SyncAnswered(c) \/ LoadFails(c)

PaneSpec == PaneInit /\ [][PaneNext]_paneVars

(* The timer of the refresh goes on and queries end.                       *)
PaneOwed == \E c \in Query : Refresh(c) \/ LoadAnswered(c) \/ SyncAnswered(c)

FairPane == PaneSpec /\ WF_paneVars(PaneOwed)

----------------------------------------------------------------------------
History == [events : Seq(Nat), lastSeq : Nat, loadedEventLimit : Nat \ {0}, hasOlderEvents : BOOLEAN]
QueryState == [kind : {"none", "loadSession", "refreshLoad", "sync"}, limit : Nat, rows : Seq(Nat)]

PaneTypeOK ==
    /\ recorded \in Nat /\ seen \in 0 .. recorded
    /\ selected \in BOOLEAN /\ attached \in BOOLEAN /\ otherLoads \in BOOLEAN
    /\ pane \in History /\ queries \in [Query -> QueryState]
    /\ expansion \in [base : History, rows : Seq(Nat)]
    /\ outpaced \subseteq Nat /\ moves \in 0 .. MaxMoves

Rising(seq) == \A i, j \in DOMAIN seq : i < j => seq[i] < seq[j]
Sound(history) ==
    /\ Rising(history.events)
    /\ history.events # <<>> => history.events[Len(history.events)] = history.lastSeq

(* However loads, expansions, queries and the subscription cross, the pane *)
(* shows events in order, each once, up to the one its lastSeq names       *)
(* (mergeSessionEvent, expandSessionHistory).                              *)
ShownOnceInOrder == Sound(pane)

(* Between the first and the last event shown none is missing, unless an   *)
(* older answer replaced a newer history, or the first poll of the         *)
(* subscription, which begins with the latest events, jumped over it.      *)
GapsOnlyFromOldAnswers ==
    \A i \in DOMAIN pane.events \ {1} :
        \A e \in pane.events[i - 1] + 1 .. pane.events[i] - 1 : e \in outpaced

(* A session that stays selected shows its last event in the end, whatever *)
(* answers came late: a refresh asks for what is beyond the last one shown. *)
PaneCatchesUp == <>[](selected => pane.lastSeq = recorded)

=============================================================================
