-------------------------- MODULE HistoryPaneProofs --------------------------
(***************************************************************************)
(* Proofs about HistoryPane for every size of the window and of the pages, *)
(* every number of events and every number of moves.                       *)
(***************************************************************************)
EXTENDS HistoryPane, SequenceTheorems, TLAPS

Below(seq, n) == \A i \in DOMAIN seq : seq[i] < n

(* Rows under way are in order, and a load knows how many it asked for.    *)
QueriesRise ==
    \A c \in Query :
        /\ Rising(queries[c].rows)
        /\ queries[c].kind \in {"loadSession", "refreshLoad"} => queries[c].limit # 0

(* An expansion brings what is older than the history it started from.     *)
ExpansionFits ==
    /\ Sound(expansion.base)
    /\ expansion # NoExpansion =>
         /\ expansion.base.events # <<>> /\ Rising(expansion.rows)
         /\ Below(expansion.rows, expansion.base.events[1])

PaneInv == PaneTypeOK /\ Sound(pane) /\ QueriesRise /\ ExpansionFits

----------------------------------------------------------------------------
(* Sequences of numbers.                                                   *)

LEMMA Elements ==
    ASSUME NEW s \in Seq(Nat)
    PROVE  /\ Len(s) \in Nat /\ DOMAIN s = 1 .. Len(s)
           /\ \A i \in DOMAIN s : s[i] \in Nat
           /\ s # <<>> => 1 \in DOMAIN s /\ Len(s) \in DOMAIN s
  <1>1. Len(s) \in Nat /\ DOMAIN s = 1 .. Len(s)
    BY LenProperties
  <1>2. \A i \in DOMAIN s : s[i] \in Nat
    BY <1>1, ElementOfSeq
  <1>3. s # <<>> => Len(s) # 0
    BY EmptySeq
  <1>4. QED
    BY <1>1, <1>2, <1>3

(* The last of a rising sequence is its greatest, the first its least.     *)
LEMMA Extremes ==
    ASSUME NEW s \in Seq(Nat), Rising(s)
    PROVE  \A i \in DOMAIN s : s[1] <= s[i] /\ s[i] <= s[Len(s)]
  <1>1. ASSUME NEW i \in DOMAIN s PROVE s[1] <= s[i] /\ s[i] <= s[Len(s)]
    <2>1. /\ i \in Nat /\ Len(s) \in Nat /\ 1 \in DOMAIN s /\ Len(s) \in DOMAIN s
          /\ (1 < i \/ 1 = i) /\ (i < Len(s) \/ i = Len(s))
          /\ s[1] \in Nat /\ s[i] \in Nat /\ s[Len(s)] \in Nat
      BY Elements
    <2>2. QED
      BY <2>1 DEF Rising
  <1>2. QED
    BY <1>1

LEMMA IntervalRises ==
    ASSUME NEW first \in Nat, NEW last \in Nat
    PROVE  /\ Interval(first, last) \in Seq(Nat) /\ Rising(Interval(first, last))
           /\ \A i \in DOMAIN Interval(first, last) :
                first <= Interval(first, last)[i] /\ Interval(first, last)[i] <= last
           /\ first <= last =>
                /\ Interval(first, last) # <<>> /\ Interval(first, last)[1] = first
                /\ Interval(first, last)[Len(Interval(first, last))] = last
  <1> DEFINE s == Interval(first, last)
  <1>1. CASE first <= last
    <2>1. /\ last + 1 - first \in Nat /\ last + 1 - first >= 1
          /\ s = [i \in 1 .. (last + 1 - first) |-> first + i - 1]
      BY <1>1 DEF Interval
    <2>2. s \in [1 .. (last + 1 - first) -> Nat]
      BY <2>1
    <2>3. s \in Seq(Nat)
      BY <2>1, <2>2
    <2>4. DOMAIN s = 1 .. (last + 1 - first) /\ Len(s) = last + 1 - first
      BY <2>1, <2>3, Elements
    <2>5. QED
      BY <1>1, <2>1, <2>3, <2>4, EmptySeq DEF Rising
  <1>2. CASE ~(first <= last)
    <2>1. 1 .. (last + 1 - first) = {} /\ s = [i \in 1 .. (last + 1 - first) |-> first + i - 1]
      BY <1>2 DEF Interval
    <2>2. DOMAIN s = {} /\ s \in [1 .. 0 -> Nat]
      BY <2>1
    <2>3. s \in Seq(Nat)
      BY <2>2
    <2>4. QED
      BY <1>2, <2>2, <2>3 DEF Rising
  <1>3. QED
    BY <1>1, <1>2

(* clampHistoryItems keeps the order and the last event.                   *)
LEMMA ClampKeeps ==
    ASSUME NEW s \in Seq(Nat), Rising(s), NEW n \in Nat \ {0}
    PROVE  /\ Clamp(s, n) \in Seq(Nat) /\ Rising(Clamp(s, n))
           /\ s # <<>> => /\ Clamp(s, n) # <<>>
                          /\ Clamp(s, n)[Len(Clamp(s, n))] = s[Len(s)]
           /\ \A m \in Nat : Below(s, m) => Below(Clamp(s, n), m)
  <1>1. CASE Len(s) <= n
    BY <1>1 DEF Clamp
  <1>2. CASE ~(Len(s) <= n)
    <2> DEFINE first == Len(s) + 1 - n
    <2> HIDE DEF first
    <2>1. /\ Len(s) \in Nat /\ DOMAIN s = 1 .. Len(s) /\ n \in Nat /\ n >= 1
          /\ first = Len(s) + 1 - n /\ first \in 1 .. Len(s) + 1 /\ Len(s) \in first - 1 .. Len(s)
          /\ Clamp(s, n) = SubSeq(s, first, Len(s))
      BY <1>2, Elements DEF Clamp, first
    <2>2. /\ Clamp(s, n) \in Seq(Nat) /\ Len(Clamp(s, n)) = n
          /\ \A i \in 1 .. n : Clamp(s, n)[i] = s[first + i - 1]
      <3>1. /\ first \in Int /\ Len(s) \in Int /\ first <= Len(s) /\ Len(s) - first + 1 = n
            /\ \A i \in first .. Len(s) : s[i] \in Nat
        <4>1. \A i \in first .. Len(s) : i \in DOMAIN s
          BY <2>1
        <4>2. QED
          BY <2>1, <4>1, Elements
      <3>2. /\ SubSeq(s, first, Len(s)) \in Seq(Nat) /\ Len(SubSeq(s, first, Len(s))) = n
            /\ \A i \in 1 .. n : SubSeq(s, first, Len(s))[i] = s[first + i - 1]
        BY <3>1, SubSeqProperties
      <3>3. QED
        BY <2>1, <3>2
    <2>3. DOMAIN Clamp(s, n) = 1 .. n
      BY <2>2, Elements
    <2>4. \A i \in 1 .. n : first + i - 1 \in DOMAIN s
      BY <2>1
    <2>5. Rising(Clamp(s, n))
      <3>1. ASSUME NEW i \in 1 .. n, NEW j \in 1 .. n, i < j
            PROVE  Clamp(s, n)[i] < Clamp(s, n)[j]
        <4>1. first + i - 1 < first + j - 1
          BY <2>1, <3>1
        <4>2. s[first + i - 1] < s[first + j - 1]
          BY <2>4, <4>1 DEF Rising
        <4>3. QED
          BY <2>2, <4>2
      <3>2. QED
        BY <2>3, <3>1 DEF Rising
    <2>6. Clamp(s, n) # <<>> /\ Clamp(s, n)[Len(Clamp(s, n))] = s[Len(s)]
      <3>1. Clamp(s, n)[n] = s[first + n - 1] /\ first + n - 1 = Len(s)
        BY <2>1, <2>2
      <3>2. Clamp(s, n) # <<>>
        BY <2>1, <2>2, EmptySeq
      <3>3. QED
        BY <2>2, <3>1, <3>2
    <2>7. \A m \in Nat : Below(s, m) => Below(Clamp(s, n), m)
      BY <2>2, <2>3, <2>4 DEF Below
    <2>8. QED
      BY <2>2, <2>5, <2>6, <2>7
  <1>3. QED
    BY <1>1, <1>2

(* What follows a rising sequence from beyond its last event continues it. *)
LEMMA ConcatRises ==
    ASSUME NEW s \in Seq(Nat), NEW t \in Seq(Nat), Rising(s), Rising(t), t # <<>>,
           Below(s, t[1])
    PROVE  /\ s \o t \in Seq(Nat) /\ Rising(s \o t) /\ s \o t # <<>>
           /\ (s \o t)[Len(s \o t)] = t[Len(t)]
  <1>1. /\ s \o t \in Seq(Nat) /\ Len(s \o t) = Len(s) + Len(t)
        /\ \A i \in 1 .. Len(s) + Len(t) :
             (s \o t)[i] = IF i <= Len(s) THEN s[i] ELSE t[i - Len(s)]
    BY ConcatProperties
  <1>2. DOMAIN (s \o t) = 1 .. Len(s) + Len(t)
    BY <1>1, Elements
  <1>3. /\ Len(s) \in Nat /\ Len(t) \in Nat /\ Len(t) >= 1
        /\ DOMAIN s = 1 .. Len(s) /\ DOMAIN t = 1 .. Len(t)
    <2>1. 1 \in DOMAIN t
      BY Elements
    <2>2. QED
      BY <2>1, Elements
  <1>4. ASSUME NEW i \in DOMAIN (s \o t), NEW j \in DOMAIN (s \o t), i < j
        PROVE  (s \o t)[i] < (s \o t)[j]
    <2>1. i \in Nat /\ j \in Nat
      BY <1>2, <1>3
    <2>2. CASE j <= Len(s)
      <3>1. /\ (s \o t)[i] = s[i] /\ (s \o t)[j] = s[j]
            /\ i \in DOMAIN s /\ j \in DOMAIN s
        BY <1>1, <1>2, <1>3, <1>4, <2>1, <2>2
      <3>2. QED
        BY <1>4, <3>1 DEF Rising
    <2>3. CASE i <= Len(s) /\ ~(j <= Len(s))
      <3>1. /\ (s \o t)[i] = s[i] /\ (s \o t)[j] = t[j - Len(s)]
            /\ i \in DOMAIN s /\ j - Len(s) \in DOMAIN t
        BY <1>1, <1>2, <1>3, <2>1, <2>3
      <3>2. s[i] < t[1] /\ t[1] <= t[j - Len(s)]
        BY <3>1, Extremes DEF Below
      <3>3. s[i] \in Nat /\ t[1] \in Nat /\ t[j - Len(s)] \in Nat
        BY <3>1, Elements
      <3>4. QED
        BY <3>1, <3>2, <3>3
    <2>4. CASE ~(i <= Len(s))
      <3>1. /\ (s \o t)[i] = t[i - Len(s)] /\ (s \o t)[j] = t[j - Len(s)]
            /\ i - Len(s) \in DOMAIN t /\ j - Len(s) \in DOMAIN t /\ i - Len(s) < j - Len(s)
        BY <1>1, <1>2, <1>3, <1>4, <2>1, <2>4
      <3>2. QED
        BY <3>1 DEF Rising
    <2>5. QED
      BY <2>2, <2>3, <2>4
  <1>5. s \o t # <<>> /\ (s \o t)[Len(s \o t)] = t[Len(t)]
    BY <1>1, <1>3, EmptySeq
  <1>6. QED
    BY <1>1, <1>4, <1>5 DEF Rising

----------------------------------------------------------------------------
(* What the handlers make of a history and of rows.                        *)

LEMMA Limits ==
    Window \in Nat \ {0} /\ FeedPage \in Nat \ {0} /\ SyncPage \in Nat \ {0} /\ MaxMoves \in Nat
  BY PaneBounds

LEMMA MergedSound ==
    ASSUME NEW h \in History, Sound(h), NEW rows \in Seq(Nat), Rising(rows)
    PROVE  Merged(h, rows) \in History /\ Sound(Merged(h, rows))
  <1> DEFINE last == rows[Len(rows)]
             first == Larger(rows[1], h.lastSeq + 1)
             fresh == Interval(first, last)
             joined == h.events \o fresh
  <1>1. CASE rows = <<>> \/ last <= h.lastSeq
    BY <1>1 DEF Merged
  <1>2. CASE ~(rows = <<>> \/ last <= h.lastSeq)
    <2>1. /\ h.events \in Seq(Nat) /\ h.lastSeq \in Nat /\ h.loadedEventLimit \in Nat \ {0}
          /\ Rising(h.events)
      BY DEF History, Sound
    <2>2. last \in Nat /\ rows[1] \in Nat /\ rows[1] <= last /\ h.lastSeq < last
      <3>1. 1 \in DOMAIN rows /\ Len(rows) \in DOMAIN rows
        BY <1>2, Elements
      <3>2. last \in Nat /\ rows[1] \in Nat /\ rows[1] <= last
        BY <3>1, Elements, Extremes
      <3>3. QED
        BY <1>2, <2>1, <3>2
    <2>3. first \in Nat /\ first <= last /\ h.lastSeq < first
      BY <2>1, <2>2 DEF Larger
    <2> HIDE DEF first, last
    <2>4. /\ fresh \in Seq(Nat) /\ Rising(fresh) /\ fresh # <<>>
          /\ fresh[1] = first /\ fresh[Len(fresh)] = last
      BY <2>2, <2>3, IntervalRises
    <2> HIDE DEF fresh
    <2>5. Below(h.events, fresh[1])
      <3>1. ASSUME NEW i \in DOMAIN h.events PROVE h.events[i] < first
        <4>1. h.events # <<>>
          BY <2>1, Elements, EmptySeq
        <4>2. h.events[i] <= h.lastSeq /\ h.events[i] \in Nat
          BY <2>1, <4>1, Extremes, Elements DEF Sound
        <4>3. QED
          BY <2>1, <2>3, <4>2
      <3>2. QED
        BY <2>4, <3>1 DEF Below
    <2>6. /\ joined \in Seq(Nat) /\ Rising(joined) /\ joined # <<>>
          /\ joined[Len(joined)] = last
      BY <2>1, <2>4, <2>5, ConcatRises
    <2> HIDE DEF joined
    <2>7. /\ Clamp(joined, h.loadedEventLimit) \in Seq(Nat)
          /\ Rising(Clamp(joined, h.loadedEventLimit))
          /\ Clamp(joined, h.loadedEventLimit)[Len(Clamp(joined, h.loadedEventLimit))] = last
      BY <2>1, <2>6, ClampKeeps
    <2>8. Merged(h, rows) =
            [h EXCEPT !.events = Clamp(joined, h.loadedEventLimit), !.lastSeq = last]
      BY <1>2 DEF Merged, joined, fresh, first, last
    <2>9. /\ Merged(h, rows).events = Clamp(joined, h.loadedEventLimit)
          /\ Merged(h, rows).lastSeq = last /\ Merged(h, rows) \in History
      BY <2>1, <2>2, <2>7, <2>8 DEF History
    <2>10. QED
      BY <2>7, <2>9 DEF Sound
  <1>3. QED
    BY <1>1, <1>2

LEMMA RowsAsked ==
    ASSUME recorded \in Nat, NEW h \in History,
           NEW kind \in {"loadSession", "refreshLoad", "sync"}
    PROVE  /\ Asked(kind, h) \in QueryState /\ Rising(Asked(kind, h).rows)
           /\ Asked(kind, h).limit # 0
  <1> DEFINE limit == IF kind = "sync" THEN SyncPage ELSE h.loadedEventLimit
  <1>1. limit \in Nat \ {0} /\ h.lastSeq \in Nat
    BY Limits DEF History
  <1> HIDE DEF limit
  <1>2. RowsFor(kind, h, limit) \in Seq(Nat) /\ Rising(RowsFor(kind, h, limit))
    <2>1. CASE kind = "sync" /\ h.lastSeq > 0
      <3>1. h.lastSeq + 1 \in Nat /\ Smaller(recorded, h.lastSeq + limit) \in Nat
        BY <1>1 DEF Smaller
      <3>2. QED
        BY <2>1, <3>1, IntervalRises DEF RowsFor
    <2>2. CASE ~(kind = "sync" /\ h.lastSeq > 0)
      <3>1. Larger(recorded, limit) + 1 - limit \in Nat
        BY <1>1 DEF Larger
      <3>2. QED
        BY <2>2, <3>1, IntervalRises DEF RowsFor, Latest
    <2>3. QED
      BY <2>1, <2>2
  <1>3. Asked(kind, h) = [kind |-> kind, limit |-> limit, rows |-> RowsFor(kind, h, limit)]
    BY DEF Asked, limit
  <1>4. QED
    BY <1>1, <1>2, <1>3 DEF QueryState

LEMMA LoadedSound ==
    ASSUME NEW rows \in Seq(Nat), Rising(rows), NEW limit \in Nat \ {0}
    PROVE  Loaded(rows, limit) \in History /\ Sound(Loaded(rows, limit))
  <1>1. Len(rows) \in Nat /\ (rows # <<>> => rows[Len(rows)] \in Nat)
    BY Elements
  <1>2. QED
    BY <1>1 DEF Loaded, History, Sound

(* getSessionEventsBefore returns what is older, in order.                 *)
LEMMA OlderRises ==
    ASSUME NEW seq \in Nat, seq > 1
    PROVE  /\ OlderThan(seq) \in Seq(Nat) /\ Rising(OlderThan(seq))
           /\ Below(OlderThan(seq), seq)
  <1>1. /\ Interval(1, seq - 1) \in Seq(Nat) /\ Rising(Interval(1, seq - 1))
        /\ \A i \in DOMAIN Interval(1, seq - 1) :
             Interval(1, seq - 1)[i] \in Nat /\ Interval(1, seq - 1)[i] <= seq - 1
    <2>1. seq - 1 \in Nat
      OBVIOUS
    <2>2. QED
      BY <2>1, IntervalRises, Elements
  <1>2. Below(Interval(1, seq - 1), seq)
    BY <1>1 DEF Below
  <1>3. QED
    BY <1>1, <1>2, ClampKeeps, Limits DEF OlderThan

LEMMA ExpandedSound ==
    ASSUME NEW base \in History, Sound(base), base.events # <<>>,
           NEW older \in Seq(Nat), Rising(older), Below(older, base.events[1])
    PROVE  Expanded(base, older) \in History /\ Sound(Expanded(base, older))
  <1> DEFINE combined == older \o base.events
  <1>1. /\ base.events \in Seq(Nat) /\ Rising(base.events)
        /\ base.events[Len(base.events)] = base.lastSeq
    BY DEF History, Sound
  <1>2. /\ combined \in Seq(Nat) /\ Rising(combined) /\ combined # <<>>
        /\ combined[Len(combined)] = base.lastSeq
    <2>1. /\ combined \in Seq(Nat) /\ Rising(combined) /\ combined # <<>>
          /\ combined[Len(combined)] = base.events[Len(base.events)]
      BY <1>1, ConcatRises
    <2>2. QED
      BY <1>1, <2>1
  <1>3. Len(combined) \in Nat
    BY <1>2, Elements
  <1>4. Larger(Window, Len(combined)) \in Nat \ {0}
    BY <1>3, Limits DEF Larger
  <1> HIDE DEF combined
  <1>5. (Len(older) >= Window /\ older[1] > 1) \in BOOLEAN
    OBVIOUS
  <1>6. Expanded(base, older) =
          [base EXCEPT !.events = combined, !.loadedEventLimit = Larger(Window, Len(combined)),
                       !.hasOlderEvents = Len(older) >= Window /\ older[1] > 1]
    BY DEF Expanded, combined
  <1>7. /\ Expanded(base, older) \in History
        /\ Expanded(base, older).events = combined
        /\ Expanded(base, older).lastSeq = base.lastSeq
    BY <1>2, <1>4, <1>5, <1>6 DEF History
  <1>8. QED
    BY <1>2, <1>7 DEF Sound

----------------------------------------------------------------------------
(* The invariant holds at first and every step keeps it.                   *)

LEMMA InitEstablishes == PaneInit => PaneInv
  <1> SUFFICES ASSUME PaneInit PROVE PaneInv
    OBVIOUS
  <1>1. NoPane \in History /\ Sound(NoPane) /\ <<>> \in Seq(Nat) /\ Rising(<<>>)
    BY Limits DEF NoPane, History, Sound, Rising
  <1>2. NoQuery \in QueryState /\ NoExpansion \in [base : History, rows : Seq(Nat)]
    BY <1>1 DEF NoQuery, QueryState, NoExpansion
  <1>3. PaneTypeOK
    <2>1. recorded \in Nat /\ seen \in 0 .. recorded /\ outpaced \subseteq Nat /\ moves \in 0 .. MaxMoves
      BY Limits DEF PaneInit
    <2>2. queries \in [Query -> QueryState]
      BY <1>2 DEF PaneInit
    <2>3. QED
      BY <1>1, <1>2, <2>1, <2>2 DEF PaneInit, PaneTypeOK
  <1>4. QED
    BY <1>1, <1>3 DEF PaneInit, PaneInv, QueriesRise, ExpansionFits, NoQuery, NoExpansion

(* What an older answer replaces is a set of numbers.                      *)
LEMMA ReplaceTypes ==
    ASSUME PaneTypeOK, NEW h \in History, Replace(h)
    PROVE  pane' = h /\ outpaced' \subseteq Nat
  <1>1. h.lastSeq + 1 \in Nat /\ Larger(seen, pane.lastSeq) \in Nat
    BY DEF PaneTypeOK, History, Larger
  <1>2. (h.lastSeq + 1 .. Larger(seen, pane.lastSeq)) \subseteq Nat
    BY <1>1
  <1>3. QED
    BY <1>2 DEF Replace, PaneTypeOK

LEMMA AskKeeps ==
    ASSUME PaneInv, NEW c \in Query, NEW kind \in {"loadSession", "refreshLoad", "sync"},
           AskFor(c, kind)
    PROVE  /\ queries' \in [Query -> QueryState] /\ QueriesRise'
  <1>1. pane \in History /\ recorded \in Nat /\ queries \in [Query -> QueryState]
    BY DEF PaneInv, PaneTypeOK
  <1>2. /\ Asked(kind, pane) \in QueryState /\ Rising(Asked(kind, pane).rows)
        /\ Asked(kind, pane).limit # 0
    BY <1>1, RowsAsked
  <1>3. queries' = [queries EXCEPT ![c] = Asked(kind, pane)]
    BY DEF AskFor
  <1>4. QED
    BY <1>1, <1>2, <1>3 DEF PaneInv, QueriesRise

LEMMA FreeKeeps ==
    ASSUME PaneInv, NEW c \in Query, queries' = [queries EXCEPT ![c] = NoQuery]
    PROVE  queries' \in [Query -> QueryState] /\ QueriesRise'
  <1>1. NoQuery \in QueryState /\ Rising(NoQuery.rows) /\ NoQuery.kind = "none"
    BY DEF NoQuery, QueryState, Rising
  <1>2. queries \in [Query -> QueryState]
    BY DEF PaneInv, PaneTypeOK
  <1>3. QED
    BY <1>1, <1>2 DEF PaneInv, QueriesRise

LEMMA NextPreserves == PaneInv /\ [PaneNext]_paneVars => PaneInv'
  <1> SUFFICES ASSUME PaneInv, [PaneNext]_paneVars PROVE PaneInv'
    OBVIOUS
  <1> USE DEF Move
  <1>0. /\ recorded \in Nat /\ seen \in Nat /\ seen <= recorded /\ pane \in History /\ Sound(pane)
        /\ queries \in [Query -> QueryState] /\ outpaced \subseteq Nat /\ MaxMoves \in Nat
        /\ moves \in 0 .. MaxMoves
    BY Limits DEF PaneInv, PaneTypeOK
  <1>1. CASE RecordEvent
    <2>1. recorded' \in Nat /\ seen' \in 0 .. recorded'
      BY <1>0, <1>1 DEF RecordEvent
    <2>2. QED
      BY <1>1, <2>1 DEF RecordEvent, PaneInv, PaneTypeOK, QueriesRise, ExpansionFits
  <1>2. CASE SelectOther
    <2>1. moves' \in 0 .. MaxMoves
      BY <1>0, <1>2 DEF SelectOther
    <2>2. QED
      BY <1>2, <2>1 DEF SelectOther, PaneInv, PaneTypeOK, QueriesRise, ExpansionFits
  <1>3. CASE AttachOther
    BY <1>3 DEF AttachOther, PaneInv, PaneTypeOK, QueriesRise, ExpansionFits
  <1>4. CASE EvictStale
    <2>1. NoPane \in History /\ Sound(NoPane)
      BY Limits DEF NoPane, History, Sound, Rising
    <2>2. pane' = NoPane /\ outpaced' \subseteq Nat
      BY <1>4, <2>1, ReplaceTypes DEF EvictStale, PaneInv
    <2>3. QED
      BY <1>4, <2>1, <2>2 DEF EvictStale, PaneInv, PaneTypeOK, QueriesRise, ExpansionFits
  <1>5. CASE EventArrives
    <2>1. NextOfFeed \in Nat /\ NextOfFeed <= recorded
      BY <1>0, <1>5, Limits DEF EventArrives, NextOfFeed, Larger
    <2>2. <<NextOfFeed>> \in Seq(Nat) /\ Rising(<<NextOfFeed>>)
      BY <2>1 DEF Rising
    <2>3. pane' \in History /\ Sound(pane)'
      BY <1>0, <1>5, <2>2, MergedSound DEF EventArrives
    <2>4. outpaced' \subseteq Nat
      <3>1. Jumped \subseteq Nat
        BY <1>0, <2>1 DEF Jumped, History
      <3>2. QED
        BY <1>0, <1>5, <3>1 DEF EventArrives
    <2>5. QED
      BY <1>5, <2>1, <2>3, <2>4
      DEF EventArrives, PaneInv, PaneTypeOK, QueriesRise, ExpansionFits
  <1>6. CASE Expand
    <2>1. /\ pane.events \in Seq(Nat) /\ pane.events # <<>> /\ pane.events[1] > 1
          /\ expansion' = [base |-> pane, rows |-> OlderThan(pane.events[1])]
      BY <1>0, <1>6 DEF Expand, History
    <2>2. pane.events[1] \in Nat
      BY <2>1, Elements
    <2>3. /\ OlderThan(pane.events[1]) \in Seq(Nat) /\ Rising(OlderThan(pane.events[1]))
          /\ Below(OlderThan(pane.events[1]), pane.events[1])
      BY <2>1, <2>2, OlderRises
    <2>4. /\ expansion'.base = pane /\ expansion'.rows = OlderThan(pane.events[1])
          /\ expansion' \in [base : History, rows : Seq(Nat)]
      BY <1>0, <2>1, <2>3
    <2>5. ExpansionFits'
      BY <1>0, <2>1, <2>3, <2>4 DEF ExpansionFits
    <2>6. moves' \in 0 .. MaxMoves
      BY <1>0, <1>6 DEF Expand
    <2>7. QED
      BY <1>6, <2>4, <2>5, <2>6 DEF Expand, PaneInv, PaneTypeOK, QueriesRise
  <1>7. CASE ExpansionAnswered
    <2>1. /\ expansion # NoExpansion /\ expansion.base \in History /\ expansion.rows \in Seq(Nat)
          /\ Sound(expansion.base) /\ expansion.base.events # <<>> /\ Rising(expansion.rows)
          /\ Below(expansion.rows, expansion.base.events[1])
      BY <1>7 DEF ExpansionAnswered, PaneInv, PaneTypeOK, ExpansionFits
    <2>2. /\ Expanded(expansion.base, expansion.rows) \in History
          /\ Sound(Expanded(expansion.base, expansion.rows))
      BY <2>1, ExpandedSound
    <2>3. pane' = Expanded(expansion.base, expansion.rows) /\ outpaced' \subseteq Nat
      BY <1>7, <2>2, ReplaceTypes DEF ExpansionAnswered, PaneInv
    <2>4. expansion' \in [base : History, rows : Seq(Nat)] /\ ExpansionFits'
      BY <1>7, Limits
      DEF ExpansionAnswered, NoExpansion, NoPane, History, ExpansionFits, Sound, Rising
    <2>5. QED
      BY <1>7, <2>2, <2>3, <2>4 DEF ExpansionAnswered, PaneInv, PaneTypeOK, QueriesRise
  <1>8. CASE ExpansionFails
    <2>1. expansion' \in [base : History, rows : Seq(Nat)] /\ ExpansionFits'
      BY <1>8, Limits
      DEF ExpansionFails, NoExpansion, NoPane, History, ExpansionFits, Sound, Rising
    <2>2. QED
      BY <1>8, <2>1 DEF ExpansionFails, PaneInv, PaneTypeOK, QueriesRise
  <1>9. ASSUME NEW c \in Query, LoadSession(c) PROVE PaneInv'
    <2>1. queries' \in [Query -> QueryState] /\ QueriesRise'
      BY <1>9, AskKeeps DEF LoadSession
    <2>2. moves' \in 0 .. MaxMoves
      BY <1>0, <1>9 DEF LoadSession
    <2>3. QED
      BY <1>9, <2>1, <2>2 DEF LoadSession, PaneInv, PaneTypeOK, ExpansionFits
  <1>10. ASSUME NEW c \in Query, Refresh(c) PROVE PaneInv'
    <2>1. queries' \in [Query -> QueryState] /\ QueriesRise'
      BY <1>10, AskKeeps DEF Refresh
    <2>2. attached' \in BOOLEAN
      BY <1>10 DEF Refresh, PaneInv, PaneTypeOK
    <2>3. QED
      BY <1>10, <2>1, <2>2 DEF Refresh, PaneInv, PaneTypeOK, ExpansionFits
  <1>11. ASSUME NEW c \in Query, LoadAnswered(c) PROVE PaneInv'
    <2>1. /\ queries[c].rows \in Seq(Nat) /\ Rising(queries[c].rows)
          /\ queries[c].limit \in Nat \ {0}
      BY <1>0, <1>11 DEF LoadAnswered, PaneInv, QueriesRise, QueryState
    <2>2. /\ Loaded(queries[c].rows, queries[c].limit) \in History
          /\ Sound(Loaded(queries[c].rows, queries[c].limit))
      BY <2>1, LoadedSound
    <2>3. pane' = Loaded(queries[c].rows, queries[c].limit) /\ outpaced' \subseteq Nat
      BY <1>11, <2>2, ReplaceTypes DEF LoadAnswered, PaneInv
    <2>4. /\ Asked("sync", pane') \in QueryState /\ Rising(Asked("sync", pane').rows)
          /\ Asked("sync", pane').limit # 0
      BY <1>0, <2>2, <2>3, RowsAsked
    <2>5. queries' \in [Query -> QueryState] /\ QueriesRise'
      BY <1>0, <1>11, <2>4 DEF LoadAnswered, PaneInv, QueriesRise
    <2>6. QED
      BY <1>11, <2>2, <2>3, <2>5 DEF LoadAnswered, PaneInv, PaneTypeOK, ExpansionFits
  <1>12. ASSUME NEW c \in Query, SyncAnswered(c) PROVE PaneInv'
    <2>1. queries' \in [Query -> QueryState] /\ QueriesRise'
      BY <1>12, FreeKeeps DEF SyncAnswered
    <2>2. queries[c].rows \in Seq(Nat) /\ Rising(queries[c].rows)
      BY <1>0 DEF PaneInv, QueriesRise, QueryState
    <2>3. pane' \in History /\ Sound(pane)'
      BY <1>0, <1>12, <2>2, MergedSound DEF SyncAnswered
    <2>4. QED
      BY <1>12, <2>1, <2>3 DEF SyncAnswered, PaneInv, PaneTypeOK, ExpansionFits
  <1>13. ASSUME NEW c \in Query, LoadFails(c) PROVE PaneInv'
    <2>1. queries' \in [Query -> QueryState] /\ QueriesRise'
      BY <1>13, FreeKeeps DEF LoadFails
    <2>2. attached' \in BOOLEAN /\ moves' \in 0 .. MaxMoves
      BY <1>0, <1>13 DEF LoadFails
    <2>3. QED
      BY <1>13, <2>1, <2>2 DEF LoadFails, PaneInv, PaneTypeOK, ExpansionFits
  <1>14. CASE UNCHANGED paneVars
    BY <1>14 DEF paneVars, PaneInv, PaneTypeOK, QueriesRise, ExpansionFits
  <1>15. QED
    BY <1>1, <1>2, <1>3, <1>4, <1>5, <1>6, <1>7, <1>8, <1>9, <1>10, <1>11, <1>12, <1>13, <1>14
    DEF PaneNext

----------------------------------------------------------------------------
(* However loads, expansions, queries and the subscription cross, the pane *)
(* shows its events in order and each once, and lastSeq names the last.    *)
THEOREM PaneSound == PaneSpec => []ShownOnceInOrder
  <1>1. PaneInv => ShownOnceInOrder
    BY DEF PaneInv, ShownOnceInOrder
  <1>2. QED
    BY InitEstablishes, NextPreserves, <1>1, PTL DEF PaneSpec

(* Every variable of the pane keeps its type.                              *)
THEOREM PaneTypes == PaneSpec => []PaneTypeOK
  <1>1. PaneInv => PaneTypeOK
    BY DEF PaneInv
  <1>2. QED
    BY InitEstablishes, NextPreserves, <1>1, PTL DEF PaneSpec

----------------------------------------------------------------------------
(* What may be missing from the pane.                                      *)

(* Between two neighbours of a sequence only allowed events are missing.   *)
Gapless(seq, allowed) ==
    \A i \in DOMAIN seq \ {1} : \A e \in seq[i - 1] + 1 .. seq[i] - 1 : e \in allowed

(* A larger set of allowed events allows the same gaps.                    *)
LEMMA MoreAllowed ==
    ASSUME NEW s, NEW A, NEW B, A \subseteq B, Gapless(s, A)
    PROVE  Gapless(s, B)
  BY DEF Gapless

LEMMA IntervalGapless ==
    ASSUME NEW first \in Nat, NEW last \in Nat
    PROVE  Gapless(Interval(first, last), {})
  <1>1. ASSUME NEW i \in DOMAIN Interval(first, last) \ {1}
        PROVE  Interval(first, last)[i - 1] + 1 .. Interval(first, last)[i] - 1 = {}
    <2>1. i \in 1 .. (last + 1 - first) /\ i - 1 \in 1 .. (last + 1 - first)
      BY DEF Interval
    <2>2. /\ Interval(first, last)[i] = first + i - 1
          /\ Interval(first, last)[i - 1] = first + (i - 1) - 1
      BY <2>1 DEF Interval
    <2>3. QED
      BY <2>1, <2>2
  <1>2. QED
    BY <1>1 DEF Gapless

(* clampHistoryItems cuts at the front.                                    *)
LEMMA ClampGapless ==
    ASSUME NEW s \in Seq(Nat), NEW n \in Nat \ {0}, NEW A, Gapless(s, A)
    PROVE  Gapless(Clamp(s, n), A)
  <1>1. CASE Len(s) <= n
    BY <1>1 DEF Clamp
  <1>2. CASE ~(Len(s) <= n)
    <2> DEFINE cut == Len(s) - n
    <2> HIDE DEF cut
    <2>1. /\ Len(s) \in Nat /\ DOMAIN s = 1 .. Len(s) /\ n \in Nat /\ n >= 1
          /\ cut \in Nat /\ cut >= 1 /\ Len(s) = cut + n
          /\ Clamp(s, n) = SubSeq(s, cut + 1, Len(s))
      BY <1>2, Elements DEF Clamp, cut
    <2>2. /\ Len(Clamp(s, n)) = n /\ Clamp(s, n) \in Seq(Nat)
          /\ \A i \in 1 .. n : Clamp(s, n)[i] = s[cut + i]
      <3>1. /\ cut + 1 \in Int /\ Len(s) \in Int /\ cut + 1 <= Len(s) /\ Len(s) - (cut + 1) + 1 = n
            /\ \A i \in cut + 1 .. Len(s) : s[i] \in Nat
        <4>1. \A i \in cut + 1 .. Len(s) : i \in DOMAIN s
          BY <2>1
        <4>2. QED
          BY <2>1, <4>1, Elements
      <3>2. /\ SubSeq(s, cut + 1, Len(s)) \in Seq(Nat) /\ Len(SubSeq(s, cut + 1, Len(s))) = n
            /\ \A i \in 1 .. n : SubSeq(s, cut + 1, Len(s))[i] = s[cut + 1 + i - 1]
        BY <3>1, SubSeqProperties
      <3>3. \A i \in 1 .. n : cut + 1 + i - 1 = cut + i
        BY <2>1
      <3>4. QED
        BY <2>1, <3>2, <3>3
    <2>3. ASSUME NEW i \in DOMAIN Clamp(s, n) \ {1},
                 NEW e \in Clamp(s, n)[i - 1] + 1 .. Clamp(s, n)[i] - 1
          PROVE  e \in A
      <3>1. i \in 1 .. n /\ i - 1 \in 1 .. n
        BY <2>1, <2>2, Elements
      <3>2. /\ Clamp(s, n)[i] = s[cut + i] /\ Clamp(s, n)[i - 1] = s[(cut + i) - 1]
            /\ cut + i \in DOMAIN s \ {1}
        BY <2>1, <2>2, <3>1
      <3>3. e \in s[(cut + i) - 1] + 1 .. s[cut + i] - 1
        BY <2>3, <3>2, Zenon
      <3>4. QED
        BY <3>2, <3>3 DEF Gapless
    <2>4. QED
      BY <2>3 DEF Gapless
  <1>3. QED
    BY <1>1, <1>2

(* Where two sequences join, what is missing between them is allowed too.  *)
LEMMA ConcatGapless ==
    ASSUME NEW s \in Seq(Nat), NEW t \in Seq(Nat), NEW A, Gapless(s, A), Gapless(t, A),
           s # <<>> /\ t # <<>> => \A e \in s[Len(s)] + 1 .. t[1] - 1 : e \in A
    PROVE  Gapless(s \o t, A)
  <1>1. /\ s \o t \in Seq(Nat) /\ Len(s \o t) = Len(s) + Len(t)
        /\ \A i \in 1 .. Len(s) + Len(t) :
             (s \o t)[i] = IF i <= Len(s) THEN s[i] ELSE t[i - Len(s)]
    BY ConcatProperties
  <1>2. /\ Len(s) \in Nat /\ Len(t) \in Nat /\ DOMAIN (s \o t) = 1 .. Len(s) + Len(t)
        /\ DOMAIN s = 1 .. Len(s) /\ DOMAIN t = 1 .. Len(t)
    BY <1>1, Elements
  <1>3. ASSUME NEW i \in DOMAIN (s \o t) \ {1},
               NEW e \in (s \o t)[i - 1] + 1 .. (s \o t)[i] - 1
        PROVE  e \in A
    <2>1. i \in 2 .. Len(s) + Len(t) /\ i - 1 \in 1 .. Len(s) + Len(t)
      BY <1>2
    <2>2. CASE i <= Len(s)
      <3>1. (s \o t)[i] = s[i] /\ (s \o t)[i - 1] = s[i - 1] /\ i \in DOMAIN s \ {1}
        BY <1>1, <1>2, <2>1, <2>2
      <3>2. QED
        BY <1>3, <3>1 DEF Gapless
    <2>3. CASE i = Len(s) + 1
      <3>1. (s \o t)[i] = t[1] /\ (s \o t)[i - 1] = s[Len(s)]
        BY <1>1, <1>2, <2>1, <2>3
      <3>2. s # <<>> /\ t # <<>>
        BY <1>2, <2>1, <2>3
      <3>3. QED
        BY <1>3, <3>1, <3>2
    <2>4. CASE i > Len(s) + 1
      <3>1. /\ (s \o t)[i] = t[i - Len(s)] /\ (s \o t)[i - 1] = t[(i - 1) - Len(s)]
            /\ (i - 1) - Len(s) = (i - Len(s)) - 1 /\ i - Len(s) \in DOMAIN t \ {1}
        BY <1>1, <1>2, <2>1, <2>4, SMTT(30)
      <3>2. e \in t[(i - Len(s)) - 1] + 1 .. t[i - Len(s)] - 1
        BY <1>3, <3>1
      <3>3. QED
        BY <3>1, <3>2 DEF Gapless
    <2>5. QED
      BY <1>2, <2>1, <2>2, <2>3, <2>4
  <1>4. QED
    BY <1>3 DEF Gapless
(* A history and its lastSeq: both say whether there is an event.          *)
Numbered(history) == history.events = <<>> <=> history.lastSeq = 0

(* What the history lacks up to event n is allowed to be missing.          *)
MayLack(history, n, allowed) == \A e \in history.lastSeq + 1 .. n : e \in allowed

(* Merging rows brings the gaps of the history and the one before the      *)
(* first row that is beyond it.                                            *)
LEMMA MergedGapless ==
    ASSUME NEW h \in History, Sound(h), Numbered(h), NEW rows \in Seq(Nat), Rising(rows),
           NEW A, Gapless(h.events, A),
           rows # <<>> => rows[1] # 0 /\ MayLack(h, rows[1] - 1, A)
    PROVE  /\ Gapless(Merged(h, rows).events, A) /\ Numbered(Merged(h, rows))
           /\ h.lastSeq <= Merged(h, rows).lastSeq
           /\ rows # <<>> => rows[Len(rows)] <= Merged(h, rows).lastSeq
  <1> DEFINE last == rows[Len(rows)]
             first == Larger(rows[1], h.lastSeq + 1)
             fresh == Interval(first, last)
             joined == h.events \o fresh
  <1>0. /\ h.events \in Seq(Nat) /\ h.lastSeq \in Nat /\ h.loadedEventLimit \in Nat \ {0}
        /\ Rising(h.events)
    BY DEF History, Sound
  <1>1. CASE rows = <<>> \/ last <= h.lastSeq
    BY <1>0, <1>1 DEF Merged
  <1>2. CASE ~(rows = <<>> \/ last <= h.lastSeq)
    <2>1. /\ last \in Nat /\ rows[1] \in Nat /\ rows[1] <= last /\ h.lastSeq < last
          /\ rows[1] # 0 /\ MayLack(h, rows[1] - 1, A)
      <3>1. 1 \in DOMAIN rows /\ Len(rows) \in DOMAIN rows
        BY <1>2, Elements
      <3>2. last \in Nat /\ rows[1] \in Nat /\ rows[1] <= last
        BY <3>1, Elements, Extremes
      <3>3. QED
        BY <1>0, <1>2, <3>2
    <2>2. /\ first \in Nat /\ first <= last /\ h.lastSeq < first
          /\ first = rows[1] \/ first = h.lastSeq + 1
      BY <1>0, <2>1 DEF Larger
    <2>3. \A e \in h.lastSeq + 1 .. first - 1 : e \in A
      BY <1>0, <2>1, <2>2 DEF MayLack
    <2> HIDE DEF first, last
    <2>4. /\ fresh \in Seq(Nat) /\ Rising(fresh) /\ fresh # <<>>
          /\ fresh[1] = first /\ fresh[Len(fresh)] = last
      BY <2>1, <2>2, IntervalRises
    <2>5. Gapless(fresh, A)
      <3>1. Gapless(fresh, {}) /\ {} \subseteq A
        BY <2>1, <2>2, IntervalGapless
      <3>2. QED
        BY <3>1, MoreAllowed
    <2> HIDE DEF fresh
    <2>6. Gapless(joined, A)
      <3>1. h.events # <<>> => \A e \in h.events[Len(h.events)] + 1 .. fresh[1] - 1 : e \in A
        BY <2>3, <2>4 DEF Sound
      <3>2. QED
        BY <1>0, <2>4, <2>5, <3>1, ConcatGapless
    <2>7. joined \in Seq(Nat) /\ joined # <<>>
      BY <1>0, <2>4, ConcatProperties, EmptySeq
    <2> HIDE DEF joined
    <2>8. Gapless(Clamp(joined, h.loadedEventLimit), A)
      BY <1>0, <2>6, <2>7, ClampGapless
    <2>9. Clamp(joined, h.loadedEventLimit) # <<>>
      <3>1. CASE Len(joined) <= h.loadedEventLimit
        BY <2>7, <3>1 DEF Clamp
      <3>2. CASE ~(Len(joined) <= h.loadedEventLimit)
        <4>1. Rising(joined)
          <5>1. Below(h.events, fresh[1])
            <6>1. ASSUME NEW i \in DOMAIN h.events PROVE h.events[i] < fresh[1]
              <7>1. h.events # <<>>
                BY <1>0, Elements, EmptySeq
              <7>2. h.events[i] <= h.lastSeq /\ h.events[i] \in Nat
                BY <1>0, <7>1, Extremes, Elements DEF Sound
              <7>3. QED
                BY <1>0, <2>2, <2>4, <7>2
            <6>2. QED
              BY <6>1 DEF Below
          <5>2. QED
            BY <1>0, <2>4, <5>1, ConcatRises DEF joined
        <4>2. QED
          BY <1>0, <2>7, <4>1, ClampKeeps
      <3>3. QED
        BY <3>1, <3>2
    <2>10. Merged(h, rows) =
            [h EXCEPT !.events = Clamp(joined, h.loadedEventLimit), !.lastSeq = last]
      BY <1>2 DEF Merged, joined, fresh, first, last
    <2>11. Merged(h, rows).events = Clamp(joined, h.loadedEventLimit) /\ Merged(h, rows).lastSeq = last
      BY <2>10 DEF History
    <2>12. Numbered(Merged(h, rows))
      BY <1>0, <2>1, <2>2, <2>9, <2>11 DEF Numbered
    <2>13. h.lastSeq <= last
      BY <1>0, <2>1, <2>2
    <2>14. QED
      BY <1>0, <2>1, <2>8, <2>11, <2>12, <2>13 DEF last
  <1>3. QED
    BY <1>1, <1>2

(* An answer of the catalog holds every event of its range; the latest     *)
(* events of a session that has one are not empty, and what a query asks   *)
(* for beyond the last event shown begins with the next one.               *)
LEMMA AskedGapless ==
    ASSUME recorded \in Nat \ {0}, NEW h \in History,
           NEW kind \in {"loadSession", "refreshLoad", "sync"},
           kind = "sync" => h.lastSeq # 0
    PROVE  /\ Asked(kind, h).kind = kind
           /\ Gapless(Asked(kind, h).rows, {})
           /\ Asked(kind, h).rows # <<>> => Asked(kind, h).rows[1] # 0
           /\ kind # "sync" => Asked(kind, h).rows # <<>>
           /\ kind = "sync" /\ Asked(kind, h).rows # <<>> =>
                \A A : MayLack(h, Asked(kind, h).rows[1] - 1, A)
  <1> DEFINE limit == IF kind = "sync" THEN SyncPage ELSE h.loadedEventLimit
             rows == RowsFor(kind, h, limit)
  <1>1. limit \in Nat \ {0} /\ h.lastSeq \in Nat
    BY Limits DEF History
  <1> HIDE DEF limit
  <1>2. Asked(kind, h) = [kind |-> kind, limit |-> limit, rows |-> rows]
    BY DEF Asked, limit
  <1>3. CASE kind = "sync"
    <2> DEFINE first == h.lastSeq + 1
               last == Smaller(recorded, h.lastSeq + limit)
    <2>1. first \in Nat /\ first # 0 /\ last \in Nat
      BY <1>1 DEF Smaller
    <2>2. rows = Interval(first, last)
      BY <1>1, <1>3 DEF RowsFor
    <2>3. first - 1 = h.lastSeq
      BY <1>1
    <2> HIDE DEF first, last
    <2>4. Gapless(rows, {})
      BY <2>1, <2>2, IntervalGapless
    <2>5. rows # <<>> => rows[1] = first
      <3>1. ~(first <= last) => rows = <<>>
        <4>1. ASSUME ~(first <= last) PROVE rows = <<>>
          <5>1. rows \in Seq(Nat) /\ \A i \in DOMAIN rows : first <= rows[i] /\ rows[i] <= last
            BY <2>1, <2>2, IntervalRises
          <5>2. DOMAIN rows = {}
            BY <2>1, <4>1, <5>1, Elements
          <5>3. QED
            BY <5>1, <5>2, Elements
        <4>2. QED
          BY <4>1
      <3>2. QED
        BY <2>1, <2>2, <3>1, IntervalRises
    <2>6. rows # <<>> => \A A : MayLack(h, rows[1] - 1, A)
      BY <1>1, <2>3, <2>5 DEF MayLack
    <2>7. QED
      BY <1>2, <1>3, <2>1, <2>4, <2>5, <2>6
  <1>4. CASE kind # "sync"
    <2> DEFINE first == Larger(recorded, limit) + 1 - limit
    <2>1. first \in Nat /\ first # 0 /\ first <= recorded
      BY <1>1 DEF Larger
    <2>2. rows = Interval(first, recorded)
      BY <1>4 DEF RowsFor, Latest
    <2> HIDE DEF first
    <2>3. Gapless(rows, {})
      BY <2>1, <2>2, IntervalGapless
    <2>4. rows # <<>> /\ rows[1] = first
      BY <2>1, <2>2, IntervalRises
    <2>5. QED
      BY <1>2, <1>4, <2>1, <2>3, <2>4
  <1>5. QED
    BY <1>3, <1>4

(* getSessionEventsBefore returns the events right before the one named.   *)
LEMMA OlderAdjoins ==
    ASSUME NEW seq \in Nat, seq > 1
    PROVE  /\ Gapless(OlderThan(seq), {}) /\ OlderThan(seq) # <<>>
           /\ OlderThan(seq)[1] # 0
           /\ OlderThan(seq)[Len(OlderThan(seq))] = seq - 1
  <1>1. /\ Interval(1, seq - 1) \in Seq(Nat) /\ Rising(Interval(1, seq - 1))
        /\ Gapless(Interval(1, seq - 1), {}) /\ Interval(1, seq - 1) # <<>>
        /\ Interval(1, seq - 1)[Len(Interval(1, seq - 1))] = seq - 1
        /\ \A i \in DOMAIN Interval(1, seq - 1) : 1 <= Interval(1, seq - 1)[i]
    <2>1. seq - 1 \in Nat /\ 1 <= seq - 1
      OBVIOUS
    <2>2. QED
      BY <2>1, IntervalRises, IntervalGapless
  <1>2. /\ OlderThan(seq) # <<>> /\ OlderThan(seq) \in Seq(Nat)
        /\ OlderThan(seq)[Len(OlderThan(seq))] = seq - 1
    BY <1>1, ClampKeeps, Limits DEF OlderThan
  <1>3. Gapless(OlderThan(seq), {})
    BY <1>1, ClampGapless, Limits DEF OlderThan
  <1>4. OlderThan(seq)[1] # 0
    <2> DEFINE all == Interval(1, seq - 1)
    <2>1. \A i \in DOMAIN all : all[i] # 0
      BY <1>1
    <2> HIDE DEF all
    <2>2. CASE Len(all) <= Window
      <3>1. OlderThan(seq) = all
        BY <2>2 DEF OlderThan, Clamp, all
      <3>2. QED
        BY <1>2, <2>1, <3>1, Elements
    <2>3. CASE ~(Len(all) <= Window)
      <3> DEFINE first == Len(all) + 1 - Window
      <3>1. /\ Len(all) \in Nat /\ Window \in Nat \ {0} /\ DOMAIN all = 1 .. Len(all)
        BY <1>1, Limits, Elements DEF all
      <3>2. first \in Nat /\ first >= 1 /\ first <= Len(all)
        BY <2>3, <3>1
      <3>3. OlderThan(seq) = SubSeq(all, first, Len(all))
        BY <2>3 DEF OlderThan, Clamp, all
      <3> HIDE DEF first
      <3>4. first \in DOMAIN all
        BY <3>1, <3>2
      <3>5. SubSeq(all, first, Len(all))[1] = all[first + 1 - 1]
        <4>1. \A i \in first .. Len(all) : all[i] \in Nat
          <5>1. \A i \in first .. Len(all) : i \in DOMAIN all
            BY <3>1, <3>2
          <5>2. QED
            BY <1>1, <5>1, Elements DEF all
        <4>2. first \in Int /\ Len(all) \in Int /\ first <= Len(all) /\ 1 \in 1 .. Len(all) - first + 1
          BY <3>1, <3>2
        <4>3. QED
          BY <4>1, <4>2, SubSeqProperties
      <3>6. QED
        BY <2>1, <3>2, <3>3, <3>4, <3>5
    <2>4. QED
      BY <2>2, <2>3
  <1>5. QED
    BY <1>2, <1>3, <1>4
(* An expansion adjoins the history it started from.                       *)
LEMMA ExpandedGapless ==
    ASSUME NEW base \in History, Sound(base), base.events # <<>>,
           NEW older \in Seq(Nat), NEW A, Gapless(base.events, A), Gapless(older, A),
           older # <<>>, older[Len(older)] + 1 = base.events[1]
    PROVE  /\ Gapless(Expanded(base, older).events, A) /\ Numbered(Expanded(base, older))
           /\ Expanded(base, older).lastSeq = base.lastSeq
  <1> DEFINE combined == older \o base.events
  <1>1. /\ base.events \in Seq(Nat) /\ Rising(base.events) /\ base.lastSeq \in Nat
        /\ base.events[Len(base.events)] = base.lastSeq
    BY DEF History, Sound
  <1>2. /\ older[Len(older)] \in Nat /\ base.events[1] \in Nat
        /\ base.events[1] <= base.lastSeq
    BY <1>1, Elements, Extremes
  <1>3. Gapless(combined, A)
    <2>1. older[Len(older)] + 1 .. base.events[1] - 1 = {}
      BY <1>2
    <2>2. QED
      BY <1>1, <2>1, ConcatGapless
  <1>4. combined # <<>>
    BY <1>1, ConcatProperties, EmptySeq
  <1> HIDE DEF combined
  <1>5. Expanded(base, older) =
          [base EXCEPT !.events = combined, !.loadedEventLimit = Larger(Window, Len(combined)),
                       !.hasOlderEvents = Len(older) >= Window /\ older[1] > 1]
    BY DEF Expanded, combined
  <1>6. Expanded(base, older).events = combined /\ Expanded(base, older).lastSeq = base.lastSeq
    BY <1>5 DEF History
  <1>7. base.lastSeq # 0
    BY <1>1, <1>2
  <1>8. QED
    BY <1>3, <1>4, <1>6, <1>7 DEF Numbered

----------------------------------------------------------------------------
(* The inductive invariant of the gaps.                                    *)

(* Rows under way have no gaps, and those that will be merged continue the *)
(* pane, whatever replaced it since they were asked for.                   *)
RowsGapless ==
    \A c \in Query :
        /\ Gapless(queries[c].rows, {})
        /\ queries[c].rows # <<>> => queries[c].rows[1] # 0
        /\ queries[c].kind \in {"loadSession", "refreshLoad"} => queries[c].rows # <<>>
        /\ queries[c].kind = "sync" /\ queries[c].rows # <<>> =>
             MayLack(pane, queries[c].rows[1] - 1, outpaced)

(* What the feed has passed on is in the pane, or was.                     *)
FeedCovered == seen # 0 => MayLack(pane, seen, outpaced)

ExpansionGapless ==
    expansion # NoExpansion =>
        /\ Gapless(expansion.base.events, outpaced) /\ Gapless(expansion.rows, {})
        /\ expansion.rows # <<>>
        /\ expansion.rows[Len(expansion.rows)] + 1 = expansion.base.events[1]

GapInv ==
    /\ PaneInv /\ recorded # 0
    /\ Numbered(pane) /\ Gapless(pane.events, outpaced)
    /\ RowsGapless /\ FeedCovered /\ ExpansionGapless

LEMMA InitHasNoGaps == PaneInit => GapInv
  <1> SUFFICES ASSUME PaneInit PROVE GapInv
    OBVIOUS
  <1>1. PaneInv /\ recorded # 0
    BY InitEstablishes, Limits DEF PaneInit
  <1>2. Gapless(<<>>, {})
    BY DEF Gapless
  <1>3. Numbered(pane) /\ Gapless(pane.events, outpaced)
    BY <1>2 DEF PaneInit, NoPane, Numbered
  <1>4. RowsGapless
    BY <1>2 DEF PaneInit, RowsGapless, NoQuery
  <1>5. FeedCovered /\ ExpansionGapless
    BY DEF PaneInit, FeedCovered, ExpansionGapless
  <1>6. QED
    BY <1>1, <1>3, <1>4, <1>5 DEF GapInv

(* A later history, with more that may be missing.                         *)
LEMMA LaterLacks ==
    ASSUME NEW h \in History, NEW k \in History, h.lastSeq <= k.lastSeq,
           NEW n \in Int, NEW A, NEW B, A \subseteq B, MayLack(h, n, A)
    PROVE  MayLack(k, n, B)
  <1>1. h.lastSeq \in Nat /\ k.lastSeq \in Nat
    BY DEF History
  <1>2. \A e \in k.lastSeq + 1 .. n : e \in h.lastSeq + 1 .. n
    BY <1>1
  <1>3. QED
    BY <1>2 DEF MayLack

(* What replaces the pane may lack whatever the pane and its feed had.     *)
LEMMA ReplacedLacks ==
    ASSUME PaneInv, FeedCovered, NEW h \in History, Replace(h)
    PROVE  /\ pane' = h /\ outpaced \subseteq outpaced'
           /\ MayLack(h, seen, outpaced')
           /\ \A n \in Int : MayLack(pane, n, outpaced) => MayLack(h, n, outpaced')
  <1>1. /\ h.lastSeq \in Nat /\ pane.lastSeq \in Nat /\ seen \in Nat
        /\ pane' = h
        /\ outpaced' = outpaced \union (h.lastSeq + 1 .. Larger(seen, pane.lastSeq))
    BY DEF PaneInv, PaneTypeOK, History, Replace
  <1>2. /\ Larger(seen, pane.lastSeq) \in Nat
        /\ seen <= Larger(seen, pane.lastSeq) /\ pane.lastSeq <= Larger(seen, pane.lastSeq)
    BY <1>1 DEF Larger
  <1>3. MayLack(h, seen, outpaced')
    BY <1>1, <1>2 DEF MayLack
  <1>4. ASSUME NEW n \in Int, MayLack(pane, n, outpaced) PROVE MayLack(h, n, outpaced')
    <2>1. ASSUME NEW e \in h.lastSeq + 1 .. n PROVE e \in outpaced'
      <3>1. CASE e <= pane.lastSeq
        BY <1>1, <1>2, <2>1, <3>1
      <3>2. CASE ~(e <= pane.lastSeq)
        <4>1. e \in pane.lastSeq + 1 .. n
          BY <1>1, <2>1, <3>2
        <4>2. QED
          BY <1>1, <1>4, <4>1 DEF MayLack
      <3>3. QED
        BY <3>1, <3>2
    <2>2. QED
      BY <2>1 DEF MayLack
  <1>5. QED
    BY <1>1, <1>3, <1>4

LEMMA FirstRow ==
    ASSUME PaneInv, NEW c \in Query, queries[c].rows # <<>>
    PROVE  queries[c].rows[1] - 1 \in Int
  <1>1. queries[c].rows \in Seq(Nat)
    BY DEF PaneInv, PaneTypeOK, QueryState
  <1>2. QED
    BY <1>1, Elements

(* Every query goes on to continue a pane that replaced the one it knew.   *)
LEMMA ReplaceKeepsCover ==
    ASSUME GapInv, NEW h \in History, Replace(h)
    PROVE  /\ \A c \in Query :
                queries[c].kind = "sync" /\ queries[c].rows # <<>> =>
                   MayLack(h, queries[c].rows[1] - 1, outpaced')
           /\ MayLack(h, seen, outpaced')
           /\ \A s : Gapless(s, outpaced) => Gapless(s, outpaced')
           /\ pane' = h
  <1>1. /\ pane' = h /\ outpaced \subseteq outpaced' /\ MayLack(h, seen, outpaced')
        /\ \A n \in Int : MayLack(pane, n, outpaced) => MayLack(h, n, outpaced')
    BY ReplacedLacks DEF GapInv
  <1>2. \A c \in Query :
           queries[c].kind = "sync" /\ queries[c].rows # <<>> =>
             MayLack(h, queries[c].rows[1] - 1, outpaced')
    BY <1>1, FirstRow DEF GapInv, RowsGapless
  <1>3. \A s : Gapless(s, outpaced) => Gapless(s, outpaced')
    BY <1>1, MoreAllowed
  <1>4. QED
    BY <1>1, <1>2, <1>3
(* A query that is asked while the pane stays brings rows that continue it. *)
LEMMA AskKeepsGapless ==
    ASSUME GapInv, NEW c \in Query, NEW kind \in {"loadSession", "refreshLoad", "sync"},
           AskFor(c, kind), kind = "sync" => pane.events # <<>>,
           UNCHANGED <<pane, outpaced>>
    PROVE  RowsGapless'
  <1>1. /\ pane \in History /\ recorded \in Nat \ {0} /\ queries \in [Query -> QueryState]
        /\ kind = "sync" => pane.lastSeq # 0
    BY DEF GapInv, PaneInv, PaneTypeOK, Numbered
  <1> DEFINE asked == Asked(kind, pane)
  <1>2. /\ asked.kind = kind /\ Gapless(asked.rows, {})
        /\ asked.rows # <<>> => asked.rows[1] # 0
        /\ kind # "sync" => asked.rows # <<>>
        /\ kind = "sync" /\ asked.rows # <<>> => MayLack(pane, asked.rows[1] - 1, outpaced)
    BY <1>1, AskedGapless
  <1>3. queries' = [queries EXCEPT ![c] = asked]
    BY DEF AskFor
  <1> HIDE DEF asked
  <1>4. ASSUME NEW d \in Query
        PROVE  /\ Gapless(queries'[d].rows, {})
               /\ queries'[d].rows # <<>> => queries'[d].rows[1] # 0
               /\ queries'[d].kind \in {"loadSession", "refreshLoad"} => queries'[d].rows # <<>>
               /\ queries'[d].kind = "sync" /\ queries'[d].rows # <<>> =>
                    MayLack(pane, queries'[d].rows[1] - 1, outpaced)
    <2>1. CASE d = c
      <3>1. queries'[d] = asked
        BY <1>1, <1>3, <2>1
      <3>2. QED
        BY <1>2, <3>1
    <2>2. CASE d # c
      <3>1. queries'[d] = queries[d]
        BY <1>1, <1>3, <2>2
      <3>2. QED
        BY <3>1 DEF GapInv, RowsGapless
    <2>3. QED
      BY <2>1, <2>2
  <1>5. QED
    BY <1>4 DEF RowsGapless, MayLack

(* A query that ended brings nothing.                                      *)
LEMMA NothingFromUnused ==
    /\ Gapless(NoQuery.rows, {}) /\ NoQuery.rows = <<>> /\ NoQuery.kind = "none"
  BY DEF NoQuery, Gapless

LEMMA StepKeepsGaps ==
    ASSUME GapInv, PaneInv', [PaneNext]_paneVars
    PROVE  GapInv'
  <1> USE DEF Move
  <1>0. /\ recorded \in Nat \ {0} /\ seen \in Nat /\ seen <= recorded
        /\ pane \in History /\ Sound(pane) /\ Numbered(pane) /\ Gapless(pane.events, outpaced)
        /\ queries \in [Query -> QueryState] /\ RowsGapless /\ FeedCovered /\ ExpansionGapless
    BY DEF GapInv, PaneInv, PaneTypeOK
  <1>1. CASE RecordEvent
    <2>1. recorded' # 0
      BY <1>0, <1>1 DEF RecordEvent
    <2>2. UNCHANGED <<seen, pane, queries, expansion, outpaced>>
      BY <1>1 DEF RecordEvent
    <2>3. QED
      BY <1>0, <2>1, <2>2
      DEF GapInv, RowsGapless, FeedCovered, ExpansionGapless, Numbered, Gapless, MayLack
  <1>2. CASE SelectOther \/ AttachOther \/ UNCHANGED paneVars
    <2>1. UNCHANGED <<recorded, seen, pane, queries, expansion, outpaced>>
      BY <1>2 DEF SelectOther, AttachOther, paneVars
    <2>2. QED
      BY <1>0, <2>1
      DEF GapInv, RowsGapless, FeedCovered, ExpansionGapless, Numbered, Gapless, MayLack
  <1>3. CASE EvictStale
    <2>1. NoPane \in History /\ Replace(NoPane) /\ UNCHANGED <<recorded, seen, queries, expansion>>
      BY <1>3, Limits DEF EvictStale, NoPane, History
    <2>2. /\ \A c \in Query :
                queries[c].kind = "sync" /\ queries[c].rows # <<>> =>
                   MayLack(NoPane, queries[c].rows[1] - 1, outpaced')
          /\ MayLack(NoPane, seen, outpaced')
          /\ \A s : Gapless(s, outpaced) => Gapless(s, outpaced')
          /\ pane' = NoPane
      BY <2>1, ReplaceKeepsCover
    <2>3. RowsGapless' /\ FeedCovered'
      BY <1>0, <2>1, <2>2 DEF RowsGapless, FeedCovered, Gapless, MayLack
    <2>4. ExpansionGapless'
      BY <1>0, <2>1, <2>2 DEF ExpansionGapless, Gapless
    <2>5. Numbered(pane)' /\ Gapless(pane.events, outpaced)'
      BY <2>2 DEF NoPane, Numbered, Gapless
    <2>6. recorded' # 0
      BY <1>0, <2>1
    <2>7. QED
      BY <2>3, <2>4, <2>5, <2>6 DEF GapInv
  <1>4. CASE EventArrives
    <2>1. /\ NextOfFeed \in Nat \ {0} /\ pane' = Merged(pane, <<NextOfFeed>>)
          /\ seen' = NextOfFeed /\ outpaced' = outpaced \union Jumped
          /\ UNCHANGED <<recorded, queries, expansion>>
      BY <1>0, <1>4, Limits DEF EventArrives, NextOfFeed, Larger
    <2>2. MayLack(pane, NextOfFeed - 1, outpaced')
      <3>1. CASE seen = 0
        BY <2>1, <3>1 DEF MayLack, Jumped
      <3>2. CASE seen # 0
        <4>1. NextOfFeed - 1 = seen
          BY <1>0, <3>2 DEF NextOfFeed
        <4>2. QED
          BY <1>0, <2>1, <3>2, <4>1 DEF MayLack, FeedCovered
      <3>3. QED
        BY <3>1, <3>2
    <2>3. outpaced \subseteq outpaced'
      BY <2>1
    <2>4. Gapless(pane.events, outpaced')
      BY <1>0, <2>3, MoreAllowed
    <2>5. PICK next \in Nat : next = NextOfFeed
      BY <2>1
    <2>6. /\ <<next>> \in Seq(Nat) /\ Rising(<<next>>) /\ <<next>>[1] = next
          /\ Len(<<next>>) = 1 /\ next # 0 /\ <<next>> # <<>>
      BY <2>1, <2>5 DEF Rising
    <2>7. pane' = Merged(pane, <<next>>) /\ MayLack(pane, next - 1, outpaced') /\ seen' = next
      BY <2>1, <2>2, <2>5
    <2>8. /\ Gapless(Merged(pane, <<next>>).events, outpaced') /\ Numbered(Merged(pane, <<next>>))
          /\ pane.lastSeq <= Merged(pane, <<next>>).lastSeq
          /\ next <= Merged(pane, <<next>>).lastSeq
      BY <1>0, <2>4, <2>6, <2>7, MergedGapless
    <2>9. pane' \in History
      BY DEF PaneInv, PaneTypeOK
    <2>10. FeedCovered'
      <3>1. pane'.lastSeq \in Nat /\ next <= pane'.lastSeq
        BY <2>7, <2>8, <2>9 DEF History
      <3>2. pane'.lastSeq + 1 .. next = {}
        BY <3>1
      <3>3. QED
        BY <2>7, <3>2 DEF FeedCovered, MayLack
    <2>11. RowsGapless'
      <3>1. \A n \in Int : MayLack(pane, n, outpaced) => MayLack(pane', n, outpaced')
        BY <1>0, <2>3, <2>7, <2>8, <2>9, LaterLacks
      <3>2. \A c \in Query :
              queries[c].kind = "sync" /\ queries[c].rows # <<>> =>
                MayLack(pane', queries[c].rows[1] - 1, outpaced')
        BY <1>0, <3>1, FirstRow DEF GapInv, RowsGapless
      <3>3. QED
        BY <1>0, <2>1, <3>2 DEF RowsGapless, Gapless, MayLack
    <2>12. ExpansionGapless'
      <3>1. \A s : Gapless(s, outpaced) => Gapless(s, outpaced')
        BY <2>3, MoreAllowed
      <3>2. QED
        BY <1>0, <2>1, <3>1 DEF ExpansionGapless, Gapless
    <2>13. Numbered(pane)' /\ Gapless(pane.events, outpaced)'
      BY <2>7, <2>8 DEF Numbered, Gapless
    <2>14. recorded' # 0
      BY <1>0, <2>1
    <2>15. QED
      BY <2>10, <2>11, <2>12, <2>13, <2>14 DEF GapInv
  <1>5. CASE Expand
    <2>1. /\ pane.events \in Seq(Nat) /\ pane.events # <<>> /\ pane.events[1] > 1
          /\ expansion' = [base |-> pane, rows |-> OlderThan(pane.events[1])]
          /\ UNCHANGED <<recorded, seen, pane, queries, outpaced>>
      BY <1>0, <1>5 DEF Expand, History
    <2>2. PICK seq \in Nat : seq = pane.events[1] /\ seq > 1
      BY <2>1, Elements
    <2>3. /\ Gapless(OlderThan(seq), {}) /\ OlderThan(seq) # <<>>
          /\ OlderThan(seq)[Len(OlderThan(seq))] = seq - 1
      BY <2>2, OlderAdjoins
    <2>4. expansion'.base = pane /\ expansion'.rows = OlderThan(seq)
      BY <2>1, <2>2
    <2>5. ExpansionGapless'
      <3>1. expansion'.rows[Len(expansion'.rows)] + 1 = expansion'.base.events[1]
        BY <2>2, <2>3, <2>4
      <3>2. QED
        BY <1>0, <2>1, <2>3, <2>4, <3>1 DEF ExpansionGapless, Gapless
    <2>6. QED
      BY <1>0, <2>1, <2>5 DEF GapInv, RowsGapless, FeedCovered, Numbered, Gapless, MayLack
  <1>6. CASE ExpansionAnswered
    <2>1. /\ expansion.base \in History /\ Sound(expansion.base) /\ expansion.base.events # <<>>
          /\ expansion.rows \in Seq(Nat)
      BY <1>6 DEF ExpansionAnswered, GapInv, PaneInv, PaneTypeOK, ExpansionFits
    <2>2. /\ Gapless(expansion.base.events, outpaced) /\ Gapless(expansion.rows, {})
          /\ expansion.rows # <<>>
          /\ expansion.rows[Len(expansion.rows)] + 1 = expansion.base.events[1]
      BY <1>0, <1>6 DEF ExpansionAnswered, ExpansionGapless
    <2>3. PICK h : h = Expanded(expansion.base, expansion.rows)
      OBVIOUS
    <2>4. /\ Replace(h) /\ expansion' = NoExpansion
          /\ UNCHANGED <<recorded, seen, queries>>
      BY <1>6, <2>3 DEF ExpansionAnswered
    <2>5. h \in History
      <3>1. pane' = h
        BY <2>4 DEF Replace
      <3>2. QED
        BY <3>1 DEF PaneInv, PaneTypeOK
    <2>6. /\ \A c \in Query :
                queries[c].kind = "sync" /\ queries[c].rows # <<>> =>
                   MayLack(h, queries[c].rows[1] - 1, outpaced')
          /\ MayLack(h, seen, outpaced')
          /\ \A s : Gapless(s, outpaced) => Gapless(s, outpaced')
          /\ pane' = h
      BY <2>4, <2>5, ReplaceKeepsCover
    <2>7. Gapless(h.events, outpaced') /\ Numbered(h)
      <3>1. Gapless(expansion.rows, outpaced')
        BY <2>2, MoreAllowed
      <3>2. Gapless(expansion.base.events, outpaced')
        BY <2>2, <2>6
      <3>3. QED
        BY <2>1, <2>2, <2>3, <3>1, <3>2, ExpandedGapless
    <2>8. RowsGapless' /\ FeedCovered'
      BY <1>0, <2>4, <2>6 DEF RowsGapless, FeedCovered, Gapless, MayLack
    <2>9. ExpansionGapless'
      BY <2>4 DEF ExpansionGapless, NoExpansion
    <2>10. Numbered(pane)' /\ Gapless(pane.events, outpaced)' /\ recorded' # 0
      BY <1>0, <2>4, <2>6, <2>7 DEF Numbered, Gapless
    <2>11. QED
      BY <2>8, <2>9, <2>10 DEF GapInv
  <1>7. CASE ExpansionFails
    <2>1. expansion' = NoExpansion /\ UNCHANGED <<recorded, seen, pane, queries, outpaced>>
      BY <1>7 DEF ExpansionFails
    <2>2. ExpansionGapless'
      BY <2>1 DEF ExpansionGapless, NoExpansion
    <2>3. QED
      BY <1>0, <2>1, <2>2 DEF GapInv, RowsGapless, FeedCovered, Numbered, Gapless, MayLack
  <1>8. ASSUME NEW c \in Query, LoadSession(c) \/ Refresh(c) PROVE GapInv'
    <2>1. UNCHANGED <<recorded, seen, pane, expansion, outpaced>>
      BY <1>8 DEF LoadSession, Refresh
    <2>2. RowsGapless'
      BY <1>8, <2>1, AskKeepsGapless DEF LoadSession, Refresh
    <2>3. QED
      BY <1>0, <2>1, <2>2 DEF GapInv, FeedCovered, ExpansionGapless, Numbered, Gapless, MayLack
  <1>9. ASSUME NEW c \in Query, LoadAnswered(c) PROVE GapInv'
    <2>1. /\ queries[c].rows \in Seq(Nat) /\ queries[c].rows # <<>> /\ queries[c].rows[1] # 0
          /\ Rising(queries[c].rows) /\ Gapless(queries[c].rows, {})
      BY <1>0, <1>9 DEF LoadAnswered, GapInv, PaneInv, QueriesRise, QueryState, RowsGapless
    <2>2. PICK h : h = Loaded(queries[c].rows, queries[c].limit)
      OBVIOUS
    <2>3. /\ Replace(h) /\ UNCHANGED <<recorded, seen, expansion>>
          /\ queries' = [queries EXCEPT ![c] = Asked("sync", pane')]
      BY <1>9, <2>2 DEF LoadAnswered
    <2>4. h \in History
      <3>1. pane' = h
        BY <2>3 DEF Replace
      <3>2. QED
        BY <3>1 DEF PaneInv, PaneTypeOK
    <2>5. /\ \A d \in Query :
                queries[d].kind = "sync" /\ queries[d].rows # <<>> =>
                   MayLack(h, queries[d].rows[1] - 1, outpaced')
          /\ MayLack(h, seen, outpaced')
          /\ \A s : Gapless(s, outpaced) => Gapless(s, outpaced')
          /\ pane' = h
      BY <2>3, <2>4, ReplaceKeepsCover
    <2>6. h.events = queries[c].rows /\ h.lastSeq = queries[c].rows[Len(queries[c].rows)]
      BY <2>1, <2>2 DEF Loaded
    <2>7. h.lastSeq # 0
      <3>1. /\ 1 \in DOMAIN queries[c].rows /\ h.lastSeq \in Nat /\ queries[c].rows[1] \in Nat
            /\ queries[c].rows[1] <= h.lastSeq
        BY <2>1, <2>6, Elements, Extremes
      <3>2. QED
        BY <2>1, <3>1
    <2>8. Numbered(h) /\ Gapless(h.events, outpaced')
      BY <2>1, <2>6, <2>7, MoreAllowed DEF Numbered
    <2>9. PICK asked : asked = Asked("sync", h)
      OBVIOUS
    <2>10. /\ asked.kind = "sync" /\ Gapless(asked.rows, {})
           /\ asked.rows # <<>> => asked.rows[1] # 0
           /\ asked.rows # <<>> => MayLack(h, asked.rows[1] - 1, outpaced')
      BY <1>0, <2>4, <2>7, <2>9, AskedGapless
    <2>11. ASSUME NEW d \in Query
           PROVE  /\ Gapless(queries'[d].rows, {})
                  /\ queries'[d].rows # <<>> => queries'[d].rows[1] # 0
                  /\ queries'[d].kind \in {"loadSession", "refreshLoad"} => queries'[d].rows # <<>>
                  /\ queries'[d].kind = "sync" /\ queries'[d].rows # <<>> =>
                       MayLack(h, queries'[d].rows[1] - 1, outpaced')
      <3>1. CASE d = c
        <4>1. queries'[d] = asked
          BY <1>0, <2>3, <2>5, <2>9, <3>1
        <4>2. QED
          BY <2>10, <4>1
      <3>2. CASE d # c
        <4>1. queries'[d] = queries[d]
          BY <1>0, <2>3, <3>2
        <4>2. QED
          BY <1>0, <2>5, <4>1 DEF RowsGapless
      <3>3. QED
        BY <3>1, <3>2
    <2>12. RowsGapless'
      BY <2>5, <2>11 DEF RowsGapless, MayLack
    <2>13. FeedCovered' /\ ExpansionGapless'
      BY <1>0, <2>3, <2>5 DEF FeedCovered, ExpansionGapless, MayLack, Gapless
    <2>14. Numbered(pane)' /\ Gapless(pane.events, outpaced)' /\ recorded' # 0
      BY <1>0, <2>3, <2>5, <2>8 DEF Numbered, Gapless
    <2>15. QED
      BY <2>12, <2>13, <2>14 DEF GapInv
  <1>10. ASSUME NEW c \in Query, SyncAnswered(c) PROVE GapInv'
    <2>1. /\ queries[c].rows \in Seq(Nat) /\ Rising(queries[c].rows)
          /\ queries[c].rows # <<>> =>
               queries[c].rows[1] # 0 /\ MayLack(pane, queries[c].rows[1] - 1, outpaced)
      BY <1>0, <1>10 DEF SyncAnswered, GapInv, PaneInv, QueriesRise, QueryState, RowsGapless
    <2>2. /\ pane' = Merged(pane, queries[c].rows) /\ queries' = [queries EXCEPT ![c] = NoQuery]
          /\ UNCHANGED <<recorded, seen, expansion, outpaced>>
      BY <1>10 DEF SyncAnswered
    <2>3. /\ Gapless(pane'.events, outpaced) /\ Numbered(pane')
          /\ pane.lastSeq <= pane'.lastSeq
      BY <1>0, <2>1, <2>2, MergedGapless
    <2>4. \A n \in Int : MayLack(pane, n, outpaced) => MayLack(pane', n, outpaced)
      <3>1. pane' \in History
        BY DEF PaneInv, PaneTypeOK
      <3>2. QED
        BY <1>0, <2>3, <3>1, LaterLacks
    <2>5. ASSUME NEW d \in Query
          PROVE  /\ Gapless(queries'[d].rows, {})
                 /\ queries'[d].rows # <<>> => queries'[d].rows[1] # 0
                 /\ queries'[d].kind \in {"loadSession", "refreshLoad"} => queries'[d].rows # <<>>
                 /\ queries'[d].kind = "sync" /\ queries'[d].rows # <<>> =>
                      MayLack(pane', queries'[d].rows[1] - 1, outpaced)
      <3>1. CASE d = c
        <4>1. queries'[d] = NoQuery
          BY <1>0, <2>2, <3>1
        <4>2. QED
          BY <4>1, NothingFromUnused
      <3>2. CASE d # c
        <4>1. queries'[d] = queries[d]
          BY <1>0, <2>2, <3>2
        <4>2. QED
          BY <1>0, <2>4, <4>1, FirstRow DEF GapInv, RowsGapless
      <3>3. QED
        BY <3>1, <3>2
    <2>6. RowsGapless'
      BY <2>2, <2>5 DEF RowsGapless, MayLack
    <2>7. FeedCovered'
      BY <1>0, <2>2, <2>4 DEF FeedCovered, MayLack
    <2>8. ExpansionGapless'
      BY <1>0, <2>2 DEF ExpansionGapless, Gapless
    <2>9. Numbered(pane)' /\ Gapless(pane.events, outpaced)' /\ recorded' # 0
      BY <1>0, <2>2, <2>3 DEF Numbered, Gapless
    <2>10. QED
      BY <2>6, <2>7, <2>8, <2>9 DEF GapInv
  <1>11. ASSUME NEW c \in Query, LoadFails(c) PROVE GapInv'
    <2>1. /\ queries' = [queries EXCEPT ![c] = NoQuery]
          /\ UNCHANGED <<recorded, seen, pane, expansion, outpaced>>
      BY <1>11 DEF LoadFails
    <2>2. ASSUME NEW d \in Query
          PROVE  queries'[d] = NoQuery \/ queries'[d] = queries[d]
      BY <1>0, <2>1
    <2>3. RowsGapless'
      BY <1>0, <2>1, <2>2, NothingFromUnused DEF RowsGapless, Gapless, MayLack
    <2>4. QED
      BY <1>0, <2>1, <2>3
      DEF GapInv, FeedCovered, ExpansionGapless, Numbered, Gapless, MayLack
  <1>12. QED
    BY <1>1, <1>2, <1>3, <1>4, <1>5, <1>6, <1>7, <1>8, <1>9, <1>10, <1>11 DEF PaneNext

----------------------------------------------------------------------------
(* Between the first and the last event shown none is missing, unless an   *)
(* older answer replaced a newer history or the first poll of the          *)
(* subscription jumped over it (mergeSessionEvent, setHistory).            *)
THEOREM NoUnexplainedGap == PaneSpec => []GapsOnlyFromOldAnswers
  <1>1. GapInv /\ [PaneNext]_paneVars => GapInv'
    <2>1. GapInv /\ [PaneNext]_paneVars => PaneInv'
      BY NextPreserves DEF GapInv
    <2>2. QED
      BY <2>1, StepKeepsGaps
  <1>2. GapInv => GapsOnlyFromOldAnswers
    BY DEF GapInv, GapsOnlyFromOldAnswers, Gapless
  <1>3. QED
    BY InitHasNoGaps, <1>1, <1>2, PTL DEF PaneSpec
=============================================================================
