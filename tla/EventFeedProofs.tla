--------------------------- MODULE EventFeedProofs ---------------------------
(***************************************************************************)
(* Proofs about EventFeed for every number of events, every page size and  *)
(* every number of mishaps.                                                *)
(***************************************************************************)
EXTENDS EventFeed, SequenceTheorems, TLAPS

UpTo(rows, n) == \A i \in DOMAIN rows : rows[i] <= n
Beyond(rows, n) == \A i \in DOMAIN rows : rows[i] > n

----------------------------------------------------------------------------
(* The numbers are natural, and those in a sequence of them are, too.      *)
LEMMA SeqsInNat ==
    /\ MaxEvents \in Nat /\ MaxMishaps \in Nat
    /\ \A e \in Seqs : e \in Nat /\ 1 <= e /\ e <= MaxEvents /\ e \in 0 .. MaxEvents
  BY EventBounds DEF Seqs

LEMMA Elements ==
    ASSUME NEW s \in Seq(Seqs)
    PROVE  /\ Len(s) \in Nat /\ DOMAIN s = 1 .. Len(s)
           /\ \A i \in DOMAIN s : s[i] \in Seqs /\ s[i] \in Nat /\ s[i] <= MaxEvents
  <1>1. Len(s) \in Nat /\ DOMAIN s = 1 .. Len(s)
    BY LenProperties
  <1>2. \A i \in DOMAIN s : s[i] \in Seqs
    BY <1>1, ElementOfSeq
  <1>3. QED
    BY <1>1, <1>2, SeqsInNat

(* A page beyond a number continues what goes up to that number.           *)
LEMMA ConcatAscending ==
    ASSUME NEW s \in Seq(Seqs), NEW t \in Seq(Seqs), NEW n \in Nat,
           Ascending(s), Ascending(t), UpTo(s, n), Beyond(t, n)
    PROVE  s \o t \in Seq(Seqs) /\ Ascending(s \o t)
  <1>1. /\ s \o t \in Seq(Seqs) /\ Len(s \o t) = Len(s) + Len(t)
        /\ \A i \in 1 .. Len(s) + Len(t) :
             (s \o t)[i] = IF i <= Len(s) THEN s[i] ELSE t[i - Len(s)]
    BY ConcatProperties
  <1>2. DOMAIN (s \o t) = 1 .. Len(s) + Len(t)
    BY <1>1, Elements
  <1>3. ASSUME NEW i \in DOMAIN (s \o t), NEW j \in DOMAIN (s \o t), i < j
        PROVE  (s \o t)[i] < (s \o t)[j]
    <2>1. /\ Len(s) \in Nat /\ Len(t) \in Nat /\ i \in Nat /\ j \in Nat
          /\ DOMAIN s = 1 .. Len(s) /\ DOMAIN t = 1 .. Len(t)
      BY <1>2, Elements
    <2>2. CASE j <= Len(s)
      BY <1>1, <1>2, <1>3, <2>1, <2>2 DEF Ascending
    <2>3. CASE i <= Len(s) /\ ~(j <= Len(s))
      <3>1. /\ (s \o t)[i] = s[i] /\ (s \o t)[j] = t[j - Len(s)]
            /\ i \in DOMAIN s /\ j - Len(s) \in DOMAIN t
        BY <1>1, <1>2, <2>1, <2>3
      <3>2. s[i] \in Nat /\ t[j - Len(s)] \in Nat
        BY <3>1, Elements
      <3>3. s[i] <= n /\ t[j - Len(s)] > n
        BY <3>1 DEF UpTo, Beyond
      <3>4. QED
        BY <3>1, <3>2, <3>3
    <2>4. CASE ~(i <= Len(s))
      <3>1. /\ (s \o t)[i] = t[i - Len(s)] /\ (s \o t)[j] = t[j - Len(s)]
            /\ i - Len(s) \in DOMAIN t /\ j - Len(s) \in DOMAIN t /\ i - Len(s) < j - Len(s)
        BY <1>1, <1>2, <1>3, <2>1, <2>4
      <3>2. QED
        BY <3>1 DEF Ascending
    <2>5. QED
      BY <2>2, <2>3, <2>4
  <1>4. QED
    BY <1>1, <1>3 DEF Ascending

LEMMA ConcatUpTo ==
    ASSUME NEW s \in Seq(Seqs), NEW t \in Seq(Seqs), NEW n \in Nat, UpTo(s, n), UpTo(t, n)
    PROVE  UpTo(s \o t, n)
  <1>1. /\ s \o t \in Seq(Seqs) /\ Len(s \o t) = Len(s) + Len(t)
        /\ \A i \in 1 .. Len(s) + Len(t) :
             (s \o t)[i] = IF i <= Len(s) THEN s[i] ELSE t[i - Len(s)]
    BY ConcatProperties
  <1>2. DOMAIN (s \o t) = 1 .. Len(s) + Len(t)
    BY <1>1, Elements
  <1>3. /\ Len(s) \in Nat /\ Len(t) \in Nat
        /\ DOMAIN s = 1 .. Len(s) /\ DOMAIN t = 1 .. Len(t)
    BY Elements
  <1>4. QED
    BY <1>1, <1>2, <1>3 DEF UpTo

(* The numbers a handler has been called with when another one throws at   *)
(* the j-th row of a page.                                                 *)
LEMMA Prefix ==
    ASSUME NEW s \in Seq(Seqs), Ascending(s), NEW j \in DOMAIN s,
           NEW k \in {j - 1, j}, NEW n \in Nat, Beyond(s, n)
    PROVE  /\ SubSeq(s, 1, k) \in Seq(Seqs) /\ Ascending(SubSeq(s, 1, k))
           /\ UpTo(SubSeq(s, 1, k), s[j]) /\ Beyond(SubSeq(s, 1, k), n)
  <1>1. /\ Len(s) \in Nat /\ DOMAIN s = 1 .. Len(s) /\ j \in Nat
        /\ k \in 0 .. Len(s) /\ k <= j /\ 1 \in 1 .. Len(s) + 1
    BY Elements
  <1>2. /\ SubSeq(s, 1, k) \in Seq(Seqs) /\ Len(SubSeq(s, 1, k)) = k
        /\ \A i \in 1 .. k : SubSeq(s, 1, k)[i] = s[i]
    BY <1>1
  <1>3. DOMAIN SubSeq(s, 1, k) = 1 .. k
    BY <1>2, Elements
  <1>4. \A i \in 1 .. k : i \in DOMAIN s /\ (i < j \/ i = j) /\ s[i] \in Nat
    BY <1>1, Elements
  <1>5. \A i \in 1 .. k : s[i] <= s[j]
    BY <1>4, Elements DEF Ascending
  <1>6. QED
    BY <1>2, <1>3, <1>4, <1>5 DEF Ascending, UpTo, Beyond

LEMMA LastIsGreatest ==
    ASSUME NEW s \in Seq(Seqs), Ascending(s), s # <<>>
    PROVE  s[Len(s)] \in Seqs /\ UpTo(s, s[Len(s)]) /\ Len(s) \in DOMAIN s
  <1>1. Len(s) \in Nat /\ DOMAIN s = 1 .. Len(s) /\ Len(s) # 0 /\ Len(s) \in DOMAIN s
    BY Elements, EmptySeq
  <1>2. \A i \in DOMAIN s : s[i] <= s[Len(s)]
    <2>1. ASSUME NEW i \in DOMAIN s PROVE s[i] <= s[Len(s)]
      <3>1. s[i] \in Nat /\ s[Len(s)] \in Nat /\ (i < Len(s) \/ i = Len(s))
        BY <1>1, Elements
      <3>2. QED
        BY <1>1, <3>1 DEF Ascending
    <2>2. QED
      BY <2>1
  <1>3. QED
    BY <1>1, <1>2, Elements DEF UpTo

(* What getSessionEvents may return.                                       *)
LEMMA PageRows ==
    ASSUME NEW n \in Nat, NEW rows \in getSessionEvents(n)
    PROVE  rows \in Seq(Seqs) /\ Ascending(rows) /\ Beyond(rows, n)
  <1>1. rows \in Page /\ Ascending(rows) /\ Rows(rows) \subseteq {e \in events : e > n}
    BY DEF getSessionEvents
  <1>2. PICK m \in 0 .. PageSize : rows \in [1 .. m -> Seqs]
    BY <1>1 DEF Page
  <1>3. rows \in Seq(Seqs)
    BY <1>2, EventBounds
  <1>4. Beyond(rows, n)
    BY <1>1 DEF Rows, Beyond
  <1>5. QED
    BY <1>1, <1>3, <1>4

----------------------------------------------------------------------------
(* Every variable keeps its type.                                          *)
LEMMA AskTypes ==
    ASSUME EventFeedTypeOK, NEW c \in Call, Ask(c)
    PROVE  polling' \in BOOLEAN /\ poll' \in [Call -> [stage : Stage, rows : Seq(Seqs)]]
  BY DEF EventFeedTypeOK, Ask, Stage

LEMMA MishapCounted ==
    ASSUME EventFeedTypeOK, Mishap
    PROVE  mishaps' \in 0 .. MaxMishaps
  BY SeqsInNat DEF EventFeedTypeOK, Mishap

LEMMA NoPollType == NoPoll \in [stage : Stage, rows : Seq(Seqs)]
  BY DEF NoPoll, Stage

THEOREM TypeCorrect == EventFeedSpec => []EventFeedTypeOK
  <1>1. EventFeedInit => EventFeedTypeOK
    <2> SUFFICES ASSUME EventFeedInit PROVE EventFeedTypeOK
      OBVIOUS
    <2>1. lastSeq \in 0 .. MaxEvents /\ lastSeenSeq \in 0 .. MaxEvents /\ mishaps \in 0 .. MaxMishaps
      BY SeqsInNat DEF EventFeedInit
    <2>2. poll \in [Call -> [stage : Stage, rows : Seq(Seqs)]]
      BY NoPollType DEF EventFeedInit
    <2>3. delivered \in [Handler -> Seq(Seqs)]
      BY DEF EventFeedInit
    <2>4. QED
      BY <2>1, <2>2, <2>3, Zenon DEF EventFeedInit, EventFeedTypeOK
  <1>2. EventFeedTypeOK /\ [EventFeedNext]_feedVars => EventFeedTypeOK'
    <2> SUFFICES ASSUME EventFeedTypeOK, [EventFeedNext]_feedVars PROVE EventFeedTypeOK'
      OBVIOUS
    <2> USE SeqsInNat, NoPollType
    <2>1. CASE Insert
      BY <2>1 DEF Insert, EventFeedTypeOK, Seqs
    <2>2. ASSUME NEW e \in Seqs, Commit(e) PROVE EventFeedTypeOK'
      BY <2>2 DEF Commit, EventFeedTypeOK
    <2>3. ASSUME NEW e \in Seqs, Rollback(e) PROVE EventFeedTypeOK'
      BY <2>3 DEF Rollback, Mishap, EventFeedTypeOK
    <2>4. ASSUME NEW c \in Call, Tick(c) PROVE EventFeedTypeOK'
      BY <2>4, AskTypes DEF Tick, EventFeedTypeOK, storeVars
    <2>5. CASE Notification
      BY <2>5, AskTypes DEF Notification, EventFeedTypeOK, storeVars
    <2>6. ASSUME NEW c \in Call, Read(c) PROVE EventFeedTypeOK'
      <3>1. PICK rows \in getSessionEvents(lastSeenSeq) :
              /\ poll' = [poll EXCEPT ![c] = [stage |-> "read", rows |-> rows]]
              /\ hidden' = IF lastSeenSeq = 0 /\ rows # <<>>
                           THEN hidden \union {e \in events : e < Head(rows)} ELSE hidden
        BY <2>6 DEF Read
      <3>2. [stage |-> "read", rows |-> rows] \in [stage : Stage, rows : Seq(Seqs)]
        BY <3>1, PageRows DEF EventFeedTypeOK, Stage
      <3>3. poll' \in [Call -> [stage : Stage, rows : Seq(Seqs)]]
        BY <3>1, <3>2 DEF EventFeedTypeOK
      <3>4. hidden' \subseteq Seqs
        BY <3>1 DEF EventFeedTypeOK
      <3>5. QED
        BY <2>6, <3>3, <3>4 DEF Read, EventFeedTypeOK, storeVars
    <2>7. ASSUME NEW c \in Call, QueryFails(c) PROVE EventFeedTypeOK'
      <3>1. poll' \in [Call -> [stage : Stage, rows : Seq(Seqs)]]
        BY <2>7, NoPollType DEF QueryFails, EventFeedTypeOK
      <3>2. QED
        BY <2>7, <3>1, MishapCounted, Zenon DEF QueryFails, EventFeedTypeOK, storeVars
    <2>8. ASSUME NEW c \in Call, Deliver(c) PROVE EventFeedTypeOK'
      <3>1. poll[c].rows \in Seq(Seqs)
        BY DEF EventFeedTypeOK
      <3>2. poll[c].rows # <<>> => poll[c].rows[Len(poll[c].rows)] \in Seqs
        BY <3>1, Elements, EmptySeq
      <3>3. lastSeenSeq' \in 0 .. MaxEvents
        BY <2>8, <3>2 DEF Deliver, EventFeedTypeOK
      <3>4. Rows(poll[c].rows) \subseteq Seqs
        BY <3>1, Elements DEF Rows
      <3>5. hidden' \subseteq Seqs
        BY <2>8, <3>4 DEF Deliver, EventFeedTypeOK
      <3>6. delivered' \in [Handler -> Seq(Seqs)]
        <4>1. \A h \in Handler : delivered[h] \o poll[c].rows \in Seq(Seqs)
          BY <3>1, ConcatProperties DEF EventFeedTypeOK
        <4>2. QED
          BY <2>8, <4>1 DEF Deliver, EventFeedTypeOK
      <3>7. QED
        BY <2>8, <3>3, <3>5, <3>6 DEF Deliver, EventFeedTypeOK, storeVars
    <2>9. ASSUME NEW c \in Call, DeliverThrowing(c) PROVE EventFeedTypeOK'
      <3>1. poll[c].rows \in Seq(Seqs)
        BY DEF EventFeedTypeOK
      <3>2. PICK i \in DOMAIN poll[c].rows :
              /\ lastSeenSeq' = poll[c].rows[i]
              /\ hidden' = hidden \union {poll[c].rows[i]}
              /\ delivered' = [h \in Handler |-> delivered[h] \o
                                 SubSeq(poll[c].rows, 1, IF h = "typed" THEN i ELSE i - 1)]
        BY <2>9 DEF DeliverThrowing
      <3>3. poll[c].rows[i] \in Seqs
        BY <3>1, <3>2, Elements
      <3>4. SubSeq(poll[c].rows, 1, i) \in Seq(Seqs) /\ SubSeq(poll[c].rows, 1, i - 1) \in Seq(Seqs)
        <4>1. Len(poll[c].rows) \in Nat /\ i \in 1 .. Len(poll[c].rows)
          BY <3>1, <3>2, Elements
        <4>2. QED
          BY <3>1, <4>1
      <3>5. delivered' \in [Handler -> Seq(Seqs)]
        <4>1. \A h \in Handler :
                delivered[h] \o SubSeq(poll[c].rows, 1, IF h = "typed" THEN i ELSE i - 1) \in Seq(Seqs)
          BY <3>4, ConcatProperties DEF EventFeedTypeOK
        <4>2. QED
          BY <3>2, <4>1
      <3>6. lastSeenSeq' \in 0 .. MaxEvents /\ hidden' \subseteq Seqs
        BY <3>2, <3>3, SeqsInNat DEF EventFeedTypeOK
      <3>7. QED
        <4>1. poll' \in [Call -> [stage : Stage, rows : Seq(Seqs)]]
          BY <2>9, NoPollType DEF DeliverThrowing, EventFeedTypeOK
        <4>2. QED
          BY <2>9, <3>5, <3>6, <4>1, MishapCounted, Zenon DEF DeliverThrowing, EventFeedTypeOK, storeVars
    <2>10. CASE ListenerChanges
      BY <2>10 DEF ListenerChanges, EventFeedTypeOK, storeVars
    <2>11. CASE Subscribe
      BY <2>11, AskTypes DEF Subscribe, EventFeedTypeOK, storeVars
    <2>12. CASE Unsubscribe
      BY <2>12, MishapCounted, Zenon DEF Unsubscribe, EventFeedTypeOK, storeVars
    <2>13. CASE UNCHANGED feedVars
      BY <2>13 DEF feedVars, storeVars, EventFeedTypeOK
    <2>14. QED
      BY <2>1, <2>2, <2>3, <2>4, <2>5, <2>6, <2>7, <2>8, <2>9, <2>10, <2>11, <2>12, <2>13
         DEF EventFeedNext, Writer, PollStep
  <1>3. QED
    BY <1>1, <1>2, PTL DEF EventFeedSpec

----------------------------------------------------------------------------
(* What has been delivered goes up to the last number seen, a page in hand *)
(* starts beyond it, and a page is in hand or asked for by one call at     *)
(* most: without this another call would deliver the same rows again.      *)
DeliveredUpToLastSeen ==
    \A h \in Handler : Ascending(delivered[h]) /\ UpTo(delivered[h], lastSeenSeq)
PagesBeyondLastSeen ==
    \A c \in Call : poll[c].stage = "read" =>
        Ascending(poll[c].rows) /\ Beyond(poll[c].rows, lastSeenSeq)
OnePoll ==
    /\ polling = FALSE => \A c \in Call : poll[c].stage = "none"
    /\ \A c, d \in Call : poll[c].stage # "none" /\ poll[d].stage # "none" => c = d
DeliveryInv == DeliveredUpToLastSeen /\ PagesBeyondLastSeen /\ OnePoll

(* Beginning a poll: nobody else polls.                                    *)
LEMMA AskInvariant ==
    ASSUME EventFeedTypeOK, DeliveryInv, NEW c \in Call, Ask(c),
           UNCHANGED <<delivered, lastSeenSeq>>
    PROVE  DeliveryInv'
  <1>1. DeliveredUpToLastSeen'
    BY DEF DeliveryInv, DeliveredUpToLastSeen
  <1>2. /\ \A d \in Call : poll[d].stage = "none"
        /\ polling' = TRUE
        /\ \A d \in Call : poll'[d].stage = IF d = c THEN "asked" ELSE poll[d].stage
    BY DEF Ask, DeliveryInv, OnePoll, EventFeedTypeOK
  <1>3. PagesBeyondLastSeen'
    BY <1>2 DEF PagesBeyondLastSeen
  <1>4. OnePoll'
    BY <1>2 DEF OnePoll
  <1>5. QED
    BY <1>1, <1>3, <1>4 DEF DeliveryInv

(* Ending one, by whatever way: nobody polls any more.                     *)
LEMMA EndInvariant ==
    ASSUME EventFeedTypeOK, DeliveryInv, NEW c \in Call, poll[c].stage # "none",
           poll' = [poll EXCEPT ![c] = NoPoll], polling' = FALSE
    PROVE  PagesBeyondLastSeen' /\ OnePoll'
  <1>1. \A d \in Call : poll'[d].stage = "none"
    BY DEF DeliveryInv, OnePoll, EventFeedTypeOK, NoPoll
  <1>2. QED
    BY <1>1 DEF PagesBeyondLastSeen, OnePoll

LEMMA DeliveryUntouched ==
    ASSUME DeliveryInv, UNCHANGED <<poll, polling, delivered, lastSeenSeq>>
    PROVE  DeliveryInv'
  BY DEF DeliveryInv, DeliveredUpToLastSeen, PagesBeyondLastSeen, OnePoll

(* A page, or the part of one before an exception, is added to what a      *)
(* handler has got.                                                        *)
LEMMA Extended ==
    ASSUME EventFeedTypeOK, DeliveryInv, NEW c \in Call, poll[c].stage = "read",
           NEW h \in Handler, NEW rows \in Seq(Seqs), Ascending(rows),
           Beyond(rows, lastSeenSeq), NEW last \in Nat, UpTo(rows, last), last >= lastSeenSeq
    PROVE  Ascending(delivered[h] \o rows) /\ UpTo(delivered[h] \o rows, last)
  <1>1. /\ delivered[h] \in Seq(Seqs) /\ lastSeenSeq \in Nat
        /\ Ascending(delivered[h]) /\ UpTo(delivered[h], lastSeenSeq)
    BY SeqsInNat DEF EventFeedTypeOK, DeliveryInv, DeliveredUpToLastSeen
  <1>2. UpTo(delivered[h], last)
    <2>1. \A i \in DOMAIN delivered[h] : delivered[h][i] \in Nat
      BY <1>1, Elements
    <2>2. QED
      BY <1>1, <2>1 DEF UpTo
  <1>3. QED
    BY <1>1, <1>2, ConcatAscending, ConcatUpTo

LEMMA DeliverInvariant ==
    ASSUME EventFeedTypeOK, DeliveryInv, NEW c \in Call, Deliver(c)
    PROVE  DeliveryInv'
  <1> DEFINE rows == poll[c].rows
  <1>1. /\ rows \in Seq(Seqs) /\ lastSeenSeq \in Nat /\ poll[c].stage = "read"
        /\ Ascending(rows) /\ Beyond(rows, lastSeenSeq)
    BY SeqsInNat DEF EventFeedTypeOK, DeliveryInv, PagesBeyondLastSeen, Deliver
  <1>2. lastSeenSeq' \in Nat /\ UpTo(rows, lastSeenSeq') /\ lastSeenSeq' >= lastSeenSeq
    <2>1. CASE rows = <<>>
      BY <1>1, <2>1 DEF Deliver, UpTo
    <2>2. CASE rows # <<>>
      <3>1. lastSeenSeq' = rows[Len(rows)]
        BY <2>2 DEF Deliver
      <3>2. rows[Len(rows)] \in Nat /\ UpTo(rows, rows[Len(rows)]) /\ Len(rows) \in DOMAIN rows
        BY <1>1, <2>2, LastIsGreatest, SeqsInNat
      <3>3. rows[Len(rows)] > lastSeenSeq
        BY <1>1, <3>2 DEF Beyond
      <3>4. QED
        BY <1>1, <3>1, <3>2, <3>3
    <2>3. QED
      BY <2>1, <2>2
  <1>3. DeliveredUpToLastSeen'
    <2>1. CASE subscribed
      <3>1. \A h \in Handler : delivered'[h] = delivered[h] \o rows
        BY <2>1 DEF Deliver
      <3>2. QED
        BY <1>1, <1>2, <3>1, Extended DEF DeliveredUpToLastSeen
    <2>2. CASE ~subscribed
      <3>1. delivered' = delivered
        BY <2>2 DEF Deliver
      <3>2. \A h \in Handler : \A i \in DOMAIN delivered[h] :
              delivered[h][i] \in Nat /\ delivered[h][i] <= lastSeenSeq
        BY Elements DEF EventFeedTypeOK, DeliveryInv, DeliveredUpToLastSeen, UpTo
      <3>3. QED
        BY <1>1, <1>2, <3>1, <3>2 DEF DeliveryInv, DeliveredUpToLastSeen, UpTo
    <2>3. QED
      BY <2>1, <2>2
  <1>4. PagesBeyondLastSeen' /\ OnePoll'
    BY <1>1, EndInvariant DEF Deliver
  <1>5. QED
    BY <1>3, <1>4 DEF DeliveryInv

LEMMA DeliverThrowingInvariant ==
    ASSUME EventFeedTypeOK, DeliveryInv, NEW c \in Call, DeliverThrowing(c)
    PROVE  DeliveryInv'
  <1> DEFINE rows == poll[c].rows
  <1>1. /\ rows \in Seq(Seqs) /\ lastSeenSeq \in Nat /\ poll[c].stage = "read"
        /\ Ascending(rows) /\ Beyond(rows, lastSeenSeq)
    BY SeqsInNat DEF EventFeedTypeOK, DeliveryInv, PagesBeyondLastSeen, DeliverThrowing
  <1>2. PICK i \in DOMAIN rows :
          /\ lastSeenSeq' = rows[i]
          /\ delivered' = [h \in Handler |-> delivered[h] \o
                             SubSeq(rows, 1, IF h = "typed" THEN i ELSE i - 1)]
    BY DEF DeliverThrowing
  <1>3. lastSeenSeq' \in Nat /\ lastSeenSeq' >= lastSeenSeq
    BY <1>1, <1>2, Elements DEF Beyond
  <1>4. ASSUME NEW h \in Handler
        PROVE  Ascending(delivered'[h]) /\ UpTo(delivered'[h], lastSeenSeq')
    <2> DEFINE part == SubSeq(rows, 1, IF h = "typed" THEN i ELSE i - 1)
    <2>1. part \in Seq(Seqs) /\ Ascending(part) /\ UpTo(part, rows[i]) /\ Beyond(part, lastSeenSeq)
      BY <1>1, <1>2, Prefix
    <2>2. delivered'[h] = delivered[h] \o part
      BY <1>2
    <2> HIDE DEF part
    <2>3. QED
      BY <1>1, <1>2, <1>3, <2>1, <2>2, Extended
  <1>5. PagesBeyondLastSeen' /\ OnePoll'
    BY <1>1, EndInvariant DEF DeliverThrowing
  <1>6. QED
    BY <1>4, <1>5 DEF DeliveryInv, DeliveredUpToLastSeen

LEMMA ReadInvariant ==
    ASSUME EventFeedTypeOK, DeliveryInv, NEW c \in Call, Read(c)
    PROVE  DeliveryInv'
  <1>1. PICK rows \in getSessionEvents(lastSeenSeq) :
          poll' = [poll EXCEPT ![c] = [stage |-> "read", rows |-> rows]]
    BY DEF Read
  <1>2. rows \in Seq(Seqs) /\ Ascending(rows) /\ Beyond(rows, lastSeenSeq)
    BY PageRows, SeqsInNat DEF EventFeedTypeOK
  <1>3. /\ poll'[c] = [stage |-> "read", rows |-> rows]
        /\ \A d \in Call \ {c} : poll'[d] = poll[d]
    BY <1>1 DEF EventFeedTypeOK
  <1>4. poll[c].stage = "asked" /\ UNCHANGED <<polling, lastSeenSeq, delivered>>
    BY DEF Read
  <1>5. DeliveredUpToLastSeen'
    BY <1>4 DEF DeliveryInv, DeliveredUpToLastSeen
  <1>6. PagesBeyondLastSeen'
    BY <1>2, <1>3, <1>4 DEF DeliveryInv, PagesBeyondLastSeen
  <1>7. OnePoll'
    BY <1>3, <1>4 DEF DeliveryInv, OnePoll
  <1>8. QED
    BY <1>5, <1>6, <1>7 DEF DeliveryInv

(* Each handler gets each event once at most and in the order of the       *)
(* numbers: see DeliveredOnceInOrder.                                      *)
THEOREM DeliveryHolds == EventFeedSpec => []DeliveredOnceInOrder
  <1>1. EventFeedInit => DeliveryInv
    <2> SUFFICES ASSUME EventFeedInit PROVE DeliveryInv
      OBVIOUS
    <2>1. \A h \in Handler : delivered[h] = <<>>
      BY DEF EventFeedInit
    <2>2. DeliveredUpToLastSeen
      BY <2>1 DEF DeliveredUpToLastSeen, Ascending, UpTo
    <2>3. \A c \in Call : poll[c].stage = "none"
      BY DEF EventFeedInit, NoPoll
    <2>4. QED
      BY <2>2, <2>3 DEF DeliveryInv, PagesBeyondLastSeen, OnePoll
  <1>2. EventFeedTypeOK /\ DeliveryInv /\ [EventFeedNext]_feedVars => DeliveryInv'
    <2> SUFFICES ASSUME EventFeedTypeOK, DeliveryInv, [EventFeedNext]_feedVars PROVE DeliveryInv'
      OBVIOUS
    <2>1. CASE Insert \/ Writer
      BY <2>1, DeliveryUntouched DEF Insert, Writer, Commit, Rollback
    <2>2. ASSUME NEW c \in Call, Tick(c) PROVE DeliveryInv'
      BY <2>2, AskInvariant DEF Tick
    <2>3. CASE Notification
      BY <2>3, AskInvariant, DeliveryUntouched DEF Notification
    <2>4. ASSUME NEW c \in Call, QueryFails(c) PROVE DeliveryInv'
      <3>1. PagesBeyondLastSeen' /\ OnePoll'
        BY <2>4, EndInvariant DEF QueryFails
      <3>2. DeliveredUpToLastSeen'
        BY <2>4 DEF QueryFails, DeliveryInv, DeliveredUpToLastSeen
      <3>3. QED
        BY <3>1, <3>2 DEF DeliveryInv
    <2>5. CASE Subscribe
      BY <2>5, AskInvariant, DeliveryUntouched DEF Subscribe
    <2>6. CASE ListenerChanges \/ Unsubscribe
      BY <2>6, DeliveryUntouched DEF ListenerChanges, Unsubscribe
    <2>7. CASE UNCHANGED feedVars
      BY <2>7, DeliveryUntouched DEF feedVars
    <2>8. QED
      BY <2>1, <2>2, <2>3, <2>4, <2>5, <2>6, <2>7,
         ReadInvariant, DeliverInvariant, DeliverThrowingInvariant
         DEF EventFeedNext, PollStep
  <1>3. DeliveryInv => DeliveredOnceInOrder
    BY DEF DeliveryInv, DeliveredUpToLastSeen, DeliveredOnceInOrder
  <1>4. QED
    BY <1>1, <1>2, <1>3, TypeCorrect, PTL DEF EventFeedSpec
=============================================================================
