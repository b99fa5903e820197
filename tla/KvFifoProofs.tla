---------------------------- MODULE KvFifoProofs ----------------------------
(***************************************************************************)
(* Proofs about KvFifo for every number of buckets, every size limit and   *)
(* every set of item sizes: the order of arrival, the refinement of one    *)
(* queue, the place of every item and the limit on a bucket.               *)
(*                                                                         *)
(* FlattenSeq and FoldLeft are defined by recursion.  What is needed of    *)
(* them is proved by induction, which is stated here of sets of naturals   *)
(* (Induction): each proof names the set of the lengths for which its      *)
(* claim holds and shows that it is Nat.                                   *)
(***************************************************************************)
EXTENDS KvFifo, SequenceTheorems, FiniteSetTheorems, WellFoundedInduction, TLAPS

----------------------------------------------------------------------------
(* A bucket is a number.                                                   *)
LEMMA BucketInNat == \A i \in Bucket : i \in Nat
  BY BucketCountAssumption DEF Bucket

(* The ids of a sequence of items are numbers.                             *)
LEMMA ItemIds ==
    ASSUME NEW s \in Seq(Item)
    PROVE  \A k \in 1 .. Len(s) : s[k] \in Item /\ s[k].id \in Nat
  <1>1. \A k \in 1 .. Len(s) : s[k] \in Item
    BY ElementOfSeq
  <1>2. QED
    BY <1>1, BoundsAssumption DEF Item

(* What taking the head of a sequence does to the order of arrival.        *)
LEMMA TailOrder ==
    ASSUME NEW s \in Seq(Item), s # <<>>, NEW t \in Seq(Item), NEW n \in Nat
    PROVE  /\ Head(s) \in Item /\ <<Head(s)>> \in Seq(Item)
           /\ Tail(s) \in Seq(Item)
           /\ Increasing(s) => Increasing(Tail(s)) /\ Before(<<Head(s)>>, Tail(s))
           /\ UpTo(s, n) => UpTo(Tail(s), n) /\ Head(s).id <= n
           /\ Before(s, t) => Before(Tail(s), t) /\ Before(<<Head(s)>>, t)
           /\ Before(t, s) => Before(t, Tail(s)) /\ Before(t, <<Head(s)>>)
  <1>1. /\ Len(s) \in Nat /\ Len(s) >= 1 /\ Head(s) = s[1]
        /\ Tail(s) \in Seq(Item) /\ Len(Tail(s)) = Len(s) - 1
        /\ \A k \in 1 .. Len(Tail(s)) : Tail(s)[k] = s[k + 1]
    BY HeadTailProperties
  <1>2. \A k \in 1 .. Len(s) : s[k] \in Item /\ s[k].id \in Nat
    BY ItemIds
  <1>3. /\ Head(s) \in Item /\ <<Head(s)>> \in Seq(Item) 
        /\ Len(<<Head(s)>>) = 1 /\ <<Head(s)>>[1] = s[1]
    BY <1>1, <1>2
  <1>4. Increasing(s) => Increasing(Tail(s)) /\ Before(<<Head(s)>>, Tail(s))
    BY <1>1, <1>3 DEF Increasing, Before
  <1>5. UpTo(s, n) => UpTo(Tail(s), n) /\ Head(s).id <= n
    BY <1>1 DEF UpTo
  <1>6. Before(s, t) => Before(Tail(s), t) /\ Before(<<Head(s)>>, t)
    BY <1>1, <1>3 DEF Before
  <1>7. Before(t, s) => Before(t, Tail(s)) /\ Before(t, <<Head(s)>>)
    BY <1>1, <1>3 DEF Before
  <1>8. QED
    BY <1>1, <1>3, <1>4, <1>5, <1>6, <1>7

(* What adding at the end of a sequence does to it.                        *)
LEMMA AppendOrder ==
    ASSUME NEW s \in Seq(Item), NEW e \in Item, NEW t \in Seq(Item), NEW n \in Nat
    PROVE  /\ Append(s, e) \in Seq(Item)
           /\ <<e>> \in Seq(Item)
           /\ Increasing(<<e>>)
           /\ Increasing(s) /\ Before(s, <<e>>) => Increasing(Append(s, e))
           /\ UpTo(s, n) /\ e.id <= n => UpTo(Append(s, e), n) /\ UpTo(<<e>>, n)
           /\ Before(s, t) /\ Before(<<e>>, t) => Before(Append(s, e), t)
           /\ Before(t, s) /\ Before(t, <<e>>) => Before(t, Append(s, e))
  BY AppendProperties DEF Increasing, UpTo, Before, Item

(* Nothing is out of order in an empty sequence.                           *)
LEMMA EmptyOrder ==
    ASSUME NEW t \in Seq(Item), NEW n \in Nat
    PROVE  /\ <<>> \in Seq(Item)
           /\ Increasing(<<>>) /\ UpTo(<<>>, n)
           /\ Before(<<>>, t) /\ Before(t, <<>>)
  BY DEF Increasing, UpTo, Before

----------------------------------------------------------------------------
(* Every variable keeps its type: the write index stays a bucket and the   *)
(* ids handed out stay within the bound.                                   *)
THEOREM TypeCorrect == Spec => []TypeOK
  <1>1. Init => TypeOK
    BY BucketCountAssumption DEF Init, TypeOK, Bucket
  <1>2. TypeOK /\ [Next]_vars => TypeOK'
    <2> SUFFICES ASSUME TypeOK, [Next]_vars PROVE TypeOK'
      OBVIOUS
    <2> USE DEF TypeOK
    <2>1. ASSUME NEW sizes \in SeqOf(ItemBytes, MAX_DRAIN_PER_TURN), BeginAppend(sizes)
          PROVE  TypeOK'
      <3>1. sizes \in Seq(ItemBytes) /\ Len(sizes) \in Nat
        <4>1. PICK m \in 0 .. MAX_DRAIN_PER_TURN : sizes \in [1 .. m -> ItemBytes]
          BY DEF SeqOf
        <4>2. m \in Nat
          BY <4>1, BoundsAssumption
        <4>3. sizes \in Seq(ItemBytes)
          BY <4>1, <4>2
        <4>4. QED
          BY <4>3, LenProperties
      <3>2. arrived + Len(sizes) \in Nat /\ arrived + Len(sizes) <= MaxArrivals
        BY <2>1, <3>1 DEF BeginAppend
      <3>3. \A k \in 1 .. Len(sizes) : [id |-> arrived + k, bytes |-> sizes[k]] \in Item
        BY <3>1, <3>2, BoundsAssumption DEF Item
      <3>4. newItems' \in Seq(Item)
        BY <2>1, <3>1, <3>3 DEF BeginAppend
      <3>5. QED
        BY <2>1, <3>2, <3>4 DEF BeginAppend
    <2>2. CASE AppendInBucket
      BY <2>2, HeadTailProperties DEF AppendInBucket
    <2>3. CASE AppendInNextBucket
      <3>1. writeBucketIdx + 1 \in Bucket
        BY <2>3, BucketCountAssumption DEF AppendInNextBucket, Bucket
      <3>2. Head(newItems) \in Item /\ Tail(newItems) \in Seq(Item)
        BY <2>3 DEF AppendInNextBucket
      <3>3. QED
        BY <2>3, <3>1, <3>2 DEF AppendInNextBucket
    <2>4. CASE Overflow
      <3>1. \A k \in 1 .. Len(newItems) : newItems[k].id \in Nat
        BY ItemIds
      <3>2. {newItems[k].id : k \in 1 .. Len(newItems)} \subseteq Nat
        BY <3>1
      <3>3. dropped' \subseteq Nat
        BY <2>4, <3>2 DEF Overflow
      <3>4. QED
        BY <2>4, <3>3 DEF Overflow
    <2>5. CASE popFifoItem
      BY <2>5 DEF popFifoItem, Occupied
    <2>6. CASE UNCHANGED vars
      BY <2>6 DEF vars
    <2>7. QED
      BY <2>1, <2>2, <2>3, <2>4, <2>5, <2>6 DEF Next, BoundedSeq
  <1>3. QED
    BY <1>1, <1>2, PTL DEF Spec

----------------------------------------------------------------------------
(* Arrival order is kept wherever an item is: in the buckets, in the       *)
(* rest of an append and in what was popped.  An append in progress        *)
(* finds every bucket above the one it writes to empty; that is what makes *)
(* a rotation safe.                                                        *)
THEOREM ArrivalOrderHolds == Spec => []ArrivalOrder
  <1>1. Init => ArrivalOrder
    BY DEF Init, ArrivalOrder, Increasing, Before, UpTo
  <1>2. ArrivalOrder /\ TypeOK /\ TypeOK' /\ [Next]_vars => ArrivalOrder'
    <2> SUFFICES ASSUME ArrivalOrder, TypeOK, TypeOK', [Next]_vars
                 PROVE  ArrivalOrder'
      OBVIOUS
    <2> USE DEF TypeOK
    <2>1. ASSUME NEW sizes \in SeqOf(ItemBytes, MAX_DRAIN_PER_TURN), BeginAppend(sizes)
          PROVE  ArrivalOrder'
      <3>1. Len(sizes) \in Nat /\ sizes # <<>> /\ arrived' = arrived + Len(sizes)
        <4>1. PICK m \in 0 .. MAX_DRAIN_PER_TURN : sizes \in [1 .. m -> ItemBytes]
          BY DEF SeqOf
        <4>2. m \in Nat
          BY <4>1, BoundsAssumption
        <4>3. sizes \in Seq(ItemBytes)
          BY <4>1, <4>2
        <4>4. QED
          BY <2>1, <4>3, LenProperties DEF BeginAppend
      <3>2. /\ newItems = <<>> /\ UNCHANGED <<buckets, popped>>
            /\ Len(newItems') = Len(sizes)
            /\ \A k \in 1 .. Len(newItems') : newItems'[k].id = arrived + k
        BY <2>1, <3>1 DEF BeginAppend
      <3>3. Increasing(newItems') /\ UpTo(newItems', arrived')
        BY <3>1, <3>2 DEF Increasing, UpTo
      <3>4. ASSUME NEW s \in Seq(Item), UpTo(s, arrived)
            PROVE  Before(s, newItems') /\ UpTo(s, arrived')
        BY <3>1, <3>2, <3>4, ItemIds, SMTT(30) DEF Before, UpTo
      <3>5. ASSUME NEW i \in Bucket, writeBucketIdx' < i PROVE buckets[i] = <<>>
        <4>1. writeBucketIdx' \in Bucket /\ StartsAt(writeBucketIdx')
          BY <2>1 DEF BeginAppend
        <4>2. i \notin Occupied
          BY <3>5, <4>1, BucketInNat DEF StartsAt, hasFifoItems
        <4>3. QED
          BY <4>2 DEF Occupied
      <3>6. QED
        BY <3>2, <3>3, <3>4, <3>5 DEF ArrivalOrder
    <2>2. CASE AppendInBucket
      <3> DEFINE w == writeBucketIdx
                 item == Head(newItems)
      <3>1. /\ newItems # <<>>
            /\ newItems' = Tail(newItems)
            /\ buckets' = [buckets EXCEPT ![w] = Append(buckets[w], item)]
            /\ UNCHANGED <<w, arrived, popped>>
        BY <2>2 DEF AppendInBucket
      <3>2. /\ item \in Item /\ <<item>> \in Seq(Item) /\ item.id <= arrived
            /\ Increasing(newItems') /\ UpTo(newItems', arrived)
            /\ Before(<<item>>, newItems')
            /\ Before(popped, <<item>>) /\ Before(popped, newItems')
            /\ \A i \in Bucket : Before(buckets[i], <<item>>) /\ Before(buckets[i], newItems')
        BY <3>1, TailOrder DEF ArrivalOrder
      <3>3. /\ Increasing(buckets'[w]) /\ UpTo(buckets'[w], arrived)
            /\ Before(popped, buckets'[w]) /\ Before(buckets'[w], newItems')
        BY <3>1, <3>2, AppendOrder DEF ArrivalOrder
      <3>4. ASSUME NEW i \in Bucket, i < w PROVE Before(buckets[i], buckets'[w])
        BY <3>1, <3>2, <3>4, AppendOrder DEF ArrivalOrder
      <3>5. ASSUME NEW i \in Bucket, w < i PROVE Before(buckets'[w], buckets[i])
        BY <3>1, <3>5, EmptyOrder DEF ArrivalOrder
      <3>6. \A i \in Bucket : i # w => buckets'[i] = buckets[i]
        BY <3>1
      <3>7. QED
        BY <3>1, <3>2, <3>3, <3>4, <3>5, <3>6, BucketInNat DEF ArrivalOrder
    <2>3. CASE AppendInNextBucket
      <3> DEFINE w == writeBucketIdx + 1
                 item == Head(newItems)
      <3>1. /\ newItems # <<>>
            /\ newItems' = Tail(newItems)
            /\ buckets' = [buckets EXCEPT ![w] = <<item>>]
            /\ writeBucketIdx' = w
            /\ UNCHANGED <<arrived, popped>>
        BY <2>3 DEF AppendInNextBucket
      <3>2. /\ item \in Item /\ <<item>> \in Seq(Item) /\ item.id <= arrived
            /\ Increasing(newItems') /\ UpTo(newItems', arrived)
            /\ Before(<<item>>, newItems')
            /\ Before(popped, <<item>>) /\ Before(popped, newItems')
            /\ \A i \in Bucket : Before(buckets[i], <<item>>) /\ Before(buckets[i], newItems')
        BY <3>1, TailOrder DEF ArrivalOrder
      <3>3. w \in Bucket /\ buckets'[w] = <<item>>
        BY <3>1
      <3>4. /\ Increasing(buckets'[w]) /\ UpTo(buckets'[w], arrived)
            /\ Before(popped, buckets'[w]) /\ Before(buckets'[w], newItems')
        BY <3>2, <3>3, AppendOrder, EmptyOrder
      <3>5. ASSUME NEW i \in Bucket, i < w PROVE Before(buckets[i], buckets'[w])
        BY <3>2, <3>3
      <3>6. ASSUME NEW i \in Bucket, w < i PROVE buckets[i] = <<>>
        BY <3>1, <3>6, BucketInNat DEF ArrivalOrder
      <3>7. ASSUME NEW i \in Bucket, w < i PROVE Before(buckets'[w], buckets[i])
        BY <3>2, <3>3, <3>6, <3>7, EmptyOrder
      <3>8. \A i \in Bucket : i # w => buckets'[i] = buckets[i]
        BY <3>1
      <3>9. ASSUME NEW i \in Bucket
            PROVE  /\ Increasing(buckets'[i]) /\ UpTo(buckets'[i], arrived)
                   /\ Before(popped, buckets'[i]) /\ Before(buckets'[i], newItems')
                   /\ w < i => buckets'[i] = <<>>
        BY <3>1, <3>2, <3>4, <3>6, <3>8, BucketInNat DEF ArrivalOrder
      <3>10. ASSUME NEW i \in Bucket, NEW j \in Bucket, i < j
             PROVE  Before(buckets'[i], buckets'[j])
        <4>1. CASE i = w
          BY <3>7, <3>8, <3>10, <4>1, BucketInNat
        <4>2. CASE j = w
          BY <3>5, <3>8, <3>10, <4>2, BucketInNat
        <4>3. CASE i # w /\ j # w
          BY <3>8, <3>10, <4>3 DEF ArrivalOrder
        <4>4. QED
          BY <4>1, <4>2, <4>3
      <3>11. QED
        BY <3>1, <3>2, <3>9, <3>10 DEF ArrivalOrder
    <2>4. CASE Overflow
      BY <2>4, EmptyOrder DEF Overflow, ArrivalOrder
    <2>5. CASE popFifoItem
      <3>1. PICK w \in Occupied :
              /\ \A j \in Occupied : w <= j
              /\ popped' = Append(popped, Head(buckets[w]))
              /\ buckets' = [buckets EXCEPT ![w] = Tail(buckets[w])]
        BY <2>5 DEF popFifoItem
      <3> DEFINE item == Head(buckets[w])
      <3>2. /\ w \in Bucket /\ buckets[w] # <<>> /\ buckets[w] \in Seq(Item)
            /\ newItems = <<>> /\ UNCHANGED <<newItems, writeBucketIdx, arrived>>
        BY <2>5, <3>1 DEF popFifoItem, Occupied
      <3>3. \A i \in Bucket : i < w => buckets[i] = <<>>
        BY <3>1, <3>2, BucketInNat DEF Occupied
      <3>4. /\ item \in Item /\ <<item>> \in Seq(Item) /\ item.id <= arrived
            /\ Increasing(buckets'[w]) /\ UpTo(buckets'[w], arrived)
            /\ Before(<<item>>, buckets'[w])
            /\ Before(popped, <<item>>) /\ Before(popped, buckets'[w])
        BY <3>1, <3>2, TailOrder DEF ArrivalOrder
      <3>5. Increasing(popped') /\ UpTo(popped', arrived)
        BY <3>1, <3>4, AppendOrder DEF ArrivalOrder
      <3>6. \A i \in Bucket : i # w => buckets'[i] = buckets[i]
        BY <3>1
      <3>7. ASSUME NEW i \in Bucket, w < i
            PROVE  Before(buckets'[w], buckets[i]) /\ Before(<<item>>, buckets[i])
        BY <3>1, <3>2, <3>7, TailOrder DEF ArrivalOrder
      <3>8. ASSUME NEW i \in Bucket PROVE Before(popped', buckets'[i])
        <4>1. CASE i < w
          <5>1. buckets'[i] = <<>> /\ popped' \in Seq(Item)
            BY <3>2, <3>3, <3>6, <4>1, BucketInNat
          <5>2. QED
            BY <5>1, EmptyOrder
        <4>2. CASE i = w
          BY <3>1, <3>4, <4>2, AppendOrder
        <4>3. CASE w < i
          <5>1. buckets'[i] = buckets[i] /\ buckets[i] \in Seq(Item)
            BY <3>2, <3>6, <4>3, BucketInNat
          <5>2. Before(popped, buckets[i]) /\ Before(<<item>>, buckets[i])
            BY <3>7, <4>3 DEF ArrivalOrder
          <5>3. QED
            BY <3>1, <3>4, <5>1, <5>2, AppendOrder
        <4>4. QED
          BY <3>2, <4>1, <4>2, <4>3, BucketInNat
      <3>9. ASSUME NEW i \in Bucket, NEW j \in Bucket, i < j
            PROVE  Before(buckets'[i], buckets'[j])
        <4>1. CASE i < w
          <5>1. buckets'[i] = <<>> /\ buckets'[j] \in Seq(Item)
            BY <3>2, <3>3, <3>6, <4>1, BucketInNat
          <5>2. QED
            BY <5>1, EmptyOrder
        <4>2. CASE i = w
          <5>1. buckets'[j] = buckets[j]
            BY <3>2, <3>6, <3>9, <4>2, BucketInNat
          <5>2. QED
            BY <3>7, <3>9, <4>2, <5>1
        <4>3. CASE w < i
          BY <3>2, <3>6, <3>9, <4>3, BucketInNat, SMTT(30) DEF ArrivalOrder
        <4>4. QED
          BY <3>2, <4>1, <4>2, <4>3, BucketInNat
      <3>10. QED
        BY <3>2, <3>4, <3>5, <3>6, <3>8, <3>9, EmptyOrder DEF ArrivalOrder
    <2>6. CASE UNCHANGED vars
      BY <2>6 DEF vars, ArrivalOrder
    <2>7. QED
      BY <2>1, <2>2, <2>3, <2>4, <2>5, <2>6 DEF Next, BoundedSeq
  <1>3. QED
    BY <1>1, <1>2, TypeCorrect, PTL DEF Spec

----------------------------------------------------------------------------
(* Mathematical induction, stated of a set: a set of naturals that holds 0 *)
(* and is closed under successor holds them all.                           *)
LEMMA Induction ==
    ASSUME NEW P \in SUBSET Nat, 0 \in P, \A n \in P : n + 1 \in P
    PROVE  P = Nat
  <1> SUFFICES ASSUME Nat \ P # {} PROVE FALSE
    OBVIOUS
  <1>1. PICK x \in Nat \ P : \A y \in Nat \ P : ~ (<<y, x>> \in OpToRel(<, Nat))
    BY NatLessThanWellFounded, WFMin
  <1>2. OpToRel(<, Nat) = {ss \in Nat \X Nat : ss[1] < ss[2]}
    BY Zenon DEF OpToRel
  <1>3. ASSUME NEW y \in Nat, y < x PROVE <<y, x>> \in {ss \in Nat \X Nat : ss[1] < ss[2]}
    BY <1>3
  <1>4. \A y \in Nat : y < x => y \in P
    BY <1>1, <1>2, <1>3
  <1>5. x \in Nat /\ x # 0
    BY <1>1
  <1>6. x - 1 \in Nat /\ x - 1 < x /\ (x - 1) + 1 = x
    BY <1>5
  <1>7. x - 1 \in P
    BY <1>4, <1>6
  <1>8. QED
    BY <1>1, <1>6, <1>7

(* g is the function FlattenSeq defines, up to n.                          *)
Unrolled(q, g, n) ==
    /\ g \in [1 .. n -> Seq(Item)]
    /\ \A i \in 1 .. n : g[i] = IF i = 1 THEN q[i] ELSE g[i - 1] \o q[i]

(* The recursion behind FlattenSeq has a solution.                         *)
LEMMA UnrolledExists ==
    ASSUME NEW N \in Nat, NEW q \in [1 .. N -> Seq(Item)]
    PROVE  \E g : Unrolled(q, g, N)
  <1> DEFINE P == {n \in Nat : n <= N => \E g : Unrolled(q, g, n)}
  <1>1. 0 \in P
    <2>1. Unrolled(q, <<>>, 0)
      BY DEF Unrolled
    <2>2. QED
      BY <2>1
  <1>2. ASSUME NEW n \in P PROVE n + 1 \in P
    <2>1. n \in Nat /\ (n <= N => \E g : Unrolled(q, g, n))
      BY <1>2
    <2> DEFINE m == n + 1
    <2>2. SUFFICES ASSUME m <= N PROVE \E g : Unrolled(q, g, m)
      BY <2>1
    <2>0. m \in Nat /\ m - 1 = n /\ ~(m \in 1 .. n) /\ m \in 1 .. m
          /\ (\A i \in 1 .. m : i = m \/ i \in 1 .. n) /\ \A i \in 1 .. n : i \in 1 .. m
      BY <2>1
    <2>3. PICK g : Unrolled(q, g, n)
      BY <2>1, <2>2
    <2> HIDE DEF m
    <2> DEFINE next == IF m = 1 THEN q[m] ELSE g[m - 1] \o q[m]
               h == [i \in 1 .. m |-> IF i = m THEN next ELSE g[i]]
    <2>4. /\ h = [i \in 1 .. m |-> h[i]]
          /\ \A i \in 1 .. n : h[i] = g[i]
          /\ h[m] = next
      BY <2>0
    <2> HIDE DEF h
    <2>5. \A i \in 1 .. n : g[i] \in Seq(Item) /\ g[i] = IF i = 1 THEN q[i] ELSE g[i - 1] \o q[i]
      BY <2>3 DEF Unrolled
    <2>6. \A i \in 1 .. m : i # 1 => i - 1 \in 1 .. n
      BY <2>1, <2>0
    <2>7. next \in Seq(Item) /\ next = IF m = 1 THEN q[m] ELSE h[m - 1] \o q[m]
      <3>1. q[m] \in Seq(Item)
        BY <2>1, <2>2, <2>0
      <3>2. m # 1 => g[m - 1] \in Seq(Item) /\ h[m - 1] = g[m - 1]
        BY <2>4, <2>5, <2>6, <2>0
      <3>3. QED
        BY <3>1, <3>2
    <2> HIDE DEF next
    <2>8. ASSUME NEW i \in 1 .. m
          PROVE  h[i] \in Seq(Item) /\ h[i] = IF i = 1 THEN q[i] ELSE h[i - 1] \o q[i]
      <3>1. CASE i \in 1 .. n
        BY <2>4, <2>5, <2>6, <3>1
      <3>2. CASE i = m
        BY <2>4, <2>7, <3>2
      <3>3. QED
        BY <2>0, <3>1, <3>2
    <2>9. h \in [1 .. m -> Seq(Item)]
      BY <2>4, <2>8
    <2>10. Unrolled(q, h, m)
      BY <2>8, <2>9 DEF Unrolled
    <2>11. QED
      BY <2>10
  <1> HIDE DEF P
  <1>3. P = Nat
    <2>1. P \in SUBSET Nat
      BY DEF P
    <2>2. QED
      BY <1>1, <1>2, <2>1, Induction
  <1>4. N \in P
    BY <1>3
  <1>5. QED
    BY <1>4 DEF P

(* FlattenSeq is the last value of that recursion.                         *)
LEMMA FlattenUnrolls ==
    ASSUME NEW N \in Nat \ {0}, NEW q \in [1 .. N -> Seq(Item)]
    PROVE  \E g : Unrolled(q, g, N) /\ FlattenSeq(q) = g[N]
  <1> DEFINE Solves(g) == g = [i \in 1 .. N |-> IF i = 1 THEN q[i] ELSE g[i - 1] \o q[i]]
             f == CHOOSE g : Solves(g)
  <1>1. \E g : Unrolled(q, g, N) /\ Solves(g)
    <2>1. PICK g : Unrolled(q, g, N)
      BY UnrolledExists
    <2>2. Solves(g)
      BY <2>1 DEF Unrolled
    <2>3. QED
      BY <2>1, <2>2
  <1>2. Solves(f)
    BY <1>1
  <1>3. Len(q) = N
    OBVIOUS
  <1>4. FlattenSeq(q) = f[N]
    BY <1>3 DEF FlattenSeq
  <1> HIDE DEF f
  <1>5. PICK g : Unrolled(q, g, N)
    BY <1>1
  <1> DEFINE P == {n \in Nat : n \in 1 .. N => f[n] = g[n]}
  <1>6. ASSUME NEW n \in P PROVE n + 1 \in P
    <2> DEFINE m == n + 1
    <2>1. SUFFICES ASSUME m \in 1 .. N PROVE f[m] = g[m]
      BY <1>6
    <2>2. n \in Nat /\ m - 1 = n /\ m \in Nat /\ (m # 1 => n \in 1 .. N)
      BY <1>6, <2>1
    <2> HIDE DEF m
    <2>3. f[m] = IF m = 1 THEN q[m] ELSE f[m - 1] \o q[m]
      BY <1>2, <2>1
    <2>4. g[m] = IF m = 1 THEN q[m] ELSE g[m - 1] \o q[m]
      BY <1>5, <2>1 DEF Unrolled
    <2>5. QED
      BY <1>6, <2>2, <2>3, <2>4
  <1>7. 0 \in P
    OBVIOUS
  <1>8. P \in SUBSET Nat
    OBVIOUS
  <1> HIDE DEF P
  <1>9. P = Nat
    BY <1>6, <1>7, <1>8, Induction
  <1>10. \A n \in 1 .. N : f[n] = g[n]
    <2>1. \A n \in 1 .. N : n \in P
      BY <1>9
    <2>2. QED
      BY <2>1 DEF P
  <1>11. N \in 1 .. N
    OBVIOUS
  <1>12. QED
    BY <1>4, <1>5, <1>10, <1>11

(* Adding to the second of two sequences adds to both.                     *)
LEMMA AppendConcat ==
    ASSUME NEW a \in Seq(Item), NEW b \in Seq(Item), NEW x \in Item
    PROVE  a \o Append(b, x) = Append(a \o b, x)
  <1>1. \A c \in Seq(Item) : Append(c, x) = c \o <<x>>
    BY AppendIsConcat
  <1>2. a \o b \in Seq(Item) /\ <<x>> \in Seq(Item)
    BY ConcatProperties
  <1>3. (a \o b) \o <<x>> = a \o (b \o <<x>>)
    BY <1>2, ConcatAssociative
  <1>4. QED
    BY <1>1, <1>2, <1>3

(* The head of two sequences is that of the first.                         *)
LEMMA HeadConcat ==
    ASSUME NEW a \in Seq(Item), a # <<>>, NEW b \in Seq(Item)
    PROVE  /\ a \o b # <<>> /\ Head(a \o b) = Head(a)
           /\ Tail(a \o b) = Tail(a) \o b
  <1>1. /\ a \o b \in Seq(Item) /\ Len(a \o b) = Len(a) + Len(b)
        /\ \A i \in 1 .. Len(a) + Len(b) : (a \o b)[i] = IF i <= Len(a) THEN a[i] ELSE b[i - Len(a)]
    BY ConcatProperties
  <1>2. PICK c \in Seq(Item) : c = a \o b
    BY <1>1
  <1>3. Len(a) \in Nat /\ Len(b) \in Nat /\ Len(a) > 0
    BY EmptySeq
  <1>4. c # <<>> /\ Head(c) = Head(a)
    BY <1>1, <1>2, <1>3
  <1>5. /\ Tail(c) \in Seq(Item) /\ Len(Tail(c)) = Len(c) - 1
        /\ \A i \in 1 .. Len(Tail(c)) : Tail(c)[i] = c[i + 1]
    BY <1>4, HeadTailProperties
  <1>6. PICK t \in Seq(Item) : t = Tail(a) /\ Len(t) = Len(a) - 1
                               /\ \A i \in 1 .. Len(t) : t[i] = a[i + 1]
    BY HeadTailProperties
  <1>7. /\ t \o b \in Seq(Item) /\ Len(t \o b) = Len(t) + Len(b)
        /\ \A i \in 1 .. Len(t) + Len(b) : (t \o b)[i] = IF i <= Len(t) THEN t[i] ELSE b[i - Len(t)]
    BY ConcatProperties
  <1>8. PICK d \in Seq(Item) : d = t \o b
    BY <1>7
  <1>9. PICK e \in Seq(Item) : e = Tail(c)
    BY <1>5
  <1>10. Len(e) = Len(d)
    BY <1>1, <1>2, <1>3, <1>5, <1>6, <1>7, <1>8, <1>9
  <1>11. ASSUME NEW i \in 1 .. Len(e) PROVE e[i] = d[i]
    <2>1. i \in Nat /\ i + 1 \in 1 .. Len(a) + Len(b) /\ i \in 1 .. Len(t) + Len(b)
      BY <1>1, <1>2, <1>3, <1>5, <1>6, <1>9, <1>11
    <2>2. e[i] = IF i + 1 <= Len(a) THEN a[i + 1] ELSE b[i + 1 - Len(a)]
      BY <1>1, <1>2, <1>5, <1>9, <1>11, <2>1
    <2>3. d[i] = IF i <= Len(t) THEN t[i] ELSE b[i - Len(t)]
      BY <1>7, <1>8, <2>1
    <2>4. i + 1 - Len(a) = i - Len(t) /\ (i + 1 <= Len(a) <=> i <= Len(t))
      BY <1>3, <1>6, <2>1
    <2>5. i <= Len(t) => t[i] = a[i + 1]
      BY <1>6, <2>1
    <2>6. QED
      BY <2>2, <2>3, <2>4, <2>5
  <1>12. e = d
    BY <1>10, <1>11, SeqEqual
  <1>13. QED
    BY <1>2, <1>4, <1>6, <1>8, <1>9, <1>12

(* Adding an item behind the last sequence that is not empty adds it at    *)
(* the end of them all.                                                    *)
LEMMA FlattenAppend ==
    ASSUME NEW N \in Nat \ {0}, NEW q \in [1 .. N -> Seq(Item)], NEW r \in [1 .. N -> Seq(Item)],
           NEW w \in 1 .. N, NEW x \in Item,
           r[w] = Append(q[w], x), \A i \in 1 .. N : i # w => r[i] = q[i],
           \A i \in 1 .. N : w < i => q[i] = <<>>
    PROVE  FlattenSeq(q) \in Seq(Item) /\ FlattenSeq(r) = Append(FlattenSeq(q), x)
  <1>1. PICK g : Unrolled(q, g, N) /\ FlattenSeq(q) = g[N]
    BY FlattenUnrolls
  <1>2. PICK h : Unrolled(r, h, N) /\ FlattenSeq(r) = h[N]
    BY FlattenUnrolls
  <1>3. \A i \in 1 .. N : g[i] \in Seq(Item) /\ g[i] = IF i = 1 THEN q[i] ELSE g[i - 1] \o q[i]
    BY <1>1 DEF Unrolled
  <1>4. \A i \in 1 .. N : h[i] \in Seq(Item) /\ h[i] = IF i = 1 THEN r[i] ELSE h[i - 1] \o r[i]
    BY <1>2 DEF Unrolled
  <1>5. r[w] = Append(q[w], x) /\ \A i \in 1 .. N : i # w => r[i] = q[i]
    OBVIOUS
  <1> DEFINE Holds(n) == IF n < w THEN h[n] = g[n] ELSE h[n] = Append(g[n], x)
             P == {n \in Nat : n \in 1 .. N => Holds(n)}
  <1>6. ASSUME NEW n \in P PROVE n + 1 \in P
    <2> DEFINE m == n + 1
    <2>1. SUFFICES ASSUME m \in 1 .. N PROVE Holds(m)
      BY <1>6
    <2>2. n \in Nat /\ m - 1 = n /\ m \in Nat /\ (m # 1 => n \in 1 .. N) /\ w \in Nat /\ n < m
          /\ (m < w => n < w) /\ (m = w => n < w) /\ (w < m => ~(n < w))
      BY <1>6, <2>1
    <2>3. m # 1 => Holds(n)
      BY <1>6, <2>2
    <2> HIDE DEF m
    <2>4. q[m] \in Seq(Item) /\ q[w] \in Seq(Item)
      BY <2>1
    <2>5. g[m] = IF m = 1 THEN q[m] ELSE g[n] \o q[m]
      BY <1>3, <2>1, <2>2
    <2>6. h[m] = IF m = 1 THEN r[m] ELSE h[n] \o r[m]
      BY <1>4, <2>1, <2>2
    <2>7. m # 1 => g[n] \in Seq(Item)
      BY <1>3, <2>2
    <2>8. CASE m < w
      <3>1. r[m] = q[m]
        BY <1>5, <2>1, <2>2, <2>8
      <3>2. QED
        BY <2>2, <2>3, <2>5, <2>6, <2>8, <3>1
    <2>9. CASE m = w
      <3>1. m # 1 => h[n] = g[n]
        BY <2>2, <2>3, <2>9
      <3>2. m # 1 => g[n] \o Append(q[m], x) = Append(g[n] \o q[m], x)
        BY <2>4, <2>7, AppendConcat
      <3>3. h[m] = Append(g[m], x)
        BY <1>5, <2>5, <2>6, <2>9, <3>1, <3>2
      <3>4. QED
        BY <2>2, <2>9, <3>3
    <2>10. CASE w < m
      <3>1. m # 1 /\ r[m] = <<>> /\ q[m] = <<>>
        BY <1>5, <2>1, <2>2, <2>10
      <3>2. h[n] = Append(g[n], x) /\ g[n] \in Seq(Item) /\ h[n] \in Seq(Item)
        BY <1>4, <2>2, <2>3, <2>7, <2>10, <3>1
      <3>3. h[m] = h[n] /\ g[m] = g[n]
        BY <2>5, <2>6, <3>1, <3>2, ConcatEmptySeq
      <3>4. QED
        BY <2>2, <2>10, <3>2, <3>3
    <2>11. QED
      BY <2>2, <2>8, <2>9, <2>10
  <1>7. 0 \in P /\ P \in SUBSET Nat
    OBVIOUS
  <1> HIDE DEF P
  <1>8. P = Nat
    BY <1>6, <1>7, Induction
  <1>9. N \in P /\ N \in 1 .. N /\ ~(N < w)
    BY <1>8
  <1>10. h[N] = Append(g[N], x)
    BY <1>9 DEF P
  <1>11. QED
    BY <1>1, <1>2, <1>3, <1>9, <1>10

(* Taking the head of the first sequence that is not empty takes it off    *)
(* the front of them all.                                                  *)
LEMMA FlattenTail ==
    ASSUME NEW N \in Nat \ {0}, NEW q \in [1 .. N -> Seq(Item)], NEW r \in [1 .. N -> Seq(Item)],
           NEW w \in 1 .. N, q[w] # <<>>, r = [q EXCEPT ![w] = Tail(q[w])],
           \A i \in 1 .. N : i < w => q[i] = <<>>
    PROVE  /\ FlattenSeq(q) \in Seq(Item) /\ FlattenSeq(q) # <<>>
           /\ Head(FlattenSeq(q)) = Head(q[w])
           /\ FlattenSeq(r) = Tail(FlattenSeq(q))
  <1>1. PICK g : Unrolled(q, g, N) /\ FlattenSeq(q) = g[N]
    BY FlattenUnrolls
  <1>2. PICK h : Unrolled(r, h, N) /\ FlattenSeq(r) = h[N]
    BY FlattenUnrolls
  <1>3. \A i \in 1 .. N : g[i] \in Seq(Item) /\ g[i] = IF i = 1 THEN q[i] ELSE g[i - 1] \o q[i]
    BY <1>1 DEF Unrolled
  <1>4. \A i \in 1 .. N : h[i] \in Seq(Item) /\ h[i] = IF i = 1 THEN r[i] ELSE h[i - 1] \o r[i]
    BY <1>2 DEF Unrolled
  <1>5. r[w] = Tail(q[w]) /\ \A i \in 1 .. N : i # w => r[i] = q[i]
    OBVIOUS
  <1> DEFINE Holds(n) == IF n < w THEN g[n] = <<>> /\ h[n] = <<>>
                         ELSE g[n] # <<>> /\ Head(g[n]) = Head(q[w]) /\ h[n] = Tail(g[n])
             P == {n \in Nat : n \in 1 .. N => Holds(n)}
  <1>6. ASSUME NEW n \in P PROVE n + 1 \in P
    <2> DEFINE m == n + 1
    <2>1. SUFFICES ASSUME m \in 1 .. N PROVE Holds(m)
      BY <1>6
    <2>2. n \in Nat /\ m - 1 = n /\ m \in Nat /\ (m # 1 => n \in 1 .. N) /\ w \in Nat /\ n < m
          /\ (m < w => n < w) /\ (m = w => n < w) /\ (w < m => ~(n < w))
      BY <1>6, <2>1
    <2>3. m # 1 => Holds(n)
      BY <1>6, <2>2
    <2> HIDE DEF m
    <2>4. q[m] \in Seq(Item) /\ q[w] \in Seq(Item) /\ r[m] \in Seq(Item) /\ Tail(q[w]) \in Seq(Item)
      BY <2>1
    <2>5. g[m] = IF m = 1 THEN q[m] ELSE g[n] \o q[m]
      BY <1>3, <2>1, <2>2
    <2>6. h[m] = IF m = 1 THEN r[m] ELSE h[n] \o r[m]
      BY <1>4, <2>1, <2>2
    <2>7. m # 1 => g[n] \in Seq(Item)
      BY <1>3, <2>2
    <2>8. CASE m < w
      <3>1. r[m] = <<>> /\ q[m] = <<>>
        BY <1>5, <2>1, <2>2, <2>8
      <3>2. <<>> \o <<>> = <<>>
        BY ConcatEmptySeq, EmptySeq
      <3>3. QED
        BY <2>2, <2>3, <2>5, <2>6, <2>8, <3>1, <3>2
    <2>9. CASE m = w
      <3>1. m # 1 => h[n] = <<>> /\ g[n] = <<>>
        BY <2>2, <2>3, <2>9
      <3>2. <<>> \o q[m] = q[m] /\ <<>> \o r[m] = r[m]
        BY <2>4, ConcatEmptySeq
      <3>3. g[m] = q[m] /\ h[m] = r[m]
        BY <2>5, <2>6, <3>1, <3>2
      <3>4. QED
        BY <1>5, <2>2, <2>9, <3>3
    <2>10. CASE w < m
      <3>1. m # 1 /\ r[m] = q[m]
        BY <1>5, <2>1, <2>2, <2>10
      <3>2. g[n] \in Seq(Item) /\ g[n] # <<>> /\ Head(g[n]) = Head(q[w]) /\ h[n] = Tail(g[n])
        BY <2>2, <2>3, <2>7, <2>10, <3>1
      <3>3. /\ g[n] \o q[m] # <<>> /\ Head(g[n] \o q[m]) = Head(g[n])
            /\ Tail(g[n] \o q[m]) = Tail(g[n]) \o q[m]
        BY <2>4, <3>2, HeadConcat
      <3>4. g[m] # <<>> /\ Head(g[m]) = Head(q[w]) /\ h[m] = Tail(g[m])
        BY <2>5, <2>6, <3>1, <3>2, <3>3
      <3>5. QED
        BY <2>2, <2>10, <3>4
    <2>11. QED
      BY <2>2, <2>8, <2>9, <2>10
  <1>7. 0 \in P /\ P \in SUBSET Nat
    OBVIOUS
  <1> HIDE DEF P
  <1>8. P = Nat
    BY <1>6, <1>7, Induction
  <1>9. N \in P /\ N \in 1 .. N /\ ~(N < w)
    BY <1>8
  <1>10. g[N] # <<>> /\ Head(g[N]) = Head(q[w]) /\ h[N] = Tail(g[N])
    BY <1>9 DEF P
  <1>11. QED
    BY <1>1, <1>2, <1>3, <1>9, <1>10

----------------------------------------------------------------------------
(* The items of the buffer, as one queue.                                  *)

(* A row of buckets as the sequence of sequences FlattenSeq takes.         *)
Chain(row) == [i \in 1 .. FIFO_BUCKET_COUNT |-> row[i - 1]]

(* Position i of the chain is bucket i - 1.                                *)
LEMMA ChainRow ==
    ASSUME NEW row \in [Bucket -> Seq(Item)]
    PROVE  /\ Chain(row) \in [1 .. FIFO_BUCKET_COUNT -> Seq(Item)]
           /\ \A w \in Bucket : w + 1 \in 1 .. FIFO_BUCKET_COUNT /\ Chain(row)[w + 1] = row[w]
           /\ \A i \in 1 .. FIFO_BUCKET_COUNT : i - 1 \in Bucket /\ Chain(row)[i] = row[i - 1]
  <1>1. \A i \in 1 .. FIFO_BUCKET_COUNT : i - 1 \in Bucket /\ Chain(row)[i] = row[i - 1]
    BY BucketCountAssumption DEF Bucket, Chain
  <1>2. \A w \in Bucket : w + 1 \in 1 .. FIFO_BUCKET_COUNT /\ (w + 1) - 1 = w
    BY BucketCountAssumption DEF Bucket
  <1>3. Chain(row) \in [1 .. FIFO_BUCKET_COUNT -> Seq(Item)]
    BY <1>1 DEF Chain
  <1>4. \A w \in Bucket : Chain(row)[w + 1] = row[w]
    BY <1>1, <1>2
  <1>5. QED
    BY <1>1, <1>2, <1>3, <1>4

(* Writing a bucket writes its position in the chain.                      *)
LEMMA ChainChanged ==
    ASSUME NEW row \in [Bucket -> Seq(Item)], NEW w \in Bucket, NEW e \in Seq(Item)
    PROVE  Chain([row EXCEPT ![w] = e]) = [Chain(row) EXCEPT ![w + 1] = e]
  <1>1. PICK new \in [Bucket -> Seq(Item)] : new = [row EXCEPT ![w] = e]
    OBVIOUS
  <1>2. PICK c \in [1 .. FIFO_BUCKET_COUNT -> Seq(Item)] :
          c = Chain(row) /\ \A i \in 1 .. FIFO_BUCKET_COUNT : c[i] = row[i - 1]
    BY ChainRow
  <1>3. PICK d \in [1 .. FIFO_BUCKET_COUNT -> Seq(Item)] :
          d = Chain(new) /\ \A i \in 1 .. FIFO_BUCKET_COUNT : d[i] = new[i - 1]
    BY ChainRow
  <1>4. w + 1 \in 1 .. FIFO_BUCKET_COUNT /\ w \in Nat
    BY BucketCountAssumption DEF Bucket
  <1>5. ASSUME NEW i \in 1 .. FIFO_BUCKET_COUNT PROVE d[i] = [c EXCEPT ![w + 1] = e][i]
    <2>1. i - 1 \in Bucket /\ (i - 1 = w <=> i = w + 1)
      BY <1>4, BucketCountAssumption DEF Bucket
    <2>2. d[i] = IF i - 1 = w THEN e ELSE row[i - 1]
      BY <1>1, <1>3, <2>1
    <2>3. [c EXCEPT ![w + 1] = e][i] = IF i = w + 1 THEN e ELSE c[i]
      BY <1>2
    <2>4. QED
      BY <1>2, <2>1, <2>2, <2>3
  <1>6. [c EXCEPT ![w + 1] = e] \in [1 .. FIFO_BUCKET_COUNT -> Seq(Item)]
    BY <1>2, <1>4
  <1>7. d = [c EXCEPT ![w + 1] = e]
    BY <1>3, <1>5, <1>6
  <1>8. QED
    BY <1>1, <1>2, <1>3, <1>7

(* A write to the last bucket in use, or to one above it, adds to the end. *)
LEMMA PendingAppend ==
    ASSUME NEW row \in [Bucket -> Seq(Item)], NEW w \in Bucket, NEW x \in Item,
           \A i \in Bucket : w < i => row[i] = <<>>
    PROVE  /\ FlattenSeq(Chain(row)) \in Seq(Item)
           /\ FlattenSeq(Chain([row EXCEPT ![w] = Append(row[w], x)]))
                = Append(FlattenSeq(Chain(row)), x)
  <1>1. PICK N \in Nat \ {0} : N = FIFO_BUCKET_COUNT
    BY BucketCountAssumption
  <1>2. PICK q \in [1 .. N -> Seq(Item)] : q = Chain(row)
    BY <1>1, ChainRow
  <1>3. PICK v \in 1 .. N : v = w + 1 /\ q[v] = row[w]
    BY <1>1, <1>2, ChainRow
  <1>4. PICK e \in Seq(Item) : e = Append(row[w], x)
    <2>1. row[w] \in Seq(Item)
      OBVIOUS
    <2>2. Append(row[w], x) \in Seq(Item)
      BY <2>1, AppendProperties
    <2>3. QED
      BY <2>2
  <1>5. PICK r \in [1 .. N -> Seq(Item)] : r = [q EXCEPT ![v] = e]
    OBVIOUS
  <1>6. Chain([row EXCEPT ![w] = e]) = r
    BY <1>1, <1>2, <1>3, <1>5, ChainChanged
  <1>7. r[v] = Append(q[v], x) /\ \A i \in 1 .. N : i # v => r[i] = q[i]
    BY <1>3, <1>4, <1>5
  <1>8. ASSUME NEW i \in 1 .. N, v < i PROVE q[i] = <<>>
    <2>1. i - 1 \in Bucket /\ q[i] = row[i - 1]
      BY <1>1, <1>2, ChainRow
    <2>2. w < i - 1
      BY <1>3, <1>8, BucketInNat
    <2>3. QED
      BY <2>1, <2>2
  <1>9. FlattenSeq(q) \in Seq(Item) /\ FlattenSeq(r) = Append(FlattenSeq(q), x)
    BY <1>7, <1>8, FlattenAppend
  <1>10. QED
    BY <1>2, <1>4, <1>6, <1>9

(* What is taken from the first bucket in use comes off the front.         *)
LEMMA PendingTail ==
    ASSUME NEW row \in [Bucket -> Seq(Item)], NEW w \in Bucket, row[w] # <<>>,
           \A i \in Bucket : i < w => row[i] = <<>>
    PROVE  /\ FlattenSeq(Chain(row)) \in Seq(Item) /\ FlattenSeq(Chain(row)) # <<>>
           /\ Head(FlattenSeq(Chain(row))) = Head(row[w])
           /\ FlattenSeq(Chain([row EXCEPT ![w] = Tail(row[w])])) = Tail(FlattenSeq(Chain(row)))
  <1>1. PICK N \in Nat \ {0} : N = FIFO_BUCKET_COUNT
    BY BucketCountAssumption
  <1>2. PICK q \in [1 .. N -> Seq(Item)] : q = Chain(row)
    BY <1>1, ChainRow
  <1>3. PICK v \in 1 .. N : v = w + 1 /\ q[v] = row[w]
    BY <1>1, <1>2, ChainRow
  <1>4. PICK e \in Seq(Item) : e = Tail(row[w])
    <2>1. row[w] \in Seq(Item)
      OBVIOUS
    <2>2. Tail(row[w]) \in Seq(Item)
      BY <2>1, HeadTailProperties
    <2>3. QED
      BY <2>2
  <1>5. PICK r \in [1 .. N -> Seq(Item)] : r = [q EXCEPT ![v] = e]
    OBVIOUS
  <1>6. Chain([row EXCEPT ![w] = e]) = r
    BY <1>1, <1>2, <1>3, <1>5, ChainChanged
  <1>7. r = [q EXCEPT ![v] = Tail(q[v])] /\ q[v] # <<>>
    BY <1>3, <1>4, <1>5
  <1>8. ASSUME NEW i \in 1 .. N, i < v PROVE q[i] = <<>>
    <2>1. i - 1 \in Bucket /\ q[i] = row[i - 1]
      BY <1>1, <1>2, ChainRow
    <2>2. i - 1 < w
      BY <1>3, <1>8, BucketInNat
    <2>3. QED
      BY <2>1, <2>2
  <1>9. /\ FlattenSeq(q) \in Seq(Item) /\ FlattenSeq(q) # <<>>
        /\ Head(FlattenSeq(q)) = Head(q[v]) /\ FlattenSeq(r) = Tail(FlattenSeq(q))
    BY <1>7, <1>8, FlattenTail, ZenonT(60)
  <1>10. QED
    BY <1>2, <1>3, <1>4, <1>6, <1>9

(* Nothing is stored at the start.                                         *)
LEMMA PendingEmpty == Init => Pending = <<>>
  <1> SUFFICES ASSUME Init PROVE Pending = <<>>
    OBVIOUS
  <1>1. PICK N \in Nat \ {0} : N = FIFO_BUCKET_COUNT
    BY BucketCountAssumption
  <1>2. buckets \in [Bucket -> Seq(Item)] /\ \A w \in Bucket : buckets[w] = <<>>
    BY DEF Init
  <1>3. PICK q \in [1 .. N -> Seq(Item)] : q = Chain(buckets) /\ \A i \in 1 .. N : q[i] = <<>>
    BY <1>1, <1>2, ChainRow, SMTT(30)
  <1>4. PICK g : Unrolled(q, g, N) /\ FlattenSeq(q) = g[N]
    BY <1>1, <1>3, FlattenUnrolls
  <1> DEFINE P == {n \in Nat : n \in 1 .. N => g[n] = <<>>}
  <1>5. ASSUME NEW n \in P PROVE n + 1 \in P
    <2> DEFINE m == n + 1
    <2>1. SUFFICES ASSUME m \in 1 .. N PROVE g[m] = <<>>
      BY <1>5
    <2>2. n \in Nat /\ m - 1 = n /\ (m # 1 => n \in 1 .. N)
      BY <1>1, <1>5, <2>1
    <2>3. m # 1 => g[n] = <<>>
      BY <1>5, <2>2
    <2> HIDE DEF m
    <2>4. g[m] = IF m = 1 THEN q[m] ELSE g[n] \o q[m]
      BY <1>4, <2>1, <2>2 DEF Unrolled
    <2>5. <<>> \o <<>> = <<>>
      BY ConcatEmptySeq, EmptySeq
    <2>6. QED
      BY <1>3, <2>1, <2>3, <2>4, <2>5
  <1>6. 0 \in P /\ P \in SUBSET Nat
    OBVIOUS
  <1> HIDE DEF P
  <1>7. P = Nat
    BY <1>5, <1>6, Induction
  <1>8. N \in P /\ N \in 1 .. N
    BY <1>1, <1>7
  <1>9. g[N] = <<>>
    BY <1>8 DEF P
  <1>10. QED
    BY <1>1, <1>3, <1>4, <1>9 DEF Pending, Chain

(* How a step changes the queue.                                           *)
LEMMA QueueSteps ==
    ASSUME TypeOK, ArrivalOrder, [Next]_vars
    PROVE  /\ UNCHANGED buckets => Pending' = Pending
           /\ AppendInBucket \/ AppendInNextBucket =>
                /\ newItems # <<>> /\ Pending \in Seq(Item)
                /\ Pending' = Append(Pending, Head(newItems))
           /\ popFifoItem =>
                /\ Pending \in Seq(Item) /\ Pending # <<>> /\ Pending' = Tail(Pending)
                /\ popped' = Append(popped, Head(Pending))
  <1> USE DEF TypeOK
  <1>1. Pending = FlattenSeq(Chain(buckets)) /\ Pending' = FlattenSeq(Chain(buckets'))
    BY DEF Pending, Chain
  <1>2. UNCHANGED buckets => Pending' = Pending
    BY <1>1
  <1>3. ASSUME AppendInBucket \/ AppendInNextBucket
        PROVE  /\ newItems # <<>> /\ Pending \in Seq(Item)
               /\ Pending' = Append(Pending, Head(newItems))
    <2>1. newItems # <<>> /\ Head(newItems) \in Item
      BY <1>3 DEF AppendInBucket, AppendInNextBucket
    <2>2. \E w \in Bucket : /\ buckets' = [buckets EXCEPT ![w] = Append(buckets[w], Head(newItems))]
                            /\ \A i \in Bucket : w < i => buckets[i] = <<>>
      <3>1. CASE AppendInBucket
        BY <2>1, <3>1 DEF AppendInBucket, ArrivalOrder
      <3>2. CASE AppendInNextBucket
        <4>1. PICK v \in Bucket : v = writeBucketIdx + 1
          BY <3>2, BucketCountAssumption DEF AppendInNextBucket, Bucket
        <4>2. writeBucketIdx < v /\ \A i \in Bucket : v < i => writeBucketIdx < i
          BY <4>1, BucketInNat
        <4>3. buckets[v] = <<>> /\ \A i \in Bucket : v < i => buckets[i] = <<>>
          BY <2>1, <4>2 DEF ArrivalOrder
        <4>4. Append(buckets[v], Head(newItems)) = <<Head(newItems)>>
          BY <2>1, <4>3, AppendIsConcat, ConcatEmptySeq, EmptySeq
        <4>5. QED
          BY <3>2, <4>1, <4>3, <4>4 DEF AppendInNextBucket
      <3>3. QED
        BY <1>3, <3>1, <3>2
    <2>3. PICK w \in Bucket : /\ buckets' = [buckets EXCEPT ![w] = Append(buckets[w], Head(newItems))]
                              /\ \A i \in Bucket : w < i => buckets[i] = <<>>
      BY <2>2
    <2>4. /\ FlattenSeq(Chain(buckets)) \in Seq(Item)
          /\ FlattenSeq(Chain([buckets EXCEPT ![w] = Append(buckets[w], Head(newItems))]))
               = Append(FlattenSeq(Chain(buckets)), Head(newItems))
      BY <2>1, <2>3, PendingAppend
    <2>5. QED
      BY <1>1, <2>1, <2>3, <2>4
  <1>4. ASSUME popFifoItem
        PROVE  /\ Pending \in Seq(Item) /\ Pending # <<>> /\ Pending' = Tail(Pending)
               /\ popped' = Append(popped, Head(Pending))
    <2>1. PICK w \in Occupied :
            /\ \A j \in Occupied : w <= j
            /\ popped' = Append(popped, Head(buckets[w]))
            /\ buckets' = [buckets EXCEPT ![w] = Tail(buckets[w])]
      BY <1>4 DEF popFifoItem
    <2>2. w \in Bucket /\ buckets[w] # <<>>
      BY DEF Occupied
    <2>3. \A i \in Bucket : i < w => buckets[i] = <<>>
      BY <2>1, <2>2, BucketInNat DEF Occupied
    <2>4. /\ FlattenSeq(Chain(buckets)) \in Seq(Item) /\ FlattenSeq(Chain(buckets)) # <<>>
          /\ Head(FlattenSeq(Chain(buckets))) = Head(buckets[w])
          /\ FlattenSeq(Chain([buckets EXCEPT ![w] = Tail(buckets[w])]))
               = Tail(FlattenSeq(Chain(buckets)))
      BY <2>2, <2>3, PendingTail
    <2>5. QED
      BY <1>1, <2>1, <2>4
  <1>5. QED
    BY <1>2, <1>3, <1>4

(* The buckets implement one queue.                                        *)
THEOREM QueueImplemented == Spec => ImplementsQueue
  <1>1. Init => Queue!Init
    BY PendingEmpty DEF Init, Queue!Init
  <1>2. TypeOK /\ ArrivalOrder /\ [Next]_vars => [Queue!Next]_(Queue!vars)
    <2> SUFFICES ASSUME TypeOK, ArrivalOrder, [Next]_vars PROVE [Queue!Next]_(Queue!vars)
      OBVIOUS
    <2>1. CASE UNCHANGED buckets /\ UNCHANGED popped
      BY <2>1, QueueSteps DEF Queue!vars
    <2>2. CASE AppendInBucket \/ AppendInNextBucket
      <3>1. Head(newItems) \in Item /\ UNCHANGED popped
        BY <2>2 DEF AppendInBucket, AppendInNextBucket, TypeOK
      <3>2. Pending' = Append(Pending, Head(newItems)) /\ Pending \in Seq(Item)
        BY <2>2, QueueSteps
      <3>3. Pending' # Pending
        BY <3>1, <3>2, AppendProperties, LenProperties
      <3>4. QED
        BY <3>1, <3>2, <3>3 DEF Queue!Next, Queue!Put
    <2>3. CASE popFifoItem
      BY <2>3, QueueSteps DEF Queue!Next, Queue!Take
    <2>4. QED
      BY <2>1, <2>2, <2>3 DEF Next, BeginAppend, Overflow, vars
  <1>3. QED
    BY <1>1, <1>2, TypeCorrect, ArrivalOrderHolds, PTL DEF Spec, ImplementsQueue, Queue!Spec

----------------------------------------------------------------------------
(* Which items there are, and how many.                                    *)

(* The buffer as a whole is a sequence of items.                           *)
LEMMA ChainTyped ==
    ASSUME NEW row \in [Bucket -> Seq(Item)]
    PROVE  FlattenSeq(Chain(row)) \in Seq(Item)
  <1>1. PICK N \in Nat \ {0} : N = FIFO_BUCKET_COUNT
    BY BucketCountAssumption
  <1>2. PICK q \in [1 .. N -> Seq(Item)] : q = Chain(row)
    BY <1>1, ChainRow
  <1>3. PICK g : Unrolled(q, g, N) /\ FlattenSeq(q) = g[N]
    BY FlattenUnrolls
  <1>4. g[N] \in Seq(Item)
    BY <1>3 DEF Unrolled
  <1>5. QED
    BY <1>2, <1>3, <1>4

(* A sequence names no more items than its length.                         *)
LEMMA CountIds ==
    ASSUME NEW s \in Seq(Item)
    PROVE  IsFiniteSet(Ids(s)) /\ Cardinality(Ids(s)) <= Len(s)
  <1>1. PICK n \in Nat : n = Len(s)
    BY LenProperties
  <1>2. IsFiniteSet(1 .. n) /\ Cardinality(1 .. n) = n
    BY FS_Interval
  <1>3. PICK f : f = [k \in 1 .. n |-> s[k].id]
    OBVIOUS
  <1>4. f \in Surjection(1 .. n, Ids(s))
    BY <1>1, <1>3 DEF Surjection, Ids
  <1>5. QED
    BY <1>1, <1>2, <1>4, FS_Surjection

(* What adding an item does to the ids and to their number.                *)
LEMMA AppendIds ==
    ASSUME NEW s \in Seq(Item), NEW e \in Item
    PROVE  /\ Ids(Append(s, e)) = Ids(s) \union {e.id}
           /\ Len(Append(s, e)) = Len(s) + 1
  <1>1. PICK t \in Seq(Item) : t = Append(s, e)
    BY AppendProperties
  <1>2. /\ Len(t) = Len(s) + 1 /\ Len(s) \in Nat
        /\ \A k \in 1 .. Len(s) : t[k] = s[k]
        /\ t[Len(s) + 1] = e
    BY <1>1, AppendProperties, LenProperties
  <1>3. \A k \in 1 .. Len(t) : k \in 1 .. Len(s) \/ k = Len(s) + 1
    BY <1>2
  <1>4. \A k \in 1 .. Len(s) : k \in 1 .. Len(t)
    BY <1>2
  <1>5. Len(s) + 1 \in 1 .. Len(t)
    BY <1>2
  <1>6. Ids(t) = Ids(s) \union {e.id}
    BY <1>2, <1>3, <1>4, <1>5 DEF Ids
  <1>7. QED
    BY <1>1, <1>2, <1>6

(* What taking the head of a sequence does to them.                        *)
LEMMA TailIds ==
    ASSUME NEW s \in Seq(Item), s # <<>>
    PROVE  /\ Head(s) \in Item /\ Tail(s) \in Seq(Item)
           /\ Ids(s) = {Head(s).id} \union Ids(Tail(s))
           /\ Len(s) = Len(Tail(s)) + 1
  <1>1. /\ Len(s) \in Nat /\ Len(s) >= 1 /\ Head(s) = s[1] /\ Head(s) \in Item
    BY HeadTailProperties
  <1>2. PICK t \in Seq(Item) : /\ t = Tail(s) /\ Len(t) = Len(s) - 1
                               /\ \A k \in 1 .. Len(t) : t[k] = s[k + 1]
    BY HeadTailProperties
  <1>3. \A k \in 1 .. Len(s) : k = 1 \/ (k - 1 \in 1 .. Len(t) /\ (k - 1) + 1 = k)
    BY <1>1, <1>2
  <1>4. \A k \in 1 .. Len(t) : k + 1 \in 1 .. Len(s)
    BY <1>1, <1>2
  <1>5. 1 \in 1 .. Len(s)
    BY <1>1
  <1>6. \A k \in 1 .. Len(s) : s[k].id \in {s[1].id} \union Ids(t)
    <2> SUFFICES ASSUME NEW k \in 1 .. Len(s), k # 1 PROVE s[k].id \in Ids(t)
      OBVIOUS
    <2>1. PICK j \in 1 .. Len(t) : j + 1 = k
      BY <1>3
    <2>2. QED
      BY <1>2, <2>1 DEF Ids
  <1>7. \A k \in 1 .. Len(t) : t[k].id \in Ids(s)
    BY <1>2, <1>4 DEF Ids
  <1>8. s[1].id \in Ids(s)
    BY <1>5 DEF Ids
  <1>9. Ids(s) \subseteq {s[1].id} \union Ids(t)
    BY <1>6 DEF Ids
  <1>10. Ids(t) \subseteq Ids(s)
    BY <1>7 DEF Ids
  <1>11. QED
    BY <1>1, <1>2, <1>8, <1>9, <1>10

(* An empty sequence names no item.                                        *)
LEMMA NoIds == Ids(<<>>) = {} /\ Len(<<>>) = 0
  BY DEF Ids

(* When the items in three sequences and a set make up 1 .. n and their    *)
(* numbers add up to n, the set and the last sequence are disjoint.        *)
LEMMA NothingTwice ==
    ASSUME NEW n \in Nat, NEW s \in Seq(Item), NEW t \in Seq(Item), NEW u \in Seq(Item),
           NEW D, Ids(s) \union Ids(t) \union Ids(u) \union D = 1 .. n,
           Len(s) + Len(t) + Len(u) + Cardinality(D) = n
    PROVE  Cardinality(D \union Ids(u)) = Cardinality(D) + Len(u)
  <1>1. IsFiniteSet(1 .. n) /\ Cardinality(1 .. n) = n
    BY FS_Interval
  <1>2. IsFiniteSet(D)
    BY <1>1, FS_Subset
  <1>3. /\ IsFiniteSet(Ids(s)) /\ IsFiniteSet(Ids(t)) /\ IsFiniteSet(Ids(u))
        /\ Cardinality(Ids(s)) <= Len(s) /\ Cardinality(Ids(t)) <= Len(t)
        /\ Cardinality(Ids(u)) <= Len(u)
    BY CountIds
  <1>4. ASSUME NEW A, NEW B, IsFiniteSet(A), IsFiniteSet(B)
        PROVE  /\ IsFiniteSet(A \union B) /\ Cardinality(A) \in Nat /\ Cardinality(B) \in Nat
               /\ Cardinality(A \union B) \in Nat
               /\ Cardinality(A \union B) <= Cardinality(A) + Cardinality(B)
    <2>1. IsFiniteSet(A \cap B)
      BY <1>4, FS_Subset
    <2>2. Cardinality(A \cap B) \in Nat /\ Cardinality(A) \in Nat /\ Cardinality(B) \in Nat
      BY <1>4, <2>1, FS_CardinalityType
    <2>3. IsFiniteSet(A \union B)
          /\ Cardinality(A \union B) = Cardinality(A) + Cardinality(B) - Cardinality(A \cap B)
      BY <1>4, FS_Union
    <2>4. Cardinality(A \union B) \in Nat
      BY <2>3, FS_CardinalityType
    <2>5. QED
      BY <2>2, <2>3, <2>4
  <1> DEFINE E == D \union Ids(u)
             F == Ids(s) \union Ids(t)
  <1>5. /\ IsFiniteSet(E) /\ Cardinality(E) \in Nat /\ Cardinality(D) \in Nat
        /\ Cardinality(Ids(u)) \in Nat
        /\ Cardinality(E) <= Cardinality(D) + Cardinality(Ids(u))
    BY <1>2, <1>3, <1>4
  <1>6. /\ IsFiniteSet(F) /\ Cardinality(F) \in Nat
        /\ Cardinality(Ids(s)) \in Nat /\ Cardinality(Ids(t)) \in Nat
        /\ Cardinality(F) <= Cardinality(Ids(s)) + Cardinality(Ids(t))
    BY <1>3, <1>4
  <1>7. F \union E = 1 .. n
    OBVIOUS
  <1> HIDE DEF E, F
  <1>8. n <= Cardinality(F) + Cardinality(E)
    BY <1>1, <1>4, <1>5, <1>6, <1>7
  <1>9. Len(s) \in Nat /\ Len(t) \in Nat /\ Len(u) \in Nat
    BY LenProperties
  <1>10. Cardinality(E) = Cardinality(D) + Len(u)
    <2>1. PICK a \in Nat, b \in Nat, c \in Nat, d \in Nat :
            a = Len(s) /\ b = Len(t) /\ c = Len(u) /\ d = Cardinality(D)
      BY <1>5, <1>9
    <2>2. PICK e \in Nat, f \in Nat, k \in Nat, l \in Nat, m \in Nat :
            e = Cardinality(E) /\ f = Cardinality(F) /\ k = Cardinality(Ids(s))
            /\ l = Cardinality(Ids(t)) /\ m = Cardinality(Ids(u))
      BY <1>5, <1>6
    <2>3. /\ a + b + c + d = n /\ k <= a /\ l <= b /\ m <= c
          /\ e <= d + m /\ f <= k + l /\ n <= f + e
      BY <1>3, <1>5, <1>6, <1>8, <2>1, <2>2
    <2>4. e = d + c
      BY <2>3
    <2>5. QED
      BY <2>1, <2>2, <2>4
  <1>11. QED
    BY <1>10 DEF E

(* An item is lost by nothing but an overflow: any other one handed to the *)
(* buffer is in one place, waiting to be written, in one bucket or popped. *)
(* Neither a rotation to the next bucket nor a pop loses or repeats one.   *)
THEOREM OnlyOverflowLoses == Spec => []LostOnlyByOverflow
  <1>1. Init => LostOnlyByOverflow
    <2> SUFFICES ASSUME Init PROVE LostOnlyByOverflow
      OBVIOUS
    <2>1. popped = <<>> /\ Pending = <<>> /\ newItems = <<>> /\ dropped = {} /\ arrived = 0
      BY PendingEmpty DEF Init
    <2>2. Cardinality({}) = 0
      BY FS_EmptySet
    <2>3. QED
      BY <2>1, <2>2, NoIds DEF LostOnlyByOverflow
  <1>2. TypeOK /\ ArrivalOrder /\ LostOnlyByOverflow /\ TypeOK' /\ [Next]_vars => LostOnlyByOverflow'
    <2> SUFFICES ASSUME TypeOK, ArrivalOrder, LostOnlyByOverflow, TypeOK', [Next]_vars
                 PROVE  LostOnlyByOverflow'
      OBVIOUS
    <2>1. /\ popped \in Seq(Item) /\ Pending \in Seq(Item) /\ newItems \in Seq(Item)
          /\ popped' \in Seq(Item) /\ Pending' \in Seq(Item) /\ newItems' \in Seq(Item)
          /\ arrived \in Nat /\ arrived' \in Nat
      <3>1. buckets \in [Bucket -> Seq(Item)] /\ buckets' \in [Bucket -> Seq(Item)]
        BY DEF TypeOK
      <3>2. FlattenSeq(Chain(buckets)) \in Seq(Item) /\ FlattenSeq(Chain(buckets')) \in Seq(Item)
        BY <3>1, ChainTyped
      <3>3. Pending \in Seq(Item) /\ Pending' \in Seq(Item)
        BY <3>2 DEF Pending, Chain
      <3>4. QED
        BY <3>3 DEF TypeOK
    <2>2. /\ Len(popped) \in Nat /\ Len(Pending) \in Nat /\ Len(newItems) \in Nat
          /\ Len(popped') \in Nat /\ Len(Pending') \in Nat /\ Len(newItems') \in Nat
      BY <2>1, LenProperties
    <2>3. /\ Ids(popped) \union Ids(Pending) \union Ids(newItems) \union dropped = 1 .. arrived
          /\ Len(popped) + Len(Pending) + Len(newItems) + Cardinality(dropped) = arrived
      BY DEF LostOnlyByOverflow
    <2>4. Cardinality(dropped) \in Nat
      <3>1. IsFiniteSet(1 .. arrived)
        BY <2>1, FS_Interval
      <3>2. IsFiniteSet(dropped)
        BY <2>3, <3>1, FS_Subset
      <3>3. QED
        BY <3>2, FS_CardinalityType
    <2>5. SUFFICES
            /\ Ids(popped') \union Ids(Pending') \union Ids(newItems') \union dropped' = 1 .. arrived'
            /\ Len(popped') + Len(Pending') + Len(newItems') + Cardinality(dropped') = arrived'
      BY DEF LostOnlyByOverflow, Ids
    <2>6. ASSUME NEW sizes \in SeqOf(ItemBytes, MAX_DRAIN_PER_TURN), BeginAppend(sizes)
          PROVE  /\ Ids(popped') \union Ids(Pending') \union Ids(newItems') \union dropped' = 1 .. arrived'
                 /\ Len(popped') + Len(Pending') + Len(newItems') + Cardinality(dropped') = arrived'
      <3>1. PICK m \in Nat : m = Len(sizes)
        <4>1. PICK m \in 0 .. MAX_DRAIN_PER_TURN : sizes \in [1 .. m -> ItemBytes]
          BY DEF SeqOf
        <4>2. m \in Nat
          BY <4>1, BoundsAssumption
        <4>3. sizes \in Seq(ItemBytes)
          BY <4>1, <4>2
        <4>4. QED
          BY <4>3, LenProperties
      <3>2. /\ newItems = <<>> /\ popped' = popped /\ dropped' = dropped
            /\ UNCHANGED buckets /\ arrived' = arrived + m
        BY <2>6, <3>1 DEF BeginAppend
      <3>3. newItems' = [k \in 1 .. m |-> [id |-> arrived + k, bytes |-> sizes[k]]]
        BY <2>6, <3>1 DEF BeginAppend
      <3>4. Len(newItems') = m /\ \A k \in 1 .. m : newItems'[k].id = arrived + k
        BY <3>3
      <3>5. Ids(newItems') = {arrived + k : k \in 1 .. m}
        BY <3>4 DEF Ids
      <3>6. 1 .. (arrived + m) = (1 .. arrived) \union {arrived + k : k \in 1 .. m}
        <4>1. ASSUME NEW i \in 1 .. (arrived + m), i \notin 1 .. arrived
              PROVE  i \in {arrived + k : k \in 1 .. m}
          <5>1. i - arrived \in 1 .. m /\ arrived + (i - arrived) = i
            BY <2>1, <4>1
          <5>2. QED
            BY <5>1
        <4>2. \A k \in 1 .. m : arrived + k \in 1 .. (arrived + m)
          BY <2>1
        <4>3. \A i \in 1 .. arrived : i \in 1 .. (arrived + m)
          BY <2>1
        <4>4. QED
          BY <4>1, <4>2, <4>3
      <3>7. Pending' = Pending
        BY <3>2, QueueSteps
      <3>8. Ids(newItems) = {} /\ Len(newItems) = 0
        BY <3>2, NoIds
      <3>9. Ids(popped') \union Ids(Pending') \union Ids(newItems') \union dropped' = 1 .. arrived'
        BY <2>3, <3>2, <3>5, <3>6, <3>7, <3>8
      <3>10. Len(popped') + Len(Pending') + Len(newItems') + Cardinality(dropped') = arrived'
        <4>1. PICK a \in Nat, b \in Nat, d \in Nat, n \in Nat :
                a = Len(popped) /\ b = Len(Pending) /\ d = Cardinality(dropped) /\ n = arrived
          BY <2>1, <2>2, <2>4
        <4>2. a + b + 0 + d = n
          BY <2>3, <3>8, <4>1
        <4>3. a + b + m + d = n + m
          BY <4>2
        <4>4. QED
          BY <3>2, <3>4, <3>7, <4>1, <4>3
      <3>11. QED
        BY <3>9, <3>10
    <2>7. CASE AppendInBucket \/ AppendInNextBucket
      <3>1. /\ popped' = popped /\ dropped' = dropped /\ arrived' = arrived
            /\ newItems' = Tail(newItems)
        BY <2>7 DEF AppendInBucket, AppendInNextBucket
      <3>2. newItems # <<>> /\ Pending' = Append(Pending, Head(newItems))
        BY <2>7, QueueSteps
      <3>3. /\ Head(newItems) \in Item /\ Len(newItems) = Len(newItems') + 1
            /\ Ids(newItems) = {Head(newItems).id} \union Ids(newItems')
        BY <2>1, <3>1, <3>2, TailIds
      <3>4. /\ Ids(Pending') = Ids(Pending) \union {Head(newItems).id}
            /\ Len(Pending') = Len(Pending) + 1
        BY <2>1, <3>2, <3>3, AppendIds
      <3>5. Ids(popped') \union Ids(Pending') \union Ids(newItems') \union dropped' = 1 .. arrived'
        BY <2>3, <3>1, <3>3, <3>4
      <3>6. Len(popped') + Len(Pending') + Len(newItems') + Cardinality(dropped') = arrived'
        BY <2>1, <2>2, <2>3, <2>4, <3>1, <3>3, <3>4
      <3>7. QED
        BY <3>5, <3>6
    <2>8. CASE Overflow
      <3>1. /\ popped' = popped /\ arrived' = arrived /\ newItems' = <<>> /\ UNCHANGED buckets
            /\ dropped' = dropped \union Ids(newItems)
        BY <2>8 DEF Overflow, Ids
      <3>2. Pending' = Pending
        BY <3>1, QueueSteps
      <3>3. Cardinality(dropped') = Cardinality(dropped) + Len(newItems)
        <4>1. PICK s \in Seq(Item), t \in Seq(Item), u \in Seq(Item), n \in Nat :
                s = popped /\ t = Pending /\ u = newItems /\ n = arrived
          BY <2>1
        <4>2. PICK D : D = dropped
          OBVIOUS
        <4>3. /\ Ids(s) \union Ids(t) \union Ids(u) \union D = 1 .. n
              /\ Len(s) + Len(t) + Len(u) + Cardinality(D) = n
          BY <2>3, <4>1, <4>2
        <4>4. Cardinality(D \union Ids(u)) = Cardinality(D) + Len(u)
          BY <4>3, NothingTwice
        <4>5. QED
          BY <3>1, <4>1, <4>2, <4>4
      <3>4. Ids(newItems') = {} /\ Len(newItems') = 0
        BY <3>1, NoIds
      <3>5. Ids(popped') \union Ids(Pending') \union Ids(newItems') \union dropped' = 1 .. arrived'
        BY <2>3, <3>1, <3>2, <3>4
      <3>6. Len(popped') + Len(Pending') + Len(newItems') + Cardinality(dropped') = arrived'
        BY <2>1, <2>2, <2>3, <2>4, <3>1, <3>2, <3>3, <3>4
      <3>7. QED
        BY <3>5, <3>6
    <2>9. CASE popFifoItem
      <3>1. dropped' = dropped /\ arrived' = arrived /\ newItems' = newItems
        BY <2>9 DEF popFifoItem
      <3>2. /\ Pending # <<>> /\ Pending' = Tail(Pending)
            /\ popped' = Append(popped, Head(Pending))
        BY <2>9, QueueSteps
      <3>3. /\ Head(Pending) \in Item /\ Len(Pending) = Len(Pending') + 1
            /\ Ids(Pending) = {Head(Pending).id} \union Ids(Pending')
        BY <2>1, <3>2, TailIds
      <3>4. /\ Ids(popped') = Ids(popped) \union {Head(Pending).id}
            /\ Len(popped') = Len(popped) + 1
        BY <2>1, <3>2, <3>3, AppendIds
      <3>5. Ids(popped') \union Ids(Pending') \union Ids(newItems') \union dropped' = 1 .. arrived'
        BY <2>3, <3>1, <3>3, <3>4
      <3>6. Len(popped') + Len(Pending') + Len(newItems') + Cardinality(dropped') = arrived'
        BY <2>1, <2>2, <2>3, <2>4, <3>1, <3>3, <3>4
      <3>7. QED
        BY <3>5, <3>6
    <2>10. CASE UNCHANGED vars
      <3>1. Pending' = Pending
        BY <2>10, QueueSteps DEF vars
      <3>2. popped' = popped /\ newItems' = newItems /\ dropped' = dropped /\ arrived' = arrived
        BY <2>10 DEF vars
      <3>3. QED
        BY <2>3, <3>1, <3>2
    <2>11. QED
      BY <2>6, <2>7, <2>8, <2>9, <2>10 DEF Next
  <1>3. QED
    BY <1>1, <1>2, TypeCorrect, ArrivalOrderHolds, PTL DEF Spec

----------------------------------------------------------------------------
(* The length of a bucket, as a sum over its items.                        *)

(* it is the function FoldLeft defines to add up the items of s at the     *)
(* positions in a set.                                                     *)
Adds(s, N, it) ==
    it = [S \in SUBSET (1 .. N) |->
            IF S = {} THEN 0 ELSE it[S \ {Max(S)}] + s[Max(S)].bytes]

(* The length of a bucket, in terms of that function.                      *)
LEMMA BytesUnfold ==
    ASSUME NEW s \in Seq(Item), NEW N \in Nat, N = Len(s), s # <<>>
    PROVE  BucketBytes(s) = (CHOOSE it : Adds(s, N, it))[1 .. N] + N + 1
  <1>1. DOMAIN s = 1 .. N
    OBVIOUS
  <1>2. FoldLeft(LAMBDA sum, item : sum + item.bytes, 0, s) = (CHOOSE it : Adds(s, N, it))[1 .. N]
    BY <1>1 DEF FoldLeft, MapThenFoldSet, Adds
  <1>3. QED
    BY <1>2 DEF BucketBytes

(* The greatest element of a set of naturals.                              *)
LEMMA MaxIs ==
    ASSUME NEW S \in SUBSET Nat, NEW m \in S, \A y \in S : y <= m
    PROVE  Max(S) = m
  <1>1. \A x \in S : (\A y \in S : x >= y) <=> x = m
    OBVIOUS
  <1>2. QED
    BY <1>1 DEF Max

(* The length of an item is a number.                                      *)
LEMMA BytesNat ==
    ASSUME NEW s \in Seq(Item)
    PROVE  \A k \in 1 .. Len(s) : s[k].bytes \in Nat
  <1>1. \A k \in 1 .. Len(s) : s[k] \in Item
    BY ElementOfSeq
  <1>2. QED
    BY <1>1, SizesAssumption DEF Item

(* The last position of a set of positions, and the rest of it.            *)
LEMMA MaxOf ==
    ASSUME NEW n \in Nat, NEW S \in SUBSET (1 .. n), S # {}
    PROVE  Max(S) \in S /\ \A y \in S : y <= Max(S)
  <1> DEFINE Bounded(k) == \A T \in SUBSET (1 .. k) :
                             T # {} => \E m \in T : \A y \in T : y <= m
             P == {k \in Nat : Bounded(k)}
  <1>1. ASSUME NEW k \in P PROVE k + 1 \in P
    <2>1. k \in Nat /\ Bounded(k)
      BY <1>1
    <2>2. SUFFICES ASSUME NEW T \in SUBSET (1 .. k + 1), T # {}
                   PROVE  \E m \in T : \A y \in T : y <= m
      BY <2>1
    <2>3. CASE k + 1 \in T
      BY <2>1, <2>3
    <2>4. CASE k + 1 \notin T
      <3>1. T \in SUBSET (1 .. k)
        BY <2>1, <2>4
      <3>2. QED
        BY <2>1, <2>2, <3>1
    <2>5. QED
      BY <2>3, <2>4
  <1>2. 0 \in P /\ P \in SUBSET Nat
    <2>1. 1 .. 0 = {}
      OBVIOUS
    <2>2. QED
      BY <2>1
  <1> HIDE DEF P
  <1>3. n \in P
    BY <1>1, <1>2, Induction
  <1>4. PICK m \in S : \A y \in S : y <= m
    BY <1>3 DEF P
  <1>5. S \in SUBSET Nat
    OBVIOUS
  <1>6. Max(S) = m
    BY <1>4, <1>5, MaxIs
  <1>7. QED
    BY <1>4, <1>6

(* There is such a function for the positions up to n.                     *)
Addable(s, n) == \E it \in [SUBSET (1 .. n) -> Nat] : Adds(s, n, it)

(* The recursion behind FoldLeft has a solution.                           *)
LEMMA AddsExists ==
    ASSUME NEW s \in Seq(Item), NEW N \in Nat, N = Len(s)
    PROVE  Addable(s, N)
  <1> DEFINE P == {n \in Nat : n <= N => Addable(s, n)}
  <1>1. 0 \in P
    <2>1. [S \in SUBSET (1 .. 0) |-> 0] \in [SUBSET (1 .. 0) -> Nat]
      OBVIOUS
    <2>2. Adds(s, 0, [S \in SUBSET (1 .. 0) |-> 0])
      <3>1. \A S \in SUBSET (1 .. 0) : S = {}
        OBVIOUS
      <3>2. QED
        BY <3>1 DEF Adds
    <2>3. QED
      BY <2>1, <2>2 DEF Addable
  <1>2. ASSUME NEW n \in P PROVE n + 1 \in P
    <2>1. n \in Nat /\ (n <= N => Addable(s, n))
      BY <1>2
    <2> DEFINE m == n + 1
    <2>2. SUFFICES ASSUME m <= N PROVE Addable(s, m)
      BY <2>1
    <2>3. m \in Nat /\ ~(m \in 1 .. n) /\ m \in 1 .. N
          /\ 1 .. m = (1 .. n) \union {m} /\ \A y \in 1 .. m : y <= m
      BY <2>1, <2>2
    <2>4. PICK g \in [SUBSET (1 .. n) -> Nat] : Adds(s, n, g)
      <3>1. Addable(s, n)
        BY <2>1, <2>2
      <3>2. QED
        BY <3>1 DEF Addable
    <2>5. \A S \in SUBSET (1 .. n) :
            g[S] = IF S = {} THEN 0 ELSE g[S \ {Max(S)}] + s[Max(S)].bytes
      BY <2>4 DEF Adds
    <2>6. PICK b \in Nat : b = s[m].bytes
      BY <2>3, BytesNat
    <2> HIDE DEF m
    <2> DEFINE h == [S \in SUBSET (1 .. m) |-> IF m \in S THEN g[S \ {m}] + b ELSE g[S]]
    <2>7. /\ \A S \in SUBSET (1 .. m) : m \in S => S \ {m} \in SUBSET (1 .. n)
          /\ \A S \in SUBSET (1 .. m) : m \notin S => S \in SUBSET (1 .. n)
      BY <2>3
    <2>8. h \in [SUBSET (1 .. m) -> Nat]
      BY <2>7
    <2>9. \A S \in SUBSET (1 .. m) : h[S] = IF m \in S THEN g[S \ {m}] + b ELSE g[S]
      OBVIOUS
    <2>10. h = [S \in SUBSET (1 .. m) |-> h[S]]
      OBVIOUS
    <2> HIDE DEF h
    <2>11. ASSUME NEW S \in SUBSET (1 .. m)
           PROVE  h[S] = IF S = {} THEN 0 ELSE h[S \ {Max(S)}] + s[Max(S)].bytes
      <3>1. CASE S = {}
        BY <2>5, <2>7, <2>9, <3>1
      <3>2. CASE m \in S
        <4>1. Max(S) = m
          BY <2>3, <3>2, MaxIs
        <4>2. S \ {m} \in SUBSET (1 .. m) /\ m \notin S \ {m}
          OBVIOUS
        <4>3. h[S \ {m}] = g[S \ {m}]
          BY <2>9, <4>2
        <4>4. QED
          BY <2>6, <2>9, <3>2, <4>1, <4>3
      <3>3. CASE S # {} /\ m \notin S
        <4>1. S \in SUBSET (1 .. n)
          BY <2>7, <3>3
        <4>2. S \ {Max(S)} \in SUBSET (1 .. m) /\ m \notin S \ {Max(S)}
          BY <3>3
        <4>3. h[S \ {Max(S)}] = g[S \ {Max(S)}] /\ h[S] = g[S]
          BY <2>9, <3>3, <4>2
        <4>4. QED
          BY <2>5, <3>3, <4>1, <4>3
      <3>4. QED
        BY <3>1, <3>2, <3>3
    <2>12. Adds(s, m, h)
      BY <2>10, <2>11 DEF Adds
    <2>13. QED
      BY <2>8, <2>12 DEF Addable
  <1> HIDE DEF P
  <1>3. N \in P
    <2>1. P \in SUBSET Nat
      BY DEF P
    <2>2. QED
      BY <1>1, <1>2, <2>1, Induction
  <1>4. QED
    BY <1>3 DEF P

(* f[k] is the length of the first k items of s.                           *)
Sums(s, f) ==
    /\ f \in [0 .. Len(s) -> Nat]
    /\ f[0] = 0
    /\ \A k \in 1 .. Len(s) : f[k] = f[k - 1] + s[k].bytes

(* The length of a bucket is the sum of the lengths of its items, and one  *)
(* more for each of them and for the last bracket.                         *)
LEMMA BytesAreSums ==
    ASSUME NEW s \in Seq(Item), s # <<>>
    PROVE  \E f : Sums(s, f) /\ BucketBytes(s) = f[Len(s)] + Len(s) + 1
  <1>1. PICK N \in Nat : N = Len(s)
    BY LenProperties
  <1> DEFINE it == CHOOSE g : Adds(s, N, g)
  <1>2. Adds(s, N, it)
    BY <1>1, AddsExists DEF Addable
  <1>3. BucketBytes(s) = it[1 .. N] + N + 1
    BY <1>1, BytesUnfold
  <1> HIDE DEF it
  <1>4. \A S \in SUBSET (1 .. N) : it[S] = IF S = {} THEN 0 ELSE it[S \ {Max(S)}] + s[Max(S)].bytes
    BY <1>2 DEF Adds
  <1>5. ASSUME NEW k \in 1 .. N PROVE it[1 .. k] = it[1 .. (k - 1)] + s[k].bytes
    <2>1. (1 .. k) \in SUBSET (1 .. N) /\ (1 .. k) # {} /\ (1 .. k) \ {k} = 1 .. (k - 1)
      <3>1. \A i : i \in (1 .. k) \ {k} <=> i \in 1 .. (k - 1)
        OBVIOUS
      <3>2. k \in 1 .. k /\ \A i \in 1 .. k : i \in 1 .. N
        OBVIOUS
      <3>3. QED
        BY <3>1, <3>2
    <2>2. Max(1 .. k) = k
      <3>1. (1 .. k) \in SUBSET Nat /\ k \in 1 .. k /\ \A y \in 1 .. k : y <= k
        OBVIOUS
      <3>2. QED
        BY <3>1, MaxIs
    <2>3. QED
      BY <1>4, <2>1, <2>2
  <1>6. it[1 .. 0] = 0
    <2>1. 1 .. 0 = {} /\ {} \in SUBSET (1 .. N)
      OBVIOUS
    <2>2. QED
      BY <1>4, <2>1
  <1> DEFINE P == {k \in Nat : k <= N => it[1 .. k] \in Nat}
  <1>7. ASSUME NEW k \in P PROVE k + 1 \in P
    <2>1. k \in Nat /\ (k <= N => it[1 .. k] \in Nat)
      BY <1>7
    <2> DEFINE m == k + 1
    <2>2. SUFFICES ASSUME m <= N PROVE it[1 .. m] \in Nat
      BY <2>1
    <2>3. m \in 1 .. N /\ m - 1 = k /\ k <= N
      BY <2>1, <2>2
    <2> HIDE DEF m
    <2>4. it[1 .. m] = it[1 .. k] + s[m].bytes
      BY <1>5, <2>3
    <2>5. s[m].bytes \in Nat
      BY <1>1, <2>3, BytesNat
    <2>6. QED
      BY <2>1, <2>3, <2>4, <2>5
  <1>8. 0 \in P /\ P \in SUBSET Nat
    BY <1>6
  <1> HIDE DEF P
  <1>9. P = Nat
    BY <1>7, <1>8, Induction
  <1>10. \A k \in 0 .. N : it[1 .. k] \in Nat
    <2>1. \A k \in 0 .. N : k \in P /\ k <= N
      BY <1>9
    <2>2. QED
      BY <2>1 DEF P
  <1> DEFINE f == [k \in 0 .. N |-> it[1 .. k]]
  <1>11. \A k \in 0 .. N : f[k] = it[1 .. k]
    OBVIOUS
  <1>12. f \in [0 .. N -> Nat]
    BY <1>10
  <1> HIDE DEF f
  <1>13. f[0] = 0 /\ f[N] = it[1 .. N]
    BY <1>6, <1>11
  <1>14. \A k \in 1 .. N : f[k] = f[k - 1] + s[k].bytes
    <2> SUFFICES ASSUME NEW k \in 1 .. N PROVE f[k] = f[k - 1] + s[k].bytes
      OBVIOUS
    <2>1. k \in 0 .. N /\ k - 1 \in 0 .. N
      OBVIOUS
    <2>2. QED
      BY <1>5, <1>11, <2>1
  <1>15. Sums(s, f)
    BY <1>1, <1>12, <1>13, <1>14 DEF Sums
  <1>16. QED
    BY <1>1, <1>3, <1>13, <1>15

(* A bucket is no longer without its first item.                           *)
LEMMA TailFits ==
    ASSUME NEW s \in Seq(Item), Len(s) > 1, Fits(s)
    PROVE  Fits(Tail(s))
  <1>0. s # <<>> /\ Tail(s) \in Seq(Item)
    BY EmptySeq, HeadTailProperties
  <1>1. PICK t \in Seq(Item) : t = Tail(s)
    BY <1>0
  <1>2. PICK N \in Nat, M \in Nat : N = Len(s) /\ M = Len(t) /\ N = M + 1 /\ N > 1
    BY <1>0, <1>1, HeadTailProperties, LenProperties
  <1>3. \A k \in 1 .. M : t[k] = s[k + 1]
    BY <1>0, <1>1, <1>2, HeadTailProperties
  <1>4. s # <<>> /\ t # <<>>
    <2>1. Len(t) # 0
      BY <1>2
    <2>2. QED
      BY <1>0, <2>1
  <1>5. PICK f : Sums(s, f) /\ BucketBytes(s) = f[Len(s)] + Len(s) + 1
    BY <1>4, BytesAreSums
  <1>6. PICK g : Sums(t, g) /\ BucketBytes(t) = g[Len(t)] + Len(t) + 1
    BY <1>4, BytesAreSums
  <1>7. /\ f \in [0 .. N -> Nat] /\ f[0] = 0
        /\ \A k \in 1 .. N : f[k] = f[k - 1] + s[k].bytes
    BY <1>2, <1>5 DEF Sums
  <1>8. /\ g \in [0 .. M -> Nat] /\ g[0] = 0
        /\ \A k \in 1 .. M : g[k] = g[k - 1] + t[k].bytes
    BY <1>2, <1>6 DEF Sums
  <1> DEFINE P == {k \in Nat : k <= M => g[k] <= f[k + 1]}
  <1>9. 0 \in P
    <2>1. f[1] \in Nat
      BY <1>2, <1>7
    <2>2. QED
      BY <1>8, <2>1
  <1>10. ASSUME NEW k \in P PROVE k + 1 \in P
    <2>1. k \in Nat /\ (k <= M => g[k] <= f[k + 1])
      BY <1>10
    <2> DEFINE m == k + 1
    <2>2. SUFFICES ASSUME m <= M PROVE g[m] <= f[m + 1]
      BY <2>1
    <2>3. m \in 1 .. M /\ m - 1 = k /\ m \in 0 .. M /\ k \in 0 .. M /\ k <= M
          /\ m + 1 \in 1 .. N /\ m \in 0 .. N /\ m + 1 \in 0 .. N /\ (m + 1) - 1 = m
      BY <1>2, <2>1, <2>2
    <2>4. g[k] <= f[m]
      BY <2>1, <2>3
    <2> HIDE DEF m
    <2>5. g[m] = g[k] + t[m].bytes /\ f[m + 1] = f[m] + s[m + 1].bytes /\ t[m] = s[m + 1]
      BY <1>3, <1>7, <1>8, <2>3
    <2>6. g[k] \in Nat /\ f[m] \in Nat /\ t[m].bytes \in Nat
      BY <1>2, <1>7, <1>8, <2>3, BytesNat
    <2>7. QED
      BY <2>4, <2>5, <2>6
  <1>11. P \in SUBSET Nat
    OBVIOUS
  <1> HIDE DEF P
  <1>12. M \in P
    BY <1>9, <1>10, <1>11, Induction
  <1>13. g[M] <= f[N]
    BY <1>2, <1>12 DEF P
  <1>14. g[M] \in Nat /\ f[N] \in Nat
    BY <1>7, <1>8
  <1>15. BucketBytes(t) <= MAX_BUCKET_BYTES
    <2>1. BucketBytes(s) = f[N] + N + 1 /\ BucketBytes(t) = g[M] + M + 1
      BY <1>2, <1>5, <1>6
    <2>2. BucketBytes(s) <= MAX_BUCKET_BYTES
      BY DEF Fits
    <2>3. QED
      BY <1>2, <1>13, <1>14, <2>1, <2>2, SizesAssumption
  <1>16. QED
    BY <1>1, <1>15 DEF Fits

(* No bucket outgrows the limit under which it can be stored, unless the   *)
(* only item it holds is too large by itself.                              *)
THEOREM LimitHolds == Spec => []BucketsWithinLimit
  <1>1. Init => BucketsWithinLimit
    BY DEF Init, BucketsWithinLimit
  <1>2. TypeOK /\ BucketsWithinLimit /\ [Next]_vars => BucketsWithinLimit'
    <2> SUFFICES ASSUME TypeOK, BucketsWithinLimit, [Next]_vars
                 PROVE  BucketsWithinLimit'
      OBVIOUS
    <2> SUFFICES ASSUME NEW i \in Bucket, Len(buckets'[i]) > 1
                 PROVE  Fits(buckets'[i])
      BY DEF BucketsWithinLimit
    <2>1. buckets \in [Bucket -> Seq(Item)] /\ newItems \in Seq(Item)
      BY DEF TypeOK
    <2>2. Len(buckets[i]) > 1 => Fits(buckets[i])
      BY DEF BucketsWithinLimit
    <2>3. CASE UNCHANGED buckets
      BY <2>2, <2>3
    <2>4. CASE AppendInBucket
      <3>1. /\ Fits(Append(buckets[writeBucketIdx], Head(newItems)))
            /\ buckets' = [buckets EXCEPT ![writeBucketIdx]
                             = Append(buckets[writeBucketIdx], Head(newItems))]
        BY <2>4 DEF AppendInBucket
      <3>2. QED
        BY <2>1, <2>2, <3>1
    <2>5. CASE AppendInNextBucket
      <3>1. buckets' = [buckets EXCEPT ![writeBucketIdx + 1] = <<Head(newItems)>>]
        BY <2>5 DEF AppendInNextBucket
      <3>2. buckets'[i] = buckets[i] \/ buckets'[i] = <<Head(newItems)>>
        BY <2>1, <3>1
      <3>3. CASE buckets'[i] = buckets[i]
        BY <2>2, <3>3
      <3>4. CASE buckets'[i] = <<Head(newItems)>>
        <4>1. Len(buckets'[i]) = 1
          BY <3>4
        <4>2. QED
          BY <4>1
      <3>5. QED
        BY <3>2, <3>3, <3>4
    <2>6. CASE popFifoItem
      <3>1. PICK w \in Bucket : buckets[w] # <<>>
                                /\ buckets' = [buckets EXCEPT ![w] = Tail(buckets[w])]
        BY <2>6 DEF popFifoItem, Occupied
      <3>2. CASE i # w
        BY <2>1, <2>2, <3>1, <3>2
      <3>3. CASE i = w
        <4>1. PICK s \in Seq(Item) : s = buckets[i] /\ buckets'[i] = Tail(s) /\ s # <<>>
          BY <2>1, <3>1, <3>3
        <4>2. Len(s) = Len(Tail(s)) + 1 /\ Len(Tail(s)) \in Nat
          BY <4>1, HeadTailProperties, LenProperties
        <4>3. Len(s) > 1
          BY <4>1, <4>2
        <4>4. QED
          BY <2>2, <4>1, <4>3, TailFits
      <3>4. QED
        BY <3>2, <3>3
    <2>7. QED
      BY <2>3, <2>4, <2>5, <2>6 DEF Next, BeginAppend, Overflow, vars
  <1>3. QED
    BY <1>1, <1>2, TypeCorrect, PTL DEF Spec
=============================================================================
