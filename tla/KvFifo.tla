------------------------------- MODULE KvFifo -------------------------------
(***************************************************************************)
(* The key-value work buffer of the session orchestration                  *)
(* (src/packages/sdk/src/orchestration.ts, "KV FIFO Work Buffer").         *)
(*                                                                         *)
(* `drain` collects messages in a stash and appends the stash to the       *)
(* buffer; `decide` pops one item at a time.  The buffer is a row of       *)
(* FIFO_BUCKET_COUNT values of a key-value store with a size limit each,   *)
(* so an append moves to the next bucket when the current one is full.     *)
(*                                                                         *)
(* One step of this specification is one iteration of the loop in          *)
(* appendToFifo.  The function does not yield, so nothing is popped while  *)
(* an append is in progress.                                               *)
(***************************************************************************)
EXTENDS Naturals, Sequences, SequencesExt

CONSTANTS
    FIFO_BUCKET_COUNT,   \* number of buckets
    MAX_BUCKET_BYTES,    \* limit on one serialized bucket
    MAX_DRAIN_PER_TURN,  \* most items one drain collects
    ItemBytes,           \* the serialized lengths an item can have
    MaxArrivals          \* bound: items appended in a behaviour

ASSUME BucketCountAssumption == FIFO_BUCKET_COUNT \in Nat \ {0}
ASSUME SizesAssumption == MAX_BUCKET_BYTES \in Nat /\ ItemBytes \subseteq Nat
ASSUME BoundsAssumption == MAX_DRAIN_PER_TURN \in Nat /\ MaxArrivals \in Nat

Bucket == 0 .. FIFO_BUCKET_COUNT - 1

(* An item is named by the position at which it was handed to the buffer.  *)
Item == [id : 1 .. MaxArrivals, bytes : ItemBytes]

VARIABLES
    buckets,         \* the value of each key fifo.<i>
    newItems,        \* the part of the argument of appendToFifo still to be written
    writeBucketIdx,  \* its local variable
    arrived,         \* how many items were handed to appendToFifo
    popped,          \* the items returned by popFifoItem, in order
    dropped          \* the ids an overflowing append gave up

vars == <<buckets, newItems, writeBucketIdx, arrived, popped, dropped>>

----------------------------------------------------------------------------
(* Length of JSON.stringify(bucket): the items, the commas between them    *)
(* and the two brackets.                                                   *)
BucketBytes(bucket) ==
    IF bucket = <<>> THEN 2
    ELSE FoldLeft(LAMBDA sum, item : sum + item.bytes, 0, bucket) + Len(bucket) + 1

Fits(bucket) == BucketBytes(bucket) <= MAX_BUCKET_BYTES

Occupied == {i \in Bucket : buckets[i] # <<>>}

hasFifoItems == Occupied # {}

(* The items of the buffer in the order popFifoItem returns them.          *)
Pending == FlattenSeq([i \in 1 .. FIFO_BUCKET_COUNT |-> buckets[i - 1]])

Init ==
    /\ buckets = [i \in Bucket |-> <<>>]
    /\ newItems = <<>>
    /\ writeBucketIdx = 0
    /\ arrived = 0
    /\ popped = <<>>
    /\ dropped = {}

----------------------------------------------------------------------------
(* Fault: write to the first bucket in use instead of the last.            *)
StartsAtLowest(i) ==
    IF hasFifoItems THEN i \in Occupied /\ \A j \in Occupied : i <= j ELSE i = 0

(* appendToFifo(newItems): start writing at the highest occupied bucket.   *)
StartsAt(i) ==
    IF hasFifoItems THEN i \in Occupied /\ \A j \in Occupied : j <= i ELSE i = 0

BeginAppend(sizes) ==
    /\ newItems = <<>>
    /\ sizes # <<>>
    /\ arrived + Len(sizes) <= MaxArrivals
    /\ newItems' = [k \in 1 .. Len(sizes) |-> [id |-> arrived + k, bytes |-> sizes[k]]]
    /\ arrived' = arrived + Len(sizes)
    /\ writeBucketIdx' \in {i \in Bucket : StartsAt(i)}
    /\ UNCHANGED <<buckets, popped, dropped>>

(* Fault: test the size before the push.                                   *)
AppendUnmeasured ==
    /\ newItems # <<>>
    /\ Fits(buckets[writeBucketIdx])
    /\ buckets' = [buckets EXCEPT ![writeBucketIdx] = Append(@, Head(newItems))]
    /\ newItems' = Tail(newItems)
    /\ UNCHANGED <<writeBucketIdx, arrived, popped, dropped>>

(* The next item still fits into the bucket being written.                 *)
AppendInBucket ==
    /\ newItems # <<>>
    /\ LET bucket == Append(buckets[writeBucketIdx], Head(newItems)) IN
         /\ Fits(bucket)
         /\ buckets' = [buckets EXCEPT ![writeBucketIdx] = bucket]
    /\ newItems' = Tail(newItems)
    /\ UNCHANGED <<writeBucketIdx, arrived, popped, dropped>>

(* Fault: open the next bucket but leave the item to the next iteration.   *)
RotateOnly ==
    /\ newItems # <<>>
    /\ ~Fits(Append(buckets[writeBucketIdx], Head(newItems)))
    /\ writeBucketIdx + 1 < FIFO_BUCKET_COUNT
    /\ writeBucketIdx' = writeBucketIdx + 1
    /\ newItems' = Tail(newItems)
    /\ UNCHANGED <<buckets, arrived, popped, dropped>>

(* Fault: off by one in the test for the last bucket.                      *)
AppendBeyondLastBucket ==
    /\ newItems # <<>>
    /\ ~Fits(Append(buckets[writeBucketIdx], Head(newItems)))
    /\ writeBucketIdx + 1 <= FIFO_BUCKET_COUNT
    /\ writeBucketIdx' = writeBucketIdx + 1
    /\ buckets' = [buckets EXCEPT ![writeBucketIdx + 1] = <<Head(newItems)>>]
    /\ newItems' = Tail(newItems)
    /\ UNCHANGED <<arrived, popped, dropped>>

(* It does not fit: write it alone to the next bucket, whatever its size.  *)
AppendInNextBucket ==
    /\ newItems # <<>>
    /\ ~Fits(Append(buckets[writeBucketIdx], Head(newItems)))
    /\ writeBucketIdx + 1 < FIFO_BUCKET_COUNT
    /\ writeBucketIdx' = writeBucketIdx + 1
    /\ buckets' = [buckets EXCEPT ![writeBucketIdx + 1] = <<Head(newItems)>>]
    /\ newItems' = Tail(newItems)
    /\ UNCHANGED <<arrived, popped, dropped>>

(* No bucket is left: the rest of the argument is given up, and the stash  *)
(* it came from is cleared by the caller.                                  *)
Overflow ==
    /\ newItems # <<>>
    /\ ~Fits(Append(buckets[writeBucketIdx], Head(newItems)))
    /\ writeBucketIdx + 1 >= FIFO_BUCKET_COUNT
    /\ dropped' = dropped \union {newItems[k].id : k \in 1 .. Len(newItems)}
    /\ newItems' = <<>>
    /\ UNCHANGED <<buckets, writeBucketIdx, arrived, popped>>

(* Fault: take the first item of the bucket written last.                  *)
PopNewestBucket ==
    /\ newItems = <<>>
    /\ \E i \in Occupied :
         /\ \A j \in Occupied : j <= i
         /\ popped' = Append(popped, Head(buckets[i]))
         /\ buckets' = [buckets EXCEPT ![i] = Tail(buckets[i])]
    /\ UNCHANGED <<newItems, writeBucketIdx, arrived, dropped>>

(* popFifoItem(): the first item of the lowest occupied bucket.            *)
popFifoItem ==
    /\ newItems = <<>>
    /\ \E i \in Occupied :
         /\ \A j \in Occupied : i <= j
         /\ popped' = Append(popped, Head(buckets[i]))
         /\ buckets' = [buckets EXCEPT ![i] = Tail(buckets[i])]
    /\ UNCHANGED <<newItems, writeBucketIdx, arrived, dropped>>

Next ==
    \/ \E sizes \in SeqOf(ItemBytes, MAX_DRAIN_PER_TURN) : BeginAppend(sizes)
    \/ AppendInBucket
    \/ AppendInNextBucket
    \/ Overflow
    \/ popFifoItem

Spec == Init /\ [][Next]_vars

----------------------------------------------------------------------------
(* Type correctness.                                                       *)
TypeOK ==
    /\ buckets \in [Bucket -> Seq(Item)]
    /\ newItems \in Seq(Item)
    /\ writeBucketIdx \in Bucket
    /\ arrived \in Nat
    /\ popped \in Seq(Item)
    /\ dropped \subseteq Nat

(* Messages leave the buffer in the order in which they were received,     *)
(* although buckets are emptied from below while new ones are opened       *)
(* above: within a bucket and from one bucket to the next items are in     *)
(* arrival order, whatever was popped is older than whatever is stored,    *)
(* whatever is stored is older than what is still to be written, and an    *)
(* append in progress finds nothing above the bucket it writes to, so that *)
(* opening the next one overwrites no item.                                *)
Increasing(s) == \A j, k \in 1 .. Len(s) : j < k => s[j].id < s[k].id
Before(s, t) == \A j \in 1 .. Len(s), k \in 1 .. Len(t) : s[j].id < t[k].id
UpTo(s, n) == \A k \in 1 .. Len(s) : s[k].id <= n

ArrivalOrder ==
    /\ Increasing(popped) /\ UpTo(popped, arrived)
    /\ Increasing(newItems) /\ UpTo(newItems, arrived)
    /\ Before(popped, newItems)
    /\ \A i \in Bucket :
         /\ Increasing(buckets[i]) /\ UpTo(buckets[i], arrived)
         /\ Before(popped, buckets[i])
         /\ Before(buckets[i], newItems)
         /\ \A j \in Bucket : i < j => Before(buckets[i], buckets[j])
         /\ newItems # <<>> /\ writeBucketIdx < i => buckets[i] = <<>>

(* No bucket outgrows the limit under which it can be stored, unless the   *)
(* item it holds is too large by itself.                                   *)
BucketsWithinLimit ==
    \A i \in Bucket : Len(buckets[i]) > 1 => Fits(buckets[i])

Ids(items) == {items[k].id : k \in 1 .. Len(items)}

(* An item is lost by nothing but an overflow: any other one handed to the *)
(* buffer is in one place, waiting to be written, in one bucket or popped. *)
(* No item is lost on a rotation to the next bucket or delivered twice.    *)
(* The items of an overflow are lost for good, whatever the trace of the   *)
(* code and the design document say of carrying them forward: the caller   *)
(* has cleared its stash.                                                  *)
LostOnlyByOverflow ==
    /\ Ids(popped) \union Ids(Pending) \union Ids(newItems) \union dropped = 1 .. arrived
    /\ Len(popped) + Len(Pending) + Len(newItems) + Cardinality(dropped) = arrived

(* The buckets implement one queue: an append step adds to its end, a pop  *)
(* removes its front, and a rotation to the next bucket is invisible.      *)
Queue == INSTANCE WorkQueue WITH queue <- Pending, taken <- popped
ImplementsQueue == Queue!Spec

=============================================================================
