----------------------------- MODULE WorkQueue -----------------------------
(***************************************************************************)
(* What the work buffer of a session promises to the orchestration: one    *)
(* first-in first-out queue.  `drain` puts items at the end, `decide`      *)
(* takes them from the front.  KvFifo, which spreads the queue over the    *)
(* buckets of a key-value store, implements this specification.            *)
(***************************************************************************)
EXTENDS Naturals, Sequences

CONSTANT Item

VARIABLES queue,   \* the items waiting to be processed, oldest first
          taken    \* the items handed to `decide` so far, oldest first

vars == <<queue, taken>>

Init == queue = <<>> /\ taken = <<>>

Put(item) ==
    /\ queue' = Append(queue, item)
    /\ UNCHANGED taken

Take ==
    /\ queue # <<>>
    /\ queue' = Tail(queue)
    /\ taken' = Append(taken, Head(queue))

(* (queue' # queue only saves TLC from trying every item on every stutter.) *)
Next == Take \/ (queue' # queue /\ \E item \in Item : Put(item))

Spec == Init /\ [][Next]_vars
=============================================================================
