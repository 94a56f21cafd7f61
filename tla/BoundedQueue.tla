---------------------------- MODULE BoundedQueue ----------------------------
(***************************************************************************)
(* What a byte buffer of fixed capacity promises its user: a first-in      *)
(* first-out queue.  A write takes as long a prefix of its argument as     *)
(* there is room for, a read hands out as long a prefix of the queue as    *)
(* was asked for and is present, and both return the number of elements    *)
(* moved.  RingBuffer is shown to implement this specification.            *)
(***************************************************************************)
EXTENDS Naturals, Sequences

CONSTANTS Data,      \* the elements
          Capacity,  \* how many of them the queue holds
          MaxRequest \* the largest number of elements in one request

VARIABLES q,     \* the elements, oldest first
          src,   \* what the last write was given
          dest,  \* what the last read handed out
          ret    \* what the last operation returned

vars == <<q, src, dest, ret>>

Lesser(a, b) == IF a <= b THEN a ELSE b

Init == q = <<>> /\ src = <<>> /\ dest = <<>> /\ ret = 0

\* Append the first n elements of data, n being what fits.
AppendWhatFits(data) ==
  LET n == Lesser(Len(data), Capacity - Len(q)) IN
    /\ q' = q \o SubSeq(data, 1, n)
    /\ ret' = n
    /\ UNCHANGED dest

\* The caller hands over the data.
Put(data) == AppendWhatFits(data) /\ src' = data

\* The caller has put some data behind the queue itself.
Fill(data) == AppendWhatFits(data) /\ UNCHANGED src

\* Take the n oldest elements, or all of them, and hand them out.
Get(n) ==
  LET k == Lesser(n, Len(q)) IN
    /\ dest' = SubSeq(q, 1, k)
    /\ q' = SubSeq(q, k + 1, Len(q))
    /\ ret' = k
    /\ UNCHANGED src

\* Forget the n oldest elements, or all of them.
Drop(n) ==
  LET k == Lesser(n, Len(q)) IN
    /\ q' = SubSeq(q, k + 1, Len(q))
    /\ ret' = k
    /\ UNCHANGED <<src, dest>>

Clear == q' = <<>> /\ ret' = Len(q) /\ UNCHANGED <<src, dest>>

Next ==
  \/ \E n \in 0..MaxRequest : \E data \in [1..n -> Data] : Put(data) \/ Fill(data)
  \/ \E n \in 0..MaxRequest : Get(n) \/ Drop(n)
  \/ Clear

Spec == Init /\ [][Next]_vars
=============================================================================
