----------------------------- MODULE RingBuffer -----------------------------
(***************************************************************************)
(* libzt's RingBuffer (src/libzt/src/RingBuffer.cpp): an array of size     *)
(* elements, the index of the oldest element (begin), the index after the  *)
(* newest (end) and a flag that tells a full buffer from an empty one when *)
(* the two indices meet (wrap).                                            *)
(***************************************************************************)
EXTENDS Naturals, Sequences

CONSTANTS Data,       \* the elements (bufElementType)
          Size,       \* size, the argument of the constructor
          MaxRequest  \* bound on the n of one request

ASSUME SizeAssumption == Size \in Nat \ {0}
ASSUME MaxRequestAssumption == MaxRequest \in Nat
ASSUME DataAssumption == Data # {}

VARIABLES buf, begin, end, wrap,
          src,   \* the elements the last write was given
          dest,  \* the elements the last read copied to its caller
          ret    \* what the last operation returned

vars == <<buf, begin, end, wrap, src, dest, ret>>

Index == 0..(Size - 1)
Requests == 0..MaxRequest

Min2(a, b) == IF a <= b THEN a ELSE b

count ==
  IF end = begin THEN (IF wrap THEN Size ELSE 0)
  ELSE IF end > begin THEN end - begin
  ELSE Size + end - begin

getFree == Size - count

\* Advance without the reduction modulo size after the first chunk.
AdvanceNoWrap(i, n) ==
  LET first_chunk == Min2(n, Size - i)
      i1 == i + first_chunk
  IN  IF first_chunk < n THEN (i1 + (n - first_chunk)) % Size ELSE i1

\* An index moved on by n elements as two chunks, the first of which stops at
\* the end of the array.
Advance(i, n) ==
  LET first_chunk == Min2(n, Size - i)
      i1 == (i + first_chunk) % Size
  IN  IF first_chunk < n THEN (i1 + (n - first_chunk)) % Size ELSE i1

\* memcpy(b + at, data + from, n)
CopyIn(b, at, data, from, n) ==
  [j \in Index |-> IF at <= j /\ j < at + n THEN data[from + (j - at) + 1] ELSE b[j]]

\* Store whose second chunk starts over at the beginning of data.
StoreRestarts(data, n) ==
  LET first_chunk == Min2(n, Size - end)
      b1 == CopyIn(buf, end, data, 0, first_chunk)
  IN  IF first_chunk < n
      THEN CopyIn(b1, (end + first_chunk) % Size, data, 0, n - first_chunk)
      ELSE b1

\* The array after the first n elements of data were copied in at end.
Store(data, n) ==
  LET first_chunk == Min2(n, Size - end)
      b1 == CopyIn(buf, end, data, 0, first_chunk)
  IN  IF first_chunk < n
      THEN CopyIn(b1, (end + first_chunk) % Size, data, first_chunk, n - first_chunk)
      ELSE b1

\* The n elements a read copies out, first chunk and second chunk.
Fetch(n) ==
  LET first_chunk == Min2(n, Size - begin)
      begin1 == (begin + first_chunk) % Size
  IN  [j \in 1..n |-> IF j <= first_chunk THEN buf[begin + j - 1]
                      ELSE buf[begin1 + (j - first_chunk) - 1]]
-----------------------------------------------------------------------------
Init ==
  /\ buf \in [Index -> Data]   \* new[] leaves the bytes as they are
  /\ begin = 0 /\ end = 0 /\ wrap = FALSE
  /\ src = <<>> /\ dest = <<>> /\ ret = 0

\* The indices after n > 0 elements came in at end.
Produced(n) ==
  /\ end' = Advance(end, n)
  /\ wrap' = (wrap \/ begin = end')

\* Consumed that forgets to lower the flag.
ConsumedKeepsWrap(n) ==
  /\ begin' = Advance(begin, n)
  /\ UNCHANGED wrap

\* The indices after n > 0 elements went out at begin.
Consumed(n) ==
  /\ begin' = Advance(begin, n)
  /\ wrap' = FALSE

write(data) ==
  LET n == Min2(Len(data), getFree) IN
    /\ src' = data
    /\ ret' = n
    /\ IF n = 0 THEN UNCHANGED <<buf, end, wrap>>
       ELSE buf' = Store(data, n) /\ Produced(n)
    /\ UNCHANGED <<begin, dest>>

produce(req) ==
  LET n == Min2(req, getFree) IN
    /\ ret' = n
    /\ IF n = 0 THEN UNCHANGED <<end, wrap>> ELSE Produced(n)
    /\ UNCHANGED <<buf, begin, src, dest>>

read(req) ==
  LET n == Min2(req, count) IN
    /\ ret' = n
    /\ dest' = Fetch(n)
    /\ IF n = 0 THEN UNCHANGED <<begin, wrap>> ELSE Consumed(n)
    /\ UNCHANGED <<buf, end, src>>

consume(req) ==
  LET n == Min2(req, count) IN
    /\ ret' = n
    /\ IF n = 0 THEN UNCHANGED <<begin, wrap>> ELSE Consumed(n)
    /\ UNCHANGED <<buf, end, src, dest>>

reset == consume(count)

Next ==
  \/ \E n \in Requests : \E data \in [1..n -> Data] : write(data)
  \/ \E n \in Requests : produce(n) \/ read(n) \/ consume(n)
  \/ reset

Spec == Init /\ [][Next]_vars
-----------------------------------------------------------------------------
\* Type invariant.  The indices stay inside the array that get_buf, write and
\* read address, and what goes in and out is a sequence of elements.
TypeOK ==
  /\ buf \in [Index -> Data]
  /\ begin \in Index /\ end \in Index
  /\ wrap \in BOOLEAN
  /\ src \in Seq(Data) /\ dest \in Seq(Data)
  /\ ret \in 0..Size

\* The wrap flag is raised only while the two indices meet, so that the first
\* branch of count() is the only one that ever has to look at it: a flag left
\* over from an earlier full buffer would make a drained buffer look full.
WrapMeansFull == wrap => begin = end

\* The elements in the buffer, oldest first.
Contents == [j \in 1..count |-> buf[(begin + j - 1) % Size]]

Queue == INSTANCE BoundedQueue WITH q <- Contents, Capacity <- Size

\* The ring buffer is a bounded first-in first-out queue: across any sequence
\* of write, produce, read, consume and reset calls, wrapped or not, read hands
\* out exactly the bytes written, in order, none lost and none repeated, and
\* every call returns the number of bytes it moved.
ImplementsQueue == Queue!Spec
=============================================================================
