-------------------------- MODULE RingBufferProofs --------------------------
(***************************************************************************)
(* Proofs about RingBuffer for every size, every set of elements and every *)
(* bound on a request.                                                     *)
(***************************************************************************)
EXTENDS RingBuffer, SequenceTheorems, TLAPS

\* An index inside the array is its own remainder.
LEMMA ModSmall ==
  ASSUME NEW i \in 0..(Size - 1)
  PROVE  i % Size = i
BY SizeAssumption, SMT

\* An index less than one turn past the array comes back by one turn.
LEMMA ModWraps ==
  ASSUME NEW i \in Size..(2 * Size - 1)
  PROVE  i % Size = i - Size
BY SizeAssumption, SMT

\* The two chunks by which every operation advances an index amount to one
\* addition modulo size.
LEMMA AdvanceIsAddition ==
  ASSUME NEW i \in Index, NEW n \in 0..Size
  PROVE  /\ Advance(i, n) \in Index
         /\ Advance(i, n) = IF i + n < Size THEN i + n ELSE i + n - Size
<1> USE SizeAssumption
<1> DEFINE first_chunk == Min2(n, Size - i)
           i1 == (i + first_chunk) % Size
<1>1. CASE i + n < Size
  <2>1. first_chunk = n /\ i + n \in 0..(Size - 1)
    BY <1>1 DEF Min2, Index
  <2>2. i1 = i + n
    BY <2>1, ModSmall
  <2> QED BY <1>1, <2>1, <2>2 DEF Advance, Index
<1>2. CASE i + n >= Size
  <2>1. first_chunk = Size - i /\ i + first_chunk = Size
    BY <1>2 DEF Min2, Index
  <2>2. i1 = 0
    <3>1. Size \in Size..(2 * Size - 1)
      OBVIOUS
    <3> QED BY <2>1, <3>1, ModWraps
  <2>3. i + n - Size \in 0..(Size - 1)
    BY <1>2 DEF Index
  <2>4. (i1 + (n - first_chunk)) % Size = i + n - Size
    <3>1. i1 + (n - first_chunk) = i + n - Size
      BY <2>1, <2>2 DEF Index
    <3> QED BY <3>1, <2>3, ModSmall
  <2>5. CASE first_chunk < n
    BY <1>2, <2>3, <2>4, <2>5 DEF Advance, Index
  <2>6. CASE ~(first_chunk < n)
    <3>1. n = Size - i
      BY <1>2, <2>1, <2>6 DEF Index
    <3> QED BY <1>2, <2>2, <2>6, <3>1 DEF Advance, Index
  <2> QED BY <2>5, <2>6
<1> QED BY <1>1, <1>2 DEF Index
-----------------------------------------------------------------------------
\* The invariant behind every theorem of this module.
Inv == TypeOK /\ WrapMeansFull

\* Under the invariant count() never leaves 0..size, so that getFree() does not
\* underflow its unsigned type.
LEMMA CountInRange ==
  ASSUME Inv
  PROVE  count \in 0..Size /\ getFree \in 0..Size
BY SizeAssumption DEF Inv, TypeOK, Index, count, getFree

\* Letting n elements in at end adds n to count().
LEMMA ProducedCounts ==
  ASSUME Inv, NEW n \in 1..getFree, Produced(n), UNCHANGED begin
  PROVE  /\ end' \in Index /\ wrap' \in BOOLEAN
         /\ WrapMeansFull'
         /\ count' = count + n
<1> USE SizeAssumption, CountInRange
<1>1. end \in Index /\ begin \in Index /\ n \in 0..Size /\ wrap \in BOOLEAN
  BY DEF Inv, TypeOK, getFree
<1>2. /\ end' \in Index
      /\ end' = IF end + n < Size THEN end + n ELSE end + n - Size
  BY <1>1, AdvanceIsAddition DEF Produced
<1>3. ~wrap
  BY <1>1 DEF Inv, WrapMeansFull, getFree, count
<1>4. wrap' = (begin = end')
  BY <1>3 DEF Produced
<1>5. WrapMeansFull' /\ wrap' \in BOOLEAN
  BY <1>4, Zenon DEF WrapMeansFull
<1>6. count' = count + n
  <2>1. CASE begin = end'
    <3>1. count' = Size
      BY <1>4, <2>1, Zenon DEF count
    <3>2. count + n = Size
      BY <1>1, <1>2, <1>3, <2>1 DEF count, getFree, Index
    <3> QED BY <3>1, <3>2
  <2>2. CASE begin # end'
    BY <1>1, <1>2, <1>3, <2>2 DEF count, getFree, Index
  <2> QED BY <2>1, <2>2
<1> QED BY <1>2, <1>5, <1>6

\* Letting n elements out at begin takes n from count().
LEMMA ConsumedCounts ==
  ASSUME Inv, NEW n \in 1..count, Consumed(n), UNCHANGED end
  PROVE  /\ begin' \in Index /\ wrap' = FALSE
         /\ WrapMeansFull'
         /\ count' = count - n
<1> USE SizeAssumption, CountInRange
<1>1. end \in Index /\ begin \in Index /\ n \in 0..Size /\ wrap \in BOOLEAN
  BY DEF Inv, TypeOK
<1>2. /\ begin' \in Index
      /\ begin' = IF begin + n < Size THEN begin + n ELSE begin + n - Size
  BY <1>1, AdvanceIsAddition DEF Consumed
<1>3. wrap' = FALSE
  BY DEF Consumed
<1>4. count' = count - n
  BY <1>1, <1>2, <1>3 DEF count, Index, Inv, WrapMeansFull
<1> QED BY <1>2, <1>3, <1>4 DEF WrapMeansFull
-----------------------------------------------------------------------------
\* The place of the k-th element after index i.
LEMMA SlotIs ==
  ASSUME NEW i \in Index, NEW k \in 0..(Size - 1)
  PROVE  /\ (i + k) % Size = IF i + k < Size THEN i + k ELSE i + k - Size
         /\ (i + k) % Size \in Index
<1> USE SizeAssumption DEF Index
<1>1. CASE i + k < Size
  <2>1. i + k \in 0..(Size - 1)
    BY <1>1
  <2> QED BY <1>1, <2>1, ModSmall
<1>2. CASE i + k >= Size
  <2>1. i + k \in Size..(2 * Size - 1)
    BY <1>2
  <2> QED BY <1>2, <2>1, ModWraps
<1> QED BY <1>1, <1>2

\* The place of the j-th element of the queue.
Slot(j) == IF begin + j - 1 < Size THEN begin + j - 1 ELSE begin + j - 1 - Size

\* Contents is a sequence of count() elements.
ContentsIsSequence ==
  /\ Contents \in Seq(Data)
  /\ Len(Contents) = count
  /\ \A j \in 1..count : Contents[j] = buf[Slot(j)] /\ Slot(j) \in Index

\* The invariant makes it one.
LEMMA ContentsIsQueue ==
  Inv => ContentsIsSequence
<1> SUFFICES ASSUME Inv PROVE ContentsIsSequence
  OBVIOUS
<1>1. count \in 0..Size
  BY CountInRange
<1>2. ASSUME NEW j \in 1..count
      PROVE  (begin + j - 1) % Size = Slot(j) /\ Slot(j) \in Index
  <2>1. begin \in Index /\ j - 1 \in 0..(Size - 1)
    BY <1>1, SizeAssumption DEF Inv, TypeOK
  <2>2. begin + (j - 1) = begin + j - 1
    BY <2>1, SizeAssumption DEF Index
  <2> QED BY <2>1, <2>2, SlotIs DEF Slot
<1>3. ASSUME NEW j \in 1..count
      PROVE  buf[(begin + j - 1) % Size] \in Data
  BY <1>2 DEF Inv, TypeOK
<1>4. Contents \in [1..count -> Data]
  BY <1>3 DEF Contents
<1>5. Contents \in Seq(Data) /\ Len(Contents) = count
  BY <1>1, <1>4
<1>6. \A j \in 1..count : Contents[j] = buf[Slot(j)] /\ Slot(j) \in Index
  BY <1>2 DEF Contents
<1> QED BY <1>5, <1>6 DEF ContentsIsSequence

\* The same fact in the next state.
LEMMA ContentsIsQueuePrimed == Inv' => ContentsIsSequence'
BY ContentsIsQueue, PTL

\* What write leaves in the array: the first n elements of data from end on,
\* wrapped at the end of the array, and the old elements everywhere else.
LEMMA StoreIsCopy ==
  ASSUME Inv, NEW n \in 1..Size, NEW data
  PROVE  Store(data, n) =
           [j \in Index |-> IF end <= j /\ j < end + n THEN data[j - end + 1]
                            ELSE IF j < end + n - Size THEN data[Size - end + j + 1]
                            ELSE buf[j]]
<1> USE SizeAssumption
<1>1. end \in Index /\ buf \in [Index -> Data]
  BY DEF Inv, TypeOK
<1> DEFINE first_chunk == Min2(n, Size - end)
<1>2. CASE end + n <= Size
  <2>1. first_chunk = n
    BY <1>1, <1>2 DEF Min2, Index
  <2>2. \A j \in Index : ~(j < end + n - Size) /\ 0 + (j - end) + 1 = j - end + 1
    BY <1>1, <1>2 DEF Index
  <2>3. Store(data, n) = CopyIn(buf, end, data, 0, n)
    BY <2>1 DEF Store
  <2> QED BY <2>2, <2>3 DEF CopyIn
<1>3. CASE end + n > Size
  <2>1. first_chunk = Size - end /\ first_chunk < n /\ end + first_chunk = Size
    BY <1>1, <1>3 DEF Min2, Index
  <2>2. (end + first_chunk) % Size = 0
    <3>1. Size \in Size..(2 * Size - 1)
      OBVIOUS
    <3> QED BY <2>1, <3>1, ModWraps
  <2>3. Store(data, n) = CopyIn(CopyIn(buf, end, data, 0, Size - end),
                                0, data, Size - end, n - (Size - end))
    BY <2>1, <2>2 DEF Store
  <2>4. ASSUME NEW j \in Index
        PROVE  /\ (0 <= j /\ j < 0 + (n - (Size - end))) <=> (j < end + n - Size)
               /\ (end <= j /\ j < end + (Size - end)) <=> end <= j
               /\ ~(end <= j /\ j < end + n - Size)
               /\ Size - end + (j - 0) + 1 = Size - end + j + 1
               /\ 0 + (j - end) + 1 = j - end + 1
               /\ end <= j => j < end + n
    BY <1>1, <1>3 DEF Index
  <2> QED BY <2>3, <2>4 DEF CopyIn
<1> QED BY <1>1, <1>2, <1>3 DEF Index
-----------------------------------------------------------------------------
\* The place of the k-th element to come in.
EndSlot(k) == IF end + k - 1 < Size THEN end + k - 1 ELSE end + k - 1 - Size

\* The free places follow the occupied ones round the array.
LEMMA EndFollowsContents ==
  ASSUME Inv, NEW k \in 1..getFree
  PROVE  /\ EndSlot(k) = Slot(count + k)
         /\ EndSlot(k) \in Index
         /\ \A j \in 1..count : Slot(j) # EndSlot(k)
<1> USE SizeAssumption, CountInRange
<1>1. begin \in Index /\ end \in Index /\ wrap \in BOOLEAN /\ (wrap => begin = end)
  BY DEF Inv, TypeOK, WrapMeansFull
<1>2. EndSlot(k) = Slot(count + k) /\ EndSlot(k) \in Index
  BY <1>1 DEF EndSlot, Slot, count, getFree, Index
<1>3. ASSUME NEW j \in 1..count
      PROVE  Slot(j) # EndSlot(k)
  BY <1>1 DEF EndSlot, Slot, count, getFree, Index
<1> QED BY <1>2, <1>3

\* If n elements of data sit in the first n free places and the occupied ones
\* are as before, raising end by n appends those elements to the queue.
LEMMA GrowContents ==
  ASSUME Inv, Inv', NEW n \in 1..getFree, Produced(n), UNCHANGED begin,
         NEW data \in Seq(Data), n <= Len(data),
         \A k \in 1..n : buf'[EndSlot(k)] = data[k],
         \A j \in 1..count : buf'[Slot(j)] = buf[Slot(j)]
  PROVE  Contents' = Contents \o SubSeq(data, 1, n)
<1> DEFINE add == SubSeq(data, 1, n)
<1>1. count \in 0..Size /\ getFree \in 0..Size
  BY CountInRange
<1>2. count' = count + n
  BY ProducedCounts
<1>3. ContentsIsSequence /\ ContentsIsSequence'
  BY ContentsIsQueue, ContentsIsQueuePrimed
<1>4. \A j : Slot(j)' = Slot(j)
  BY DEF Slot
<1>5. \A k \in 1..n : data[k] \in Data
  BY ElementOfSeq, LenProperties
<1>6. /\ add \in Seq(Data) /\ Len(add) = n
      /\ \A k \in 1..n : add[k] = data[k]
  BY <1>5, SubSeqProperties, <1>1
<1> HIDE DEF add
<1>7. /\ Contents \o add \in Seq(Data)
      /\ Len(Contents \o add) = count + n
      /\ \A i \in 1..(count + n) : (Contents \o add)[i] =
             IF i <= count THEN Contents[i] ELSE add[i - count]
  <2>1. Contents \in Seq(Data) /\ Len(Contents) = count /\ add \in Seq(Data) /\ Len(add) = n
    BY <1>3, <1>6 DEF ContentsIsSequence
  <2>2. /\ Contents \o add \in Seq(Data)
        /\ Len(Contents \o add) = Len(Contents) + Len(add)
        /\ \A i \in 1..(Len(Contents) + Len(add)) : (Contents \o add)[i] =
             IF i <= Len(Contents) THEN Contents[i] ELSE add[i - Len(Contents)]
    BY <2>1, ConcatProperties, Zenon
  <2> QED BY <2>1, <2>2, Zenon
<1>8. ASSUME NEW i \in 1..(count + n)
      PROVE  Contents'[i] = (Contents \o add)[i]
  <2>1. Contents'[i] = buf'[Slot(i)]
    BY <1>2, <1>3, <1>4 DEF ContentsIsSequence
  <2>2. CASE i <= count
    <3>1. i \in 1..count
      BY <1>1, <2>2
    <3>2. Contents[i] = buf[Slot(i)]
      BY <1>3, <3>1 DEF ContentsIsSequence
    <3>3. buf'[Slot(i)] = buf[Slot(i)]
      BY <3>1
    <3> QED BY <1>7, <2>1, <2>2, <3>2, <3>3
  <2>3. CASE ~(i <= count)
    <3>1. i - count \in 1..n /\ i - count \in 1..getFree /\ count + (i - count) = i
      BY <1>1, <2>3
    <3>2. EndSlot(i - count) = Slot(i)
      BY <3>1, EndFollowsContents
    <3>3. buf'[EndSlot(i - count)] = data[i - count]
      BY <3>1
    <3> QED BY <1>6, <1>7, <2>1, <2>3, <3>1, <3>2, <3>3
  <2> QED BY <2>2, <2>3, Zenon
<1>9. Contents' \in Seq(Data) /\ Len(Contents') = Len(Contents \o add)
  BY <1>2, <1>3, <1>7 DEF ContentsIsSequence
<1>10. \A i \in 1..Len(Contents') : Contents'[i] = (Contents \o add)[i]
  BY <1>7, <1>8, <1>9, Zenon
<1>11. Contents' = Contents \o add
  BY <1>7, <1>9, <1>10, SeqEqual, Zenon
<1> QED BY <1>11 DEF add

\* Raising begin by n takes the n oldest elements from the queue.
LEMMA ShrinkContents ==
  ASSUME Inv, Inv', NEW n \in 1..count, Consumed(n), UNCHANGED <<buf, end>>
  PROVE  Contents' = SubSeq(Contents, n + 1, Len(Contents))
<1> USE SizeAssumption
<1> DEFINE rest == SubSeq(Contents, n + 1, Len(Contents))
<1>1. count \in 0..Size /\ begin \in Index
  BY CountInRange DEF Inv, TypeOK
<1>2. count' = count - n
  BY ConsumedCounts, Zenon
<1>3. ContentsIsSequence /\ ContentsIsSequence'
  BY ContentsIsQueue, ContentsIsQueuePrimed
<1>4. \A i \in (n + 1)..count : Contents[i] \in Data
  BY <1>1, <1>3, ElementOfSeq DEF ContentsIsSequence
<1>5. /\ rest \in Seq(Data) /\ Len(rest) = count - n
      /\ \A i \in 1..(count - n) : rest[i] = Contents[n + i]
  <2>1. n + 1 \in Int /\ count \in Int /\ Len(Contents) = count
    BY <1>1, <1>3 DEF ContentsIsSequence
  <2>2. /\ rest \in Seq(Data)
        /\ Len(rest) = IF n + 1 <= count THEN count - (n + 1) + 1 ELSE 0
        /\ \A i \in 1..(count - (n + 1) + 1) : rest[i] = Contents[(n + 1) + i - 1]
    BY <1>4, <2>1, SubSeqProperties
  <2>3. count - (n + 1) + 1 = count - n /\ \A i \in Nat : (n + 1) + i - 1 = n + i
    BY <1>1
  <2> HIDE DEF rest
  <2> QED BY <1>1, <2>2, <2>3
<1> HIDE DEF rest
<1>6. ASSUME NEW i \in 1..(count - n)
      PROVE  Contents'[i] = rest[i]
  <2>1. begin' = IF begin + n < Size THEN begin + n ELSE begin + n - Size
    BY <1>1, AdvanceIsAddition DEF Consumed
  <2>2. Slot(i)' = Slot(n + i) /\ n + i \in 1..count
    BY <1>1, <2>1 DEF Slot, Index
  <2>3. Contents'[i] = buf'[Slot(i)']
    BY <1>2, <1>3 DEF ContentsIsSequence
  <2>4. Contents[n + i] = buf[Slot(n + i)]
    BY <1>3, <2>2 DEF ContentsIsSequence
  <2> QED BY <1>5, <2>2, <2>3, <2>4
<1>7. Contents' \in Seq(Data) /\ Len(Contents') = count - n
  BY <1>2, <1>3 DEF ContentsIsSequence
<1>8. Contents' = rest
  BY <1>5, <1>6, <1>7, SeqEqual, Zenon
<1> QED BY <1>8 DEF rest

\* The two chunks a read copies out are the n oldest elements in order.
LEMMA FetchIsPrefix ==
  ASSUME Inv, NEW n \in 0..count
  PROVE  Fetch(n) \in Seq(Data) /\ Fetch(n) = SubSeq(Contents, 1, n)
<1> USE SizeAssumption
<1> DEFINE first_chunk == Min2(n, Size - begin)
           begin1 == (begin + first_chunk) % Size
           pre == SubSeq(Contents, 1, n)
<1>1. count \in 0..Size /\ begin \in Index /\ buf \in [Index -> Data]
  BY CountInRange DEF Inv, TypeOK
<1>2. ContentsIsSequence
  BY ContentsIsQueue
<1>3. /\ pre \in Seq(Data) /\ Len(pre) = n
      /\ \A i \in 1..n : pre[i] = Contents[i]
  <2>1. \A i \in 1..n : Contents[i] \in Data
    BY <1>1, <1>2, ElementOfSeq DEF ContentsIsSequence
  <2>2. 1 \in Int /\ n \in Int
    BY <1>1
  <2>3. /\ pre \in Seq(Data)
        /\ Len(pre) = IF 1 <= n THEN n - 1 + 1 ELSE 0
        /\ \A i \in 1..(n - 1 + 1) : pre[i] = Contents[1 + i - 1]
    BY <2>1, <2>2, SubSeqProperties
  <2> HIDE DEF pre
  <2> QED BY <1>1, <2>3
<1> HIDE DEF pre
<1>4. ASSUME NEW j \in 1..n
      PROVE  (IF j <= first_chunk THEN buf[begin + j - 1]
              ELSE buf[begin1 + (j - first_chunk) - 1]) = pre[j]
  <2>1. pre[j] = buf[Slot(j)]
    BY <1>1, <1>2, <1>3 DEF ContentsIsSequence
  <2>2. CASE j <= first_chunk
    <3>1. Slot(j) = begin + j - 1
      BY <1>1, <2>2 DEF Slot, Min2, Index
    <3> QED BY <2>1, <2>2, <3>1
  <2>3. CASE ~(j <= first_chunk)
    <3>1. first_chunk = Size - begin /\ begin + first_chunk = Size
      BY <1>1, <2>3 DEF Min2, Index
    <3>2. Size \in Size..(2 * Size - 1)
      OBVIOUS
    <3>3. begin1 = 0
      BY <3>1, <3>2, ModWraps
    <3>4. Slot(j) = begin1 + (j - first_chunk) - 1
      BY <1>1, <2>3, <3>1, <3>3 DEF Slot, Index
    <3> QED BY <2>1, <2>3, <3>4
  <2> QED BY <2>2, <2>3
<1>5. pre = [j \in 1..n |-> pre[j]]
  BY <1>3, LenProperties
<1>6. Fetch(n) = [j \in 1..n |-> pre[j]]
  BY <1>4, Zenon DEF Fetch
<1> QED BY <1>3, <1>5, <1>6 DEF pre
-----------------------------------------------------------------------------
\* write keeps the invariant and appends the prefix that fits.
LEMMA WriteStep ==
  ASSUME Inv, NEW data \in Seq(Data), write(data)
  PROVE  Inv' /\ Queue!Put(data)
<1> USE SizeAssumption
<1> DEFINE n == Min2(Len(data), getFree)
<1>1. getFree \in 0..Size /\ count \in 0..Size /\ Len(data) \in Nat
  BY CountInRange, LenProperties
<1>2. n \in 0..Size /\ n <= Len(data) /\ n <= getFree
  BY <1>1 DEF Min2
<1>3. Len(Contents) = count /\ Contents \in Seq(Data)
  BY ContentsIsQueue DEF ContentsIsSequence
<1>4. Queue!Lesser(Len(data), Size - Len(Contents)) = n
  BY <1>3 DEF Queue!Lesser, Min2, getFree
<1>5. CASE n = 0
  <2>1. UNCHANGED <<buf, begin, end, wrap, dest>> /\ ret' = 0 /\ src' = data
    BY <1>5 DEF write
  <2>2. Inv'
    BY <2>1 DEF Inv, TypeOK, WrapMeansFull
  <2>3. Contents' = Contents
    BY <2>1 DEF Contents, count
  <2>4. SubSeq(data, 1, 0) = << >> /\ Contents \o << >> = Contents
    BY <1>3, SubSeqEmpty, ConcatEmptySeq
  <2> QED BY <1>4, <1>5, <2>1, <2>2, <2>3, <2>4, Zenon DEF Queue!Put, Queue!AppendWhatFits
<1>6. CASE n # 0
  <2>1. n \in 1..getFree /\ n \in 1..Size
    BY <1>1, <1>2, <1>6
  <2>2. /\ buf' = Store(data, n) /\ Produced(n) /\ ret' = n
        /\ begin' = begin /\ dest' = dest /\ src' = data
    BY <1>6 DEF write
  <2> HIDE DEF n
  <2>3. /\ end' \in Index /\ wrap' \in BOOLEAN /\ WrapMeansFull'
    BY <2>1, <2>2, ProducedCounts
  <2>4. end \in Index /\ begin \in Index /\ buf \in [Index -> Data]
    BY DEF Inv, TypeOK
  <2>5. buf' = [j \in Index |->
                  IF end <= j /\ j < end + n THEN data[j - end + 1]
                  ELSE IF j < end + n - Size THEN data[Size - end + j + 1]
                  ELSE buf[j]]
    BY <2>1, <2>2, StoreIsCopy
  <2>6. \A k \in 1..n : data[k] \in Data
    BY <1>1, <1>2, ElementOfSeq
  <2>7. buf' \in [Index -> Data]
    <3>1. ASSUME NEW j \in Index, end <= j, j < end + n
          PROVE  data[j - end + 1] \in Data
      BY <1>2, <2>4, <2>6, <3>1 DEF Index
    <3>2. ASSUME NEW j \in Index, j < end + n - Size
          PROVE  data[Size - end + j + 1] \in Data
      BY <1>2, <2>4, <2>6, <3>2 DEF Index
    <3> QED BY <2>4, <2>5, <3>1, <3>2
  <2>8. Inv'
    BY <1>2, <2>2, <2>3, <2>7 DEF Inv, TypeOK
  <2>9. ASSUME NEW k \in 1..n PROVE buf'[EndSlot(k)] = data[k]
    <3>1. k \in 1..getFree
      BY <1>1, <2>1
    <3>2. EndSlot(k) \in Index
      BY <3>1, EndFollowsContents
    <3>3. CASE end + k - 1 < Size
      <4>1. end <= EndSlot(k) /\ EndSlot(k) < end + n /\ EndSlot(k) - end + 1 = k
        BY <1>2, <2>4, <3>3 DEF EndSlot, Index
      <4> QED BY <2>5, <3>2, <4>1
    <3>4. CASE ~(end + k - 1 < Size)
      <4>1. /\ ~(end <= EndSlot(k)) /\ EndSlot(k) < end + n - Size
            /\ Size - end + EndSlot(k) + 1 = k
        BY <1>2, <2>1, <2>4, <3>4 DEF EndSlot, Index
      <4> QED BY <2>5, <3>2, <4>1
    <3> QED BY <3>3, <3>4
  <2>10. ASSUME NEW j \in 1..count PROVE buf'[Slot(j)] = buf[Slot(j)]
    <3>1. Slot(j) \in Index
      BY ContentsIsQueue DEF ContentsIsSequence
    <3>2. \A k \in 1..n : Slot(j) # EndSlot(k)
      BY <1>1, <2>1, EndFollowsContents
    <3>3. ~(end <= Slot(j) /\ Slot(j) < end + n)
      <4>1. SUFFICES ASSUME end <= Slot(j), Slot(j) < end + n PROVE FALSE
        OBVIOUS
      <4>2. Slot(j) - end + 1 \in 1..n /\ EndSlot(Slot(j) - end + 1) = Slot(j)
        BY <1>2, <2>4, <3>1, <4>1 DEF EndSlot, Index
      <4> QED BY <3>2, <4>2
    <3>4. ~(Slot(j) < end + n - Size)
      <4>1. SUFFICES ASSUME Slot(j) < end + n - Size PROVE FALSE
        OBVIOUS
      <4>2. /\ Size - end + Slot(j) + 1 \in 1..n
            /\ EndSlot(Size - end + Slot(j) + 1) = Slot(j)
        BY <1>2, <2>4, <3>1, <4>1 DEF EndSlot, Index
      <4> QED BY <3>2, <4>2
    <3> QED BY <2>5, <3>1, <3>3, <3>4
  <2>11. Contents' = Contents \o SubSeq(data, 1, n)
    BY <1>2, <2>1, <2>2, <2>8, <2>9, <2>10, GrowContents
  <2> QED BY <1>4, <2>2, <2>8, <2>11, Zenon DEF Queue!Put, Queue!AppendWhatFits, n
<1> QED BY <1>5, <1>6

\* produce keeps the invariant and appends the bytes its caller left behind
\* end, as many as fit.
LEMMA ProduceStep ==
  ASSUME Inv, NEW req \in Requests, produce(req)
  PROVE  Inv' /\ \E data \in [1..req -> Data] : Queue!Fill(data)
<1> USE SizeAssumption, MaxRequestAssumption
<1> DEFINE n == Min2(req, getFree)
           data == [k \in 1..req |-> IF k <= n THEN buf[EndSlot(k)] ELSE buf[0]]
<1>1. getFree \in 0..Size /\ count \in 0..Size /\ req \in Nat
  BY CountInRange DEF Requests
<1>2. n \in 0..Size /\ n <= req /\ n <= getFree
  BY <1>1 DEF Min2
<1>3. Len(Contents) = count /\ Contents \in Seq(Data)
  BY ContentsIsQueue DEF ContentsIsSequence
<1>4. \A k \in 1..n : EndSlot(k) \in Index
  BY <1>1, <1>2, EndFollowsContents
<1>5. buf \in [Index -> Data] /\ 0 \in Index
  BY DEF Inv, TypeOK, Index
<1> HIDE DEF n
<1>6. data \in [1..req -> Data]
  BY <1>1, <1>2, <1>4, <1>5
<1>7. data \in Seq(Data) /\ Len(data) = req
  BY <1>1, <1>6
<1>8. Queue!Lesser(Len(data), Size - Len(Contents)) = n
  BY <1>3, <1>7, Zenon DEF Queue!Lesser, Min2, getFree, n
<1>9. Inv' /\ Queue!Fill(data)
  <2>1. CASE n = 0
    <3>1. UNCHANGED <<buf, begin, end, wrap, src, dest>> /\ ret' = 0
      BY <2>1 DEF produce, n
    <3>2. Inv'
      BY <3>1 DEF Inv, TypeOK, WrapMeansFull
    <3>3. Contents' = Contents
      BY <3>1 DEF Contents, count
    <3> HIDE DEF data
    <3>4. SubSeq(data, 1, 0) = << >> /\ Contents \o << >> = Contents
      BY <1>3, SubSeqEmpty, ConcatEmptySeq
    <3> QED BY <1>8, <2>1, <3>1, <3>2, <3>3, <3>4, Zenon DEF Queue!Fill, Queue!AppendWhatFits
  <2>2. CASE n # 0
    <3>1. n \in 1..getFree
      BY <1>1, <1>2, <2>2
    <3>2. Produced(n) /\ ret' = n /\ UNCHANGED <<buf, begin, src, dest>>
      BY <2>2 DEF produce, n
    <3>3. end' \in Index /\ wrap' \in BOOLEAN /\ WrapMeansFull'
      BY <3>1, <3>2, ProducedCounts
    <3>4. Inv'
      BY <1>2, <3>2, <3>3 DEF Inv, TypeOK
    <3>5. \A k \in 1..n : buf'[EndSlot(k)] = data[k]
      BY <1>1, <1>2, <3>2
    <3>6. \A j \in 1..count : buf'[Slot(j)] = buf[Slot(j)]
      BY <3>2
    <3> HIDE DEF data
    <3>7. Contents' = Contents \o SubSeq(data, 1, n)
      BY <1>2, <1>7, <3>1, <3>2, <3>4, <3>5, <3>6, GrowContents
    <3> QED BY <1>8, <3>2, <3>4, <3>7, Zenon DEF Queue!Fill, Queue!AppendWhatFits
  <2> QED BY <2>1, <2>2
<1> QED BY <1>6, <1>9

\* What read and consume do to the queue and the invariant.
LEMMA TakeStep ==
  ASSUME Inv, NEW req \in Nat,
         ret' = Min2(req, count),
         dest' \in Seq(Data),
         IF Min2(req, count) = 0 THEN UNCHANGED <<begin, wrap>>
                                 ELSE Consumed(Min2(req, count)),
         UNCHANGED <<buf, end, src>>
  PROVE  /\ Inv'
         /\ Queue!Lesser(req, Len(Contents)) = Min2(req, count)
         /\ Contents' = SubSeq(Contents, Min2(req, count) + 1, Len(Contents))
<1> USE SizeAssumption
<1> DEFINE n == Min2(req, count)
<1>1. count \in 0..Size
  BY CountInRange
<1>2. n \in 0..Size /\ n <= count
  BY <1>1 DEF Min2
<1>3. Len(Contents) = count /\ Contents \in Seq(Data)
  BY ContentsIsQueue DEF ContentsIsSequence
<1>4. Queue!Lesser(req, Len(Contents)) = n
  BY <1>3 DEF Queue!Lesser, Min2
<1>5. CASE n = 0
  <2>1. UNCHANGED <<begin, wrap>>
    BY <1>5
  <2>2. Inv'
    BY <1>2, <2>1 DEF Inv, TypeOK, WrapMeansFull
  <2>3. Contents' = Contents
    BY <2>1 DEF Contents, count
  <2> HIDE DEF n
  <2>4. SubSeq(Contents, 1, Len(Contents)) = Contents
    BY <1>3, SubSeqFull
  <2> QED BY <1>4, <1>5, <2>2, <2>3, <2>4 DEF n
<1>6. CASE n # 0
  <2>1. n \in 1..count /\ Consumed(n)
    BY <1>1, <1>2, <1>6
  <2>2. begin' \in Index /\ wrap' = FALSE /\ WrapMeansFull'
    BY <2>1, ConsumedCounts, Zenon
  <2>3. Inv'
    BY <1>2, <2>2, Zenon DEF Inv, TypeOK
  <2> HIDE DEF n
  <2>4. Contents' = SubSeq(Contents, n + 1, Len(Contents))
    BY <2>1, <2>3, ShrinkContents
  <2> QED BY <1>4, <2>3, <2>4 DEF n
<1> QED BY <1>5, <1>6

\* read hands out the oldest elements and removes them.
LEMMA ReadStep ==
  ASSUME Inv, NEW req \in Requests, read(req)
  PROVE  Inv' /\ Queue!Get(req)
<1>1. req \in Nat /\ count \in 0..Size
  BY CountInRange, MaxRequestAssumption DEF Requests
<1>2. Min2(req, count) \in 0..count
  BY <1>1, SizeAssumption DEF Min2
<1>3. dest' \in Seq(Data) /\ dest' = SubSeq(Contents, 1, Min2(req, count))
  BY <1>2, FetchIsPrefix DEF read
<1>4. /\ Inv'
      /\ Queue!Lesser(req, Len(Contents)) = Min2(req, count)
      /\ Contents' = SubSeq(Contents, Min2(req, count) + 1, Len(Contents))
  BY <1>1, <1>3, TakeStep, SMTT(30) DEF read
<1> QED BY <1>3, <1>4 DEF Queue!Get, read

\* consume removes the oldest elements without handing them out.
LEMMA ConsumeStep ==
  ASSUME Inv, NEW req \in Nat, consume(req)
  PROVE  Inv' /\ Queue!Drop(req)
<1>1. dest' \in Seq(Data)
  BY DEF consume, Inv, TypeOK
<1>2. /\ Inv'
      /\ Queue!Lesser(req, Len(Contents)) = Min2(req, count)
      /\ Contents' = SubSeq(Contents, Min2(req, count) + 1, Len(Contents))
  BY <1>1, TakeStep DEF consume
<1> QED BY <1>2 DEF Queue!Drop, consume

\* reset empties the queue.
LEMMA ResetStep ==
  ASSUME Inv, reset
  PROVE  Inv' /\ Queue!Clear
<1>1. count \in 0..Size /\ count \in Nat
  BY CountInRange, SizeAssumption
<1>2. Inv' /\ Queue!Drop(count)
  BY <1>1, ConsumeStep DEF reset
<1>3. Len(Contents) = count
  BY ContentsIsQueue DEF ContentsIsSequence
<1>4. Queue!Lesser(count, Len(Contents)) = count
  BY <1>1, <1>3 DEF Queue!Lesser
<1>5. SubSeq(Contents, count + 1, count) = << >>
  BY <1>1, SubSeqEmpty, SizeAssumption
<1> QED BY <1>2, <1>3, <1>4, <1>5 DEF Queue!Drop, Queue!Clear
-----------------------------------------------------------------------------
\* The initial state has the invariant.
LEMMA InitInv == Init => Inv
<1> SUFFICES ASSUME Init PROVE Inv
  OBVIOUS
<1>1. buf \in [Index -> Data] /\ begin = 0 /\ end = 0 /\ ~wrap
      /\ wrap \in BOOLEAN /\ src = << >> /\ dest = << >> /\ ret = 0
  BY Zenon DEF Init
<1>2. 0 \in Index /\ 0 \in 0..Size
  BY SizeAssumption DEF Index
<1>3. << >> \in Seq(Data)
  OBVIOUS
<1> QED BY <1>1, <1>2, <1>3, Zenon DEF Inv, TypeOK, WrapMeansFull

\* Every step keeps the invariant and is a step of the queue.
LEMMA NextStep ==
  Inv /\ [Next]_vars => Inv' /\ [Queue!Next]_(Queue!vars)
<1> SUFFICES ASSUME Inv, [Next]_vars
             PROVE  Inv' /\ [Queue!Next]_(Queue!vars)
  OBVIOUS
<1> USE MaxRequestAssumption DEF Requests
<1>1. ASSUME NEW n \in Requests, NEW data \in [1..n -> Data], write(data)
      PROVE  Inv' /\ Queue!Next
  <2>1. data \in Seq(Data)
    OBVIOUS
  <2> QED BY <1>1, <2>1, WriteStep DEF Queue!Next
<1>2. ASSUME NEW n \in Requests, produce(n)
      PROVE  Inv' /\ Queue!Next
  BY <1>2, ProduceStep DEF Queue!Next
<1>3. ASSUME NEW n \in Requests, read(n)
      PROVE  Inv' /\ Queue!Next
  BY <1>3, ReadStep DEF Queue!Next
<1>4. ASSUME NEW n \in Requests, consume(n)
      PROVE  Inv' /\ Queue!Next
  BY <1>4, ConsumeStep DEF Queue!Next
<1>5. CASE reset
  BY <1>5, ResetStep DEF Queue!Next
<1>6. CASE UNCHANGED vars
  <2>1. Inv'
    BY <1>6 DEF vars, Inv, TypeOK, WrapMeansFull
  <2>2. UNCHANGED Queue!vars
    BY <1>6 DEF vars, Queue!vars, Contents, count
  <2> QED BY <2>1, <2>2
<1> QED BY <1>1, <1>2, <1>3, <1>4, <1>5, <1>6 DEF Next

\* For every size and every sequence of calls the indices stay inside the
\* array and dest receives nothing but elements.
THEOREM TypeCorrect == Spec => []TypeOK
<1>1. Inv => TypeOK
  BY DEF Inv
<1> QED BY InitInv, NextStep, <1>1, PTL DEF Spec

\* For every size the wrap flag is raised only while begin and end meet.
THEOREM WrapIsFull == Spec => []WrapMeansFull
<1>1. Inv => WrapMeansFull
  BY DEF Inv
<1> QED BY InitInv, NextStep, <1>1, PTL DEF Spec

\* For every size, every set of elements and every sequence of calls the ring
\* buffer behaves as a bounded first-in first-out queue.
THEOREM Refinement == Spec => ImplementsQueue
<1>1. Init => Queue!Init
  <2> SUFFICES ASSUME Init PROVE Queue!Init
    OBVIOUS
  <2>1. count = 0
    BY DEF Init, count
  <2>2. ContentsIsSequence
    BY InitInv, ContentsIsQueue
  <2>3. Contents = << >>
    BY <2>1, <2>2, EmptySeq DEF ContentsIsSequence
  <2> QED BY <2>3 DEF Init, Queue!Init
<1> QED BY <1>1, InitInv, NextStep, PTL DEF Spec, ImplementsQueue, Queue!Spec
=============================================================================
