---------------------------- MODULE LwipRxProofs ----------------------------
(***************************************************************************)
(* Proofs about LwipRx for every buffer size, mailbox size, per-call limit *)
(* and set of addresses.  The inductive invariant adds to the properties   *)
(* what the callback's locals say of the receive buffer (Window), where    *)
(* the pbufs in the mailbox come from (Provenance) and, for one interface, *)
(* that every pointer waiting somewhere holds a reference of its own       *)
(* (Held).                                                                 *)
(***************************************************************************)
EXTENDS LwipRx, FiniteSetTheorems, SequenceTheorems, TLAPS

\* While the callback runs, the frames it has handled and the turns left add up
\* to the limit, and the waiting frames lie inside the array.
Window ==
  /\ routed + tot = Len(cached)
  /\ pkt_num + tot <= RxBufSize
  /\ lock = "none" => pkt_num = 0
  /\ lock = "callback" => pkt_num + loop_score = FramesPerCall

\* Waiting frame j of the receive buffer is frame routed + j of the cached ones.
Backlog == \A j \in 1..tot : rxbuf[pkt_num + j] = cached[routed + j]

\* Frames are cached in the order of their allocation, the one lwip_eth_rx holds
\* is the newest, and the mailbox holds only frames the callback has handled.
Provenance ==
  /\ \A i, j \in 1..Len(cached) : i < j => cached[i] < cached[j]
  /\ rx # 0 => rx = Len(ref) /\ \A i \in 1..Len(cached) : cached[i] < rx
  /\ \A k \in 1..Len(mbox) :
       mbox[k] # 0 => \E i \in 1..routed : cached[i] = mbox[k]

\* With one interface every pbuf somebody will still use is referenced, and no
\* pbuf is in the mailbox twice.
Held ==
  Len(netifs) <= 1 =>
    /\ rx # 0 => ref[rx] > 0
    /\ \A i \in 1..Len(cached) : i > routed => ref[cached[i]] > 0
    /\ \A k \in 1..Len(mbox) : mbox[k] # 0 => ref[mbox[k]] > 0
    /\ \A k, l \in 1..Len(mbox) : k # l /\ mbox[k] = mbox[l] => mbox[k] = 0

USE DEF cbvars

IInv == TypeOK /\ Window /\ Backlog /\ Provenance /\ Held
-----------------------------------------------------------------------------
\* Nothing has happened at the start.
LEMMA InitIInv == Init => IInv
BY SizeAssumption DEF Init, IInv, TypeOK, Window, Backlog, Provenance, Held, Pbuf

\* An interface more.
LEMMA InterfaceStep ==
  ASSUME IInv, NEW ip \in V4 \cup V6, lwip_init_interface(ip)
  PROVE  IInv'
<1>1. netifs \in Seq(V4 \cup V6)
  BY DEF IInv, TypeOK
<1>2. /\ Append(netifs, ip) \in Seq(V4 \cup V6)
      /\ Len(Append(netifs, ip)) = Len(netifs) + 1 /\ Len(netifs) \in Nat
  BY <1>1
<1>3. netifs' \in Seq(V4 \cup V6) /\ (Len(netifs') <= 1 => Len(netifs) <= 1)
  BY <1>1, <1>2 DEF lwip_init_interface
<1> QED BY Zenon, <1>3 DEF lwip_init_interface, IInv, TypeOK, Window, Backlog, Provenance, Held, Pbuf

\* A frame arrives.
LEMMA AllocStep ==
  ASSUME IInv, NEW h \in HeaderKinds, RxAlloc(h)
  PROVE  IInv'
<1>1. h \in Headers
  BY HeaderAssumption
<1>2. /\ header' \in Seq(Headers) /\ ref' \in Seq(Int) /\ Len(ref) \in Nat
      /\ Len(header') = Len(ref') /\ Len(ref') = Len(ref) + 1
      /\ \A p \in Pbuf : ref'[p] = ref[p]
      /\ ref'[Len(ref) + 1] = 1
  BY <1>1 DEF IInv, TypeOK, RxAlloc, Pbuf
<1>3. Pbuf \subseteq Pbuf' /\ rx' \in Pbuf' /\ rx' = Len(ref')
  BY <1>2 DEF Pbuf, RxAlloc
<1>4. TypeOK'
  <2>1. rxbuf' \in [1..RxBufSize -> {0} \cup Pbuf']
    BY Zenon, <1>3 DEF IInv, TypeOK, RxAlloc
  <2>2. mbox' \in Seq({0} \cup Pbuf') /\ cached' \in Seq(Pbuf')
    <3>1. mbox \in Seq({0} \cup Pbuf) /\ cached \in Seq(Pbuf)
          /\ UNCHANGED <<mbox, cached>>
      BY DEF IInv, TypeOK, RxAlloc
    <3>2. {0} \cup Pbuf \subseteq {0} \cup Pbuf'
      BY <1>3
    <3> QED BY <1>3, <3>1, <3>2, SeqMonotonic
  <2> QED BY <1>2, <1>3, <2>1, <2>2 DEF IInv, TypeOK, RxAlloc
<1>5. Window' /\ Backlog'
  BY DEF IInv, Window, Backlog, RxAlloc
<1>6. \A i \in 1..Len(cached) : cached[i] \in Pbuf
  BY DEF IInv, TypeOK
<1>7. \A k \in 1..Len(mbox) : mbox[k] # 0 => mbox[k] \in Pbuf
  BY DEF IInv, TypeOK
<1>8. Provenance'
  BY <1>2, <1>3, <1>6 DEF IInv, Provenance, RxAlloc, Pbuf
<1>9. Held'
  <2>1. rx' # 0 => ref'[rx'] > 0
    BY <1>2 DEF RxAlloc
  <2>2. UNCHANGED <<netifs, mbox, cached, routed>>
    BY DEF RxAlloc
  <2> QED BY <1>2, <1>6, <1>7, <2>1, <2>2, Zenon DEF IInv, Held
<1> QED BY <1>4, <1>5, <1>8, <1>9 DEF IInv

\* A frame is forgotten for want of an interface.
LEMMA NoInterfaceStep ==
  ASSUME IInv, RxNoInterface
  PROVE  IInv'
BY DEF RxNoInterface, IInv, TypeOK, Window, Backlog, Provenance, Held, Pbuf

\* A frame is cached.
LEMMA CacheStep ==
  ASSUME IInv, RxCache
  PROVE  IInv'
<1> USE SizeAssumption
<1>1. CASE tot < RxBufSize
  <2>1. /\ rxbuf' = [rxbuf EXCEPT ![tot + 1] = rx] /\ tot' = tot + 1
        /\ cached' = Append(cached, rx) /\ rx' = 0
        /\ UNCHANGED <<wild, netifs, header, ref, mbox, lock, pkt_num, loop_score, routed>>
        /\ rx # 0 /\ lock = "none"
    BY <1>1 DEF RxCache
  <2>2. rx \in Pbuf /\ tot \in Nat /\ tot + 1 \in 1..RxBufSize /\ routed \in Nat
    BY <1>1, <2>1 DEF IInv, TypeOK
  <2>3. /\ cached \in Seq(Pbuf) /\ Len(cached) \in Nat
        /\ cached' \in Seq(Pbuf) /\ Len(cached') = Len(cached) + 1
        /\ \A i \in 1..Len(cached) : cached'[i] = cached[i]
        /\ cached'[Len(cached) + 1] = rx
    BY <2>1, <2>2 DEF IInv, TypeOK
  <2>4. TypeOK'
    BY <2>1, <2>2, <2>3 DEF IInv, TypeOK, Pbuf
  <2>5. Window'
    BY <2>1, <2>2, <2>3 DEF IInv, Window
  <2>6. pkt_num = 0 /\ routed + tot = Len(cached)
    BY <2>1 DEF IInv, Window
  <2>7. Backlog'
    <3> SUFFICES ASSUME NEW j \in 1..(tot + 1)
                 PROVE  rxbuf'[0 + j] = cached'[routed + j]
      BY <2>1, <2>6, Zenon DEF Backlog
    <3>0. 0 + j = j
      OBVIOUS
    <3>1. rxbuf'[j] = IF j = tot + 1 THEN rx ELSE rxbuf[j]
      <4>1. rxbuf \in [1..RxBufSize -> {0} \cup Pbuf] /\ j \in 1..RxBufSize
        BY <2>2 DEF IInv, TypeOK
      <4> QED BY <2>1, <4>1
    <3>2. CASE j = tot + 1
      BY <2>2, <2>3, <2>6, <3>0, <3>1, <3>2
    <3>3. CASE j # tot + 1
      <4>1. j \in 1..tot /\ routed + j \in 1..Len(cached)
        BY <2>2, <2>6, <3>3
      <4>2. rxbuf[0 + j] = cached[routed + j]
        BY <2>6, <4>1 DEF IInv, Backlog
      <4> QED BY <2>3, <3>0, <3>1, <3>3, <4>1, <4>2
    <3> QED BY <3>2, <3>3
  <2>8. Provenance'
    BY <2>1, <2>2, <2>3, <2>6 DEF IInv, Provenance
  <2>9. Held'
    BY <2>1, <2>2, <2>3, <2>6 DEF IInv, Held
  <2> QED BY <2>4, <2>5, <2>7, <2>8, <2>9 DEF IInv
<1>2. CASE ~(tot < RxBufSize)
  <2>1. UNCHANGED <<rxbuf, tot, cached, rx, netifs, header, ref, mbox, lock, pkt_num, loop_score, routed>>
        /\ wild' = "lwip_frame_rxbuf"
    BY <1>2 DEF RxCache
  <2> QED BY <2>1 DEF IInv, TypeOK, Window, Backlog, Provenance, Held, Pbuf
<1> QED BY <1>1, <1>2
\* main_thread asks for the callback.
LEMMA PostStep ==
  ASSUME IInv, PostCallback
  PROVE  IInv'
<1>1. mbox \in Seq({0} \cup Pbuf) /\ Len(mbox) \in Nat
  BY DEF IInv, TypeOK
<1>2. /\ mbox' \in Seq({0} \cup Pbuf) /\ Len(mbox') = Len(mbox) + 1
      /\ \A k \in 1..Len(mbox) : mbox'[k] = mbox[k]
      /\ mbox'[Len(mbox) + 1] = 0
  BY <1>1 DEF PostCallback
<1>3. UNCHANGED <<netifs, header, ref, rx, rxbuf, tot, lock, pkt_num, loop_score,
                  wild, cached, routed>>
  BY DEF PostCallback
<1>4. TypeOK' /\ Window' /\ Backlog'
  BY <1>2, <1>3 DEF IInv, TypeOK, Window, Backlog, Pbuf
<1>5. \A k \in 1..Len(mbox') : mbox'[k] # 0 => k \in 1..Len(mbox)
  BY <1>1, <1>2
<1>6. Provenance' /\ Held'
  BY <1>1, <1>2, <1>3, <1>5, Zenon DEF IInv, Provenance, Held
<1> QED BY <1>4, <1>6 DEF IInv

\* The tail of the mailbox is part of the mailbox.
LEMMA MboxTail ==
  ASSUME IInv, mbox # << >>
  PROVE  /\ Len(mbox) \in Nat \ {0} /\ Head(mbox) = mbox[1]
         /\ Tail(mbox) \in Seq({0} \cup Pbuf)
         /\ Len(Tail(mbox)) = Len(mbox) - 1
         /\ \A k \in 1..Len(Tail(mbox)) :
              k + 1 \in 1..Len(mbox) /\ Tail(mbox)[k] = mbox[k + 1]
<1>1. mbox \in Seq({0} \cup Pbuf)
  BY DEF IInv, TypeOK
<1> QED BY <1>1

\* The callback starts.
LEMMA BeginStep ==
  ASSUME IInv, CallbackBegins
  PROVE  IInv'
<1> USE SizeAssumption
<1>1. /\ mbox # << >> /\ mbox' = Tail(mbox) /\ lock = "none" /\ lock' = "callback"
      /\ pkt_num' = 0 /\ loop_score' = FramesPerCall
      /\ UNCHANGED <<netifs, header, ref, rx, rxbuf, tot, wild, cached, routed>>
  BY DEF CallbackBegins
<1>2. /\ mbox' \in Seq({0} \cup Pbuf)
      /\ \A k \in 1..Len(mbox') : k + 1 \in 1..Len(mbox) /\ mbox'[k] = mbox[k + 1]
      /\ Len(mbox') \in Nat
  BY <1>1, MboxTail
<1>3. pkt_num = 0
  BY <1>1 DEF IInv, Window
<1>4. TypeOK'
  BY <1>1, <1>2 DEF IInv, TypeOK, Pbuf
<1>5. Window' /\ Backlog'
  BY <1>1, <1>3 DEF IInv, Window, Backlog
<1>6. Provenance'
  BY <1>1, <1>2 DEF IInv, Provenance
<1>7. Held'
  BY <1>1, <1>2 DEF IInv, Held
<1> QED BY <1>4, <1>5, <1>6, <1>7 DEF IInv

\* The callback ends.
LEMMA EndStep ==
  ASSUME IInv, CallbackEnds
  PROVE  IInv'
<1> USE SizeAssumption
<1>1. /\ lock = "callback" /\ lock' = "none" /\ pkt_num' = 0 /\ loop_score' = 0
      /\ rxbuf' = Shift(pkt_num)
      /\ UNCHANGED <<netifs, header, ref, rx, tot, mbox, wild, cached, routed>>
  BY DEF CallbackEnds
<1>2. /\ pkt_num \in Nat /\ tot \in Nat /\ pkt_num + tot <= RxBufSize
      /\ rxbuf \in [1..RxBufSize -> {0} \cup Pbuf]
  BY DEF IInv, TypeOK, Window
<1>3. rxbuf' \in [1..RxBufSize -> {0} \cup Pbuf]
  BY <1>1, <1>2 DEF Shift
<1>4. \A j \in 1..tot : rxbuf'[0 + j] = rxbuf[pkt_num + j]
  BY <1>1, <1>2 DEF Shift
<1>5. TypeOK'
  BY <1>1, <1>3 DEF IInv, TypeOK, Pbuf
<1>6. Window' /\ Backlog'
  BY <1>1, <1>2, <1>4 DEF IInv, Window, Backlog
<1>7. Provenance' /\ Held'
  BY <1>1 DEF IInv, Provenance, Held
<1> QED BY <1>5, <1>6, <1>7 DEF IInv

\* The stack processes a frame.
LEMMA ProcessStep ==
  ASSUME IInv, ProcessFrame
  PROVE  IInv'
<1>1. /\ mbox # << >> /\ Head(mbox) # 0 /\ mbox' = Tail(mbox)
      /\ ref' = [ref EXCEPT ![Head(mbox)] = @ - 1]
      /\ UNCHANGED <<netifs, header, rx, rxbuf, tot, lock, pkt_num, loop_score,
                     wild, cached, routed>>
  BY DEF ProcessFrame, pbuf_free
<1>2. /\ mbox' \in Seq({0} \cup Pbuf)
      /\ \A k \in 1..Len(mbox') : k + 1 \in 1..Len(mbox) /\ mbox'[k] = mbox[k + 1]
      /\ Len(mbox') \in Nat /\ Head(mbox) = mbox[1] /\ 1 \in 1..Len(mbox)
  BY <1>1, MboxTail
<1>3. mbox[1] \in Pbuf /\ ref \in Seq(Int)
  BY <1>1, <1>2 DEF IInv, TypeOK
<1>4. /\ ref' \in Seq(Int) /\ Len(ref') = Len(ref)
      /\ \A p \in Pbuf : p # mbox[1] => ref'[p] = ref[p]
  BY <1>1, <1>2, <1>3 DEF Pbuf
<1>5. Pbuf' = Pbuf
  BY <1>4 DEF Pbuf
<1>6. TypeOK'
  BY <1>1, <1>2, <1>4, <1>5 DEF IInv, TypeOK
<1>7. Window' /\ Backlog'
  BY <1>1 DEF IInv, Window, Backlog
<1>8. Provenance'
  BY <1>1, <1>2, <1>4, SMTT(30) DEF IInv, Provenance
<1>9. PICK i \in 1..routed : cached[i] = mbox[1]
  BY <1>1, <1>2 DEF IInv, Provenance
<1>10. routed \in Nat /\ tot \in Nat /\ routed + tot = Len(cached)
  BY DEF IInv, TypeOK, Window
<1>11. i \in 1..Len(cached)
  BY <1>10
<1>12. \A j \in 1..Len(cached) : j > routed => cached[j] \in Pbuf /\ cached[j] # mbox[1]
  <2> TAKE j \in 1..Len(cached)
  <2> HAVE j > routed
  <2>1. cached[j] \in Pbuf /\ cached[i] \in Pbuf
    BY <1>11 DEF IInv, TypeOK
  <2>2. cached[i] < cached[j]
    BY <1>10, <1>11 DEF IInv, Provenance
  <2> QED BY <1>9, <2>1, <2>2 DEF Pbuf
<1>13. rx # 0 => rx \in Pbuf /\ rx # mbox[1]
  <2> HAVE rx # 0
  <2>1. rx \in Pbuf
    BY DEF IInv, TypeOK
  <2>2. cached[i] < rx
    BY <1>11 DEF IInv, Provenance
  <2> QED BY <1>3, <1>9, <2>1, <2>2 DEF Pbuf
<1>14. Held'
  <2> SUFFICES ASSUME Len(netifs) <= 1
               PROVE  Held'
    BY <1>1, SMTT(30) DEF Held
  <2>1. \A k \in 1..Len(mbox') : mbox'[k] # 0 => mbox'[k] \in Pbuf /\ mbox'[k] # mbox[1]
    BY <1>1, <1>2, SMTT(30) DEF IInv, TypeOK, Held
  <2>2. \A k, l \in 1..Len(mbox') : k # l /\ mbox'[k] = mbox'[l] => mbox'[k] = 0
    <3> TAKE k, l \in 1..Len(mbox')
    <3> HAVE k # l /\ mbox'[k] = mbox'[l]
    <3>1. k + 1 # l + 1 /\ k + 1 \in 1..Len(mbox) /\ l + 1 \in 1..Len(mbox)
          /\ mbox'[k] = mbox[k + 1] /\ mbox'[l] = mbox[l + 1]
      BY SMTT(60), <1>2
    <3> QED BY <3>1, Zenon DEF IInv, Held
  <2>3. \A k \in 1..Len(mbox') : mbox'[k] # 0 => ref'[mbox'[k]] > 0
    <3> TAKE k \in 1..Len(mbox')
    <3> HAVE mbox'[k] # 0
    <3>1. k + 1 \in 1..Len(mbox) /\ mbox'[k] = mbox[k + 1]
      BY <1>2
    <3>2. ref[mbox'[k]] > 0
      BY <3>1 DEF IInv, Held
    <3>3. ref'[mbox'[k]] = ref[mbox'[k]]
      BY <1>4, <2>1
    <3> QED BY <3>2, <3>3
  <2> QED BY <1>1, <1>4, <1>12, <1>13, <2>2, <2>3, SMTT(30) DEF IInv, Held
<1> QED BY <1>6, <1>7, <1>8, <1>14 DEF IInv
\* tcpip_input appends a pbuf to the mailbox as often as there are interfaces to
\* take it, or less.
LEMMA PostInputAppends ==
  ASSUME IInv, NEW p \in Pbuf, NEW n \in Nat, PostInput(p, n)
  PROVE  \E m \in 0..n :
           /\ mbox' \in Seq({0} \cup Pbuf) /\ Len(mbox') = Len(mbox) + m
           /\ \A k \in 1..Len(mbox) : mbox'[k] = mbox[k]
           /\ \A k \in 1..Len(mbox') : k > Len(mbox) => mbox'[k] = p
<1> USE SizeAssumption
<1>1. mbox \in Seq({0} \cup Pbuf) /\ Len(mbox) \in Nat
  BY DEF IInv, TypeOK
<1>2. PICK m \in 0..Min2(n, MboxSize - Len(mbox)) : mbox' = mbox \o [k \in 1..m |-> p]
  BY DEF PostInput
<1>3. m \in 0..n /\ m \in Nat
  BY <1>1, <1>2 DEF Min2
<1> DEFINE new == [k \in 1..m |-> p]
<1>4. new \in Seq({0} \cup Pbuf) /\ Len(new) = m /\ \A k \in 1..m : new[k] = p
  BY <1>3
<1>5. mbox' = mbox \o new
  BY <1>2
<1> HIDE DEF new
<1>6. /\ mbox' \in Seq({0} \cup Pbuf) /\ Len(mbox') = Len(mbox) + m
      /\ \A k \in 1..Len(mbox) + m :
           mbox'[k] = IF k <= Len(mbox) THEN mbox[k] ELSE new[k - Len(mbox)]
  BY ZenonT(60), <1>1, <1>4, <1>5, ConcatProperties
<1>7. /\ \A k \in 1..Len(mbox) : mbox'[k] = mbox[k]
      /\ \A k \in 1..Len(mbox') : k > Len(mbox) => mbox'[k] = p
  <2>1. m \in Nat /\ Len(mbox') = Len(mbox) + m
    BY <1>3, <1>6
  <2>2. \A k \in 1..Len(mbox) : mbox'[k] = mbox[k]
    BY <1>1, <1>6, <2>1
  <2>3. ASSUME NEW k \in 1..Len(mbox'), k > Len(mbox) PROVE mbox'[k] = p
    <3>1. k \in 1..Len(mbox) + m /\ ~(k <= Len(mbox)) /\ k - Len(mbox) \in 1..m
      BY <1>1, <2>1, <2>3
    <3>2. mbox'[k] = new[k - Len(mbox)]
      BY <1>6, <3>1
    <3> QED BY <1>4, <3>1, <3>2
  <2> QED BY <2>2, <2>3
<1> QED BY <1>3, <1>6, <1>7

\* A frame has finitely many takers, and with one interface at most one.
LEMMA TakersCount ==
  ASSUME IInv, NEW h
  PROVE  /\ Cardinality(Takers(h)) \in Nat
         /\ Len(netifs) <= 1 => Cardinality(Takers(h)) <= 1
<1>1. netifs \in Seq(V4 \cup V6) /\ Len(netifs) \in Nat
  BY DEF IInv, TypeOK
<1>2. IsFiniteSet(1..Len(netifs)) /\ Cardinality(1..Len(netifs)) = Len(netifs)
  BY <1>1, FS_Interval, SMTT(30)
<1>3. Takers(h) \subseteq 1..Len(netifs)
  BY DEF Takers
<1>4. Cardinality(Takers(h)) \in Nat /\ Cardinality(Takers(h)) <= Len(netifs)
  BY <1>1, <1>2, <1>3, FS_Subset, FS_CardinalityType
<1> QED BY <1>1, <1>4

\* The callback handles a frame.
LEMMA FrameStep ==
  ASSUME IInv, CallbackFrame
  PROVE  IInv'
<1> USE SizeAssumption
<1> DEFINE p == rxbuf[pkt_num + 1]
           n == Cardinality(Takers(header[p]))
<1>1. /\ lock = "callback" /\ tot > 0 /\ loop_score > 0
      /\ PostInput(p, n)
      /\ pkt_num' = pkt_num + 1 /\ loop_score' = loop_score - 1
      /\ tot' = tot - 1 /\ routed' = routed + 1
      /\ UNCHANGED <<netifs, header, rx, rxbuf, lock, wild, cached>>
  BY DEF CallbackFrame
<1>2. \/ ref' = ref
      \/ ref' = [ref EXCEPT ![p] = @ + 1]
  BY DEF CallbackFrame
<1>3. n \in Nat /\ (Len(netifs) <= 1 => n <= 1)
  BY TakersCount
<1>4. /\ pkt_num \in Nat /\ tot \in Nat /\ routed \in Nat /\ loop_score \in Nat
      /\ pkt_num + tot <= RxBufSize /\ routed + tot = Len(cached)
      /\ pkt_num + loop_score = FramesPerCall
      /\ Len(mbox) \in Nat /\ ref \in Seq(Int) /\ cached \in Seq(Pbuf)
  BY <1>1 DEF IInv, TypeOK, Window
<1>5. 1 \in 1..tot /\ routed + 1 \in 1..Len(cached)
  BY <1>1, <1>4
<1>6. p = cached[routed + 1] /\ p \in Pbuf
  BY <1>4, <1>5 DEF IInv, Backlog
<1> HIDE DEF p, n
<1>7. PICK m \in 0..n :
           /\ mbox' \in Seq({0} \cup Pbuf) /\ Len(mbox') = Len(mbox) + m
           /\ \A k \in 1..Len(mbox) : mbox'[k] = mbox[k]
           /\ \A k \in 1..Len(mbox') : k > Len(mbox) => mbox'[k] = p
  BY <1>1, <1>3, <1>6, PostInputAppends, Zenon
<1>8. /\ ref' \in Seq(Int) /\ Len(ref') = Len(ref)
      /\ \A x \in Pbuf : ref'[x] >= ref[x]
  <2>1. CASE ref' = ref
    BY <1>4, <2>1, SMTT(30) DEF Pbuf
  <2>2. CASE ref' = [ref EXCEPT ![p] = @ + 1]
    <3>1. p \in 1..Len(ref) /\ ref[p] \in Int /\ ref[p] + 1 \in Int
      BY <1>4, <1>6, SMTT(30) DEF Pbuf
    <3>2. ref' \in Seq(Int) /\ Len(ref') = Len(ref)
      BY <1>4, <2>2, <3>1
    <3>3. \A x \in 1..Len(ref) : ref'[x] = IF x = p THEN ref[p] + 1 ELSE ref[x]
      BY <1>4, <2>2, <3>1, SMTT(30)
    <3>4. \A x \in 1..Len(ref) : ref[x] \in Int
      BY <1>4
    <3> QED BY <3>1, <3>2, <3>3, <3>4 DEF Pbuf
  <2> QED BY <1>2, <2>1, <2>2, SMTT(30)
<1>9. Pbuf' = Pbuf /\ \A x \in Pbuf : ref[x] > 0 => ref'[x] > 0
  <2>1. \A x \in Pbuf : ref[x] \in Int /\ ref'[x] \in Int
    BY <1>4, <1>8 DEF Pbuf
  <2> QED BY <1>8, <2>1 DEF Pbuf
<1>10. TypeOK'
  BY <1>1, <1>4, <1>7, <1>8, <1>9 DEF IInv, TypeOK
<1>11. Window'
  BY <1>1, <1>4, SMTT(30) DEF IInv, Window
<1>12. Backlog'
  <2> SUFFICES ASSUME NEW j \in 1..(tot - 1)
               PROVE  rxbuf[(pkt_num + 1) + j] = cached[(routed + 1) + j]
    BY <1>1 DEF Backlog
  <2>1. j + 1 \in 1..tot /\ (pkt_num + 1) + j = pkt_num + (j + 1)
        /\ (routed + 1) + j = routed + (j + 1)
    BY <1>4
  <2> QED BY <2>1 DEF IInv, Backlog
<1>15. \A k \in 1..Len(mbox') : k \notin 1..Len(mbox) => mbox'[k] = p
  <2> TAKE k \in 1..Len(mbox')
  <2> HAVE k \notin 1..Len(mbox)
  <2>1. k > Len(mbox)
    BY <1>4
  <2> QED BY <1>7, <2>1
<1>13. Provenance'
  <2>1. \A k \in 1..Len(mbox') :
          mbox'[k] # 0 => \E i \in 1..(routed + 1) : cached[i] = mbox'[k]
    <3> TAKE k \in 1..Len(mbox')
    <3> HAVE mbox'[k] # 0
    <3>1. CASE k \in 1..Len(mbox)
      <4>1. mbox'[k] = mbox[k]
        BY <1>7, <3>1
      <4>2. PICK i \in 1..routed : cached[i] = mbox[k]
        BY <3>1, <4>1 DEF IInv, Provenance
      <4>3. i \in 1..(routed + 1)
        BY <1>4
      <4> QED BY <4>1, <4>2, <4>3
    <3>2. CASE k \notin 1..Len(mbox)
      <4>1. mbox'[k] = p /\ routed + 1 \in 1..(routed + 1)
        BY <1>4, <1>15, <3>2
      <4> QED BY <1>6, <4>1
    <3> QED BY <3>1, <3>2
  <2> QED BY <1>1, <1>8, <2>1, Zenon DEF IInv, Provenance
<1>14. Held'
  <2> SUFFICES ASSUME Len(netifs) <= 1
               PROVE  Held'
    BY <1>1 DEF Held
  <2>1. m <= 1
    BY <1>3, <1>7
  <2>2. rx # 0 => ref'[rx] > 0
    BY <1>9 DEF IInv, TypeOK, Held
  <2>3. \A i \in 1..Len(cached) : i > routed + 1 => ref'[cached[i]] > 0
    <3> TAKE i \in 1..Len(cached)
    <3> HAVE i > routed + 1
    <3>1. cached[i] \in Pbuf /\ i > routed
      BY <1>4
    <3> QED BY <1>9, <3>1 DEF IInv, Held
  <2>4. ref[p] > 0
    BY <1>4, <1>5, <1>6 DEF IInv, Held
  <2>5. ref'[p] > 0
    BY <1>6, <1>9, <2>4
  <2>6. \A k \in 1..Len(mbox') : mbox'[k] # 0 => ref'[mbox'[k]] > 0
    <3> TAKE k \in 1..Len(mbox')
    <3> HAVE mbox'[k] # 0
    <3>1. CASE k \in 1..Len(mbox)
      <4>1. mbox'[k] = mbox[k] /\ mbox[k] \in {0} \cup Pbuf
        BY <1>7, <3>1 DEF IInv, TypeOK
      <4>2. ref[mbox[k]] > 0
        BY <3>1, <4>1 DEF IInv, Held
      <4> QED BY <1>9, <4>1, <4>2
    <3>2. CASE k \notin 1..Len(mbox)
      <4>1. mbox'[k] = p
        BY <1>15, <3>2
      <4> QED BY Zenon, <2>5, <4>1
    <3> QED BY <3>1, <3>2
  <2>7. \A k \in 1..Len(mbox) : mbox[k] # p
    <3> TAKE k \in 1..Len(mbox)
    <3> SUFFICES ASSUME mbox[k] = p PROVE FALSE
      OBVIOUS
    <3>1. p # 0
      BY <1>6 DEF Pbuf
    <3>2. PICK i \in 1..routed : cached[i] = p
      BY <3>1 DEF IInv, Provenance
    <3>3. cached[i] < cached[routed + 1]
      BY <1>4, <1>5, SMTT(30) DEF IInv, Provenance
    <3> QED BY <1>6, <3>2, <3>3 DEF Pbuf
  <2>8. \A k, l \in 1..Len(mbox') : k # l /\ mbox'[k] = mbox'[l] => mbox'[k] = 0
    <3> TAKE k, l \in 1..Len(mbox')
    <3> HAVE k # l /\ mbox'[k] = mbox'[l]
    <3>1. CASE k \in 1..Len(mbox) /\ l \in 1..Len(mbox)
      BY <1>7, <3>1 DEF IInv, Held
    <3>2. CASE k \notin 1..Len(mbox) /\ l \in 1..Len(mbox)
      <4>1. mbox'[k] = p /\ mbox'[l] = mbox[l]
        BY <1>7, <1>15, <3>2
      <4> QED BY Zenon, <2>7, <3>2, <4>1
    <3>3. CASE k \in 1..Len(mbox) /\ l \notin 1..Len(mbox)
      <4>1. mbox'[k] = mbox[k] /\ mbox'[l] = p
        BY <1>7, <1>15, <3>3
      <4> QED BY Zenon, <2>7, <3>3, <4>1
    <3>4. CASE k \notin 1..Len(mbox) /\ l \notin 1..Len(mbox)
      BY <1>4, <1>7, <2>1, <3>4
    <3> QED BY <3>1, <3>2, <3>3, <3>4
  <2> QED BY <1>1, <2>2, <2>3, <2>6, <2>8 DEF Held
<1> QED BY <1>10, <1>11, <1>12, <1>13, <1>14 DEF IInv
-----------------------------------------------------------------------------
\* Every step keeps the invariant.
LEMMA NextIInv == IInv /\ [Next]_vars => IInv'
<1> SUFFICES ASSUME IInv, [Next]_vars PROVE IInv'
  OBVIOUS
<1>1. CASE UNCHANGED vars
  BY <1>1 DEF vars, IInv, TypeOK, Window, Backlog, Provenance, Held, Pbuf
<1> QED
  BY <1>1, InterfaceStep, AllocStep, NoInterfaceStep, CacheStep, PostStep, BeginStep,
     FrameStep, EndStep, ProcessStep DEF Next, TcpipThread

\* What Backlog says slot by slot makes the waiting frames the sequence of those
\* cached and not yet handled.
LEMMA BacklogIsQueue == IInv => PendingIsBacklog
<1> SUFFICES ASSUME IInv PROVE PendingIsBacklog
  OBVIOUS
<1>1. /\ cached \in Seq(Pbuf) /\ Len(cached) \in Nat /\ routed \in Nat /\ tot \in Nat
      /\ routed + tot = Len(cached)
  BY DEF IInv, TypeOK, Window
<1> DEFINE s == SubSeq(cached, routed + 1, Len(cached))
<1>2. /\ s \in Seq(Pbuf) /\ Len(s) = tot
      /\ \A j \in 1..tot : s[j] = cached[routed + j]
  <2>1. /\ routed + 1 \in 1..Len(cached) + 1 /\ Len(cached) \in routed..Len(cached)
        /\ Len(cached) - (routed + 1) + 1 = tot /\ (routed + 1) - 1 = routed
    BY <1>1
  <2>2. /\ s \in Seq(Pbuf) /\ Len(s) = tot
        /\ \A j \in 1..tot : s[j] = cached[(routed + 1) + j - 1]
    BY <1>1, <2>1, SubSeqProperties
  <2>3. \A j \in 1..tot : (routed + 1) + j - 1 = routed + j
    BY <1>1
  <2> QED BY <2>2, <2>3
<1>3. \A j \in 1..tot : cached[routed + j] \in Pbuf
  BY <1>1
<1> HIDE DEF s
<1>4. Pending \in Seq(Pbuf) /\ Len(Pending) = tot
      /\ \A j \in 1..tot : Pending[j] = cached[routed + j]
  BY <1>1, <1>3 DEF Pending, IInv, Backlog
<1>5. Pending = s
  BY <1>2, <1>4, SeqEqual
<1> QED BY <1>5 DEF s, PendingIsBacklog

\* For every size and every set of addresses the driver's state has its type:
\* no pointer leaves the receive buffer's array while nothing was written past
\* its end.
THEOREM TypeCorrect == Spec => []TypeOK
<1>1. IInv => TypeOK
  BY DEF IInv
<1> QED BY InitIInv, NextIInv, <1>1, PTL DEF Spec

\* For every size the receive buffer loses, repeats and reorders no frame,
\* whatever the interleaving of the ZeroTier thread with the stack's callback.
THEOREM ReceiveBufferIsQueue == Spec => []PendingIsBacklog
BY InitIInv, NextIInv, BacklogIsQueue, PTL DEF Spec

\* For every size, with at most one interface, no freed frame is processed.
THEOREM NoUseAfterFree == Spec => []NoFreedFrameInMbox
<1>1. IInv => NoFreedFrameInMbox
  BY DEF IInv, Held, NoFreedFrameInMbox
<1> QED BY InitIInv, NextIInv, <1>1, PTL DEF Spec
=============================================================================
