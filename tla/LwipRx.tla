------------------------------- MODULE LwipRx -------------------------------
(***************************************************************************)
(* The receive path of libzt's lwIP driver (src/libzt/src/lwIP.cpp).       *)
(* Three threads meet here.  The ZeroTier thread copies every frame from   *)
(* the wire into a pbuf and caches the pointer in the guarded receive      *)
(* buffer (lwip_eth_rx).  main_thread asks the stack, every 50 ms, to run  *)
(* my_tcpip_callback.  The stack's tcpip thread takes messages from its    *)
(* mailbox: either the request to run the callback, which moves up to      *)
(* FramesPerCall frames from the receive buffer to the mailbox, or a frame *)
(* that it processes and frees.                                            *)
(*                                                                         *)
(* A pbuf is named by the number of the frame it was allocated for.        *)
(***************************************************************************)
EXTENDS Integers, Sequences, FiniteSets

CONSTANTS V4, V6,        \* the addresses taps are given
          Broadcast,     \* 255.255.255.255
          RxBufSize,     \* LWIP_MAX_GUARDED_RX_BUF_SZ
          FramesPerCall, \* LWIP_FRAMES_HANDLED_PER_CORE_CALL
          NetifSlots,    \* the length of lwipInterfaces
          MboxSize,      \* SYS_MBOX_SIZE of the stack's port
          MaxFrames,     \* bound on the frames that arrive
          MaxNetifs,     \* bound on the registered addresses
          HeaderKinds    \* bound on the kinds of frames that arrive

ASSUME AddressAssumption ==
  /\ V4 \cap V6 = {}
  /\ Broadcast \notin V4 \cup V6

ASSUME SizeAssumption ==
  /\ RxBufSize \in Nat \ {0} /\ FramesPerCall \in Nat \ {0}
  /\ NetifSlots \in Nat \ {0} /\ MboxSize \in Nat \ {0}
  /\ MaxFrames \in Nat /\ MaxNetifs \in Nat

VARIABLES
  netifs,  \* lwipInterfaces, lwipInterfacesCount: the address of each one
  header,  \* the Ethernet type and the IPv4 destination in each pbuf
  ref,     \* the reference count of each pbuf
  rx,      \* the pbuf lwip_eth_rx is holding, 0 for none
  rxbuf,   \* lwip_frame_rxbuf, from 1; 0 is a slot that holds no pointer
  tot,     \* lwip_frame_rxbuf_tot
  mbox,    \* the stack's mailbox: pbufs to process, 0 for the callback
  lock,    \* who holds _rx_input_lock_m: "callback" or "none"
  pkt_num, loop_score,  \* the callback's locals
  wild,    \* the fixed array that was written past its end, if any
  cached,  \* history: the pbufs put into the receive buffer
  routed   \* history: how many of them the callback has handled

vars == <<netifs, header, ref, rx, rxbuf, tot, mbox, lock,
          pkt_num, loop_score, wild, cached, routed>>
cbvars == <<lock, pkt_num, loop_score>>

Headers ==
  [type : {"ip"}, dest : V4 \cup {Broadcast}]
    \cup [type : {"ipv6", "arp", "other"}, dest : {Broadcast}]

ASSUME HeaderAssumption == HeaderKinds \subseteq Headers

Pbuf == 1..Len(ref)
Min2(a, b) == IF a <= b THEN a ELSE b

Init ==
  /\ netifs = << >> /\ header = << >> /\ ref = << >> /\ rx = 0
  /\ rxbuf = [j \in 1..RxBufSize |-> 0] /\ tot = 0
  /\ mbox = << >> /\ lock = "none" /\ pkt_num = 0 /\ loop_score = 0 /\ wild = "no"
  /\ cached = << >> /\ routed = 0
-----------------------------------------------------------------------------
(* The ZeroTier threads *)

\* One more address becomes an interface of the stack, whether or not the
\* table has a slot left for it.  The count goes up last, so the callback sees
\* the interface complete or not at all.  After a write past the end of an array
\* (wild) anything may happen; the model says nothing more.
lwip_init_interface(ip) ==
  /\ wild = "no"
  /\ IF Len(netifs) < NetifSlots
     THEN netifs' = Append(netifs, ip) /\ UNCHANGED wild
     ELSE wild' = "lwipInterfaces" /\ UNCHANGED netifs
  /\ UNCHANGED <<header, ref, rx, rxbuf, tot, mbox, cbvars, cached, routed>>

\* lwip_eth_rx, first part: a frame is copied into a fresh pbuf.  When there
\* is no memory for one the frame is dropped and nothing changes.  The first
\* pbuf of a chain holds the frame or PBUF_POOL_BUFSIZE bytes of it, so the
\* return for one smaller than the Ethernet header is never taken.
RxAlloc(h) ==
  /\ wild = "no" /\ rx = 0
  /\ header' = Append(header, h)
  /\ ref' = Append(ref, 1)
  /\ rx' = Len(ref) + 1
  /\ UNCHANGED <<netifs, rxbuf, tot, mbox, cbvars, wild, cached, routed>>

\* lwip_eth_rx returns early, without the pbuf, while there is no interface.
RxNoInterface ==
  /\ wild = "no" /\ rx # 0 /\ Len(netifs) = 0
  /\ rx' = 0
  /\ UNCHANGED <<netifs, header, ref, rxbuf, tot, mbox, cbvars, wild, cached, routed>>

\* RxCache that does not wait for the lock the callback holds.
RxCacheUnlocked ==
  /\ wild = "no" /\ rx # 0 /\ Len(netifs) > 0
  /\ IF tot < RxBufSize
     THEN /\ rxbuf' = [rxbuf EXCEPT ![tot + 1] = rx]
          /\ tot' = tot + 1
          /\ cached' = Append(cached, rx)
          /\ rx' = 0
          /\ UNCHANGED wild
     ELSE wild' = "lwip_frame_rxbuf" /\ UNCHANGED <<rxbuf, tot, cached, rx>>
  /\ UNCHANGED <<netifs, header, ref, mbox, cbvars, routed>>

\* lwip_eth_rx, last part, under _rx_input_lock_m.  That the buffer is full is
\* logged, and the pointer is stored behind it all the same.
RxCache ==
  /\ wild = "no" /\ rx # 0 /\ Len(netifs) > 0
  /\ lock = "none"
  /\ IF tot < RxBufSize
     THEN /\ rxbuf' = [rxbuf EXCEPT ![tot + 1] = rx]
          /\ tot' = tot + 1
          /\ cached' = Append(cached, rx)
          /\ rx' = 0
          /\ UNCHANGED wild
     ELSE wild' = "lwip_frame_rxbuf" /\ UNCHANGED <<rxbuf, tot, cached, rx>>
  /\ UNCHANGED <<netifs, header, ref, mbox, cbvars, routed>>
-----------------------------------------------------------------------------
(* main_thread and the tcpip thread *)

\* tcpip_callback_with_block: waits while the mailbox is full.
PostCallback ==
  /\ wild = "no" /\ Len(mbox) < MboxSize
  /\ mbox' = Append(mbox, 0)
  /\ UNCHANGED <<netifs, header, ref, rx, rxbuf, tot, cbvars, wild, cached, routed>>

\* The tcpip thread takes the request for the callback, which locks
\* _rx_input_lock_m.
CallbackBegins ==
  /\ wild = "no" /\ lock = "none" /\ mbox # << >> /\ Head(mbox) = 0
  /\ mbox' = Tail(mbox)
  /\ lock' = "callback" /\ pkt_num' = 0 /\ loop_score' = FramesPerCall
  /\ UNCHANGED <<netifs, header, ref, rx, rxbuf, tot, wild, cached, routed>>

\* The interfaces the callback inputs a frame to: for IPv6 all that have an
\* IPv6 output function, for IPv4 all that have the destination address or
\* hear a broadcast, for ARP the first.
Takers(h) ==
  {i \in 1..Len(netifs) :
     \/ h.type = "ipv6" /\ netifs[i] \in V6
     \/ h.type = "ip" /\ (netifs[i] = h.dest \/ h.dest = Broadcast)
     \/ h.type = "arp" /\ i = 1}

\* Posting that waits for room, as main_thread's does.
PostAll(p, n) ==
  /\ Len(mbox) + n <= MboxSize
  /\ mbox' = mbox \o [k \in 1..n |-> p]

\* tcpip_input to n interfaces in turn.  It does not wait: when the mailbox is
\* full, or there is no memory for the message, it fails, and the loop over the
\* interfaces ends.
PostInput(p, n) ==
  \E m \in 0..Min2(n, MboxSize - Len(mbox)) : mbox' = mbox \o [k \in 1..m |-> p]

\* CallbackFrame whose loop runs once more than loop_score allows.
CallbackFrameOneMore ==
  /\ wild = "no" /\ lock = "callback" /\ tot > 0 /\ loop_score >= 0
  /\ LET p == rxbuf[pkt_num + 1]
         n == Cardinality(Takers(header[p])) IN
       /\ PostInput(p, n)
       /\ ref' = IF header[p].type = "arp" /\ n > 0 THEN [ref EXCEPT ![p] = @ + 1]
                 ELSE ref
  /\ pkt_num' = pkt_num + 1 /\ loop_score' = loop_score - 1
  /\ tot' = tot - 1
  /\ routed' = routed + 1
  /\ UNCHANGED <<netifs, header, rx, rxbuf, lock, wild, cached>>

\* CallbackFrame that frees the frame it has handed over.
CallbackFrameFrees ==
  /\ wild = "no" /\ lock = "callback" /\ tot > 0 /\ loop_score > 0
  /\ LET p == rxbuf[pkt_num + 1]
         n == Cardinality(Takers(header[p])) IN
       /\ PostInput(p, n)
       /\ ref' = [ref EXCEPT ![p] = @ - 1]
  /\ pkt_num' = pkt_num + 1 /\ loop_score' = loop_score - 1
  /\ tot' = tot - 1
  /\ routed' = routed + 1
  /\ UNCHANGED <<netifs, header, rx, rxbuf, lock, wild, cached>>

\* One turn of the callback's loop.  Only the ARP branch takes a reference for
\* the interface it hands the pbuf to.
CallbackFrame ==
  /\ wild = "no" /\ lock = "callback" /\ tot > 0 /\ loop_score > 0
  /\ LET p == rxbuf[pkt_num + 1]
         n == Cardinality(Takers(header[p])) IN
       /\ PostInput(p, n)
       /\ ref' = IF header[p].type = "arp" /\ n > 0 THEN [ref EXCEPT ![p] = @ + 1]
                 ELSE ref
  /\ pkt_num' = pkt_num + 1 /\ loop_score' = loop_score - 1
  /\ tot' = tot - 1
  /\ routed' = routed + 1
  /\ UNCHANGED <<netifs, header, rx, rxbuf, lock, wild, cached>>

\* memmove of the array by n frames.  Its length is the array's size less n
\* bytes, not n pointers, so it reads past the end; what arrives in the last n
\* slots is junk, no pointer to a pbuf.
Shift(n) ==
  [j \in 1..RxBufSize |-> IF j + n <= RxBufSize THEN rxbuf[j + n] ELSE 0]

\* The callback closes the gap in the receive buffer and releases the lock.
CallbackEnds ==
  /\ wild = "no" /\ lock = "callback" /\ ~(tot > 0 /\ loop_score > 0)
  /\ rxbuf' = Shift(pkt_num)
  /\ lock' = "none" /\ pkt_num' = 0 /\ loop_score' = 0
  /\ UNCHANGED <<netifs, header, ref, rx, tot, mbox, wild, cached, routed>>

\* One reference less; the last one gives the memory back.
pbuf_free(p) == ref' = [ref EXCEPT ![p] = @ - 1]

\* The tcpip thread processes a frame (ethernet_input) and frees it.
ProcessFrame ==
  /\ wild = "no" /\ lock = "none" /\ mbox # << >> /\ Head(mbox) # 0
  /\ pbuf_free(Head(mbox))
  /\ mbox' = Tail(mbox)
  /\ UNCHANGED <<netifs, header, rx, rxbuf, tot, cbvars, wild, cached, routed>>
-----------------------------------------------------------------------------
TcpipThread == CallbackBegins \/ CallbackFrame \/ CallbackEnds \/ ProcessFrame

Next ==
  \/ \E ip \in V4 \cup V6 : Len(netifs) < MaxNetifs /\ lwip_init_interface(ip)
  \/ \E h \in HeaderKinds : Len(ref) < MaxFrames /\ RxAlloc(h)
  \/ RxNoInterface
  \/ RxCache
  \/ PostCallback
  \/ TcpipThread

Spec == Init /\ [][Next]_vars

\* main_thread wakes up again and again, and the tcpip thread runs whenever it
\* has a message or a callback to go on with.
FairSpec ==
  /\ Spec
  /\ WF_vars(PostCallback)
  /\ WF_vars(TcpipThread)
-----------------------------------------------------------------------------
\* Type invariant of the driver's state.
TypeOK ==
  /\ netifs \in Seq(V4 \cup V6)
  /\ header \in Seq(Headers) /\ ref \in Seq(Int)
  /\ Len(header) = Len(ref)
  /\ rx \in {0} \cup Pbuf
  /\ rxbuf \in [1..RxBufSize -> {0} \cup Pbuf]
  /\ tot \in 0..RxBufSize
  /\ mbox \in Seq({0} \cup Pbuf)
  /\ lock \in {"none", "callback"}
  /\ pkt_num \in 0..FramesPerCall /\ loop_score \in 0..FramesPerCall
  /\ wild \in {"no", "lwip_frame_rxbuf", "lwipInterfaces"}
  /\ cached \in Seq(Pbuf)
  /\ routed \in Nat

\* The pointers waiting in the receive buffer: behind pkt_num while the
\* callback runs, because it moves the array only once, at its end.
Pending == [j \in 1..tot |-> rxbuf[pkt_num + j]]

\* The receive buffer is a queue across every interleaving of lwip_eth_rx with
\* the callback: the waiting pointers are exactly the frames cached and not yet
\* handled, in the order of their arrival, although the array is moved only
\* once per call and by a byte count that is not its length.
PendingIsBacklog == Pending = SubSeq(cached, routed + 1, Len(cached))

\* The stack never processes a frame that was freed already, as long as there
\* is at most one interface my_tcpip_callback can give a frame to.
NoFreedFrameInMbox ==
  Len(netifs) <= 1 =>
    \A k \in 1..Len(mbox) : mbox[k] # 0 => ref[mbox[k]] > 0

\* Every cached frame is handled in the end: the per-call limit delays frames
\* and loses none, and the tcpip thread never blocks on its own mailbox.
CachedFramesAreRouted ==
  \A n \in 1..MaxFrames : Len(cached) >= n ~> (routed >= n \/ wild # "no")

\* "will be cached in the receive frame buffer of the size
\* LWIP_MAX_GUARDED_RX_BUF_SZ" (libztDefs.h): no pointer is stored outside it.
CachedInsideBuffer == wild # "lwip_frame_rxbuf"

\* "all pbufs in a chain are referenced at least once" (pbuf.c, pbuf_free): the
\* tcpip thread never frees a pbuf that has no reference left.
FreedPbufsAreReferenced == \A p \in Pbuf : ref[p] >= 0
=============================================================================
