------------------------- MODULE VirtualNetworkProofs -------------------------
(***************************************************************************)
(* For every number of slots, chunks, updates under way, revisions and     *)
(* addresses: the reassembly of configurations is type correct and         *)
(* implements ManagedConfig, the tap has the addresses of the adopted      *)
(* configuration, none is erased that is not there, a restart resumes what *)
(* the network had, lwIP's table has an entry for each address and no more *)
(* until one is withdrawn, and the node is subscribed to the groups the    *)
(* tap has reported.                                                       *)
(***************************************************************************)
EXTENDS VirtualNetwork, TapAddressesProofs

-----------------------------------------------------------------------------
(* The inductive invariant of the reassembly.                              *)

\* Chunks of one update were cut from one revision, each within its length.
Agree(f) ==
  /\ \A k \in f : k.index \in 1..Size[k.rev]
  /\ \A k, l \in f : k.update = l.update => k.rev = l.rev

\* A slot has counted what it holds, and what it holds of an update that can
\* still be completed is of that update's revision.
Holds(c, f) ==
  /\ c.haveBytes = Cardinality(c.have)
  /\ \A k \in f : k.update = c.updateId =>
       \A i \in c.have : i \in 1..Size[k.rev] /\ c.data[i] = k.rev

\* A slot's update can still be completed: its id is not drawn again.
Awaits(c, f) == c.updateId # 0 => \E k \in f : k.update = c.updateId

Assembling ==
  /\ Agree(flight)
  /\ \A s \in Slot : Holds(slots[s], flight) /\ Awaits(slots[s], flight)

IInv == TypeOK /\ Assembling

-----------------------------------------------------------------------------
\* The constants, as the provers want them.
LEMMA Constants ==
  /\ \A r \in Rev : r \in Nat /\ r # 0 /\ Size[r] \in Nat /\ 1 <= Size[r] /\ Size[r] <= MaxChunks
  /\ 0 \notin UpdateId
  /\ MaxChunks \in Nat
PROOF
  BY RevAssumption, ChunksAssumption, IdAssumption

\* An empty slot is a slot that holds nothing and waits for nothing.
LEMMA EmptySlotHolds ==
  ASSUME NEW t \in Nat, NEW f \in SUBSET ConfigChunk
  PROVE  LET e == [EmptySlot EXCEPT !.ts = t]
         IN e \in IncomingConfigChunk /\ Holds(e, f) /\ Awaits(e, f)
PROOF
<1>1. [EmptySlot EXCEPT !.ts = t] =
        [ts |-> t, updateId |-> 0, have |-> {}, haveBytes |-> 0, data |-> Stale]
  BY DEF EmptySlot
<1>2. Stale \in [1..MaxChunks -> Rev \cup {0}]
  BY DEF Stale
<1> DEFINE e == [ts |-> t, updateId |-> 0, have |-> {}, haveBytes |-> 0, data |-> Stale]
<1>3. e \in IncomingConfigChunk
  BY <1>2, Constants DEF IncomingConfigChunk
<1>4. Holds(e, f)
  <2>1. Cardinality({}) = 0
    BY FS_EmptySet
  <2>2. e.have = {} /\ e.haveBytes = 0
    OBVIOUS
  <2> HIDE DEF e
  <2>3. QED
    BY <2>1, <2>2 DEF Holds
<1>5. Awaits(e, f)
  BY DEF Awaits
<1>6. QED
  BY <1>1, <1>3, <1>4, <1>5

\* What Settle keeps of a table of slots is a table of slots that hold what
\* they should, of updates that can still be completed.
LEMMA SettleHolds ==
  ASSUME NEW ss \in [Slot -> IncomingConfigChunk],
         flight \subseteq ConfigChunk, flight' \subseteq flight,
         \A s \in Slot : Holds(ss[s], flight)
  PROVE  /\ Settle(ss) \in [Slot -> IncomingConfigChunk]
         /\ \A s \in Slot : Holds(Settle(ss)[s], flight') /\ Awaits(Settle(ss)[s], flight')
PROOF
<1> DEFINE down == IF \E s \in Slot : ss[s].ts = 0 THEN 0 ELSE 1
           out(s) == IF OnTheWay(ss[s].updateId)
                     THEN [ss[s] EXCEPT !.ts = @ - down]
                     ELSE [EmptySlot EXCEPT !.ts = ss[s].ts - down]
<1>1. Settle(ss) = [s \in Slot |-> out(s)]
  BY DEF Settle
<1>2. ASSUME NEW s \in Slot
      PROVE  /\ out(s) \in IncomingConfigChunk
             /\ Holds(out(s), flight') /\ Awaits(out(s), flight')
  <2>1. ss[s] \in IncomingConfigChunk
    OBVIOUS
  <2>2. ss[s].ts - down \in Nat
    BY <2>1 DEF IncomingConfigChunk
  <2> HIDE DEF down
  <2>3. CASE ~OnTheWay(ss[s].updateId)
    BY <2>2, <2>3, EmptySlotHolds
  <2>4. CASE OnTheWay(ss[s].updateId)
    <3>1. out(s) = [ss[s] EXCEPT !.ts = ss[s].ts - down]
      BY <2>4, <2>1 DEF IncomingConfigChunk
    <3>2. out(s) = [ts |-> ss[s].ts - down, updateId |-> ss[s].updateId,
                    have |-> ss[s].have, haveBytes |-> ss[s].haveBytes, data |-> ss[s].data]
      BY <3>1, <2>1, SMTT(30) DEF IncomingConfigChunk
    <3> HIDE DEF out
    <3>3. out(s) \in IncomingConfigChunk
      BY <3>2, <2>1, <2>2 DEF IncomingConfigChunk
    <3>4. Holds(ss[s], flight)
      OBVIOUS
    <3>5. Holds(out(s), flight')
      BY <3>2, <3>4 DEF Holds
    <3>6. Awaits(out(s), flight')
      BY <3>2, <2>4 DEF Awaits, OnTheWay
    <3>7. QED
      BY <3>3, <3>5, <3>6
  <2>5. QED
    BY <2>3, <2>4
<1> HIDE DEF out
<1>3. QED
  BY <1>1, <1>2

\* handleConfigChunk: the slot as it is claimed for a chunk's update holds what
\* it should.
LEMMA ClaimHolds ==
  ASSUME IInv, NEW s \in Slot, NEW u \in UpdateId
  PROVE  LET c == Claim(Touch(slots[s]), u)
         IN /\ c \in IncomingConfigChunk
            /\ c.updateId = u
            /\ Holds(c, flight)
            /\ c.have # {} => c.have = slots[s].have /\ slots[s].updateId = u
PROOF
<1> DEFINE o == slots[s]
           t == [ts |-> o.ts + 1, updateId |-> o.updateId, have |-> o.have,
                 haveBytes |-> o.haveBytes, data |-> o.data]
           n == [ts |-> o.ts + 1, updateId |-> u, have |-> {}, haveBytes |-> 0, data |-> Stale]
<1>1. o \in IncomingConfigChunk /\ Holds(o, flight)
  BY DEF IInv, TypeOK, Assembling
<1>2. Touch(o) = t
  BY <1>1 DEF Touch, IncomingConfigChunk
<1>3. t \in IncomingConfigChunk /\ Holds(t, flight)
  BY <1>1 DEF IncomingConfigChunk, Holds
<1>4. CASE o.updateId = u
  <2>1. Claim(Touch(o), u) = t
    BY <1>2, <1>4 DEF Claim
  <2>2. QED
    BY <2>1, <1>3, <1>4
<1>5. CASE o.updateId # u
  <2>1. Claim(Touch(o), u) = n
    BY <1>2, <1>5 DEF Claim
  <2>2. n \in IncomingConfigChunk
    BY <1>1, Constants DEF IncomingConfigChunk, Stale
  <2>3. Cardinality({}) = 0
    BY FS_EmptySet
  <2>4. n.have = {} /\ n.haveBytes = 0 /\ n.updateId = u
    OBVIOUS
  <2> HIDE DEF n
  <2>5. Holds(n, flight)
    BY <2>3, <2>4 DEF Holds
  <2>6. QED
    BY <2>1, <2>2, <2>4, <2>5
<1>6. QED
  BY <1>4, <1>5

\* handleConfigChunk: with a chunk more it still does, and when the chunk
\* completes the update it holds a configuration the controller issued.
LEMMA StoreHolds ==
  ASSUME IInv, NEW k \in flight, NEW c \in IncomingConfigChunk,
         c.updateId = k.update, Holds(c, flight), k.index \notin c.have
  PROVE  LET d == Store(c, k)
         IN /\ d \in IncomingConfigChunk
            /\ Holds(d, flight)
            /\ d.haveBytes = Size[k.rev] => SubSeq(d.data, 1, d.haveBytes) = M!Whole(k.rev)
PROOF
<1> DEFINE d == [ts |-> c.ts, updateId |-> c.updateId, have |-> c.have \cup {k.index},
                 haveBytes |-> c.haveBytes + 1, data |-> [c.data EXCEPT ![k.index] = k.rev]]
           n == Size[k.rev]
<1>1. /\ k \in ConfigChunk /\ k.index \in 1..n
      /\ \A l \in flight : l.update = k.update => l.rev = k.rev
  BY DEF IInv, TypeOK, Assembling, Agree
<1>2. k.rev \in Rev /\ n \in Nat /\ 1 <= n /\ n <= MaxChunks /\ MaxChunks \in Nat /\ k.index \in 1..MaxChunks
  BY <1>1, Constants DEF ConfigChunk
<1> HIDE DEF n
<1>3. Store(c, k) = d
  BY DEF Store
<1>4. c.have \subseteq 1..MaxChunks
  BY DEF IncomingConfigChunk
<1>5. IsFiniteSet(1..MaxChunks) /\ Cardinality(1..MaxChunks) = MaxChunks
  BY <1>2, FS_Interval
<1>6. IsFiniteSet(c.have)
  BY <1>4, <1>5, FS_Subset, Zenon
<1>7. Cardinality(d.have) = Cardinality(c.have) + 1
  BY <1>6, FS_AddElement, Zenon
<1>8. d.have \subseteq 1..MaxChunks
  BY <1>4, <1>2
<1>9. Cardinality(d.have) <= MaxChunks
  BY <1>8, <1>5, FS_Subset, Zenon
<1>10. d.haveBytes = Cardinality(d.have)
  BY <1>7 DEF Holds
<1>11. d.haveBytes \in 0..MaxChunks
  BY <1>9, <1>10, <1>2, SMTT(30) DEF IncomingConfigChunk
<1>12. d.data \in [1..MaxChunks -> Rev \cup {0}]
  BY <1>2 DEF IncomingConfigChunk
<1>13. d \in IncomingConfigChunk
  BY <1>8, <1>11, <1>12, SMTT(30) DEF IncomingConfigChunk
<1>14. \A i \in d.have : i \in 1..n /\ d.data[i] = k.rev
  <2>1. \A i \in c.have : i \in 1..n /\ c.data[i] = k.rev
    BY DEF Holds, n
  <2>2. c.data \in [1..MaxChunks -> Rev \cup {0}]
    BY DEF IncomingConfigChunk
  <2>3. QED
    BY <2>1, <2>2, <1>1, <1>2, <1>4, SMTT(30)
<1>15. Holds(d, flight)
  BY <1>10, <1>14, <1>1, SMTT(30) DEF Holds, n
<1>16. ASSUME d.haveBytes = n
       PROVE  SubSeq(d.data, 1, n) = M!Whole(k.rev)
  <2>1. IsFiniteSet(1..n) /\ Cardinality(1..n) = n
    BY <1>2, FS_Interval
  <2>2. d.have \in SUBSET (1..n)
    BY <1>14
  <2>3. d.have = 1..n
    BY <2>1, <2>2, <1>10, <1>16, FS_Subset, Zenon
  <2>4. \A i \in 1..n : d.data[i] = k.rev
    BY <2>3, <1>14
  <2> HIDE DEF d
  <2>5. SubSeq(d.data, 1, n) = [i \in 1..n |-> d.data[i]]
    BY <1>2, <1>12, SMTT(30)
  <2>6. QED
    BY <2>4, <2>5 DEF M!Whole, n
<1>17. QED
  BY <1>3, <1>13, <1>15, <1>16, SMTT(30) DEF n

\* handleConfigChunk: whatever a chunk does to the slots keeps them in order, and
\* what it does to the configuration is nothing, or the adoption of the
\* revision it was cut from.
LEMMA ChunkHandled ==
  ASSUME IInv, NEW k \in flight, flight' \subseteq flight, handleConfigChunk(k)
  PROVE  /\ slots' \in [Slot -> IncomingConfigChunk]
         /\ \A s \in Slot : Holds(slots'[s], flight') /\ Awaits(slots'[s], flight')
         /\ stamp' \in UpdateId \cup {0}
         /\ k.rev \in Rev
         /\ UNCHANGED cfgvars \/ M!setConfiguration(M!Whole(k.rev))
PROOF
<1>1. /\ k \in ConfigChunk /\ flight \subseteq ConfigChunk
      /\ slots \in [Slot -> IncomingConfigChunk] /\ stamp \in UpdateId \cup {0}
      /\ \A s \in Slot : Holds(slots[s], flight)
  BY DEF IInv, TypeOK, Assembling
<1>2. k.update \in UpdateId /\ k.rev \in Rev
  BY <1>1 DEF ConfigChunk
<1>3. CASE Ignore
  <2>1. slots' = Settle(slots) /\ stamp' = Stamp(stamp) /\ UNCHANGED cfgvars
    BY <1>3 DEF Ignore
  <2>2. QED
    BY <2>1, <1>1, <1>2, SettleHolds DEF Stamp
<1>4. ASSUME NEW s \in Slot, AddChunk(s, k),
             ~(slots[s].updateId = k.update /\ k.index \in slots[s].have)
      PROVE  /\ slots' \in [Slot -> IncomingConfigChunk]
             /\ \A t \in Slot : Holds(slots'[t], flight') /\ Awaits(slots'[t], flight')
             /\ stamp' \in UpdateId \cup {0}
             /\ UNCHANGED cfgvars \/ M!setConfiguration(M!Whole(k.rev))
  <2> DEFINE c == Claim(Touch(slots[s]), k.update)
             d == Store(c, k)
             full == Cardinality(c.have) >= MaxChunks
             done == ~full /\ d.haveBytes = Size[k.rev] /\ stamp # k.update
  <2>1. /\ c \in IncomingConfigChunk /\ c.updateId = k.update /\ Holds(c, flight)
        /\ k.index \notin c.have
    BY <1>4, <1>2, ClaimHolds, SMTT(30)
  <2>2. /\ slots' = Settle([slots EXCEPT ![s] = IF full THEN c ELSE d])
        /\ IF done
           THEN M!setConfiguration(SubSeq(d.data, 1, d.haveBytes)) /\ stamp' = Stamp(k.update)
           ELSE UNCHANGED cfgvars /\ stamp' = Stamp(stamp)
    BY <1>4, SMTT(30) DEF AddChunk
  <2> HIDE DEF c
  <2>3. /\ d \in IncomingConfigChunk /\ Holds(d, flight)
        /\ d.haveBytes = Size[k.rev] => SubSeq(d.data, 1, d.haveBytes) = M!Whole(k.rev)
    BY <2>1, StoreHolds
  <2> HIDE DEF d
  <2> DEFINE e == IF full THEN c ELSE d
             ss == [slots EXCEPT ![s] = e]
  <2>4. e \in IncomingConfigChunk /\ Holds(e, flight)
    BY <2>1, <2>3
  <2> HIDE DEF e
  <2>5. ss \in [Slot -> IncomingConfigChunk] /\ \A t \in Slot : Holds(ss[t], flight)
    BY <2>4, <1>1
  <2>6. slots' = Settle(ss)
    BY <2>2 DEF e
  <2> HIDE DEF ss
  <2>7. /\ slots' \in [Slot -> IncomingConfigChunk]
        /\ \A t \in Slot : Holds(slots'[t], flight') /\ Awaits(slots'[t], flight')
    BY <2>5, <2>6, <1>1, SettleHolds
  <2>8. stamp' \in UpdateId \cup {0}
    BY <2>2, <1>1, <1>2, SMTT(30) DEF Stamp
  <2>9. UNCHANGED cfgvars \/ M!setConfiguration(M!Whole(k.rev))
    <3>1. CASE done
      <4>1. M!setConfiguration(SubSeq(d.data, 1, d.haveBytes))
        BY <2>2, <3>1
      <4>2. SubSeq(d.data, 1, d.haveBytes) = M!Whole(k.rev)
        BY <2>3, <3>1
      <4>3. QED
        BY <4>1, <4>2, Zenon
    <3>2. CASE ~done
      BY <2>2, <3>2
    <3>3. QED
      BY <3>1, <3>2
  <2>10. QED
    BY <2>7, <2>8, <2>9
<1>5. Ignore \/ \E s \in Slot : /\ AddChunk(s, k)
                                /\ ~(slots[s].updateId = k.update /\ k.index \in slots[s].have)
  BY DEF handleConfigChunk
<1>6. QED
  BY <1>2, <1>3, <1>4, <1>5

-----------------------------------------------------------------------------
(* The adopted configuration.                                              *)

CfgType ==
  /\ net \in {"none", "up", "leaving", "closing"}
  /\ phase \in {"idle", "port", "save"}
  /\ config \in Seq(Rev) /\ work \in Seq(Rev) /\ disk \in Seq(Rev)

\* The steps of ManagedConfig keep its types.
LEMMA CfgTyped ==
  ASSUME CfgType, M!Next \/ UNCHANGED cfgvars
  PROVE  CfgType'
PROOF
<1>1. CASE UNCHANGED cfgvars
  BY <1>1 DEF CfgType, cfgvars
<1>2. CASE M!Network
  BY <1>2 DEF M!Network, CfgType
<1>3. ASSUME NEW r \in Rev, M!setConfiguration(M!Whole(r))
      PROVE  CfgType'
  <2>1. M!Whole(r) \in Seq(Rev)
    BY Constants DEF M!Whole
  <2> DEFINE w == M!Whole(r)
  <2> HIDE DEF w
  <2>2. M!setConfiguration(w) /\ w \in Seq(Rev)
    BY <1>3, <2>1 DEF w
  <2>3. QED
    BY <2>2 DEF M!setConfiguration, CfgType
<1>4. CASE M!ConfigurePort
  BY <1>4 DEF M!ConfigurePort, CfgType
<1>5. CASE M!SaveToDisk
  BY <1>5 DEF M!SaveToDisk, CfgType
<1>6. CASE M!Destroy
  BY <1>6 DEF M!Destroy, CfgType
<1>7. CASE M!ClosePort
  BY <1>7 DEF M!ClosePort, CfgType
<1>8. CASE M!Dies
  <2>1. net' = "none" /\ phase' = "idle" /\ config' = << >> /\ work' = << >>
    BY <1>8 DEF M!Dies
  <2>2. disk' = disk \/ \E n \in 0..Len(work) : disk' = SubSeq(work, 1, n)
    BY <1>8 DEF M!Dies
  <2>3. ASSUME NEW n \in 0..Len(work) PROVE SubSeq(work, 1, n) \in Seq(Rev)
    <3>1. \A j \in 1..n : work[j] \in Rev
      BY DEF CfgType
    <3>2. QED
      BY <3>1, SubSeqProperties
  <2>4. disk' \in Seq(Rev)
    BY <2>2, <2>3, SMTT(30) DEF CfgType
  <2>5. QED
    BY <2>1, <2>4 DEF CfgType
<1>9. QED
  BY <1>1, <1>2, <1>3, <1>4, <1>5, <1>6, <1>7, <1>8, SMTT(30) DEF M!Next

\* A step leaves the invariant in force, and is a step of ManagedConfig or none.
LEMMA UpdateStep ==
  ASSUME IInv, Next
  PROVE  IInv' /\ (M!Next \/ UNCHANGED cfgvars)
PROOF
<1> USE DEF Assembling
<1>1. CfgType
  BY DEF IInv, TypeOK, CfgType
<1>2. SUFFICES /\ M!Next \/ UNCHANGED cfgvars
               /\ current' \in Rev
               /\ flight' \subseteq ConfigChunk /\ Agree(flight')
               /\ slots' \in [Slot -> IncomingConfigChunk]
               /\ stamp' \in UpdateId \cup {0}
               /\ \A s \in Slot : Holds(slots'[s], flight') /\ Awaits(slots'[s], flight')
  BY <1>1, <1>2, CfgTyped, SMTT(30) DEF IInv, TypeOK, CfgType
<1>3. /\ current \in Rev /\ flight \subseteq ConfigChunk /\ Agree(flight)
      /\ slots \in [Slot -> IncomingConfigChunk] /\ stamp \in UpdateId \cup {0}
      /\ \A s \in Slot : Holds(slots[s], flight) /\ Awaits(slots[s], flight)
  BY DEF IInv, TypeOK
<1>4. CASE Change
  BY <1>3, <1>4 DEF Change
<1>5. CASE Lose
  <2>1. flight' \subseteq flight /\ Ignore /\ current' = current
    BY <1>5 DEF Lose
  <2>2. slots' = Settle(slots) /\ stamp' = Stamp(stamp) /\ UNCHANGED cfgvars
    BY <2>1 DEF Ignore
  <2>3. Agree(flight') /\ flight' \subseteq ConfigChunk
    BY <2>1, <1>3 DEF Agree
  <2>4. stamp' \in UpdateId \cup {0}
    BY <2>2, <1>3 DEF Stamp
  <2>5. QED
    BY <2>1, <2>2, <2>3, <2>4, <1>3, SettleHolds, SMTT(30)
<1>6. CASE requestConfiguration
  <2>1. UNCHANGED <<cfgvars, current, slots, stamp>> /\ ncSendConfig
    BY <1>6 DEF requestConfiguration
  <2>2. PICK u \in UnusedIds :
          flight' = flight \cup [update : {u}, index : 1..Size[current], rev : {current}]
    BY <2>1 DEF ncSendConfig
  <2> DEFINE new == [update : {u}, index : 1..Size[current], rev : {current}]
  <2>3. u \in UpdateId /\ u # 0 /\ \A k \in flight : k.update # u
    BY <2>2, Constants DEF UnusedIds
  <2>4. \A k \in new : k \in ConfigChunk /\ k.update = u /\ k.rev = current /\ k.index \in 1..Size[current]
    BY <2>3, <1>3, Constants DEF ConfigChunk
  <2>5. flight' = flight \cup new
    BY <2>2
  <2> HIDE DEF new
  <2>6. flight' \subseteq ConfigChunk
    BY <2>4, <2>5, <1>3
  <2>7. Agree(flight')
    <3>1. \A k \in flight' : k.index \in 1..Size[k.rev]
      BY <2>4, <2>5, <1>3 DEF Agree
    <3>2. \A k, l \in flight' : k.update = l.update => k.rev = l.rev
      BY <2>3, <2>4, <2>5, <1>3 DEF Agree
    <3>3. QED
      BY <3>1, <3>2 DEF Agree
  <2>8. ASSUME NEW s \in Slot PROVE Holds(slots[s], flight') /\ Awaits(slots[s], flight')
    <3>1. Awaits(slots[s], flight) /\ Holds(slots[s], flight)
      BY <1>3
    <3>2. slots[s].updateId # u
      BY <3>1, <2>3 DEF Awaits
    <3>3. Holds(slots[s], flight')
      BY <3>1, <3>2, <2>4, <2>5 DEF Holds
    <3>4. Awaits(slots[s], flight')
      BY <3>1, <2>5 DEF Awaits
    <3>5. QED
      BY <3>3, <3>4
  <2>9. QED
    BY <2>1, <2>6, <2>7, <2>8, <1>3, SMTT(30)
<1>7. ASSUME NEW k \in flight, handleConfigChunk(k), flight' \subseteq flight, current' = current
      PROVE  /\ M!Next \/ UNCHANGED cfgvars
             /\ flight' \subseteq ConfigChunk /\ Agree(flight')
             /\ slots' \in [Slot -> IncomingConfigChunk]
             /\ stamp' \in UpdateId \cup {0}
             /\ \A s \in Slot : Holds(slots'[s], flight') /\ Awaits(slots'[s], flight')
  <2>1. Agree(flight') /\ flight' \subseteq ConfigChunk
    BY <1>7, <1>3 DEF Agree
  <2>2. QED
    BY <1>7, <2>1, ChunkHandled DEF M!Next
<1>8. CASE Deliver
  <2>1. PICK k \in flight : flight' = flight \ {k} /\ handleConfigChunk(k)
    BY <1>8 DEF Deliver
  <2>2. current' = current
    BY <2>1 DEF handleConfigChunk
  <2>3. QED
    BY <2>1, <2>2, <1>3, <1>7
<1>9. CASE DeliverAgain
  <2>1. PICK k \in flight : flight' = flight /\ handleConfigChunk(k)
    BY <1>9 DEF DeliverAgain
  <2>2. current' = current
    BY <2>1 DEF handleConfigChunk
  <2>3. QED
    BY <2>1, <2>2, <1>3, <1>7
<1>10. ASSUME M!Next, Apart
       PROVE  /\ current' \in Rev
              /\ flight' \subseteq ConfigChunk /\ Agree(flight')
              /\ slots' \in [Slot -> IncomingConfigChunk]
              /\ stamp' \in UpdateId \cup {0}
              /\ \A s \in Slot : Holds(slots'[s], flight') /\ Awaits(slots'[s], flight')
  BY <1>10, <1>3 DEF Apart
<1>11. CASE ConfigurePort \/ SaveToDisk \/ Destroy \/ ClosePort \/ Network
  <2>1. M!Next /\ Apart
    BY <1>11 DEF ConfigurePort, SaveToDisk, Destroy, ClosePort, Network, M!Next
  <2>2. QED
    BY <2>1, <1>10
<1>12. CASE Dies
  <2>1. M!Next /\ Renew
    BY <1>12 DEF Dies, M!Next
  <2>2. slots' = [s \in Slot |-> EmptySlot] /\ stamp' = 0 /\ current' = current /\ flight' = flight
    BY <2>1 DEF Renew, EmptySlots
  <2>3. [EmptySlot EXCEPT !.ts = 0] = EmptySlot
    BY DEF EmptySlot
  <2>4. EmptySlot \in IncomingConfigChunk /\ Holds(EmptySlot, flight) /\ Awaits(EmptySlot, flight)
    BY <2>3, <1>3, EmptySlotHolds
  <2>5. QED
    BY <2>1, <2>2, <2>4, <1>3
<1>13. QED
  BY <1>4, <1>5, <1>6, <1>8, <1>9, <1>11, <1>12, SMTT(30) DEF Next

\* The invariant holds initially, and the initial states are ManagedConfig's.
LEMMA UpdateInit ==
  ASSUME Init
  PROVE  IInv /\ M!Init
PROOF
<1>1. /\ M!Init /\ current \in Rev /\ flight = {} /\ stamp = 0
      /\ slots = [s \in Slot |-> EmptySlot]
  BY DEF Init, EmptySlots
<1>2. [EmptySlot EXCEPT !.ts = 0] = EmptySlot
  BY DEF EmptySlot
<1>3. EmptySlot \in IncomingConfigChunk /\ Holds(EmptySlot, {}) /\ Awaits(EmptySlot, {})
  BY <1>2, EmptySlotHolds
<1>4. TypeOK
  BY <1>1, <1>3 DEF TypeOK, M!Init
<1>5. Assembling
  BY <1>1, <1>3 DEF Assembling, Agree
<1>6. QED
  BY <1>1, <1>4, <1>5 DEF IInv

\* Type correctness of the reassembly, with its invariant (Network.cpp,
\* handleConfigChunk).
THEOREM TypeCorrect == Spec => []TypeOK
PROOF
<1>1. Init => IInv
  BY UpdateInit
<1>2. IInv /\ [Next]_vars => IInv'
  <2> SUFFICES ASSUME IInv, [Next]_vars PROVE IInv'
    OBVIOUS
  <2>1. CASE Next
    BY <2>1, UpdateStep
  <2>2. CASE UNCHANGED vars
    BY <2>2 DEF vars, cfgvars, IInv, TypeOK, Assembling
  <2>3. QED
    BY <2>1, <2>2
<1>3. IInv => TypeOK
  BY DEF IInv
<1>4. QED
  BY <1>1, <1>2, <1>3, PTL DEF Spec

\* However chunks are lost, repeated and reordered, and whenever the application
\* joins and leaves or the process dies, only whole configurations the
\* controller issued are adopted: handleConfigChunk implements ManagedConfig.
THEOREM UpdatesAdoptWhole == Spec => AdoptsWhole
PROOF
<1>1. Init => IInv /\ M!Init
  BY UpdateInit
<1>2. IInv /\ [Next]_vars => IInv' /\ [M!Next]_(M!cfgvars)
  <2> SUFFICES ASSUME IInv, [Next]_vars PROVE IInv' /\ [M!Next]_(M!cfgvars)
    OBVIOUS
  <2>1. CASE Next
    BY <2>1, UpdateStep, SMTT(30) DEF cfgvars, M!cfgvars
  <2>2. CASE UNCHANGED vars
    BY <2>2 DEF vars, cfgvars, M!cfgvars, IInv, TypeOK, Assembling
  <2>3. QED
    BY <2>1, <2>2
<1>3. QED
  BY <1>1, <1>2, PTL DEF Spec, AdoptsWhole, M!Spec

-----------------------------------------------------------------------------
(* The tap.                                                                *)

\* What the service believes of the tap is true, and a setConfiguration under
\* way is at work with the configuration of the network there is.  The service
\* thread does one thing at a time: it never scans in the midst of
\* setConfiguration.
TapInv ==
  /\ managedIps = tapIps /\ tapIps \subseteq Address
  /\ phase # "idle" => net # "none" /\ work = config
  /\ phase = "idle" \/ changes = << >>
  /\ AddressesFollow
  /\ ErasesPresent
  /\ RestartResumes

\* What a configuration brings to the tap are addresses.
LEMMA BringsAddresses ==
  ASSUME NEW c \in Seq(Rev)
  PROVE  Allowed(StaticIps(c)) \subseteq Address
PROOF
<1>1. CASE c # << >> /\ Len(c) = Size[c[Len(c)]]
  <2>1. c[Len(c)] \in Rev
    BY <1>1, EmptySeq
  <2>2. StaticIps(c) = Assigned[c[Len(c)]]
    BY <1>1 DEF StaticIps
  <2>3. QED
    BY <2>1, <2>2, AssignedAssumption DEF Allowed
<1>2. CASE ~(c # << >> /\ Len(c) = Size[c[Len(c)]])
  BY <1>2 DEF StaticIps, Allowed
<1>3. QED
  BY <1>1, <1>2

\* syncManagedStuff, when what it believes is true, makes the tap's addresses
\* those it is given, and erases none that is not there.
LEMMA SyncExact ==
  ASSUME managedIps = tapIps, NEW A, syncManagedStuff(A)
  PROVE  tapIps' = Allowed(A) /\ managedIps' = Allowed(A) /\ ErasesPresent'
PROOF
<1> DEFINE new == Allowed(A)
           gone == managedIps \ new
           come == new \ managedIps
<1> HIDE DEF new
<1>1. /\ tapIps' = (tapIps \ gone) \cup come /\ managedIps' = new
      /\ broken' = IF ~(gone \subseteq tapIps) THEN "erase"
                   ELSE IF netifs' > NetifSlots THEN "table"
                   ELSE "no"
  BY DEF syncManagedStuff, addIp, removeIp, new
<1>2. gone \subseteq tapIps
  OBVIOUS
<1>3. broken' # "erase"
  BY <1>1, <1>2
<1>4. tapIps' = new
  BY <1>1, SMTT(30)
<1>5. QED
  BY <1>1, <1>3, <1>4 DEF new, ErasesPresent

\* Steps that do not touch the tap keep the invariant.
LEMMA AsideStep ==
  ASSUME IInv, TapInv, UNCHANGED tapvars,
         \/ UNCHANGED cfgvars
         \/ changes = << >> /\ \E c : M!setConfiguration(c)
         \/ M!SaveToDisk
         \/ M!Destroy \/ M!ClosePort
  PROVE  TapInv'
PROOF
<1> USE DEF TapInv, AddressesFollow, ErasesPresent, RestartResumes, Sound, tapvars
<1>1. CASE UNCHANGED cfgvars
  BY <1>1, SMTT(30) DEF cfgvars
<1>2. ASSUME changes = << >>, NEW c, M!setConfiguration(c) PROVE TapInv'
  BY <1>2 DEF M!setConfiguration
<1>3. CASE M!SaveToDisk
  BY <1>3 DEF M!SaveToDisk
<1>4. CASE M!Destroy \/ M!ClosePort
  BY <1>4 DEF M!Destroy, M!ClosePort
<1>5. QED
  BY <1>1, <1>2, <1>3, <1>4, SMTT(30)

\* Every step keeps the invariant.
LEMMA TapStep ==
  ASSUME IInv, TapInv, IInv', SNext
  PROVE  TapInv'
PROOF
<1> USE DEF AddressesFollow, ErasesPresent, RestartResumes, Sound
<1>1. /\ net \in {"none", "up", "leaving", "closing"} /\ phase \in {"idle", "port", "save"}
      /\ work \in Seq(Rev) /\ config' \in Seq(Rev)
  BY DEF IInv, TypeOK
<1>2. CASE (Change \/ Lose) /\ UNCHANGED tapvars
  <2>1. UNCHANGED cfgvars
    BY <1>2 DEF Change, Lose, Ignore
  <2>2. QED
    BY <1>2, <2>1, AsideStep
<1>3. CASE Ask
  <2>1. UNCHANGED tapvars /\ UNCHANGED cfgvars
    BY <1>3 DEF Ask, Aside, requestConfiguration
  <2>2. QED
    BY <2>1, AsideStep
<1>4. CASE Receive \/ ReceiveAgain
  <2>1. UNCHANGED tapvars /\ changes = << >>
    BY <1>4 DEF Receive, ReceiveAgain, Aside, Free
  <2>2. PICK k \in flight : handleConfigChunk(k) /\ flight' \subseteq flight
    BY <1>4 DEF Receive, ReceiveAgain, Aside, Deliver, DeliverAgain
  <2>3. UNCHANGED cfgvars \/ M!setConfiguration(M!Whole(k.rev))
    BY <2>2, ChunkHandled
  <2>4. QED
    BY <2>1, <2>3, AsideStep
<1>5. CASE Save \/ Leave \/ PortDown
  <2>1. UNCHANGED tapvars /\ (M!SaveToDisk \/ M!Destroy \/ M!ClosePort)
    BY <1>5 DEF Save, Leave, PortDown, Aside, SaveToDisk, Destroy, ClosePort
  <2>2. QED
    BY <2>1, AsideStep
<1>6. CASE Scan \/ Subscribe
  <2>1. /\ tapIps' = tapIps /\ managedIps' = managedIps /\ broken' = broken
        /\ phase = "idle" \/ changes' = << >>
    BY <1>6 DEF Scan, Subscribe, scanMulticastGroups, multicastSync
  <2>2. net' = net /\ config' = config /\ phase' = phase /\ work' = work /\ disk' = disk
    BY <1>6 DEF Scan, Subscribe, vars, cfgvars
  <2>3. QED
    BY <2>1, <2>2 DEF TapInv
<1>7. CASE PortUpdate
  <2>1. /\ phase = "port" /\ phase' = "save"
        /\ net' = net /\ config' = config /\ work' = work /\ changes' = changes
        /\ syncManagedStuff(StaticIps(work))
    BY <1>7 DEF PortUpdate, ConfigurePort, M!ConfigurePort, syncManagedStuff
  <2>2. tapIps' = Allowed(StaticIps(work)) /\ managedIps' = tapIps' /\ ErasesPresent'
    BY <2>1, SyncExact, SMTT(30) DEF TapInv
  <2>3. work = config /\ net # "none" /\ changes = << >>
    BY <2>1 DEF TapInv
  <2>4. tapIps' \subseteq Address
    BY <2>2, <1>1, BringsAddresses
  <2>5. AddressesFollow'
    BY <2>1, <2>2, <2>3, Zenon DEF StaticIps, Allowed, checkIfManagedIsAllowed
  <2>6. QED
    BY <2>1, <2>2, <2>3, <2>4, <2>5, SMTT(30) DEF TapInv
<1>8. CASE PortUp
  <2>1. /\ net = "none" /\ net' = "up" /\ config' = disk
        /\ phase' = phase /\ work' = work /\ disk' = disk /\ changes' = changes
        /\ syncManagedStuff(StaticIps(config'))
    BY <1>8 DEF PortUp, Network, M!Network, syncManagedStuff
  <2>2. tapIps' = Allowed(StaticIps(config')) /\ managedIps' = tapIps' /\ ErasesPresent'
    BY <2>1, SyncExact DEF TapInv
  <2>3. tapIps' \subseteq Address /\ phase = "idle"
    BY <2>1, <2>2, <1>1, BringsAddresses DEF TapInv
  <2>4. AddressesFollow'
    BY <2>2 DEF StaticIps, Allowed
  <2>5. QED
    BY <2>1, <2>2, <2>3, <2>4, SMTT(30) DEF TapInv
<1>9. CASE Crash
  <2>1. /\ net' = "none" /\ phase' = "idle" /\ tapIps' = {} /\ managedIps' = {}
        /\ broken' = broken /\ changes' = << >>
    BY <1>9 DEF Crash, Dies, M!Dies, TapDies
  <2>2. QED
    BY <2>1 DEF TapInv
<1>10. QED
  BY <1>2, <1>3, <1>4, <1>5, <1>6, <1>7, <1>8, <1>9, SMTT(30) DEF SNext

\* The composed system takes only steps of the update protocol: the tap never
\* changes what it does.
THEOREM Composed == SSpec => Spec
PROOF
<1>1. SInit => Init
  BY DEF SInit
<1>2. [SNext]_svars => [Next]_vars
  BY DEF SNext, Next, Ask, Receive, ReceiveAgain, PortUpdate, Save, Scan, Subscribe,
         PortUp, Leave, PortDown, Crash, Aside, svars
<1>3. QED
  BY <1>1, <1>2, PTL DEF SSpec, Spec

\* Init establishes the invariants, and every step, stuttering too, keeps them.
LEMMA TapInvariant == SSpec => [](IInv /\ TapInv)
PROOF
<1>1. SInit => IInv /\ TapInv
  <2> SUFFICES ASSUME SInit PROVE IInv /\ TapInv
    OBVIOUS
  <2>1. IInv
    BY UpdateInit DEF SInit
  <2>2. TapInv
    BY DEF SInit, Init, M!Init, NoTap, TapInv, AddressesFollow, ErasesPresent,
           RestartResumes, Sound
  <2>3. QED
    BY <2>1, <2>2
<1>2. IInv /\ TapInv /\ [SNext]_svars => (IInv /\ TapInv)'
  <2> SUFFICES ASSUME IInv, TapInv, [SNext]_svars
               PROVE  IInv' /\ TapInv'
    OBVIOUS
  <2>1. CASE SNext
    <3>1. Next \/ UNCHANGED vars
      BY <2>1, SMTT(30) DEF SNext, Next, Ask, Receive, ReceiveAgain, PortUpdate, Save, Scan,
                  Subscribe, PortUp, Leave, PortDown, Crash, Aside
    <3>2. IInv'
      BY <3>1, UpdateStep DEF vars, cfgvars, IInv, TypeOK, Assembling
    <3>3. QED
      BY <2>1, <3>2, TapStep, SMTT(30)
  <2>2. CASE UNCHANGED svars
    <3>1. IInv'
      BY <2>2, SMTT(30) DEF svars, vars, cfgvars, IInv, TypeOK, Assembling
    <3>2. TapInv'
      BY <2>2, AsideStep DEF svars, vars
    <3>3. QED
      BY <3>1, <3>2, SMTT(30)
  <2>3. QED
    BY <2>1, <2>2, SMTT(30)
<1>3. QED
  BY <1>1, <1>2, PTL DEF SSpec

\* The tap has exactly the addresses the adopted configuration assigns and the
\* settings allow (OneService.cpp, syncManagedStuff).
THEOREM TapFollowsConfig == SSpec => []AddressesFollow
PROOF
<1>1. TapInv => AddressesFollow
  BY DEF TapInv
<1>2. QED
  BY <1>1, TapInvariant, PTL

\* removeIp is never given an address the tap does not have (VirtualTap.cpp).
THEOREM RemovesOnlyPresent == SSpec => []ErasesPresent
PROOF
<1>1. TapInv => ErasesPresent
  BY DEF TapInv
<1>2. QED
  BY <1>1, TapInvariant, PTL

\* Outside setConfiguration the file has what the network has, whatever chunks
\* arrive and also while the application leaves, so that the next start resumes
\* it (Network.cpp, setConfiguration and the constructor; Node.cpp, leave).
THEOREM FileIsCurrent == SSpec => []RestartResumes
PROOF
<1>1. TapInv => RestartResumes
  BY DEF TapInv
<1>2. QED
  BY <1>1, TapInvariant, PTL

-----------------------------------------------------------------------------
(* lwIP's table of interfaces.                                             *)

\* Sets of addresses are finite, and their sizes are numbers.
LEMMA AddressesFinite ==
  ASSUME NEW A \in SUBSET Address
  PROVE  IsFiniteSet(A) /\ Cardinality(A) \in Nat
PROOF
  BY TapAssumption, FS_Subset, FS_CardinalityType

EntryInv == netifs \in Nat /\ EntryPerAddress

\* syncManagedStuff registers each address that comes once, and as long as none
\* goes it registers none twice.
LEMMA SyncCounts ==
  ASSUME EntryInv, managedIps = tapIps, tapIps \subseteq Address,
         NEW A, Allowed(A) \subseteq Address, syncManagedStuff(A)
  PROVE  EntryInv'
PROOF
<1> DEFINE new == Allowed(A)
           gone == tapIps \ new
           come == new \ tapIps
<1>1. /\ tapIps' = new /\ netifs' = netifs + Cardinality(come)
      /\ broken' = IF netifs' > NetifSlots THEN "table" ELSE "no"
  <2>1. tapIps' = new
    BY SyncExact
  <2>2. QED
    BY <2>1 DEF syncManagedStuff, lwip_init_interface
<1>2. ~withdrawn' => ~withdrawn /\ gone = {}
  BY Zenon DEF syncManagedStuff
<1> HIDE DEF new
<1>3. new \subseteq Address /\ come \subseteq Address /\ tapIps \cup come \subseteq Address
  BY DEF new
<1>4. /\ IsFiniteSet(new) /\ IsFiniteSet(come) /\ IsFiniteSet(tapIps)
      /\ IsFiniteSet(tapIps \cup come)
      /\ Cardinality(new) \in Nat /\ Cardinality(come) \in Nat /\ Cardinality(tapIps) \in Nat
  BY <1>3, AddressesFinite
<1>5. Cardinality(tapIps \cup come) = Cardinality(tapIps) + Cardinality(come)
  <2>1. tapIps \cap come = {}
    OBVIOUS
  <2> HIDE DEF come
  <2>2. Cardinality(tapIps \cup come)
          = Cardinality(tapIps) + Cardinality(come) - Cardinality(tapIps \cap come)
    BY <1>4, FS_Union
  <2>3. Cardinality(tapIps \cap come) = 0
    BY <2>1, FS_EmptySet
  <2>4. QED
    BY <1>4, <2>2, <2>3
<1>6. Cardinality(new) <= Cardinality(tapIps \cup come)
  <2>1. new \subseteq tapIps \cup come
    OBVIOUS
  <2>2. QED
    BY <2>1, <1>4, FS_Subset
<1>7. ~withdrawn' => Cardinality(new) = Cardinality(tapIps \cup come)
  <2>1. ~withdrawn' => new = tapIps \cup come
    BY <1>2
  <2>2. QED
    BY <2>1, Zenon
<1>8. netifs \in Nat /\ Cardinality(tapIps) <= netifs /\ (~withdrawn => netifs = Cardinality(tapIps))
  BY DEF EntryInv, EntryPerAddress
<1> HIDE DEF come, gone
<1>9. netifs' \in Nat /\ Cardinality(tapIps') <= netifs'
  BY <1>1, <1>4, <1>5, <1>6, <1>8
<1>10. ASSUME ~withdrawn' PROVE netifs' = Cardinality(tapIps')
  BY <1>1, <1>2, <1>5, <1>7, <1>8, <1>10
<1>11. broken' = "table" <=> netifs' > NetifSlots
  BY <1>1
<1>12. QED
  BY <1>9, <1>10, <1>11, Zenon DEF EntryInv, EntryPerAddress

\* Every step keeps the count.
LEMMA EntryStep ==
  ASSUME IInv, TapInv, IInv', EntryInv, [SNext]_svars
  PROVE  EntryInv'
PROOF
<1>1. work \in Seq(Rev) /\ config' \in Seq(Rev)
  BY DEF IInv, TypeOK
<1>2. ASSUME UNCHANGED <<tapIps, netifs, withdrawn, broken>> PROVE EntryInv'
  BY <1>2 DEF EntryInv, EntryPerAddress
<1>3. CASE UNCHANGED tapvars
  BY <1>2, <1>3, SMTT(30) DEF tapvars
<1>4. CASE Scan \/ Subscribe
  BY <1>2, <1>4 DEF Scan, Subscribe, scanMulticastGroups, multicastSync
<1>5. CASE PortUpdate
  <2>1. syncManagedStuff(StaticIps(work))
    BY <1>5 DEF PortUpdate
  <2>2. QED
    BY <2>1, <1>1, BringsAddresses, SyncCounts DEF TapInv
<1>6. CASE PortUp
  <2>1. syncManagedStuff(StaticIps(config'))
    BY <1>6 DEF PortUp
  <2>2. QED
    BY <2>1, <1>1, BringsAddresses, SyncCounts DEF TapInv
<1>7. CASE Crash
  <2>1. tapIps' = {} /\ netifs' = 0 /\ broken' = "no"
    BY <1>7 DEF Crash, TapDies, Sound
  <2>2. Cardinality({}) = 0
    BY FS_EmptySet
  <2>3. QED
    BY <2>1, <2>2, TapAssumption DEF EntryInv, EntryPerAddress
<1>8. CASE \/ (Change \/ Lose) /\ UNCHANGED tapvars
           \/ Ask \/ Receive \/ ReceiveAgain \/ Save \/ Leave \/ PortDown
  BY <1>3, <1>8 DEF Ask, Receive, ReceiveAgain, Save, Leave, PortDown, Aside
<1>9. CASE UNCHANGED svars
  BY <1>3, <1>9 DEF svars
<1>10. QED
  BY <1>4, <1>5, <1>6, <1>7, <1>8, <1>9, SMTT(30) DEF SNext

\* lwIP has an entry for each address of the tap, and none to spare until one is
\* withdrawn, whatever updates come and however often: its table is run over
\* exactly by more addresses than it has entries, or by addresses that come and
\* go (lwIP.cpp, lwip_init_interface; OneService.cpp, syncManagedStuff).
THEOREM EntriesCounted == SSpec => []EntryPerAddress
PROOF
<1>1. SInit => EntryInv
  BY FS_EmptySet, TapAssumption DEF SInit, NoTap, EntryInv, EntryPerAddress
<1>2. IInv /\ TapInv /\ IInv' /\ EntryInv /\ [SNext]_svars => EntryInv'
  BY EntryStep
<1>3. EntryInv => EntryPerAddress
  BY DEF EntryInv
<1>4. QED
  BY <1>1, <1>2, <1>3, TapInvariant, PTL DEF SSpec

-----------------------------------------------------------------------------
(* The groups the node is subscribed to.                                   *)

\* The node is subscribed to what the tap has reported, or will be once it has
\* been told what is pending: the service thread scans only when nothing is.
GroupInv ==
  /\ Known(groups)
  /\ Free => mine = Range(groups)
  /\ ~Free => (mine \cup changes[1]) \ changes[2] = Range(groups)

\* A scan makes what is pending the difference to the last report.
LEMMA ScanKeeps ==
  ASSUME GroupInv, tapIps \subseteq Address, Scan
  PROVE  GroupInv'
PROOF
<1> DEFINE new == TapGroups[tapIps]
           come == Range(new) \ Range(groups)
           gone == Range(groups) \ Range(new)
<1>1. Free /\ Known(groups) /\ mine = Range(groups)
  BY DEF GroupInv, Scan, Free, scanMulticastGroups
<1>2. Known(new)
  BY DEF Known
<1>3. /\ changes' = IF come \cup gone = {} THEN << >> ELSE <<come, gone>>
      /\ groups' = new /\ mine' = mine
  <2>1. NotFoundIn(new, groups) = come /\ NotFoundIn(groups, new) = gone
    BY <1>1, <1>2, Reports
  <2>2. QED
    BY <2>1, SMTT(30) DEF Scan, scanMulticastGroups
<1> HIDE DEF new
<1>4. CASE come \cup gone = {}
  <2>1. Free' /\ Range(groups') = Range(groups)
    BY <1>3, <1>4, Zenon DEF Free
  <2>2. QED
    BY <2>1, <1>1, <1>2, <1>3 DEF GroupInv
<1>5. CASE come \cup gone # {}
  <2>1. changes' = <<come, gone>> /\ ~Free'
    BY <1>3, <1>5 DEF Free
  <2>2. (mine' \cup changes'[1]) \ changes'[2] = (mine \cup come) \ gone
    BY <1>3, <2>1, SMTT(30)
  <2>3. (mine \cup come) \ gone = Range(new)
    BY <1>1
  <2>4. QED
    BY <2>1, <2>2, <2>3, <1>2, <1>3, Zenon DEF GroupInv
<1>6. QED
  BY <1>4, <1>5, SMTT(30)

\* Every step keeps the invariant.
LEMMA GroupStep ==
  ASSUME IInv, TapInv, GroupInv, [SNext]_svars
  PROVE  GroupInv'
PROOF
<1>1. Known(<< >>) /\ Range(<< >>) = {}
  BY DEF Known, Range
<1>2. ASSUME UNCHANGED <<groups, changes, mine>> PROVE GroupInv'
  BY <1>2 DEF GroupInv, Free
<1>3. CASE Scan
  BY <1>3, ScanKeeps DEF TapInv
<1>4. CASE Subscribe
  <2>1. /\ ~Free /\ Free' /\ groups' = groups
        /\ mine' = (mine \cup changes[1]) \ changes[2]
    BY <1>4 DEF Subscribe, multicastSync, Free
  <2>2. QED
    BY <2>1 DEF GroupInv
<1>5. CASE PortUpdate \/ PortUp
  BY <1>2, <1>5 DEF PortUpdate, PortUp, syncManagedStuff
<1>6. CASE Crash
  <2>1. groups' = << >> /\ mine' = {} /\ Free'
    BY <1>6 DEF Crash, TapDies, Free
  <2>2. QED
    BY <1>1, <2>1 DEF GroupInv
<1>7. CASE UNCHANGED tapvars
  BY <1>2, <1>7, SMTT(30) DEF tapvars
<1>8. CASE \/ (Change \/ Lose) /\ UNCHANGED tapvars
           \/ Ask \/ Receive \/ ReceiveAgain \/ Save \/ Leave \/ PortDown
  BY <1>7, <1>8 DEF Ask, Receive, ReceiveAgain, Save, Leave, PortDown, Aside
<1>9. CASE UNCHANGED svars
  BY <1>7, <1>9 DEF svars
<1>10. QED
  BY <1>3, <1>4, <1>5, <1>6, <1>8, <1>9, SMTT(30) DEF SNext

\* The node is subscribed to exactly the groups the tap has reported, although
\* std::unique leaves duplicates behind in the vectors scanMulticastGroups
\* searches (VirtualTap.cpp, scanMulticastGroups; OneService.cpp, the main
\* loop).
THEOREM SubscribedAsReported == SSpec => []SubscribesReported
PROOF
<1>1. SInit => GroupInv
  BY DEF SInit, NoTap, GroupInv, Known, Free, Range
<1>2. IInv /\ TapInv /\ GroupInv /\ [SNext]_svars => GroupInv'
  BY GroupStep
<1>3. GroupInv => SubscribesReported
  BY DEF GroupInv, SubscribesReported
<1>4. QED
  BY <1>1, <1>2, <1>3, TapInvariant, PTL DEF SSpec
=============================================================================
