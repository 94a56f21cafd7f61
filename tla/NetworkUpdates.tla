---------------------------- MODULE NetworkUpdates ----------------------------
(***************************************************************************)
(* How a network gets its configuration                                    *)
(* (src/libzt/ext/ZeroTierOne/node/Network.cpp and Node.cpp).  The node    *)
(* asks its controller; the controller answers with the configuration cut  *)
(* into signed chunks that all carry one update id.  The wires lose,       *)
(* reorder and repeat chunks, and several updates may be under way.        *)
(* handleConfigChunk puts them together in a small table of slots.         *)
(*                                                                         *)
(* Packets, the background task and setConfiguration are the work of one   *)
(* thread, busy while phase is not "idle"; join and leave are called in    *)
(* the application's.  Time is left out: the next request may be due at    *)
(* any moment.  A request and its answer are one step: a request that is   *)
(* lost is an answer all of whose chunks are lost.                         *)
(***************************************************************************)
EXTENDS Integers, Sequences, FiniteSets

CONSTANTS
  Rev, Size,   \* the revisions and their numbers of chunks
  UpdateId,    \* update ids, a set of non-zero numbers
  NSlots,      \* ZT_NETWORK_MAX_INCOMING_UPDATES
  MaxChunks,   \* ZT_NETWORK_MAX_UPDATE_CHUNKS
  MaxFlight    \* bound: updates under way at once

ASSUME RevAssumption == Rev \subseteq Nat \ {0}
ASSUME ChunksAssumption == MaxChunks \in Nat /\ Size \in [Rev -> 1..MaxChunks]
ASSUME IdAssumption == UpdateId \subseteq Nat \ {0}
ASSUME BoundAssumption == NSlots \in Nat \ {0} /\ MaxFlight \in Nat \ {0}

VARIABLES
  net, config, phase, work, disk,  \* see ManagedConfig
  current,  \* the revision the controller has now
  flight,   \* chunks on the wires
  slots,    \* _incomingConfigChunks
  stamp     \* for _config.timestamp, which each answer has its own of: the
            \* update config came from while a chunk of it may be repeated, or 0

M == INSTANCE ManagedConfig

cfgvars == <<net, config, phase, work, disk>>
vars == <<cfgvars, current, flight, slots, stamp>>

Slot == 1..NSlots

\* A chunk: its update's id, its place and, for its bytes and the total
\* length, the revision it was cut from.
ConfigChunk == [update : UpdateId, index : 1..MaxChunks, rev : Rev]

\* A slot.  "have" stands for haveChunkIds and haveChunks, and haveBytes counts
\* chunks.  0 in data: bytes that are not of this update, left by an earlier one.
IncomingConfigChunk ==
  [ts : Nat, updateId : UpdateId \cup {0}, have : SUBSET (1..MaxChunks),
   haveBytes : 0..MaxChunks, data : [1..MaxChunks -> Rev \cup {0}]]

Stale == [i \in 1..MaxChunks |-> 0]

EmptySlot ==
  [ts |-> 0, updateId |-> 0, have |-> {}, haveBytes |-> 0, data |-> Stale]

EmptySlots == [s \in Slot |-> EmptySlot]

Init ==
  /\ M!Init
  /\ current \in Rev
  /\ flight = {}
  /\ slots = EmptySlots
  /\ stamp = 0

-----------------------------------------------------------------------------
(* The controller and the wires.                                           *)

\* The network's administrator changes its configuration.
Change ==
  /\ current' \in Rev \ {current}
  /\ UNCHANGED <<cfgvars, flight, slots, stamp>>

\* Ids are random 64-bit numbers: none is drawn again while a chunk of the
\* update it named can arrive.
UnusedIds == UpdateId \ {k.update : k \in flight}

\* ncSendConfig: a new id, and every chunk of the configuration.
ncSendConfig ==
  /\ Cardinality({k.update : k \in flight}) < MaxFlight
  /\ \E u \in UnusedIds :
       /\ \A v \in UnusedIds : u <= v
       /\ flight' = flight \cup
            [update : {u}, index : 1..Size[current], rev : {current}]

\* What later chunks can tell apart.  Of the ts it is the order, so all go down
\* by one while none is 0.  Of an update none of whose chunks can arrive any
\* more it is nothing.
OnTheWay(u) == \E k \in flight' : k.update = u

Settle(ss) ==
  LET down == IF \E s \in Slot : ss[s].ts = 0 THEN 0 ELSE 1
  IN [s \in Slot |->
        IF OnTheWay(ss[s].updateId)
        THEN [ss[s] EXCEPT !.ts = @ - down]
        ELSE [EmptySlot EXCEPT !.ts = ss[s].ts - down]]

Stamp(u) == IF OnTheWay(u) THEN u ELSE 0

Ignore == UNCHANGED cfgvars /\ slots' = Settle(slots) /\ stamp' = Stamp(stamp)

Lose ==
  /\ \E k \in flight : flight' = flight \ {k}
  /\ Ignore
  /\ UNCHANGED current

-----------------------------------------------------------------------------
(* The node.                                                               *)

RequestOnce ==
  /\ phase = "idle" /\ net = "up" /\ config = << >>
  /\ UNCHANGED <<cfgvars, current, slots, stamp>>
  /\ ncSendConfig

\* processBackgroundTasks: asks when there is no configuration, and again
\* ZT_NETWORK_AUTOCONF_DELAY after the last one.
requestConfiguration ==
  /\ phase = "idle" /\ net = "up"
  /\ UNCHANGED <<cfgvars, current, slots, stamp>>
  /\ ncSendConfig

\* The slot that has the update, or else the first of those whose ts is least.
SlotFor(s, u) ==
  IF \E t \in Slot : slots[t].updateId = u
  THEN /\ slots[s].updateId = u
       /\ \A t \in Slot : t < s => slots[t].updateId # u
  ELSE \A t \in Slot : \/ slots[s].ts < slots[t].ts
                       \/ slots[s].ts = slots[t].ts /\ s <= t

Touch(c) == [c EXCEPT !.ts = @ + 1]

ClaimKeepsChunks(c, u) == [c EXCEPT !.updateId = u]

Claim(c, u) ==
  IF c.updateId = u THEN c
  ELSE [ts |-> c.ts, updateId |-> u, have |-> {}, haveBytes |-> 0, data |-> Stale]

Store(c, k) ==
  [ts |-> c.ts, updateId |-> c.updateId,
   have |-> c.have \cup {k.index}, haveBytes |-> c.haveBytes + 1,
   data |-> [c.data EXCEPT ![k.index] = k.rev]]

\* A chunk that is not yet in slot s is stored; the one that completes the
\* update hands the whole to setConfiguration, which drops a configuration that
\* is the one it has in everything, its time included.
AddChunk(s, k) ==
  LET c == Claim(Touch(slots[s]), k.update)
      d == Store(c, k)
      new == SubSeq(d.data, 1, d.haveBytes)
      full == Cardinality(c.have) >= MaxChunks
  IN /\ slots' = Settle([slots EXCEPT ![s] = IF full THEN c ELSE d])
     /\ IF ~full /\ d.haveBytes = Size[k.rev] /\ stamp # k.update
        THEN M!setConfiguration(new) /\ stamp' = Stamp(k.update)
        ELSE UNCHANGED cfgvars /\ stamp' = Stamp(stamp)

TakeDuplicates(k) ==
  /\ phase = "idle"
  /\ IF net # "up" THEN Ignore
     ELSE \E s \in Slot : SlotFor(s, k.update) /\ AddChunk(s, k)
  /\ UNCHANGED current

\* A chunk for a network the node is not a member of, or is leaving, goes
\* nowhere.
handleConfigChunk(k) ==
  /\ phase = "idle"
  /\ IF net # "up" THEN Ignore
     ELSE \E s \in Slot :
            /\ SlotFor(s, k.update)
            /\ IF slots[s].updateId = k.update /\ k.index \in slots[s].have
               THEN Ignore
               ELSE AddChunk(s, k)
  /\ UNCHANGED current

Deliver ==
  \E k \in flight : flight' = flight \ {k} /\ handleConfigChunk(k)

\* The wires, or members that flood chunks to each other, repeat one.
DeliverAgain ==
  \E k \in flight : UNCHANGED flight /\ handleConfigChunk(k)

\* Steps that touch neither the wires nor the slots.
Apart == UNCHANGED <<current, flight, slots, stamp>>

ConfigurePort == M!ConfigurePort /\ Apart
SaveToDisk == M!SaveToDisk /\ Apart
Destroy == M!Destroy /\ Apart
ClosePort == M!ClosePort /\ Apart

\* The slots are the Network object's: they go with the process, and are new.
Network == M!Network /\ Apart
Renew == slots' = EmptySlots /\ stamp' = 0 /\ UNCHANGED <<current, flight>>
Dies == M!Dies /\ Renew

Next ==
  \/ Change \/ Lose
  \/ requestConfiguration \/ Deliver \/ DeliverAgain
  \/ ConfigurePort \/ SaveToDisk
  \/ Network \/ Destroy \/ ClosePort
  \/ Dies

Spec == Init /\ [][Next]_vars

\* A request while chunks of an earlier answer are still on the wires.
Overlap == flight # {} /\ requestConfiguration

Fault == Change \/ Lose \/ Dies \/ Destroy \/ Overlap

-----------------------------------------------------------------------------
TypeOK ==
  /\ net \in {"none", "up", "leaving", "closing"}
  /\ phase \in {"idle", "port", "save"}
  /\ {config, work, disk} \subseteq Seq(Rev)
  /\ current \in Rev
  /\ flight \subseteq ConfigChunk
  /\ slots \in [Slot -> IncomingConfigChunk]
  /\ stamp \in UpdateId \cup {0}

\* However chunks of several updates are lost, repeated and reordered, and
\* whenever the application joins and leaves or the process dies, a network
\* only ever adopts configurations its controller issued, whole: the
\* reassembly in handleConfigChunk implements ManagedConfig.
AdoptsWhole == M!Spec
=============================================================================
