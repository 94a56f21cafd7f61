# A TLA+ verification project for v2rayNG with ZeroTier

The repository holds two programs that run in one Android application:

* `src/libzt`: a user-space ZeroTier node with an lwIP network stack, offered as
  a C and Java socket library;
* `src/V2rayNG`: the v2rayNG VPN client, changed to carry its traffic through a
  UDP proxy that sends over a ZeroTier network.

This directory models the parts of them that hold state, checks the models with
TLC on small instances and proves the central properties with TLAPS for every
instance.

## 1. The system: an inventory

### 1.1 libzt

| part | state | operations | hard behaviour |
|---|---|---|---|
| `RingBuffer` | array, `begin`, `end`, `wrap` | `produce`, `write`, `read`, `consume`, `reset` | full and empty look alike; copies in two chunks |
| lwIP driver (`lwIP.cpp`) | guarded receive buffer and its counter, interface table, driver mutex | `lwip_eth_rx`, `my_tcpip_callback`, `lwip_init_interface`, `lwip_driver_init` | three threads; a mailbox that can be full; reference counts; fixed arrays |
| `VirtualTap` | assigned addresses, multicast groups, its thread, the service reference | constructor, destructor, `addIp`, `removeIp`, `scanMulticastGroups`, `Housekeeping` | a thread that is joined, a list of taps that only grows |
| service control (`ZT1Service.cpp`) | the global service pointer, the home directory, the port, the list of taps | `zts_start`, `zts_startjoin`, `zts_join`, `zts_leave`, `zts_stop`, the service thread | the pointer is written by one thread and read by all |
| networks (ZeroTierOne's `Network.cpp`, `Node.cpp`) | the configuration, the slots its chunks are put together in, the file | `join`, `leave`, `requestConfiguration`, `handleConfigChunk`, `setConfiguration` | lost, repeated, reordered chunks; two threads; a file that is cut short |
| the virtual port (ZeroTierOne's `OneService.cpp`) | the addresses it believes the tap has, settings | `nodeVirtualNetworkConfigFunction`, `syncManagedStuff`, the multicast synchronisation | differences applied to another object's list |
| socket wrappers (`libzt.cpp`) and JNI | none | argument checks, address family conversion | conversions |

### 1.2 v2rayNG

| part | state | operations | hard behaviour |
|---|---|---|---|
| `V2RayVpnService` | the VPN tunnel, the core, registered receivers | start, stop, soft restart, notification | runs in its own process; told by broadcasts |
| `MainActivity`, `QSTileService`, `WidgetProvider`, `TaskerReceiver` | what the user sees of the service | clicks, received broadcasts | a cached view of another process |
| `AngConfigManager` and the server activities | the list of servers, the active index, stored configuration | add, edit, remove, select, import | indices kept across changes of the list |
| `V2rayConfigUtil` | none | generates the core's configuration | conversions |
| `dpreference` | a content provider over preferences | set, get, remove | two processes |
| UDP proxy (`Udpproxy.java`, `UdpProxyZerotier.java`) | sockets, threads | start, forward both ways | waits for the node |

### 1.3 How the parts interact

A frame from ZeroTier goes `VirtualTap::put` -> `lwip_eth_rx` -> receive buffer ->
`my_tcpip_callback` -> lwIP. A join constructs a `VirtualTap` on the joining
thread, which starts the lwIP driver; the service thread deletes the taps when it
ends. A network's configuration comes from its controller in chunks; when it is
whole, the node tells the service, which gives the tap its addresses; the tap
registers each with lwIP, and the service's loop tells the node the multicast groups
that follow from them. The UDP proxy starts the node through `zts_startjoin`. In the application,
the screens, the tile, the widget and Tasker change the list of servers, write the
chosen one's configuration to the preferences and start `V2RayVpnService`, which
runs in a process of its own, reads the configuration there and answers with
broadcasts.

### 1.4 Properties, part by part

| part | what has to hold |
|---|---|
| `RingBuffer` | it is a bounded FIFO queue; `wrap` agrees with the indices |
| lwIP receive path | no frame lost, repeated or reordered; no freed frame processed; no write past an array; every cached frame handled in the end |
| service control | one stack, one tap per network; no pointer to a deleted service; a start returns and keeps its promise; a stop ends the service |
| network configuration | only whole configurations are adopted; lost chunks and old answers are repaired; a process started again resumes with the configuration it had |
| `VirtualTap` addresses | the tap has the addresses of the configuration; no address is removed that is not there; each address takes one entry of the interface table, once; the node subscribes to the tap's multicast groups |
| `AngConfigManager` | the active index is in range and follows its server; memory and preferences agree; the service gets the active server |
| `V2RayVpnService` and its views | once everything is quiet, button and tile show the core's state; a stop ends the core |
| UDP proxy | every datagram goes to the peer of its direction; the wait for the node ends |
| `V2rayConfigUtil` | the generated parts match the server's settings for every combination |
| `dpreference` | a value read is the last one written, for each type |

## 2. What was chosen

The models cover the parts whose correctness depends on an order of steps: the ring
buffer, the receive path, service control, the configuration of networks and what it
does to the tap, the list of servers, and the VPN service with its views. Three
specifications are abstract promises or compositions: `BoundedQueue`, which
`RingBuffer` implements; `ManagedConfig`, which `NetworkUpdates` implements; and
`VirtualNetwork`, which composes `NetworkUpdates` and `TapAddresses`. What is left, and
why, is in section 7.

## 3. The modules

### 3.1 RingBuffer and BoundedQueue

`RingBuffer` has the class's four members; `src`, `dest` and `ret` are what passes
between a call and its caller. `write` copies in two chunks, as the code does, with
the array indices of each. `BoundedQueue` is what a user of the buffer expects, a
sequence of at most `Capacity` elements. The refinement maps the sequence to the
elements from `begin` on (`Contents`).

### 3.2 LwipRx

Frames are numbered and a pbuf has its frame's number. `RxAlloc`, `RxNoInterface`
and `RxCache` are `lwip_eth_rx` up to and after its lock, `PostCallback` is
`main_thread`, and `CallbackBegins`, `CallbackFrame`, `CallbackEnds` are
`my_tcpip_callback`, one frame at a time, under the lock. `PostInput` and
`ProcessFrame` are lwIP's: a post that does not wait and fails when the mailbox is full
or there is no memory for the message, and the processing that frees the frame.
`cached` and `routed` are histories. A
write past an array sets `wild`, and nothing is claimed after it.

### 3.3 ZtService

Every function of the control API is split where it reads the shared pointer or
waits for a lock, as are the service thread and a tap's constructor. Of ZeroTierOne's
`OneService` and `Node` it has the locks (`networks`, `nets`), the order in which `run()`
makes the node, binds its port, joins the saved networks and enters its loop, and the
three ways it ends: the loop (`LoopEnds`), an exception (`Fail`), and the early returns
for a token that cannot be written or a port that cannot be bound (`ReturnEarly`), which
skip the deletion of taps and node. The network 0, which `zts_join` and `zts_leave` turn
away, goes as far as the wait of `zts_startjoin` (`JoinsNothing`). A thread that
follows a pointer to nothing sets `crash`.

### 3.4 AngConfig

`vmess` and `index` are `angConfig`; `stored` is the preference and what its file
has of it (`apply` writes later); `curr` is what the service will read, and `filed` what
the file has of that. Each
operation of `AngConfigManager` is split at its accesses to the list and at every
`setPrefString`. Threads are the UI thread and okhttp's. `Gson().toJson` may fail
when another thread is at work. `Dies` can happen anywhere and ends in `loadConfig`.
`overlap` is a ghost: it is set when a thread begins to use the list while another
one is using it, or the list is replaced under an open editor. The code has no
lock there and promises nothing, and the properties exclude it. A server is its
guid and its remarks. Fields that only `V2rayConfigUtil` reads are left out.

### 3.5 VpnService

`started` and `requests` are Android's record of the service and what it has yet to
make the service's main thread do; `inbox` and `news` are broadcasts on their way,
and reach those who were registered when they were sent. `core`, `content` and
`launch` are the core of each instance (`v2rayPoint` is a member of the instance):
whether it runs, with which configuration, and where its thread is in `prepare()`.
The main thread's handlers are one step each, except that the answer to a client is
computed in one and sent in another; `vpnCheckIsReady` is split at every call that
others can see. `granted` is whether `VpnService.prepare` returns null. A start of the application is two
steps, `startVService`, which stores the configuration (`pref`), and `startV2Ray`;
between them (`starting`) the application's main thread does nothing else, and the
service may read what was stored. `file` is what the preferences' file has of it, which
is all that is left when the application's process dies. `shown` is
`fabChecked` and the tile's state. The widget goes by `isServiceRun`, and Tasker, a
tap on a server and the notification's button by nothing.

Assumed of what is external: `runLoop` returns before the core runs, `isRunning` is
false until then, `stopLoop` takes effect before it returns, `onRevoke` comes when
the core runs, and a receiver registered again gets a broadcast once. `onRevoke` is
one step although it has a thread of its own.

`caught` is a ghost: a stop or a start met a core coming up, a start met an instance
about to be destroyed, or an answer was out of date when it was sent. The code
has no defence against these, and the properties exclude them. `cut` is another: the
application died in the midst of a start, or before what it stored was in the file, and
nothing was started since. Then a core at work and the preferences may differ, or a start
the user has just permitted never comes.

### 3.6 ManagedConfig, NetworkUpdates, TapAddresses and VirtualNetwork

`ManagedConfig` is what a node promises of the configuration of one network: there is
none, or it is, whole, one the controller issued; `setConfiguration` sets it, tells the
port and writes the file, in three steps, while the application leaves and the
process may die, also in the midst of the write. A leave has two steps, `Destroy` and
`ClosePort`, and no end: the destructor of the tap joins a thread that runs for ever, with
`_nets_m` held. What `Node::leave` has behind it, the removal from the list of networks
and the deletion of the file, is never reached. The service thread stops at its next
`configureVirtualNetworkPort` or multicast scan, and only the death of the process is
behind that; the file is still there, and the network is joined again.

`NetworkUpdates` is how the node gets it. A configuration is the sequence of its chunks,
a chunk is its update's id, its place and the revision it was cut from. `ncSendConfig`
puts all chunks of an update on the wires, which lose (`Lose`), repeat (`DeliverAgain`)
and reorder them (`Deliver` takes any). `handleConfigChunk` chooses a slot
(`SlotFor`), hands it to the update if it had another (`Claim`), stores the chunk and
passes a complete update on; bytes a slot has from an earlier update are told apart, so
that a count which includes them would be seen. `Settle` keeps the state small and
changes nothing that later chunks can tell apart: the counters `ts` only matter by their
order, and a slot whose update has no chunk left on the wires is as good as empty.
`stamp` stands for the time in a configuration, which makes the answers of a controller
differ even when nothing was changed.

`TapAddresses` has the service's `managedIps`, the tap's `_ips`, how many interfaces lwIP
has (an address can be registered again), the tap's groups and the node's.
`syncManagedStuff` applies the difference between the new addresses and `managedIps`.
`sort` is defined by its result; `unique` and `binary_search` are the algorithms of the
standard library, on vectors that need not be in order. `withdrawn` is a history: an
address has been removed since the process started. `broken` is set when `removeIp`
erases what is not there or the interface table is exceeded, and nothing is claimed after
it.

`VirtualNetwork` composes the two: the port's callbacks are steps of both. The service
thread does one thing at a time (`phase`, `changes`); the leave is the application's and
comes in between. One network is modelled; others would share the interface table and
`_nets_m`. A file cut short is cut between two pieces.

## 4. The runs

| run | instance | shows |
|---|---|---|
| `ring_buffer` | size 3, 2 elements, requests up to 3 | type, `WrapMeansFull`, and that it implements `BoundedQueue` |
| `lwip_rx` | 3 frames of 4 kinds, buffer of 3, 2 per call, mailbox of 2, 3 registrations for 2 slots | `PendingIsBacklog`, `NoFreedFrameInMbox`, liveness `CachedFramesAreRouted` |
| `lwip_rx_overflow` | buffer of 2, 3 frames | a violation: a pointer is stored past the receive buffer's end |
| `lwip_rx_free` | two IPv6 interfaces | a violation: one pbuf with one reference is freed twice |
| `service_threads` | 2 threads, 2 services, non-blocking calls | `DriverStartsOnce`, `OneTapPerNetwork` |
| `service_one_thread` | 1 thread, 3 networks (any of them saved), 3 services, early returns, failures and collisions | `TapRefsLive`, `NoCrash`, `StartJoinDone`, `StartReturns` |
| `service_driver_lock` | 2 networks, `zts_startjoin` only | a violation: the second tap leaves the driver's mutex locked |
| `service_stop` | 1 network | a violation: the service thread does not end |
| `server_list` | 2 servers, 2 remarks, 2 times, 1 okhttp thread, answers of 0 to 2 entries | the active server, the stored list, the editor and the started configuration |
| `server_list_stored` | the same | a violation: an answer without a valid entry empties the list and stores nothing |
| `vpn_service` | 2 configurations, 2 instances, new requests while fewer than 2 wait, both processes may die | a core at work can be stopped; views, notification and configuration agree with it when nothing is on its way |
| `network_config` | 3 revisions of 2, 1 and 1 chunks, 2 slots, 2 overlapping updates, 6 addresses in 3 groups, 3 interfaces | `AdoptsWhole` (it implements `ManagedConfig`), `AddressesFollow`, `ErasesPresent`, `EntryPerAddress`, `SubscribesReported`, `RestartResumes`, liveness `Heals` |

Bounds. A ring of three has every position of the two indices: before, at and
after the end of the array, with chunks of none, one and several elements. Three
frames fill a buffer, exceed the limit per call and leave one behind. Two services
meet each other; the third appears after a failure. Three networks are the least for
which a tap waits for the driver's mutex, since the second keeps it. Two servers are the least for
which removal moves the active one, and two times for which guids differ or
collide. Two constraints belong to `server_list`: behaviours are followed until
`overlap` (`UntilOverlap`; after it only `TypeOK` says anything, and that is
proved without the constraint), and the file of preferences is at most one change
behind (`Lag`). `vpn_service` follows behaviours until `caught` (`UntilCaught`,
likewise); a new request or message is made while fewer than two wait in every
queue (`MaxWaiting`), which has a start behind a stop and a message behind another; a
view with more than three messages to hear is not followed further (`MaxNews`), more than
a stop and a start leave behind;
and of two instances one is there while the core of an older one might be at work.
In `network_config` two chunks of one update and one of another meet in two slots, so an
update is evicted half done and its slot used again; the ids are two because one is free
again once none of its chunks is on the wires. Three interfaces are what the addresses of
the first revision need and one less than the third assigns, so that the table is filled
by one revision, run over by another, and run over by addresses that come and go. That
`scanMulticastGroups` finds a group exactly when it is there is also evaluated for all
sorted vectors of up to six groups (`SearchFinds`), since the addresses of one revision are too few for a
tail that is out of order; section 5 has the proof for all lengths.
Swapping the two remarks, the two application threads, the configurations or the
instances is a symmetry: no module tells them apart.

Deadlock is not checked in the runs of `LwipRx` and `ZtService`, where the frames
run out, a crash ends everything and threads do wait for ever (see section 6). It
is checked in the others.

Fairness. `lwip_rx`: `main_thread` loops with a sleep for ever and the tcpip
thread takes every message, so both are weakly fair; arrivals are not.
`service_one_thread`, `service_driver_lock` and `service_stop`: every thread that
can take its next step does, the driver's callback comes, and the node gets online
and its address; calls, failures and collisions are free to happen or not. `StartReturns`
excepts what the fairness cannot mend: a service that is stopped or fails while the start
waits, and a third tap, which waits for the driver's mutex and the service with it.
`network_config`: the service thread's loop keeps turning, so it takes what arrives, asks
again when its time has come (`processBackgroundTasks`) and goes on with what it began,
as long as it gets `_nets_m`; and a network is joined, at first by the application and
after a death because its file is found. Losses, repetitions, changes, deaths and both
steps of a leave are not fair: `Heals` excepts a network that is being left, which is
not repaired while the process lives. It supposes that faults end, and among them counts a
request sent while an answer to an earlier one is still on the wires: requests are
five seconds apart while there is no configuration and a minute after that, and
section 6 says what happens otherwise.

## 5. The proofs

All theorems hold for every value of the constants that satisfies the named
assumptions, which only give types, finite sets of addresses, and non-empty sizes. Three
have a further hypothesis, written out in the theorem: that one thread controls the
service with blocking calls (`Controlled`, as in the run `service_one_thread`).

* `RingBufferProofs`: `TypeCorrect` and `WrapIsFull` from `Inv`, the two together;
  each needs the other, as `count` is right only with both. `Refinement`: every
  action maps to the queue's action of its kind. The lemmas say what one chunk and
  two chunks do to the contents.
* `LwipRxProofs`: `IInv` adds four facts to the types. `Window` and `Backlog`: the
  array from the callback's position to `tot` is the part of `cached` not yet
  routed, which during a call is neither at the array's start nor at its final
  place. `Provenance` and `Held`: a pbuf is in one place, with a reference, while
  there is at most one interface. They give `ReceiveBufferIsQueue` and
  `NoUseAfterFree`.
* `ZtServiceProofs`: types, with the fact that the network 0 gets no further than
  `zts_startjoin`'s waits, and `DriverInv`: while the driver is starting its mutex
  is held, so no other thread can pass the test. It gives `DriverOnce`.
* `ZtServiceJoinProofs`: `JoinInv`: a thread between `Node::join` and the end of the
  constructor holds the node's lock, its network is joined and has no tap yet; and
  a tap's network is joined. It gives `OneTap`. The rest supposes `Controlled`. `Single`:
  at most one service thread is alive, from its creation to its deletion the global
  pointer is to its object, whose state its program counter tells, and while it creates
  the object and the node the application waits. That is what the blocking start is for.
  `Attached`: every tap belongs to the service the pointer is to, which is up, and
  refers to it or to none. `Early`: until the node is online the application waits and
  there is no tap, so a `run()` that returns early, past the deletion of its taps, has
  none. A service that ends otherwise is not deleted while it has a tap, so no reference
  is left behind, which is `RefsStayLive`. `Safe`: before any stop or failure (`Calm`)
  nothing has crashed, and a thread about to follow a pointer has one. Calm is never
  regained, so `Calm => Safe` is inductive. It gives `NeverCrashes`. `StartJoinIsDone`
  follows from `JoinInv` and `Attached`: the tap whose address `HasAddress` has seen is one
  of the service there is, and its network is joined.
* `AngConfigProofs`: types, for any number of okhttp threads. `RangeInv`: while nothing
  overlaps one thread works at a time; the index is in range except between the two
  halves of `addServer`, where it may be wrong only if the new server is the only one;
  and what is about to be written, is in the preferences or in their file has its index
  in range. It gives `ActiveAlwaysInRange`, and four theorems stand on it:
  - `EditorAlwaysFollows`: `EditorFollows` is inductive with the types, since the list
    under an editor only grows at its end;
  - `ActiveAlwaysStays`: from `EditorFollows`, since the saved server has the guid of the
    one in its place, and from what `removeServer` does to the positions;
  - `AlwaysStartsActive`: `StartInv` says which of the three preferences
    `genStoreV2rayConfig` has written; no other thread works on the list meanwhile;
  - `NothingEverUnsaved`: `SaveInv`: what a thread is about to write is the list, and the
    list is the stored one unless a thread has yet to store or to replace it. The last
    case is what makes a failing `toJson` harmless: only a thread about to clear the list
    makes it fail while nothing overlaps.
* `VpnServiceProofs`: types, and `Owned`: every core at work, or coming up, is that of
  the instance there is, and its receiver is registered; a receiver means a record
  of the service; while one is registered no creation and no destruction is waiting;
  a creation that waits comes after a destruction, and without a record the
  last request is a destruction. The facts about the order of requests are what makes
  a start safe: it is not followed by a destruction, so the service has a record, and
  not by a creation either. It gives `AlwaysStoppable`. `Told` relates what is seen to what is
  on its way: what a view shows once it has heard everything it was told is what the VPN
  is, unless a start is due or the service is about to answer; the notification is up, or
  the core's thread has yet to show it; and a core at work has the configuration in the
  preferences, unless a start is on its way or in the midst of being asked for, or the
  application died there (`cut`). Broadcasts arrive in the order they were
  sent, so that the last one decides. It gives `ViewsAlwaysAgree` and `AlwaysRunsLast`.
* `TapAddressesProofs`: what `scanMulticastGroups` computes, for every set of addresses.
  `Sorts`: `sort`, which is defined by counting, has a value at each place, and gives the
  values in order. `UniqueFront`: up to some place `unique` leaves the distinct elements in
  strict order, and from there on what was there before. `LowerCrosses`: wherever the loop
  of `std::lower_bound` ends, the element before is less and the one after is not, in a
  vector in order or not. `SearchExact`: so the group is found if it is there. The
  inductions, also the one that the loop defines a function, are by least counterexample,
  from the library's theorem that the order of the natural numbers is well founded.
* `VirtualNetworkProofs`: `IInv` adds `Assembling` to the types: every slot has, at the
  places it has counted and nowhere else, chunks of the one revision that the chunks
  of its update still on the wires were cut from too, and chunks of one update agree. So a
  count that reaches the length means a whole configuration. It gives `TypeCorrect` and
  `UpdatesAdoptWhole`, the refinement; `Composed` carries both over to `VirtualNetwork`.
  `TapInv`: `managedIps` is what the tap has, a `setConfiguration` under way works with
  the network's configuration, and the thread never scans meanwhile. It gives
  `TapFollowsConfig`, `RemovesOnlyPresent` and `FileIsCurrent`. `EntriesCounted`: adding
  the difference costs one entry for each address that is new, and removing gives none
  back; the lemmas count the sets. `GroupInv`: what the node will be subscribed to, once
  told what is pending, are the groups the tap has reported, since the thread scans only
  when nothing is pending. With `SearchExact` it gives `SubscribedAsReported`.

Only model-checked: liveness (`CachedFramesAreRouted`, `StartReturns`, `Heals`), which is
beyond the prover. Every invariant and action property of the passing runs is proved.

## 6. What the models show besides

Five runs are violations; section 4 names them and `PROJECT.json` quotes the lines
they contradict. The models also show the following, for which no run is kept:

* an ARP frame's pbuf gets a reference that is never given back (`lwIP.cpp:166`);
* `zts_leave` of a joined network never returns: the tap's destructor waits for a
  thread that does not end (`VirtualTap.cpp:94`). It does so with `_nets_m` held, so the
  service thread stops too, and the network's file stays: the network is joined again at
  the next start;
* `zts_startjoin` of the network 0 never returns: `zts_join` turns it away and the
  wait for its address begins;
* with three networks the third tap's constructor waits for `driver_m` for ever, and so
  do a start whose saved networks are three, and the service thread that joins them;
* `zts_start` does not return, or follows a null pointer, when the service fails
  while it waits, although `libzt.h:101` speaks of "or 1 if failed";
* two non-blocking starts create two service threads (`ZT1Service.cpp:424`);
* `zts_startjoin` after `zts_stop` can report success on the old service;
* the restart after an identity collision (`ZT1Service.cpp:249`) is not taken,
  since the loop of `OneService` overwrites the reason;
* entries of one answer can share a guid, and Tasker then starts the first of them;
  a guid that is not found starts the active server;
* two threads that add to an empty list at the same time can both miss the test for
  the first server, and the index stays out of range;
* a stop while the core is coming up does not stop it (`V2RayVpnService.kt:182`): the
  service ends and the core stays, with no receiver that could stop it, and
  START_SUCCESS after STOP_SUCCESS leaves the button on;
* a start delivered just before the service is destroyed brings up a core that the
  end of the service does not stop;
* an answer computed before the core changes and sent after it leaves a view wrong
  until the next broadcast;
* an application that dies between `genStoreV2rayConfig` and `startV2Ray`, or before
  `apply()` has reached the file, leaves a core at work with one configuration and the
  preferences with another, until the next start;
* the slot to evict is chosen by `ts`, a count of the chunks a slot has taken
  (`Network.cpp:977`), not by age. When answers keep overlapping they can evict each other
  for ever: with three slots, three answers of two chunks or two of three chunks do;
* addresses that are withdrawn and assigned again use up the ten entries of
  `lwipInterfaces`, which are never given back, and a configuration may assign more than
  ten (`ZT_MAX_ZT_ASSIGNED_ADDRESSES` is greater): nothing tests the index;
* `std::unique` without `erase` in `scanMulticastGroups` does no harm: what
  `std::binary_search` finds is the same (`SearchExact`).

## 7. What is not modelled

`PROJECT.json` lists every part with its status. The UDP proxy
(`Udpproxy.java`, `UdpProxyZerotier.java`) is two pairs of endless loops around sockets:
its threads share the last peer's address without a lock, but nothing says which peer a
datagram is meant for, so there is no promise to check. `V2rayConfigUtil` fills in a
template in one call; its list of domain names, which grows with every start, is the only
state, and again no line says what it should be. `dpreference` is modelled as far as
`AngConfig` and `VpnService` use it. The set of applications of the per-app proxy is saved when its
screen is left, by one thread. Of a network's configuration, ad-hoc networks, a controller
on the node itself, the legacy format without chunks, and the controller's errors are
left out; of ZeroTierOne, frames, paths, peers, credentials and rules.

Also left out: the socket wrappers, JNI and utilities (argument tests and conversions that
keep no state), the billing sample, screens that only show, `NetWorkStateReceiver`
(not registered), servers of `configType` 2 (no menu makes them), and the rest of the
vendored `libzt/ext`: of lwIP `LwipRx` has the mailbox and the references of a pbuf, and
of ZeroTierOne the modules have what sections 3.3 and 3.6 name.
The core of V2Ray is a binary (`libv2ray.aar`). Data races on a `std::vector`
(`vtaps`) are one step in the models.
