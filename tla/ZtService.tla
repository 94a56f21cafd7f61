------------------------------ MODULE ZtService ------------------------------
(***************************************************************************)
(* libzt's service control (src/libzt/src/ZT1Service.cpp), the life of a   *)
(* VirtualTap (VirtualTap.cpp) and the start of the lwIP driver (lwIP.cpp, *)
(* lwip_driver_init).                                                      *)
(*                                                                         *)
(* Application threads call zts_start, zts_startjoin, zts_join, zts_leave  *)
(* and zts_stop.  zts_start creates a service thread, which creates the    *)
(* OneService object all threads reach through the global pointer          *)
(* zt1Service and runs it.  Joining a network constructs a VirtualTap on   *)
(* the thread that joins.  Whoever follows a pointer to nothing, to a      *)
(* freed object or to a node that does not exist sets crash.               *)
(***************************************************************************)
EXTENDS Naturals, Sequences, FiniteSets

CONSTANTS App,         \* application threads
          Net,         \* networks
          Saved,       \* the networks whose .conf files may be in networks.d at first
          Calls,       \* the functions the application uses
          Paths,       \* whether zts_start is given a path: a set of Booleans
          MayFail,     \* whether run() may end with an error
          MayCollide,  \* whether the node's identity may collide
          MaxServices  \* bound on service threads and on OneService objects

ASSUME ConstantAssumption ==
  /\ Net # {} /\ 0 \notin Net /\ Saved \subseteq Net
  /\ Calls \subseteq {"start", "start_nonblocking", "startjoin", "join", "leave", "stop"}
  /\ Paths \subseteq BOOLEAN
  /\ MayFail \in BOOLEAN /\ MayCollide \in BOOLEAN
  /\ MaxServices \in Nat
  /\ App \cap (0..MaxServices) = {}

Service == 1..MaxServices

VARIABLES
  zt1Service,  \* the global pointer: an object, or 0
  homeDir,     \* whether homeDir is non-empty
  vtaps,       \* the taps: their network, object, addresses and zt1ServiceRef
  driver,      \* lwip_driver_initialized: "no", "starting" or "yes"
  driver_m,    \* the mutex: "free" or "held"
  mains,       \* history: how often main_thread was started
  pc, call, arg, ptr,   \* of an application thread: where it is, the start it is
                        \* in, its network, the service pointer it has read
  spc, sobj, sarg,  \* of a service thread: where it is, the object it runs, the
                    \* network of networks.d it joins
  life,        \* of an object: "none", "new", "up" (it has a node), "closed", "freed"
  run,         \* of an object: _run
  reason,      \* of an object: _termReason
  online,      \* of an object: whether its node is online
  joined,      \* the networks of each object's node
  saved,       \* the networks in networks.d
  networks,    \* of an object's node: the thread that holds _networks_m, or 0
  nets,        \* of an object: the thread that holds _nets_m, or 0
  crash        \* "no", or what a thread ran into

appvars == <<pc, call, arg, ptr>>
svcvars == <<spc, sobj, sarg>>
objvars == <<life, run, reason, online>>
netvars == <<joined, saved, networks, nets, vtaps>>
drvvars == <<driver, driver_m, mains>>
vars == <<zt1Service, homeDir, crash, appvars, svcvars, objvars, netvars, drvvars>>

Init ==
  /\ zt1Service = 0 /\ homeDir = FALSE /\ vtaps = << >>
  /\ driver = "no" /\ driver_m = "free" /\ mains = 0
  /\ pc = [a \in App |-> "idle"] /\ call = [a \in App |-> "none"]
  /\ arg = [a \in App |-> CHOOSE n \in Net : TRUE] /\ ptr = [a \in App |-> 0]
  /\ spc = [k \in Service |-> "off"] /\ sobj = [k \in Service |-> 0]
  /\ sarg = [k \in Service |-> CHOOSE n \in Net : TRUE]
  /\ life = [o \in Service |-> "none"] /\ run = [o \in Service |-> TRUE]
  /\ reason = [o \in Service |-> "running"] /\ online = [o \in Service |-> FALSE]
  /\ joined = [o \in Service |-> {}] /\ saved \in SUBSET Saved
  /\ networks = [o \in Service |-> 0] /\ nets = [o \in Service |-> 0]
  /\ crash = "no"

\* What following a service pointer runs into, and, for getNode(), join and
\* leave, following the object's node pointer.
Service_(o) == IF o = 0 THEN "null service" ELSE IF life[o] = "freed" THEN "freed service" ELSE "no"
Node_(o) == IF Service_(o) # "no" THEN Service_(o)
            ELSE IF life[o] # "up" THEN "null node" ELSE "no"
-----------------------------------------------------------------------------
(* Application threads *)

At(a, l) == crash = "no" /\ pc[a] = l
Go(a, l) == pc' = [pc EXCEPT ![a] = l]
Crash(what) ==
  /\ crash' = what
  /\ UNCHANGED <<zt1Service, homeDir, appvars, svcvars, objvars, netvars, drvvars>>
\* Thread a goes to l and changes nothing else.
Step(a, l) ==
  /\ Go(a, l)
  /\ UNCHANGED <<zt1Service, homeDir, crash, call, arg, ptr>>
  /\ UNCHANGED <<svcvars, objvars, netvars, drvvars>>

\* zts_start, first part, and the call to it in zts_startjoin: a service that
\* exists is taken for one that is initialized.
zts_start(a, c, n, path) ==
  /\ At(a, "idle")
  /\ call' = [call EXCEPT ![a] = c] /\ arg' = [arg EXCEPT ![a] = n]
  /\ IF zt1Service # 0
     THEN Go(a, IF c = "startjoin" THEN "join" ELSE "idle") /\ UNCHANGED homeDir
     ELSE Go(a, "spawn") /\ homeDir' = (homeDir \/ path)
  /\ UNCHANGED <<zt1Service, crash, ptr, svcvars, objvars, netvars, drvvars>>

\* pthread_create(zts_start_service)
Spawn(a) ==
  /\ At(a, "spawn")
  /\ \E k \in Service :
       /\ spc[k] = "off" /\ \A j \in 1..(k - 1) : spc[j] # "off"
       /\ spc' = [spc EXCEPT ![k] = "begin"]
  /\ Go(a, IF call[a] = "start_nonblocking" THEN "idle" ELSE "wait")
  /\ UNCHANGED <<zt1Service, homeDir, crash, call, arg, ptr, sobj, sarg, objvars, netvars, drvvars>>

\* while (zts_core_running() == false || zt1Service->getNode() == NULL): the
\* pointer is read by zts_core_running and again for getNode.
WaitRunning(a) ==
  /\ At(a, "wait") /\ zt1Service # 0
  /\ IF Service_(zt1Service) # "no" THEN Crash(Service_(zt1Service))
     ELSE reason[zt1Service] = "running" /\ Step(a, "waitnode")

WaitNodeNot(a) ==
  /\ At(a, "waitnode")
  /\ IF Service_(zt1Service) # "no" THEN Crash(Service_(zt1Service)) ELSE Step(a, "address")
WaitNode(a) ==
  /\ At(a, "waitnode")
  /\ IF Service_(zt1Service) # "no" THEN Crash(Service_(zt1Service))
     ELSE Step(a, IF life[zt1Service] = "up" THEN "address" ELSE "wait")

\* The wait for an address, which a node has from the start, and the wait for
\* the node to come online.
WaitAddress(a) ==
  /\ At(a, "address")
  /\ IF Node_(zt1Service) # "no" THEN Crash(Node_(zt1Service)) ELSE Step(a, "online")

WaitOnline(a) ==
  /\ At(a, "online")
  /\ IF Node_(zt1Service) # "no" THEN Crash(Node_(zt1Service))
     ELSE /\ online[zt1Service]
          /\ Step(a, IF call[a] = "startjoin" THEN "join" ELSE "idle")

\* zts_join, zts_leave and zts_stop begin; the network 0 is turned away.
CallAnyNetwork(a, c, n) ==
  /\ At(a, "idle")
  /\ call' = [call EXCEPT ![a] = "none"] /\ arg' = [arg EXCEPT ![a] = n]
  /\ Go(a, c)
  /\ UNCHANGED <<zt1Service, homeDir, crash, ptr, svcvars, objvars, netvars, drvvars>>
zts_call(a, c, n) ==
  /\ At(a, "idle") /\ n # 0
  /\ call' = [call EXCEPT ![a] = "none"] /\ arg' = [arg EXCEPT ![a] = n]
  /\ Go(a, c)
  /\ UNCHANGED <<zt1Service, homeDir, crash, ptr, svcvars, objvars, netvars, drvvars>>

\* zts_startjoin with the network 0, which zts_join turns away: the wait for its
\* address begins, and never ends.
JoinsNothing(a) ==
  /\ At(a, "join") /\ arg[a] = 0
  /\ Step(a, "hasaddress")

\* if (zt1Service): the pointer is read here and followed in a later step.
ReadService(a, l, with, without) ==
  /\ At(a, l)
  /\ ptr' = [ptr EXCEPT ![a] = zt1Service]
  /\ Go(a, IF zt1Service # 0 THEN with ELSE without)
  /\ UNCHANGED <<zt1Service, homeDir, crash, call, arg, svcvars, objvars, netvars, drvvars>>

\* zt1Service->terminate()
Terminate(a) ==
  /\ At(a, "terminate")
  /\ IF Service_(ptr[a]) # "no" THEN Crash(Service_(ptr[a]))
     ELSE /\ run' = [run EXCEPT ![ptr[a]] = FALSE]
          /\ Go(a, "idle") /\ ptr' = [ptr EXCEPT ![a] = 0]
          /\ UNCHANGED <<zt1Service, homeDir, crash, call, arg, life, reason, online>>
          /\ UNCHANGED <<svcvars, netvars, drvvars>>
-----------------------------------------------------------------------------
(* Joining a network, on the thread th: Node::join takes _networks_m, the  *)
(* network's constructor brings up its port under _nets_m, and that        *)
(* constructs a VirtualTap, which starts the lwIP driver.                  *)

Enter(o, th, n) ==
  /\ networks[o] = 0
  /\ joined' = [joined EXCEPT ![o] = @ \cup {n}]
  /\ saved' = saved \cup {n}
  /\ networks' = [networks EXCEPT ![o] = IF n \in joined[o] THEN 0 ELSE th]
  /\ UNCHANGED <<nets, vtaps>>

\* VirtualTap::VirtualTap up to lwip_driver_init.
NewTap(o, th, n) ==
  /\ nets[o] = 0
  /\ nets' = [nets EXCEPT ![o] = th]
  /\ vtaps' = Append(vtaps, [nwid |-> n, obj |-> o, ips |-> "none", ref |-> 0])
  /\ UNCHANGED <<joined, saved, networks>>

\* lwip_driver_init and the rest of the constructor; the two locks are released.
DriverInitUnlocked(o) ==
  /\ driver_m' = "held"
  /\ driver' = IF driver = "yes" THEN driver ELSE "starting"
  /\ mains' = IF driver = "yes" THEN mains ELSE mains + 1
  /\ nets' = [nets EXCEPT ![o] = 0] /\ networks' = [networks EXCEPT ![o] = 0]
  /\ UNCHANGED <<joined, saved, vtaps>>
lwip_driver_init(o) ==
  /\ driver_m = "free"
  /\ driver_m' = "held"
  /\ driver' = IF driver = "yes" THEN driver ELSE "starting"
  /\ mains' = IF driver = "yes" THEN mains ELSE mains + 1
  /\ nets' = [nets EXCEPT ![o] = 0] /\ networks' = [networks EXCEPT ![o] = 0]
  /\ UNCHANGED <<joined, saved, vtaps>>

\* zts_join, after its test of the pointer: the three steps on the service's
\* side, then the loop that gives every tap the service pointer as it is now.
JoinsAgain(a) ==
  /\ At(a, "joining")
  /\ IF Node_(ptr[a]) # "no" THEN Crash(Node_(ptr[a]))
     ELSE /\ Enter(ptr[a], a, arg[a])
          /\ Go(a, "port")
          /\ UNCHANGED <<zt1Service, homeDir, crash, call, arg, ptr, svcvars, objvars, drvvars>>
Joins(a) ==
  /\ At(a, "joining")
  /\ IF Node_(ptr[a]) # "no" THEN Crash(Node_(ptr[a]))
     ELSE /\ Enter(ptr[a], a, arg[a])
          /\ Go(a, IF arg[a] \in joined[ptr[a]] THEN "ref" ELSE "port")
          /\ UNCHANGED <<zt1Service, homeDir, crash, call, arg, ptr, svcvars, objvars, drvvars>>

Port(a) ==
  /\ At(a, "port")
  /\ IF Node_(ptr[a]) # "no" THEN Crash(Node_(ptr[a]))
     ELSE /\ NewTap(ptr[a], a, arg[a])
          /\ Go(a, "driver")
          /\ UNCHANGED <<zt1Service, homeDir, crash, call, arg, ptr, svcvars, objvars, drvvars>>

Driver(a) ==
  /\ At(a, "driver")
  /\ lwip_driver_init(ptr[a])
  /\ Go(a, "ref")
  /\ UNCHANGED <<zt1Service, homeDir, crash, call, arg, ptr, svcvars, objvars>>

SetRefs(a) ==
  /\ At(a, "ref")
  /\ vtaps' = [i \in DOMAIN vtaps |-> [vtaps[i] EXCEPT !.ref = zt1Service]]
  /\ Go(a, IF call[a] = "startjoin" THEN "hasaddress" ELSE "idle")
  /\ ptr' = [ptr EXCEPT ![a] = 0]
  /\ UNCHANGED <<zt1Service, homeDir, crash, call, arg, svcvars, objvars, drvvars>>
  /\ UNCHANGED <<joined, saved, networks, nets>>

\* getTapByNWID: the last tap of the network.
getTapByNWID(n) ==
  LET T == {i \in DOMAIN vtaps : vtaps[i].nwid = n}
  IN  IF T = {} THEN 0 ELSE CHOOSE i \in T : \A j \in T : j <= i

\* zts_has_address: nothing has one without a service.
HasTap(n) == zt1Service # 0 /\ getTapByNWID(n) # 0
zts_has_address(n) ==
  /\ zt1Service # 0
  /\ getTapByNWID(n) # 0
  /\ vtaps[getTapByNWID(n)].ips # "none"

HasAddress(a) ==
  /\ At(a, "hasaddress")
  /\ zts_has_address(arg[a])
  /\ Step(a, "idle")

\* Node::leave: _networks_m is held to find the network and given back before
\* its port is destroyed.
Leaves(a) ==
  /\ At(a, "leaving")
  /\ IF Node_(ptr[a]) # "no" THEN Crash(Node_(ptr[a]))
     ELSE /\ networks[ptr[a]] = 0
          /\ Step(a, IF arg[a] \in joined[ptr[a]] THEN "destroy" ELSE "idle")

\* ~VirtualTap joins the tap's thread, whose loop has no exit: the thread that
\* deletes a tap stays there, with _nets_m.
Destroy(a) ==
  /\ At(a, "destroy")
  /\ IF Node_(ptr[a]) # "no" THEN Crash(Node_(ptr[a]))
     ELSE /\ nets[ptr[a]] = 0
          /\ nets' = [nets EXCEPT ![ptr[a]] = a]
          /\ Go(a, "deleting")
          /\ UNCHANGED <<zt1Service, homeDir, crash, call, arg, ptr, svcvars, objvars, drvvars>>
          /\ UNCHANGED <<joined, saved, networks, vtaps>>

AppThread(a) ==
  \/ Spawn(a) \/ WaitRunning(a) \/ WaitNode(a) \/ WaitAddress(a) \/ WaitOnline(a)
  \/ JoinsNothing(a)
  \/ arg[a] # 0 /\ ReadService(a, "join", "joining", "ref")
  \/ ReadService(a, "leave", "leaving", "idle")
  \/ ReadService(a, "stop", "terminate", "idle")
  \/ Joins(a) \/ Port(a) \/ Driver(a) \/ SetRefs(a) \/ HasAddress(a)
  \/ Leaves(a) \/ Destroy(a) \/ Terminate(a)
-----------------------------------------------------------------------------
(* Service threads: zts_start_service *)

AtS(k, l) == crash = "no" /\ spc[k] = l
GoS(k, l) == spc' = [spc EXCEPT ![k] = l]

Begin(k) ==
  /\ AtS(k, "begin")
  /\ zt1Service' = 0
  /\ GoS(k, IF homeDir THEN "create" ELSE "done")
  /\ UNCHANGED <<homeDir, crash, sobj, sarg, appvars, objvars, netvars, drvvars>>

\* zt1Service = OneService::newInstance(...)
Create(k) ==
  /\ AtS(k, "create")
  /\ \E o \in Service :
       /\ life[o] = "none" /\ \A p \in 1..(o - 1) : life[p] # "none"
       /\ life' = [life EXCEPT ![o] = "new"]
       /\ zt1Service' = o
  /\ GoS(k, "enter")
  /\ UNCHANGED <<homeDir, crash, sobj, sarg, run, reason, online, appvars, netvars, drvvars>>

\* zt1Service->run()
EnterRun(k) ==
  /\ AtS(k, "enter")
  /\ IF Service_(zt1Service) # "no" THEN Crash(Service_(zt1Service))
     ELSE /\ sobj' = [sobj EXCEPT ![k] = zt1Service]
          /\ GoS(k, "node")
          /\ UNCHANGED <<zt1Service, homeDir, crash, sarg, appvars, objvars, netvars, drvvars>>

\* OneService::run: the node is made, the port is bound, the networks of
\* networks.d are joined.
NodeUp(k) ==
  /\ AtS(k, "node")
  /\ life' = [life EXCEPT ![sobj[k]] = "up"]
  /\ GoS(k, "bind")
  /\ UNCHANGED <<zt1Service, homeDir, crash, sobj, sarg, run, reason, online, appvars, netvars, drvvars>>

Bind(k) ==
  /\ AtS(k, "bind")
  /\ GoS(k, "saved")
  /\ UNCHANGED <<zt1Service, homeDir, crash, sobj, sarg, appvars, objvars, netvars, drvvars>>

JoinSaved(k) ==
  /\ AtS(k, "saved")
  /\ \E n \in saved \ joined[sobj[k]] :
       /\ Enter(sobj[k], k, n)
       /\ sarg' = [sarg EXCEPT ![k] = n]
  /\ GoS(k, "port")
  /\ UNCHANGED <<zt1Service, homeDir, crash, sobj, appvars, objvars, drvvars>>

PortSaved(k) ==
  /\ AtS(k, "port")
  /\ NewTap(sobj[k], k, sarg[k])
  /\ GoS(k, "driver")
  /\ UNCHANGED <<zt1Service, homeDir, crash, sobj, sarg, appvars, objvars, drvvars>>

DriverSaved(k) ==
  /\ AtS(k, "driver")
  /\ lwip_driver_init(sobj[k])
  /\ GoS(k, "saved")
  /\ UNCHANGED <<zt1Service, homeDir, crash, sobj, sarg, appvars, objvars>>

EnterLoop(k) ==
  /\ AtS(k, "saved")
  /\ saved \subseteq joined[sobj[k]]
  /\ GoS(k, "loop")
  /\ UNCHANGED <<zt1Service, homeDir, crash, sobj, sarg, appvars, objvars, netvars, drvvars>>

\* The node reaches a root server.
Online(k) ==
  /\ AtS(k, "loop") /\ ~online[sobj[k]]
  /\ online' = [online EXCEPT ![sobj[k]] = TRUE]
  /\ UNCHANGED <<zt1Service, homeDir, crash, life, run, reason>>
  /\ UNCHANGED <<appvars, svcvars, netvars, drvvars>>

\* The controller's configuration arrives: syncManagedStuff adds the address
\* to the network's tap (VirtualTap::addIp), under _nets_m.
AssignAddress(k) ==
  /\ AtS(k, "loop") /\ online[sobj[k]] /\ nets[sobj[k]] = 0
  /\ \E i \in DOMAIN vtaps :
       /\ vtaps[i].obj = sobj[k] /\ vtaps[i].ips = "none"
       /\ vtaps' = [vtaps EXCEPT ![i].ips = "some"]
  /\ UNCHANGED <<zt1Service, homeDir, crash, joined, saved, networks, nets>>
  /\ UNCHANGED <<appvars, svcvars, objvars, drvvars>>

\* Another node has this one's address: _termReason says so and the service
\* is told to terminate.
Collide(k) ==
  /\ MayCollide /\ AtS(k, "loop") /\ run[sobj[k]]
  /\ reason' = [reason EXCEPT ![sobj[k]] = "collision"]
  /\ run' = [run EXCEPT ![sobj[k]] = FALSE]
  /\ UNCHANGED <<zt1Service, homeDir, crash, life, online>>
  /\ UNCHANGED <<appvars, svcvars, netvars, drvvars>>

\* The loop ends when _run is false, with the reason NORMAL whatever it was.
LoopEnds(k) ==
  /\ AtS(k, "loop") /\ ~run[sobj[k]]
  /\ reason' = [reason EXCEPT ![sobj[k]] = "normal"]
  /\ GoS(k, "close")
  /\ UNCHANGED <<zt1Service, homeDir, crash, sobj, sarg, life, run, online>>
  /\ UNCHANGED <<appvars, netvars, drvvars>>

\* A token that cannot be written and a port that cannot be bound make run
\* return at once, past its end that deletes the taps and the node.
ReturnEarly(k) ==
  /\ MayFail /\ crash = "no" /\ spc[k] \in {"node", "bind"}
  /\ reason' = [reason EXCEPT ![sobj[k]] = "error"]
  /\ GoS(k, "delete")
  /\ UNCHANGED <<zt1Service, homeDir, crash, sobj, sarg, life, run, online>>
  /\ UNCHANGED <<appvars, netvars, drvvars>>

\* An exception ends run with an error.
Fail(k) ==
  /\ MayFail /\ crash = "no" /\ spc[k] \in {"node", "bind", "saved", "loop"}
  /\ reason' = [reason EXCEPT ![sobj[k]] = "error"]
  /\ GoS(k, "close")
  /\ UNCHANGED <<zt1Service, homeDir, crash, sobj, sarg, life, run, online>>
  /\ UNCHANGED <<appvars, netvars, drvvars>>

\* run deletes the taps under _nets_m and then the node; see Destroy.
CloseLeavesTaps(k) ==
  /\ AtS(k, "close") /\ nets[sobj[k]] = 0
  /\ life' = [life EXCEPT ![sobj[k]] = "closed"]
  /\ GoS(k, "delete")
  /\ UNCHANGED <<zt1Service, homeDir, crash, sobj, sarg, run, reason, online>>
  /\ UNCHANGED <<netvars, appvars, drvvars>>
Close(k) ==
  /\ AtS(k, "close") /\ nets[sobj[k]] = 0
  /\ IF \E i \in DOMAIN vtaps : vtaps[i].obj = sobj[k]
     THEN nets' = [nets EXCEPT ![sobj[k]] = k] /\ GoS(k, "deleting") /\ UNCHANGED life
     ELSE life' = [life EXCEPT ![sobj[k]] = "closed"] /\ GoS(k, "delete") /\ UNCHANGED nets
  /\ UNCHANGED <<zt1Service, homeDir, crash, sobj, sarg, run, reason, online>>
  /\ UNCHANGED <<joined, saved, networks, vtaps, appvars, drvvars>>

\* delete zt1Service, through the global pointer, which may have changed; a
\* collision would be followed by another service, anything else ends the loop.
Delete(k) ==
  /\ AtS(k, "delete")
  /\ IF zt1Service # 0 /\ life[zt1Service] = "freed" THEN Crash("freed service")
     ELSE /\ life' = [o \in Service |-> IF o = zt1Service THEN "freed" ELSE life[o]]
          /\ GoS(k, "clear")
          /\ UNCHANGED <<zt1Service, homeDir, crash, sobj, sarg, run, reason, online>>
          /\ UNCHANGED <<appvars, netvars, drvvars>>

Clear(k) ==
  /\ AtS(k, "clear")
  /\ zt1Service' = 0
  /\ GoS(k, IF reason[sobj[k]] = "collision" THEN "create" ELSE "done")
  /\ UNCHANGED <<homeDir, crash, sobj, sarg, appvars, objvars, netvars, drvvars>>

ServiceThread(k) ==
  \/ Begin(k) \/ Create(k) \/ EnterRun(k) \/ NodeUp(k) \/ Bind(k)
  \/ JoinSaved(k) \/ PortSaved(k) \/ DriverSaved(k) \/ EnterLoop(k)
  \/ LoopEnds(k) \/ Close(k) \/ Delete(k) \/ Clear(k)

\* tcpip_init_done, on lwIP's thread: the driver is ready and its mutex free.
InitDoneKeepsLock ==
  /\ crash = "no" /\ driver = "starting"
  /\ driver' = "yes"
  /\ UNCHANGED <<zt1Service, homeDir, crash, mains, driver_m>>
  /\ UNCHANGED <<appvars, svcvars, objvars, netvars>>
tcpip_init_done ==
  /\ crash = "no" /\ driver = "starting"
  /\ driver' = "yes" /\ driver_m' = "free"
  /\ UNCHANGED <<zt1Service, homeDir, crash, mains>>
  /\ UNCHANGED <<appvars, svcvars, objvars, netvars>>
-----------------------------------------------------------------------------
\* The bound MaxServices: a start is called while a service thread is left for it.
CanStart ==
  Cardinality({b \in App : pc[b] = "spawn"}) < Cardinality({k \in Service : spc[k] = "off"})

AppCalls(a) ==
  \/ \E c \in Calls \cap {"start", "start_nonblocking"}, path \in Paths :
       CanStart /\ zts_start(a, c, arg[a], path)
  \/ \E n \in Net \cup {0}, path \in Paths :
       CanStart /\ "startjoin" \in Calls /\ zts_start(a, "startjoin", n, path)
  \/ \E c \in Calls \cap {"join", "leave"}, n \in Net \cup {0} : zts_call(a, c, n)
  \/ "stop" \in Calls /\ zts_call(a, "stop", arg[a])

Next ==
  \/ \E a \in App : AppThread(a) \/ AppCalls(a)
  \/ \E k \in Service : ServiceThread(k)
  \/ \E k \in Service : Online(k) \/ AssignAddress(k) \/ Collide(k) \/ ReturnEarly(k) \/ Fail(k)
  \/ tcpip_init_done

Spec == Init /\ [][Next]_vars

\* Threads run, the lwIP thread starts, and the network answers: the node comes
\* online and the controller assigns an address to every tap.
FairSpec ==
  /\ Spec
  /\ \A a \in App : WF_vars(AppThread(a))
  /\ \A k \in Service :
       WF_vars(ServiceThread(k)) /\ WF_vars(Online(k)) /\ WF_vars(AssignAddress(k))
  /\ WF_vars(tcpip_init_done)
-----------------------------------------------------------------------------
(* Properties *)

\* A tap as the others see it.
Tap == [nwid : Net, obj : Service, ips : {"none", "some"}, ref : Service \cup {0}]

\* The values of the variables.
Types ==
  /\ zt1Service \in Service \cup {0} /\ homeDir \in BOOLEAN
  /\ vtaps \in Seq(Tap)
  /\ driver \in {"no", "starting", "yes"} /\ driver_m \in {"free", "held"} /\ mains \in Nat
  /\ pc \in [App -> {"idle", "spawn", "wait", "waitnode", "address", "online", "join",
                     "joining", "port", "driver", "ref", "hasaddress", "leave", "leaving",
                     "destroy", "deleting", "stop", "terminate"}]
  /\ call \in [App -> {"none", "start", "start_nonblocking", "startjoin"}]
  /\ arg \in [App -> Net \cup {0}] /\ ptr \in [App -> Service \cup {0}]
  /\ spc \in [Service -> {"off", "begin", "create", "enter", "node", "bind", "saved", "port", "driver",
                          "loop", "close", "deleting", "delete", "clear", "done"}]
  /\ sobj \in [Service -> Service \cup {0}] /\ sarg \in [Service -> Net]
  /\ life \in [Service -> {"none", "new", "up", "closed", "freed"}]
  /\ run \in [Service -> BOOLEAN] /\ online \in [Service -> BOOLEAN]
  /\ reason \in [Service -> {"running", "normal", "error", "collision"}]
  /\ joined \in [Service -> SUBSET Net] /\ saved \subseteq Net
  /\ networks \in [Service -> App \cup Service \cup {0}]
  /\ nets \in [Service -> App \cup Service \cup {0}]
  /\ crash \in {"no", "null service", "freed service", "null node"}

\* The network 0 goes no further than zts_startjoin's waits.
ZeroJoinsNothing ==
  \A a \in App : arg[a] = 0 =>
    /\ call[a] = "startjoin"
    /\ pc[a] \in {"spawn", "wait", "waitnode", "address", "online", "join", "hasaddress"}

\* Every variable has its type, and whatever joins, leaves or makes a tap has a
\* network to do it for: zts_join and zts_leave turn the network 0 away.
TypeOK == Types /\ ZeroJoinsNothing

\* lwip_driver_init starts main_thread at most once, however many threads
\* construct taps at the same time ("only allowed to execute once", lwIP.h).
DriverStartsOnce == mains <= 1

\* A node has at most one tap for a network, whoever joins it, how often and
\* at the same time as whom: a second tap would be unreachable in vtaps.
OneTapPerNetwork ==
  \A i, j \in DOMAIN vtaps :
    vtaps[i].nwid = vtaps[j].nwid /\ vtaps[i].obj = vtaps[j].obj => i = j

\* While one thread controls the service with blocking calls, no tap's
\* zt1ServiceRef, which its Housekeeping follows at any time, dangles: not
\* after zts_stop, an error or a collision either.
TapRefsLive == \A i \in DOMAIN vtaps : vtaps[i].ref # 0 => life[vtaps[i].ref] # "freed"

\* No service was told to stop, has failed, or waits to leave a network.
Undisturbed ==
  /\ \A o \in Service : run[o] /\ reason[o] = "running"
  /\ \A a \in App : pc[a] # "deleting"

\* As long as no service was told to stop and none failed, a thread that starts
\* the service with blocking calls never follows a pointer to a service or a
\* node that is not there: zts_start waits for all of them.
NoCrash == Undisturbed => crash = "no"

\* When zts_startjoin returns, the network is joined on the service the library
\* has, stopped meanwhile or not, and that service's tap has an address ("blocks
\* until all of the following conditions are met", libzt.h).
StartJoinDone ==
  [][\A a \in App : pc[a] = "hasaddress" /\ pc'[a] = "idle" =>
       /\ zt1Service # 0 /\ arg[a] \in joined[zt1Service]
       /\ \E i \in DOMAIN vtaps : /\ vtaps[i].nwid = arg[a] /\ vtaps[i].obj = zt1Service
                                  /\ vtaps[i].ips = "some"]_vars

\* A zts_start, or a zts_startjoin of a network, that creates a service thread
\* with a home directory returns, unless the service is stopped or fails
\* meanwhile, or a third tap is made: that one waits for the driver's mutex,
\* which the second did not give back, and the service with it.
StartReturns ==
  \A a \in App : pc[a] = "spawn" /\ homeDir /\ arg[a] # 0
                 ~> (pc[a] = "idle" \/ ~Undisturbed \/ Len(vtaps) > 2)

\* lwip_driver_init's mutex is "unlocked from callback indicating completion of
\* driver init": it does not stay held.
DriverLockReleased == driver_m = "held" ~> driver_m = "free"

\* zts_stop "Stops ZeroTier core services, stack drivers, stack threads, etc":
\* the service thread ends after a stop.
StopEndsService == \A k \in Service : spc[k] = "loop" /\ ~run[sobj[k]] ~> spc[k] = "done"
=============================================================================
