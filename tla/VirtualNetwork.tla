---------------------------- MODULE VirtualNetwork ----------------------------
(***************************************************************************)
(* A network and its tap: the updates of NetworkUpdates, and what each     *)
(* configuration does to the tap when the virtual port is told of it.      *)
(* Joining and leaving are steps of the application's thread, all others   *)
(* of the node are the service thread's, joining again after a restart     *)
(* included.  After undefined behaviour nothing more is said of the        *)
(* process.                                                                *)
(***************************************************************************)
EXTENDS NetworkUpdates, TapAddresses

CONSTANT Assigned  \* the addresses each revision assigns

ASSUME AssignedAssumption == Assigned \in [Rev -> SUBSET Address]

svars == <<vars, tapvars>>

\* toDictionary writes the addresses towards the end, and fromDictionary reads
\* a dictionary that was cut short as one without them.
StaticIps(c) ==
  IF c # << >> /\ Len(c) = Size[c[Len(c)]] THEN Assigned[c[Len(c)]] ELSE {}

SInit == Init /\ NoTap

Sound == broken = "no"

\* A step of the node that leaves the tap alone.
Aside(A) == Sound /\ UNCHANGED tapvars /\ A

\* The service thread is not about to tell the node of groups.
Free == changes = << >>

Ask == Free /\ Aside(requestConfiguration)
Receive == Free /\ Aside(Deliver)
ReceiveAgain == Free /\ Aside(DeliverAgain)
Save == Aside(SaveToDisk)

\* CONFIG_OPERATION_CONFIG_UPDATE, under _nets_m: a leave that has come to
\* destroy the port holds it for ever, and the service thread with it.
PortUpdate ==
  /\ Sound /\ ConfigurePort
  /\ syncManagedStuff(StaticIps(work))

\* The main loop takes _nets_m to ask the tap for its groups.
Scan ==
  /\ Sound /\ phase = "idle" /\ net \in {"up", "leaving"}
  /\ scanMulticastGroups
  /\ UNCHANGED vars

Subscribe ==
  /\ Sound
  /\ multicastSync
  /\ UNCHANGED vars

\* The constructor: CONFIG_OPERATION_UP makes the tap and falls through to the
\* update.
PortUp ==
  /\ Sound /\ Network
  /\ syncManagedStuff(StaticIps(config'))

Leave == Aside(Destroy)
PortDown == Aside(ClosePort)

Crash ==
  /\ Sound /\ Dies
  /\ TapDies

SNext ==
  \/ (Change \/ Lose) /\ UNCHANGED tapvars
  \/ Ask \/ Receive \/ ReceiveAgain
  \/ PortUpdate \/ Save \/ Scan \/ Subscribe
  \/ PortUp \/ Leave \/ PortDown
  \/ Crash

\* The service thread's loop keeps turning: it receives what arrives, asks when
\* it must and finishes what it began, as long as it gets _nets_m.  A network is
\* joined: at first by the application, later because its file is there when
\* the service starts.  Nothing is assumed of a leave.
SFairness ==
  /\ WF_svars(Ask) /\ WF_svars(Receive)
  /\ WF_svars(PortUpdate \/ Save \/ Subscribe)
  /\ WF_svars(PortUp)

SSpec == SInit /\ [][SNext]_svars /\ SFairness

-----------------------------------------------------------------------------
\* The tap's addresses are those the adopted configuration assigns and the
\* settings allow, whatever updates came before and also while the network is
\* being left, except while setConfiguration is about to tell the port:
\* syncManagedStuff only ever applies differences, against what it believes
\* the tap has.
AddressesFollow ==
  Sound /\ net # "none" /\ phase # "port" =>
    tapIps = Allowed(StaticIps(config))

\* removeIp is never asked to remove an address the tap does not have, which
\* would erase the end of the vector (VirtualTap.cpp has the test commented
\* out).
ErasesPresent == broken # "erase"

\* Each address of the tap has an entry in lwIP's table, whose length nobody
\* tests, and adopting configurations again costs none: there are more entries
\* than addresses only once an address has been withdrawn, because none is ever
\* given back.  So the table is run over by configurations that assign more
\* addresses than it has entries, or by addresses that come and go, and by
\* nothing else.
EntryPerAddress ==
  /\ Cardinality(tapIps) <= netifs
  /\ ~withdrawn => netifs = Cardinality(tapIps)
  /\ broken = "table" <=> netifs > NetifSlots

\* The node is subscribed to the groups the tap has reported, and to no other,
\* although std::unique leaves duplicates behind in the vectors that
\* scanMulticastGroups searches.
SubscribesReported == Free => mine = Range(groups)

\* Whenever the service thread is not in setConfiguration, a process that dies
\* finds at its next start the configuration the network had, and so its
\* addresses.  That is so of a network the application is leaving as well: its
\* file stays, and the network is back.
RestartResumes == net # "none" /\ phase = "idle" => disk = config

\* Once chunks are no longer lost, the process no longer dies, the controller
\* changes nothing more, the application stays and answers do not overlap, the
\* node ends up with the configuration the controller has and its addresses on
\* the tap: the periodic request repairs whatever lost chunks, late old
\* updates and a file cut short have done before.  A network that the
\* application has begun to leave is the exception, for as long as the process
\* lives.
Heals ==
  (<>[][~Fault]_vars) =>
    <>[](\/ ~Sound
         \/ net \in {"leaving", "closing"}
         \/ /\ config = M!Whole(current)
            /\ tapIps = Allowed(Assigned[current]))
=============================================================================
