---------------------------- MODULE ManagedConfig ----------------------------
(***************************************************************************)
(* What a node (src/libzt/ext/ZeroTierOne/node/Network.cpp and Node.cpp)   *)
(* promises of the configuration of a network it is a member of: there is  *)
(* none, or the network adopts, one at a time, configurations its          *)
(* controller issued, whole.  The service thread adopts one in three       *)
(* steps: it becomes _config, the virtual port is told, the file is        *)
(* written.  The application joins and leaves meanwhile, in its own        *)
(* thread.  A leave ends what the network does with chunks, and then waits *)
(* for ever: only the death of the process, possible at any point, is      *)
(* behind it.                                                              *)
(*                                                                         *)
(* A configuration is the sequence of its pieces; each piece is known by   *)
(* the revision it belongs to.                                             *)
(***************************************************************************)
EXTENDS Naturals, Sequences

CONSTANTS Rev,   \* the revisions a controller may issue
          Size   \* the number of pieces of each

VARIABLES
  net,     \* "none", "up", and in leave: "leaving" (it is _destroyed), "closing"
           \* (its port is being destroyed, under _nets_m)
  config,  \* its _config; empty when there is none
  phase,   \* the service thread: "idle", or in setConfiguration: "port", "save"
  work,    \* the configuration setConfiguration was given
  disk     \* networks.d/<id>.conf; empty when it holds nothing to load

cfgvars == <<net, config, phase, work, disk>>

Whole(r) == [i \in 1..Size[r] |-> r]

Init ==
  /\ net = "none" /\ config = << >>
  /\ phase = "idle" /\ work = << >>
  /\ disk = << >>

\* The constructor loads the file.  The first piece has the network id and
\* the address the configuration was issued to: with it the file is taken for
\* a configuration, and without it the file is written empty.
Network ==
  /\ net = "none" /\ net' = "up"
  /\ config' = disk
  /\ UNCHANGED <<phase, work, disk>>

\* setConfiguration, under _lock: what it is given replaces _config, older or
\* newer.
setConfiguration(c) ==
  /\ phase = "idle" /\ phase' = "port"
  /\ net = "up"
  /\ config' = c /\ work' = c
  /\ UNCHANGED <<net, disk>>

\* setConfiguration, after _lock: configureVirtualNetworkPort, which takes
\* _nets_m.
ConfigurePort ==
  /\ phase = "port" /\ phase' = "save"
  /\ net # "closing"
  /\ UNCHANGED <<net, config, work, disk>>

SaveLive ==
  /\ phase = "save" /\ phase' = "idle"
  /\ disk' = (IF net = "up" THEN work ELSE disk) /\ work' = << >>
  /\ UNCHANGED <<net, config>>

\* setConfiguration, the end: stateObjectPut, also for a network that has been
\* destroyed since.
SaveToDisk ==
  /\ phase = "save" /\ phase' = "idle"
  /\ disk' = work /\ work' = << >>
  /\ UNCHANGED <<net, config>>

\* leave: the network is destroyed, which ends what it does with chunks.
Destroy ==
  /\ net = "up" /\ net' = "leaving"
  /\ UNCHANGED <<config, phase, work, disk>>

\* leave: CONFIG_OPERATION_DESTROY takes _nets_m and deletes the tap, whose
\* destructor joins a thread that never ends.  The network is never taken off
\* the node's list, and its file is never deleted.
ClosePort ==
  /\ net = "leaving" /\ net' = "closing"
  /\ UNCHANGED <<config, phase, work, disk>>

\* The process dies and is started again.  While it writes, the file has been
\* emptied and holds what has been written so far.
Dies ==
  /\ net' = "none" /\ config' = << >>
  /\ phase' = "idle" /\ work' = << >>
  /\ \/ UNCHANGED disk
     \/ phase = "save" /\ \E n \in 0..Len(work) : disk' = SubSeq(work, 1, n)

Next ==
  \/ Network
  \/ \E r \in Rev : setConfiguration(Whole(r))
  \/ ConfigurePort
  \/ SaveToDisk
  \/ Destroy
  \/ ClosePort
  \/ Dies

Spec == Init /\ [][Next]_cfgvars
=============================================================================
