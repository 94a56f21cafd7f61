------------------------- MODULE ZtServiceJoinProofs -------------------------
(* Joining a network makes one tap for it, however many threads join; and when *)
(* one thread controls the service with blocking calls, no tap refers to a     *)
(* deleted service, nothing follows a pointer to nothing before a stop or a    *)
(* failure, and zts_startjoin keeps its promise (ZtService).                   *)
EXTENDS ZtServiceProofs

USE DEF appvars, svcvars, objvars, netvars, drvvars

TapIn(v, o, n) == \E i \in DOMAIN v : v[i].obj = o /\ v[i].nwid = n

\* A thread between Node::join's entry and the end of the tap's constructor
\* holds _networks_m and has the network in the node; until it has made the
\* tap, there is none; and a tap's network is in its node.
JoinInv ==
  /\ \A a \in App : pc[a] \in {"port", "driver"} =>
       ptr[a] \in Service /\ networks[ptr[a]] = a /\ arg[a] \in joined[ptr[a]]
  /\ \A k \in Service : spc[k] \in {"port", "driver"} =>
       networks[sobj[k]] = k /\ sarg[k] \in joined[sobj[k]]
  /\ \A a \in App : pc[a] = "port" => ~TapIn(vtaps, ptr[a], arg[a])
  /\ \A k \in Service : spc[k] = "port" => ~TapIn(vtaps, sobj[k], sarg[k])
  /\ \A i \in DOMAIN vtaps : vtaps[i].nwid \in joined[vtaps[i].obj]
  /\ OneTapPerNetwork

\* What a step that joins nothing leaves alone.
SameTaps ==
  /\ DOMAIN vtaps' = DOMAIN vtaps
  /\ \A i \in DOMAIN vtaps : vtaps'[i].nwid = vtaps[i].nwid /\ vtaps'[i].obj = vtaps[i].obj

SameApps == \A a \in App : pc'[a] \in {"port", "driver"} =>
              pc'[a] = pc[a] /\ ptr'[a] = ptr[a] /\ arg'[a] = arg[a]

SameServices == \A k \in Service : spc'[k] \in {"port", "driver"} =>
                  spc'[k] = spc[k] /\ sobj'[k] = sobj[k] /\ sarg'[k] = sarg[k]

\* A step that joins nothing keeps JoinInv.
LEMMA JoinFrame ==
  ASSUME JoinInv, SameTaps, SameApps, SameServices, UNCHANGED <<joined, networks>>
  PROVE  JoinInv'
<1>1. \A o, n : TapIn(vtaps', o, n) => TapIn(vtaps, o, n)
  BY DEF TapIn, SameTaps
<1>2. OneTapPerNetwork'
  BY DEF JoinInv, OneTapPerNetwork, SameTaps
<1>3. \A i \in DOMAIN vtaps' : vtaps'[i].nwid \in joined'[vtaps'[i].obj]
  BY DEF JoinInv, SameTaps
<1>4. /\ \A a \in App : pc'[a] \in {"port", "driver"} =>
           ptr'[a] \in Service /\ networks'[ptr'[a]] = a /\ arg'[a] \in joined'[ptr'[a]]
      /\ \A k \in Service : spc'[k] \in {"port", "driver"} =>
           networks'[sobj'[k]] = k /\ sarg'[k] \in joined'[sobj'[k]]
  BY DEF JoinInv, SameApps, SameServices
<1>5. /\ \A a \in App : pc'[a] = "port" => ~TapIn(vtaps, ptr[a], arg[a])
      /\ \A a \in App : pc'[a] = "port" => ptr'[a] = ptr[a] /\ arg'[a] = arg[a]
      /\ \A k \in Service : spc'[k] = "port" => ~TapIn(vtaps, sobj[k], sarg[k])
      /\ \A k \in Service : spc'[k] = "port" => sobj'[k] = sobj[k] /\ sarg'[k] = sarg[k]
  BY DEF JoinInv, SameApps, SameServices
<1> QED
  BY <1>1, <1>2, <1>3, <1>4, <1>5 DEF JoinInv

\* The object of a tap is an object.
LEMMA TapFields ==
  ASSUME vtaps \in Seq(Tap), NEW i \in DOMAIN vtaps
  PROVE  vtaps[i].obj \in Service /\ vtaps[i].nwid \in Net
<1>1. vtaps[i] \in Tap
  OBVIOUS
<1> QED
  BY <1>1 DEF Tap

\* Another thread's _networks_m is not touched by a thread that takes one.
LEMMA OtherLock ==
  ASSUME TypeOK, NEW o \in Service, NEW p \in Service, o # p, NEW th,
         networks' = [networks EXCEPT ![o] = th]
  PROVE  networks'[p] = networks[p]
BY Zenon DEF TypeOK, Types

\* A thread that finds _networks_m free and the network not joined is the only
\* one joining anything on that node, and there is no tap for the network.
LEMMA EnterAlone ==
  ASSUME TypeOK, Running, JoinInv, NEW o \in Service, NEW th \in App \cup Service, NEW n \in Net,
         Enter(o, th, n), n \notin joined[o]
  PROVE  /\ networks' = [networks EXCEPT ![o] = th]
         /\ networks'[o] = th /\ n \in joined'[o]
         /\ \A p \in Service : joined[p] \subseteq joined'[p]
         /\ vtaps' = vtaps
         /\ ~TapIn(vtaps, o, n)
         /\ \A b \in App : pc[b] \in {"port", "driver"} => ptr[b] # o
         /\ \A j \in Service : spc[j] \in {"port", "driver"} => sobj[j] # o
<1>1. networks' = [networks EXCEPT ![o] = th] /\ networks[o] = 0 /\ vtaps' = vtaps
  BY DEF Enter
<1>2. networks'[o] = th
  BY <1>1, Zenon DEF TypeOK, Types
<1>3. n \in joined'[o] /\ \A p \in Service : joined[p] \subseteq joined'[p]
  BY Zenon DEF Enter, TypeOK, Types
<1>4. ~TapIn(vtaps, o, n)
  BY DEF JoinInv, TapIn
<1>5. \A b \in App : pc[b] \in {"port", "driver"} => ptr[b] # o
  BY <1>1, Apart DEF JoinInv
<1>6. \A j \in Service : spc[j] \in {"port", "driver"} => sobj[j] # o
  BY <1>1, Apart DEF JoinInv
<1> QED
  BY <1>1, <1>2, <1>3, <1>4, <1>5, <1>6

\* Entering a network that is joined already changes nothing.
LEMMA EnterJoined ==
  ASSUME TypeOK, NEW o \in Service, NEW th, NEW n, Enter(o, th, n), n \in joined[o]
  PROVE  UNCHANGED <<joined, networks, vtaps>>
<1>1. joined' = [joined EXCEPT ![o] = joined[o] \cup {n}] /\ joined[o] \cup {n} = joined[o]
  BY DEF Enter
<1>2. networks' = [networks EXCEPT ![o] = 0] /\ networks[o] = 0 /\ vtaps' = vtaps
  BY DEF Enter
<1> QED
  BY <1>1, <1>2, Zenon DEF TypeOK, Types

\* zts_join enters Node::join.
LEMMA JoinsKeeps ==
  ASSUME TypeOK, Running, JoinInv, NEW a \in App, Joins(a), Node_(ptr[a]) = "no"
  PROVE  JoinInv'
<1>1. ptr[a] \in Service /\ arg[a] \in Net
  BY Faults, NotZero, Zenon DEF TypeOK, Types, Joins, At
<1>2. /\ Enter(ptr[a], a, arg[a])
      /\ pc' = [pc EXCEPT ![a] = IF arg[a] \in joined[ptr[a]] THEN "ref" ELSE "port"]
      /\ UNCHANGED <<call, arg, ptr, svcvars>>
  BY DEF Joins, Go
<1>3. CASE arg[a] \in joined[ptr[a]]
  <2>1. UNCHANGED <<joined, networks, vtaps>>
    BY <1>1, <1>2, <1>3, EnterJoined
  <2>2. SameTaps /\ SameServices
    BY <1>2, <2>1 DEF SameTaps, SameServices
  <2>3. SameApps
    BY <1>2, <1>3, Zenon DEF SameApps, TypeOK, Types
  <2> QED
    BY <2>1, <2>2, <2>3, JoinFrame
<1>4. CASE arg[a] \notin joined[ptr[a]]
  <2>1. /\ networks' = [networks EXCEPT ![ptr[a]] = a]
        /\ networks'[ptr[a]] = a /\ arg[a] \in joined'[ptr[a]]
        /\ \A p \in Service : joined[p] \subseteq joined'[p]
        /\ vtaps' = vtaps
        /\ ~TapIn(vtaps, ptr[a], arg[a])
        /\ \A b \in App : pc[b] \in {"port", "driver"} => ptr[b] # ptr[a]
        /\ \A j \in Service : spc[j] \in {"port", "driver"} => sobj[j] # ptr[a]
    BY <1>1, <1>2, <1>4, EnterAlone
  <2>2. pc' = [pc EXCEPT ![a] = "port"]
    BY <1>2, <1>4
  <2>3. \A b \in App : pc'[b] \in {"port", "driver"} =>
          ptr[b] \in Service /\ networks'[ptr[b]] = b /\ arg[b] \in joined'[ptr[b]]
    <3> TAKE b \in App
    <3> HAVE pc'[b] \in {"port", "driver"}
    <3>1. CASE b = a
      BY <1>1, <2>1, <3>1
    <3>2. CASE b # a
      <4>1. pc[b] \in {"port", "driver"}
        BY <2>2, <3>2, Zenon DEF TypeOK, Types
      <4>2. /\ ptr[b] \in Service /\ networks[ptr[b]] = b /\ arg[b] \in joined[ptr[b]]
            /\ ptr[b] # ptr[a]
        BY <2>1, <4>1 DEF JoinInv
      <4>3. networks'[ptr[b]] = networks[ptr[b]]
        BY <1>1, <2>1, <4>2, OtherLock
      <4> QED
        BY <2>1, <4>2, <4>3
    <3> QED
      BY <3>1, <3>2
  <2>4. \A j \in Service : spc[j] \in {"port", "driver"} =>
          networks'[sobj[j]] = j /\ sarg[j] \in joined'[sobj[j]]
    <3> TAKE j \in Service
    <3> HAVE spc[j] \in {"port", "driver"}
    <3>1. sobj[j] \in Service /\ sobj[j] # ptr[a]
      BY <2>1 DEF Running
    <3>2. networks[sobj[j]] = j /\ sarg[j] \in joined[sobj[j]]
      BY DEF JoinInv
    <3>3. networks'[sobj[j]] = networks[sobj[j]]
      BY <1>1, <2>1, <3>1, OtherLock
    <3> QED
      BY <2>1, <3>1, <3>2, <3>3
  <2>5. \A b \in App : pc'[b] = "port" => ~TapIn(vtaps, ptr[b], arg[b])
    <3> TAKE b \in App
    <3> HAVE pc'[b] = "port"
    <3>1. b = a \/ pc[b] = "port"
      BY <2>2, Zenon DEF TypeOK, Types
    <3> QED
      BY <2>1, <3>1 DEF JoinInv
  <2>6. \A i \in DOMAIN vtaps : vtaps[i].nwid \in joined'[vtaps[i].obj]
    <3> TAKE i \in DOMAIN vtaps
    <3>1. vtaps[i].obj \in Service
      BY TapFields, Zenon DEF TypeOK, Types
    <3> QED
      BY <2>1, <3>1 DEF JoinInv
  <2>7. OneTapPerNetwork'
    BY <2>1 DEF JoinInv, OneTapPerNetwork
  <2>8. \A p, m : TapIn(vtaps', p, m) <=> TapIn(vtaps, p, m)
    BY <2>1 DEF TapIn
  <2>9. UNCHANGED <<ptr, arg, spc, sobj, sarg>>
    BY <1>2
  <2>10. \A j \in Service : spc[j] = "port" => ~TapIn(vtaps, sobj[j], sarg[j])
    BY DEF JoinInv
  <2>11. /\ \A b \in App : pc'[b] = "port" => ~TapIn(vtaps', ptr'[b], arg'[b])
         /\ \A j \in Service : spc'[j] = "port" => ~TapIn(vtaps', sobj'[j], sarg'[j])
    BY SMTT(60), <2>5, <2>9, <2>10, <2>1, <2>8
  <2> QED
    BY <2>1, <2>3, <2>4, <2>6, <2>7, <2>9, <2>11 DEF JoinInv
<1> QED
  BY <1>3, <1>4

\* The service thread enters Node::join for a network of networks.d.
LEMMA JoinSavedKeeps ==
  ASSUME TypeOK, Running, JoinInv, NEW k \in Service, JoinSaved(k)
  PROVE  JoinInv'
<1>1. sobj[k] \in Service
  BY DEF JoinSaved, AtS, Running
<1>2. PICK n \in saved \ joined[sobj[k]] :
        Enter(sobj[k], k, n) /\ sarg' = [sarg EXCEPT ![k] = n]
  BY Zenon DEF JoinSaved
<1>3. n \in Net /\ n \notin joined[sobj[k]]
  BY <1>2, Zenon DEF TypeOK, Types
<1>4. spc' = [spc EXCEPT ![k] = "port"] /\ UNCHANGED <<sobj, appvars>>
  BY DEF JoinSaved, GoS
<1>5. /\ networks' = [networks EXCEPT ![sobj[k]] = k]
      /\ networks'[sobj[k]] = k /\ n \in joined'[sobj[k]]
      /\ \A p \in Service : joined[p] \subseteq joined'[p]
      /\ vtaps' = vtaps
      /\ ~TapIn(vtaps, sobj[k], n)
      /\ \A b \in App : pc[b] \in {"port", "driver"} => ptr[b] # sobj[k]
      /\ \A j \in Service : spc[j] \in {"port", "driver"} => sobj[j] # sobj[k]
  BY <1>1, <1>2, <1>3, EnterAlone
<1>6. sarg'[k] = n /\ \A j \in Service : j # k => sarg'[j] = sarg[j] /\ spc'[j] = spc[j]
  BY <1>2, <1>4, Zenon DEF TypeOK, Types
<1>7. \A b \in App : pc[b] \in {"port", "driver"} =>
        ptr[b] \in Service /\ networks'[ptr[b]] = b /\ arg[b] \in joined'[ptr[b]]
  <2> TAKE b \in App
  <2> HAVE pc[b] \in {"port", "driver"}
  <2>1. /\ ptr[b] \in Service /\ networks[ptr[b]] = b /\ arg[b] \in joined[ptr[b]]
        /\ ptr[b] # sobj[k]
    BY <1>5 DEF JoinInv
  <2>2. networks'[ptr[b]] = networks[ptr[b]]
    BY <1>1, <1>5, <2>1, OtherLock
  <2> QED
    BY <1>5, <2>1, <2>2
<1>8. \A j \in Service : spc'[j] \in {"port", "driver"} =>
        networks'[sobj[j]] = j /\ sarg'[j] \in joined'[sobj[j]]
  <2> TAKE j \in Service
  <2> HAVE spc'[j] \in {"port", "driver"}
  <2>1. CASE j = k
    BY <1>5, <1>6, <2>1
  <2>2. CASE j # k
    <3>1. spc[j] \in {"port", "driver"} /\ sarg'[j] = sarg[j]
      BY <1>6, <2>2
    <3>2. sobj[j] \in Service /\ sobj[j] # sobj[k]
      BY <1>5, <3>1, SMTT(30) DEF Running
    <3>3. networks[sobj[j]] = j /\ sarg[j] \in joined[sobj[j]]
      BY <3>1 DEF JoinInv
    <3>4. networks'[sobj[j]] = networks[sobj[j]]
      BY <1>1, <1>5, <3>2, OtherLock
    <3> QED
      BY <1>5, <3>1, <3>2, <3>3, <3>4
  <2> QED
    BY <2>1, <2>2
<1>9. \A j \in Service : spc'[j] = "port" => ~TapIn(vtaps, sobj[j], sarg'[j])
  <2> TAKE j \in Service
  <2> HAVE spc'[j] = "port"
  <2>1. CASE j = k
    BY <1>5, <1>6, <2>1
  <2>2. CASE j # k
    BY <1>6, <2>2 DEF JoinInv
  <2> QED
    BY <2>1, <2>2
<1>10. \A i \in DOMAIN vtaps : vtaps[i].nwid \in joined'[vtaps[i].obj]
  <2> TAKE i \in DOMAIN vtaps
  <2>1. vtaps[i].obj \in Service
    BY ZenonT(60), TapFields DEF TypeOK, Types
  <2> QED
    BY <1>5, <2>1 DEF JoinInv
<1> QED
  BY <1>4, <1>5, <1>7, <1>8, <1>9, <1>10 DEF JoinInv, OneTapPerNetwork

\* A new tap for a network without one leaves one tap per network, and makes
\* no other network have one.
LEMMA NewTapKeeps ==
  ASSUME TypeOK, JoinInv, NEW o \in Service, NEW th, NEW n \in Net, NewTap(o, th, n),
         ~TapIn(vtaps, o, n), n \in joined[o]
  PROVE  /\ OneTapPerNetwork'
         /\ \A i \in DOMAIN vtaps' : vtaps'[i].nwid \in joined[vtaps'[i].obj]
         /\ \A p, m : TapIn(vtaps', p, m) => TapIn(vtaps, p, m) \/ (p = o /\ m = n)
         /\ UNCHANGED <<joined, networks>>
<1> DEFINE t == [nwid |-> n, obj |-> o, ips |-> "none", ref |-> 0]
<1>1. vtaps' = Append(vtaps, t) /\ vtaps \in Seq(Tap) /\ UNCHANGED <<joined, networks>>
  BY ZenonT(60) DEF NewTap, TypeOK, Types
<1>2. t.nwid = n /\ t.obj = o
  OBVIOUS
<1> HIDE DEF t
<1>3. /\ Len(vtaps) \in Nat /\ DOMAIN vtaps = 1..Len(vtaps)
      /\ DOMAIN vtaps' = 1..(Len(vtaps) + 1)
      /\ \A i \in 1..Len(vtaps) : vtaps'[i] = vtaps[i]
      /\ vtaps'[Len(vtaps) + 1] = t
  BY <1>1
<1>4. \A i \in DOMAIN vtaps' : (i \in DOMAIN vtaps /\ vtaps'[i] = vtaps[i])
                               \/ (i = Len(vtaps) + 1 /\ vtaps'[i] = t)
  BY <1>3
<1>5. \A i \in DOMAIN vtaps : ~(vtaps[i].obj = o /\ vtaps[i].nwid = n)
  BY DEF TapIn
<1>6. OneTapPerNetwork'
  BY <1>2, <1>4, <1>5 DEF OneTapPerNetwork, JoinInv
<1>7. \A i \in DOMAIN vtaps' : vtaps'[i].nwid \in joined[vtaps'[i].obj]
  BY <1>2, <1>4 DEF JoinInv
<1>8. \A p, m : TapIn(vtaps', p, m) => TapIn(vtaps, p, m) \/ (p = o /\ m = n)
  BY <1>2, <1>4 DEF TapIn
<1> QED
  BY <1>1, <1>6, <1>7, <1>8

\* Two threads that are joining do so on different nodes.
LEMMA JoinersApart ==
  ASSUME JoinInv, Running
  PROVE  /\ \A a, b \in App : pc[a] \in {"port", "driver"} /\ pc[b] \in {"port", "driver"} /\ a # b
              => ptr[a] # ptr[b]
         /\ \A j, k \in Service : spc[j] \in {"port", "driver"} /\ spc[k] \in {"port", "driver"} /\ j # k
              => sobj[j] # sobj[k]
         /\ \A a \in App, k \in Service : pc[a] \in {"port", "driver"} /\ spc[k] \in {"port", "driver"}
              => ptr[a] # sobj[k]
<1>1. \A a \in App, k \in Service : a # k
  BY SMTT(60), Apart
<1> QED
  BY <1>1 DEF JoinInv

\* The tap is made by zts_join's thread.
LEMMA PortKeeps ==
  ASSUME TypeOK, Running, JoinInv, NEW a \in App, Port(a), Node_(ptr[a]) = "no"
  PROVE  JoinInv'
<1>1. /\ pc[a] = "port" /\ NewTap(ptr[a], a, arg[a]) /\ pc' = [pc EXCEPT ![a] = "driver"]
      /\ UNCHANGED <<arg, ptr, svcvars>>
  BY DEF Port, At, Go
<1>2. ptr[a] \in Service /\ arg[a] \in Net /\ arg[a] \in joined[ptr[a]] /\ ~TapIn(vtaps, ptr[a], arg[a])
  BY ZenonT(60), <1>1 DEF JoinInv, TypeOK, Types
<1>3. /\ OneTapPerNetwork'
      /\ \A i \in DOMAIN vtaps' : vtaps'[i].nwid \in joined[vtaps'[i].obj]
      /\ \A p, m : TapIn(vtaps', p, m) => TapIn(vtaps, p, m) \/ (p = ptr[a] /\ m = arg[a])
      /\ UNCHANGED <<joined, networks>>
  BY <1>1, <1>2, NewTapKeeps
<1>4. pc'[a] = "driver" /\ \A b \in App : b # a => pc'[b] = pc[b]
  BY ZenonT(60), <1>1 DEF TypeOK, Types
<1>5. \A b \in App : pc'[b] = "port" => ~TapIn(vtaps', ptr'[b], arg'[b])
  <2> TAKE b \in App
  <2> HAVE pc'[b] = "port"
  <2>1. b # a /\ pc[b] = "port"
    BY <1>4
  <2>2. ptr[a] # ptr[b]
    BY SMTT(60), <1>1, <2>1, JoinersApart
  <2>3. ~TapIn(vtaps, ptr[b], arg[b])
    BY <2>1 DEF JoinInv
  <2>4. ptr'[b] = ptr[b] /\ arg'[b] = arg[b]
    BY <1>1
  <2> QED
    BY <1>3, <2>2, <2>3, <2>4
<1>6. \A k \in Service : spc'[k] = "port" => ~TapIn(vtaps', sobj'[k], sarg'[k])
  <2> TAKE k \in Service
  <2> HAVE spc'[k] = "port"
  <2>1. spc[k] = "port" /\ sobj'[k] = sobj[k] /\ sarg'[k] = sarg[k]
    BY <1>1
  <2>2. ptr[a] # sobj[k]
    BY <1>1, <2>1, JoinersApart
  <2>3. ~TapIn(vtaps, sobj[k], sarg[k])
    BY <2>1 DEF JoinInv
  <2> QED
    BY <1>3, <2>1, <2>2, <2>3
<1>7. \A b \in App : pc'[b] \in {"port", "driver"} => pc[b] \in {"port", "driver"}
  BY SMTT(60), <1>1, <1>4
<1>8. /\ \A b \in App : pc'[b] \in {"port", "driver"} =>
           ptr'[b] \in Service /\ networks'[ptr'[b]] = b /\ arg'[b] \in joined'[ptr'[b]]
      /\ \A k \in Service : spc'[k] \in {"port", "driver"} =>
           networks'[sobj'[k]] = k /\ sarg'[k] \in joined'[sobj'[k]]
  BY <1>1, <1>3, <1>7 DEF JoinInv
<1> QED
  BY <1>3, <1>5, <1>6, <1>8 DEF JoinInv

\* The tap is made by the service thread.
LEMMA PortSavedKeeps ==
  ASSUME TypeOK, Running, JoinInv, NEW k \in Service, PortSaved(k)
  PROVE  JoinInv'
<1>1. /\ spc[k] = "port" /\ NewTap(sobj[k], k, sarg[k]) /\ spc' = [spc EXCEPT ![k] = "driver"]
      /\ UNCHANGED <<sobj, sarg, appvars>>
  BY DEF PortSaved, AtS, GoS
<1>2. sobj[k] \in Service /\ sarg[k] \in Net /\ sarg[k] \in joined[sobj[k]] /\ ~TapIn(vtaps, sobj[k], sarg[k])
  BY ZenonT(60), <1>1 DEF JoinInv, TypeOK, Types, Running
<1>3. /\ OneTapPerNetwork'
      /\ \A i \in DOMAIN vtaps' : vtaps'[i].nwid \in joined[vtaps'[i].obj]
      /\ \A p, m : TapIn(vtaps', p, m) => TapIn(vtaps, p, m) \/ (p = sobj[k] /\ m = sarg[k])
      /\ UNCHANGED <<joined, networks>>
  BY <1>1, <1>2, NewTapKeeps
<1>4. spc'[k] = "driver" /\ \A j \in Service : j # k => spc'[j] = spc[j]
  BY ZenonT(60), <1>1 DEF TypeOK, Types
<1>5. \A b \in App : pc'[b] = "port" => ~TapIn(vtaps', ptr'[b], arg'[b])
  <2> TAKE b \in App
  <2> HAVE pc'[b] = "port"
  <2>1. pc[b] = "port" /\ ptr'[b] = ptr[b] /\ arg'[b] = arg[b]
    BY <1>1
  <2>2. ptr[b] # sobj[k]
    BY <1>1, <2>1, JoinersApart
  <2>3. ~TapIn(vtaps, ptr[b], arg[b])
    BY <2>1 DEF JoinInv
  <2> QED
    BY <1>3, <2>1, <2>2, <2>3
<1>6. \A j \in Service : spc'[j] = "port" => ~TapIn(vtaps', sobj'[j], sarg'[j])
  <2> TAKE j \in Service
  <2> HAVE spc'[j] = "port"
  <2>1. j # k /\ spc[j] = "port"
    BY <1>4
  <2>2. sobj[k] # sobj[j]
    BY <1>1, <2>1, JoinersApart
  <2>3. ~TapIn(vtaps, sobj[j], sarg[j])
    BY <2>1 DEF JoinInv
  <2>4. sobj'[j] = sobj[j] /\ sarg'[j] = sarg[j]
    BY <1>1
  <2> QED
    BY <1>3, <2>2, <2>3, <2>4
<1>7. \A j \in Service : spc'[j] \in {"port", "driver"} => spc[j] \in {"port", "driver"}
  BY SMTT(60), <1>1, <1>4
<1>8. /\ \A b \in App : pc'[b] \in {"port", "driver"} =>
           ptr'[b] \in Service /\ networks'[ptr'[b]] = b /\ arg'[b] \in joined'[ptr'[b]]
      /\ \A j \in Service : spc'[j] \in {"port", "driver"} =>
           networks'[sobj'[j]] = j /\ sarg'[j] \in joined'[sobj'[j]]
  BY SMTT(60), <1>1, <1>3, <1>7 DEF JoinInv
<1> QED
  BY Zenon, <1>3, <1>5, <1>6, <1>8 DEF JoinInv

\* zts_join's thread gives the locks back.
LEMMA DriverJoinKeeps ==
  ASSUME TypeOK, Running, JoinInv, NEW a \in App, Driver(a)
  PROVE  JoinInv'
<1>1. /\ pc[a] = "driver" /\ pc' = [pc EXCEPT ![a] = "ref"]
      /\ networks' = [networks EXCEPT ![ptr[a]] = 0]
      /\ UNCHANGED <<arg, ptr, svcvars, joined, vtaps>>
  BY DEF Driver, At, Go, lwip_driver_init
<1>2. ptr[a] \in Service
  BY <1>1 DEF JoinInv
<1>3. pc'[a] = "ref" /\ \A b \in App : b # a => pc'[b] = pc[b]
  BY Zenon, <1>1 DEF TypeOK, Types
<1>4. \A p \in Service : p # ptr[a] => networks'[p] = networks[p]
  BY ZenonT(60), <1>1, <1>2 DEF TypeOK, Types
<1>5. \A b \in App : pc'[b] \in {"port", "driver"} => b # a /\ pc'[b] = pc[b] /\ ptr[b] # ptr[a]
  BY <1>1, <1>3, JoinersApart
<1>6. \A b \in App : pc'[b] \in {"port", "driver"} =>
        ptr'[b] \in Service /\ networks'[ptr'[b]] = b /\ arg'[b] \in joined'[ptr'[b]]
  BY SMTT(60), <1>1, <1>4, <1>5 DEF JoinInv
<1>7. \A k \in Service : spc'[k] \in {"port", "driver"} =>
        networks'[sobj'[k]] = k /\ sarg'[k] \in joined'[sobj'[k]]
  BY <1>1, <1>4, JoinersApart DEF JoinInv, Running
<1>8. \A p, m : TapIn(vtaps', p, m) <=> TapIn(vtaps, p, m)
  BY <1>1 DEF TapIn
<1>9. \A b \in App : pc'[b] = "port" => ~TapIn(vtaps', ptr'[b], arg'[b])
  BY <1>1, <1>5, <1>8 DEF JoinInv
<1>10. \A k \in Service : spc'[k] = "port" => ~TapIn(vtaps', sobj'[k], sarg'[k])
  BY SMTT(60), <1>1, <1>8 DEF JoinInv
<1> QED
  BY <1>1, <1>6, <1>7, <1>9, <1>10, Zenon DEF JoinInv, OneTapPerNetwork

\* The service thread gives the locks back.
LEMMA DriverSavedKeeps ==
  ASSUME TypeOK, Running, JoinInv, NEW k \in Service, DriverSaved(k)
  PROVE  JoinInv'
<1>1. /\ spc[k] = "driver" /\ spc' = [spc EXCEPT ![k] = "saved"]
      /\ networks' = [networks EXCEPT ![sobj[k]] = 0]
      /\ UNCHANGED <<appvars, sobj, sarg, joined, vtaps>>
  BY Zenon DEF DriverSaved, AtS, GoS, lwip_driver_init
<1>2. sobj[k] \in Service
  BY <1>1 DEF Running
<1>3. spc'[k] = "saved" /\ \A j \in Service : j # k => spc'[j] = spc[j]
  BY Zenon, <1>1 DEF TypeOK, Types
<1>4. \A p \in Service : p # sobj[k] => networks'[p] = networks[p]
  BY ZenonT(60), <1>1, <1>2 DEF TypeOK, Types
<1>5. \A j \in Service : spc'[j] \in {"port", "driver"} =>
        j # k /\ spc'[j] = spc[j] /\ sobj[j] # sobj[k]
  BY SMTT(60), <1>1, <1>3, JoinersApart
<1>6. \A b \in App : pc'[b] \in {"port", "driver"} =>
        ptr'[b] \in Service /\ networks'[ptr'[b]] = b /\ arg'[b] \in joined'[ptr'[b]]
  BY <1>1, <1>4, JoinersApart DEF JoinInv
<1>7. \A j \in Service : spc'[j] \in {"port", "driver"} =>
        networks'[sobj'[j]] = j /\ sarg'[j] \in joined'[sobj'[j]]
  BY <1>1, <1>4, <1>5 DEF JoinInv, Running
<1>8. \A p, m : TapIn(vtaps', p, m) <=> TapIn(vtaps, p, m)
  BY <1>1 DEF TapIn
<1>9. \A b \in App : pc'[b] = "port" => ~TapIn(vtaps', ptr'[b], arg'[b])
  BY <1>1, <1>8, SMTT(30) DEF JoinInv
<1>10. \A j \in Service : spc'[j] = "port" => ~TapIn(vtaps', sobj'[j], sarg'[j])
  BY <1>1, <1>5, <1>8 DEF JoinInv
<1> QED
  BY <1>1, <1>6, <1>7, <1>9, <1>10 DEF JoinInv, OneTapPerNetwork

\* A step of an application thread that joins nothing.
LEMMA AppFrame ==
  ASSUME TypeOK, JoinInv, NEW a \in App,
         NEW l \in {"idle", "spawn", "wait", "waitnode", "address", "online", "join", "joining", "ref",
                    "hasaddress", "leave", "leaving", "destroy", "deleting", "stop", "terminate"},
         pc' = [pc EXCEPT ![a] = l],
         \A b \in App : b # a => ptr'[b] = ptr[b] /\ arg'[b] = arg[b],
         SameServices, SameTaps, UNCHANGED <<joined, networks>>
  PROVE  JoinInv'
<1>1. SameApps
  BY ZenonT(60) DEF SameApps, TypeOK, Types
<1> QED
  BY <1>1, JoinFrame

\* A step of a service thread that joins nothing.
LEMMA ServiceFrame ==
  ASSUME TypeOK, JoinInv, NEW k \in Service,
         NEW l \in {"begin", "create", "enter", "node", "bind", "saved", "loop", "close", "deleting",
                    "delete", "clear", "done"},
         spc' = [spc EXCEPT ![k] = l],
         \A j \in Service : j # k => sobj'[j] = sobj[j] /\ sarg'[j] = sarg[j],
         UNCHANGED <<appvars, joined, networks, vtaps>>
  PROVE  JoinInv'
<1>1. SameServices
  BY ZenonT(60) DEF SameServices, TypeOK, Types
<1>2. SameApps /\ SameTaps
  BY SMTT(60) DEF SameApps, SameTaps
<1> QED
  BY <1>1, <1>2, JoinFrame

\* A step that changes no thread and no network.
LEMMA JoinStutter ==
  ASSUME JoinInv, UNCHANGED <<appvars, svcvars, joined, networks, vtaps>>
  PROVE  JoinInv'
BY JoinFrame DEF SameApps, SameServices, SameTaps

\* Every step keeps JoinInv.
LEMMA JoinStep == TypeOK /\ Running /\ JoinInv /\ [Next]_vars => JoinInv'
<1> SUFFICES ASSUME TypeOK, Running, JoinInv, [Next]_vars PROVE JoinInv'
  OBVIOUS
<1>1. ASSUME NEW w, Crash(w) PROVE JoinInv'
  BY <1>1, JoinStutter DEF Crash
<1>2. ASSUME NEW a \in App, NEW l, Step(a, l),
             l \in {"idle", "spawn", "wait", "waitnode", "address", "online", "join", "joining", "ref",
                    "hasaddress", "leave", "leaving", "destroy", "deleting", "stop", "terminate"}
      PROVE  JoinInv'
  <2>1. SameServices /\ SameTaps
    BY <1>2 DEF Step, SameServices, SameTaps
  <2> QED
    BY ZenonT(60), <1>2, <2>1, AppFrame DEF Step, Go
<1>3. ASSUME NEW a \in App, AppThread(a) PROVE JoinInv'
  <2>1. CASE Spawn(a)
    <3>1. SameServices
      BY ZenonT(60), <2>1 DEF Spawn, SameServices, TypeOK, Types
    <3>2. SameTaps
      BY <2>1 DEF Spawn, SameTaps
    <3> QED
      BY Zenon, <2>1, <3>1, <3>2, AppFrame DEF Spawn, Go
  <2>2. CASE WaitRunning(a) \/ WaitNode(a) \/ WaitAddress(a) \/ WaitOnline(a) \/ HasAddress(a) \/ JoinsNothing(a)
    BY <1>1, <1>2, <2>2 DEF WaitRunning, WaitNode, WaitAddress, WaitOnline, HasAddress, JoinsNothing
  <2>3. ASSUME NEW l, NEW with, NEW without, ReadService(a, l, with, without),
               with \in {"joining", "leaving", "terminate"}, without \in {"ref", "idle"}
        PROVE  JoinInv'
    <3>1. SameServices /\ SameTaps
      BY Zenon, <2>3 DEF ReadService, SameServices, SameTaps
    <3>2. \A b \in App : b # a => ptr'[b] = ptr[b] /\ arg'[b] = arg[b]
      BY Zenon, <2>3 DEF ReadService, TypeOK, Types
    <3>3. PICK m \in {"joining", "leaving", "terminate", "ref", "idle"} :
            pc' = [pc EXCEPT ![a] = m]
      BY <2>3, Zenon DEF ReadService, Go
    <3> QED
      BY ZenonT(60), <2>3, <3>1, <3>2, <3>3, AppFrame DEF ReadService
  <2>4. CASE Joins(a)
    BY Zenon, <1>1, <2>4, JoinsKeeps, Faults DEF Joins
  <2>5. CASE Port(a)
    BY Zenon, <1>1, <2>5, PortKeeps, Faults DEF Port
  <2>6. CASE Driver(a)
    BY <2>6, DriverJoinKeeps
  <2>7. CASE SetRefs(a)
    <3>1. SameServices
      BY <2>7 DEF SetRefs, SameServices
    <3>2. SameTaps
      <4>1. vtaps' = [i \in DOMAIN vtaps |-> [vtaps[i] EXCEPT !.ref = zt1Service]]
        BY <2>7 DEF SetRefs
      <4>2. \A i \in DOMAIN vtaps : vtaps[i] \in Tap
        <5>1. vtaps \in Seq(Tap)
          BY Zenon DEF TypeOK, Types
        <5> QED
          BY <5>1
      <4>3. \A t \in Tap : LET u == [t EXCEPT !.ref = zt1Service] IN u.nwid = t.nwid /\ u.obj = t.obj
        BY DEF Tap
      <4> QED
        BY <4>1, <4>2, <4>3, Zenon DEF SameTaps
    <3>3. PICK m \in {"hasaddress", "idle"} : pc' = [pc EXCEPT ![a] = m]
      BY <2>7, Zenon DEF SetRefs, Go
    <3>4. \A b \in App : b # a => ptr'[b] = ptr[b] /\ arg'[b] = arg[b]
      BY <2>7, Zenon DEF SetRefs, TypeOK, Types
    <3> QED
      BY Zenon, <2>7, <3>1, <3>2, <3>3, <3>4, AppFrame DEF SetRefs
  <2>8. CASE Leaves(a)
    BY <1>1, <1>2, <2>8 DEF Leaves
  <2>9. CASE Destroy(a)
    <3>1. CASE Node_(ptr[a]) # "no"
      BY SMTT(60), <1>1, <2>9, <3>1 DEF Destroy
    <3>2. CASE Node_(ptr[a]) = "no"
      BY <2>9, <3>2, AppFrame DEF Destroy, Go, SameServices, SameTaps
    <3> QED
      BY <3>1, <3>2
  <2>10. CASE Terminate(a)
    <3>1. CASE Service_(ptr[a]) # "no"
      BY <1>1, <2>10, <3>1 DEF Terminate
    <3>2. CASE Service_(ptr[a]) = "no"
      BY Zenon, <2>10, <3>2, AppFrame DEF Terminate, Go, SameServices, SameTaps, TypeOK, Types
    <3> QED
      BY <3>1, <3>2
  <2> QED
    BY <1>3, <2>1, <2>2, <2>3, <2>4, <2>5, <2>6, <2>7, <2>8, <2>9, <2>10 DEF AppThread
<1>4. ASSUME NEW k \in Service, ServiceThread(k) PROVE JoinInv'
  <2>1. CASE Begin(k)
    BY Zenon, <2>1, ServiceFrame DEF Begin, GoS
  <2>2. CASE Create(k)
    BY Zenon, <2>2, ServiceFrame DEF Create, GoS
  <2>3. CASE EnterRun(k)
    BY Zenon, <1>1, <2>3, ServiceFrame DEF EnterRun, GoS, TypeOK, Types
  <2>4. CASE NodeUp(k) \/ Bind(k) \/ EnterLoop(k) \/ LoopEnds(k)
    BY Zenon, <2>4, ServiceFrame DEF NodeUp, Bind, EnterLoop, LoopEnds, GoS
  <2>5. CASE JoinSaved(k) \/ PortSaved(k) \/ DriverSaved(k)
    BY SMTT(60), <2>5, JoinSavedKeeps, PortSavedKeeps, DriverSavedKeeps
  <2>6. CASE Close(k)
    <3>1. PICK m \in {"deleting", "delete"} : spc' = [spc EXCEPT ![k] = m]
      BY <2>6 DEF Close, GoS
    <3>2. UNCHANGED <<sobj, sarg, appvars, joined, networks, vtaps>>
      BY <2>6 DEF Close
    <3> QED
      BY ZenonT(60), <3>1, <3>2, ServiceFrame
  <2>7. CASE Delete(k)
    BY Zenon, <1>1, <2>7, ServiceFrame DEF Delete, GoS
  <2>8. CASE Clear(k)
    <3>1. PICK m \in {"create", "done"} : spc' = [spc EXCEPT ![k] = m]
      BY <2>8, Zenon DEF Clear, GoS
    <3> QED
      BY Zenon, <2>8, <3>1, ServiceFrame DEF Clear
  <2> QED
    BY SMTT(60), <1>4, <2>1, <2>2, <2>3, <2>4, <2>5, <2>6, <2>7, <2>8 DEF ServiceThread
<1>5. ASSUME NEW k \in Service, Online(k) \/ Collide(k) PROVE JoinInv'
  BY <1>5, JoinStutter DEF Online, Collide
<1>6. ASSUME NEW k \in Service, ReturnEarly(k) \/ Fail(k) PROVE JoinInv'
  BY Zenon, <1>6, ServiceFrame DEF ReturnEarly, Fail, GoS
<1>7. ASSUME NEW k \in Service, AssignAddress(k) PROVE JoinInv'
  <2>1. PICK i \in DOMAIN vtaps : vtaps' = [vtaps EXCEPT ![i].ips = "some"]
    BY <1>7, Zenon DEF AssignAddress
  <2>2. \A j \in DOMAIN vtaps : vtaps[j] \in Tap
    <3>1. vtaps \in Seq(Tap)
      BY Zenon DEF TypeOK, Types
    <3> QED
      BY <3>1
  <2>3. \A t \in Tap : LET u == [t EXCEPT !.ips = "some"] IN u.nwid = t.nwid /\ u.obj = t.obj
    BY DEF Tap
  <2>4. SameTaps
    BY <2>1, <2>2, <2>3 DEF SameTaps
  <2>5. SameApps /\ SameServices
    BY <1>7 DEF AssignAddress, SameApps, SameServices
  <2> QED
    BY <1>7, <2>4, <2>5, JoinFrame DEF AssignAddress
<1>8. ASSUME NEW a \in App, AppCalls(a) PROVE JoinInv'
  <2>1. ASSUME NEW c, NEW n, NEW path, zts_start(a, c, n, path) PROVE JoinInv'
    <3>1. PICK m \in {"join", "idle", "spawn"} : pc' = [pc EXCEPT ![a] = m]
      BY <2>1 DEF zts_start, Go
    <3>2. \A b \in App : b # a => ptr'[b] = ptr[b] /\ arg'[b] = arg[b]
      BY Zenon, <2>1 DEF zts_start, TypeOK, Types
    <3>3. SameServices /\ SameTaps /\ UNCHANGED <<joined, networks>>
      BY Zenon, <2>1 DEF zts_start, SameServices, SameTaps
    <3> QED
      BY ZenonT(60), <3>1, <3>2, <3>3, AppFrame
  <2>2. ASSUME NEW c \in {"join", "leave", "stop"}, NEW n, zts_call(a, c, n) PROVE JoinInv'
    <3>1. pc' = [pc EXCEPT ![a] = c]
      BY <2>2 DEF zts_call, Go
    <3>2. \A b \in App : b # a => ptr'[b] = ptr[b] /\ arg'[b] = arg[b]
      BY ZenonT(60), <2>2 DEF zts_call, TypeOK, Types
    <3>3. SameServices /\ SameTaps /\ UNCHANGED <<joined, networks>>
      BY <2>2 DEF zts_call, SameServices, SameTaps
    <3> QED
      BY Zenon, <3>1, <3>2, <3>3, AppFrame
  <2> QED
    BY <1>8, <2>1, <2>2 DEF AppCalls
<1>9. CASE tcpip_init_done
  BY <1>9, JoinStutter DEF tcpip_init_done
<1>10. CASE UNCHANGED vars
  BY <1>10, JoinStutter DEF vars
<1> QED
  BY <1>3, <1>4, <1>5, <1>6, <1>7, <1>8, <1>9, <1>10 DEF Next

\* The initial state has no tap and no thread that joins.
LEMMA JoinInit == Init => JoinInv
BY DEF Init, JoinInv, TapIn, OneTapPerNetwork

\* A node has one tap for a network at most, whoever joins the network.
THEOREM OneTap == Spec => []OneTapPerNetwork
<1>1. Typed /\ JoinInv /\ [Next]_vars => JoinInv'
  BY JoinStep DEF Typed
<1>2. JoinInv => OneTapPerNetwork
  BY DEF JoinInv
<1> QED
  BY <1>1, <1>2, JoinInit, Inductive, PTL DEF Spec
-----------------------------------------------------------------------------
(* One thread that controls the service with blocking calls. *)

\* The application uses one thread, and not the call that does not wait.
Controlled == (\A a, b \in App : a = b) /\ "start_nonblocking" \notin Calls

Active(k) == spc[k] \notin {"off", "done"}
Runs == {"node", "bind", "saved", "port", "driver", "loop", "close", "deleting", "delete", "clear"}

\* What a service thread has done to the object and the application waits for.
Stage(k) ==
  /\ spc[k] \in {"begin", "create"} => zt1Service = 0 /\ \A a \in App : pc[a] = "wait"
  /\ spc[k] \in {"enter", "node"} => \A a \in App : pc[a] \in {"wait", "waitnode"}
  /\ spc[k] = "enter" => zt1Service # 0 /\ life[zt1Service] = "new"
  /\ spc[k] \in Runs => sobj[k] = zt1Service
  /\ spc[k] = "node" => life[zt1Service] = "new"
  /\ spc[k] \in {"bind", "saved", "port", "driver", "loop", "deleting"} => life[zt1Service] = "up"
  /\ spc[k] = "close" => life[zt1Service] \in {"new", "up"}
  /\ spc[k] = "delete" => life[zt1Service] \in {"new", "up", "closed"}
  /\ spc[k] = "clear" => life[zt1Service] = "freed"
  /\ spc[k] \in {"close", "deleting", "delete", "clear"} => reason[zt1Service] \in {"normal", "error"}

\* There is one service thread at a time, the global pointer is to its object,
\* and no other object is left.
Single ==
  /\ \A j, k \in Service : Active(j) /\ Active(k) => j = k
  /\ \A k \in Service : Stage(k)
  /\ \A a \in App : pc[a] = "spawn" => zt1Service = 0 /\ \A k \in Service : ~Active(k)
  /\ zt1Service # 0 => \E k \in Service : spc[k] \in Runs \cup {"enter"}
  /\ \A o \in Service : life[o] \in {"new", "up", "closed"} => o = zt1Service
  /\ \A a \in App : call[a] # "start_nonblocking"

\* Every tap belongs to the service there is, and refers to no other.
Attached ==
  \A i \in DOMAIN vtaps :
    vtaps[i].obj = zt1Service /\ life[zt1Service] = "up" /\ vtaps[i].ref \in {0, zt1Service}

\* The thread's node is not online yet, or never will be: run returned early.
Offline(k) == spc[k] \in {"enter", "node", "bind"} \/ (spc[k] = "delete" /\ life[zt1Service] = "up")

\* Until its node is online the application waits for the service, and nothing
\* is joined.
Early ==
  /\ \A o \in Service : life[o] \in {"none", "new"} => ~online[o]
  /\ \A k \in Service : Offline(k) =>
       /\ ~online[zt1Service] /\ DOMAIN vtaps = {}
       /\ \A a \in App : pc[a] \in {"wait", "waitnode", "address", "online"}

\* A service thread that is active is the only one.
LEMMA ThreadMoves ==
  ASSUME Typed, Single, NEW k \in Service, Active(k),
         NEW l \in {"create", "enter", "node", "bind", "saved", "port", "driver", "loop", "close", "deleting",
                    "delete", "clear", "done"},
         spc' = [spc EXCEPT ![k] = l], UNCHANGED <<pc, call>>, Stage(k)',
         zt1Service' # 0 => l \in Runs \cup {"enter"},
         \A o \in Service : life'[o] \in {"new", "up", "closed"} => o = zt1Service'
  PROVE  Single'
<1>1. spc'[k] = l /\ \A j \in Service : j # k => spc'[j] = spc[j] /\ spc[j] \in {"off", "done"}
  BY Zenon DEF Typed, TypeOK, Types, Single, Active
<1>2. \A j \in Service : Stage(j)'
  <2> TAKE j \in Service
  <2>1. CASE j = k
    BY <1>1, <2>1
  <2>2. CASE j # k
    <3>1. spc'[j] \in {"off", "done"}
      BY <1>1, <2>2
    <3> QED
      BY <3>1 DEF Stage, Runs
  <2> QED
    BY <2>1, <2>2
<1>3. \A i, j \in Service : Active(i)' /\ Active(j)' => i = j
  BY <1>1 DEF Active
<1>4. \A a \in App : pc'[a] # "spawn" /\ call'[a] # "start_nonblocking"
  BY DEF Single
<1>5. zt1Service' # 0 => \E j \in Service : spc'[j] \in Runs \cup {"enter"}
  BY <1>1
<1> QED
  BY <1>2, <1>3, <1>4, <1>5 DEF Single

\* The application's thread goes on, but not past a node that is not up.
LEMMA CallerMoves ==
  ASSUME Controlled, Typed, Single, NEW a \in App, NEW l, l # "spawn", pc' = [pc EXCEPT ![a] = l],
         \/ pc[a] \notin {"wait", "waitnode"}
         \/ l \in {"wait", "waitnode"} /\ zt1Service # 0
         \/ pc[a] = "waitnode" /\ life[zt1Service] = "up",
         \A b \in App : call'[b] # "start_nonblocking",
         UNCHANGED <<zt1Service, spc, sobj, life, reason>>
  PROVE  Single'
<1>1. pc'[a] = l /\ \A b \in App : b = a
  BY Zenon DEF Typed, TypeOK, Types, Controlled
<1>2. ASSUME NEW k \in Service PROVE Stage(k)'
  <2>1. Stage(k)
    BY DEF Single
  <2>2. spc[k] \in {"begin", "create"} => pc[a] = "wait" /\ zt1Service = 0
    BY <2>1, SMTT(30) DEF Stage
  <2>3. spc[k] \in {"enter", "node"} => pc[a] \in {"wait", "waitnode"} /\ life[zt1Service] = "new"
    BY <2>1 DEF Stage
  <2> QED
    BY <1>1, <2>1, <2>2, <2>3 DEF Stage
<1>3. \A k \in Service : Active(k)' = Active(k)
  BY DEF Active
<1> QED
  BY <1>1, <1>2, <1>3 DEF Single

\* Nothing the invariant is about changes.
LEMMA SingleFrame ==
  ASSUME Single, UNCHANGED <<zt1Service, spc, sobj, life, pc, call>>,
         \A k \in Service : spc[k] \in {"close", "deleting", "delete", "clear"} =>
           reason'[zt1Service] = reason[zt1Service]
  PROVE  Single'
<1>1. ASSUME NEW k \in Service PROVE Stage(k)'
  <2>1. Stage(k)
    BY DEF Single
  <2> QED
    BY <2>1 DEF Stage
<1>2. \A k \in Service : Active(k)' = Active(k)
  BY DEF Active
<1> QED
  BY <1>1, <1>2, SMTT(30) DEF Single
\* The service thread comes to have an object with a node.
LEMMA RisingKeeps ==
  ASSUME Typed, Single, NEW k \in Service,
         Begin(k) \/ Create(k) \/ (EnterRun(k) /\ Service_(zt1Service) = "no") \/ NodeUp(k)
  PROVE  Single'
<1>1. Stage(k) /\ zt1Service \in Service \cup {0} /\ 0 \notin Service
  BY Apart, Zenon DEF Single, Typed, TypeOK, Types
<1>2. \A o \in Service : life[o] \in {"new", "up", "closed"} => o = zt1Service
  BY DEF Single
<1>3. CASE Begin(k)
  <2>1. PICK l \in {"create", "done"} : spc' = [spc EXCEPT ![k] = l]
    BY <1>3, Zenon DEF Begin, GoS
  <2>2. /\ spc[k] = "begin" /\ zt1Service = 0 /\ zt1Service' = 0
        /\ UNCHANGED <<pc, call, life>> /\ \A a \in App : pc[a] = "wait"
    BY <1>1, <1>3 DEF Begin, AtS, Stage
  <2>3. spc'[k] = l
    BY <2>1, Zenon DEF Typed, TypeOK, Types
  <2>4. Stage(k)'
    BY <2>2, <2>3, Zenon DEF Stage, Runs
  <2> QED
    BY <1>2, <2>1, <2>2, <2>4, ThreadMoves, Zenon DEF Active
<1>4. CASE Create(k)
  <2>1. PICK o \in Service : life' = [life EXCEPT ![o] = "new"] /\ zt1Service' = o
    BY <1>4, Zenon DEF Create
  <2>2. /\ spc[k] = "create" /\ spc' = [spc EXCEPT ![k] = "enter"] /\ zt1Service = 0
        /\ UNCHANGED <<pc, call>> /\ \A a \in App : pc[a] = "wait"
    BY <1>1, <1>4 DEF Create, AtS, GoS, Stage
  <2>3. spc'[k] = "enter" /\ life'[o] = "new" /\ \A p \in Service : p # o => life'[p] = life[p]
    BY <2>1, <2>2, ZenonT(30) DEF Typed, TypeOK, Types
  <2>4. Stage(k)'
    BY <1>1, <2>1, <2>2, <2>3, SMTT(30) DEF Stage, Runs
  <2>5. \A p \in Service : life'[p] \in {"new", "up", "closed"} => p = zt1Service'
    BY <1>1, <1>2, <2>1, <2>2, <2>3, SMTT(30)
  <2> QED
    BY <2>2, <2>4, <2>5, ThreadMoves, Zenon DEF Active
<1>5. CASE EnterRun(k) /\ Service_(zt1Service) = "no"
  <2>1. /\ spc[k] = "enter" /\ spc' = [spc EXCEPT ![k] = "node"] /\ sobj' = [sobj EXCEPT ![k] = zt1Service]
        /\ UNCHANGED <<zt1Service, pc, call, life>>
    BY <1>5 DEF EnterRun, AtS, GoS
  <2>2. spc'[k] = "node" /\ sobj'[k] = zt1Service
    BY <2>1, Zenon DEF Typed, TypeOK, Types
  <2>3. Stage(k)'
    BY <1>1, <2>1, <2>2 DEF Stage, Runs
  <2> QED
    BY <1>2, <2>1, <2>3, ThreadMoves, Zenon DEF Active, Runs
<1>6. CASE NodeUp(k)
  <2>1. /\ spc[k] = "node" /\ spc' = [spc EXCEPT ![k] = "bind"] /\ life' = [life EXCEPT ![sobj[k]] = "up"]
        /\ UNCHANGED <<zt1Service, sobj, pc, call>>
    BY <1>6 DEF NodeUp, AtS, GoS
  <2>2. sobj[k] = zt1Service /\ zt1Service \in Service
    BY <1>1, <2>1 DEF Stage, Runs, Typed, Running
  <2>3. spc'[k] = "bind" /\ life'[zt1Service] = "up" /\ \A p \in Service : p # zt1Service => life'[p] = life[p]
    BY <2>1, <2>2, Zenon DEF Typed, TypeOK, Types
  <2>4. Stage(k)'
    BY <2>1, <2>2, <2>3, ZenonT(30) DEF Stage, Runs
  <2>5. \A p \in Service : life'[p] \in {"new", "up", "closed"} => p = zt1Service'
    BY <1>2, <2>1, <2>3, ZenonT(30)
  <2> QED
    BY <2>1, <2>4, <2>5, ThreadMoves, Zenon DEF Active, Runs
<1> QED
  BY <1>3, <1>4, <1>5, <1>6

\* It runs the object.
LEMMA RunningKeeps ==
  ASSUME Typed, Single, NEW k \in Service,
         \/ Bind(k) \/ JoinSaved(k) \/ PortSaved(k) \/ DriverSaved(k) \/ EnterLoop(k)
         \/ LoopEnds(k) \/ ReturnEarly(k) \/ Fail(k)
  PROVE  Single'
<1>1. Stage(k) /\ \A o \in Service : life[o] \in {"new", "up", "closed"} => o = zt1Service
  BY DEF Single
<1>2. spc[k] \in {"node", "bind", "saved", "port", "driver", "loop"} /\ UNCHANGED <<zt1Service, sobj, life, pc, call>>
  BY Zenon DEF Bind, JoinSaved, PortSaved, DriverSaved, EnterLoop, LoopEnds, ReturnEarly, Fail, AtS
<1>3. sobj[k] = zt1Service /\ zt1Service \in Service /\ life[zt1Service] \in {"new", "up"}
  BY <1>1, <1>2 DEF Stage, Runs, Typed, Running
<1>4. CASE LoopEnds(k) \/ ReturnEarly(k) \/ Fail(k)
  <2>1. PICK l \in {"close", "delete"} : spc' = [spc EXCEPT ![k] = l]
    BY <1>4, Zenon DEF LoopEnds, ReturnEarly, Fail, GoS
  <2>2. spc'[k] = l /\ reason'[zt1Service] \in {"normal", "error"}
    BY <1>3, <1>4, <2>1, ZenonT(30) DEF LoopEnds, ReturnEarly, Fail, Typed, TypeOK, Types
  <2>3. Stage(k)'
    BY <1>2, <1>3, <2>2 DEF Stage, Runs
  <2> QED
    BY <1>1, <1>2, <2>1, <2>3, ThreadMoves, Zenon DEF Active, Runs
<1>5. CASE Bind(k) \/ JoinSaved(k) \/ PortSaved(k) \/ DriverSaved(k) \/ EnterLoop(k)
  <2>1. PICK l \in {"saved", "port", "driver", "loop"} : spc' = [spc EXCEPT ![k] = l]
    BY <1>5, Zenon DEF Bind, JoinSaved, PortSaved, DriverSaved, EnterLoop, GoS
  <2>2. spc'[k] = l /\ life[zt1Service] = "up"
    BY <1>1, <1>5, <2>1, Zenon DEF Bind, JoinSaved, PortSaved, DriverSaved, EnterLoop, AtS, Stage, Typed, TypeOK, Types
  <2>3. Stage(k)'
    BY <1>2, <1>3, <2>2 DEF Stage, Runs
  <2> QED
    BY <1>1, <1>2, <2>1, <2>3, ThreadMoves, Zenon DEF Active, Runs
<1> QED
  BY <1>4, <1>5

\* It ends, and takes the object along, unless it waits for a tap.
LEMMA EndingKeeps ==
  ASSUME Typed, Single, Attached, NEW k \in Service,
         Close(k) \/ (Delete(k) /\ life[zt1Service] # "freed") \/ Clear(k)
  PROVE  Single'
<1>1. Stage(k) /\ \A o \in Service : life[o] \in {"new", "up", "closed"} => o = zt1Service
  BY DEF Single
<1>2. spc[k] \in {"close", "delete", "clear"} /\ UNCHANGED <<sobj, reason, pc, call>>
  BY Zenon DEF Close, Delete, Clear, AtS
<1>3. sobj[k] = zt1Service /\ zt1Service \in Service /\ reason[zt1Service] \in {"normal", "error"} /\ 0 \notin Service
  BY <1>1, <1>2, Apart DEF Stage, Runs, Typed, Running
<1>4. CASE Close(k) /\ \E i \in DOMAIN vtaps : vtaps[i].obj = sobj[k]
  <2>1. spc' = [spc EXCEPT ![k] = "deleting"] /\ UNCHANGED <<life, zt1Service>> /\ life[zt1Service] = "up"
    BY <1>4, Zenon DEF Close, GoS, Attached
  <2>2. spc'[k] = "deleting"
    BY <2>1, Zenon DEF Typed, TypeOK, Types
  <2>3. Stage(k)'
    BY <1>2, <1>3, <2>1, <2>2 DEF Stage, Runs
  <2> QED
    BY <1>1, <1>2, <2>1, <2>3, ThreadMoves, ZenonT(30) DEF Active, Runs
<1>5. CASE Close(k) /\ ~(\E i \in DOMAIN vtaps : vtaps[i].obj = sobj[k])
  <2>1. spc' = [spc EXCEPT ![k] = "delete"] /\ life' = [life EXCEPT ![sobj[k]] = "closed"] /\ zt1Service' = zt1Service
    BY <1>5, Zenon DEF Close, GoS
  <2>2. spc'[k] = "delete" /\ life'[zt1Service] = "closed" /\ \A p \in Service : p # zt1Service => life'[p] = life[p]
    BY <1>3, <2>1, Zenon DEF Typed, TypeOK, Types
  <2>3. Stage(k)'
    BY <1>2, <1>3, <2>1, <2>2, SMTT(30) DEF Stage, Runs
  <2>4. \A p \in Service : life'[p] \in {"new", "up", "closed"} => p = zt1Service'
    BY <1>1, <2>1, <2>2
  <2> QED
    BY <1>2, <2>1, <2>3, <2>4, ThreadMoves, Zenon DEF Active, Runs
<1>6. CASE Delete(k) /\ life[zt1Service] # "freed"
  <2>1. /\ spc' = [spc EXCEPT ![k] = "clear"] /\ zt1Service' = zt1Service
        /\ life' = [o \in Service |-> IF o = zt1Service THEN "freed" ELSE life[o]]
    BY <1>6 DEF Delete, GoS
  <2>2. spc'[k] = "clear" /\ life'[zt1Service] = "freed" /\ \A p \in Service : p # zt1Service => life'[p] = life[p]
    BY <1>3, <2>1, Zenon DEF Typed, TypeOK, Types
  <2>3. Stage(k)'
    BY <1>2, <1>3, <2>1, <2>2 DEF Stage, Runs
  <2>4. \A p \in Service : life'[p] \in {"new", "up", "closed"} => p = zt1Service'
    BY <1>1, <2>1, <2>2
  <2> QED
    BY <1>2, <2>1, <2>3, <2>4, ThreadMoves, Zenon DEF Active, Runs
<1>7. CASE Clear(k)
  <2>1. spc[k] = "clear" /\ spc' = [spc EXCEPT ![k] = "done"] /\ zt1Service' = 0 /\ life' = life
    BY <1>3, <1>7, Zenon DEF Clear, AtS, GoS
  <2>2. spc'[k] = "done" /\ life[zt1Service] = "freed"
    BY <1>1, <2>1, ZenonT(30) DEF Stage, Typed, TypeOK, Types
  <2>3. Stage(k)'
    BY <2>2 DEF Stage, Runs
  <2>4. \A p \in Service : life'[p] \in {"new", "up", "closed"} => p = zt1Service'
    BY <1>1, <2>1, <2>2
  <2> QED
    BY <1>2, <2>1, <2>3, <2>4, ThreadMoves, Zenon DEF Active, Runs
<1> QED
  BY <1>4, <1>5, <1>6, <1>7, Zenon
\* The application's thread goes through its calls.
LEMMA CallerKeeps ==
  ASSUME Controlled, Typed, Single, NEW a \in App, AppThread(a)
  PROVE  Single'
<1>0. \A b \in App : call[b] # "start_nonblocking"
  BY DEF Single
<1>1. ASSUME NEW w, Crash(w) PROVE Single'
  BY <1>1, SingleFrame DEF Crash
<1>2. ASSUME NEW l, l # "spawn", Step(a, l), pc[a] \notin {"wait", "waitnode"} PROVE Single'
  BY <1>0, <1>2, CallerMoves, Zenon DEF Step, Go
<1>3. CASE Spawn(a)
  <2>1. PICK k \in Service : spc[k] = "off" /\ spc' = [spc EXCEPT ![k] = "begin"]
    BY <1>3, Zenon DEF Spawn
  <2>2. /\ pc[a] = "spawn" /\ pc' = [pc EXCEPT ![a] = "wait"]
        /\ UNCHANGED <<zt1Service, call, life, sobj, reason>>
    BY <1>0, <1>3, Zenon DEF Spawn, At, Go
  <2>3. zt1Service = 0 /\ \A j \in Service : spc[j] \in {"off", "done"}
    BY <2>2, Zenon DEF Single, Active
  <2>4. pc'[a] = "wait" /\ \A b \in App : b = a
    BY <2>2, Zenon DEF Typed, TypeOK, Types, Controlled
  <2>5. spc'[k] = "begin" /\ \A j \in Service : j # k => spc'[j] \in {"off", "done"}
    BY <2>1, <2>3, Zenon DEF Typed, TypeOK, Types
  <2>6. Stage(k)'
    BY <2>2, <2>3, <2>4, <2>5, Zenon DEF Stage, Runs
  <2>7. \A j \in Service : j # k => Stage(j)'
    BY <2>5, Zenon DEF Stage, Runs
  <2>8. \A i, j \in Service : Active(i)' /\ Active(j)' => i = j
    BY <2>5 DEF Active
  <2> QED
    BY <2>2, <2>3, <2>4, <2>6, <2>7, <2>8, Zenon DEF Single
<1>4. CASE WaitRunning(a)
  <2>1. CASE Service_(zt1Service) # "no"
    BY <1>1, <1>4, <2>1, SMTT(30) DEF WaitRunning
  <2>2. CASE Service_(zt1Service) = "no"
    BY <1>0, <1>4, <2>2, CallerMoves DEF WaitRunning, Step, Go
  <2> QED
    BY <2>1, <2>2
<1>5. CASE WaitNode(a)
  <2>1. CASE Service_(zt1Service) # "no"
    BY <1>1, <1>5, <2>1 DEF WaitNode
  <2>2. CASE Service_(zt1Service) = "no"
    <3>1. pc[a] = "waitnode" /\ zt1Service # 0 /\ Step(a, IF life[zt1Service] = "up" THEN "address" ELSE "wait")
      BY <1>5, <2>2, Faults, Zenon DEF WaitNode, At
    <3>2. CASE life[zt1Service] = "up"
      BY <1>0, <3>1, <3>2, CallerMoves, Zenon DEF Step, Go
    <3>3. CASE life[zt1Service] # "up"
      BY <1>0, <3>1, <3>3, CallerMoves, Zenon DEF Step, Go
    <3> QED
      BY <3>2, <3>3
  <2> QED
    BY <2>1, <2>2
<1>6. CASE WaitAddress(a) \/ WaitOnline(a)
  <2>1. CASE Node_(zt1Service) # "no"
    BY <1>1, <1>6, <2>1 DEF WaitAddress, WaitOnline
  <2>2. CASE Node_(zt1Service) = "no"
    BY <1>2, <1>6, <2>2 DEF WaitAddress, WaitOnline, At
  <2> QED
    BY <2>1, <2>2
<1>7. ASSUME NEW l \in {"join", "leave", "stop"}, NEW with \in {"joining", "leaving", "terminate"},
             NEW without \in {"ref", "idle"}, ReadService(a, l, with, without)
      PROVE  Single'
  BY <1>0, <1>7, CallerMoves, Zenon DEF ReadService, At, Go
<1>8. CASE Joins(a) \/ Port(a) \/ Destroy(a) \/ Leaves(a)
  <2>1. CASE Node_(ptr[a]) # "no"
    BY <1>1, <1>8, <2>1, Zenon DEF Joins, Port, Destroy, Leaves
  <2>2. CASE Node_(ptr[a]) = "no"
    <3>1. /\ pc[a] \notin {"wait", "waitnode"} /\ UNCHANGED <<zt1Service, spc, sobj, life, reason, call>>
          /\ \E l \in {"ref", "port", "driver", "deleting", "destroy", "idle"} : pc' = [pc EXCEPT ![a] = l]
      BY <1>8, <2>2, Zenon DEF Joins, Port, Destroy, Leaves, At, Go, Step
    <3> QED
      BY <1>0, <3>1, CallerMoves, Zenon
  <2> QED
    BY <2>1, <2>2
<1>9. CASE Driver(a) \/ SetRefs(a)
  BY <1>0, <1>9, CallerMoves, SMTT(30) DEF Driver, SetRefs, At, Go
<1>10. CASE HasAddress(a) \/ JoinsNothing(a)
  BY <1>2, <1>10, SMTT(30) DEF HasAddress, JoinsNothing, At
<1>11. CASE Terminate(a)
  <2>1. CASE Service_(ptr[a]) # "no"
    BY <1>1, <1>11, <2>1 DEF Terminate
  <2>2. CASE Service_(ptr[a]) = "no"
    BY <1>0, <1>11, <2>2, CallerMoves DEF Terminate, At, Go
  <2> QED
    BY <2>1, <2>2
<1> QED
  BY <1>3, <1>4, <1>5, <1>6, <1>7, <1>8, <1>9, <1>10, <1>11, SMTT(30) DEF AppThread

\* It makes a call: a service is started only when there is none.
LEMMA CallKeeps ==
  ASSUME Controlled, Typed, Single, NEW a \in App, AppCalls(a)
  PROVE  Single'
<1>0. \A b \in App : call[b] # "start_nonblocking" /\ b = a
  BY Zenon DEF Single, Controlled
<1>1. ASSUME NEW c \in {"start", "startjoin"}, NEW n, NEW path, zts_start(a, c, n, path) PROVE Single'
  <2>1. /\ pc[a] = "idle" /\ UNCHANGED <<zt1Service, spc, sobj, life, reason>>
        /\ \A b \in App : call'[b] # "start_nonblocking"
    BY <1>0, <1>1 DEF zts_start, At, Typed, TypeOK, Types
  <2>2. CASE zt1Service # 0
    <3>1. \E l \in {"join", "idle"} : pc' = [pc EXCEPT ![a] = l]
      BY <1>1, <2>2, SMTT(30) DEF zts_start, Go
    <3> QED
      BY <2>1, <3>1, CallerMoves, Zenon
  <2>3. CASE zt1Service = 0
    <3>1. pc' = [pc EXCEPT ![a] = "spawn"]
      BY <1>1, <2>3 DEF zts_start, Go
    <3>2. pc'[a] = "spawn"
      BY <3>1, Zenon DEF Typed, TypeOK, Types
    <3>3. ASSUME NEW k \in Service PROVE spc[k] \in {"off", "done"}
      <4>1. Stage(k) /\ pc[a] = "idle"
        BY <2>1 DEF Single
      <4>2. spc[k] \notin {"begin", "create", "enter"}
        BY <2>3, <4>1, Zenon DEF Stage
      <4>3. spc[k] \notin Runs
        BY <2>3, <4>1, Apart DEF Stage, Typed, Running, Runs
      <4> QED
        BY <4>2, <4>3, Zenon DEF Typed, TypeOK, Types, Runs
    <3>4. \A k \in Service : Stage(k)' /\ ~Active(k)'
      BY <2>1, <3>3 DEF Stage, Active, Runs
    <3> QED
      BY <2>1, <2>3, <3>4 DEF Single
  <2> QED
    BY <2>2, <2>3, SMTT(30)
<1>2. ASSUME NEW c \in {"join", "leave", "stop"}, NEW n, zts_call(a, c, n) PROVE Single'
  <2>1. \A b \in App : call'[b] # "start_nonblocking"
    BY <1>0, <1>2, Zenon DEF zts_call, Typed, TypeOK, Types
  <2> QED
    BY <1>2, <2>1, CallerMoves, Zenon DEF zts_call, At, Go
<1> QED
  BY <1>1, <1>2, ConstantAssumption DEF AppCalls, Controlled

\* Every step keeps the service threads apart.
LEMMA SingleStep ==
  ASSUME Controlled, Typed, Single, Attached, [Next]_vars
  PROVE  Single'
<1>1. ASSUME NEW k \in Service, ServiceThread(k) PROVE Single'
  <2>1. CASE EnterRun(k) /\ Service_(zt1Service) # "no"
    BY <2>1, SingleFrame, SMTT(30) DEF EnterRun, Crash
  <2>2. CASE Delete(k) /\ life[zt1Service] = "freed"
    <3>1. Stage(k) /\ spc[k] = "delete"
      BY <2>2, Zenon DEF Single, Delete, AtS
    <3> QED
      BY <2>2, <3>1 DEF Stage
  <2> QED
    BY <1>1, <2>1, <2>2, RisingKeeps, RunningKeeps, EndingKeeps, SMTT(30) DEF ServiceThread
<1>2. ASSUME NEW k \in Service, Online(k) \/ AssignAddress(k) \/ Collide(k) PROVE Single'
  <2>1. spc[k] = "loop" /\ UNCHANGED <<zt1Service, spc, sobj, life, pc, call>>
    BY <1>2 DEF Online, AssignAddress, Collide, AtS
  <2>2. \A j \in Service : spc[j] \notin {"close", "deleting", "delete", "clear"}
    BY <2>1, SMTT(30) DEF Single, Active
  <2> QED
    BY <2>1, <2>2, SingleFrame
<1>3. CASE tcpip_init_done \/ UNCHANGED vars
  BY <1>3, SingleFrame DEF tcpip_init_done, vars
<1> QED
  BY <1>1, <1>2, <1>3, RunningKeeps, CallerKeeps, CallKeeps, SMTT(30) DEF Next
\* Without a service whose node is up there are no taps.
LEMMA NoTapsNow ==
  ASSUME Typed, Attached, zt1Service = 0 \/ life[zt1Service] # "up"
  PROVE  DOMAIN vtaps = {}
<1>1. \A i \in DOMAIN vtaps : vtaps[i].obj \in Service
  BY TapFields, Zenon DEF Typed, TypeOK, Types
<1> QED
  BY <1>1, Apart, ZenonT(30) DEF Attached

\* So a step that adds none keeps them with the service.
LEMMA NoTaps ==
  ASSUME Typed, Attached, zt1Service = 0 \/ life[zt1Service] # "up", vtaps' = vtaps
  PROVE  Attached'
BY NoTapsNow DEF Attached

\* A new tap is the service's.
LEMMA NewTapAttached ==
  ASSUME Typed, Attached, life[zt1Service] = "up", NEW th, NEW n, NewTap(zt1Service, th, n),
         UNCHANGED <<zt1Service, life>>
  PROVE  Attached'
<1> DEFINE t == [nwid |-> n, obj |-> zt1Service, ips |-> "none", ref |-> 0]
<1>1. vtaps' = Append(vtaps, t) /\ vtaps \in Seq(Tap)
  BY ZenonT(60) DEF NewTap, Typed, TypeOK, Types
<1>2. t.obj = zt1Service /\ t.ref = 0
  OBVIOUS
<1> HIDE DEF t
<1>3. \A i \in DOMAIN vtaps' : (i \in DOMAIN vtaps /\ vtaps'[i] = vtaps[i]) \/ vtaps'[i] = t
  BY <1>1
<1> QED
  BY <1>2, <1>3 DEF Attached

\* Every step keeps the taps with the service: its object goes away only when
\* it has none.
LEMMA AttachedStep ==
  ASSUME Typed, Single, Attached, Early, [Next]_vars
  PROVE  Attached'
<1>1. ASSUME UNCHANGED <<vtaps, zt1Service, life>> PROVE Attached'
  BY <1>1 DEF Attached
<1>2. ASSUME NEW a \in App, AppThread(a) PROVE Attached'
  <2>1. CASE Port(a)
    <3>1. CASE Node_(ptr[a]) # "no"
      BY <1>1, <2>1, <3>1 DEF Port, Crash
    <3>2. CASE Node_(ptr[a]) = "no"
      <4>1. ptr[a] \in Service /\ life[ptr[a]] = "up"
        <5>1. ptr[a] \in Service \cup {0} /\ ptr[a] # 0
          BY <3>2, Faults, Zenon DEF Typed, TypeOK, Types
        <5> QED
          BY <3>2, <5>1 DEF Node_, Service_
      <4>2. ptr[a] = zt1Service
        BY <4>1 DEF Single
      <4> QED
        BY <2>1, <3>2, <4>1, <4>2, NewTapAttached, Zenon DEF Port
    <3> QED
      BY <3>1, <3>2
  <2>2. CASE SetRefs(a)
    <3>1. vtaps' = [i \in DOMAIN vtaps |-> [vtaps[i] EXCEPT !.ref = zt1Service]] /\ UNCHANGED <<zt1Service, life>>
      BY <2>2 DEF SetRefs
    <3>2. \A i \in DOMAIN vtaps : vtaps[i] \in Tap
      <4>1. vtaps \in Seq(Tap)
        BY Zenon DEF Typed, TypeOK, Types
      <4> QED
        BY <4>1
    <3>3. \A u \in Tap : LET w == [u EXCEPT !.ref = zt1Service] IN w.ref = zt1Service /\ w.obj = u.obj
      BY DEF Tap
    <3> QED
      BY <3>1, <3>2, <3>3, Zenon DEF Attached
  <2>3. CASE ~Port(a) /\ ~SetRefs(a)
    BY Zenon, <1>1, <1>2, <2>3 DEF AppThread, Spawn, WaitRunning, WaitNode, WaitAddress, WaitOnline,
      ReadService, JoinsNothing, Joins, Enter, Driver, lwip_driver_init, HasAddress, Leaves, Destroy, Terminate, Crash, Step
  <2> QED
    BY <2>1, <2>2, <2>3, SMTT(30)
<1>3. ASSUME NEW k \in Service, ServiceThread(k) PROVE Attached'
  <2>0. Stage(k) /\ (spc[k] \in Runs => sobj[k] = zt1Service /\ zt1Service \in Service)
    BY Zenon DEF Single, Stage, Typed, Running, Runs
  <2>1. CASE Begin(k) \/ Create(k)
    BY <2>0, <2>1, NoTaps, SMTT(30) DEF Begin, Create, AtS, Stage
  <2>2. CASE NodeUp(k)
    BY <2>0, <2>2, NoTaps, SMTT(30) DEF NodeUp, AtS, Stage
  <2>3. CASE PortSaved(k)
    BY <2>0, <2>3, NewTapAttached DEF PortSaved, AtS, Stage, Runs
  <2>4. CASE Close(k)
    <3>1. CASE \E i \in DOMAIN vtaps : vtaps[i].obj = sobj[k]
      BY <1>1, <2>4, <3>1, Zenon DEF Close
    <3>2. CASE ~(\E i \in DOMAIN vtaps : vtaps[i].obj = sobj[k])
      <4>1. sobj[k] = zt1Service /\ vtaps' = vtaps
        BY <2>0, <2>4, Zenon DEF Close, AtS, Runs
      <4> QED
        BY <3>2, <4>1, Zenon DEF Attached
    <3> QED
      BY <3>1, <3>2, Zenon
  <2>5. CASE Delete(k)
    <3>1. spc[k] = "delete" /\ vtaps' = vtaps
      BY <2>5, Zenon DEF Delete, AtS, Crash
    <3>2. CASE life[zt1Service] = "up"
      BY <3>1, <3>2, Zenon DEF Early, Offline, Attached
    <3>3. CASE life[zt1Service] # "up"
      BY <3>1, <3>3, NoTaps
    <3> QED
      BY <3>2, <3>3
  <2>6. CASE Clear(k)
    BY <2>0, <2>6, NoTaps DEF Clear, AtS, Stage
  <2>7. CASE EnterRun(k) \/ Bind(k) \/ JoinSaved(k) \/ DriverSaved(k) \/ EnterLoop(k) \/ LoopEnds(k)
    BY Zenon, <1>1, <2>7 DEF EnterRun, Bind, JoinSaved, Enter, DriverSaved, lwip_driver_init, EnterLoop, LoopEnds, Crash
  <2> QED
    BY <1>3, <2>1, <2>2, <2>3, <2>4, <2>5, <2>6, <2>7 DEF ServiceThread
<1>4. ASSUME NEW k \in Service, AssignAddress(k) PROVE Attached'
  <2>1. PICK i \in DOMAIN vtaps : vtaps' = [vtaps EXCEPT ![i].ips = "some"]
    BY <1>4, Zenon DEF AssignAddress
  <2>2. \A j \in DOMAIN vtaps : vtaps[j] \in Tap
    <3>1. vtaps \in Seq(Tap)
      BY Zenon DEF Typed, TypeOK, Types
    <3> QED
      BY <3>1
  <2>3. \A u \in Tap : LET w == [u EXCEPT !.ips = "some"] IN w.ref = u.ref /\ w.obj = u.obj
    BY DEF Tap
  <2>4. UNCHANGED <<zt1Service, life>>
    BY <1>4 DEF AssignAddress
  <2> QED
    BY <2>1, <2>2, <2>3, <2>4 DEF Attached
<1>5. ASSUME NEW k \in Service, Online(k) \/ Collide(k) \/ ReturnEarly(k) \/ Fail(k) PROVE Attached'
  BY <1>1, <1>5, Zenon DEF Online, Collide, ReturnEarly, Fail
<1>6. ASSUME NEW a \in App, AppCalls(a) PROVE Attached'
  BY <1>1, <1>6 DEF AppCalls, zts_start, zts_call
<1>7. CASE tcpip_init_done \/ UNCHANGED vars
  BY <1>1, <1>7 DEF tcpip_init_done, vars
<1> QED
  BY <1>2, <1>3, <1>4, <1>5, <1>6, <1>7 DEF Next

\* The service thread goes where it is not offline.
LEMMA EarlyPast ==
  ASSUME Typed, Single, Early, NEW k \in Service, Active(k), NEW l, l \notin {"enter", "node", "bind"},
         spc' = [spc EXCEPT ![k] = l], l = "delete" => life'[zt1Service'] # "up",
         \A o \in Service : life'[o] \in {"none", "new"} => ~online'[o]
  PROVE  Early'
<1>1. spc'[k] = l /\ \A j \in Service : j # k => spc'[j] \in {"off", "done"}
  BY Zenon DEF Typed, TypeOK, Types, Single, Active
<1>2. \A j \in Service : ~Offline(j)'
  BY <1>1 DEF Offline
<1> QED
  BY <1>2, Zenon DEF Early

\* Every step keeps the application waiting for the node.
LEMMA EarlyStep ==
  ASSUME Typed, Single, Attached, Early, [Next]_vars
  PROVE  Early'
<1>1. ASSUME UNCHANGED <<zt1Service, life, online, spc, vtaps, pc>> PROVE Early'
  BY <1>1, ZenonT(30) DEF Early, Offline
<1>2. ASSUME NEW a \in App, AppThread(a) PROVE Early'
  <2>1. UNCHANGED <<zt1Service, life, online>>
    BY Zenon, <1>2 DEF AppThread, Spawn, WaitRunning, WaitNode, WaitAddress, WaitOnline, ReadService,
      JoinsNothing, Joins, Port, Driver, SetRefs, HasAddress, Leaves, Destroy, Terminate, Crash, Step
  <2>2. ASSUME NEW k \in Service, Offline(k)'
        PROVE  Offline(k)
    <3>1. CASE Spawn(a)
      <4>1. PICK j \in Service : spc' = [spc EXCEPT ![j] = "begin"]
        BY <3>1, Zenon DEF Spawn
      <4>2. spc'[k] \in {spc[k], "begin"}
        BY <4>1, Zenon DEF Typed, TypeOK, Types
      <4> QED
        BY <2>1, <2>2, <4>2 DEF Offline
    <3>2. CASE ~Spawn(a)
      <4>1. spc' = spc
        BY Zenon, <1>2, <3>2 DEF AppThread, WaitRunning, WaitNode, WaitAddress, WaitOnline, ReadService,
          JoinsNothing, Joins, Port, Driver, SetRefs, HasAddress, Leaves, Destroy, Terminate, Crash, Step
      <4> QED
        BY <2>1, <2>2, <4>1 DEF Offline
    <3> QED
      BY <3>1, <3>2
  <2>3. ASSUME NEW k \in Service, Offline(k)
        PROVE  /\ DOMAIN vtaps' = {}
               /\ \A b \in App : pc'[b] \in {"wait", "waitnode", "address", "online"}
    <3>1. /\ ~online[zt1Service] /\ DOMAIN vtaps = {}
          /\ \A b \in App : pc[b] \in {"wait", "waitnode", "address", "online"}
      BY <2>3 DEF Early
    <3>2. WaitRunning(a) \/ WaitNode(a) \/ WaitAddress(a) \/ WaitOnline(a)
      BY <1>2, <3>1, SMTT(30) DEF AppThread, Spawn, ReadService, JoinsNothing, Joins, Port, Driver, SetRefs,
        HasAddress, Leaves, Destroy, Terminate, At
    <3>3. vtaps' = vtaps
      BY <3>2, Zenon DEF WaitRunning, WaitNode, WaitAddress, WaitOnline, Crash, Step
    <3>4. pc' = pc \/ \E l \in {"wait", "waitnode", "address", "online"} : pc' = [pc EXCEPT ![a] = l]
      BY <3>1, <3>2, Zenon DEF WaitRunning, WaitNode, WaitAddress, WaitOnline, Crash, Step, Go
    <3> QED
      BY <3>1, <3>3, <3>4, Zenon DEF Typed, TypeOK, Types
  <2> QED
    BY <2>1, <2>2, <2>3, ZenonT(30) DEF Early
<1>3. ASSUME NEW a \in App, AppCalls(a) PROVE Early'
  <2>1. pc[a] = "idle" /\ UNCHANGED <<zt1Service, life, online, spc>>
    BY <1>3, SMTT(30) DEF AppCalls, zts_start, zts_call, At
  <2>2. \A k \in Service : ~Offline(k)
    BY <2>1, SMTT(30) DEF Early
  <2>3. \A k \in Service : ~Offline(k)'
    BY <2>1, <2>2 DEF Offline
  <2> QED
    BY <2>1, <2>3 DEF Early
<1>4. ASSUME NEW k \in Service, ServiceThread(k) \/ ReturnEarly(k) \/ Fail(k) PROVE Early'
  <2>0. Stage(k) /\ (spc[k] \in Runs => sobj[k] = zt1Service /\ zt1Service \in Service)
    BY Zenon DEF Single, Stage, Typed, Running, Runs
  <2>1. \A o \in Service : life[o] \in {"none", "new"} => ~online[o]
    BY ZenonT(30) DEF Early
  <2>2. CASE Begin(k) \/ Bind(k) \/ JoinSaved(k) \/ PortSaved(k) \/ DriverSaved(k) \/ EnterLoop(k) \/ LoopEnds(k) \/ Fail(k)
    <3>1. PICK l \in {"create", "done", "saved", "port", "driver", "loop", "close"} : spc' = [spc EXCEPT ![k] = l]
      BY <2>2, Zenon DEF Begin, Bind, JoinSaved, PortSaved, DriverSaved, EnterLoop, LoopEnds, Fail, GoS
    <3>2. UNCHANGED <<life, online>> /\ Active(k)
      BY <2>2, Zenon DEF Begin, Bind, JoinSaved, PortSaved, DriverSaved, EnterLoop, LoopEnds, Fail, AtS, Active
    <3> QED
      BY <2>1, <3>1, <3>2, EarlyPast, ZenonT(30)
  <2>3. CASE Create(k)
    <3>1. PICK o \in Service : life[o] = "none" /\ life' = [life EXCEPT ![o] = "new"] /\ zt1Service' = o
      BY <2>3, Zenon DEF Create
    <3>2. /\ spc' = [spc EXCEPT ![k] = "enter"] /\ zt1Service = 0 /\ UNCHANGED <<pc, online, vtaps>>
          /\ Active(k) /\ \A a \in App : pc[a] = "wait"
      BY <2>0, <2>3 DEF Create, AtS, GoS, Stage, Active
    <3>3. \A j \in Service : j # k => spc'[j] \in {"off", "done"}
      BY <3>2, Zenon DEF Typed, TypeOK, Types, Single, Active
    <3>4. \A p \in Service : p # o => life'[p] = life[p]
      BY <3>1, Zenon DEF Typed, TypeOK, Types
    <3>5. DOMAIN vtaps = {}
      BY <3>2, NoTapsNow
    <3>6. \A j \in Service : Offline(j)' => j = k
      BY <3>3, SMTT(30) DEF Offline
    <3> QED
      BY <2>1, <3>1, <3>2, <3>4, <3>5, <3>6, SMTT(30) DEF Early
  <2>4. CASE EnterRun(k) \/ NodeUp(k) \/ ReturnEarly(k)
    <3>1. CASE EnterRun(k) /\ Service_(zt1Service) # "no"
      BY <1>1, <3>1, SMTT(30) DEF EnterRun, Crash
    <3>2. CASE spc[k] = "node" /\ ReturnEarly(k)
      <4>1. spc' = [spc EXCEPT ![k] = "delete"] /\ UNCHANGED <<zt1Service, life, online>> /\ life[zt1Service] = "new"
        BY <2>0, <3>2, Zenon DEF ReturnEarly, GoS, Stage
      <4> QED
        BY <2>1, <3>2, <4>1, EarlyPast, ZenonT(30) DEF Active
    <3>3. CASE \/ EnterRun(k) /\ Service_(zt1Service) = "no"
               \/ NodeUp(k)
               \/ spc[k] # "node" /\ ReturnEarly(k)
      <4>1. Offline(k) /\ Active(k) /\ UNCHANGED <<zt1Service, pc, online, vtaps>>
        BY <3>3, SMTT(30) DEF EnterRun, NodeUp, ReturnEarly, AtS, Offline, Active
      <4>2. PICK l \in {"node", "bind", "delete"} : spc' = [spc EXCEPT ![k] = l]
        BY <3>3, Zenon DEF EnterRun, NodeUp, ReturnEarly, GoS
      <4>3. \A j \in Service : j # k => spc'[j] \in {"off", "done"}
        BY <4>1, <4>2, Zenon DEF Typed, TypeOK, Types, Single, Active
      <4>4. \A j \in Service : Offline(j)' => j = k
        BY <4>3, SMTT(30) DEF Offline
      <4>5. life' = life \/ life' = [life EXCEPT ![sobj[k]] = "up"]
        BY <3>3, Zenon DEF EnterRun, NodeUp, ReturnEarly
      <4>6. \A o \in Service : life'[o] \in {life[o], "up"}
        BY <4>5, Zenon DEF Typed, TypeOK, Types
      <4>7. \A o \in Service : life'[o] \in {"none", "new"} => ~online'[o]
        BY <2>1, <4>1, <4>6, ZenonT(30)
      <4>8. /\ ~online'[zt1Service'] /\ DOMAIN vtaps' = {}
            /\ \A a \in App : pc'[a] \in {"wait", "waitnode", "address", "online"}
        BY <4>1, Zenon DEF Early
      <4> QED
        BY <4>4, <4>7, <4>8, Zenon DEF Early
    <3> QED
      BY <2>4, <3>1, <3>2, <3>3, Zenon
  <2>5. CASE Close(k)
    <3>1. sobj[k] = zt1Service /\ zt1Service \in Service /\ UNCHANGED <<zt1Service, online>> /\ Active(k)
      BY <2>0, <2>5, Zenon DEF Close, AtS, Runs, Active
    <3>2. CASE life' = life /\ spc' = [spc EXCEPT ![k] = "deleting"]
      BY <2>1, <3>1, <3>2, EarlyPast, Zenon
    <3>3. CASE life' = [life EXCEPT ![sobj[k]] = "closed"] /\ spc' = [spc EXCEPT ![k] = "delete"]
      <4>1. life'[zt1Service] = "closed" /\ \A p \in Service : life'[p] \in {life[p], "closed"}
        BY <3>1, <3>3, Zenon DEF Typed, TypeOK, Types
      <4> QED
        BY <2>1, <3>1, <3>3, <4>1, EarlyPast, ZenonT(30)
    <3> QED
      BY <2>5, <3>2, <3>3, Zenon DEF Close, GoS
  <2>6. CASE Delete(k)
    <3>1. CASE life[zt1Service] = "freed" /\ zt1Service # 0
      BY <1>1, <2>6, <3>1, Zenon DEF Delete, Crash
    <3>2. CASE ~(life[zt1Service] = "freed" /\ zt1Service # 0)
      <4>1. /\ spc' = [spc EXCEPT ![k] = "clear"] /\ online' = online /\ Active(k)
            /\ life' = [o \in Service |-> IF o = zt1Service THEN "freed" ELSE life[o]]
        BY <2>6, <3>2, Zenon DEF Delete, AtS, GoS, Active
      <4>2. \A p \in Service : life'[p] \in {life[p], "freed"}
        BY <4>1, Zenon
      <4> QED
        BY <2>1, <4>1, <4>2, EarlyPast, ZenonT(30)
    <3> QED
      BY <3>1, <3>2
  <2>7. CASE Clear(k)
    <3>1. PICK l \in {"create", "done"} : spc' = [spc EXCEPT ![k] = l]
      BY <2>7, Zenon DEF Clear, GoS
    <3>2. UNCHANGED <<life, online>> /\ Active(k)
      BY <2>7, Zenon DEF Clear, AtS, Active
    <3> QED
      BY <2>1, <3>1, <3>2, EarlyPast, ZenonT(30)
  <2> QED
    BY <1>4, <2>2, <2>3, <2>4, <2>5, <2>6, <2>7, SMTT(30) DEF ServiceThread
<1>5. ASSUME NEW k \in Service, Online(k) \/ AssignAddress(k) PROVE Early'
  <2>1. spc[k] = "loop" /\ UNCHANGED <<spc, life, zt1Service>>
    BY <1>5, Zenon DEF Online, AssignAddress, AtS
  <2>2. Stage(k) /\ sobj[k] = zt1Service /\ life[zt1Service] = "up"
    BY <2>1, Zenon DEF Single, Stage, Runs
  <2>3. \A j \in Service : ~Offline(j)'
    <3>1. \A j \in Service : j # k => spc[j] \in {"off", "done"}
      BY <2>1, Zenon DEF Single, Active
    <3> QED
      BY <2>1, <3>1 DEF Offline
  <2>4. online' = online \/ online' = [online EXCEPT ![sobj[k]] = TRUE]
    BY <1>5, Zenon DEF Online, AssignAddress
  <2>5. \A o \in Service : o # zt1Service => online'[o] = online[o]
    BY <2>2, <2>4, Zenon DEF Typed, TypeOK, Types
  <2> QED
    BY <2>1, <2>2, <2>3, <2>5, ZenonT(30) DEF Early
<1>6. ASSUME NEW k \in Service, Collide(k) PROVE Early'
  BY <1>1, <1>6 DEF Collide
<1>7. CASE tcpip_init_done \/ UNCHANGED vars
  BY <1>1, <1>7 DEF tcpip_init_done, vars
<1> QED
  BY <1>2, <1>3, <1>4, <1>5, <1>6, <1>7, ZenonT(30) DEF Next

\* At the start there is no service and no tap.
LEMMA LoneInit == Init => Single /\ Attached /\ Early
<1> SUFFICES ASSUME Init PROVE Single /\ Attached /\ Early
  OBVIOUS
<1>1. \A k \in Service : spc[k] = "off"
  BY DEF Init
<1>2. \A k \in Service : Stage(k) /\ ~Active(k)
  BY <1>1 DEF Stage, Active, Runs
<1>3. Attached
  BY DEF Init, Attached
<1>4. Early
  BY <1>1 DEF Init, Early, Offline
<1> QED
  BY <1>2, <1>3, <1>4 DEF Init, Single

\* While one thread controls the service with blocking calls, no tap's
\* zt1ServiceRef dangles, whatever ended the service and however often it was
\* started again: run() deletes the object only when the taps are gone, and
\* with a tap it never gets that far.
THEOREM RefsStayLive ==
  ASSUME Controlled PROVE Spec => []TapRefsLive
<1>1. Typed /\ Single /\ Attached /\ Early /\ [Next]_vars => Single' /\ Attached' /\ Early'
  BY SingleStep, AttachedStep, EarlyStep
<1>2. Typed /\ Single /\ Attached => TapRefsLive
  <2>1. "up" # "freed"
    OBVIOUS
  <2> QED
    BY <2>1 DEF Attached, TapRefsLive
<1> QED
  BY <1>1, <1>2, Inductive, LoneInit, PTL DEF Spec

\* No service was told to stop and none has failed.
Calm == \A o \in Service : run[o] /\ reason[o] = "running"

\* Nothing was run into, and a thread that is about to follow a pointer has one.
Safe ==
  /\ crash = "no"
  /\ \A a \in App :
       /\ pc[a] \in {"waitnode", "address", "online"} => zt1Service # 0
       /\ pc[a] \in {"joining", "port", "driver", "leaving", "destroy", "terminate"} =>
            zt1Service # 0 /\ ptr[a] = zt1Service

\* Once a service was told to stop or has failed, that stays so.
LEMMA CalmBefore ==
  ASSUME Typed, [Next]_vars, Calm' PROVE Calm
<1>1. ASSUME UNCHANGED <<run, reason>> PROVE Calm
  BY <1>1 DEF Calm
<1>2. ASSUME NEW a \in App, Terminate(a) PROVE Calm
  <2>1. CASE Service_(ptr[a]) # "no"
    BY <1>1, <1>2, <2>1 DEF Terminate, Crash
  <2>2. CASE Service_(ptr[a]) = "no"
    <3>1. ptr[a] \in Service \cup {0} /\ ptr[a] # 0 /\ run' = [run EXCEPT ![ptr[a]] = FALSE]
      BY <1>2, <2>2, Faults, Zenon DEF Terminate, Typed, TypeOK, Types
    <3>2. run'[ptr[a]] = FALSE
      BY Zenon, <3>1 DEF Typed, TypeOK, Types
    <3> QED
      BY <3>1, <3>2 DEF Calm
  <2> QED
    BY <2>1, <2>2
<1>3. ASSUME NEW k \in Service, Collide(k) \/ LoopEnds(k) \/ ReturnEarly(k) \/ Fail(k) PROVE Calm
  <2>1. sobj[k] \in Service
    BY <1>3, Zenon DEF Collide, LoopEnds, ReturnEarly, Fail, AtS, Typed, Running
  <2>2. reason'[sobj[k]] \in {"collision", "normal", "error"}
    BY <1>3, <2>1, ZenonT(30) DEF Collide, LoopEnds, ReturnEarly, Fail, Typed, TypeOK, Types
  <2> QED
    BY <2>1, <2>2, SMTT(30) DEF Calm
<1>4. ASSUME NEW a \in App, AppThread(a), ~Terminate(a) PROVE Calm
  BY Zenon, <1>1, <1>4 DEF AppThread, Spawn, WaitRunning, WaitNode, WaitAddress, WaitOnline,
     ReadService, JoinsNothing, Joins, Port, Driver, SetRefs, HasAddress, Leaves, Destroy, Crash, Step
<1>5. ASSUME NEW k \in Service, ServiceThread(k), ~LoopEnds(k) PROVE Calm
  BY Zenon, <1>1, <1>5 DEF ServiceThread, Begin, Create, EnterRun, NodeUp, Bind, JoinSaved, PortSaved, DriverSaved,
     EnterLoop, Close, Delete, Clear, Crash
<1>6. ASSUME NEW k \in Service, Online(k) \/ AssignAddress(k) PROVE Calm
  BY <1>1, <1>6 DEF Online, AssignAddress
<1>7. ASSUME NEW a \in App, AppCalls(a) PROVE Calm
  BY <1>1, <1>7 DEF AppCalls, zts_start, zts_call
<1>8. CASE tcpip_init_done \/ UNCHANGED vars
  BY <1>1, <1>8 DEF tcpip_init_done, vars
<1> QED
  BY <1>2, <1>3, <1>4, <1>5, <1>6, <1>7, <1>8 DEF Next

\* Then the service there is has a node, or the application waits for it.
LEMMA CalmUp ==
  ASSUME Typed, Single, Calm, zt1Service # 0
  PROVE  /\ life[zt1Service] \in {"new", "up"}
         /\ \A k \in Service : spc[k] # "clear"
         /\ \A a \in App : pc[a] \notin {"wait", "waitnode"} => life[zt1Service] = "up"
         /\ Service_(zt1Service) = "no"
         /\ life[zt1Service] = "up" => Node_(zt1Service) = "no"
<1>1. zt1Service \in Service /\ reason[zt1Service] = "running"
  BY Zenon DEF Typed, TypeOK, Types, Calm
<1>2. PICK k \in Service : spc[k] \in Runs \cup {"enter"}
  BY SMTT(30) DEF Single
<1>3. \A j \in Service : Stage(j) /\ spc[j] \notin {"close", "deleting", "delete", "clear"}
  <2>1. \A j \in Service : Stage(j)
    BY Zenon DEF Single
  <2> QED
    BY <1>1, <2>1, Zenon DEF Stage
<1>4. CASE spc[k] \in {"enter", "node"}
  <2>1. life[zt1Service] = "new" /\ \A a \in App : pc[a] \in {"wait", "waitnode"}
    BY <1>3, <1>4, Zenon DEF Stage
  <2> QED
    BY <1>3, <2>1 DEF Service_, Node_
<1>5. CASE spc[k] \in {"bind", "saved", "port", "driver", "loop"}
  <2>1. life[zt1Service] = "up"
    BY <1>3, <1>5, Zenon DEF Stage
  <2> QED
    BY <1>3, <2>1 DEF Service_, Node_
<1> QED
  BY <1>2, <1>3, <1>4, <1>5 DEF Runs

\* A step that leaves the pointers alone.
LEMMA SafeFrame ==
  ASSUME Safe, UNCHANGED <<crash, zt1Service, pc, ptr>> PROVE Safe'
BY DEF Safe

\* The application's thread goes on.
LEMMA SafeMoves ==
  ASSUME Controlled, Typed, Safe, NEW a \in App, NEW l, pc' = [pc EXCEPT ![a] = l], UNCHANGED <<crash, zt1Service>>,
         l \in {"waitnode", "address", "online"} => zt1Service # 0,
         l \in {"joining", "port", "driver", "leaving", "destroy", "terminate"} =>
           zt1Service # 0 /\ ptr'[a] = zt1Service
  PROVE  Safe'
<1>1. pc'[a] = l /\ \A b \in App : b = a
  BY Zenon DEF Typed, TypeOK, Types, Controlled
<1> QED
  BY <1>1 DEF Safe
\* It follows pointers that are there.
LEMMA SafeCaller ==
  ASSUME Controlled, Typed, Single, Calm, Safe, NEW a \in App, AppThread(a) PROVE Safe'
<1>1. /\ pc[a] \in {"waitnode", "address", "online"} => zt1Service # 0
      /\ pc[a] \in {"joining", "port", "driver", "leaving", "destroy", "terminate"} =>
           zt1Service # 0 /\ ptr[a] = zt1Service
  BY DEF Safe
<1>2. CASE Spawn(a)
  <2>1. /\ UNCHANGED <<crash, zt1Service>> /\ \E l \in {"idle", "wait"} : pc' = [pc EXCEPT ![a] = l]
    BY <1>2, Zenon DEF Spawn, Go
  <2> QED
    BY <2>1, SafeMoves, Zenon
<1>3. CASE WaitRunning(a)
  <2>1. zt1Service # 0 /\ Service_(zt1Service) = "no"
    BY <1>3, CalmUp DEF WaitRunning
  <2> QED
    BY <1>3, <2>1, SafeMoves DEF WaitRunning, Step, Go
<1>4. CASE WaitNode(a)
  <2>1. zt1Service # 0 /\ Service_(zt1Service) = "no"
    BY <1>1, <1>4, CalmUp DEF WaitNode, At
  <2>2. /\ UNCHANGED <<crash, zt1Service>> /\ \E l \in {"address", "wait"} : pc' = [pc EXCEPT ![a] = l]
    BY <1>4, <2>1 DEF WaitNode, Step, Go
  <2> QED
    BY <2>1, <2>2, SafeMoves, Zenon
<1>5. CASE WaitAddress(a) \/ WaitOnline(a)
  <2>1. zt1Service # 0 /\ Node_(zt1Service) = "no"
    BY <1>1, <1>5, CalmUp, SMTT(30) DEF WaitAddress, WaitOnline, At
  <2>2. /\ UNCHANGED <<crash, zt1Service>> /\ \E l \in {"online", "join", "idle"} : pc' = [pc EXCEPT ![a] = l]
    BY <1>5, <2>1 DEF WaitAddress, WaitOnline, Step, Go
  <2> QED
    BY <2>1, <2>2, SafeMoves, ZenonT(30)
<1>6. ASSUME NEW l \in {"join", "leave", "stop"}, NEW with \in {"joining", "leaving", "terminate"},
             NEW without \in {"ref", "idle"}, ReadService(a, l, with, without)
      PROVE  Safe'
  <2>1. ptr'[a] = zt1Service
    BY <1>6, Zenon DEF ReadService, Typed, TypeOK, Types
  <2>2. /\ UNCHANGED <<crash, zt1Service>> /\ pc' = [pc EXCEPT ![a] = IF zt1Service # 0 THEN with ELSE without]
    BY <1>6 DEF ReadService, Go
  <2> QED
    BY <2>1, <2>2, SafeMoves, Zenon
<1>7. CASE Joins(a) \/ Port(a) \/ Destroy(a) \/ Leaves(a)
  <2>1. pc[a] \in {"joining", "port", "destroy", "leaving"}
    BY <1>7, Zenon DEF Joins, Port, Destroy, Leaves, At
  <2>2. zt1Service # 0 /\ ptr[a] = zt1Service /\ Node_(ptr[a]) = "no"
    BY <1>1, <2>1, CalmUp
  <2>3. /\ UNCHANGED <<crash, zt1Service, ptr>>
        /\ \E l \in {"ref", "port", "driver", "deleting", "destroy", "idle"} : pc' = [pc EXCEPT ![a] = l]
    BY <1>7, <2>2, Zenon DEF Joins, Port, Destroy, Leaves, Go, Step
  <2> QED
    BY <2>2, <2>3, SafeMoves, Zenon
<1>8. CASE Driver(a) \/ SetRefs(a) \/ HasAddress(a) \/ JoinsNothing(a)
  <2>1. /\ UNCHANGED <<crash, zt1Service>> /\ \E l \in {"ref", "hasaddress", "idle"} : pc' = [pc EXCEPT ![a] = l]
    BY <1>8 DEF Driver, SetRefs, HasAddress, JoinsNothing, Step, Go
  <2> QED
    BY <2>1, SafeMoves, Zenon
<1>9. CASE Terminate(a)
  <2>1. zt1Service # 0 /\ ptr[a] = zt1Service /\ Service_(ptr[a]) = "no"
    BY <1>1, <1>9, CalmUp DEF Terminate, At
  <2> QED
    BY <1>9, <2>1, SafeMoves DEF Terminate, Go
<1> QED
  BY <1>2, <1>3, <1>4, <1>5, <1>6, <1>7, <1>8, <1>9 DEF AppThread

\* The service's thread takes no pointer away.
LEMMA SafeService ==
  ASSUME Typed, Single, Calm, Safe, NEW k \in Service, ServiceThread(k) PROVE Safe'
<1>1. Stage(k) /\ (spc[k] \in Runs => sobj[k] = zt1Service /\ zt1Service \in Service)
  BY Zenon DEF Single, Stage, Typed, Running, Runs
<1>2. CASE Begin(k) \/ Create(k)
  <2>1. UNCHANGED <<crash, pc, ptr>> /\ \A a \in App : pc[a] = "wait"
    BY <1>1, <1>2 DEF Begin, Create, AtS, Stage
  <2> QED
    BY <2>1, SMTT(30) DEF Safe
<1>3. CASE EnterRun(k)
  <2>1. Service_(zt1Service) = "no"
    BY <1>1, <1>3, Zenon DEF EnterRun, AtS, Stage, Service_
  <2> QED
    BY <1>3, <2>1, SafeFrame DEF EnterRun
<1>4. CASE Delete(k)
  <2>1. life[zt1Service] # "freed"
    BY <1>1, <1>4, Zenon DEF Delete, AtS, Stage
  <2> QED
    BY <1>4, <2>1, SafeFrame DEF Delete
<1>5. CASE Clear(k)
  <2>1. spc[k] = "clear" /\ zt1Service \in Service
    BY <1>1, <1>5 DEF Clear, AtS, Runs
  <2> QED
    BY <2>1, CalmUp, Apart, SMTT(30)
<1>6. CASE NodeUp(k) \/ Bind(k) \/ JoinSaved(k) \/ PortSaved(k) \/ DriverSaved(k) \/ EnterLoop(k) \/ LoopEnds(k) \/ Close(k)
  BY Zenon, <1>6, SafeFrame DEF NodeUp, Bind, JoinSaved, PortSaved, DriverSaved, EnterLoop, LoopEnds, Close
<1> QED
  BY <1>2, <1>3, <1>4, <1>5, <1>6 DEF ServiceThread

\* Every step keeps the pointers good as long as nothing is told to stop or fails.
LEMMA SafeStep ==
  ASSUME Controlled, Typed, Single, Calm => Safe, [Next]_vars PROVE Calm' => Safe'
<1> SUFFICES ASSUME Calm' PROVE Safe'
  OBVIOUS
<1>1. Calm /\ Safe
  BY CalmBefore
<1>2. ASSUME NEW k \in Service, Online(k) \/ AssignAddress(k) \/ Collide(k) \/ ReturnEarly(k) \/ Fail(k) PROVE Safe'
  BY <1>1, <1>2, SafeFrame DEF Online, AssignAddress, Collide, ReturnEarly, Fail
<1>3. ASSUME NEW a \in App, AppCalls(a) PROVE Safe'
  <2>0. \/ \E c, n, path : zts_start(a, c, n, path)
        \/ \E c \in {"join", "leave", "stop"} : \E n : zts_call(a, c, n)
    BY <1>3 DEF AppCalls
  <2>1. UNCHANGED <<crash, zt1Service>>
    BY <2>0, Zenon DEF zts_start, zts_call
  <2>2. \E l \in {"join", "leave", "stop", "spawn", "idle"} : pc' = [pc EXCEPT ![a] = l]
    BY <2>0, ZenonT(30) DEF zts_start, zts_call, Go
  <2> QED
    BY <1>1, <2>1, <2>2, SafeMoves, ZenonT(30)
<1>4. CASE tcpip_init_done \/ UNCHANGED vars
  BY <1>1, <1>4, SafeFrame DEF tcpip_init_done, vars
<1> QED
  BY <1>1, <1>2, <1>3, <1>4, SafeCaller, SafeService DEF Next

\* What the one thread relies on holds throughout.
LEMMA Lone ==
  ASSUME Controlled PROVE Spec => [](Typed /\ JoinInv /\ Single /\ Attached /\ Early /\ (Calm => Safe))
<1>1. Typed /\ JoinInv /\ Single /\ Attached /\ Early /\ (Calm => Safe) /\ [Next]_vars =>
        JoinInv' /\ Single' /\ Attached' /\ Early' /\ (Calm' => Safe')
  BY JoinStep, SingleStep, AttachedStep, EarlyStep, SafeStep DEF Typed
<1>2. Init => Safe
  BY DEF Init, Safe
<1> QED
  BY <1>1, <1>2, Inductive, JoinInit, LoneInit, PTL DEF Spec

\* As long as no service was told to stop and none failed, a thread that uses
\* the blocking calls never follows a pointer to a service or a node that is
\* not there: zts_start has waited for both.
THEOREM NeverCrashes ==
  ASSUME Controlled PROVE Spec => []NoCrash
<1>1. (Calm => Safe) => NoCrash
  BY DEF NoCrash, Undisturbed, Calm, Safe
<1> QED
  BY <1>1, Lone, PTL

\* A network has one tap when all taps are of one service.
LEMMA TapFound ==
  ASSUME Typed, JoinInv, Attached, NEW n, getTapByNWID(n) # 0
  PROVE  getTapByNWID(n) \in DOMAIN vtaps /\ vtaps[getTapByNWID(n)].nwid = n
<1> DEFINE T == {i \in DOMAIN vtaps : vtaps[i].nwid = n}
<1>1. getTapByNWID(n) = IF T = {} THEN 0 ELSE CHOOSE i \in T : \A j \in T : j <= i
  BY DEF getTapByNWID
<1>2. T # {}
  BY <1>1
<1>3. PICK i \in T : TRUE
  BY <1>2
<1>4. \A j \in T : j = i
  BY <1>3, Zenon DEF JoinInv, OneTapPerNetwork, Attached
<1>5. i \in Nat
  <2>1. vtaps \in Seq(Tap)
    BY Zenon DEF Typed, TypeOK, Types
  <2>2. DOMAIN vtaps = 1..Len(vtaps) /\ Len(vtaps) \in Nat
    BY <2>1
  <2> QED
    BY <1>3, <2>2
<1>6. \E m \in T : \A j \in T : j <= m
  BY <1>3, <1>4, <1>5
<1>7. (CHOOSE m \in T : \A j \in T : j <= m) \in T
  BY Zenon, <1>6
<1> QED
  BY <1>1, <1>2, <1>7

\* When zts_startjoin returns, the network is joined on the service that runs,
\* and the network's tap, which is that service's, has an address.
THEOREM StartJoinIsDone ==
  ASSUME Controlled PROVE Spec => StartJoinDone
<1> DEFINE Done(a) ==
      /\ zt1Service # 0 /\ arg[a] \in joined[zt1Service]
      /\ \E i \in DOMAIN vtaps : vtaps[i].nwid = arg[a] /\ vtaps[i].obj = zt1Service /\ vtaps[i].ips = "some"
<1>1. ASSUME Typed, JoinInv, Attached, NEW a \in App, HasAddress(a) PROVE Done(a)
  <2> DEFINE i == getTapByNWID(arg[a])
  <2>1. zt1Service # 0 /\ i # 0 /\ vtaps[i].ips # "none"
    BY <1>1 DEF HasAddress, zts_has_address
  <2>2. i \in DOMAIN vtaps /\ vtaps[i].nwid = arg[a]
    BY <1>1, <2>1, TapFound
  <2> HIDE DEF i
  <2>3. vtaps[i].obj = zt1Service /\ vtaps[i].nwid \in joined[vtaps[i].obj]
    BY <1>1, <2>2, Zenon DEF Attached, JoinInv
  <2>4. vtaps[i] \in Tap
    <3>1. vtaps \in Seq(Tap)
      BY Zenon, <1>1 DEF Typed, TypeOK, Types
    <3> QED
      BY <2>2, <3>1
  <2>5. vtaps[i].ips = "some"
    BY <2>1, <2>4 DEF Tap
  <2> QED
    BY <2>1, <2>2, <2>3, <2>5
<1>2. ASSUME Typed, NEW a \in App, pc[a] = "hasaddress", pc'[a] = "idle", [Next]_vars PROVE HasAddress(a)
  <2>1. \A b \in App : b = a
    BY DEF Controlled
  <2>2. pc' # pc
    BY <1>2
  <2>3. ASSUME NEW k \in Service, ServiceThread(k) \/ Online(k) \/ AssignAddress(k) \/ Collide(k) \/ ReturnEarly(k) \/ Fail(k)
        PROVE  pc' = pc
    BY Zenon, <2>3 DEF ServiceThread, Begin, Create, EnterRun, NodeUp, Bind, JoinSaved, PortSaved, DriverSaved,
       EnterLoop, LoopEnds, Close, Delete, Clear, Crash, Online, AssignAddress, Collide, ReturnEarly, Fail
  <2>4. tcpip_init_done \/ UNCHANGED vars => pc' = pc
    BY SMTT(30) DEF tcpip_init_done, vars
  <2>5. ~AppCalls(a)
    BY <1>2, SMTT(30) DEF AppCalls, zts_start, zts_call, At
  <2>6. AppThread(a) => HasAddress(a)
    BY <1>2 DEF AppThread, Spawn, WaitRunning, WaitNode, WaitAddress, WaitOnline,
       ReadService, JoinsNothing, Joins, Port, Driver, SetRefs, Leaves, Destroy, Terminate, At
  <2> QED
    BY <1>2, <2>1, <2>2, <2>3, <2>4, <2>5, <2>6 DEF Next
<1>3. Typed /\ JoinInv /\ Single /\ Attached /\ Early /\ (Calm => Safe) /\ [Next]_vars =>
        [\A a \in App : pc[a] = "hasaddress" /\ pc'[a] = "idle" =>
           /\ zt1Service # 0 /\ arg[a] \in joined[zt1Service]
           /\ \E i \in DOMAIN vtaps : /\ vtaps[i].nwid = arg[a] /\ vtaps[i].obj = zt1Service
                                      /\ vtaps[i].ips = "some"]_vars
  BY <1>1, <1>2
<1> QED
  BY <1>3, Lone, PTL DEF Spec, StartJoinDone
=============================================================================
