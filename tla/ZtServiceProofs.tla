--------------------------- MODULE ZtServiceProofs ---------------------------
(* Proofs about ZtService. *)
EXTENDS ZtService, TLAPS

USE DEF appvars, svcvars, objvars, netvars, drvvars

\* Objects, application threads and the null pointer are told apart.
LEMMA Apart ==
  /\ 0 \notin Service
  /\ \A a \in App : a # 0 /\ a \notin Service
BY ConstantAssumption DEF Service

\* Where an application thread may be, and the starts it may be in.
Label == {"idle", "spawn", "wait", "waitnode", "address", "online", "join",
          "joining", "port", "driver", "ref", "hasaddress", "leave", "leaving",
          "destroy", "deleting", "stop", "terminate"}
Start == {"none", "start", "start_nonblocking", "startjoin"}

\* A service thread that runs an object has one.
Running == \A k \in Service :
  spc[k] \in {"node", "bind", "saved", "port", "driver", "loop", "close", "deleting", "delete", "clear"}
    => sobj[k] \in Service

Base == Types /\ Running

\* What makes, or changes a field of, a tap gives a tap.
LEMMA Taps ==
  /\ \A n \in Net, o \in Service : [nwid |-> n, obj |-> o, ips |-> "none", ref |-> 0] \in Tap
  /\ \A t \in Tap : [t EXCEPT !.ips = "some"] \in Tap
  /\ \A t \in Tap, r \in Service \cup {0} : [t EXCEPT !.ref = r] \in Tap
BY DEF Tap

\* A tap appended to the taps gives taps.
LEMMA TapAppended ==
  ASSUME NEW n \in Net, NEW o \in Service, vtaps \in Seq(Tap)
  PROVE  Append(vtaps, [nwid |-> n, obj |-> o, ips |-> "none", ref |-> 0]) \in Seq(Tap)
<1>1. PICK t \in Tap : t = [nwid |-> n, obj |-> o, ips |-> "none", ref |-> 0]
  BY Zenon, Taps
<1>2. Append(vtaps, t) \in Seq(Tap)
  OBVIOUS
<1> QED
  BY <1>1, <1>2

\* What a pointer runs into is a value of crash.
LEMMA Faults == \A o : /\ Service_(o) \in {"no", "null service", "freed service"}
                       /\ Node_(o) \in {"no", "null service", "freed service", "null node"}
                       /\ Service_(o) = "no" => o # 0
                       /\ Node_(o) = "no" => o # 0
BY DEF Service_, Node_

\* A crash changes nothing but crash.
LEMMA CrashTyped ==
  ASSUME NEW w \in {"no", "null service", "freed service", "null node"}, Base, Crash(w)
  PROVE  Base'
BY Zenon DEF Crash, Base, Types, Running

\* A thread that goes elsewhere keeps the types.
LEMMA StepTyped ==
  ASSUME NEW a \in App, Base,
         \/ Step(a, "waitnode") \/ Step(a, "address") \/ Step(a, "wait") \/ Step(a, "online")
         \/ Step(a, "join") \/ Step(a, "hasaddress") \/ Step(a, "idle")
         \/ Step(a, IF life[zt1Service] = "up" THEN "address" ELSE "wait")
         \/ Step(a, IF call[a] = "startjoin" THEN "join" ELSE "idle")
  PROVE  Base'
<1>1. PICK l \in {"waitnode", "address", "wait", "online", "join", "hasaddress", "idle"} : pc' = [pc EXCEPT ![a] = l]
  BY DEF Step, Go
<1>2. UNCHANGED <<zt1Service, homeDir, crash, call, arg, ptr, svcvars, objvars, netvars, drvvars>>
  BY DEF Step
<1> QED
  BY <1>1, <1>2, ZenonT(30) DEF Base, Types, Running

\* A thread that joins, or makes a tap, has a network.
LEMMA NotZero ==
  ASSUME NEW a \in App, Types, ZeroJoinsNothing, pc[a] \in {"joining", "port", "driver"}
  PROVE  arg[a] \in Net
<1>1. arg[a] # 0
  BY DEF ZeroJoinsNothing
<1>2. arg[a] \in Net \cup {0}
  BY Zenon DEF Types
<1> QED
  BY <1>1, <1>2

\* Every step of the threads, their environment and the stack keeps the types.
LEMMA BaseStep == Base /\ ZeroJoinsNothing /\ [Next]_vars => Base'
<1> SUFFICES ASSUME Base, ZeroJoinsNothing, [Next]_vars PROVE Base'
  OBVIOUS
<1>1. ASSUME NEW a \in App, Spawn(a) PROVE Base'
  BY <1>1 DEF Base, Types, Running, Spawn, At, Go, AtS, GoS, Crash, Step, Service_, Node_
<1>2. ASSUME NEW a \in App, WaitRunning(a) PROVE Base'
  BY Zenon, <1>2, Faults, CrashTyped, StepTyped DEF WaitRunning
<1>3. ASSUME NEW a \in App, WaitNode(a) PROVE Base'
  BY Zenon, <1>3, Faults, CrashTyped, StepTyped DEF WaitNode
<1>4. ASSUME NEW a \in App, WaitAddress(a) PROVE Base'
  BY Zenon, <1>4, Faults, CrashTyped, StepTyped DEF WaitAddress
<1>5. ASSUME NEW a \in App, WaitOnline(a) PROVE Base'
  BY Zenon, <1>5, Faults, CrashTyped, StepTyped DEF WaitOnline
<1>6. ASSUME NEW a \in App, ReadService(a, "join", "joining", "ref") PROVE Base'
  BY <1>6 DEF Base, Types, Running, ReadService, At, Go, AtS, GoS, Crash, Step, Service_, Node_
<1>7. ASSUME NEW a \in App, ReadService(a, "leave", "leaving", "idle") PROVE Base'
  BY <1>7 DEF Base, Types, Running, ReadService, At, Go, AtS, GoS, Crash, Step, Service_, Node_
<1>8. ASSUME NEW a \in App, ReadService(a, "stop", "terminate", "idle") PROVE Base'
  BY <1>8 DEF Base, Types, Running, ReadService, At, Go, AtS, GoS, Crash, Step, Service_, Node_
<1>9. ASSUME NEW a \in App, Joins(a) PROVE Base'
  <2>1. CASE Node_(ptr[a]) # "no"
    BY <1>9, <2>1, Faults, CrashTyped, Zenon DEF Joins
  <2>2. CASE Node_(ptr[a]) = "no"
    <3>1. /\ Enter(ptr[a], a, arg[a])
                   /\ Go(a, IF arg[a] \in joined[ptr[a]] THEN "ref" ELSE "port")
                   /\ UNCHANGED <<zt1Service, homeDir, crash, call, arg, ptr, svcvars, objvars, drvvars>>
      BY <1>9, <2>2 DEF Joins
    <3>2. ptr[a] \in Service /\ arg[a] \in Net
      BY <1>9, <2>2, Faults, NotZero, Zenon DEF Base, Types, Joins, At
    <3>3. joined' \in [Service -> SUBSET Net] /\ saved' \subseteq Net
      BY <3>1, <3>2, Zenon DEF Enter, Base, Types
    <3>4. networks' \in [Service -> App \cup Service \cup {0}]
      BY <3>1, <3>2, Zenon DEF Enter, Base, Types
    <3>5. Running'
      BY <3>1 DEF Base, Running
    <3>6. Types'
      BY Zenon, <3>1, <3>3, <3>4 DEF Base, Types, Enter, Go
    <3> QED
      BY <3>5, <3>6 DEF Base
  <2> QED
    BY <2>1, <2>2
<1>10. ASSUME NEW a \in App, Port(a) PROVE Base'
  <2>1. CASE Node_(ptr[a]) # "no"
    BY Zenon, <1>10, <2>1, Faults, CrashTyped DEF Port
  <2>2. CASE Node_(ptr[a]) = "no"
    <3>1. ptr[a] \in Service /\ arg[a] \in Net
      BY <1>10, <2>2, Faults, NotZero, Zenon DEF Base, Types, Port, At
    <3>2. /\ vtaps' = Append(vtaps, [nwid |-> arg[a], obj |-> ptr[a], ips |-> "none", ref |-> 0])
          /\ nets' = [nets EXCEPT ![ptr[a]] = a] /\ pc' = [pc EXCEPT ![a] = "driver"]
          /\ UNCHANGED <<zt1Service, homeDir, crash, call, arg, ptr, svcvars, objvars, drvvars>>
          /\ UNCHANGED <<joined, saved, networks>>
      BY <1>10, <2>2 DEF Port, NewTap, Go
    <3>3. vtaps' \in Seq(Tap)
      BY <3>1, <3>2, TapAppended, Zenon DEF Base, Types
    <3>4. Running'
      BY <3>2 DEF Base, Running
    <3>5. Types'
      BY <3>1, <3>2, <3>3, Zenon DEF Base, Types
    <3> QED
      BY <3>4, <3>5 DEF Base
  <2> QED
    BY <2>1, <2>2
<1>11. ASSUME NEW a \in App, Driver(a) PROVE Base'
  <2>1. Running'
    BY <1>11 DEF Base, Running, Driver
  <2>2. driver' \in {"no", "starting", "yes"} /\ driver_m' \in {"free", "held"} /\ mains' \in Nat
    <3>1. CASE driver = "yes"
      BY <1>11, <3>1, Zenon DEF Driver, lwip_driver_init, Base, Types
    <3>2. CASE driver # "yes"
      <4>1. driver' = "starting" /\ driver_m' = "held" /\ mains' = mains + 1
        BY <1>11, <3>2 DEF Driver, lwip_driver_init
      <4>2. mains \in Nat
        BY Zenon DEF Base, Types
      <4> QED
        BY <4>1, <4>2
    <3> QED
      BY <3>1, <3>2
  <2>3. /\ networks' \in [Service -> App \cup Service \cup {0}]
        /\ nets' \in [Service -> App \cup Service \cup {0}]
    BY <1>11, Zenon DEF Driver, lwip_driver_init, Base, Types
  <2>4. Types'
    BY Zenon, <1>11, <2>2, <2>3 DEF Driver, lwip_driver_init, Base, Types, Go
  <2> QED
    BY <2>1, <2>4 DEF Base
<1>12. ASSUME NEW a \in App, SetRefs(a) PROVE Base'
  <2>1. vtaps \in Seq(Tap) /\ zt1Service \in Service \cup {0}
    BY Zenon DEF Base, Types
  <2>2. Len(vtaps) \in Nat /\ DOMAIN vtaps = 1..Len(vtaps) /\ \A i \in 1..Len(vtaps) : vtaps[i] \in Tap
    BY <2>1
  <2>3. \A i \in 1..Len(vtaps) : [vtaps[i] EXCEPT !.ref = zt1Service] \in Tap
    BY <2>1, <2>2, Taps
  <2>4. vtaps' \in [1..Len(vtaps) -> Tap]
    BY <1>12, <2>2, <2>3 DEF SetRefs
  <2>5. vtaps' \in Seq(Tap)
    BY <2>2, <2>4
  <2>6. Running'
    BY <1>12 DEF SetRefs, Base, Running
  <2>7. Types'
    BY <1>12, <2>5, Zenon DEF Base, Types, SetRefs, Go
  <2> QED
    BY <2>6, <2>7 DEF Base
<1>13. ASSUME NEW a \in App, HasAddress(a) PROVE Base'
  BY <1>13 DEF Base, Types, Running, HasAddress, At, Go, AtS, GoS, Crash, Step, Service_, Node_
<1>14. ASSUME NEW a \in App, Leaves(a) PROVE Base'
  <2>1. CASE Node_(ptr[a]) # "no"
    BY <1>14, <2>1, Faults, CrashTyped, Zenon DEF Leaves
  <2>2. CASE Node_(ptr[a]) = "no"
    <3>1. ptr[a] \in Service
      BY <2>2, Faults, Zenon DEF Base, Types
    <3>2. Step(a, IF arg[a] \in joined[ptr[a]] THEN "destroy" ELSE "idle")
      BY <1>14, <2>2 DEF Leaves
    <3>3. Running'
      BY <3>2 DEF Base, Running, Step
    <3>4. Types'
      BY Zenon, <3>2 DEF Base, Types, Step, Go
    <3> QED
      BY <3>3, <3>4 DEF Base
  <2> QED
    BY <2>1, <2>2
<1>15. ASSUME NEW a \in App, Destroy(a) PROVE Base'
  <2>1. CASE Node_(ptr[a]) # "no"
    BY <1>15, <2>1, Faults, CrashTyped, Zenon DEF Destroy
  <2>2. CASE Node_(ptr[a]) = "no"
    <3>1. ptr[a] \in Service
      BY <2>2, Faults, Zenon DEF Base, Types
    <3>2. /\ nets' = [nets EXCEPT ![ptr[a]] = a] /\ pc' = [pc EXCEPT ![a] = "deleting"]
          /\ UNCHANGED <<zt1Service, homeDir, crash, call, arg, ptr, svcvars, objvars, drvvars>>
          /\ UNCHANGED <<joined, saved, networks, vtaps>>
      BY <1>15, <2>2 DEF Destroy, Go
    <3>3. Running'
      BY <3>1, <3>2, Zenon DEF Base, Types, Running
    <3>4. Types'
      BY Zenon, <3>1, <3>2 DEF Base, Types
    <3> QED
      BY <3>3, <3>4 DEF Base
  <2> QED
    BY <2>1, <2>2
<1>16. ASSUME NEW a \in App, Terminate(a) PROVE Base'
  <2>1. CASE Service_(ptr[a]) # "no"
    BY <1>16, <2>1, Faults, CrashTyped, Zenon DEF Terminate
  <2>2. CASE Service_(ptr[a]) = "no"
    <3>1. /\ run' = [run EXCEPT ![ptr[a]] = FALSE]
          /\ pc' = [pc EXCEPT ![a] = "idle"] /\ ptr' = [ptr EXCEPT ![a] = 0]
          /\ UNCHANGED <<zt1Service, homeDir, crash, call, arg, life, reason, online>>
          /\ UNCHANGED <<svcvars, netvars, drvvars>>
      BY <1>16, <2>2 DEF Terminate, Go
    <3>2. run' \in [Service -> BOOLEAN]
      BY Zenon, <3>1 DEF Base, Types
    <3>3. Running'
      BY <3>1 DEF Base, Running
    <3>4. Types'
      BY ZenonT(60), <3>1, <3>2 DEF Base, Types
    <3> QED
      BY <3>3, <3>4 DEF Base
  <2> QED
    BY <2>1, <2>2
<1>17. ASSUME NEW k \in Service, Begin(k) PROVE Base'
  BY <1>17 DEF Base, Types, Running, Begin, At, Go, AtS, GoS, Crash, Step, Service_, Node_
<1>18. ASSUME NEW k \in Service, Create(k) PROVE Base'
  BY <1>18 DEF Base, Types, Running, Create, At, Go, AtS, GoS, Crash, Step, Service_, Node_
<1>19. ASSUME NEW k \in Service, EnterRun(k) PROVE Base'
  <2>1. CASE Service_(zt1Service) # "no"
    BY <1>19, <2>1, Faults, CrashTyped, Zenon DEF EnterRun
  <2>2. CASE Service_(zt1Service) = "no"
    <3>1. zt1Service \in Service
      BY <2>2, Faults, Zenon DEF Base, Types
    <3>2. /\ sobj' = [sobj EXCEPT ![k] = zt1Service] /\ spc' = [spc EXCEPT ![k] = "node"]
          /\ UNCHANGED <<zt1Service, homeDir, crash, sarg, appvars, objvars, netvars, drvvars>>
      BY <1>19, <2>2 DEF EnterRun, GoS
    <3>3. Running'
      BY Zenon, <3>1, <3>2 DEF Base, Types, Running
    <3>4. Types'
      BY ZenonT(60), <3>1, <3>2 DEF Base, Types
    <3> QED
      BY <3>3, <3>4 DEF Base
  <2> QED
    BY <2>1, <2>2
<1>20. ASSUME NEW k \in Service, NodeUp(k) PROVE Base'
  BY <1>20 DEF Base, Types, Running, NodeUp, At, Go, AtS, GoS, Crash, Step, Service_, Node_
<1>21. ASSUME NEW k \in Service, JoinSaved(k) PROVE Base'
  BY <1>21 DEF Base, Types, Running, JoinSaved, Enter, At, Go, AtS, GoS, Crash, Step, Service_, Node_
<1>22. ASSUME NEW k \in Service, PortSaved(k) PROVE Base'
  <2>1. sobj[k] \in Service /\ sarg[k] \in Net
    BY <1>22 DEF PortSaved, AtS, Base, Types, Running
  <2>2. /\ vtaps' = Append(vtaps, [nwid |-> sarg[k], obj |-> sobj[k], ips |-> "none", ref |-> 0])
        /\ nets' = [nets EXCEPT ![sobj[k]] = k] /\ spc' = [spc EXCEPT ![k] = "driver"]
        /\ UNCHANGED <<zt1Service, homeDir, crash, sobj, sarg, appvars, objvars, drvvars>>
        /\ UNCHANGED <<joined, saved, networks>>
    BY <1>22 DEF PortSaved, NewTap, GoS
  <2>3. vtaps' \in Seq(Tap)
    BY Zenon, <2>1, <2>2, TapAppended DEF Base, Types
  <2>4. Running'
    BY ZenonT(60), <2>1, <2>2 DEF Base, Types, Running
  <2>5. Types'
    BY ZenonT(60), <2>1, <2>2, <2>3 DEF Base, Types
  <2> QED
    BY <2>4, <2>5 DEF Base
<1>23. ASSUME NEW k \in Service, DriverSaved(k) PROVE Base'
  BY <1>23 DEF Base, Types, Running, DriverSaved, lwip_driver_init, At, Go, AtS, GoS, Crash, Step, Service_, Node_
<1>24. ASSUME NEW k \in Service, EnterLoop(k) PROVE Base'
  BY <1>24 DEF Base, Types, Running, EnterLoop, At, Go, AtS, GoS, Crash, Step, Service_, Node_
<1>25. ASSUME NEW k \in Service, LoopEnds(k) PROVE Base'
  BY <1>25 DEF Base, Types, Running, LoopEnds, At, Go, AtS, GoS, Crash, Step, Service_, Node_
<1>26. ASSUME NEW k \in Service, Close(k) PROVE Base'
  <2> DEFINE HasTaps == \E i \in DOMAIN vtaps : vtaps[i].obj = sobj[k]
  <2>1. sobj[k] \in Service
    BY <1>26 DEF Close, AtS, Base, Running
  <2>2. \/ nets' = [nets EXCEPT ![sobj[k]] = k] /\ spc' = [spc EXCEPT ![k] = "deleting"] /\ life' = life
        \/ /\ life' = [life EXCEPT ![sobj[k]] = "closed"]
           /\ spc' = [spc EXCEPT ![k] = "delete"] /\ nets' = nets
    <3> HIDE DEF HasTaps
    <3>1. IF HasTaps
          THEN nets' = [nets EXCEPT ![sobj[k]] = k] /\ GoS(k, "deleting") /\ UNCHANGED life
          ELSE life' = [life EXCEPT ![sobj[k]] = "closed"] /\ GoS(k, "delete") /\ UNCHANGED nets
      BY <1>26 DEF Close, HasTaps
    <3> QED
      BY <3>1 DEF GoS
  <2>3. /\ UNCHANGED <<zt1Service, homeDir, crash, sobj, sarg, run, reason, online>>
        /\ UNCHANGED <<joined, saved, networks, vtaps, appvars, drvvars>>
    BY <1>26 DEF Close
  <2>4. nets' \in [Service -> App \cup Service \cup {0}]
    <3>1. nets \in [Service -> App \cup Service \cup {0}]
      BY Zenon DEF Base, Types
    <3>2. [nets EXCEPT ![sobj[k]] = k] \in [Service -> App \cup Service \cup {0}]
      BY Zenon, <3>1
    <3> QED
      BY <2>2, <3>1, <3>2
  <2>5. life' \in [Service -> {"none", "new", "up", "closed", "freed"}]
    BY Zenon, <2>1, <2>2 DEF Base, Types
  <2>6. spc' \in [Service -> {"off", "begin", "create", "enter", "node", "bind", "saved", "port", "driver",
                              "loop", "close", "deleting", "delete", "clear", "done"}]
    BY ZenonT(60), <2>1, <2>2 DEF Base, Types
  <2>7. Types'
    BY ZenonT(60), <2>3, <2>4, <2>5, <2>6 DEF Base, Types
  <2>8. Running'
    BY Zenon, <2>1, <2>2, <2>3 DEF Base, Types, Running
  <2> QED
    BY <2>7, <2>8 DEF Base
<1>27. ASSUME NEW k \in Service, Delete(k) PROVE Base'
  <2>1. CASE zt1Service # 0 /\ life[zt1Service] = "freed"
    BY <1>27, <2>1, CrashTyped, Zenon DEF Delete
  <2>2. CASE ~(zt1Service # 0 /\ life[zt1Service] = "freed")
    <3>1. /\ life' = [o \in Service |-> IF o = zt1Service THEN "freed" ELSE life[o]]
          /\ spc' = [spc EXCEPT ![k] = "clear"]
          /\ UNCHANGED <<zt1Service, homeDir, crash, sobj, sarg, run, reason, online>>
          /\ UNCHANGED <<appvars, netvars, drvvars>>
      BY <1>27, <2>2, Zenon DEF Delete, GoS
    <3>2. life' \in [Service -> {"none", "new", "up", "closed", "freed"}]
      BY Zenon, <3>1 DEF Base, Types
    <3>3. Types'
      BY Zenon, <3>1, <3>2 DEF Base, Types
    <3>4. Running'
      BY ZenonT(60), <1>27, <3>1 DEF Delete, AtS, Base, Types, Running
    <3> QED
      BY <3>3, <3>4 DEF Base
  <2> QED
    BY <2>1, <2>2
<1>28. ASSUME NEW k \in Service, Clear(k) PROVE Base'
  BY <1>28 DEF Base, Types, Running, Clear, At, Go, AtS, GoS, Crash, Step, Service_, Node_
<1>29. ASSUME NEW k \in Service, Online(k) PROVE Base'
  BY <1>29 DEF Base, Types, Running, Online, At, Go, AtS, GoS, Crash, Step, Service_, Node_
<1>30. ASSUME NEW k \in Service, AssignAddress(k) PROVE Base'
  <2>1. PICK i \in DOMAIN vtaps : vtaps' = [vtaps EXCEPT ![i].ips = "some"]
    BY Zenon, <1>30 DEF AssignAddress
  <2>2. vtaps \in Seq(Tap)
    BY Zenon DEF Base, Types
  <2>3. Len(vtaps) \in Nat /\ DOMAIN vtaps = 1..Len(vtaps) /\ \A j \in 1..Len(vtaps) : vtaps[j] \in Tap
    BY <2>2
  <2>4. [vtaps[i] EXCEPT !.ips = "some"] \in Tap
    BY <2>3, Taps
  <2>5. vtaps' = [vtaps EXCEPT ![i] = [vtaps[i] EXCEPT !.ips = "some"]]
    BY <2>1
  <2>6. vtaps' \in Seq(Tap)
    BY <2>2, <2>4, <2>5
  <2>7. Running'
    BY <1>30 DEF AssignAddress, Base, Running
  <2>8. Types'
    BY <1>30, <2>6, Zenon DEF AssignAddress, Base, Types
  <2> QED
    BY <2>7, <2>8 DEF Base
<1>31. ASSUME NEW k \in Service, Collide(k) PROVE Base'
  BY <1>31 DEF Base, Types, Running, Collide, At, Go, AtS, GoS, Crash, Step, Service_, Node_
<1>32. ASSUME NEW k \in Service, Fail(k) PROVE Base'
  BY <1>32 DEF Base, Types, Running, Fail, At, Go, AtS, GoS, Crash, Step, Service_, Node_
<1>33. ASSUME NEW a \in App, AppCalls(a) PROVE Base'
  <2>1. ASSUME NEW c \in {"start", "start_nonblocking", "startjoin"}, NEW n \in Net \cup {0},
               NEW path \in BOOLEAN, zts_start(a, c, n, path)
        PROVE  Base'
    <3>1. homeDir' \in BOOLEAN
      BY Zenon, <2>1 DEF zts_start, Base, Types
    <3> QED
      BY Zenon, <2>1, <3>1 DEF Base, Types, Running, zts_start, At, Go, AtS, GoS, Step
  <2>2. ASSUME NEW c \in {"join", "leave", "stop"}, NEW n \in Net \cup {0}, zts_call(a, c, n)
        PROVE  Base'
    BY SMTT(60), <2>2 DEF Base, Types, Running, zts_call, At, Go, AtS, GoS, Step
  <2>3. arg[a] \in Net \cup {0}
    BY Zenon DEF Base, Types
  <2> QED
    BY <1>33, <2>1, <2>2, <2>3, ConstantAssumption DEF AppCalls
<1>34. ASSUME tcpip_init_done PROVE Base'
  BY <1>34 DEF Base, Types, Running, tcpip_init_done
<1>35. ASSUME UNCHANGED vars PROVE Base'
  BY ZenonT(60), <1>35 DEF Base, Types, Running, vars
<1>36. ASSUME NEW a \in App, JoinsNothing(a) PROVE Base'
  BY Zenon, <1>36, StepTyped DEF JoinsNothing
<1>37. ASSUME NEW k \in Service, Bind(k) PROVE Base'
  BY <1>37 DEF Base, Types, Running, Bind, AtS, GoS
<1>38. ASSUME NEW k \in Service, ReturnEarly(k) PROVE Base'
  BY <1>38 DEF Base, Types, Running, ReturnEarly, GoS
<1> QED
  BY <1>1, <1>2, <1>3, <1>4, <1>5, <1>6, <1>7, <1>8, <1>9, <1>10, <1>11, <1>12, <1>13, <1>14, <1>15,
     <1>16, <1>17, <1>18, <1>19, <1>20, <1>21, <1>22, <1>23, <1>24, <1>25, <1>26, <1>27, <1>28, <1>29,
     <1>30, <1>31, <1>32, <1>33, <1>34, <1>35, <1>36, <1>37, <1>38, SMTT(30) DEF Next, AppThread, ServiceThread

\* No step takes the network 0 further than zts_startjoin.
LEMMA ZeroStep == Base /\ ZeroJoinsNothing /\ [Next]_vars => ZeroJoinsNothing'
<1> SUFFICES ASSUME Base, ZeroJoinsNothing, [Next]_vars PROVE ZeroJoinsNothing'
  OBVIOUS
<1> DEFINE Early == {"spawn", "wait", "waitnode", "address", "online", "join", "hasaddress"}
<1>1. pc \in [App -> Label] /\ call \in [App -> Start] /\ arg \in [App -> Net \cup {0}]
  BY Zenon DEF Base, Types, Label, Start
<1>2. \A a \in App : arg[a] = 0 => call[a] = "startjoin" /\ pc[a] \in Early
  BY DEF ZeroJoinsNothing
<1>3. CASE UNCHANGED <<pc, call, arg>>
  BY <1>2, <1>3 DEF ZeroJoinsNothing
<1>4. ASSUME NEW a \in App, NEW l, pc' = [pc EXCEPT ![a] = l], UNCHANGED <<call, arg>>,
             arg[a] = 0 => l \in Early
      PROVE  ZeroJoinsNothing'
  BY <1>1, <1>2, <1>4 DEF ZeroJoinsNothing
<1>5. ASSUME NEW a \in App, AppThread(a) PROVE ZeroJoinsNothing'
  <2>1. CASE Spawn(a)
    BY <1>2, <1>4, <2>1, ZenonT(30) DEF Spawn, Go
  <2>2. CASE WaitRunning(a) \/ WaitNode(a) \/ WaitAddress(a)
    BY <1>3, <1>4, <2>2 DEF WaitRunning, WaitNode, WaitAddress, Crash, Step, Go
  <2>3. CASE WaitOnline(a)
    BY <1>2, <1>3, <1>4, <2>3, ZenonT(30) DEF WaitOnline, Crash, Step, Go
  <2>4. CASE JoinsNothing(a)
    BY <1>4, <2>4, ZenonT(30) DEF JoinsNothing, Step, Go
  <2>5. CASE HasAddress(a)
    <3>1. getTapByNWID(arg[a]) # 0 /\ pc' = [pc EXCEPT ![a] = "idle"] /\ UNCHANGED <<call, arg>>
      BY <2>5 DEF HasAddress, zts_has_address, Step, Go
    <3>2. \A i \in DOMAIN vtaps : vtaps[i].nwid \in Net
      <4>1. vtaps \in Seq(Tap)
        BY Zenon DEF Base, Types
      <4>2. \A i \in DOMAIN vtaps : vtaps[i] \in Tap
        BY <4>1
      <4>3. QED
        BY <4>2 DEF Tap
    <3>3. arg[a] # 0
      <4>1. SUFFICES ASSUME arg[a] = 0 PROVE FALSE
        OBVIOUS
      <4>2. {i \in DOMAIN vtaps : vtaps[i].nwid = 0} = {}
        BY <3>2, ConstantAssumption
      <4>3. getTapByNWID(0) = 0
        BY <4>2, Zenon DEF getTapByNWID
      <4>4. QED
        BY <3>1, <4>1, <4>3
    <3>4. QED
      BY <1>4, <3>1, <3>3, ZenonT(30)
  <2>6. CASE arg[a] # 0 /\ ReadService(a, "join", "joining", "ref")
    BY <1>4, <2>6, ZenonT(30) DEF ReadService, Go
  <2>7. ASSUME pc[a] \notin Early,
               UNCHANGED <<pc, call, arg>> \/ \E l : pc' = [pc EXCEPT ![a] = l] /\ UNCHANGED <<call, arg>>
        PROVE  ZeroJoinsNothing'
    BY <1>2, <1>3, <1>4, <2>7
  <2>8. CASE ReadService(a, "leave", "leaving", "idle") \/ ReadService(a, "stop", "terminate", "idle")
    BY <2>7, <2>8 DEF ReadService, At, Go
  <2>9. CASE Joins(a) \/ Port(a) \/ Driver(a) \/ SetRefs(a)
    BY <2>7, <2>9 DEF Joins, Port, Driver, SetRefs, At, Go, Crash
  <2>10. CASE Leaves(a) \/ Destroy(a) \/ Terminate(a)
    BY <2>7, <2>10 DEF Leaves, Destroy, Terminate, At, Go, Crash, Step
  <2> QED
    BY <1>5, <2>1, <2>2, <2>3, <2>4, <2>5, <2>6, <2>8, <2>9, <2>10, Zenon DEF AppThread
<1>6. ASSUME NEW a \in App, AppCalls(a) PROVE ZeroJoinsNothing'
  <2>1. ASSUME NEW c \in Start, NEW n, NEW path, zts_start(a, c, n, path),
               n = 0 => c = "startjoin"
        PROVE  ZeroJoinsNothing'
    <3>1. PICK l : /\ pc' = [pc EXCEPT ![a] = l] /\ (c = "startjoin" => l \in Early)
                   /\ call' = [call EXCEPT ![a] = c] /\ arg' = [arg EXCEPT ![a] = n]
      BY <2>1 DEF zts_start, Go
    <3>2. QED
      BY <1>1, <1>2, <2>1, <3>1 DEF ZeroJoinsNothing
  <2>2. ASSUME NEW c, NEW n, zts_call(a, c, n)
        PROVE  ZeroJoinsNothing'
    <3>1. /\ pc' = [pc EXCEPT ![a] = c] /\ n # 0
          /\ call' = [call EXCEPT ![a] = "none"] /\ arg' = [arg EXCEPT ![a] = n]
      BY <2>2 DEF zts_call, Go
    <3>2. QED
      BY <1>1, <1>2, <3>1 DEF ZeroJoinsNothing
  <2>3. pc[a] = "idle" => arg[a] # 0
    BY <1>2
  <2>4. CASE \E c \in Calls \cap {"start", "start_nonblocking"}, path \in Paths :
               CanStart /\ zts_start(a, c, arg[a], path)
    <3>1. PICK c \in {"start", "start_nonblocking"}, path \in Paths : zts_start(a, c, arg[a], path)
      BY <2>4, Zenon
    <3>2. pc[a] = "idle"
      BY <3>1 DEF zts_start, At
    <3>3. QED
      BY <2>1, <2>3, <3>1, <3>2 DEF Start
  <2>5. CASE \E n \in Net \cup {0}, path \in Paths :
               CanStart /\ "startjoin" \in Calls /\ zts_start(a, "startjoin", n, path)
    BY <2>1, <2>5 DEF Start
  <2> QED
    BY <1>6, <2>2, <2>4, <2>5, Zenon DEF AppCalls
<1>7. ASSUME UNCHANGED appvars PROVE ZeroJoinsNothing'
  BY <1>3, <1>7
<1>8. ASSUME NEW k \in Service, ServiceThread(k) PROVE ZeroJoinsNothing'
  BY Zenon, <1>7, <1>8 DEF ServiceThread, Begin, Create, EnterRun, NodeUp, Bind, JoinSaved, PortSaved,
    DriverSaved, EnterLoop, LoopEnds, Close, Delete, Clear, Crash
<1>9. ASSUME NEW k \in Service, Online(k) \/ AssignAddress(k) \/ Collide(k) \/ ReturnEarly(k) \/ Fail(k)
      PROVE  ZeroJoinsNothing'
  BY Zenon, <1>7, <1>9 DEF Online, AssignAddress, Collide, ReturnEarly, Fail
<1>10. CASE tcpip_init_done \/ UNCHANGED vars
  BY Zenon, <1>7, <1>10 DEF tcpip_init_done, vars
<1> QED
  BY <1>5, <1>6, <1>8, <1>9, <1>10, Zenon DEF Next

\* The types, and that a service thread that runs an object has one.
Typed == TypeOK /\ Running

\* Every step keeps both.
LEMMA TypeStep == Typed /\ [Next]_vars => Typed'
BY BaseStep, ZeroStep DEF Typed, Base, TypeOK

\* main_thread was started once the driver is not "no", and while it starts
\* the driver's mutex is held.
DriverInv ==
  /\ driver = "no" => mains = 0
  /\ driver # "no" => mains = 1
  /\ driver = "starting" => driver_m = "held"

\* lwip_driver_init keeps DriverInv.
LEMMA DriverKeeps ==
  ASSUME NEW o, TypeOK, DriverInv, lwip_driver_init(o)
  PROVE  DriverInv'
<1>1. CASE driver = "yes"
  BY <1>1 DEF lwip_driver_init, DriverInv
<1>2. CASE driver # "yes"
  <2>1. driver = "no" /\ mains = 0
    BY Zenon, <1>2 DEF lwip_driver_init, DriverInv, TypeOK, Types
  <2>2. driver' = "starting" /\ driver_m' = "held" /\ mains' = mains + 1
    BY <1>2 DEF lwip_driver_init
  <2> QED
    BY <2>1, <2>2 DEF DriverInv
<1> QED
  BY <1>1, <1>2

\* Only lwip_driver_init and tcpip_init_done change the driver's state.
LEMMA DriverStep == TypeOK /\ DriverInv /\ [Next]_vars => DriverInv'
<1> SUFFICES ASSUME TypeOK, DriverInv, [Next]_vars PROVE DriverInv'
  OBVIOUS
<1>1. ASSUME UNCHANGED drvvars PROVE DriverInv'
  BY <1>1 DEF DriverInv
<1>2. ASSUME NEW a \in App, AppThread(a) PROVE DriverInv'
  <2>1. CASE Driver(a)
    BY <2>1, DriverKeeps DEF Driver
  <2>2. CASE ~ Driver(a)
    BY Zenon, <1>1, <1>2, <2>2 DEF AppThread, Spawn, WaitRunning, WaitNode, WaitAddress, WaitOnline,
      ReadService, JoinsNothing, Joins, Port, SetRefs, HasAddress, Leaves, Destroy, Terminate, Crash, Step
  <2> QED
    BY <2>1, <2>2
<1>3. ASSUME NEW k \in Service, ServiceThread(k) PROVE DriverInv'
  <2>1. CASE DriverSaved(k)
    BY <2>1, DriverKeeps DEF DriverSaved
  <2>2. CASE ~ DriverSaved(k)
    BY Zenon, <1>1, <1>3, <2>2 DEF ServiceThread, Begin, Create, EnterRun, NodeUp, Bind, JoinSaved, PortSaved,
      EnterLoop, LoopEnds, Close, Delete, Clear, Crash
  <2> QED
    BY <2>1, <2>2
<1>4. ASSUME NEW k \in Service, Online(k) \/ AssignAddress(k) \/ Collide(k) \/ ReturnEarly(k) \/ Fail(k)
      PROVE  DriverInv'
  BY <1>1, <1>4 DEF Online, AssignAddress, Collide, ReturnEarly, Fail
<1>5. ASSUME NEW a \in App, AppCalls(a) PROVE DriverInv'
  BY <1>1, <1>5 DEF AppCalls, zts_start, zts_call
<1>6. CASE tcpip_init_done
  BY <1>6 DEF tcpip_init_done, DriverInv
<1>7. CASE UNCHANGED vars
  BY <1>1, <1>7 DEF vars
<1> QED
  BY <1>2, <1>3, <1>4, <1>5, <1>6, <1>7 DEF Next

\* The initial state has the invariant.
LEMMA InitInv == Init => Typed /\ DriverInv
<1> SUFFICES ASSUME Init PROVE Typed /\ DriverInv
  OBVIOUS
<1>1. (CHOOSE n \in Net : TRUE) \in Net
  BY ConstantAssumption
<1>2. Types
  <2>1. vtaps \in Seq(Tap) /\ homeDir \in BOOLEAN
    <3>1. vtaps = << >> /\ homeDir = FALSE
      BY DEF Init
    <3>2. vtaps \in Seq(Tap)
      BY <3>1
    <3>3. homeDir \in BOOLEAN
      BY Zenon, <3>1
    <3> QED
      BY <3>2, <3>3
  <2>2. run \in [Service -> BOOLEAN] /\ online \in [Service -> BOOLEAN]
    BY DEF Init
  <2>3. /\ networks \in [Service -> App \cup Service \cup {0}]
        /\ nets \in [Service -> App \cup Service \cup {0}]
    BY DEF Init
  <2>4. arg \in [App -> Net \cup {0}] /\ sarg \in [Service -> Net]
    BY <1>1 DEF Init
  <2>5. joined \in [Service -> SUBSET Net] /\ saved \subseteq Net
    BY ConstantAssumption DEF Init
  <2> QED
    BY <2>1, <2>2, <2>3, <2>4, <2>5 DEF Init, Types
<1>3. Running /\ DriverInv
  BY DEF Init, Running, DriverInv
<1>4. ZeroJoinsNothing
  BY <1>1, ConstantAssumption DEF Init, ZeroJoinsNothing
<1> QED
  BY <1>2, <1>3, <1>4 DEF Typed, TypeOK

\* Both invariants hold throughout.
LEMMA Inductive == Spec => [](Typed /\ DriverInv)
<1>1. Typed /\ DriverInv /\ [Next]_vars => (Typed /\ DriverInv)'
  BY TypeStep, DriverStep DEF Typed
<1> QED
  BY <1>1, InitInv, PTL DEF Spec

\* Every variable keeps its type, for any number of threads and networks.
THEOREM TypeCorrect == Spec => []TypeOK
<1>1. Typed /\ DriverInv => TypeOK
  BY DEF Typed
<1> QED
  BY <1>1, Inductive, PTL

\* main_thread is started at most once, however many application and service
\* threads construct taps at the same time (lwip_driver_init, driver_m).
THEOREM DriverOnce == Spec => []DriverStartsOnce
<1>1. Typed /\ DriverInv => DriverStartsOnce
  BY DEF DriverInv, DriverStartsOnce
<1> QED
  BY <1>1, Inductive, PTL
=============================================================================
