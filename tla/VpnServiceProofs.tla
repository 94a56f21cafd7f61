--------------------------- MODULE VpnServiceProofs ---------------------------
(* For any number of waiting requests and broadcasts on their way: a core that *)
(* runs can be stopped, and once nothing is on its way the views agree with it *)
(* and it has the configuration of the last start.                             *)
EXTENDS VpnService, TLAPS

USE DEF prefvars, uivars, amvars, mainvars, corevars

Requests == {"create", "start", "destroy"}
Switch == {"on", "off"}

\* The first element of a sequence is taken.
LEMMA Taken ==
  ASSUME NEW S, NEW s \in Seq(S), s # << >>
  PROVE  /\ Head(s) \in S /\ Tail(s) \in Seq(S) /\ Len(s) \in Nat /\ Len(s) >= 1 /\ Head(s) = s[1]
         /\ Len(Tail(s)) = Len(s) - 1 /\ \A i \in 1..(Len(s) - 1) : Tail(s)[i] = s[i + 1]
OBVIOUS

\* Views are told the VPN is on or off.
LEMMA NewsTyped ==
  ASSUME TypeOK, NEW msgs \in Seq(Switch), sendMsg2UI(msgs)
  PROVE  news' \in [View -> Seq({"on", "off"})]
<1>1. \A v \in View : news[v] \in Seq({"on", "off"}) /\ news[v] \o msgs \in Seq({"on", "off"})
  BY DEF TypeOK, Switch
<1> QED
  BY <1>1 DEF sendMsg2UI

\* The service is told something.
LEMMA InboxTyped ==
  ASSUME TypeOK, NEW what \in {"register", "stop"}, sendMsg2Service(what)
  PROVE  inbox' \in Seq({"register", "stop"})
BY DEF TypeOK, sendMsg2Service

\* What stopV2Ray changes keeps its types.
LEMMA EndTyped ==
  ASSUME TypeOK, stopV2Ray
  PROVE  /\ core' \in [Instance -> {"off", "launching", "on"}] /\ news' \in [View -> Seq({"on", "off"})]
         /\ notified' \in BOOLEAN /\ receiver' \in BOOLEAN /\ inbox' \in Seq({"register", "stop"})
         /\ started' \in BOOLEAN /\ requests' \in Seq({"create", "start", "destroy"}) /\ caught' \in BOOLEAN
<1>1. sendMsg2UI(<<"off">>) /\ <<"off">> \in Seq(Switch)
  BY DEF stopV2Ray, End, Switch
<1>2. news' \in [View -> Seq({"on", "off"})]
  BY <1>1, NewsTyped, Zenon
<1>3. core' \in [Instance -> {"off", "launching", "on"}]
  BY Zenon DEF stopV2Ray, End, TypeOK
<1>4. notified' \in BOOLEAN /\ receiver' \in BOOLEAN /\ started' \in BOOLEAN /\ caught' \in BOOLEAN
  BY Zenon DEF stopV2Ray, End
<1>5. inbox' \in Seq({"register", "stop"}) /\ requests' \in Seq({"create", "start", "destroy"})
  BY DEF stopV2Ray, End, TypeOK
<1> QED
  BY <1>2, <1>3, <1>4, <1>5

\* The main thread keeps the types.
LEMMA MainTyped == TypeOK /\ MainThread => TypeOK'
<1> SUFFICES ASSUME TypeOK, MainThread PROVE TypeOK'
  OBVIOUS
<1>0. requests # << >> => Tail(requests) \in Seq({"create", "start", "destroy"})
  BY Taken DEF TypeOK
<1>1. CASE onCreate
  <2>1. PICK k \in Instance : inst' = k /\ content' = [content EXCEPT ![k] = "none"]
    BY <1>1, Zenon DEF onCreate
  <2>2. content' \in [Instance -> Config \cup {"none"}]
    BY <2>1 DEF TypeOK
  <2>3. receiver' \in BOOLEAN
    BY Zenon, <1>1 DEF onCreate
  <2> QED
    BY <1>0, <1>1, <2>1, <2>2, <2>3 DEF onCreate, TypeOK
<1>2. CASE onStartCommand
  <2>1. sendMsg2UI(<<"off">>) /\ <<"off">> \in Seq(Switch)
    BY <1>2 DEF onStartCommand, Restart, Switch
  <2>2. news' \in [View -> Seq({"on", "off"})]
    BY <2>1, NewsTyped, Zenon
  <2>3. content' \in [Instance -> Config \cup {"none"}] /\ core' \in [Instance -> {"off", "launching", "on"}]
    BY <1>2 DEF onStartCommand, Restart, TypeOK
  <2>4. launch' \in [Instance -> {"none", "prepare", "test", "success", "failure", "notify"}]
    BY <1>2 DEF onStartCommand, Restart, TypeOK
  <2>5. receiver' \in BOOLEAN /\ notified' \in BOOLEAN /\ caught' \in BOOLEAN
    BY Zenon, <1>2 DEF onStartCommand, Restart
  <2> QED
    BY <1>0, <1>2, <2>2, <2>3, <2>4, <2>5 DEF onStartCommand, Restart, TypeOK
<1>3. CASE ReceiveStop
  BY <1>3, EndTyped DEF ReceiveStop, TypeOK
<1>4. CASE ReceiveRegister
  <2>1. inbox' \in Seq({"register", "stop"})
    BY <1>4, Taken DEF ReceiveRegister, TypeOK
  <2> QED
    BY <1>4, <2>1 DEF ReceiveRegister, TypeOK, Text
<1>5. CASE SendAnswer
  <2>1. sendMsg2UI(<<answer>>) /\ <<answer>> \in Seq(Switch)
    BY <1>5 DEF SendAnswer, Switch, TypeOK
  <2>2. news' \in [View -> Seq({"on", "off"})]
    BY <2>1, NewsTyped, Zenon
  <2>3. caught' \in BOOLEAN
    BY Zenon, <1>5 DEF SendAnswer
  <2> QED
    BY <1>5, <2>2, <2>3 DEF SendAnswer, TypeOK
<1>6. CASE onDestroy
  <2>1. receiver' \in BOOLEAN /\ notified' \in BOOLEAN
    BY Zenon, <1>6 DEF onDestroy
  <2> QED
    BY <1>0, <1>6, <2>1 DEF onDestroy, TypeOK
<1> QED
  BY <1>1, <1>2, <1>3, <1>4, <1>5, <1>6 DEF MainThread

\* The core's thread keeps the types.
LEMMA CoreTyped ==
  ASSUME TypeOK, NEW k \in Instance, CoreThread(k) PROVE TypeOK'
<1>1. CASE Prepare(k)
  <2>1. core' \in [Instance -> {"off", "launching", "on"}]
        /\ launch' \in [Instance -> {"none", "prepare", "test", "success", "failure", "notify"}]
    BY <1>1 DEF Prepare, TypeOK
  <2> QED
    BY <1>1, <2>1 DEF Prepare, TypeOK
<1>2. CASE TestRunning(k)
  <2>1. launch' \in [Instance -> {"none", "prepare", "test", "success", "failure", "notify"}]
    BY <1>2 DEF TestRunning, TypeOK
  <2> QED
    BY <1>2, <2>1 DEF TestRunning, TypeOK
<1>3. CASE Report(k)
  <2>1. launch' \in [Instance -> {"none", "prepare", "test", "success", "failure", "notify"}]
    BY <1>3 DEF Report, TypeOK
  <2>2. Text(launch[k] = "success") \in Switch
    BY DEF Text, Switch
  <2>3. sendMsg2UI(<<Text(launch[k] = "success")>>) /\ <<Text(launch[k] = "success")>> \in Seq(Switch)
    BY <1>3, <2>2 DEF Report
  <2>4. news' \in [View -> Seq({"on", "off"})]
    BY <2>3, NewsTyped, Zenon
  <2> QED
    BY <1>3, <2>1, <2>4 DEF Report, TypeOK
<1>4. CASE showNotification(k)
  <2>1. launch' \in [Instance -> {"none", "prepare", "test", "success", "failure", "notify"}]
    BY <1>4 DEF showNotification, TypeOK
  <2>2. notified' \in BOOLEAN
    BY Zenon, <1>4 DEF showNotification
  <2> QED
    BY <1>4, <2>1, <2>2 DEF showNotification, TypeOK
<1> QED
  BY <1>1, <1>2, <1>3, <1>4 DEF CoreThread

\* Whatever asks for a start or a stop.
Click(c) == ClickFab(c) \/ onActivityResult(c) \/ ClickTile(c) \/ ClickWidget(c) \/ Tasker(c)

\* A click starts, stops, or shows the dialog.
LEMMA Clicked ==
  ASSUME NEW c \in Config, Click(c)
  PROVE  /\ startVService(c) \/ stopVService \/ UNCHANGED <<prefvars, amvars, inbox>>
         /\ UNCHANGED <<inst, receiver, corevars, caught>>
BY DEF Click, ClickFab, onActivityResult, ClickTile, ClickWidget, Tasker

\* A configuration is stored, or a stop asked for.
LEMMA RequestTyped ==
  ASSUME TypeOK, NEW c \in Config, startVService(c) \/ stopVService
  PROVE  /\ pref' \in Config /\ file' \in Config /\ starting' \in BOOLEAN /\ cut' \in BOOLEAN
         /\ started' \in BOOLEAN /\ requests' \in Seq({"create", "start", "destroy"})
         /\ inbox' \in Seq({"register", "stop"})
<1>1. CASE startVService(c)
  BY <1>1, Zenon DEF startVService, TypeOK
<1>2. CASE stopVService
  <2>1. inbox' \in Seq({"register", "stop"})
    BY <1>2, InboxTyped DEF stopVService
  <2> QED
    BY <1>2, <2>1, Zenon DEF stopVService, TypeOK
<1> QED
  BY <1>1, <1>2

\* Requests put behind requests.
LEMMA ConcatTyped ==
  ASSUME NEW S, NEW s \in Seq(S), NEW t \in Seq(S)
  PROVE  s \o t \in Seq(S)
OBVIOUS

\* The service is requested.
LEMMA StartTyped == TypeOK /\ startV2Ray => TypeOK'
<1> SUFFICES ASSUME TypeOK, startV2Ray PROVE TypeOK'
  OBVIOUS
<1>1. started' \in BOOLEAN /\ starting' \in BOOLEAN /\ cut' \in BOOLEAN
  BY Zenon DEF startV2Ray
<1>2. requests \in Seq(Requests) /\ <<"start">> \in Seq(Requests) /\ <<"create", "start">> \in Seq(Requests)
  BY DEF TypeOK, Requests
<1>3. requests' = requests \o <<"start">> \/ requests' = requests \o <<"create", "start">>
  BY DEF startV2Ray
<1>4. requests' \in Seq({"create", "start", "destroy"})
  BY <1>2, <1>3, ConcatTyped, ZenonT(30) DEF Requests
<1> QED
  BY <1>1, <1>4 DEF startV2Ray, TypeOK

\* The application's process keeps the types.
LEMMA AppTyped ==
  /\ \A c \in Config : TypeOK /\ Click(c) => TypeOK'
  /\ \A v \in View : TypeOK /\ (Open(v) \/ Close(v) \/ Hear(v)) => TypeOK'
  /\ TypeOK /\ (Decide \/ onResume \/ AppDies \/ startV2Ray \/ Flush) => TypeOK'
<1>1. ASSUME NEW c \in Config, TypeOK, Click(c) PROVE TypeOK'
  <2>1. /\ UNCHANGED <<granted, inst, receiver, answer, corevars, notified, shown, listening, news, caught>>
        /\ asked' \in {"no", "dialog", "accepted"}
    BY <1>1 DEF Click, ClickFab, onActivityResult, ClickTile, ClickWidget, Tasker, TypeOK
  <2>2. CASE startVService(c) \/ stopVService
    BY <1>1, <2>1, <2>2, RequestTyped DEF TypeOK
  <2>3. CASE UNCHANGED <<prefvars, amvars, inbox>>
    BY <1>1, <2>1, <2>3 DEF TypeOK
  <2> QED
    BY <1>1, <2>2, <2>3, Clicked
<1>2. ASSUME NEW v \in View, TypeOK, Open(v) PROVE TypeOK'
  <2>1. inbox' \in Seq({"register", "stop"})
    BY <1>2, InboxTyped DEF Open
  <2>2. shown' \in [View -> {"on", "off"}] /\ listening' \subseteq View
    BY <1>2 DEF Open, TypeOK
  <2> QED
    BY <1>2, <2>1, <2>2 DEF Open, TypeOK
<1>3. ASSUME NEW v \in View, TypeOK, Close(v) PROVE TypeOK'
  <2>1. news' \in [View -> Seq({"on", "off"})] /\ listening' \subseteq View
    BY <1>3 DEF Close, TypeOK
  <2> QED
    BY <1>3, <2>1 DEF Close, TypeOK
<1>4. ASSUME NEW v \in View, TypeOK, Hear(v) PROVE TypeOK'
  <2>1. news[v] \in Seq({"on", "off"}) /\ news[v] # << >>
    BY <1>4 DEF Hear, TypeOK
  <2>2. Head(news[v]) \in {"on", "off"} /\ Tail(news[v]) \in Seq({"on", "off"})
    BY <2>1, Taken
  <2>3. news' \in [View -> Seq({"on", "off"})] /\ shown' \in [View -> {"on", "off"}]
    BY <1>4, <2>2 DEF Hear, TypeOK
  <2> QED
    BY <1>4, <2>3 DEF Hear, TypeOK
<1>5. ASSUME TypeOK, onResume PROVE TypeOK'
  BY <1>5 DEF onResume, TypeOK
<1>6. ASSUME TypeOK, AppDies PROVE TypeOK'
  <2>1. starting' \in BOOLEAN /\ cut' \in BOOLEAN
    BY Zenon, <1>6 DEF AppDies
  <2> QED
    BY <1>6, <2>1 DEF AppDies, TypeOK
<1>7. ASSUME TypeOK, Decide PROVE TypeOK'
  <2>1. granted' \in BOOLEAN
    BY Zenon, <1>7 DEF Decide, TypeOK
  <2> QED
    BY <1>7, <2>1 DEF Decide, TypeOK
<1>8. ASSUME TypeOK, Flush PROVE TypeOK'
  BY <1>8 DEF Flush, TypeOK
<1> QED
  BY <1>1, <1>2, <1>3, <1>4, <1>5, <1>6, <1>7, <1>8, StartTyped

\* Every step keeps the types.
LEMMA TypeStep == TypeOK /\ [Next]_vars => TypeOK'
<1> SUFFICES ASSUME TypeOK, [Next]_vars PROVE TypeOK'
  OBVIOUS
<1>1. CASE onRevoke
  <2>1. granted' \in BOOLEAN
    BY Zenon, <1>1 DEF onRevoke
  <2>2. CASE stopV2Ray
    BY <1>1, <2>1, <2>2, EndTyped DEF onRevoke, TypeOK
  <2>3. CASE UNCHANGED <<core, news, notified, receiver, inbox, amvars, caught>>
    BY <1>1, <2>1, <2>3 DEF onRevoke, TypeOK
  <2> QED
    BY <1>1, <2>2, <2>3 DEF onRevoke
<1>2. CASE DaemonDies
  <2>1. receiver' \in BOOLEAN /\ notified' \in BOOLEAN
    BY Zenon, <1>2 DEF DaemonDies
  <2>2. /\ << >> \in Seq({"create", "start", "destroy"}) /\ <<"create", "start">> \in Seq({"create", "start", "destroy"})
        /\ << >> \in Seq({"register", "stop"})
    OBVIOUS
  <2>3. /\ core' \in [Instance -> {"off", "launching", "on"}] /\ content' \in [Instance -> Config \cup {"none"}]
        /\ launch' \in [Instance -> {"none", "prepare", "test", "success", "failure", "notify"}]
    BY <1>2 DEF DaemonDies
  <2> QED
    BY <1>2, <2>1, <2>2, <2>3, Zenon DEF DaemonDies, TypeOK
<1>3. CASE UNCHANGED vars
  BY <1>3 DEF vars, TypeOK
<1> QED
  BY <1>1, <1>2, <1>3, MainTyped, CoreTyped, AppTyped DEF Next, Click

\* The first state has the types.
LEMMA TypeInit == Init => TypeOK
<1> SUFFICES ASSUME Init PROVE TypeOK
  OBVIOUS
<1>1. /\ started \in BOOLEAN /\ receiver \in BOOLEAN /\ notified \in BOOLEAN /\ caught \in BOOLEAN
      /\ starting \in BOOLEAN /\ cut \in BOOLEAN
  BY Zenon DEF Init
<1> QED
  BY <1>1 DEF Init, TypeOK

\* Every variable keeps its type, for any number of waiting requests and
\* broadcasts.
THEOREM TypeCorrect == Spec => []TypeOK
BY TypeInit, TypeStep, PTL DEF Spec
-----------------------------------------------------------------------------
\* Every core at work belongs to the instance there is, which listens to stops
\* and of which there is a record; before an instance is made, and before it is
\* destroyed, nothing listens; and without a record the last request destroys.
Owned ==
  /\ \A k \in Instance : core[k] # "off" \/ launch[k] # "none" => k = inst /\ receiver
  /\ \A k \in Instance : core[k] = "launching" => launch[k] = "prepare"
  /\ receiver => started
  /\ \A i \in 1..Len(requests) : requests[i] # "start" => ~receiver
  /\ \A i \in 2..Len(requests) : requests[i] = "create" => requests[i - 1] = "destroy"
  /\ ~started /\ requests # << >> => requests[Len(requests)] = "destroy"

IInv == TypeOK /\ (~caught => Owned)

\* The requests after the first keep their order.
LEMMA Popped ==
  ASSUME TypeOK, Owned, requests # << >>, requests' = Tail(requests), started' = started
  PROVE  /\ Len(requests) \in Nat /\ Len(requests) >= 1
         /\ \A i \in 1..Len(requests') : i + 1 \in 2..Len(requests) /\ requests'[i] = requests[i + 1]
         /\ \A i \in 2..Len(requests') : requests'[i] = "create" => requests'[i - 1] = "destroy"
         /\ ~started' /\ requests' # << >> => requests'[Len(requests')] = "destroy"
<1>1. /\ Len(requests) \in Nat /\ Len(requests) >= 1 /\ Len(requests') = Len(requests) - 1
      /\ \A i \in 1..(Len(requests) - 1) : requests'[i] = requests[i + 1]
      /\ requests' \in Seq({"create", "start", "destroy"})
  BY Taken DEF TypeOK
<1>2. \A i \in 1..Len(requests') : i + 1 \in 2..Len(requests) /\ requests'[i] = requests[i + 1]
  BY <1>1
<1>3. \A i \in 2..Len(requests') : requests'[i] = "create" => requests'[i - 1] = "destroy"
  <2> SUFFICES ASSUME NEW i \in 2..Len(requests'), requests'[i] = "create" PROVE requests'[i - 1] = "destroy"
    OBVIOUS
  <2>1. i + 1 \in 2..Len(requests) /\ requests[i + 1] = "create" /\ requests'[i - 1] = requests[i]
    BY <1>1, <1>2
  <2>2. requests[(i + 1) - 1] = "destroy"
    BY <2>1 DEF Owned
  <2> QED
    BY <2>1, <2>2
<1>4. ASSUME ~started', requests' # << >> PROVE requests'[Len(requests')] = "destroy"
  <2>1. Len(requests') >= 1 /\ requests'[Len(requests')] = requests[Len(requests)]
    BY <1>1, <1>4
  <2> QED
    BY <1>4, <2>1 DEF Owned
<1> QED
  BY <1>1, <1>2, <1>3, <1>4

\* One more request, which starts the service or, after the end of its record,
\* makes it first.
LEMMA Asked ==
  ASSUME TypeOK, Owned, startV2Ray PROVE Owned'
<1>1. requests \in Seq({"create", "start", "destroy"}) /\ Len(requests) \in Nat
  BY DEF TypeOK
<1>2. CASE started
  <2>1. requests' = requests \o <<"start">> /\ started'
    BY <1>2 DEF startV2Ray
  <2>2. /\ Len(requests') = Len(requests) + 1 /\ requests'[Len(requests) + 1] = "start"
        /\ \A i \in 1..Len(requests) : requests'[i] = requests[i]
    BY <1>1, <2>1
  <2>3. \A i \in 2..Len(requests') : requests'[i] = "create" => requests'[i - 1] = "destroy"
    BY <1>1, <2>2 DEF Owned
  <2>4. \A i \in 1..Len(requests') : requests'[i] # "start" => ~receiver'
    BY <1>1, <2>2 DEF Owned, startV2Ray
  <2> QED
    BY <2>1, <2>3, <2>4 DEF Owned, startV2Ray
<1>3. CASE ~started
  <2>1. requests' = requests \o <<"create", "start">> /\ started'
    BY <1>3 DEF startV2Ray
  <2>2. /\ Len(requests') = Len(requests) + 2 /\ requests'[Len(requests) + 1] = "create"
        /\ requests'[Len(requests) + 2] = "start"
        /\ \A i \in 1..Len(requests) : requests'[i] = requests[i]
    BY <1>1, <2>1
  <2>3. ~receiver'
    BY <1>3 DEF Owned, startV2Ray
  <2>4. Len(requests) >= 1 => requests[Len(requests)] = "destroy"
    BY <1>1, <1>3 DEF Owned
  <2>5. \A i \in 2..Len(requests') : requests'[i] = "create" => requests'[i - 1] = "destroy"
    <3> SUFFICES ASSUME NEW i \in 2..Len(requests'), requests'[i] = "create" PROVE requests'[i - 1] = "destroy"
      OBVIOUS
    <3>1. CASE i <= Len(requests)
      <4>1. i \in 2..Len(requests) /\ i - 1 \in 1..Len(requests) /\ i \in 1..Len(requests)
        BY <1>1, <3>1
      <4>2. requests[i] = "create"
        BY <2>2, <4>1
      <4>3. requests[i - 1] = "destroy"
        BY <4>1, <4>2 DEF Owned
      <4> QED
        BY <2>2, <4>1, <4>3
    <3>2. CASE i = Len(requests) + 1
      <4>1. i - 1 = Len(requests) /\ Len(requests) >= 1 /\ Len(requests) \in 1..Len(requests)
        BY <1>1, <3>2
      <4> QED
        BY <2>2, <2>4, <4>1
    <3>3. CASE i = Len(requests) + 2
      BY <2>2, <3>3
    <3> QED
      BY <1>1, <2>2, <3>1, <3>2, <3>3
  <2> QED
    BY <2>1, <2>3, <2>5 DEF Owned, startV2Ray
<1> QED
  BY <1>2, <1>3

\* Nothing is at work: an instance can be made or destroyed.
LEMMA Idle ==
  ASSUME TypeOK, Owned, ~receiver
  PROVE  \A k \in Instance : core[k] = "off" /\ launch[k] = "none"
BY DEF Owned

\* What the other steps leave alone.
ownvars == <<inst, receiver, core, launch, started, requests>>

\* A step that leaves them alone keeps the cores owned.
LEMMA Frame == Owned /\ UNCHANGED ownvars => Owned'
BY DEF Owned, ownvars

\* An instance is made or destroyed while nothing is at work.
LEMMA TurnOwned ==
  ASSUME TypeOK, Owned, onCreate \/ onDestroy PROVE Owned'
<1>1. /\ requests # << >> /\ requests[1] \in {"create", "destroy"} /\ requests' = Tail(requests)
      /\ started' = started /\ receiver' = FALSE /\ core' = core /\ launch' = launch
  BY DEF onCreate, onDestroy, TypeOK
<1>2. 1 \in 1..Len(requests)
  BY <1>1, Popped
<1>3. ~receiver
  BY <1>1, <1>2 DEF Owned
<1>4. \A k \in Instance : core'[k] = "off" /\ launch'[k] = "none"
  BY <1>1, <1>3, Idle
<1>5. /\ \A i \in 2..Len(requests') : requests'[i] = "create" => requests'[i - 1] = "destroy"
      /\ ~started' /\ requests' # << >> => requests'[Len(requests')] = "destroy"
  BY <1>1, Popped
<1> QED
  BY <1>1, <1>4, <1>5 DEF Owned

\* A start that meets neither a core coming up nor the end of the instance
\* brings up the core of the instance there is.
LEMMA StartOwned ==
  ASSUME TypeOK, Owned, onStartCommand, ~caught' PROVE Owned'
<1>1. /\ requests # << >> /\ requests[1] = "start" /\ requests' = Tail(requests)
      /\ inst # "none" /\ inst' = inst /\ started' = started /\ receiver' = TRUE
      /\ core' = [core EXCEPT ![inst] = "launching"]
      /\ ~Launching /\ ~Dying
  <2>1. requests # << >> /\ Head(requests) = "start"
    BY DEF onStartCommand, Restart
  <2>2. requests[1] = "start"
    BY <2>1, Taken DEF TypeOK
  <2>3. ~Launching /\ ~Dying
    BY Zenon DEF onStartCommand, Restart
  <2> QED
    BY <2>1, <2>2, <2>3 DEF onStartCommand, Restart
<1>2. launch' = [launch EXCEPT ![inst] = "prepare"]
  BY <1>1 DEF onStartCommand, Restart
<1>3. inst \in Instance
  BY <1>1 DEF TypeOK
<1>4. \A k \in Instance : k # inst => core'[k] = "off" /\ launch'[k] = "none"
  BY <1>1, <1>2 DEF Owned, TypeOK
<1>5. core'[inst] = "launching" /\ launch'[inst] = "prepare"
  BY <1>1, <1>2, <1>3 DEF TypeOK
<1>6. Len(requests) \in Nat /\ Len(requests) >= 1
      /\ (\A i \in 1..Len(requests') : i + 1 \in 2..Len(requests) /\ requests'[i] = requests[i + 1])
      /\ (\A i \in 2..Len(requests') : requests'[i] = "create" => requests'[i - 1] = "destroy")
      /\ (~started' /\ requests' # << >> => requests'[Len(requests')] = "destroy")
  BY <1>1, Popped
<1>7. started
  <2>1. CASE Len(requests) = 1
    BY <1>1, <2>1 DEF Owned
  <2>2. CASE Len(requests) # 1
    <3>1. Len(requests) \in Nat /\ Len(requests) >= 1
      BY <1>6
    <3>2. Len(requests) \in 2..Len(requests)
      BY <2>2, <3>1
    <3> QED
      BY <1>1, <3>2 DEF Owned, Dying
  <2> QED
    BY <2>1, <2>2
<1>8. \A i \in 1..Len(requests') : requests'[i] = "start"
  <2> SUFFICES ASSUME NEW i \in 1..Len(requests') PROVE requests'[i] = "start"
    OBVIOUS
  <2>1. i + 1 \in 2..Len(requests) /\ requests'[i] = requests[i + 1] /\ i + 1 \in 1..Len(requests)
    BY <1>6
  <2>2. requests[i + 1] # "destroy"
    BY <1>1, <2>1 DEF Dying
  <2>3. requests[i + 1] # "create"
    <3> SUFFICES ASSUME requests[i + 1] = "create" PROVE FALSE
      OBVIOUS
    <3>1. requests[(i + 1) - 1] = "destroy"
      BY <2>1 DEF Owned
    <3>2. requests[i] = "destroy"
      BY <3>1
    <3>3. i = 1 \/ i \in 2..Len(requests)
      BY <1>6, <2>1
    <3> QED
      BY <1>1, <3>2, <3>3 DEF Dying
  <2>4. requests[i + 1] \in {"create", "start", "destroy"}
    BY <2>1 DEF TypeOK
  <2> QED
    BY <2>1, <2>2, <2>3, <2>4
<1> QED
  BY <1>1, <1>4, <1>5, <1>6, <1>7, <1>8 DEF Owned

\* A stop that does not meet a core coming up leaves no core at work.
LEMMA StopOwned ==
  ASSUME TypeOK, Owned, stopV2Ray, ~caught', launch' = launch, inst' = inst PROVE Owned'
<1>1. /\ core' = [core EXCEPT ![inst] = IF isRunning(inst) THEN "off" ELSE core[inst]]
      /\ receiver' = FALSE /\ started' = FALSE /\ ~Launching
      /\ requests' = IF started THEN Append(requests, "destroy") ELSE requests
  BY Zenon DEF stopV2Ray, End
<1>2. ASSUME NEW k \in Instance PROVE core'[k] = "off" /\ launch'[k] = "none"
  <2>1. k # "none" /\ core[k] \in {"off", "launching", "on"}
    BY ServiceAssumption DEF TypeOK
  <2>2. launch[k] = "none"
    BY <1>1, <2>1 DEF Owned, Launching
  <2>3. core[k] \in {"off", "on"}
    BY <2>1, <2>2 DEF Owned
  <2>4. CASE k = inst
    BY <1>1, <2>2, <2>3, <2>4 DEF isRunning, TypeOK
  <2>5. CASE k # inst
    BY <1>1, <2>2, <2>5 DEF Owned, TypeOK
  <2> QED
    BY <2>4, <2>5
<1>3. requests \in Seq({"create", "start", "destroy"}) /\ Len(requests) \in Nat
  BY DEF TypeOK
<1>4. CASE started
  <2>1. /\ Len(requests') = Len(requests) + 1 /\ requests'[Len(requests) + 1] = "destroy"
        /\ \A i \in 1..Len(requests) : requests'[i] = requests[i]
    BY <1>1, <1>3, <1>4
  <2>2. \A i \in 2..Len(requests') : requests'[i] = "create" => requests'[i - 1] = "destroy"
    BY <1>3, <2>1 DEF Owned
  <2> QED
    BY <1>1, <1>2, <1>3, <2>1, <2>2 DEF Owned
<1>5. CASE ~started
  BY <1>1, <1>2, <1>5 DEF Owned
<1> QED
  BY <1>4, <1>5

\* The core's thread works for the instance there is.
LEMMA CoreOwned ==
  ASSUME TypeOK, Owned, NEW k \in Instance, CoreThread(k) PROVE Owned'
<1>1. /\ launch[k] # "none" /\ UNCHANGED <<inst, receiver, started, requests>>
      /\ \A j \in Instance : j # k => core'[j] = core[j] /\ launch'[j] = launch[j]
  BY DEF CoreThread, Prepare, TestRunning, Report, showNotification, TypeOK
<1>2. k = inst /\ receiver
  BY <1>1 DEF Owned
<1>3. core'[k] # "launching"
  BY DEF CoreThread, Prepare, TestRunning, Report, showNotification, TypeOK, Owned
<1> QED
  BY <1>1, <1>2, <1>3 DEF Owned

\* The service's process dies.
LEMMA DeathOwned ==
  ASSUME TypeOK, Owned, DaemonDies PROVE Owned'
<1>1. /\ receiver' = FALSE /\ started' = started /\ requests' = IF started THEN <<"create", "start">> ELSE << >>
      /\ \A k \in Instance : core'[k] = "off" /\ launch'[k] = "none"
  BY DEF DaemonDies
<1>2. \A i \in 2..Len(requests') : requests'[i] # "create"
  BY <1>1
<1>3. ~started' => requests' = << >>
  BY <1>1
<1> QED
  BY <1>1, <1>2, <1>3 DEF Owned

\* What has met a core coming up is not forgotten.
LEMMA CaughtStays == TypeOK /\ Next /\ ~caught' => ~caught
BY Zenon DEF TypeOK, Next, MainThread, onCreate, onStartCommand, Restart, ReceiveStop, stopV2Ray, End, ReceiveRegister,
       SendAnswer, onDestroy, onRevoke, CoreThread, Prepare, TestRunning, Report, showNotification, ClickFab,
       onActivityResult, ClickTile, ClickWidget, Tasker, Decide, startV2Ray, Flush, Open, Close, Hear, onResume, AppDies, DaemonDies

\* Every step keeps the cores owned.
LEMMA OwnedStep == IInv /\ [Next]_vars => IInv'
<1> SUFFICES ASSUME TypeOK, ~caught => Owned, [Next]_vars, ~caught' PROVE Owned'
  BY TypeStep DEF IInv
<1>1. CASE UNCHANGED vars
  BY <1>1, Frame DEF vars, ownvars
<1>2. CASE Next
  <2>0. Owned
    BY <1>2, CaughtStays
  <2>1. CASE onCreate \/ onDestroy
    BY <2>0, <2>1, TurnOwned
  <2>2. CASE onStartCommand
    BY <2>0, <2>2, StartOwned
  <2>3. CASE ReceiveStop
    BY <2>0, <2>3, StopOwned DEF ReceiveStop
  <2>4. CASE ReceiveRegister \/ SendAnswer \/ Decide \/ onResume \/ AppDies \/ Flush
    BY <2>0, <2>4, Frame DEF ownvars, ReceiveRegister, SendAnswer, Decide, onResume, AppDies, Flush
  <2>5. CASE onRevoke
    BY <2>0, <2>5, StopOwned, Frame DEF onRevoke, ownvars
  <2>6. ASSUME NEW k \in Instance, CoreThread(k) PROVE Owned'
    BY <2>0, <2>6, CoreOwned
  <2>7. ASSUME NEW c \in Config, Click(c) PROVE Owned'
    BY <2>0, <2>7, Clicked, Frame DEF ownvars, startVService, stopVService
  <2>8. ASSUME NEW v \in View, Open(v) \/ Close(v) \/ Hear(v) PROVE Owned'
    BY <2>0, <2>8, Frame DEF ownvars, Open, Close, Hear
  <2>9. CASE DaemonDies
    BY <2>0, <2>9, DeathOwned
  <2>10. CASE startV2Ray
    BY <2>0, <2>10, Asked
  <2> QED
    BY <1>2, <2>1, <2>2, <2>3, <2>4, <2>5, <2>6, <2>7, <2>8, <2>9, <2>10 DEF Next, MainThread, Click
<1> QED
  BY <1>1, <1>2

\* A core that runs is that of the instance there is, and that instance listens
\* to stops, however many requests and broadcasts wait and however often the
\* processes die, unless a stop or a start has met a core coming up or an
\* instance about to be destroyed.
THEOREM AlwaysStoppable == Spec => []Stoppable
<1>1. Init => IInv
  <2>1. Init => Owned
    BY DEF Init, Owned
  <2> QED
    BY <2>1, TypeInit DEF IInv
<1>2. IInv => Stoppable
  BY DEF IInv, Owned, Stoppable
<1> QED
  BY <1>1, <1>2, OwnedStep, PTL DEF Spec
-----------------------------------------------------------------------------
(* What the views show, and what the core runs with. *)

\* A start is on its way, or about to be asked for.
Coming == \E i \in 1..Len(requests) : requests[i] = "start"
Due == asked = "accepted" \/ starting \/ Coming

\* What a view shows once it has heard everything it was told.
Shows(v) == IF news[v] = << >> THEN shown[v] ELSE news[v][Len(news[v])]

\* The service is about to tell the views what it is.
Answering ==
  /\ receiver
  /\ \/ answer # "none" \/ \E i \in 1..Len(inbox) : inbox[i] = "register"
     \/ inst # "none" /\ launch[inst] \in {"test", "success", "failure"}

\* The core's thread has seen what the core is, and the permission lasts.
Launched ==
  \A k \in Instance :
    /\ launch[k] = "prepare" => core[k] = "launching"
    /\ launch[k] \in {"success", "notify"} => core[k] = "on"
    /\ launch[k] = "failure" => core[k] = "off"
    /\ launch[k] # "none" /\ core[k] = "on" => granted

\* A core at work has the last configuration, unless a start is on its way or
\* was cut off.
Latest ==
  \A k \in Instance :
    core[k] # "off" \/ launch[k] # "none" => content[k] = pref \/ starting \/ Coming \/ cut

\* A service with a record listens or is about to, only one that listens has
\* broadcasts waiting, and only views that listen do.
Served ==
  /\ started => receiver \/ Coming
  /\ inbox # << >> => receiver
  /\ \A v \in View \ listening : news[v] = << >>

\* The notification, which is shown some time after the VPN is on unless the
\* start that would show it was cut off.
Noted ==
  /\ notified => On
  /\ On => notified \/ launch[inst] \in {"test", "success", "notify"} \/ Due \/ cut

\* A view ends up with what the VPN is, or will be told; without a record of
\* the service it ends up with "off".
Seen ==
  /\ \A v \in listening : Shows(v) = Text(On) \/ Due \/ Answering
  /\ ~started => \A v \in listening : Shows(v) = "off"

Told == Launched /\ Latest /\ Served /\ Noted /\ Seen

\* A service that does not listen is not on.
LEMMA Deaf == TypeOK /\ Owned /\ ~receiver => ~On
BY Idle DEF On, isRunning, TypeOK

\* A view that is told something shows it in the end.
LEMMA Spoken ==
  ASSUME TypeOK, NEW m \in Switch, sendMsg2UI(<<m>>), UNCHANGED <<shown, listening>>
  PROVE  /\ \A v \in listening : Shows(v)' = m
         /\ \A v \in View \ listening : news'[v] = news[v]
<1>1. ASSUME NEW v \in listening PROVE Shows(v)' = m
  <2>1. v \in View /\ news[v] \in Seq({"on", "off"}) /\ news'[v] = news[v] \o <<m>>
    BY DEF TypeOK, sendMsg2UI
  <2>2. Len(news'[v]) = Len(news[v]) + 1 /\ Len(news[v]) \in Nat /\ news'[v][Len(news[v]) + 1] = m
    BY <2>1 DEF Switch
  <2> QED
    BY <2>2 DEF Shows
<1>2. \A v \in View \ listening : news'[v] = news[v]
  BY DEF sendMsg2UI
<1> QED
  BY <1>1, <1>2

\* A start on its way stays, whatever is requested after it, and one that is
\* asked for is on its way.
LEMMA StillComing ==
  ASSUME TypeOK
  PROVE  /\ Coming /\ requests' = Append(requests, "destroy") => Coming'
         /\ requests' = requests \o <<"start">> => Coming'
         /\ requests' = requests \o <<"create", "start">> => Coming'
         /\ requests' = <<"create", "start">> => Coming'
         /\ Coming /\ requests # << >> /\ Head(requests) # "start" /\ requests' = Tail(requests) => Coming'
<1>1. requests \in Seq(Requests) /\ Len(requests) \in Nat
  BY DEF TypeOK, Requests
<1>2. ASSUME Coming, requests' = Append(requests, "destroy") PROVE Coming'
  <2>1. Len(requests') = Len(requests) + 1 /\ \A i \in 1..Len(requests) : requests'[i] = requests[i]
    BY <1>1, <1>2 DEF Requests
  <2> QED
    BY <1>1, <1>2, <2>1 DEF Coming
<1>3. ASSUME requests' = requests \o <<"start">> PROVE Coming'
  <2>1. Len(requests') = Len(requests) + 1 /\ requests'[Len(requests) + 1] = "start"
    BY <1>1, <1>3
  <2> QED
    BY <1>1, <2>1 DEF Coming
<1>4. ASSUME requests' = requests \o <<"create", "start">> PROVE Coming'
  <2>1. Len(requests') = Len(requests) + 2 /\ requests'[Len(requests) + 2] = "start"
    BY <1>1, <1>4
  <2> QED
    BY <1>1, <2>1 DEF Coming
<1>5. ASSUME requests' = <<"create", "start">> PROVE Coming'
  <2>1. Len(requests') = 2 /\ requests'[2] = "start"
    BY <1>5
  <2> QED
    BY <2>1 DEF Coming
<1>6. ASSUME Coming, requests # << >>, Head(requests) # "start", requests' = Tail(requests) PROVE Coming'
  <2>1. PICK i \in 1..Len(requests) : requests[i] = "start"
    BY <1>6 DEF Coming
  <2>2. /\ requests[1] # "start" /\ Len(requests') = Len(requests) - 1
        /\ \A j \in 1..(Len(requests) - 1) : requests'[j] = requests[j + 1]
    BY <1>1, <1>6, Taken
  <2>3. i - 1 \in 1..(Len(requests) - 1) /\ (i - 1) + 1 = i
    BY <1>1, <2>1, <2>2
  <2>4. requests'[i - 1] = "start"
    BY <2>1, <2>2, <2>3
  <2> QED
    BY <2>2, <2>3, <2>4 DEF Coming
<1> QED
  BY <1>2, <1>3, <1>4, <1>5, <1>6, SMTT(30)

\* The step of an uncaught process, with what is known before and after it.
Kept == TypeOK /\ Owned /\ Told /\ ~caught /\ TypeOK' /\ Owned' /\ ~caught'

\* What the VPN is, as it is told.
LEMMA Texts == (On => Text(On) = "on") /\ (~On => Text(On) = "off") /\ Text(On) \in Switch /\ Text(On) # "none"
BY DEF Text, Switch

\* The same, after a step.
LEMMA After ==
  ASSUME Kept
  PROVE  /\ ~receiver' => ~On' /\ \A k \in Instance : core'[k] = "off" /\ launch'[k] = "none"
         /\ (On' => Text(On)' = "on") /\ (~On' => Text(On)' = "off")
<1>1. ~receiver' => \A k \in Instance : core'[k] = "off" /\ launch'[k] = "none"
  BY DEF Kept, Owned
<1>2. ~receiver' => ~On'
  BY <1>1 DEF Kept, TypeOK, On, isRunning
<1> QED
  BY <1>1, <1>2 DEF Text

\* An instance is made or destroyed: nothing is at work.
LEMMA TurnTold ==
  ASSUME Kept, onCreate \/ onDestroy PROVE Told'
<1>1. /\ requests # << >> /\ Head(requests) # "start" /\ requests' = Tail(requests)
      /\ Head(requests) = requests[1] /\ 1 \in 1..Len(requests) /\ requests[1] # "start"
      /\ receiver' = FALSE /\ inbox' = << >> /\ (notified' => notified)
      /\ UNCHANGED <<pref, starting, cut, granted, started, answer, core, launch, uivars>>
  <2>1. /\ requests # << >> /\ Head(requests) # "start" /\ requests' = Tail(requests)
        /\ receiver' = FALSE /\ inbox' = << >> /\ (notified' => notified)
        /\ UNCHANGED <<pref, starting, cut, granted, started, answer, core, launch, uivars>>
    BY DEF onCreate, onDestroy, corevars
  <2> QED
    BY <2>1, Taken DEF Kept, TypeOK, Requests
<1>2. ~receiver /\ ~On /\ ~On'
  BY <1>1, Deaf, After DEF Kept, Owned
<1>3. Coming => Coming'
  BY <1>1, StillComing DEF Kept
<1>4. Launched' /\ Latest'
  BY <1>1, After DEF Launched, Latest
<1>5. Served'
  BY <1>1, <1>2, <1>3, Zenon DEF Served, Kept, Told
<1>6. Noted'
  BY <1>1, <1>2, SMTT(30) DEF Noted, Kept, Told
<1>7. Seen'
  <2>1. \A v : Shows(v)' = Shows(v)
    BY <1>1 DEF Shows
  <2>2. Text(On)' = "off" /\ Text(On) = "off"
    BY <1>2, After, Texts
  <2>3. ~Answering
    BY <1>2 DEF Answering
  <2>4. Due => Due'
    BY <1>1, <1>3 DEF Due
  <2> QED
    BY <1>1, <2>1, <2>2, <2>3, <2>4, Zenon DEF Seen, Kept, Told
<1> QED
  BY <1>4, <1>5, <1>6, <1>7 DEF Told

\* A start tells the views that the VPN is off, and brings up the core.
LEMMA StartTold ==
  ASSUME Kept, onStartCommand PROVE Told'
<1>1. /\ inst \in Instance /\ inst' = inst /\ receiver' = TRUE /\ notified' = FALSE
      /\ core' = [core EXCEPT ![inst] = "launching"] /\ content' = [content EXCEPT ![inst] = pref]
      /\ sendMsg2UI(<<"off">>) /\ ~Launching
      /\ UNCHANGED <<pref, starting, cut, granted, started, inbox, answer, asked, shown, listening>>
  <2>1. ~Launching
    BY Zenon DEF Kept, onStartCommand, Restart
  <2> QED
    BY <2>1 DEF Kept, TypeOK, onStartCommand, Restart
<1>2. launch' = [launch EXCEPT ![inst] = "prepare"]
  BY <1>1 DEF onStartCommand, Restart
<1>3. core'[inst] = "launching" /\ launch'[inst] = "prepare" /\ content'[inst] = pref
  BY <1>1, <1>2, SMTT(30) DEF Kept, TypeOK
<1>4. \A k \in Instance : k # inst => core'[k] = "off" /\ launch'[k] = "none"
  BY <1>1, After DEF Kept, Owned
<1>5. ~On'
  BY <1>1, <1>3 DEF On, isRunning
<1>6. /\ \A v \in listening : Shows(v)' = "off"
      /\ \A v \in View \ listening : news'[v] = news[v]
  BY <1>1, Spoken DEF Kept, Switch
<1>7. Launched' /\ Latest'
  BY <1>1, <1>3, <1>4 DEF Launched, Latest
<1>8. Served'
  BY <1>1, <1>6 DEF Served, Kept, Told
<1>9. Noted' /\ Seen'
  BY <1>1, <1>5, <1>6, After DEF Noted, Seen
<1> QED
  BY <1>7, <1>8, <1>9 DEF Told

\* A stop tells them so too.
LEMMA StopTold ==
  ASSUME Kept, stopV2Ray, UNCHANGED <<shown, listening>> PROVE Told'
<1>1. /\ receiver' = FALSE /\ notified' = FALSE /\ inbox' = << >> /\ started' = FALSE /\ sendMsg2UI(<<"off">>)
  BY DEF stopV2Ray, End
<1>2. ~On' /\ Text(On)' = "off"
  BY <1>1, After
<1>3. /\ \A v \in listening : Shows(v)' = "off"
      /\ \A v \in View \ listening : news'[v] = news[v]
  BY <1>1, Spoken DEF Kept, Switch
<1>4. Launched' /\ Latest'
  BY <1>1, After DEF Launched, Latest
<1>5. Served'
  BY <1>1, <1>3, SMTT(30) DEF Served, Kept, Told
<1>6. Noted' /\ Seen'
  BY <1>1, <1>2, <1>3 DEF Noted, Seen
<1> QED
  BY <1>4, <1>5, <1>6 DEF Told

\* A client is registered, and gets its answer.
LEMMA AnswerTold ==
  ASSUME Kept, ReceiveRegister \/ SendAnswer PROVE Told'
<1>1. UNCHANGED <<pref, starting, cut, granted, started, requests, inst, receiver, corevars, notified, asked, shown, listening>>
  BY DEF ReceiveRegister, SendAnswer
<1>2. On' = On /\ Coming' = Coming /\ Due' = Due
  BY <1>1 DEF On, isRunning, Coming, Due
<1>3. Launched' /\ Latest'
  BY <1>1, <1>2 DEF Launched, Latest, Kept, Told
<1>4. Noted'
  BY <1>1, <1>2 DEF Noted, Kept, Told
<1>5. CASE ReceiveRegister
  <2>1. inbox # << >> /\ news' = news /\ answer' # "none" /\ receiver
    BY <1>5, Texts, ZenonT(30) DEF ReceiveRegister, Kept, Told, Served
  <2>2. Served'
    BY <1>1, <1>2, <2>1 DEF Served, Kept, Told
  <2>3. Answering' /\ \A v : Shows(v)' = Shows(v)
    BY <1>1, <2>1 DEF Answering, Shows
  <2>4. Seen'
    BY <1>1, <2>3 DEF Seen, Kept, Told
  <2> QED
    BY <1>3, <1>4, <2>2, <2>4 DEF Told
<1>6. CASE SendAnswer
  <2>1. answer = Text(On)
    BY Zenon, <1>6 DEF SendAnswer, Kept
  <2>2. sendMsg2UI(<<answer>>) /\ answer \in Switch /\ inbox' = inbox
    BY <1>6, <2>1, Texts DEF SendAnswer
  <2>3. /\ \A v \in listening : Shows(v)' = answer
        /\ \A v \in View \ listening : news'[v] = news[v]
    BY <1>1, <2>2, Spoken DEF Kept
  <2>4. Served'
    BY <1>1, <1>2, <2>2, <2>3 DEF Served, Kept, Told
  <2>5. ~started => answer = "off"
    BY <2>1, Deaf, Texts DEF Kept, Owned
  <2>6. Text(On)' = answer
    BY <1>2, <2>1, After, Texts
  <2>7. Seen'
    BY <1>1, <2>3, <2>5, <2>6 DEF Seen
  <2> QED
    BY <1>3, <1>4, <2>4, <2>7 DEF Told
<1> QED
  BY <1>5, <1>6

\* Another VPN takes over while the core is not on.
LEMMA RevokedTold ==
  ASSUME Kept, onRevoke, ~(inst # "none" /\ isRunning(inst)) PROVE Told'
<1>1. /\ granted' = FALSE
      /\ UNCHANGED <<pref, starting, cut, inst, answer, corevars, news, notified, receiver, inbox, amvars, asked, shown, listening>>
  BY DEF onRevoke
<1>2. ~On /\ ~On' /\ Coming' = Coming /\ Due' = Due /\ Answering' = Answering
  BY <1>1 DEF On, Coming, Due, Answering
<1>3. \A k \in Instance : core[k] # "on"
  BY ServiceAssumption DEF Kept, Owned, isRunning
<1>4. Launched' /\ Latest'
  BY <1>1, <1>2, <1>3 DEF Launched, Latest, Kept, Told
<1>5. Served'
  BY <1>1, <1>2 DEF Served, Kept, Told
<1>6. Noted'
  BY <1>1, <1>2 DEF Noted, Kept, Told
<1>7. Text(On)' = Text(On) /\ \A v : Shows(v)' = Shows(v)
  BY <1>1, <1>2, After, Texts DEF Shows
<1>8. Seen'
  BY <1>1, <1>2, <1>7 DEF Seen, Kept, Told
<1> QED
  BY <1>4, <1>5, <1>6, <1>8 DEF Told
\* The core's thread works for the instance there is, which listens.
LEMMA Worker ==
  ASSUME Kept, NEW k \in Instance, launch[k] # "none" PROVE k = inst /\ receiver /\ started
BY DEF Kept, Owned

\* It has the core come up or fail, without a word: the views are answered
\* once it has been seen which.
LEMMA PrepareTold ==
  ASSUME Kept, NEW k \in Instance, Prepare(k) PROVE Told'
<1>1. /\ launch[k] = "prepare" /\ k = inst /\ receiver /\ started /\ core[inst] = "launching"
      /\ UNCHANGED <<pref, starting, cut, granted, started, requests, inst, receiver, inbox, answer, content, notified, asked, shown,
                     listening, news>>
  BY Worker DEF Prepare, Kept, Told, Launched, amvars, mainvars, uivars
<1>2. /\ core'[inst] \in {"on", "off"} /\ launch'[inst] = IF granted THEN "test" ELSE "none"
      /\ \A j \in Instance : j # inst => core'[j] = core[j] /\ launch'[j] = launch[j]
  BY <1>1 DEF Prepare, Kept, TypeOK
<1>3. Coming' = Coming /\ Due' = Due /\ ~On /\ (On' => granted) /\ \A v : Shows(v)' = Shows(v)
  BY <1>1 DEF Coming, Due, On, isRunning, Shows
<1>4. Launched'
  BY <1>1, <1>2 DEF Launched, Kept, Told
<1>5. Latest'
  BY <1>1, <1>2, <1>3, Zenon DEF Latest, Kept, Told
<1>6. Served'
  BY <1>1, <1>3, ZenonT(30) DEF Served, Kept, Told
<1>7. Noted'
  BY <1>1, <1>2, <1>3, ZenonT(30) DEF Noted, Kept, Told
<1>8. Seen'
  <2>1. CASE granted
    BY <1>1, <1>2, <2>1, ServiceAssumption DEF Seen, Answering
  <2>2. CASE ~granted
    <3>1. Text(On)' = Text(On)
      BY <1>3, <2>2, After, Texts
    <3>2. Answering => Answering'
      BY <1>1 DEF Answering
    <3> QED
      BY <1>1, <1>3, <3>1, <3>2, Zenon DEF Seen, Kept, Told
  <2> QED
    BY <2>1, <2>2
<1> QED
  BY <1>4, <1>5, <1>6, <1>7, <1>8 DEF Told

\* It asks the core, and remembers.
LEMMA TestTold ==
  ASSUME Kept, NEW k \in Instance, TestRunning(k) PROVE Told'
<1>1. /\ launch[k] = "test" /\ k = inst /\ receiver /\ started
      /\ UNCHANGED <<pref, starting, cut, granted, started, requests, inst, receiver, inbox, answer, core, content, notified, asked,
                     shown, listening, news>>
  BY Worker, SMTT(30) DEF TestRunning, amvars, mainvars, uivars
<1>2. /\ launch'[inst] = IF core[inst] = "on" THEN "success" ELSE "failure"
      /\ \A j \in Instance : j # inst => launch'[j] = launch[j]
      /\ core[inst] \in {"on", "off"}
  BY <1>1 DEF TestRunning, Kept, TypeOK, isRunning, Owned
<1>3. Coming' = Coming /\ Due' = Due /\ On' = On /\ \A v : Shows(v)' = Shows(v)
  BY <1>1, Zenon DEF Coming, Due, On, isRunning, Shows
<1>4. Launched'
  BY <1>1, <1>2, ZenonT(30) DEF Launched, Kept, Told
<1>5. Latest'
  BY <1>1, <1>2, <1>3, Zenon DEF Latest, Kept, Told
<1>6. Served'
  BY <1>1, <1>3, ZenonT(30) DEF Served, Kept, Told
<1>7. Noted'
  <2>1. notified' => On'
    BY <1>1, <1>3 DEF Noted, Kept, Told
  <2>2. On' => launch'[inst'] = "success"
    BY <1>1, <1>2, <1>3 DEF On, isRunning
  <2> QED
    BY <2>1, <2>2 DEF Noted
<1>8. Seen'
  BY <1>1, <1>2, ServiceAssumption DEF Seen, Answering
<1> QED
  BY <1>4, <1>5, <1>6, <1>7, <1>8 DEF Told

\* It tells the views what it remembers, which is still so.
LEMMA ReportTold ==
  ASSUME Kept, NEW k \in Instance, Report(k) PROVE Told'
<1>1. /\ launch[k] \in {"success", "failure"} /\ k = inst /\ receiver /\ started
      /\ UNCHANGED <<pref, starting, cut, granted, started, requests, inst, receiver, inbox, answer, core, content, notified, asked,
                     shown, listening>>
  BY Worker DEF Report, amvars, mainvars
<1>2. /\ launch'[inst] = IF launch[inst] = "success" THEN "notify" ELSE "none"
      /\ \A j \in Instance : j # inst => launch'[j] = launch[j]
  BY <1>1 DEF Report, Kept, TypeOK
<1>3. Coming' = Coming /\ Due' = Due /\ On' = On
  BY <1>1 DEF Coming, Due, On, isRunning
<1>4. /\ launch[inst] = "success" => core[inst] = "on" /\ On
      /\ launch[inst] = "failure" => core[inst] = "off" /\ ~On
  BY <1>1, ServiceAssumption DEF Kept, Told, Launched, On, isRunning
<1>5. PICK m \in Switch : m = Text(On) /\ sendMsg2UI(<<m>>)
  BY <1>1, <1>4, Texts, Zenon DEF Report, Text
<1>6. /\ \A v \in listening : Shows(v)' = m
      /\ \A v \in View \ listening : news'[v] = news[v]
  BY <1>1, <1>5, Spoken, Zenon DEF Kept
<1>7. Launched'
  BY <1>1, <1>2, <1>4, Zenon DEF Launched, Kept, Told
<1>8. Latest'
  BY <1>1, <1>2, <1>3, Zenon DEF Latest, Kept, Told
<1>9. Served'
  BY <1>1, <1>3, <1>6, Zenon DEF Served, Kept, Told
<1>10. Noted'
  BY <1>1, <1>2, <1>3, <1>4, SMTT(30) DEF Noted, Kept, Told
<1>11. Seen'
  <2>1. Text(On)' = m
    BY <1>3, <1>5, After, Texts
  <2> QED
    BY <1>1, <1>6, <2>1 DEF Seen
<1> QED
  BY <1>7, <1>8, <1>9, <1>10, <1>11 DEF Told

\* It has the notification shown.
LEMMA NotifyTold ==
  ASSUME Kept, NEW k \in Instance, showNotification(k) PROVE Told'
<1>1. /\ launch[k] = "notify" /\ k = inst /\ receiver /\ started /\ notified'
      /\ UNCHANGED <<pref, starting, cut, granted, started, requests, inst, receiver, inbox, answer, core, content, asked,
                     shown, listening, news>>
  BY Worker, Zenon DEF showNotification, amvars, mainvars, uivars
<1>2. launch'[inst] = "none" /\ \A j \in Instance : j # inst => launch'[j] = launch[j]
  BY <1>1, SMTT(30) DEF showNotification, Kept, TypeOK
<1>3. Coming' = Coming /\ Due' = Due /\ On' = On /\ \A v : Shows(v)' = Shows(v)
  BY <1>1 DEF Coming, Due, On, isRunning, Shows
<1>4. On
  BY <1>1, ServiceAssumption DEF Kept, Told, Launched, On, isRunning
<1>5. Launched'
  BY <1>1, <1>2, Zenon DEF Launched, Kept, Told
<1>6. Latest'
  BY <1>1, <1>2, <1>3, Zenon DEF Latest, Kept, Told
<1>7. Served'
  BY <1>1, <1>3, ZenonT(30) DEF Served, Kept, Told
<1>8. Noted'
  BY <1>1, <1>3, <1>4, Zenon DEF Noted
<1>9. Seen'
  <2>1. Text(On)' = Text(On)
    BY <1>3, After, Texts
  <2>2. Answering => Answering'
    BY <1>1 DEF Answering
  <2> QED
    BY <1>1, <1>3, <2>1, <2>2, ZenonT(30) DEF Seen, Kept, Told
<1> QED
  BY <1>5, <1>6, <1>7, <1>8, <1>9 DEF Told
\* Every broadcast that waits goes on waiting when one more comes.
LEMMA StillWaiting ==
  ASSUME TypeOK, NEW what \in {"register", "stop"}, sendMsg2Service(what)
  PROVE  /\ (\E i \in 1..Len(inbox) : inbox[i] = "register") => \E i \in 1..Len(inbox') : inbox'[i] = "register"
         /\ inbox' # << >> => inbox # << >> \/ receiver
         /\ receiver => \E i \in 1..Len(inbox') : inbox'[i] = what
<1>1. CASE receiver
  <2>1. /\ Len(inbox) \in Nat /\ Len(inbox') = Len(inbox) + 1 /\ inbox'[Len(inbox) + 1] = what
        /\ \A i \in 1..Len(inbox) : inbox'[i] = inbox[i]
    BY <1>1 DEF TypeOK, sendMsg2Service
  <2> QED
    BY <1>1, <2>1
<1>2. CASE ~receiver
  BY <1>2 DEF sendMsg2Service
<1> QED
  BY <1>1, <1>2

\* A configuration is stored: the start is about to be asked for.
LEMMA StartAskedTold ==
  ASSUME Kept, NEW c \in Config, startVService(c),
         UNCHANGED <<granted, inst, receiver, answer, corevars, notified, shown, listening, news>>
  PROVE  Told'
<1>1. starting' /\ Due' /\ UNCHANGED <<started, requests, inbox, core, content, launch>>
  BY Zenon DEF startVService, Due, amvars, corevars
<1>2. Launched' /\ Latest'
  BY <1>1 DEF Launched, Latest, Kept, Told
<1>3. Served'
  BY <1>1 DEF Served, Coming, Kept, Told
<1>4. On' = On
  BY <1>1 DEF On, isRunning
<1>5. Noted'
  BY <1>1, <1>4 DEF Noted, Kept, Told
<1>6. Seen'
  BY <1>1 DEF Seen, Shows, Kept, Told
<1> QED
  BY <1>2, <1>3, <1>5, <1>6 DEF Told

\* It is asked for: it is on its way.
LEMMA RequestTold ==
  ASSUME Kept, startV2Ray PROVE Told'
<1>0. UNCHANGED <<pref, granted, inst, receiver, inbox, answer, core, content, launch, notified, asked, shown, listening, news>>
  BY DEF startV2Ray, mainvars, corevars, uivars
<1>1. Coming' /\ Due' /\ started'
  BY StillComing, SMTT(30) DEF startV2Ray, Kept, Due
<1>2. Launched' /\ Latest'
  BY <1>0, <1>1 DEF Launched, Latest, Kept, Told
<1>3. Served'
  BY <1>0, <1>1 DEF Served, Kept, Told
<1>4. On' = On
  BY <1>0 DEF On, isRunning
<1>5. Noted'
  BY <1>0, <1>1, <1>4 DEF Noted, Kept, Told
<1>6. Seen'
  BY <1>1 DEF Seen
<1> QED
  BY <1>2, <1>3, <1>5, <1>6 DEF Told

\* The application dies: no view is left to be told anything, and either nothing
\* of a start is lost or it is cut off.
LEMMA AppDiesTold ==
  ASSUME Kept, AppDies PROVE Told'
<1>1. /\ UNCHANGED <<granted, started, requests, inst, receiver, inbox, answer, core, content, launch, notified, asked>>
      /\ listening' = {} /\ news' = [v \in View |-> << >>]
  BY DEF AppDies, amvars, mainvars, corevars
<1>2. cut' \/ (~starting /\ ~cut /\ pref' = pref)
  BY Zenon DEF AppDies
<1>3. On' = On /\ Coming' = Coming
  BY <1>1 DEF On, isRunning, Coming
<1>4. Launched'
  BY <1>1 DEF Launched, Kept, Told
<1>5. Latest'
  BY <1>1, <1>2, <1>3, Zenon DEF Latest, Kept, Told
<1>6. Served'
  BY <1>1, <1>3 DEF Served, Kept, Told
<1>7. Due => Due' \/ cut'
  BY <1>1, <1>2, <1>3 DEF Due
<1>8. Noted'
  BY <1>1, <1>2, <1>3, <1>7 DEF Noted, Kept, Told
<1>9. Seen'
  BY <1>1 DEF Seen
<1> QED
  BY <1>4, <1>5, <1>6, <1>8, <1>9 DEF Told

\* A stop is asked for, or nothing: what was to be said still is.
LEMMA StopAskedTold ==
  ASSUME Kept, stopVService \/ UNCHANGED <<prefvars, amvars, inbox>>, asked' = asked \/ asked # "accepted",
         UNCHANGED <<granted, inst, receiver, answer, corevars, notified, shown, listening, news>>
  PROVE  Told'
<1>1. UNCHANGED <<pref, starting, cut, started, requests, core, content, launch>>
  BY DEF stopVService, amvars, corevars
<1>2. /\ inbox' # << >> => inbox # << >> \/ receiver
      /\ (\E i \in 1..Len(inbox) : inbox[i] = "register") => \E i \in 1..Len(inbox') : inbox'[i] = "register"
  BY StillWaiting, SMTT(30) DEF Kept, stopVService
<1>3. On' = On /\ Coming' = Coming /\ (Due => Due') /\ (Answering => Answering') /\ \A v : Shows(v)' = Shows(v)
  BY <1>1, <1>2, SMTT(30) DEF On, isRunning, Coming, Due, Answering, Shows
<1>4. Launched' /\ Latest'
  BY <1>1, <1>3 DEF Launched, Latest, Kept, Told
<1>5. Served'
  BY <1>1, <1>2, <1>3 DEF Served, Kept, Told
<1>6. Noted'
  BY <1>1, <1>3 DEF Noted, Kept, Told
<1>7. Text(On)' = Text(On)
  BY <1>3, After, Texts
<1>8. Seen'
  BY <1>1, <1>3, <1>7 DEF Seen, Kept, Told
<1> QED
  BY <1>4, <1>5, <1>6, <1>8 DEF Told

\* The user clicks.
LEMMA ClickTold ==
  ASSUME Kept, NEW c \in Config, Click(c) PROVE Told'
<1>1. /\ startVService(c) \/ ((stopVService \/ UNCHANGED <<prefvars, amvars, inbox>>) /\ (asked' = asked \/ asked # "accepted"))
      /\ UNCHANGED <<granted, inst, receiver, answer, corevars, notified, shown, listening, news>>
  BY DEF Click, ClickFab, onActivityResult, ClickTile, ClickWidget, Tasker, uivars
<1> QED
  BY <1>1, StartAskedTold, StopAskedTold

\* The user decides on the permission: it is missing only while no core that is
\* on has its thread at work.
LEMMA DecideTold ==
  ASSUME Kept, Decide PROVE Told'
<1>1. /\ UNCHANGED <<pref, starting, cut, started, requests, inst, receiver, inbox, answer, core, content, launch, notified,
                     shown, listening, news>>
      /\ (granted => granted') /\ asked = "dialog" /\ ((granted' = granted) \/ asked' = "accepted")
  BY SMTT(30) DEF Decide, amvars, mainvars, corevars
<1>2. Coming' = Coming /\ (Due => Due') /\ Answering' = Answering /\ \A v : Shows(v)' = Shows(v)
  BY <1>1, ZenonT(30) DEF Coming, Due, Answering, Shows
<1>3. Launched' /\ Latest'
  BY <1>1, <1>2, Zenon DEF Launched, Latest, Kept, Told
<1>4. Served'
  BY <1>1, <1>2, ZenonT(30) DEF Served, Kept, Told
<1>5. CASE asked' = "accepted"
  <2>1. Due' /\ (On => On')
    BY <1>1, <1>5 DEF Due, On, isRunning
  <2>2. Noted' /\ Seen'
    BY <1>1, <1>2, <2>1 DEF Noted, Seen, Kept, Told
  <2> QED
    BY <1>3, <1>4, <2>2 DEF Told
<1>6. CASE granted' = granted
  <2>1. On' = On
    BY <1>1, <1>6 DEF On, isRunning
  <2>2. Text(On)' = Text(On)
    BY <2>1, After, Texts
  <2>3. Noted' /\ Seen'
    BY <1>1, <1>2, <2>1, <2>2 DEF Noted, Seen, Kept, Told
  <2> QED
    BY <1>3, <1>4, <2>3 DEF Told
<1> QED
  BY <1>1, <1>5, <1>6

\* Nothing but the views changes.
ViewsOnly == UNCHANGED <<pref, starting, cut, granted, started, requests, inst, receiver, answer, core, content, launch, notified, asked>>

\* Then what is not about views stays as it is.
LEMMA ViewFrame ==
  ASSUME Kept, ViewsOnly, inbox' # << >> => inbox # << >> \/ receiver
  PROVE  /\ Launched' /\ Latest' /\ Noted' /\ On' = On /\ Coming' = Coming /\ Due' = Due /\ Text(On)' = Text(On)
         /\ (started' => receiver' \/ Coming') /\ (inbox' # << >> => receiver')
<1>1. On' = On /\ Coming' = Coming
  BY DEF ViewsOnly, On, isRunning, Coming
<1>2. Due' = Due
  BY <1>1, SMTT(30) DEF Due, ViewsOnly
<1>3. Launched' /\ Latest'
  BY <1>1 DEF Launched, Latest, Kept, Told, ViewsOnly
<1>4. Noted'
  BY <1>1, <1>2 DEF Noted, Kept, Told, ViewsOnly
<1>5. Text(On)' = Text(On)
  BY <1>1, After, Texts
<1>6. (started' => receiver' \/ Coming') /\ (inbox' # << >> => receiver')
  BY <1>1 DEF Kept, Told, Served, ViewsOnly
<1> QED
  BY <1>1, <1>2, <1>3, <1>4, <1>5, <1>6

\* A view is opened: it is answered, or shows what there is without being told.
LEMMA OpenTold ==
  ASSUME Kept, NEW v \in View, Open(v) PROVE Told'
<1>1. /\ ViewsOnly /\ sendMsg2Service("register") /\ v \notin listening /\ listening' = listening \cup {v}
      /\ news' = news /\ shown' = [shown EXCEPT ![v] = IF v = "main" /\ started THEN @ ELSE "off"]
  BY DEF Open, ViewsOnly, amvars, corevars
<1>2. /\ inbox' # << >> => inbox # << >> \/ receiver
      /\ (\E i \in 1..Len(inbox) : inbox[i] = "register") => \E i \in 1..Len(inbox') : inbox'[i] = "register"
      /\ receiver => \E i \in 1..Len(inbox') : inbox'[i] = "register"
  BY <1>1, StillWaiting DEF Kept
<1>3. /\ Launched' /\ Latest' /\ Noted' /\ On' = On /\ Coming' = Coming /\ Due' = Due /\ Text(On)' = Text(On)
      /\ (started' => receiver' \/ Coming') /\ (inbox' # << >> => receiver')
  BY <1>1, <1>2, ViewFrame
<1>4. Served'
  BY <1>1, <1>3 DEF Served, Kept, Told
<1>5. news'[v] = << >> /\ Shows(v)' = shown'[v] /\ (~started => shown'[v] = "off")
  BY <1>1 DEF Kept, Told, Served, Shows, TypeOK
<1>6. \A w \in listening : Shows(w)' = Shows(w)
  BY <1>1 DEF Shows, Kept, TypeOK
<1>7. Answering => Answering'
  BY <1>1, <1>2 DEF Answering, ViewsOnly
<1>8. Shows(v)' = Text(On)' \/ Due' \/ Answering'
  <2>1. CASE receiver
    BY <1>1, <1>2, <2>1, SMTT(30) DEF Answering, ViewsOnly
  <2>2. CASE ~receiver /\ started
    BY <1>3, <2>2, SMTT(30) DEF Kept, Told, Served, Due
  <2>3. CASE ~receiver /\ ~started
    BY <1>3, <1>5, <2>3, Deaf, Texts DEF Kept
  <2> QED
    BY <2>1, <2>2, <2>3
<1>9. Seen'
  <2>1. \A w \in listening : Shows(w)' = Text(On)' \/ Due' \/ Answering'
    BY <1>3, <1>6, <1>7 DEF Seen, Kept, Told
  <2>2. ~started' => \A w \in listening' : Shows(w)' = "off"
    BY <1>1, <1>5, <1>6 DEF Seen, Kept, Told, ViewsOnly
  <2> QED
    BY <1>1, <1>8, <2>1, <2>2 DEF Seen
<1> QED
  BY <1>3, <1>4, <1>9 DEF Told
\* A view closes, hears the first it was told, or shows "off" as there is no
\* record of the service.
LEMMA ViewTold ==
  ASSUME Kept, (\E v \in View : Close(v) \/ Hear(v)) \/ onResume PROVE Told'
<1>1. ViewsOnly /\ inbox' = inbox /\ listening' \subseteq listening
  BY DEF Close, Hear, onResume, ViewsOnly, amvars, mainvars, corevars
<1>2. /\ Launched' /\ Latest' /\ Noted' /\ On' = On /\ Coming' = Coming /\ Due' = Due /\ Text(On)' = Text(On)
      /\ (started' => receiver' \/ Coming') /\ (inbox' # << >> => receiver')
  BY <1>1, ViewFrame
<1>3. Answering' = Answering
  BY <1>1 DEF Answering, ViewsOnly
<1>4. \A v \in View \ listening' : news'[v] = << >>
  <2>1. \A v \in View \ listening : news[v] = << >>
    BY SMTT(30) DEF Kept, Told, Served
  <2>2. ASSUME NEW w \in View, Close(w) PROVE \A v \in View \ listening' : news'[v] = << >>
    BY <2>1, <2>2, SMTT(30) DEF Close, Kept, TypeOK
  <2>3. ASSUME NEW w \in View, Hear(w) PROVE \A v \in View \ listening' : news'[v] = << >>
    BY <2>1, <2>3 DEF Hear, Kept, TypeOK
  <2> QED
    BY <2>1, <2>2, <2>3 DEF onResume
<1>5. \A v \in listening' : Shows(v)' = Shows(v) \/ (~started /\ Shows(v)' = "off")
  <2>1. ASSUME NEW w \in View, Close(w) PROVE \A v \in listening' : Shows(v)' = Shows(v)
    BY <2>1, SMTT(30) DEF Close, Kept, TypeOK, Shows
  <2>2. ASSUME NEW w \in View, Hear(w) PROVE \A v \in listening' : Shows(v)' = Shows(v)
    <3>1. /\ news[w] # << >> /\ news'[w] = Tail(news[w]) /\ shown'[w] = Head(news[w])
          /\ \A v \in View : v # w => news'[v] = news[v] /\ shown'[v] = shown[v]
          /\ news[w] \in Seq(Switch)
      BY <2>2, SMTT(30) DEF Hear, Kept, TypeOK, Switch
    <3>2. /\ Len(news[w]) \in Nat /\ Len(news[w]) >= 1 /\ Head(news[w]) = news[w][1] /\ news'[w] \in Seq(Switch)
          /\ Len(news'[w]) = Len(news[w]) - 1 /\ \A i \in 1..(Len(news[w]) - 1) : news'[w][i] = news[w][i + 1]
      BY <3>1, Taken, SMTT(30)
    <3>3. CASE Len(news[w]) = 1
      <4>1. news'[w] = << >>
        BY <3>2, <3>3
      <4>2. Shows(w) = news[w][1]
        BY <3>1, <3>3 DEF Shows
      <4> QED
        BY <1>1, <3>1, <3>2, <4>1, <4>2 DEF Shows, Kept, TypeOK
    <3>4. CASE Len(news[w]) # 1
      <4>0. Len(news[w]) - 1 \in 1..(Len(news[w]) - 1) /\ Len(news'[w]) # 0
        <5>1. \A n \in Nat : n >= 1 /\ n # 1 => n - 1 \in 1..(n - 1) /\ n - 1 # 0
          OBVIOUS
        <5>2. Len(news[w]) \in Nat /\ Len(news[w]) >= 1 /\ Len(news'[w]) = Len(news[w]) - 1
          BY <3>2
        <5> QED
          BY <3>4, <5>1, <5>2, Zenon
      <4>1. news'[w] # << >> /\ Len(news[w]) - 1 \in 1..(Len(news[w]) - 1)
        BY <4>0
      <4>2. news'[w][Len(news'[w])] = news[w][Len(news[w])]
        BY <3>2, <4>1, SMTT(30)
      <4> QED
        BY <1>1, <3>1, <4>1, <4>2, Zenon DEF Shows, Kept, TypeOK
    <3> QED
      BY <3>2, <3>3, <3>4, SMTT(30)
  <2>3. ASSUME onResume PROVE \A v \in listening' : Shows(v)' = Shows(v) \/ (~started /\ Shows(v)' = "off")
    BY <2>3, SMTT(30) DEF onResume, Kept, TypeOK, Shows, Told, Seen
  <2> QED
    BY <2>1, <2>2, <2>3, SMTT(30)
<1>6. Served'
  BY <1>2, <1>4 DEF Served
<1>7. Seen'
  <2>1. ~started => ~On
    BY Deaf, Zenon DEF Kept, Owned
  <2>2. ~started => Text(On) = "off"
    BY <2>1, Texts
  <2> QED
    BY <1>1, <1>2, <1>3, <1>5, <2>2, Zenon DEF Seen, Kept, Told, ViewsOnly
<1> QED
  BY <1>2, <1>6, <1>7, SMTT(30) DEF Told

\* The service's process dies: it is started again, or the views show "off".
LEMMA DeathTold ==
  ASSUME Kept, DaemonDies PROVE Told'
<1>1. /\ ~receiver' /\ inbox' = << >> /\ ~notified' /\ requests' = IF started THEN <<"create", "start">> ELSE << >>
      /\ UNCHANGED <<pref, starting, cut, granted, started, asked, shown, listening, news>>
  BY DEF DaemonDies, uivars
<1>2. started => Coming' /\ Due'
  BY <1>1, StillComing DEF Kept, Due
<1>3. ~On' /\ Text(On)' = "off"
  BY <1>1, After
<1>4. Launched' /\ Latest'
  BY <1>1, After, ZenonT(30) DEF Launched, Latest
<1>5. Served'
  BY <1>1, <1>2 DEF Served, Kept, Told
<1>6. Noted'
  BY <1>1, <1>3 DEF Noted
<1>7. \A v : Shows(v)' = Shows(v)
  BY <1>1 DEF Shows
<1>8. Seen'
  BY <1>1, <1>2, <1>3, <1>7 DEF Seen, Kept, Told
<1> QED
  BY <1>4, <1>5, <1>6, <1>8 DEF Told

\* Every step keeps what the views are told, as long as nothing is caught.
LEMMA ToldStep ==
  ASSUME IInv, ~caught => Told, [Next]_vars PROVE ~caught' => Told'
<1>1. CASE UNCHANGED vars \/ Flush
  <2>1. UNCHANGED <<pref, starting, cut, granted, started, requests, inst, receiver, inbox, answer, core, content, launch, notified,
                    asked, shown, listening, news, caught>>
    BY <1>1, SMTT(30) DEF vars, Flush, prefvars, amvars, mainvars, corevars, uivars
  <2>2. Coming' = Coming /\ Due' = Due /\ On' = On /\ Text(On)' = Text(On) /\ Answering' = Answering
        /\ \A v : Shows(v)' = Shows(v)
    BY <2>1 DEF Coming, Due, On, isRunning, Text, Answering, Shows
  <2> QED
    BY <2>1, <2>2 DEF Told, Launched, Latest, Served, Noted, Seen
<1>2. CASE Next /\ ~Flush
  <2> SUFFICES ASSUME ~caught' PROVE Told'
    OBVIOUS
  <2>0. Kept
    <3>1. ~caught /\ TypeOK /\ IInv'
      BY <1>2, CaughtStays, OwnedStep DEF IInv
    <3> QED
      BY <3>1 DEF Kept, IInv
  <2>1. CASE onCreate \/ onDestroy
    BY <2>0, <2>1, TurnTold
  <2>2. CASE onStartCommand
    BY <2>0, <2>2, StartTold
  <2>3. CASE ReceiveStop
    BY <2>0, <2>3, StopTold DEF ReceiveStop
  <2>4. CASE ReceiveRegister \/ SendAnswer
    BY <2>0, <2>4, AnswerTold
  <2>5. CASE onRevoke
    <3>1. CASE inst # "none" /\ isRunning(inst)
      BY <2>0, <2>5, <3>1, StopTold DEF onRevoke
    <3> QED
      BY <2>0, <2>5, <3>1, RevokedTold
  <2>6. ASSUME NEW k \in Instance, CoreThread(k) PROVE Told'
    BY <2>0, <2>6, PrepareTold, TestTold, ReportTold, NotifyTold DEF CoreThread
  <2>7. ASSUME NEW c \in Config, Click(c) PROVE Told'
    BY <2>0, <2>7, ClickTold
  <2>8. ASSUME NEW v \in View, Open(v) PROVE Told'
    BY <2>0, <2>8, OpenTold
  <2>9. CASE (\E v \in View : Close(v) \/ Hear(v)) \/ onResume
    BY <2>0, <2>9, ViewTold
  <2>10. CASE Decide
    BY <2>0, <2>10, DecideTold
  <2>11. CASE DaemonDies
    BY <2>0, <2>11, DeathTold
  <2>12. CASE startV2Ray
    BY <2>0, <2>12, RequestTold
  <2>13. CASE AppDies
    BY <2>0, <2>13, AppDiesTold
  <2> QED
    BY <1>2, <2>1, <2>2, <2>3, <2>4, <2>5, <2>6, <2>7, <2>8, <2>9, <2>10, <2>11, <2>12, <2>13 DEF Next, MainThread, Click
<1> QED
  BY <1>1, <1>2, ZenonT(30)

\* At the start nothing is on, and nobody looks.
LEMMA ToldInit == Init => IInv /\ Told
<1> SUFFICES ASSUME Init PROVE IInv /\ Told
  OBVIOUS
<1>1. Owned
  BY DEF Init, Owned
<1>2. Launched /\ Latest /\ Served /\ Seen
  BY DEF Init, Launched, Latest, Served, Seen
<1>3. Noted
  BY DEF Init, Noted, On
<1> QED
  BY <1>1, <1>2, <1>3, TypeInit DEF IInv, Told

\* When nothing is on its way, every view that is seen and the notification
\* show whether the VPN is on, whatever was clicked, opened, closed, granted,
\* revoked, killed or restarted before, as long as nothing was caught half-way
\* and, for the notification, no start was cut off.
THEOREM ViewsAlwaysAgree == Spec => []ViewsAgree
<1>1. IInv /\ (~caught => Told) => ViewsAgree
  <2> SUFFICES ASSUME IInv, Told, ~caught, Quiet
               PROVE  (notified = On \/ cut) /\ \A v \in listening : shown[v] = Text(On)
    BY Zenon DEF ViewsAgree
  <2>1. ~Coming /\ ~Due
    BY DEF Quiet, Coming, Due
  <2>2. ~Answering
    BY DEF Quiet, Answering, IInv, TypeOK
  <2>3. \A v \in listening : Shows(v) = shown[v]
    BY DEF Quiet, Shows, IInv, TypeOK
  <2>4. \A v \in listening : shown[v] = Text(On)
    BY <2>1, <2>2, <2>3 DEF Told, Seen
  <2>5. On => inst \in Instance
    BY DEF On, IInv, TypeOK
  <2>6. cut \/ (notified <=> On)
    BY <2>1, <2>5 DEF Told, Noted, Quiet
  <2>7. notified \in BOOLEAN /\ On \in BOOLEAN
    BY SMTT(30) DEF IInv, TypeOK, On, isRunning
  <2> QED
    BY Zenon, <2>4, <2>6, <2>7
<1> QED
  BY <1>1, OwnedStep, ToldStep, ToldInit, PTL DEF Spec

\* When nothing is on its way, a VPN that is on has the configuration stored by
\* the last start, whoever asked for it and in whatever order starts, deaths and
\* restarts came, unless the application died between storing it and asking for
\* the start, or before it was in the file.
THEOREM AlwaysRunsLast == Spec => []RunsLast
<1>1. IInv /\ (~caught => Told) => RunsLast
  <2> SUFFICES ASSUME IInv, Told, ~caught, ~cut, Quiet, On PROVE content[inst] = pref
    BY SMTT(30) DEF RunsLast
  <2>1. ~Coming /\ ~starting
    BY DEF Quiet, Coming
  <2>2. inst \in Instance /\ core[inst] # "off"
    BY DEF On, isRunning, IInv, TypeOK
  <2> QED
    BY <2>1, <2>2 DEF Told, Latest
<1> QED
  BY <1>1, OwnedStep, ToldStep, ToldInit, PTL DEF Spec
=============================================================================
