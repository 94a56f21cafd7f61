----------------------------- MODULE VpnService -----------------------------
(* V2RayVpnService, which runs in a process of its own, and the views that   *)
(* show and control it from the application's process: MainActivity's button *)
(* and the tile.  The widget, Tasker and the notification control it too.    *)
(* Starts are requests to Android's ActivityManager; everything else is a    *)
(* broadcast.                                                                *)
(*                                                                           *)
(* Android and the core (libv2ray.aar) are external.  A start creates the    *)
(* service if there is no record of it; stopSelf ends the record at once and *)
(* destroys the instance after what was requested before.  A broadcast goes  *)
(* to the receivers registered when it is sent, to each in order.  runLoop   *)
(* returns at once and the core's own thread calls prepare(); stopLoop takes *)
(* effect before it returns; isRunning is false while the core comes up.     *)
(*                                                                           *)
(* MSG_STATE_RESTART and MSG_STATE_RESTART_SOFT, which nothing sends, are    *)
(* left out.                                                                 *)
EXTENDS Naturals, Sequences

CONSTANTS Config,      \* the configurations genStoreV2rayConfig writes
          Instance,    \* bound: instances of the service with a core at a time
          MaxWaiting   \* bound: requests or broadcasts waiting

ASSUME ServiceAssumption == "none" \notin Config /\ "none" \notin Instance /\ MaxWaiting \in Nat

VARIABLES pref,      \* PREF_CURR_CONFIG, as the application's process has it in memory
          file,      \* the same in the preferences' file
          starting,  \* genStoreV2rayConfig has stored one, startV2Ray comes next
          granted,   \* VpnService.prepare() == null
          started,   \* ActivityManager has a record of the service
          requests,  \* what it has yet to make the service's main thread do
          inst,      \* the instance there is, or "none"
          receiver,  \* whether its mMsgReceive is registered
          inbox,     \* the broadcasts mMsgReceive has yet to get
          answer,    \* the main thread's answer to a client, about to be sent
          core,      \* of an instance's v2rayPoint: "off", "launching" or "on"
          content,   \* its configureFileContent
          launch,    \* where the core's thread is in prepare()
          notified,  \* the notification is shown
          asked,     \* the permission: "no", "dialog" shown or "accepted" in it
          shown,     \* fabChecked; the tile's state
          listening, \* the views that have registered their receivers
          news,      \* the broadcasts each has yet to get
          caught,    \* ghost: a stop, a start or an answer met a core coming up,
                     \* or a start an instance about to be destroyed
          cut        \* ghost: the application died in the midst of a start, or before
                     \* what it stored was in the file, and none was started since

prefvars == <<pref, file, starting, cut>>
uivars == <<asked, shown, listening, news>>
amvars == <<started, requests>>
mainvars == <<inst, receiver, inbox, answer>>
corevars == <<core, content, launch>>
vars == <<prefvars, granted, amvars, mainvars, corevars, notified, uivars, caught>>

View == {"main", "tile"}

isRunning(k) == core[k] = "on"
\* The VPN is on: what the service answers to MSG_REGISTER_CLIENT.
On == inst # "none" /\ isRunning(inst) /\ granted
Text(b) == IF b THEN "on" ELSE "off"
\* The core of the instance is coming up.
Launching == inst # "none" /\ launch[inst] # "none"

\* The instance will be destroyed after what comes first.
Dying == \E i \in 2..Len(requests) : requests[i] = "destroy"

\* sendMsg2UI, of a message that means the VPN is on or off; sendMsg2Service.
sendMsg2UI(msgs) ==
  news' = [v \in View |-> IF v \in listening THEN news[v] \o msgs ELSE news[v]]
sendMsg2Service(what) == inbox' = IF receiver THEN Append(inbox, what) ELSE inbox
Room == Len(requests) < MaxWaiting /\ Len(inbox) < MaxWaiting /\ \A v \in View : Len(news[v]) < MaxWaiting
-----------------------------------------------------------------------------
(* V2RayVpnService: the main thread. *)

\* v2rayPoint is made with the instance.
onCreate ==
  /\ answer = "none" /\ requests # << >> /\ Head(requests) = "create"
  /\ requests' = Tail(requests)
  /\ \E k \in Instance : /\ core[k] = "off" /\ launch[k] = "none" /\ inst' = k
                        /\ content' = [content EXCEPT ![k] = "none"]
  /\ receiver' = FALSE /\ inbox' = << >>
  /\ UNCHANGED <<prefvars, granted, started, answer, core, launch, notified, uivars, caught>>

\* stopV2Ray(false) and startV2ray(true), with what is put into
\* configureFileContent and what becomes of the receiver.
Restart(c, r) ==
  /\ answer = "none" /\ requests # << >> /\ Head(requests) = "start" /\ inst # "none"
  /\ requests' = Tail(requests)
  /\ sendMsg2UI(<<"off">>) /\ notified' = FALSE
  /\ receiver' = r
  /\ content' = [content EXCEPT ![inst] = c]
  /\ core' = [core EXCEPT ![inst] = "launching"]
  /\ launch' = [launch EXCEPT ![inst] = IF Launching THEN @ ELSE "prepare"]
  /\ caught' = (caught \/ Launching \/ Dying)
  /\ UNCHANGED <<prefvars, granted, started, inst, inbox, answer, asked, shown, listening>>
StartKeepsContent == Restart(IF content[inst] = "none" THEN pref ELSE content[inst], TRUE)
\* onStartCommand: restartV2Ray
onStartCommand == Restart(pref, TRUE)

\* The core is left as c, the views are told msgs, and the service ends.
End(c, msgs) ==
  /\ core' = [core EXCEPT ![inst] = c]
  /\ sendMsg2UI(msgs) /\ notified' = FALSE
  /\ receiver' = FALSE /\ inbox' = << >>
  /\ started' = FALSE /\ requests' = IF started THEN Append(requests, "destroy") ELSE requests
  /\ caught' = (caught \/ Launching)
StopSilently == End(IF isRunning(inst) THEN "off" ELSE core[inst], << >>)
StopLeavesCore == End(core[inst], <<"off">>)
\* stopV2Ray, with stopSelf; a core that is coming up is not running yet.
stopV2Ray == End(IF isRunning(inst) THEN "off" ELSE core[inst], <<"off">>)

\* ReceiveMessageHandler.onReceive: MSG_STATE_STOP
ReceiveStop ==
  /\ answer = "none" /\ inbox # << >> /\ Head(inbox) = "stop"
  /\ stopV2Ray
  /\ UNCHANGED <<prefvars, granted, inst, answer, content, launch, asked, shown, listening>>

\* MSG_REGISTER_CLIENT: the service finds out whether it runs, and says so.
AnswerWithState ==
  /\ answer = "none" /\ inbox # << >> /\ Head(inbox) = "register"
  /\ inbox' = Tail(inbox) /\ answer' = core[inst]
  /\ UNCHANGED <<prefvars, granted, amvars, inst, receiver, corevars, notified, uivars, caught>>
ReceiveRegister ==
  /\ answer = "none" /\ inbox # << >> /\ Head(inbox) = "register"
  /\ inbox' = Tail(inbox) /\ answer' = Text(On)
  /\ UNCHANGED <<prefvars, granted, amvars, inst, receiver, corevars, notified, uivars, caught>>
SendAnswer ==
  /\ answer # "none" /\ answer' = "none"
  /\ sendMsg2UI(<<answer>>)
  /\ caught' = (caught \/ answer # Text(On))
  /\ UNCHANGED <<prefvars, granted, amvars, inst, receiver, inbox, corevars, notified, asked, shown, listening>>

\* The instance is gone; a core that runs is not stopped.
onDestroy ==
  /\ answer = "none" /\ requests # << >> /\ Head(requests) = "destroy"
  /\ requests' = Tail(requests)
  /\ inst' = "none" /\ receiver' = FALSE /\ inbox' = << >> /\ notified' = FALSE
  /\ UNCHANGED <<prefvars, granted, started, answer, corevars, uivars, caught>>

\* Another VPN takes over: Android calls onRevoke on a thread of its own, if the
\* interface of setup() is there, which is as long as the core runs.
onRevoke ==
  /\ granted /\ granted' = FALSE
  /\ IF inst # "none" /\ isRunning(inst) THEN stopV2Ray
     ELSE UNCHANGED <<core, news, notified, receiver, inbox, amvars, caught>>
  /\ UNCHANGED <<prefvars, inst, answer, content, launch, asked, shown, listening>>

MainThread == onCreate \/ onStartCommand \/ ReceiveStop \/ ReceiveRegister \/ SendAnswer \/ onDestroy
-----------------------------------------------------------------------------
(* The core's thread: vpnCheckIsReady. *)

\* VpnService.prepare, and vpnSupportReady, after which the core runs or not.
Prepare(k) ==
  /\ launch[k] = "prepare"
  /\ \E c \in {"on", "off"} : core' = [core EXCEPT ![k] = c]
  /\ launch' = [launch EXCEPT ![k] = IF granted THEN "test" ELSE "none"]
  /\ UNCHANGED <<prefvars, granted, amvars, mainvars, content, notified, uivars, caught>>

TestRunning(k) ==
  /\ launch[k] = "test"
  /\ launch' = [launch EXCEPT ![k] = IF isRunning(k) THEN "success" ELSE "failure"]
  /\ UNCHANGED <<prefvars, granted, amvars, mainvars, core, content, notified, uivars, caught>>

\* MSG_STATE_START_SUCCESS or MSG_STATE_START_FAILURE
Report(k) ==
  /\ launch[k] \in {"success", "failure"}
  /\ sendMsg2UI(<<Text(launch[k] = "success")>>)
  /\ launch' = [launch EXCEPT ![k] = IF @ = "success" THEN "notify" ELSE "none"]
  /\ UNCHANGED <<prefvars, granted, amvars, mainvars, core, content, notified, asked, shown, listening, caught>>

showNotification(k) ==
  /\ launch[k] = "notify" /\ launch' = [launch EXCEPT ![k] = "none"]
  /\ notified' = (notified \/ k = inst)
  /\ UNCHANGED <<prefvars, granted, amvars, mainvars, core, content, uivars, caught>>

CoreThread(k) == Prepare(k) \/ TestRunning(k) \/ Report(k) \/ showNotification(k)
-----------------------------------------------------------------------------
(* The application's process. *)

\* Utils.startVService: genStoreV2rayConfig.  The process's main thread then goes
\* on with startV2Ray and does nothing else in between.
startVService(c) ==
  /\ ~starting /\ starting' = TRUE
  /\ pref' = c
  /\ UNCHANGED <<file, cut, amvars, inbox>>
stopVService == sendMsg2Service("stop") /\ UNCHANGED <<prefvars, amvars>>

\* startV2Ray: startService
startV2Ray ==
  /\ starting /\ starting' = FALSE
  /\ started' = TRUE
  /\ requests' = requests \o (IF started THEN <<"start">> ELSE <<"create", "start">>)
  /\ cut' = FALSE
  /\ UNCHANGED <<pref, file, granted, mainvars, corevars, notified, uivars, caught>>

\* apply() reaches the file some time after it has returned.
Flush ==
  /\ file # pref /\ file' = pref
  /\ UNCHANGED <<pref, starting, cut, granted, amvars, mainvars, corevars, notified, uivars, caught>>

\* The button, while Android's dialog is not in front of it; the permission is
\* asked for when it is missing.
ClickFab(c) ==
  /\ Room /\ ~starting /\ "main" \in listening /\ asked = "no"
  /\ \/ shown["main"] = "on" /\ stopVService /\ UNCHANGED asked
     \/ shown["main"] = "off" /\ granted /\ startVService(c) /\ UNCHANGED asked
     \/ shown["main"] = "off" /\ ~granted /\ asked' = "dialog" /\ UNCHANGED <<prefvars, amvars, inbox>>
  /\ UNCHANGED <<granted, inst, receiver, answer, corevars, notified, shown, listening, news, caught>>

\* The user accepts or declines.
Decide ==
  /\ asked = "dialog"
  /\ \/ granted' = TRUE /\ asked' = "accepted"
     \/ granted' = granted /\ asked' = "no"
  /\ UNCHANGED <<prefvars, amvars, mainvars, corevars, notified, shown, listening, news, caught>>

\* RESULT_OK for REQUEST_CODE_VPN_PREPARE
onActivityResult(c) ==
  /\ Room /\ asked = "accepted" /\ asked' = "no" /\ startVService(c)
  /\ UNCHANGED <<granted, inst, receiver, answer, corevars, notified, shown, listening, news, caught>>

\* The tile does nothing without the permission.
ClickTile(c) ==
  /\ Room /\ ~starting /\ "tile" \in listening
  /\ IF shown["tile"] = "on" THEN stopVService ELSE granted /\ startVService(c)
  /\ UNCHANGED <<granted, inst, receiver, answer, corevars, notified, uivars, caught>>

\* The widget goes by isServiceRun.
ClickWidget(c) ==
  /\ Room /\ ~starting /\ IF started THEN stopVService ELSE startVService(c)
  /\ UNCHANGED <<granted, inst, receiver, answer, corevars, notified, uivars, caught>>

\* Tasker starts or stops, and so does a tap on a server or on the notification.
Tasker(c) ==
  /\ Room /\ (startVService(c) \/ stopVService)
  /\ UNCHANGED <<granted, inst, receiver, answer, corevars, notified, uivars, caught>>

\* MainActivity.onStart and onResume; onStartListening
Open(v) ==
  /\ Room /\ ~starting /\ v \notin listening /\ listening' = listening \cup {v}
  /\ shown' = [shown EXCEPT ![v] = IF v = "main" /\ started THEN @ ELSE "off"]
  /\ sendMsg2Service("register")
  /\ UNCHANGED <<prefvars, granted, amvars, inst, receiver, answer, corevars, notified, asked, news, caught>>

\* onStop; onStopListening.  What was on its way is not received any more.
Close(v) ==
  /\ ~starting /\ v \in listening /\ listening' = listening \ {v}
  /\ news' = [news EXCEPT ![v] = << >>]
  /\ UNCHANGED <<prefvars, granted, amvars, mainvars, corevars, notified, asked, shown, caught>>

\* MainActivity.onResume alone
onResume ==
  /\ ~starting /\ "main" \in listening /\ ~started
  /\ shown' = [shown EXCEPT !["main"] = "off"]
  /\ UNCHANGED <<prefvars, granted, amvars, mainvars, corevars, notified, asked, listening, news, caught>>

\* ReceiveMessageHandler.onReceive of a view
Hear(v) ==
  /\ ~starting /\ v \in listening /\ news[v] # << >>
  /\ shown' = [shown EXCEPT ![v] = Head(news[v])]
  /\ news' = [news EXCEPT ![v] = Tail(news[v])]
  /\ UNCHANGED <<prefvars, granted, amvars, mainvars, corevars, notified, asked, listening, caught>>

\* The application's process dies, and with it the views, a start it is about to
\* ask for, and a stored configuration that is not in the file yet.
AppDies ==
  /\ pref' = file /\ starting' = FALSE
  /\ cut' = (cut \/ starting \/ pref # file)
  /\ shown' = [v \in View |-> "off"] /\ listening' = {} /\ news' = [v \in View |-> << >>]
  /\ UNCHANGED <<file, granted, amvars, mainvars, corevars, notified, asked, caught>>
-----------------------------------------------------------------------------
\* The service's process dies with its cores; Android starts the service again
\* (START_STICKY) if it has a record of it.
DaemonDies ==
  /\ Room /\ inst # "none"
  /\ inst' = "none" /\ receiver' = FALSE /\ inbox' = << >> /\ answer' = "none"
  /\ core' = [k \in Instance |-> "off"] /\ content' = [k \in Instance |-> "none"]
  /\ launch' = [k \in Instance |-> "none"] /\ notified' = FALSE
  /\ requests' = IF started THEN <<"create", "start">> ELSE << >>
  /\ UNCHANGED <<prefvars, granted, started, uivars, caught>>

Init ==
  /\ pref \in Config /\ file = pref /\ starting = FALSE /\ cut = FALSE
  /\ granted \in BOOLEAN /\ started = FALSE /\ requests = << >>
  /\ inst = "none" /\ receiver = FALSE /\ inbox = << >> /\ answer = "none"
  /\ core = [k \in Instance |-> "off"] /\ content = [k \in Instance |-> "none"]
  /\ launch = [k \in Instance |-> "none"] /\ notified = FALSE
  /\ asked = "no" /\ shown = [v \in View |-> "off"] /\ listening = {} /\ news = [v \in View |-> << >>]
  /\ caught = FALSE

Next ==
  \/ MainThread \/ onRevoke \/ (\E k \in Instance : CoreThread(k))
  \/ \E c \in Config : ClickFab(c) \/ onActivityResult(c) \/ ClickTile(c) \/ ClickWidget(c) \/ Tasker(c)
  \/ \E v \in View : Open(v) \/ Close(v) \/ Hear(v)
  \/ Decide \/ startV2Ray \/ Flush \/ onResume \/ AppDies \/ DaemonDies

Spec == Init /\ [][Next]_vars
-----------------------------------------------------------------------------
(* Properties. *)

\* Every variable has its type.
TypeOK ==
  /\ pref \in Config /\ file \in Config /\ starting \in BOOLEAN /\ cut \in BOOLEAN
  /\ granted \in BOOLEAN /\ started \in BOOLEAN
  /\ requests \in Seq({"create", "start", "destroy"})
  /\ inst \in Instance \cup {"none"} /\ receiver \in BOOLEAN
  /\ inbox \in Seq({"register", "stop"}) /\ answer \in {"none", "on", "off"}
  /\ core \in [Instance -> {"off", "launching", "on"}]
  /\ content \in [Instance -> Config \cup {"none"}]
  /\ launch \in [Instance -> {"none", "prepare", "test", "success", "failure", "notify"}]
  /\ notified \in BOOLEAN /\ asked \in {"no", "dialog", "accepted"}
  /\ shown \in [View -> {"on", "off"}] /\ listening \subseteq View
  /\ news \in [View -> Seq({"on", "off"})] /\ caught \in BOOLEAN

\* Nothing is on its way.
Quiet ==
  /\ requests = << >> /\ inbox = << >> /\ answer = "none" /\ asked # "accepted" /\ ~starting
  /\ \A k \in Instance : launch[k] = "none"
  /\ \A v \in View : news[v] = << >>

\* A core that runs can be stopped: it is that of the instance there is, and
\* that instance listens to stops.  Only a stop or a start that meets a core
\* coming up (isRunning is false then) leaves one behind.
Stoppable ==
  ~caught => \A k \in Instance : core[k] # "off" => k = inst /\ receiver

\* When nothing is on its way, a view that is seen shows whether the VPN is on,
\* and so does the notification, unless the start that would show it was cut off.
ViewsAgree ==
  ~caught /\ Quiet => /\ notified = On \/ cut
                     /\ \A v \in listening : shown[v] = Text(On)

\* When nothing is on its way, the core that runs has the configuration of the
\* last start, whoever asked for it; also when the service read it between
\* genStoreV2rayConfig and startV2Ray of another start, or died and came back.
\* Only the application's death in the midst of a start, or before apply() has
\* reached the file, leaves a core with another.
RunsLast ==
  ~caught /\ ~cut /\ Quiet /\ On => content[inst] = pref
=============================================================================
