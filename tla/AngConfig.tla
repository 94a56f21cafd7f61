------------------------------ MODULE AngConfig ------------------------------
(* The list of servers that AngConfigManager keeps: in memory, in the         *)
(* preferences, and as the configuration handed to the VPN service.  The      *)
(* threads of the application's process use it without a lock: the UI thread  *)
(* (MainActivity, ServerActivity, the tile, the widget and TaskerReceiver)    *)
(* and okhttp's threads, which run onResponse for a subscription.  The        *)
(* process can die at any step.                                               *)
(*                                                                            *)
(* A step is one access to the list, or one write of a preference.  A server  *)
(* is its guid, a time in milliseconds, and its remarks, which stand for what *)
(* the user can edit.  Servers of configType 2, which no menu makes any more, *)
(* are left out.                                                              *)
EXTENDS Integers, Sequences

CONSTANTS Net,         \* okhttp's threads
          Remarks,     \* what a server can be called
          Replies,     \* the answers of a subscription: sequences of remarks and Invalid
          Invalid,     \* an entry that importConfig turns away
          MaxServers,  \* bound: servers in the list
          MaxTime      \* bound: values of currentTimeMillis

ASSUME ConfigAssumption ==
  /\ Replies \subseteq Seq(Remarks \cup {Invalid})
  /\ Invalid \notin Remarks /\ "ui" \notin Net
  /\ MaxServers \in Nat \ {0} /\ MaxTime \in Nat \ {0}

VARIABLES vmess,    \* angConfig.vmess, position i at i + 1
          index,    \* angConfig.index
          stored,   \* the preference ANG_CONFIG, and what the file of preferences has of it
          curr,     \* PREF_CURR_CONFIG, PREF_CURR_CONFIG_GUID and PREF_CURR_CONFIG_NAME
          filed,    \* what the file has of these
          time,     \* currentTimeMillis
          pc,       \* where each thread is
          json,     \* what each is about to store
          then,     \* where each goes when it has stored it
          reply,    \* the entries that each onResponse has yet to import
          edit,     \* ServerActivity: edit_index, edit_guid; save and delete hidden or not
          overlap   \* ghost: a thread has used the list while onResponse replaced it

listvars == <<vmess, index>>
threadvars == <<pc, json, then>>
vars == <<vmess, index, stored, curr, filed, time, pc, json, then, reply, edit, overlap>>

Thread == Net \cup {"ui"}
Time == 1..MaxTime
Server == [guid : Time, remarks : Remarks]
Nothing == [guid |-> 0, remarks |-> Invalid]
Position == Nat \cup {-1}
Config == [vmess : Seq(Server), index : Position]
Stored == [now : Config, disk : Config]
NoConfig == [vmess |-> << >>, index |-> 0]
NoEdit == [index |-> -2, guid |-> 0, locked |-> "no"]

\* The servers by position, as the code counts them.
count == Len(vmess)
InRange(i) == 0 <= i /\ i <= count - 1
Current == IF InRange(index) THEN vmess[index + 1] ELSE Nothing
\* The list with or without a server.
Added(v) == Append(vmess, v)
Removed(i) == [k \in 1..(count - 1) |-> IF k <= i THEN vmess[k] ELSE vmess[k + 1]]

\* Another thread than t is at work.
Others(t) == \E o \in Thread \ {t} : pc[o] # "idle"
Go(t, l) == pc' = [pc EXCEPT ![t] = l]
\* The UI thread, idle, begins an operation.
UiTurn == pc["ui"] = "idle" /\ overlap' = (overlap \/ Others("ui"))
\* Thread t stores the list, then goes to l.
Store(t, l) == Go(t, "json") /\ then' = [then EXCEPT ![t] = l] /\ UNCHANGED json
-----------------------------------------------------------------------------
(* AngConfigManager, in either thread. *)

\* addServer for a new server, up to angConfig.vmess.add
Add(t, r) ==
  /\ vmess' = Added([guid |-> time, remarks |-> r])
  /\ Go(t, "count") /\ UNCHANGED <<index, json>>

\* addServer: the first server becomes the active one.
CountKeepsIndex(t) == pc[t] = "count" /\ Go(t, "json") /\ UNCHANGED index
Count(t) ==
  /\ pc[t] = "count" /\ Go(t, "json")
  /\ index' = IF count = 1 THEN 0 ELSE index

\* storeConfigFile: Gson().toJson, which throws when the list changes under
\* its iterator; the exception is swallowed and nothing is stored.
ToJson(t) ==
  /\ pc[t] = "json"
  /\ \/ /\ json' = [json EXCEPT ![t] = [vmess |-> vmess, index |-> index]]
        /\ Go(t, "write")
        /\ UNCHANGED then
     \/ /\ Others(t) /\ Go(t, then[t])
        /\ then' = [then EXCEPT ![t] = "idle"] /\ UNCHANGED json

\* storeConfigFile: setPrefString, which writes the file later (apply)
Write(t) ==
  /\ pc[t] = "write"
  /\ stored' = [stored EXCEPT !.now = json[t]] /\ json' = [json EXCEPT ![t] = NoConfig]
  /\ Go(t, then[t]) /\ then' = [then EXCEPT ![t] = "idle"]

Manager(t) ==
  /\ \/ Count(t) /\ UNCHANGED <<vmess, stored, json, then>>
     \/ ToJson(t) /\ UNCHANGED <<listvars, stored>>
     \/ Write(t) /\ UNCHANGED listvars
  /\ UNCHANGED <<curr, filed, time, reply, edit, overlap>>

\* genStoreV2rayConfig: nothing is written without a server in range.
GenConfig ==
  /\ pc["ui"] = "gen"
  /\ IF InRange(index) THEN curr' = [curr EXCEPT !.config = Current] /\ Go("ui", "guid")
     ELSE Go("ui", "idle") /\ UNCHANGED curr
GenGuid == pc["ui"] = "guid" /\ curr' = [curr EXCEPT !.guid = Current.guid] /\ Go("ui", "name")
GenNameForgotten == pc["ui"] = "name" /\ Go("ui", "start") /\ UNCHANGED curr
GenName == pc["ui"] = "name" /\ curr' = [curr EXCEPT !.name = Current.remarks] /\ Go("ui", "start")
\* V2RayVpnService.startV2Ray: the service may read the preferences from now on.
StartService == pc["ui"] = "start" /\ Go("ui", "idle") /\ UNCHANGED curr
genStoreV2rayConfig ==
  /\ GenConfig \/ GenGuid \/ GenName \/ StartService
  /\ UNCHANGED <<listvars, stored, filed, time, json, then, reply, edit, overlap>>
-----------------------------------------------------------------------------
(* The UI thread. *)

\* A row of the list on the screen, which shows an older list while onResponse
\* replaces it.
Row(i) == i \in 0..MaxServers - 1 /\ (InRange(i) \/ Others("ui"))

\* setActiveServer, and then what the caller does.
SetActiveUnsaved(i, l) ==
  /\ index' = IF InRange(i) THEN i ELSE index
  /\ Go("ui", l) /\ UNCHANGED <<vmess, json, then>>
setActiveServer(i, l) ==
  IF InRange(i) THEN index' = i /\ Store("ui", l) /\ UNCHANGED vmess
  ELSE Go("ui", l) /\ UNCHANGED <<listvars, json, then>>

\* A tap on a server: it becomes active, and is started if the VPN is on.
ClickServer(i, l) ==
  /\ UiTurn /\ edit = NoEdit /\ Row(i)
  /\ setActiveServer(i, l)
  /\ UNCHANGED <<stored, curr, filed, time, reply, edit>>

\* The button, the tile or the widget.
ClickStart ==
  /\ UiTurn /\ Go("ui", "gen")
  /\ UNCHANGED <<listvars, stored, curr, filed, time, json, then, reply, edit>>

\* TaskerReceiver: startVService(guid).  A guid that is not found is -1, which
\* setActiveServer turns away, and the active server is started.
getIndexViaGuid(g, i) ==
  \/ InRange(i) /\ vmess[i + 1].guid = g /\ \A j \in 1..i : vmess[j].guid # g
  \/ i = -1 /\ \A j \in 1..count : vmess[j].guid # g
TaskerStart(g) ==
  /\ UiTurn
  /\ \E i \in -1..MaxServers - 1 : getIndexViaGuid(g, i) /\ setActiveServer(i, "gen")
  /\ UNCHANGED <<stored, curr, filed, time, reply, edit>>

\* ServerActivity.onCreate and onCreateOptionsMenu, for a row or a new server
\* (-1); running is the isRunning extra.
Bound(i, running) ==
  [index |-> i, guid |-> IF i = -1 THEN 0 ELSE vmess[i + 1].guid,
   locked |-> IF running /\ i = index THEN "yes" ELSE "no"]
OpenEditor(i, running) ==
  /\ UiTurn /\ edit = NoEdit
  /\ i = -1 \/ (Row(i) /\ InRange(i))
  /\ edit' = Bound(i, running)
  /\ UNCHANGED <<listvars, stored, curr, filed, time, threadvars, reply>>
CloseEditor ==
  /\ UiTurn /\ edit # NoEdit /\ edit' = NoEdit
  /\ UNCHANGED <<listvars, stored, curr, filed, time, threadvars, reply>>

\* saveServer: addServer of a new server, or in the place of the edited one.
SaveNew(r) ==
  /\ UiTurn /\ edit.index = -1 /\ count < MaxServers
  /\ Add("ui", r) /\ then' = [then EXCEPT !["ui"] = "idle"]
  /\ edit' = NoEdit
  /\ UNCHANGED <<stored, curr, filed, time, reply>>
SaveEdit(r) ==
  /\ UiTurn /\ edit.index >= 0 /\ edit.locked = "no"
  /\ IF InRange(edit.index)
     THEN /\ vmess' = [vmess EXCEPT ![edit.index + 1] = [guid |-> edit.guid, remarks |-> r]]
          /\ Store("ui", "idle") /\ edit' = NoEdit
     ELSE UNCHANGED <<vmess, threadvars, edit>>
  /\ UNCHANGED <<index, stored, curr, filed, time, reply>>

\* removeServer: the first server becomes active in place of a removed one,
\* and the active one keeps its place among the others.
RemoveKeepsIndex ==
  /\ UiTurn /\ edit.index >= 0 /\ edit.locked = "no" /\ InRange(edit.index)
  /\ vmess' = Removed(edit.index)
  /\ index' = IF index = edit.index THEN IF count > 1 THEN 0 ELSE -1 ELSE index
  /\ Store("ui", "idle") /\ edit' = NoEdit
  /\ UNCHANGED <<stored, curr, filed, time, reply>>
RemoveShifts ==
  /\ UiTurn /\ edit.index >= 0 /\ edit.locked = "no" /\ InRange(edit.index)
  /\ vmess' = Removed(edit.index) /\ index' = index - 1
  /\ Store("ui", "idle") /\ edit' = NoEdit
  /\ UNCHANGED <<stored, curr, filed, time, reply>>
RemoveStays ==
  /\ UiTurn /\ edit.index >= 0 /\ edit.locked = "no" /\ InRange(edit.index)
  /\ vmess' = Removed(edit.index)
  /\ index' = IF index = edit.index THEN IF count > 1 THEN 0 ELSE -1
              ELSE IF edit.index < index THEN index - 1 ELSE index
  /\ Store("ui", "idle")
  /\ UNCHANGED <<stored, curr, filed, time, reply, edit>>
removeServer ==
  /\ UiTurn /\ edit.index >= 0 /\ edit.locked = "no"
  /\ IF InRange(edit.index)
     THEN /\ vmess' = Removed(edit.index)
          /\ index' = IF index = edit.index THEN IF count > 1 THEN 0 ELSE -1
                      ELSE IF edit.index < index THEN index - 1 ELSE index
          /\ Store("ui", "idle") /\ edit' = NoEdit
     ELSE UNCHANGED <<listvars, threadvars, edit>>
  /\ UNCHANGED <<stored, curr, filed, time, reply>>

\* onActivityResult: importConfig of a scanned server.
Scan(r) ==
  /\ UiTurn /\ edit = NoEdit /\ count < MaxServers
  /\ Add("ui", r) /\ then' = [then EXCEPT !["ui"] = "idle"]
  /\ UNCHANGED <<stored, curr, filed, time, reply, edit>>
-----------------------------------------------------------------------------
(* okhttp's threads: onResponse. *)
Respond(n) ==
  /\ pc[n] = "idle" /\ Go(n, "clear")
  /\ UNCHANGED <<listvars, stored, curr, filed, time, json, then, reply, edit, overlap>>

\* The entries of the answer, which matter from here on, are r.
Clear(n, r) ==
  /\ pc[n] = "clear"
  /\ reply' = [reply EXCEPT ![n] = r]
  /\ vmess' = << >> /\ Go(n, "import")
  /\ overlap' = (overlap \/ Others(n) \/ edit # NoEdit)
  /\ UNCHANGED <<index, stored, curr, filed, time, json, then, edit>>

\* importConfigNoToast of one entry.
Import(n) ==
  /\ pc[n] = "import" /\ reply[n] # << >>
  /\ reply' = [reply EXCEPT ![n] = Tail(reply[n])]
  /\ IF Head(reply[n]) = Invalid THEN UNCHANGED <<listvars, threadvars>>
     ELSE /\ count < MaxServers
          /\ Add(n, Head(reply[n])) /\ then' = [then EXCEPT ![n] = "import"]
  /\ UNCHANGED <<stored, curr, filed, time, edit, overlap>>

\* The last runOnUiThread: the list is shown anew and, unless the VPN is on,
\* the button is clicked.
Finished(n, l) ==
  /\ pc[n] = "import" /\ reply[n] = << >> /\ pc["ui"] = "idle"
  /\ pc' = [pc EXCEPT ![n] = "idle", !["ui"] = l]
  /\ overlap' = (overlap \/ Others(n))
  /\ UNCHANGED <<listvars, stored, curr, filed, time, json, then, reply, edit>>
-----------------------------------------------------------------------------
(* The process and the clock. *)

\* The process dies, at the user's wish or by an exception nobody catches (a
\* row or an editor whose position is gone), and loadConfig reads what was in
\* the file.  ServerActivity is opened anew for its position, or is gone.
Dies ==
  /\ vmess' = stored.disk.vmess /\ index' = stored.disk.index
  /\ stored' = [stored EXCEPT !.now = stored.disk] /\ curr' = filed
  /\ pc' = [t \in Thread |-> "idle"] /\ then' = [t \in Thread |-> "idle"]
  /\ json' = [t \in Thread |-> NoConfig] /\ reply' = [n \in Net |-> << >>]
  /\ edit' \in {NoEdit} \cup
       {[index |-> i, guid |-> IF i = -1 THEN 0 ELSE vmess'[i + 1].guid, locked |-> edit.locked]
          : i \in {j \in {edit.index} : -1 <= j /\ j < Len(vmess')}}
  /\ UNCHANGED <<filed, time, overlap>>

\* The preferences reach the file.
Flush ==
  /\ stored' = [stored EXCEPT !.disk = stored.now] /\ filed' = curr
  /\ UNCHANGED <<listvars, curr, time, threadvars, reply, edit, overlap>>

Tick == time < MaxTime /\ time' = time + 1
        /\ UNCHANGED <<listvars, stored, curr, filed, threadvars, reply, edit, overlap>>

Init ==
  /\ vmess = << >> /\ index = 0 /\ stored = [now |-> NoConfig, disk |-> NoConfig]
  /\ curr = [config |-> Nothing, guid |-> 0, name |-> Invalid] /\ filed = curr
  /\ time = 1
  /\ pc = [t \in Thread |-> "idle"] /\ then = [t \in Thread |-> "idle"]
  /\ json = [t \in Thread |-> NoConfig]
  /\ reply = [n \in Net |-> << >>] /\ edit = NoEdit /\ overlap = FALSE

Ui ==
  \/ \E i \in 0..MaxServers - 1, l \in {"idle", "gen"} : ClickServer(i, l)
  \/ ClickStart \/ (\E g \in Time : TaskerStart(g))
  \/ \E i \in -1..MaxServers - 1, running \in BOOLEAN : OpenEditor(i, running)
  \/ CloseEditor \/ removeServer
  \/ \E r \in Remarks : SaveNew(r) \/ SaveEdit(r) \/ Scan(r)
  \/ genStoreV2rayConfig

onResponse(n) ==
  \/ Respond(n) \/ (\E r \in Replies : Clear(n, r))
  \/ Import(n) \/ (\E l \in {"idle", "gen"} : Finished(n, l))

Next == Ui \/ (\E n \in Net : onResponse(n)) \/ (\E t \in Thread : Manager(t)) \/ Dies \/ Flush \/ Tick

Spec == Init /\ [][Next]_vars
-----------------------------------------------------------------------------
(* Properties. *)

Curr == [config : Server \cup {Nothing}, guid : 0..MaxTime, name : Remarks \cup {Invalid}]
Edit == [index : Position \cup {-2}, guid : 0..MaxTime, locked : {"yes", "no"}]
Label == {"idle", "count", "json", "write", "gen", "guid", "name", "start", "clear", "import"}

\* Every variable has its type.
TypeOK ==
  /\ vmess \in Seq(Server) /\ index \in Position
  /\ stored \in Stored /\ curr \in Curr /\ filed \in Curr /\ time \in Time
  /\ pc \in [Thread -> Label] /\ json \in [Thread -> Config]
  /\ then \in [Thread -> {"idle", "gen", "import"}]
  /\ reply \in [Net -> Seq(Remarks \cup {Invalid})]
  /\ edit \in Edit /\ (edit.index >= 0 => edit.guid \in Time) /\ overlap \in BOOLEAN

Idle == \A t \in Thread : pc[t] = "idle"

\* Unless a subscription was answered in the middle of something, a list with
\* servers has an active one, at rest and stored: addServer, removeServer,
\* setActiveServer and onResponse keep angConfig.index in range between them,
\* and so does a death between any two of their steps.
ActiveInRange ==
  ~overlap =>
    /\ Idle /\ vmess # << >> => InRange(index)
    /\ \A c \in {stored.now, stored.disk} : c.vmess # << >> => c.index \in 0..(Len(c.vmess) - 1)

\* At rest a list with servers is the stored one: every operation that changes
\* the list or the active server ends in storeConfigFile.
NothingUnsaved ==
  ~overlap /\ Idle /\ vmess # << >> => stored.now = [vmess |-> vmess, index |-> index]

\* The list is always stored at rest, an empty one too: a subscription's answer
\* replaces the servers for good (onResponse: store, make the list, activate).
AnswerIsStored ==
  ~overlap /\ Idle => stored.now = [vmess |-> vmess, index |-> index]

\* The server being edited is still at the position ServerActivity got, so that
\* saving or deleting hits it: neither another start nor a death moves it.
EditorFollows ==
  ~overlap /\ edit.index >= 0 =>
    InRange(edit.index) /\ vmess[edit.index + 1].guid = edit.guid

\* When the service is started, the three preferences it reads are those of one
\* server, the active one.
StartsActive ==
  ~overlap /\ pc["ui"] = "start" =>
    /\ curr.config = Current /\ Current # Nothing
    /\ curr.guid = Current.guid /\ curr.name = Current.remarks

\* Adding, editing or removing a server leaves another one that is active
\* active, although its position may change.
ActiveStays ==
  [][(\/ \E r \in Remarks : SaveNew(r) \/ SaveEdit(r) \/ Scan(r)
      \/ removeServer /\ edit.index # index)
     => (~overlap /\ InRange(index) => Current'.guid = Current.guid)]_vars
=============================================================================
