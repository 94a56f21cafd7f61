--------------------------- MODULE AngConfigProofs ---------------------------
(* Proofs about AngConfig: its types, and what holds unless a subscription is  *)
(* answered in the middle of something: the active server stays in range and   *)
(* active, the editor's server keeps its place, the service starts the active  *)
(* one, and the list is stored.                                                *)
EXTENDS AngConfig, TLAPS

USE DEF listvars, threadvars

\* A server made of a time and of remarks is one, and so is none of them.
LEMMA ServerTyped ==
  /\ \A g \in Time, r \in Remarks : [guid |-> g, remarks |-> r] \in Server
  /\ \A v \in Server : v.guid \in Time /\ v.remarks \in Remarks
BY DEF Server

\* A server can be added to a list.
LEMMA AddedTyped ==
  ASSUME vmess \in Seq(Server), NEW v \in Server
  PROVE  Added(v) \in Seq(Server) /\ Len(Added(v)) = count + 1
BY DEF Added, count

\* A server in range can be removed from a list.
LEMMA RemovedTyped ==
  ASSUME vmess \in Seq(Server), NEW i \in Int, InRange(i)
  PROVE  Removed(i) \in Seq(Server) /\ Len(Removed(i)) = count - 1
<1>1. count \in Nat /\ count >= 1 /\ \A k \in 1..count : vmess[k] \in Server
  BY DEF count, InRange
<1>2. count - 1 \in Nat /\ \A k \in 1..(count - 1) : (IF k <= i THEN vmess[k] ELSE vmess[k + 1]) \in Server
  BY <1>1
<1> QED
  BY <1>2 DEF Removed

\* What is stored is a list and the index.
LEMMA ConfigTyped ==
  /\ \A v \in Seq(Server), i \in Position :
       /\ [vmess |-> v, index |-> i] \in Config
       /\ [vmess |-> v, index |-> i].vmess = v /\ [vmess |-> v, index |-> i].index = i
  /\ \A c \in Config : c.vmess \in Seq(Server) /\ c.index \in Position
  /\ NoConfig \in Config /\ NoConfig.vmess = << >> /\ NoConfig.index = 0
BY DEF Config, Position, NoConfig

\* The preference and the file.
LEMMA StoredTyped ==
  ASSUME NEW s \in Stored
  PROVE  /\ s.now \in Config /\ s.disk \in Config
         /\ \A c \in Config : /\ [s EXCEPT !.now = c] \in Stored /\ [s EXCEPT !.disk = c] \in Stored
                             /\ [s EXCEPT !.now = c].now = c /\ [s EXCEPT !.now = c].disk = s.disk
                             /\ [s EXCEPT !.disk = c].disk = c /\ [s EXCEPT !.disk = c].now = s.now
BY DEF Stored

\* The server in use is a server, or none.
LEMMA CurrentTyped ==
  ASSUME vmess \in Seq(Server), index \in Position
  PROVE  /\ Current \in Server \cup {Nothing}
         /\ Current.guid \in 0..MaxTime /\ Current.remarks \in Remarks \cup {Invalid}
<1>1. CASE InRange(index)
  <2>1. index + 1 \in 1..Len(vmess)
    BY <1>1 DEF InRange, count, Position
  <2>2. Current \in Server
    BY <1>1, <2>1 DEF Current
  <2> QED
    BY <2>2, ServerTyped DEF Time
<1>2. CASE ~InRange(index)
  BY <1>2, ConfigAssumption DEF Current, Nothing
<1> QED
  BY <1>1, <1>2

\* Where the threads go, and what they hold.
ThreadsOK == pc \in [Thread -> Label] /\ json \in [Thread -> Config]
             /\ then \in [Thread -> {"idle", "gen", "import"}]

EditOK == edit \in Edit /\ (edit.index >= 0 => edit.guid \in Time)

\* A thread that goes somewhere, and one that stores the list first.
LEMMA GoTyped ==
  ASSUME NEW t \in Thread, NEW l \in Label, pc \in [Thread -> Label], Go(t, l)
  PROVE  pc' \in [Thread -> Label]
BY DEF Go
LEMMA StoreTyped ==
  ASSUME NEW t \in Thread, NEW l \in {"idle", "gen", "import"}, ThreadsOK, Store(t, l)
  PROVE  ThreadsOK'
<1>1. pc' \in [Thread -> Label]
  BY GoTyped DEF Store, ThreadsOK, Label
<1> QED
  BY <1>1, Zenon DEF Store, ThreadsOK

\* A server that becomes active does so in range.
LEMMA SetActiveTyped ==
  ASSUME TypeOK, NEW i \in Int, NEW l \in {"idle", "gen"}, setActiveServer(i, l)
  PROVE  ThreadsOK' /\ index' \in Position /\ vmess' = vmess
<1>1. "ui" \in Thread /\ ThreadsOK /\ l \in Label
  BY DEF Thread, ThreadsOK, TypeOK, Label
<1>2. CASE InRange(i)
  BY <1>1, <1>2, StoreTyped DEF setActiveServer, InRange, Position
<1>3. CASE ~InRange(i)
  BY <1>1, <1>3, GoTyped DEF setActiveServer, ThreadsOK, TypeOK
<1> QED
  BY <1>2, <1>3

\* No editor.
LEMMA NoEditTyped == NoEdit \in Edit /\ NoEdit.index = -2
BY ConfigAssumption DEF NoEdit, Edit

\* A server in a server's place.
LEMMA PutTyped ==
  ASSUME vmess \in Seq(Server), NEW v \in Server, NEW i
  PROVE  [vmess EXCEPT ![i] = v] \in Seq(Server) /\ Len([vmess EXCEPT ![i] = v]) = Len(vmess)
<1> DEFINE s == [vmess EXCEPT ![i] = v]
<1>1. vmess \in [1..Len(vmess) -> Server] /\ Len(vmess) \in Nat
  OBVIOUS
<1>2. s \in [1..Len(vmess) -> Server]
  BY <1>1, Zenon
<1> HIDE DEF s
<1>3. s \in Seq(Server) /\ Len(s) = Len(vmess)
  BY <1>1, <1>2
<1> QED
  BY <1>3 DEF s

\* A new server, from either thread.
LEMMA AddTyped ==
  ASSUME TypeOK, NEW t \in Thread, NEW r \in Remarks, Add(t, r), NEW l \in {"idle", "import"},
         then' = [then EXCEPT ![t] = l]
  PROVE  ThreadsOK' /\ vmess' \in Seq(Server) /\ Len(vmess') = count + 1 /\ index' = index
<1>1. [guid |-> time, remarks |-> r] \in Server
  BY ServerTyped DEF TypeOK
<1>2. vmess' \in Seq(Server) /\ Len(vmess') = count + 1
  BY <1>1, AddedTyped DEF Add, TypeOK
<1>3. pc' \in [Thread -> Label]
  BY GoTyped DEF Add, TypeOK, Label
<1> QED
  BY <1>2, <1>3, Zenon DEF Add, TypeOK, ThreadsOK

\* What a type of a UI thread's operation needs.
LEMMA UiTyped ==
  ASSUME TypeOK, UiTurn, vmess' \in Seq(Server), index' \in Position, ThreadsOK', EditOK',
         UNCHANGED <<stored, curr, filed, time, reply>>
  PROVE  TypeOK'
<1>1. overlap' \in BOOLEAN
  BY Zenon DEF UiTurn
<1> QED
  BY <1>1 DEF TypeOK, ThreadsOK, EditOK

\* The UI thread's operations keep the types.
LEMMA UiStep == TypeOK /\ Ui => TypeOK'
<1> SUFFICES ASSUME TypeOK, Ui PROVE TypeOK'
  OBVIOUS
<1>1. "ui" \in Thread /\ ThreadsOK /\ EditOK
  BY DEF Thread, ThreadsOK, TypeOK, EditOK
<1>0. edit' = NoEdit \/ edit' = edit => EditOK'
  BY <1>1, NoEditTyped DEF EditOK
<1>2. ASSUME NEW i \in 0..MaxServers - 1, NEW l \in {"idle", "gen"}, ClickServer(i, l) PROVE TypeOK'
  <2>1. ThreadsOK' /\ index' \in Position /\ vmess' = vmess
    BY <1>2, SetActiveTyped, ConfigAssumption DEF ClickServer
  <2> QED
    BY <1>0, <1>2, <2>1, UiTyped DEF ClickServer, TypeOK
<1>3. CASE ClickStart
  <2>1. ThreadsOK'
    BY <1>1, <1>3, GoTyped DEF ClickStart, ThreadsOK, Label
  <2> QED
    BY <1>0, <1>3, <2>1, UiTyped DEF ClickStart, TypeOK
<1>4. ASSUME NEW g \in Time, TaskerStart(g) PROVE TypeOK'
  <2>1. PICK i \in -1..MaxServers - 1 : setActiveServer(i, "gen")
    BY <1>4 DEF TaskerStart
  <2>2. ThreadsOK' /\ index' \in Position /\ vmess' = vmess
    BY <2>1, SetActiveTyped, ConfigAssumption
  <2> QED
    BY <1>0, <1>4, <2>2, UiTyped DEF TaskerStart, TypeOK
<1>5. ASSUME NEW i \in -1..MaxServers - 1, NEW running \in BOOLEAN, OpenEditor(i, running) PROVE TypeOK'
  <2>1. (IF i = -1 THEN 0 ELSE vmess[i + 1].guid) \in 0..MaxTime
    <3>1. CASE i = -1
      BY <3>1, ConfigAssumption
    <3>2. CASE i # -1
      <4>1. vmess[i + 1] \in Server
        BY <1>5, <3>2, ConfigAssumption DEF OpenEditor, InRange, count, TypeOK
      <4> QED
        BY <3>2, <4>1, ServerTyped DEF Time
    <3> QED
      BY <3>1, <3>2
  <2>2. i \in Position \cup {-2}
    BY ConfigAssumption DEF Position
  <2>3. EditOK'
    <3>1. edit' \in Edit /\ edit'.index = i /\ edit'.guid = IF i = -1 THEN 0 ELSE vmess[i + 1].guid
      BY <1>5, <2>1, <2>2 DEF OpenEditor, Bound, Edit
    <3>2. i # -1 => vmess[i + 1].guid \in Time
      BY <1>5, ServerTyped, ConfigAssumption DEF OpenEditor, InRange, count, TypeOK
    <3> QED
      BY <3>1, <3>2 DEF EditOK
  <2>4. ThreadsOK'
    BY <1>1, <1>5 DEF OpenEditor, ThreadsOK
  <2> QED
    BY <1>0, <1>5, <2>3, <2>4, UiTyped DEF OpenEditor, TypeOK
<1>6. CASE CloseEditor
  <2>1. ThreadsOK'
    BY <1>1, <1>6 DEF CloseEditor, ThreadsOK
  <2> QED
    BY <1>0, <1>6, <2>1, UiTyped DEF CloseEditor, TypeOK
<1>7. ASSUME NEW r \in Remarks, SaveNew(r) PROVE TypeOK'
  <2>1. ThreadsOK' /\ vmess' \in Seq(Server) /\ index' = index
    BY <1>1, <1>7, AddTyped, Zenon DEF SaveNew
  <2> QED
    BY <1>0, <1>7, <2>1, UiTyped DEF SaveNew, TypeOK
<1>8. ASSUME NEW r \in Remarks, Scan(r) PROVE TypeOK'
  <2>1. ThreadsOK' /\ vmess' \in Seq(Server) /\ index' = index
    BY <1>1, <1>8, AddTyped, Zenon DEF Scan
  <2> QED
    BY <1>0, <1>8, <2>1, UiTyped DEF Scan, TypeOK
<1>9. ASSUME NEW r \in Remarks, SaveEdit(r) PROVE TypeOK'
  <2>1. CASE InRange(edit.index)
    <3>1. [guid |-> edit.guid, remarks |-> r] \in Server
      BY <1>9, ServerTyped DEF SaveEdit, TypeOK
    <3>2. vmess' = [vmess EXCEPT ![edit.index + 1] = [guid |-> edit.guid, remarks |-> r]]
          /\ Store("ui", "idle") /\ edit' = NoEdit /\ index' = index
      BY <1>9, <2>1 DEF SaveEdit
    <3>3. vmess' \in Seq(Server)
      BY <3>1, <3>2, PutTyped DEF TypeOK
    <3>4. ThreadsOK'
      BY <1>1, <3>2, StoreTyped
    <3> QED
      BY <1>0, <1>9, <3>2, <3>3, <3>4, UiTyped DEF SaveEdit, TypeOK
  <2>2. CASE ~InRange(edit.index)
    <3>1. UNCHANGED <<vmess, pc, json, then, edit, index>>
      BY <1>9, <2>2 DEF SaveEdit
    <3>2. ThreadsOK'
      BY <1>1, <3>1 DEF ThreadsOK
    <3> QED
      BY <1>0, <1>9, <3>1, <3>2, UiTyped DEF SaveEdit, TypeOK
  <2> QED
    BY <2>1, <2>2
<1>10. CASE removeServer
  <2>1. CASE InRange(edit.index)
    <3>1. /\ vmess' = Removed(edit.index) /\ Store("ui", "idle") /\ edit' = NoEdit
          /\ index' = IF index = edit.index THEN IF count > 1 THEN 0 ELSE -1
                      ELSE IF edit.index < index THEN index - 1 ELSE index
      BY <1>10, <2>1 DEF removeServer
    <3>2. edit.index \in Int /\ index \in Int /\ edit.index >= 0 /\ index \in Position
      BY <1>10 DEF removeServer, TypeOK, Edit, Position
    <3>3. index' \in Position
      BY <3>1, <3>2 DEF Position
    <3>4. vmess' \in Seq(Server)
      BY <2>1, <3>1, <3>2, RemovedTyped DEF TypeOK
    <3>5. ThreadsOK'
      BY <1>1, <3>1, StoreTyped
    <3> QED
      BY <1>0, <1>10, <3>1, <3>3, <3>4, <3>5, UiTyped DEF removeServer
  <2>2. CASE ~InRange(edit.index)
    <3>1. UNCHANGED <<vmess, pc, json, then, edit, index>>
      BY <1>10, <2>2 DEF removeServer
    <3>2. ThreadsOK'
      BY <1>1, <3>1 DEF ThreadsOK
    <3> QED
      BY <1>0, <1>10, <3>1, <3>2, UiTyped DEF removeServer, TypeOK
  <2> QED
    BY <2>1, <2>2
<1>11. CASE genStoreV2rayConfig
  <2>1. UNCHANGED <<listvars, stored, filed, time, json, then, reply, edit, overlap>>
    BY <1>11 DEF genStoreV2rayConfig
  <2>2. curr' \in Curr
    <3>1. CASE UNCHANGED curr
      BY <3>1 DEF TypeOK
    <3>2. CASE curr' = [curr EXCEPT !.config = Current]
      BY <3>2, CurrentTyped, Zenon DEF TypeOK, Curr
    <3>3. CASE curr' = [curr EXCEPT !.guid = Current.guid]
      BY <3>3, CurrentTyped, Zenon DEF TypeOK, Curr
    <3>4. CASE curr' = [curr EXCEPT !.name = Current.remarks]
      BY <3>4, CurrentTyped, Zenon DEF TypeOK, Curr
    <3> QED
      BY <1>11, <3>1, <3>2, <3>3, <3>4
      DEF genStoreV2rayConfig, GenConfig, GenGuid, GenName, StartService
  <2>3. PICK l \in {"guid", "idle", "name", "start"} : Go("ui", l)
    BY <1>11 DEF genStoreV2rayConfig, GenConfig, GenGuid, GenName, StartService
  <2>4. pc' \in [Thread -> Label]
    BY <1>1, <2>3, GoTyped DEF ThreadsOK, Label
  <2> QED
    BY <2>1, <2>2, <2>4 DEF TypeOK
<1> QED
  BY <1>2, <1>3, <1>4, <1>5, <1>6, <1>7, <1>8, <1>9, <1>10, <1>11 DEF Ui

\* The threads that answer, and the process, keep the types.
LEMMA NetStep ==
  ASSUME TypeOK, NEW n \in Net, onResponse(n) PROVE TypeOK'
<1>1. n \in Thread /\ "ui" \in Thread /\ ThreadsOK
  BY DEF Thread, ThreadsOK, TypeOK
<1>2. CASE Respond(n)
  <2>1. pc' \in [Thread -> Label]
    BY <1>1, <1>2, GoTyped DEF Respond, ThreadsOK, Label
  <2> QED
    BY <1>2, <2>1 DEF Respond, TypeOK
<1>3. ASSUME NEW r \in Replies, Clear(n, r) PROVE TypeOK'
  <2>1. vmess' \in Seq(Server) /\ UNCHANGED <<index, stored, curr, filed, time, json, then, edit>>
    BY <1>3 DEF Clear
  <2>2. pc' \in [Thread -> Label]
    BY <1>1, <1>3, GoTyped DEF Clear, ThreadsOK, Label
  <2>3. overlap' \in BOOLEAN
    BY Zenon, <1>3 DEF Clear
  <2>4. reply' \in [Net -> Seq(Remarks \cup {Invalid})]
    BY <1>3, ConfigAssumption DEF Clear, TypeOK
  <2> QED
    BY <2>1, <2>2, <2>3, <2>4 DEF TypeOK
<1>4. CASE Import(n)
  <2>1. reply[n] \in Seq(Remarks \cup {Invalid}) /\ reply[n] # << >>
        /\ reply' = [reply EXCEPT ![n] = Tail(reply[n])]
    BY <1>4 DEF Import, TypeOK
  <2>2. Head(reply[n]) \in Remarks \cup {Invalid} /\ Tail(reply[n]) \in Seq(Remarks \cup {Invalid})
    BY <2>1
  <2>3. reply' \in [Net -> Seq(Remarks \cup {Invalid})]
    BY <2>1, <2>2 DEF TypeOK
  <2>4. CASE Head(reply[n]) = Invalid
    BY <1>4, <2>3, <2>4 DEF Import, TypeOK
  <2>5. CASE Head(reply[n]) # Invalid
    <3>1. ThreadsOK' /\ vmess' \in Seq(Server) /\ index' = index
      BY <1>1, <1>4, <2>2, <2>5, AddTyped DEF Import
    <3> QED
      BY <1>4, <2>3, <3>1 DEF Import, TypeOK, ThreadsOK
  <2> QED
    BY <2>4, <2>5
<1>5. ASSUME NEW l \in {"idle", "gen"}, Finished(n, l) PROVE TypeOK'
  <2>1. pc' \in [Thread -> Label]
    BY <1>1, <1>5 DEF Finished, ThreadsOK, Label
  <2>2. overlap' \in BOOLEAN
    BY Zenon, <1>5 DEF Finished
  <2> QED
    BY <1>5, <2>1, <2>2, Zenon DEF Finished, TypeOK
<1> QED
  BY <1>2, <1>3, <1>4, <1>5 DEF onResponse

\* The steps of AngConfigManager keep the types.
LEMMA ManagerStep ==
  ASSUME TypeOK, NEW t \in Thread, Manager(t) PROVE TypeOK'
<1>1. ThreadsOK /\ then[t] \in Label /\ json[t] \in Config
      /\ UNCHANGED <<curr, filed, time, reply, edit, overlap>>
  BY DEF Manager, ThreadsOK, TypeOK, Label
<1>2. CASE Count(t) /\ UNCHANGED <<vmess, stored, json, then>>
  <2>1. pc' \in [Thread -> Label]
    BY <1>1, <1>2, GoTyped DEF Count, ThreadsOK, Label
  <2>2. index' \in Position
    BY <1>2 DEF Count, TypeOK, Position
  <2> QED
    BY <1>1, <1>2, <2>1, <2>2 DEF TypeOK
<1>3. CASE ToJson(t) /\ UNCHANGED <<listvars, stored>>
  <2>1. [vmess |-> vmess, index |-> index] \in Config
    BY ConfigTyped DEF TypeOK
  <2>2. pc' \in [Thread -> Label]
    BY <1>1, <1>3, GoTyped DEF ToJson, ThreadsOK, Label
  <2>3. json' \in [Thread -> Config] /\ then' \in [Thread -> {"idle", "gen", "import"}]
    BY <1>1, <1>3, <2>1 DEF ToJson, ThreadsOK
  <2> QED
    BY <1>1, <1>3, <2>2, <2>3 DEF TypeOK
<1>4. CASE Write(t) /\ UNCHANGED listvars
  <2>1. pc' \in [Thread -> Label]
    BY <1>1, <1>4, GoTyped DEF Write, ThreadsOK
  <2>2. json' \in [Thread -> Config] /\ then' \in [Thread -> {"idle", "gen", "import"}]
    BY <1>1, <1>4, ConfigTyped DEF Write, ThreadsOK
  <2>3. stored' \in Stored
    BY <1>1, <1>4, StoredTyped, Zenon DEF Write, TypeOK
  <2> QED
    BY <1>1, <1>4, <2>1, <2>2, <2>3 DEF TypeOK
<1> QED
  BY <1>2, <1>3, <1>4 DEF Manager

\* A death keeps the types.
LEMMA DeathStep == TypeOK /\ Dies => TypeOK'
<1> SUFFICES ASSUME TypeOK, Dies PROVE TypeOK'
  OBVIOUS
<1>0. stored.disk \in Config /\ stored' \in Stored
  BY StoredTyped, Zenon DEF Dies, TypeOK
<1>1. vmess' \in Seq(Server) /\ index' \in Position
  BY <1>0, ConfigTyped DEF Dies
<1>2. ThreadsOK' /\ reply' \in [Net -> Seq(Remarks \cup {Invalid})]
  BY ConfigTyped DEF Dies, ThreadsOK, Label
<1>3. EditOK'
  <2>1. CASE edit' = NoEdit
    BY <2>1, NoEditTyped DEF EditOK
  <2>2. CASE edit' # NoEdit
    <3> DEFINE i == edit.index
               g == IF i = -1 THEN 0 ELSE vmess'[i + 1].guid
    <3>1. i \in Position \cup {-2} /\ edit.locked \in {"yes", "no"}
      BY DEF TypeOK, Edit
    <3>2. -1 <= i /\ i < Len(vmess') /\ edit' = [index |-> i, guid |-> g, locked |-> edit.locked]
      BY <2>2 DEF Dies
    <3>3. i # -1 => vmess'[i + 1] \in Server
      BY <1>1, <3>1, <3>2 DEF Position
    <3>4. (i # -1 => g \in Time) /\ g \in 0..MaxTime
      BY <3>3, ServerTyped, ConfigAssumption DEF Time
    <3> HIDE DEF i, g
    <3>5. edit' \in Edit /\ edit'.index = i /\ edit'.guid = g
      BY <3>1, <3>2, <3>4 DEF Edit
    <3> QED
      BY <3>4, <3>5 DEF EditOK
  <2> QED
    BY <2>1, <2>2
<1> QED
  BY <1>0, <1>1, <1>2, <1>3 DEF Dies, TypeOK, ThreadsOK, EditOK

\* Every step keeps the types.
LEMMA TypeStep == TypeOK /\ [Next]_vars => TypeOK'
<1> SUFFICES ASSUME TypeOK, [Next]_vars PROVE TypeOK'
  OBVIOUS
<1>1. CASE Tick
  <2>1. time' \in Time
    BY <1>1, ConfigAssumption DEF Tick, TypeOK, Time
  <2> QED
    BY <1>1, <2>1 DEF Tick, TypeOK
<1>2. CASE UNCHANGED vars
  BY <1>2 DEF vars, TypeOK
<1>3. CASE Flush
  <2>1. stored' \in Stored
    BY <1>3, StoredTyped, Zenon DEF Flush, TypeOK
  <2> QED
    BY <1>3, <2>1 DEF Flush, TypeOK
<1> QED
  BY <1>1, <1>2, <1>3, UiStep, NetStep, ManagerStep, DeathStep DEF Next

\* The first state has the types.
LEMMA TypeInit == Init => TypeOK
<1> SUFFICES ASSUME Init PROVE TypeOK
  OBVIOUS
<1>1. Nothing \in Server \cup {Nothing} /\ 0 \in 0..MaxTime /\ 1 \in Time
  BY ConfigAssumption DEF Time
<1>2. curr \in Curr
  BY <1>1 DEF Init, Curr
<1>3. overlap \in BOOLEAN
  BY Zenon DEF Init
<1>4. vmess \in Seq(Server) /\ index \in Position
  BY DEF Init, Position
<1>5. ThreadsOK /\ stored \in Stored
  BY ConfigTyped DEF Init, ThreadsOK, Label, Stored
<1> QED
  BY <1>1, <1>2, <1>3, <1>4, <1>5, NoEditTyped DEF Init, TypeOK, ThreadsOK

\* Every variable keeps its type, for any number of threads and any answers.
THEOREM TypeCorrect == Spec => []TypeOK
BY TypeInit, TypeStep, PTL DEF Spec

-----------------------------------------------------------------------------
(* Unless threads meet on the list.                                          *)

\* Index i is the position of a server in the list v, unless v is empty.
Valid(v, i) == Len(v) >= 1 => 0 <= i /\ i <= Len(v) - 1

Saved(s) == Valid(s.now.vmess, s.now.index) /\ Valid(s.disk.vmess, s.disk.index)

\* A thread is in the middle of an operation on the list.
Working(t) == pc[t] \notin {"idle", "clear"}
Alone(t) == \A u \in Thread \ {t} : ~Working(u)

\* Only one thread works, and only between the two steps of addServer may the
\* index be out of range: when the server added is the first.
RangeInv ==
  /\ \A t \in Thread : Working(t) => Alone(t)
  /\ (\A t \in Thread : pc[t] # "count") => Valid(vmess, index)
  /\ \A t \in Thread : pc[t] = "count" => count >= 1 /\ (count = 1 \/ InRange(index))
  /\ \A t \in Thread : pc[t] = "write" => Valid(json[t].vmess, json[t].index)
  /\ Saved(stored)

IInv == TypeOK /\ (~overlap => RangeInv)

\* A thread that is alone moves to l.
LEMMA Moves ==
  ASSUME TypeOK, RangeInv, NEW t \in Thread, NEW l \in Label, Go(t, l), Alone(t),
         l = "count" => Len(vmess') >= 1 /\ (Len(vmess') = 1 \/ Valid(vmess', index')),
         l # "count" => Valid(vmess', index'),
         l = "write" => Valid(json'[t].vmess, json'[t].index),
         Saved(stored')
  PROVE  RangeInv'
<1>1. pc' = [pc EXCEPT ![t] = l] /\ pc \in [Thread -> Label]
  BY DEF Go, TypeOK
<1>2. pc'[t] = l /\ \A u \in Thread : u # t => pc'[u] \in {"idle", "clear"}
  BY <1>1 DEF Alone, Working
<1>3. (\A u \in Thread : Working(u) => Alone(u))'
  BY <1>2 DEF Alone, Working
<1> QED
  BY <1>2, <1>3 DEF RangeInv, count, InRange, Valid

\* A step that moves no thread.
LEMMA Rests ==
  ASSUME RangeInv, UNCHANGED <<listvars, stored, threadvars>>
  PROVE  RangeInv'
BY DEF RangeInv, Working, Alone, Valid, count, InRange

\* The UI thread begins an operation: alone, with an index in range.
LEMMA Begins ==
  ASSUME TypeOK, RangeInv, UiTurn, ~overlap'
  PROVE  "ui" \in Thread /\ Alone("ui") /\ ~overlap /\ Valid(vmess, index) /\ Saved(stored)
<1>1. ~overlap /\ ~Others("ui") /\ pc["ui"] = "idle"
  BY Zenon DEF UiTurn
<1>2. "ui" \in Thread /\ \A t \in Thread : pc[t] = "idle"
  BY <1>1 DEF Others, Thread
<1> QED
  BY <1>1, <1>2 DEF Alone, Working, RangeInv

\* A server becomes active.
LEMMA SetActiveRange ==
  ASSUME TypeOK, RangeInv, UiTurn, ~overlap', NEW i \in Int, NEW l \in {"idle", "gen"},
         setActiveServer(i, l), UNCHANGED stored
  PROVE  RangeInv'
<1>1. CASE InRange(i)
  <2>1. Go("ui", "json") /\ Valid(vmess', index')
    BY <1>1 DEF setActiveServer, Store, Valid, InRange, count
  <2> QED
    BY <2>1, Begins, Moves DEF Label
<1>2. CASE ~InRange(i)
  <2>1. Go("ui", l) /\ Valid(vmess', index')
    BY <1>2, Begins, ZenonT(30) DEF setActiveServer
  <2> QED
    BY <2>1, Begins, Moves DEF Label
<1> QED
  BY <1>1, <1>2

\* A server is added: the index is in range unless it is the first.
LEMMA AddRange ==
  ASSUME TypeOK, RangeInv, NEW t \in Thread, NEW r \in Remarks, Add(t, r), NEW l \in {"idle", "import"},
         then' = [then EXCEPT ![t] = l], Alone(t), Valid(vmess, index), UNCHANGED stored
  PROVE  RangeInv'
<1>1. Len(vmess') = Len(vmess) + 1 /\ index' = index
  BY Zenon, AddTyped DEF count
<1>2. Len(vmess) \in Nat /\ index \in Int
  BY DEF TypeOK, Position
<1>3. Len(vmess') >= 1 /\ (Len(vmess') = 1 \/ Valid(vmess', index'))
  BY <1>1, <1>2 DEF Valid
<1> QED
  BY <1>3, Moves DEF Add, Label, RangeInv

\* A server is removed.
LEMMA RemoveRange ==
  ASSUME TypeOK, RangeInv, removeServer, ~overlap'
  PROVE  RangeInv'
<1>1. UiTurn /\ UNCHANGED stored /\ edit.index \in Int
  BY DEF removeServer, TypeOK, Edit, Position
<1>2. CASE InRange(edit.index)
  <2>1. /\ vmess' = Removed(edit.index) /\ Go("ui", "json")
        /\ index' = IF index = edit.index THEN IF count > 1 THEN 0 ELSE -1
                    ELSE IF edit.index < index THEN index - 1 ELSE index
    BY <1>2 DEF removeServer, Store
  <2>2. Len(vmess') = count - 1 /\ count \in Nat /\ index \in Int
    BY <1>1, <1>2, <2>1, RemovedTyped DEF TypeOK, Position, count
  <2>3. 0 <= index /\ index <= count - 1 /\ 0 <= edit.index /\ edit.index <= count - 1
    BY <1>1, <1>2, <2>2, Begins DEF Valid, InRange, count
  <2>4. Valid(vmess', index')
    BY <1>1, <2>1, <2>2, <2>3 DEF Valid
  <2> QED
    BY <1>1, <2>1, <2>4, Begins, Moves DEF Label
<1>3. CASE ~InRange(edit.index)
  BY <1>1, <1>3, Rests DEF removeServer
<1> QED
  BY <1>2, <1>3

\* The UI thread keeps the index in range.
LEMMA UiRange ==
  ASSUME TypeOK, RangeInv, Ui, ~overlap'
  PROVE  RangeInv'
<1>1. ASSUME NEW i \in 0..MaxServers - 1, NEW l \in {"idle", "gen"}, ClickServer(i, l) PROVE RangeInv'
  BY <1>1, SetActiveRange DEF ClickServer
<1>2. CASE ClickStart
  BY <1>2, Begins, Moves DEF ClickStart, Label
<1>3. ASSUME NEW g \in Time, TaskerStart(g) PROVE RangeInv'
  <2>1. PICK i \in -1..MaxServers - 1 : setActiveServer(i, "gen")
    BY <1>3 DEF TaskerStart
  <2> QED
    BY <1>3, <2>1, SetActiveRange DEF TaskerStart
<1>4. ASSUME NEW i \in -1..MaxServers - 1, NEW running \in BOOLEAN, OpenEditor(i, running) PROVE RangeInv'
  BY <1>4, Rests DEF OpenEditor
<1>5. CASE CloseEditor
  BY <1>5, Rests DEF CloseEditor
<1>6. ASSUME NEW r \in Remarks, SaveNew(r) PROVE RangeInv'
  BY <1>6, Begins, AddRange, Zenon DEF SaveNew
<1>7. ASSUME NEW r \in Remarks, SaveEdit(r) PROVE RangeInv'
  <2>1. UiTurn /\ UNCHANGED <<index, stored>>
    BY <1>7 DEF SaveEdit
  <2>2. CASE InRange(edit.index)
    <3>1. vmess' = [vmess EXCEPT ![edit.index + 1] = [guid |-> edit.guid, remarks |-> r]] /\ Go("ui", "json")
      BY <1>7, <2>2 DEF SaveEdit, Store
    <3>2. [guid |-> edit.guid, remarks |-> r] \in Server
      BY <1>7, ServerTyped DEF SaveEdit, TypeOK
    <3>3. Len(vmess') = Len(vmess)
      BY <3>1, <3>2, PutTyped DEF TypeOK
    <3>4. Valid(vmess', index')
      BY <2>1, <3>3, Begins DEF Valid
    <3> QED
      BY <2>1, <3>1, <3>4, Begins, Moves, Zenon DEF Label
  <2>3. CASE ~InRange(edit.index)
    BY <1>7, <2>1, <2>3, Rests DEF SaveEdit
  <2> QED
    BY <2>2, <2>3
<1>8. ASSUME NEW r \in Remarks, Scan(r) PROVE RangeInv'
  BY <1>8, Begins, AddRange, Zenon DEF Scan
<1>9. CASE genStoreV2rayConfig
  <2>1. PICK l \in Label : Go("ui", l) /\ l \notin {"count", "write"}
    BY <1>9 DEF genStoreV2rayConfig, GenConfig, GenGuid, GenName, StartService, Label
  <2>2. UNCHANGED <<listvars, stored>> /\ pc["ui"] \in {"gen", "guid", "name", "start"}
    BY <1>9 DEF genStoreV2rayConfig, GenConfig, GenGuid, GenName, StartService
  <2>3. "ui" \in Thread /\ Alone("ui")
    BY <2>2 DEF Thread, RangeInv, Working
  <2>4. \A t \in Thread : pc[t] # "count"
    BY <2>2, <2>3 DEF Alone, Working
  <2>5. Valid(vmess', index') /\ Saved(stored')
    BY <2>2, <2>4 DEF RangeInv
  <2> QED
    BY <2>1, <2>3, <2>5, Moves
<1> QED
  BY <1>1, <1>2, <1>3, <1>4, <1>5, <1>6, <1>7, <1>8, <1>9, RemoveRange DEF Ui

\* onResponse keeps the index in range, unless it meets another thread.
LEMMA NetRange ==
  ASSUME TypeOK, RangeInv, NEW n \in Net, onResponse(n), ~overlap'
  PROVE  RangeInv'
<1>1. n \in Thread /\ pc \in [Thread -> Label]
  BY DEF Thread, TypeOK
<1>2. CASE Respond(n)
  <2>1. \A t \in Thread : (Working(t)' <=> Working(t)) /\ (Working(t) => pc'[t] = pc[t])
    BY <1>1, <1>2 DEF Respond, Go, Working
  <2>2. \A t \in Thread, l \in {"count", "write"} : pc'[t] = l <=> pc[t] = l
    BY <1>1, <1>2 DEF Respond, Go
  <2>3. UNCHANGED <<vmess, index, stored, json>>
    BY <1>2 DEF Respond
  <2>4. (\A t \in Thread : Working(t) => Alone(t))'
    BY <2>1, ZenonT(30) DEF RangeInv, Alone
  <2> QED
    BY <2>2, <2>3, <2>4 DEF RangeInv, Valid, count, InRange
<1>3. ASSUME NEW r \in Replies, Clear(n, r) PROVE RangeInv'
  <2>1. ~Others(n)
    BY Zenon, <1>3 DEF Clear
  <2>2. Alone(n)
    BY <2>1 DEF Others, Alone, Working
  <2>3. Valid(vmess', index') /\ Go(n, "import") /\ UNCHANGED stored
    BY <1>3 DEF Clear, Valid
  <2> QED
    BY <1>1, <2>2, <2>3, Moves, ZenonT(30) DEF RangeInv, Label
<1>4. CASE Import(n)
  <2>1. pc[n] = "import" /\ UNCHANGED stored
    BY <1>4 DEF Import
  <2>2. Alone(n)
    BY <1>1, <2>1 DEF RangeInv, Working
  <2>3. Valid(vmess, index)
    BY <2>1, <2>2 DEF RangeInv, Alone, Working
  <2>4. CASE Head(reply[n]) = Invalid
    BY <1>4, <2>4, Rests DEF Import
  <2>5. CASE Head(reply[n]) # Invalid
    <3>1. Head(reply[n]) \in Remarks
      BY <1>4, <2>5 DEF Import, TypeOK
    <3> QED
      BY <1>1, <1>4, <2>1, <2>2, <2>3, <2>5, <3>1, AddRange DEF Import
  <2> QED
    BY <2>4, <2>5
<1>5. ASSUME NEW l \in {"idle", "gen"}, Finished(n, l) PROVE RangeInv'
  <2>1. ~Others(n)
    BY Zenon, <1>5 DEF Finished
  <2>2. pc[n] = "import" /\ UNCHANGED <<vmess, index, stored, json>>
        /\ pc' = [pc EXCEPT ![n] = "idle", !["ui"] = l] /\ n # "ui"
    BY <1>5, ConfigAssumption DEF Finished
  <2>3. \A t \in Thread : pc[t] # "count" /\ (t # "ui" => pc'[t] = "idle") /\ pc'[t] \in {"idle", "gen"}
    BY <1>1, <2>1, <2>2 DEF Others
  <2>4. (\A t \in Thread : Working(t) => Alone(t))'
    BY <2>3 DEF Alone, Working
  <2> QED
    BY <2>2, <2>3, <2>4, Zenon DEF RangeInv
<1> QED
  BY <1>2, <1>3, <1>4, <1>5 DEF onResponse

\* AngConfigManager keeps it, and stores it.
LEMMA ManagerRange ==
  ASSUME TypeOK, RangeInv, NEW t \in Thread, Manager(t)
  PROVE  RangeInv'
<1>1. pc[t] \in {"count", "json", "write"} /\ pc \in [Thread -> Label] /\ then[t] \in {"idle", "gen", "import"}
  BY DEF Manager, Count, ToJson, Write, TypeOK
<1>2. Alone(t)
  BY <1>1 DEF RangeInv, Working
<1>3. \A u \in Thread : u # t => pc[u] # "count"
  BY <1>2, ZenonT(30) DEF Alone, Working
<1>4. CASE Count(t) /\ UNCHANGED <<vmess, stored, json, then>>
  <2>1. Valid(vmess', index')
    BY <1>4 DEF Count, RangeInv, Valid, InRange, count
  <2> QED
    BY <1>2, <1>4, <2>1, Moves, ZenonT(30) DEF Count, Label, RangeInv
<1>5. CASE ToJson(t) /\ UNCHANGED <<listvars, stored>>
  <2>1. Valid(vmess', index') /\ Saved(stored')
    BY <1>3, <1>5 DEF ToJson, RangeInv
  <2>2. CASE Go(t, "write") /\ json' = [json EXCEPT ![t] = [vmess |-> vmess, index |-> index]]
    <3>1. json'[t].vmess = vmess /\ json'[t].index = index
      BY <2>2, ConfigTyped, ZenonT(30) DEF TypeOK
    <3> QED
      BY <1>2, <1>5, <2>1, <2>2, <3>1, Moves DEF Label
  <2>3. CASE Go(t, then[t])
    BY <1>1, <1>2, <2>1, <2>3, Moves DEF Label
  <2> QED
    BY <1>5, <2>2, <2>3 DEF ToJson
<1>6. CASE Write(t) /\ UNCHANGED listvars
  <2>1. Valid(vmess', index') /\ Valid(json[t].vmess, json[t].index)
    BY <1>3, <1>6 DEF Write, RangeInv
  <2>2. stored'.now = json[t] /\ stored'.disk = stored.disk
    <3>1. stored \in Stored /\ json[t] \in Config /\ stored' = [stored EXCEPT !.now = json[t]]
      BY <1>6, ZenonT(30) DEF Write, TypeOK, ThreadsOK
    <3> QED
      BY <3>1, StoredTyped, ZenonT(30)
  <2>3. Saved(stored')
    BY <2>1, <2>2 DEF Saved, RangeInv
  <2> QED
    BY <1>1, <1>2, <1>6, <2>1, <2>3, Moves DEF Write, Label
<1> QED
  BY <1>4, <1>5, <1>6 DEF Manager

\* overlap is never taken back.
LEMMA OverlapStays == [Next]_vars /\ ~overlap' => ~overlap
<1> SUFFICES ASSUME [Next]_vars, ~overlap' PROVE ~overlap
  OBVIOUS
<1>1. UiTurn => ~overlap
  BY Zenon DEF UiTurn
<1>2. Ui => ~overlap
  BY <1>1, Zenon DEF Ui, ClickServer, ClickStart, TaskerStart, OpenEditor, CloseEditor, SaveNew, SaveEdit,
              removeServer, Scan, genStoreV2rayConfig
<1>3. ASSUME NEW n \in Net, onResponse(n) PROVE ~overlap
  BY Zenon, <1>3 DEF onResponse, Respond, Clear, Import, Finished
<1> QED
  BY <1>2, <1>3 DEF Next, Manager, Dies, Flush, Tick, vars

\* Every step keeps the invariant.
LEMMA RangeStep == IInv /\ [Next]_vars => IInv'
<1> SUFFICES ASSUME IInv, [Next]_vars, ~overlap' PROVE RangeInv'
  BY TypeStep DEF IInv
<1>1. TypeOK /\ RangeInv
  BY OverlapStays, SMTT(30) DEF IInv
<1>2. CASE Dies
  <2>1. (\A t \in Thread : pc'[t] = "idle") /\ vmess' = stored.disk.vmess /\ index' = stored.disk.index
        /\ stored'.now = stored.disk /\ stored'.disk = stored.disk
    BY <1>1, <1>2, StoredTyped DEF Dies, TypeOK
  <2>2. Valid(vmess', index') /\ Saved(stored')
    BY <1>1, <2>1 DEF RangeInv, Saved
  <2>3. (\A t \in Thread : Working(t) => Alone(t))'
    BY <2>1 DEF Working
  <2> QED
    BY <2>1, <2>2, <2>3 DEF RangeInv
<1>3. CASE Tick
  BY <1>1, <1>3, Rests DEF Tick
<1>4. CASE UNCHANGED vars
  BY <1>1, <1>4, Rests DEF vars
<1>5. CASE Flush
  <2>1. stored'.now = stored.now /\ stored'.disk = stored.now
    BY <1>1, <1>5, StoredTyped DEF Flush, TypeOK
  <2>2. Saved(stored')
    BY <1>1, <2>1 DEF RangeInv, Saved
  <2> QED
    BY <1>1, <1>5, <2>2 DEF Flush, RangeInv, Working, Alone, Valid, count, InRange
<1> QED
  BY <1>1, <1>2, <1>3, <1>4, <1>5, UiRange, NetRange, ManagerRange DEF Next

\* The first state satisfies it.
LEMMA RangeInit == Init => IInv
<1> SUFFICES ASSUME Init PROVE RangeInv
  BY TypeInit DEF IInv
<1>1. (\A t \in Thread : pc[t] = "idle") /\ Len(vmess) = 0 /\ stored.now = NoConfig
      /\ stored.disk = NoConfig /\ Len(NoConfig.vmess) = 0
  BY ConfigTyped DEF Init
<1> QED
  BY <1>1 DEF RangeInv, Saved, Valid, Working

\* The invariant is more than the property.
LEMMA RangeEnough == IInv => ActiveInRange
<1> SUFFICES ASSUME IInv, ~overlap PROVE ActiveInRange
  BY Zenon DEF ActiveInRange
<1>1. TypeOK /\ RangeInv
  BY DEF IInv
<1>2. \A v \in Seq(Server), i \in Position : Valid(v, i) /\ v # << >> => i \in 0..(Len(v) - 1)
  BY DEF Valid, Position
<1>3. vmess \in Seq(Server) /\ index \in Position
      /\ \A c \in {stored.now, stored.disk} : c.vmess \in Seq(Server) /\ c.index \in Position
  BY <1>1, ConfigTyped, StoredTyped DEF TypeOK
<1>4. \A c \in {stored.now, stored.disk} : c.vmess # << >> => c.index \in 0..(Len(c.vmess) - 1)
  BY <1>1, <1>2, <1>3 DEF RangeInv, Saved
<1>5. Idle /\ vmess # << >> => index \in 0..(count - 1)
  BY <1>1, <1>2, <1>3 DEF RangeInv, Idle, count
<1> QED
  BY <1>4, <1>5 DEF ActiveInRange, InRange

\* Unless a subscription was answered in the middle of something, a list with
\* servers has an active server in range, at rest and in the preferences.
THEOREM ActiveAlwaysInRange == Spec => []ActiveInRange
BY RangeInit, RangeStep, RangeEnough, PTL DEF Spec
-----------------------------------------------------------------------------
(* The open editor. *)

\* A UI operation that meets no other thread.
LEMMA UiAlone ==
  ASSUME UiTurn, ~overlap'
  PROVE  ~overlap /\ \A t \in Thread : pc[t] = "idle"
<1>1. ~overlap /\ ~Others("ui") /\ pc["ui"] = "idle"
  BY Zenon DEF UiTurn
<1> QED
  BY <1>1 DEF Others, Thread

\* A list that stays, or gets one more server at its end, keeps the edited one in
\* its place.
LEMMA EditKept ==
  ASSUME TypeOK, EditorFollows, ~overlap, UNCHANGED edit,
         vmess' = vmess \/ \E v \in Server : vmess' = Added(v)
  PROVE  EditorFollows'
<1>1. edit.index \in Int /\ vmess \in Seq(Server)
  BY DEF TypeOK, Edit, Position
<1>2. ASSUME edit.index >= 0
      PROVE  edit.index + 1 \in 1..Len(vmess) /\ vmess[edit.index + 1].guid = edit.guid
  BY <1>1, <1>2 DEF EditorFollows, InRange, count
<1>3. CASE vmess' = vmess
  BY <1>3 DEF EditorFollows, InRange, count
<1>4. ASSUME NEW v \in Server, vmess' = Added(v) PROVE EditorFollows'
  <2>1. Len(vmess') = Len(vmess) + 1 /\ \A k \in 1..Len(vmess) : vmess'[k] = vmess[k]
    BY <1>1, <1>4 DEF Added
  <2> QED
    BY <1>1, <1>2, <2>1 DEF EditorFollows, InRange, count
<1> QED
  BY <1>3, <1>4

\* The UI thread opens and closes the editor, and changes the list under it only
\* when it closes it.
LEMMA EditorUi ==
  ASSUME TypeOK, EditorFollows, Ui, ~overlap, ~overlap'
  PROVE  EditorFollows'
<1>1. edit' = NoEdit => EditorFollows'
  BY NoEditTyped DEF EditorFollows
<1>2. ASSUME NEW i, NEW l, setActiveServer(i, l), UNCHANGED edit PROVE EditorFollows'
  <2>1. vmess' = vmess
    BY <1>2 DEF setActiveServer
  <2> QED
    BY <1>2, <2>1, EditKept
<1>3. ASSUME NEW i \in 0..MaxServers - 1, NEW l \in {"idle", "gen"}, ClickServer(i, l) PROVE EditorFollows'
  BY <1>2, <1>3 DEF ClickServer
<1>4. ASSUME NEW g \in Time, TaskerStart(g) PROVE EditorFollows'
  BY <1>2, <1>4 DEF TaskerStart
<1>5. CASE ClickStart \/ genStoreV2rayConfig
  BY <1>5, EditKept DEF ClickStart, genStoreV2rayConfig
<1>6. ASSUME NEW i \in -1..MaxServers - 1, NEW running \in BOOLEAN, OpenEditor(i, running) PROVE EditorFollows'
  <2>1. edit'.index = i /\ vmess' = vmess /\ (i = -1 \/ InRange(i))
        /\ (i # -1 => edit'.guid = vmess[i + 1].guid)
    BY <1>6 DEF OpenEditor, Bound
  <2> QED
    BY <2>1 DEF EditorFollows, InRange, count
<1>7. CASE CloseEditor
  BY <1>1, <1>7 DEF CloseEditor
<1>8. CASE removeServer
  BY <1>1, <1>8, EditKept DEF removeServer
<1>9. ASSUME NEW r \in Remarks, SaveNew(r) PROVE EditorFollows'
  BY <1>1, <1>9 DEF SaveNew
<1>10. ASSUME NEW r \in Remarks, SaveEdit(r) PROVE EditorFollows'
  BY <1>1, <1>10, EditKept DEF SaveEdit
<1>11. ASSUME NEW r \in Remarks, Scan(r) PROVE EditorFollows'
  BY <1>11, EditKept, ServerTyped DEF Scan, Add, TypeOK
<1> QED
  BY <1>3, <1>4, <1>5, <1>6, <1>7, <1>8, <1>9, <1>10, <1>11 DEF Ui

\* Every step keeps the edited server in its place.
LEMMA EditorStep ==
  ASSUME TypeOK, EditorFollows, [Next]_vars
  PROVE  EditorFollows'
<1> SUFFICES ASSUME ~overlap' PROVE EditorFollows'
  BY Zenon DEF EditorFollows
<1>1. ~overlap
  BY OverlapStays
<1>2. ASSUME NEW n \in Net, onResponse(n) PROVE EditorFollows'
  <2>1. CASE Respond(n) \/ \E l \in {"idle", "gen"} : Finished(n, l)
    BY <1>1, <2>1, EditKept, Zenon DEF Respond, Finished
  <2>2. ASSUME NEW r \in Replies, Clear(n, r) PROVE EditorFollows'
    <3>1. edit = NoEdit /\ edit' = edit
      BY Zenon, <2>2 DEF Clear
    <3> QED
      BY <3>1, NoEditTyped DEF EditorFollows
  <2>3. CASE Import(n)
    <3>1. CASE Head(reply[n]) = Invalid
      BY <1>1, <2>3, <3>1, EditKept, Zenon DEF Import
    <3>2. CASE Head(reply[n]) # Invalid
      <4>1. Head(reply[n]) \in Remarks
        BY <2>3, <3>2 DEF Import, TypeOK
      <4>2. vmess' = Added([guid |-> time, remarks |-> Head(reply[n])]) /\ edit' = edit
        BY <2>3, <3>2 DEF Import, Add
      <4> QED
        BY <1>1, <4>1, <4>2, EditKept, ServerTyped DEF TypeOK
    <3> QED
      BY <3>1, <3>2
  <2> QED
    BY <1>2, <2>1, <2>2, <2>3 DEF onResponse
<1>3. ASSUME NEW t \in Thread, Manager(t) PROVE EditorFollows'
  BY <1>1, <1>3, EditKept DEF Manager
<1>4. CASE Dies
  <2>1. PICK e : edit' = e /\ (e = NoEdit \/
          \E i \in {edit.index} : /\ -1 <= i /\ i < Len(vmess')
             /\ e = [index |-> i, guid |-> IF i = -1 THEN 0 ELSE vmess'[i + 1].guid, locked |-> edit.locked])
    BY <1>4 DEF Dies
  <2>2. CASE e = NoEdit
    BY <2>1, <2>2, NoEditTyped DEF EditorFollows
  <2>3. CASE e # NoEdit
    <3>1. /\ -1 <= edit.index /\ edit.index < Len(vmess') /\ edit'.index = edit.index
          /\ edit.index # -1 => edit'.guid = vmess'[edit.index + 1].guid
      BY <2>1, <2>3
    <3>2. edit.index \in Int /\ Len(vmess') \in Nat
      BY <1>4, StoredTyped, ConfigTyped DEF Dies, TypeOK, Edit, Position
    <3> QED
      BY <3>1, <3>2 DEF EditorFollows, InRange, count
  <2> QED
    BY <2>2, <2>3
<1>5. CASE Flush \/ Tick \/ UNCHANGED vars
  BY <1>1, <1>5, EditKept DEF Flush, Tick, vars
<1> QED
  BY <1>1, <1>2, <1>3, <1>4, <1>5, EditorUi DEF Next

\* Type correctness and the editor's invariant, from the first state on.
LEMMA EditorInvariant == Spec => [](IInv /\ EditorFollows)
<1>1. Init => EditorFollows
  BY NoEditTyped DEF Init, EditorFollows
<1>2. IInv => TypeOK
  BY DEF IInv
<1>3. TypeOK /\ EditorFollows /\ [Next]_vars => EditorFollows'
  BY EditorStep
<1> QED
  BY <1>1, <1>2, <1>3, RangeInit, RangeStep, PTL DEF Spec

\* However many answers arrive and wherever the process dies, the server that
\* ServerActivity edits is still at the position it was given.
THEOREM EditorAlwaysFollows == Spec => []EditorFollows
BY EditorInvariant, PTL
-----------------------------------------------------------------------------
(* What the service is started with. *)

\* genStoreV2rayConfig has written the preferences up to where it is, and the
\* active server is still the one it wrote them of.
StartInv ==
  /\ pc["ui"] \in {"guid", "name", "start"} => InRange(index) /\ curr.config = Current
  /\ pc["ui"] \in {"name", "start"} => curr.guid = Current.guid
  /\ pc["ui"] = "start" => curr.name = Current.remarks

\* Whatever happens while the UI thread is not between the writes, or with the
\* list and the preferences as they are, is no matter.
LEMMA StartKept ==
  ASSUME StartInv,
         \/ pc'["ui"] \notin {"guid", "name", "start"}
         \/ pc'["ui"] = pc["ui"] /\ UNCHANGED <<vmess, index, curr>>
  PROVE  StartInv'
<1>1. CASE pc'["ui"] \notin {"guid", "name", "start"}
  BY <1>1 DEF StartInv
<1>2. CASE pc'["ui"] = pc["ui"] /\ UNCHANGED <<vmess, index, curr>>
  BY <1>2 DEF StartInv, Current, InRange, count
<1> QED
  BY <1>1, <1>2

\* The three writes.
LEMMA GenStart ==
  ASSUME TypeOK, StartInv, genStoreV2rayConfig
  PROVE  StartInv'
<1>1. "ui" \in Thread /\ pc \in [Thread -> Label] /\ curr \in Curr /\ UNCHANGED <<vmess, index>>
  BY DEF Thread, TypeOK, genStoreV2rayConfig
<1>2. Current' = Current /\ (InRange(index))' = InRange(index)
  BY <1>1 DEF Current, InRange, count
<1>3. CASE GenConfig
  <2>1. CASE InRange(index)
    <3>1. pc'["ui"] = "guid" /\ curr' = [curr EXCEPT !.config = Current]
      BY <1>1, <1>3, <2>1 DEF GenConfig, Go
    <3>2. curr'.config = Current
      BY <1>1, <3>1 DEF Curr
    <3> QED
      BY <1>1, <2>1, <3>1, <3>2 DEF StartInv, Current, InRange, count
  <2>2. CASE ~InRange(index)
    BY <1>1, <1>3, <2>2, StartKept DEF GenConfig, Go
  <2> QED
    BY <2>1, <2>2
<1>4. CASE GenGuid
  <2>1. pc["ui"] = "guid" /\ pc'["ui"] = "name" /\ curr' = [curr EXCEPT !.guid = Current.guid]
    BY <1>1, <1>4 DEF GenGuid, Go
  <2>2. curr'.guid = Current.guid /\ curr'.config = curr.config
    BY <1>1, <2>1 DEF Curr
  <2> QED
    BY <1>1, <2>1, <2>2 DEF StartInv, Current, InRange, count
<1>5. CASE GenName
  <2>1. pc["ui"] = "name" /\ pc'["ui"] = "start" /\ curr' = [curr EXCEPT !.name = Current.remarks]
    BY <1>1, <1>5 DEF GenName, Go
  <2>2. curr'.name = Current.remarks /\ curr'.config = curr.config /\ curr'.guid = curr.guid
    BY <1>1, <2>1 DEF Curr
  <2> QED
    BY <1>1, <2>1, <2>2 DEF StartInv, Current, InRange, count
<1>6. CASE StartService
  BY <1>1, <1>6, StartKept DEF StartService, Go
<1> QED
  BY <1>3, <1>4, <1>5, <1>6 DEF genStoreV2rayConfig

\* Every step, while nothing overlaps.
LEMMA StartStep ==
  ASSUME TypeOK, RangeInv, StartInv, [Next]_vars, ~overlap'
  PROVE  StartInv'
<1>1. "ui" \in Thread /\ pc \in [Thread -> Label] /\ then \in [Thread -> {"idle", "gen", "import"}]
  BY DEF Thread, TypeOK
<1>2. CASE Ui
  <2>1. CASE genStoreV2rayConfig
    BY <2>1, GenStart
  <2>2. ASSUME NEW l \in Label \ {"guid", "name", "start"}, Go("ui", l) PROVE StartInv'
    <3>1. pc'["ui"] = l
      BY <1>1, <2>2 DEF Go
    <3> QED
      BY <3>1, StartKept
  <2>3. ASSUME UiTurn, UNCHANGED pc PROVE StartInv'
    BY <2>3, StartKept DEF UiTurn
  <2>4. ASSUME NEW i, NEW l \in {"idle", "gen"}, setActiveServer(i, l) PROVE StartInv'
    BY <2>2, <2>4 DEF setActiveServer, Store, Label
  <2>5. ASSUME NEW r, Add("ui", r) PROVE StartInv'
    BY <2>2, <2>5 DEF Add, Label
  <2>6. ASSUME NEW i \in 0..MaxServers - 1, NEW l \in {"idle", "gen"}, ClickServer(i, l) PROVE StartInv'
    BY <2>4, <2>6 DEF ClickServer
  <2>7. ASSUME NEW g \in Time, TaskerStart(g) PROVE StartInv'
    BY <2>4, <2>7 DEF TaskerStart
  <2>8. CASE ClickStart
    BY <2>2, <2>8 DEF ClickStart, Label
  <2>9. ASSUME NEW i \in -1..MaxServers - 1, NEW running \in BOOLEAN, OpenEditor(i, running) PROVE StartInv'
    BY <2>3, <2>9 DEF OpenEditor
  <2>10. CASE CloseEditor
    BY <2>3, <2>10 DEF CloseEditor
  <2>11. CASE removeServer
    BY <2>2, <2>3, <2>11 DEF removeServer, Store, Label
  <2>12. ASSUME NEW r \in Remarks, SaveNew(r) \/ Scan(r) PROVE StartInv'
    BY <2>5, <2>12 DEF SaveNew, Scan
  <2>13. ASSUME NEW r \in Remarks, SaveEdit(r) PROVE StartInv'
    BY <2>2, <2>3, <2>13 DEF SaveEdit, Store, Label
  <2> QED
    BY <1>2, <2>1, <2>6, <2>7, <2>8, <2>9, <2>10, <2>11, <2>12, <2>13 DEF Ui
<1>3. ASSUME NEW n \in Net, onResponse(n) PROVE StartInv'
  <2>1. n \in Thread /\ n # "ui"
    BY ConfigAssumption DEF Thread
  <2>2. CASE Respond(n)
    BY <1>1, <2>1, <2>2, StartKept DEF Respond, Go
  <2>3. ASSUME NEW r \in Replies, Clear(n, r) PROVE StartInv'
    <3>1. ~Others(n)
      BY Zenon, <2>3 DEF Clear
    <3>2. pc'["ui"] = "idle"
      BY <1>1, <2>1, <2>3, <3>1 DEF Clear, Go, Others
    <3> QED
      BY <3>2, StartKept
  <2>4. CASE Import(n)
    <3>1. pc["ui"] \in {"idle", "clear"}
      BY <1>1, <2>1, <2>4 DEF Import, RangeInv, Working, Alone
    <3>2. pc'["ui"] = pc["ui"]
      BY <1>1, <2>1, <2>4, SMTT(30) DEF Import, Add, Go
    <3> QED
      BY <3>1, <3>2, StartKept
  <2>5. ASSUME NEW l \in {"idle", "gen"}, Finished(n, l) PROVE StartInv'
    BY <1>1, <2>1, <2>5, StartKept DEF Finished
  <2> QED
    BY <1>3, <2>2, <2>3, <2>4, <2>5 DEF onResponse
<1>4. ASSUME NEW t \in Thread, Manager(t) PROVE StartInv'
  <2>1. PICK l \in {"json", "write", "idle", "gen", "import"} : Go(t, l)
    BY <1>1, <1>4 DEF Manager, Count, ToJson, Write
  <2>2. pc[t] \in {"count", "json", "write"}
    BY <1>4 DEF Manager, Count, ToJson, Write
  <2>3. t # "ui" => pc["ui"] \in {"idle", "clear"}
    BY <1>1, <2>2 DEF RangeInv, Working, Alone
  <2>4. pc'["ui"] \notin {"guid", "name", "start"}
    BY <1>1, <2>1, <2>3 DEF Go
  <2> QED
    BY <2>4, StartKept
<1>5. CASE Dies
  BY <1>1, <1>5, StartKept DEF Dies
<1>6. CASE Flush \/ Tick \/ UNCHANGED vars
  BY <1>6, StartKept DEF Flush, Tick, vars
<1> QED
  BY <1>2, <1>3, <1>4, <1>5, <1>6 DEF Next

\* The preferences the service reads when it is started are all three those of the
\* active server, whatever came before.
THEOREM AlwaysStartsActive == Spec => []StartsActive
<1> DEFINE SInv == ~overlap => StartInv
<1>1. Init => SInv
  <2> SUFFICES ASSUME Init PROVE StartInv
    OBVIOUS
  <2>1. pc["ui"] = "idle"
    BY DEF Init, Thread
  <2> QED
    BY <2>1 DEF StartInv
<1>2. IInv /\ SInv /\ [Next]_vars => SInv'
  <2> SUFFICES ASSUME IInv, SInv, [Next]_vars, ~overlap' PROVE StartInv'
    OBVIOUS
  <2>1. ~overlap
    BY OverlapStays
  <2> QED
    BY <2>1, StartStep DEF IInv
<1>3. IInv /\ SInv => StartsActive
  <2> SUFFICES ASSUME IInv, StartInv, ~overlap, pc["ui"] = "start"
               PROVE  /\ curr.config = Current /\ Current # Nothing
                      /\ curr.guid = Current.guid /\ curr.name = Current.remarks
    BY Zenon DEF StartsActive
  <2>1. InRange(index) /\ vmess \in Seq(Server) /\ index \in Int
    BY DEF StartInv, IInv, TypeOK, Position
  <2>2. Current \in Server
    BY <2>1 DEF Current, InRange, count
  <2>3. Current # Nothing
    BY <2>2, ServerTyped DEF Nothing, Time
  <2> QED
    BY <2>3 DEF StartInv
<1> HIDE DEF SInv
<1> QED
  BY <1>1, <1>2, <1>3, RangeInit, RangeStep, PTL DEF Spec
-----------------------------------------------------------------------------
(* Adding, editing and removing leave another active server active. *)

\* A position of a list is one of a longer list.
LEMMA LongerHolds ==
  ASSUME NEW i \in Int, NEW m \in Nat, NEW n \in Nat, i + 1 \in 1..m, n >= m
  PROVE  0 <= i /\ i <= n - 1
OBVIOUS

\* Appending a server leaves every position of the list as it is.
LEMMA PlaceKept ==
  ASSUME NEW s \in Seq(Server), NEW v \in Server, NEW k \in 1..Len(s)
  PROVE  /\ Len(s) \in Nat /\ Len(Append(s, v)) \in Nat /\ Len(Append(s, v)) >= Len(s)
         /\ Append(s, v)[k] = s[k]
OBVIOUS

\* Replacing a server by one of the same guid leaves the guid at every position.
LEMMA GuidKept ==
  ASSUME NEW s \in Seq(Server), NEW v \in Server, NEW k \in 1..Len(s), NEW j \in Int,
         NEW t, t = [s EXCEPT ![j] = v], v.guid = s[j].guid
  PROVE  t[k].guid = s[k].guid
OBVIOUS

\* Appending a server or saving an edited one.
LEMMA ActiveKept ==
  ASSUME TypeOK, EditorFollows, ~overlap, InRange(index), NEW r \in Remarks,
         SaveNew(r) \/ SaveEdit(r) \/ Scan(r)
  PROVE  Current'.guid = Current.guid
<1>1. /\ vmess \in Seq(Server) /\ index \in Int /\ edit.index \in Int /\ index' = index
      /\ index + 1 \in 1..Len(vmess) /\ Current = vmess[index + 1]
  BY DEF TypeOK, Position, Edit, SaveNew, SaveEdit, Scan, Add, InRange, count, Current
<1>2. ASSUME Len(vmess') >= Len(vmess), Len(vmess') \in Nat, vmess'[index + 1].guid = vmess[index + 1].guid
      PROVE  Current'.guid = Current.guid
  <2>1. Len(vmess) \in Nat
    BY <1>1
  <2>2. 0 <= index' /\ index' <= Len(vmess') - 1
    BY <1>1, <1>2, <2>1, LongerHolds, ZenonT(30)
  <2> QED
    BY <1>1, <1>2, <2>2, ZenonT(30) DEF Current, InRange, count
<1>3. CASE SaveNew(r) \/ Scan(r)
  <2>1. [guid |-> time, remarks |-> r] \in Server
    BY ServerTyped DEF TypeOK
  <2>2. vmess' = Append(vmess, [guid |-> time, remarks |-> r])
    BY <1>3, ZenonT(30) DEF SaveNew, Scan, Add, Added
  <2>3. Len(vmess') >= Len(vmess) /\ Len(vmess') \in Nat /\ vmess'[index + 1] = vmess[index + 1]
    BY <1>1, <2>1, <2>2, PlaceKept, ZenonT(30)
  <2> QED
    BY <1>2, <2>3, ZenonT(30)
<1>4. CASE SaveEdit(r)
  <2>1. CASE InRange(edit.index)
    <3> DEFINE v == [guid |-> edit.guid, remarks |-> r]
    <3>1. edit.index >= 0 /\ vmess' = [vmess EXCEPT ![edit.index + 1] = v]
      BY <1>4, <2>1 DEF SaveEdit
    <3>2. v \in Server /\ v.guid = edit.guid
      BY <3>1, ServerTyped DEF TypeOK
    <3> HIDE DEF v
    <3>3. Len(vmess') = Len(vmess)
      BY <1>1, <3>1, <3>2, PutTyped
    <3>4. vmess[edit.index + 1].guid = edit.guid
      BY <3>1 DEF EditorFollows
    <3>5. vmess'[index + 1].guid = vmess[index + 1].guid
      <4>1. edit.index + 1 \in Int
        BY <1>1
      <4>2. v.guid = vmess[edit.index + 1].guid
        BY <3>2, <3>4, ZenonT(30)
      <4> QED
        BY <1>1, <3>1, <3>2, <4>1, <4>2, GuidKept
    <3> QED
      BY <1>1, <1>2, <3>3, <3>5
  <2>2. CASE ~InRange(edit.index)
    BY <1>1, <1>2, <1>4, <2>2 DEF SaveEdit
  <2> QED
    BY <2>1, <2>2, ZenonT(30)
<1> QED
  BY <1>3, <1>4, ZenonT(30)

\* Removing another server.
LEMMA ActiveShifts ==
  ASSUME TypeOK, InRange(index), removeServer, edit.index # index
  PROVE  Current'.guid = Current.guid
<1>1. /\ vmess \in Seq(Server) /\ index \in Int /\ edit.index \in Int /\ edit.index >= 0
      /\ 0 <= index /\ index <= Len(vmess) - 1 /\ Current = vmess[index + 1]
  BY DEF TypeOK, Position, Edit, InRange, count, Current, removeServer
<1>2. CASE InRange(edit.index)
  <2>1. /\ vmess' = Removed(edit.index) /\ Len(vmess') = Len(vmess) - 1
        /\ index' = IF edit.index < index THEN index - 1 ELSE index
        /\ edit.index <= Len(vmess) - 1
    BY <1>1, <1>2, RemovedTyped DEF removeServer, count, InRange
  <2>2. 0 <= index' /\ index' <= Len(vmess') - 1
    BY <1>1, <2>1
  <2>3. vmess'[index' + 1] = vmess[index + 1]
    BY <1>1, <2>1, <2>2 DEF Removed, count
  <2> QED
    BY <1>1, <2>2, <2>3 DEF Current, InRange, count
<1>3. CASE ~InRange(edit.index)
  BY <1>1, <1>3, SMTT(30) DEF removeServer, Current, InRange, count
<1> QED
  BY <1>2, <1>3

\* Adding, editing or removing a server leaves another one that is active active:
\* the saved server has the guid of the one in its place, and removeServer moves
\* angConfig.index with the list.
THEOREM ActiveAlwaysStays == Spec => ActiveStays
<1>1. IInv /\ EditorFollows /\ [Next]_vars =>
        [(\/ \E r \in Remarks : SaveNew(r) \/ SaveEdit(r) \/ Scan(r)
          \/ removeServer /\ edit.index # index)
         => (~overlap /\ InRange(index) => Current'.guid = Current.guid)]_vars
  BY ActiveKept, ActiveShifts DEF IInv
<1> QED
  BY <1>1, EditorInvariant, PTL DEF Spec, ActiveStays
-----------------------------------------------------------------------------
(* What is at rest is stored. *)

\* A thread on its way to storeConfigFile's end, or about to replace the list.
Unsettled(l) == l \in {"count", "json", "write", "clear"}

\* What a thread is about to write is the list, which is the stored one unless a
\* thread has yet to store it or to replace it.
SaveInv ==
  /\ \A t \in Thread : pc[t] = "write" => json[t] = [vmess |-> vmess, index |-> index]
  /\ (\A t \in Thread : ~Unsettled(pc[t])) =>
       vmess = << >> \/ stored.now = [vmess |-> vmess, index |-> index]

\* A thread alone goes on to change or to store the list.
LEMMA SaveBegins ==
  ASSUME TypeOK, NEW t \in Thread, NEW l \in {"count", "json"}, Alone(t), Go(t, l)
  PROVE  SaveInv'
<1>1. pc'[t] = l /\ \A u \in Thread : u # t => pc'[u] \in {"idle", "clear"}
  BY SMTT(30) DEF TypeOK, Go, Alone, Working
<1> QED
  BY <1>1 DEF SaveInv, Unsettled

\* A step that settles nothing and leaves the list and the preference alone.
LEMMA SaveKept ==
  ASSUME SaveInv, UNCHANGED <<vmess, index>>, stored'.now = stored.now,
         \A t \in Thread : /\ Unsettled(pc[t]) => Unsettled(pc'[t])
                           /\ pc'[t] = "write" => pc[t] = "write" /\ json'[t] = json[t]
  PROVE  SaveInv'
<1>1. (\A t \in Thread : ~Unsettled(pc'[t])) => (\A t \in Thread : ~Unsettled(pc[t]))
  OBVIOUS
<1>2. \A t \in Thread : pc'[t] = "write" => json'[t] = [vmess |-> vmess, index |-> index]
  BY DEF SaveInv
<1> QED
  BY <1>1, <1>2 DEF SaveInv

\* The UI thread.
LEMMA SaveUi ==
  ASSUME TypeOK, RangeInv, SaveInv, Ui, ~overlap'
  PROVE  SaveInv'
<1>1. "ui" \in Thread /\ pc \in [Thread -> Label] /\ (UiTurn => Alone("ui") /\ pc["ui"] = "idle")
  BY Begins DEF Thread, TypeOK, UiTurn
<1>2. ASSUME UiTurn, NEW l \in {"count", "json"}, Go("ui", l) PROVE SaveInv'
  BY <1>1, <1>2, SaveBegins
<1>3. ASSUME ~Unsettled(pc["ui"]), NEW l \in {"idle", "gen", "guid", "name", "start"}, Go("ui", l),
             UNCHANGED <<vmess, index, stored, json>>
      PROVE  SaveInv'
  <2>1. \A t \in Thread : t # "ui" => pc'[t] = pc[t]
    BY <1>1, <1>3 DEF Go
  <2>2. pc'["ui"] = l
    BY <1>1, <1>3 DEF Go
  <2> QED
    BY <1>3, <2>1, <2>2, SaveKept
<1>4. ASSUME UNCHANGED <<vmess, index, stored, pc, json>> PROVE SaveInv'
  BY <1>4, SaveKept
<1>5. ~Unsettled("idle") /\ ~Unsettled("gen") /\ ~Unsettled("guid") /\ ~Unsettled("name") /\ ~Unsettled("start")
  BY DEF Unsettled
<1>6. ASSUME UiTurn, NEW i, NEW l \in {"idle", "gen"}, setActiveServer(i, l), UNCHANGED stored PROVE SaveInv'
  <2>1. CASE InRange(i)
    BY <1>2, <1>6, <2>1 DEF setActiveServer, Store
  <2>2. CASE ~InRange(i)
    BY <1>1, <1>3, <1>5, <1>6, <2>2 DEF setActiveServer
  <2> QED
    BY <2>1, <2>2
<1>7. ASSUME NEW i \in 0..MaxServers - 1, NEW l \in {"idle", "gen"}, ClickServer(i, l) PROVE SaveInv'
  BY <1>6, <1>7 DEF ClickServer
<1>8. ASSUME NEW g \in Time, TaskerStart(g) PROVE SaveInv'
  BY <1>6, <1>8 DEF TaskerStart
<1>9. CASE ClickStart
  BY <1>1, <1>3, <1>5, <1>9 DEF ClickStart
<1>10. ASSUME NEW i \in -1..MaxServers - 1, NEW running \in BOOLEAN, OpenEditor(i, running) PROVE SaveInv'
  BY <1>4, <1>10 DEF OpenEditor
<1>11. CASE CloseEditor
  BY <1>4, <1>11 DEF CloseEditor
<1>12. CASE removeServer
  BY <1>2, <1>4, <1>12 DEF removeServer, Store
<1>13. ASSUME NEW r \in Remarks, SaveNew(r) \/ Scan(r) PROVE SaveInv'
  BY <1>2, <1>13 DEF SaveNew, Scan, Add
<1>14. ASSUME NEW r \in Remarks, SaveEdit(r) PROVE SaveInv'
  BY <1>2, <1>4, <1>14 DEF SaveEdit, Store
<1>15. CASE genStoreV2rayConfig
  BY <1>3, <1>5, <1>15 DEF genStoreV2rayConfig, GenConfig, GenGuid, GenName, StartService
<1> QED
  BY <1>7, <1>8, <1>9, <1>10, <1>11, <1>12, <1>13, <1>14, <1>15 DEF Ui

\* onResponse.
LEMMA SaveNet ==
  ASSUME TypeOK, RangeInv, SaveInv, NEW n \in Net, onResponse(n), ~overlap'
  PROVE  SaveInv'
<1>1. n \in Thread /\ n # "ui" /\ "ui" \in Thread /\ pc \in [Thread -> Label]
  BY ConfigAssumption DEF Thread, TypeOK
<1>2. CASE Respond(n)
  BY <1>1, <1>2, SaveKept, SMTT(30) DEF Respond, Go, Unsettled
<1>3. ASSUME NEW r \in Replies, Clear(n, r) PROVE SaveInv'
  <2>1. ~Others(n)
    BY Zenon, <1>3 DEF Clear
  <2>2. \A t \in Thread : pc'[t] \in {"idle", "import"}
    BY <1>1, <1>3, <2>1 DEF Clear, Go, Others
  <2> QED
    BY <1>3, <2>2 DEF Clear, SaveInv
<1>4. CASE Import(n)
  <2>1. Alone(n)
    BY <1>1, <1>4 DEF Import, RangeInv, Working
  <2>2. CASE Head(reply[n]) = Invalid
    BY <1>4, <2>2, SaveKept DEF Import
  <2>3. CASE Head(reply[n]) # Invalid
    BY <1>1, <1>4, <2>1, <2>3, SaveBegins DEF Import, Add
  <2> QED
    BY <2>2, <2>3
<1>5. ASSUME NEW l \in {"idle", "gen"}, Finished(n, l) PROVE SaveInv'
  <2>1. /\ pc[n] = "import" /\ pc["ui"] = "idle" /\ pc'[n] = "idle" /\ pc'["ui"] = l
        /\ \A t \in Thread : t # n /\ t # "ui" => pc'[t] = pc[t]
    BY <1>1, <1>5 DEF Finished
  <2> QED
    BY <1>5, <2>1, SaveKept, Zenon DEF Finished, Unsettled
<1> QED
  BY <1>2, <1>3, <1>4, <1>5 DEF onResponse

\* AngConfigManager stores the list, unless a thread that is about to replace it
\* made toJson fail.
LEMMA SaveManager ==
  ASSUME TypeOK, RangeInv, SaveInv, NEW t \in Thread, Manager(t)
  PROVE  SaveInv'
<1>1. /\ pc[t] \in {"count", "json", "write"} /\ pc \in [Thread -> Label]
      /\ then[t] \in {"idle", "gen", "import"} /\ json \in [Thread -> Config]
  BY DEF Manager, Count, ToJson, Write, TypeOK
<1>2. Alone(t) /\ \A u \in Thread : u # t => pc[u] \in {"idle", "clear"}
  BY <1>1 DEF RangeInv, Alone, Working
<1>3. CASE Count(t)
  BY <1>2, <1>3, SaveBegins DEF Count
<1>4. CASE ToJson(t) /\ UNCHANGED <<listvars, stored>>
  <2>1. CASE json' = [json EXCEPT ![t] = [vmess |-> vmess, index |-> index]] /\ Go(t, "write")
    <3>1. pc'[t] = "write" /\ json'[t] = [vmess |-> vmess, index |-> index]
          /\ \A u \in Thread : u # t => pc'[u] = pc[u]
      BY <1>1, <2>1, ZenonT(30) DEF Go
    <3> QED
      BY <1>2, <1>4, <3>1 DEF SaveInv, Unsettled
  <2>2. CASE Others(t) /\ Go(t, then[t])
    <3>1. PICK o \in Thread \ {t} : pc[o] = "clear"
      BY <1>2, <2>2 DEF Others
    <3>2. pc'[o] = "clear" /\ \A u \in Thread : pc'[u] # "write"
      BY <1>1, <1>2, <2>2, <3>1 DEF Go
    <3> QED
      BY <3>2, ZenonT(30) DEF SaveInv, Unsettled
  <2> QED
    BY <1>4, <2>1, <2>2, SMTT(30) DEF ToJson
<1>5. CASE Write(t) /\ UNCHANGED listvars
  <2>1. stored'.now = json[t]
    BY <1>1, <1>5, StoredTyped DEF Write, TypeOK
  <2>2. json[t] = [vmess |-> vmess', index |-> index']
    BY <1>5 DEF Write, SaveInv
  <2>3. \A u \in Thread : pc'[u] # "write"
    BY <1>1, <1>2, <1>5 DEF Write, Go
  <2> QED
    BY <2>1, <2>2, <2>3 DEF SaveInv
<1> QED
  BY <1>3, <1>4, <1>5 DEF Manager

\* Every step, while nothing overlaps.
LEMMA SaveStep ==
  ASSUME TypeOK, RangeInv, SaveInv, [Next]_vars, ~overlap'
  PROVE  SaveInv'
<1>1. CASE Dies
  <2>1. /\ \A t \in Thread : pc'[t] = "idle"
        /\ stored'.now = stored.disk /\ vmess' = stored.disk.vmess /\ index' = stored.disk.index
    BY <1>1, StoredTyped DEF Dies, TypeOK
  <2>2. stored.disk = [vmess |-> stored.disk.vmess, index |-> stored.disk.index]
    BY StoredTyped DEF TypeOK, Config
  <2> QED
    BY <2>1, <2>2 DEF SaveInv
<1>2. CASE Flush
  BY <1>2, StoredTyped, SaveKept DEF Flush, TypeOK
<1>3. CASE Tick \/ UNCHANGED vars
  BY <1>3, SaveKept DEF Tick, vars
<1> QED
  BY <1>1, <1>2, <1>3, SaveUi, SaveNet, SaveManager DEF Next

\* At rest a list with servers is the stored one, whatever was done to it and
\* wherever the process died.
THEOREM NothingEverUnsaved == Spec => []NothingUnsaved
<1> DEFINE SInv == ~overlap => SaveInv
<1>1. Init => SInv
  <2> SUFFICES ASSUME Init PROVE SaveInv
    OBVIOUS
  <2>1. (\A t \in Thread : pc[t] = "idle") /\ vmess = << >>
    BY DEF Init
  <2> QED
    BY <2>1 DEF SaveInv
<1>2. IInv /\ SInv /\ [Next]_vars => SInv'
  <2> SUFFICES ASSUME IInv, SInv, [Next]_vars, ~overlap' PROVE SaveInv'
    OBVIOUS
  <2>1. ~overlap
    BY OverlapStays
  <2> QED
    BY <2>1, SaveStep DEF IInv
<1>3. SInv => NothingUnsaved
  BY Zenon DEF SaveInv, NothingUnsaved, Idle, Unsettled
<1> HIDE DEF SInv
<1> QED
  BY <1>1, <1>2, <1>3, RangeInit, RangeStep, PTL DEF Spec
=============================================================================
