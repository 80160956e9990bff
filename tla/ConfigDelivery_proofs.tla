------------------------ MODULE ConfigDelivery_proofs ------------------------
(***************************************************************************)
(* Proofs about ConfigDelivery, for any number of heartbeat tasks, console *)
(* requests, heartbeat requests, plugins, edits and events.                *)
(*                                                                         *)
(* No two tasks wait for one request, because a request that is waited for *)
(* is not free (Claimed).  Every copy of the document, in a handler, in an *)
(* answer or in the agent, is a value the document has had (Copies), and a *)
(* task that is about to stamp (record) and has not been overtaken is the  *)
(* one whose configuration (plugin) the agent runs (LastToLoad,            *)
(* LastToInstall); this holds for any console and any tasks.               *)
(*                                                                         *)
(* When console requests do not overlap, stamps are written in the order   *)
(* they are taken (StampsInOrder), so the document's stamp is the greatest *)
(* of all copies, and a handler that reads the document while a task waits *)
(* for it finds nothing older than the agent has, unless another task      *)
(* delivers in between (NotOlder).                                         *)
(***************************************************************************)
EXTENDS ConfigDelivery, TLAPS

\* A request some task waits for is in use.
Claimed == \A t \in Task : slot[t] # NoSlot => req[slot[t]].pc # "free"

\* All copies of the document are of values it has had.
Copies ==
  /\ Local \in published
  /\ doc \in published
  /\ applied \in published
  /\ \E v \in published : ctime = v.time
  /\ \A t \in Task : reply[t].doc \in published
  /\ \A s \in Slot : req[s].doc \in published

\* What overtook a task matters only while it has an answer to apply.
Marks == \A t \in Task : overtaken[t] => mode[t] \in UnderWay \cup {"recording"}

\* A task that has loaded (installed), and no other after it, is the one whose
\* configuration (plugin) the agent runs.
LastToLoad == \A t \in Task : mode[t] = "stamping" /\ ~overtaken[t] => reply[t].doc = applied
LastToInstall == \A t \in Task : mode[t] = "recording" /\ ~overtaken[t] => reply[t].md5 = plugin

\* A stamp taken and not yet written is greater than the document's, which is
\* the greatest the document has had.
StampsInOrder ==
  /\ doc.time <= clock
  /\ \A a \in Admin : /\ edit[a] # NoEdit => edit[a].time > doc.time
                      /\ edit[a].time <= clock
  /\ \A v \in published : v.time <= doc.time

\* What a task waits for, and what it is about to apply, is not older than
\* what the agent runs, unless another task has delivered meanwhile.
NotOlder ==
  \A t \in Task : ~overtaken[t] =>
    /\ mode[t] = "waiting" /\ req[slot[t]].pc \in {"app", "update"}
         => req[slot[t]].doc.time >= applied.time
    /\ mode[t] = "configuring" => reply[t].doc.time >= applied.time

\* The invariant of any console and any tasks, that of one console request at
\* a time, and that of one heartbeat task.
Typed == TypeOK /\ Claimed
Runs == Marks /\ LastToLoad /\ LastToInstall /\ HoldsPublished
AnyConsole == Typed /\ Copies /\ Runs
OneAtATime == \A a, b \in Admin : a = b
OneRequest == AnyConsole /\ StampsInOrder /\ NotOlder
OneServer == \A t, u \in Task : t = u
Uncrossed == (\A t \in Task : ~overtaken[t]) /\ crossed = NoCrossing

-----------------------------------------------------------------------------
(***************************************************************************)
(* Types                                                                   *)
(***************************************************************************)

\* The records that requests, answers and the agent start from.
LEMMA Blanks ==
  /\ Local \in Version
  /\ NoEdit \in Edit
  /\ NoReply \in Reply
  /\ NoCrossing \in [conf : BOOLEAN, plugin : BOOLEAN]
  /\ \A pc \in {"free", "sent", "rasp", "upserted", "app"} \cup Answered : Blank(pc) \in Request
  /\ Free \in Request
  BY ConstantsAssumption
  DEF Version, Local, Time, Part, NoEdit, Edit, NoReply, NoCrossing, Reply, Blank, Free, Request,
      Answered, AnyMd5

\* A system starts with the default configuration, no request and an agent
\* whose tasks register.
LEMMA InitInv == Init => AnyConsole /\ StampsInOrder /\ NotOlder
<1> SUFFICES ASSUME Init PROVE AnyConsole /\ StampsInOrder /\ NotOlder
  OBVIOUS
<1> USE ConstantsAssumption, Blanks
<1>1. TypeOK
  <2>1. 0 \in Time /\ 0 \in 0..MaxEvents /\ {Local} \subseteq Version
    BY DEF Time
  <2>2. /\ edit \in [Admin -> Edit] /\ req \in [Slot -> Request]
        /\ reply \in [Task -> Reply] /\ overtaken \in [Task -> BOOLEAN]
    BY DEF Init
  <2>3. selected \in Md5 /\ known \in BOOLEAN /\ NoMd5 \in AnyMd5
    BY DEF Init, AnyMd5
  <2>4. \A t \in Task : mode[t] = "registering" /\ slot[t] = NoSlot
    BY DEF Init
  <2> QED
    BY <2>1, <2>2, <2>3, <2>4 DEF Init, TypeOK
<1>2. Claimed /\ Marks /\ LastToLoad /\ LastToInstall
  BY DEF Init, Claimed, Marks, LastToLoad, LastToInstall
<1>3. Copies /\ HoldsPublished
  BY DEF Init, Copies, HoldsPublished, StampIsApplied, Md5IsPlugin, NoReply, Free, Blank, Local
<1>4. StampsInOrder /\ NotOlder
  BY DEF Init, StampsInOrder, NotOlder, Local, NoEdit
<1> QED
  BY <1>1, <1>2, <1>3, <1>4 DEF AnyConsole, Typed, Runs

\* Counting an event stays within the bound.
LEMMA Counted == ASSUME events \in 0..MaxEvents, Event PROVE events' \in 0..MaxEvents
  BY ConstantsAssumption DEF Event

\* The console's actions keep the types.
LEMMA ConsoleTypes == ASSUME Typed, ConsoleStep PROVE Typed'
<1> USE ConstantsAssumption DEF Typed, TypeOK, Claimed, serverVars, agentVars, taskVars,
                                modelVars, consoleVars
<1>1. ASSUME NEW a \in Admin, Write(a) PROVE Typed'
  <2>1. doc' \in Version
    BY <1>1 DEF Write, Version, Edit, Part
  <2>2. edit' \in [Admin -> Edit]
    BY <1>1, Blanks DEF Write
  <2> QED
    BY <1>1, <2>1, <2>2 DEF Write
<1>2. ASSUME NEW a \in Admin, NEW part \in Part, Stamp(a, part) PROVE Typed'
  <2>1. clock' \in Time
    BY <1>2 DEF Stamp, Time
  <2>2. edit' \in [Admin -> Edit]
    BY <1>2, <2>1 DEF Stamp, Edit
  <2> QED
    BY <1>2, <2>1, <2>2 DEF Stamp
<1>3. ASSUME NEW p \in Md5, SelectPlugin(p) PROVE Typed'
  BY <1>3 DEF SelectPlugin, Event
<1>4. ASSUME RemoveRasp PROVE Typed'
  <2>1. events' \in 0..MaxEvents
    BY <1>4, Counted DEF RemoveRasp
  <2>2. known' \in BOOLEAN /\ shown' \in AnyMd5
    BY <1>4 DEF RemoveRasp, AnyMd5
  <2> QED
    BY <1>4, <2>1, <2>2 DEF RemoveRasp
<1> QED
  BY <1>1, <1>2, <1>3, <1>4 DEF ConsoleStep

\* What a step of the handler of request s does to the requests.
LEMMA HandlerRequests ==
  ASSUME Typed, NEW s \in Slot, HandlerStep(s) \/ Fail(s) \/ Discard(s)
  PROVE  /\ req' \in [Slot -> Request]
         /\ \A r \in Slot \ {s} : req'[r] = req[r]
         /\ req'[s].pc = "free" => \A t \in Task : slot[t] # s
         /\ req'[s].doc \in {Local, doc, req[s].doc}
         /\ req'[s].pc \in {"app", "update"} => req'[s].doc = doc \/ /\ req[s].pc = "app"
                                                                     /\ req'[s].doc = req[s].doc
         /\ UNCHANGED <<consoleVars, agentVars>>
<1> USE ConstantsAssumption, Blanks DEF Typed, TypeOK, Answered
<1>1. req \in [Slot -> Request] /\ req[s] \in Request
  OBVIOUS
<1>2. CASE GetRasp(s)
  <2>1. [req[s] EXCEPT !.pc = "rasp"] \in Request /\ Blank("not found") \in Request
    BY <1>1 DEF Request
  <2>2. /\ [req[s] EXCEPT !.pc = "rasp"].pc = "rasp"
        /\ [req[s] EXCEPT !.pc = "rasp"].doc = req[s].doc
        /\ Blank("not found").pc = "not found" /\ Blank("not found").doc = Local
    BY <1>1 DEF Request, Blank
  <2> HIDE DEF Answered
  <2>3. \/ req' = [req EXCEPT ![s] = [req[s] EXCEPT !.pc = "rasp"]]
        \/ req' = [req EXCEPT ![s] = Blank("not found")]
    BY <1>2 DEF GetRasp
  <2> QED
    BY <1>1, <1>2, <2>1, <2>2, <2>3 DEF GetRasp
<1>3. CASE UpsertRasp(s)
  BY <1>1, <1>3 DEF UpsertRasp, Request
<1>4. CASE GetApp(s)
  BY <1>1, <1>4 DEF GetApp, Request
<1>5. CASE GetSelectedPlugin(s)
  <2>1. selected \in AnyMd5 /\ req[s].doc \in Version
    BY <1>1 DEF AnyMd5, Request
  <2>2. [Blank("update") EXCEPT !.doc = req[s].doc, !.plugin = selected] \in Request
    BY <2>1 DEF Blank, Request
  <2> QED
    BY <1>1, <1>5, <2>2 DEF GetSelectedPlugin, Blank
<1>6. CASE Fail(s)
  BY <1>1, <1>6 DEF Fail, Blank
<1>7. CASE Discard(s)
  BY <1>1, <1>7 DEF Discard, Blank, Free
<1> QED
  BY <1>2, <1>3, <1>4, <1>5, <1>6, <1>7 DEF HandlerStep

\* The actions on one heartbeat request keep the types.
LEMMA HandlerTypes ==
  ASSUME Typed, NEW s \in Slot, HandlerStep(s) \/ Fail(s) \/ Discard(s)
  PROVE  Typed'
<1>1. TypeOK'
  <2> USE HandlerRequests DEF Typed, TypeOK, agentVars, taskVars, modelVars, consoleVars
  <2>1. known' \in BOOLEAN
    BY DEF HandlerStep, GetRasp, UpsertRasp, GetApp, GetSelectedPlugin, Fail, Discard
  <2>2. shown' \in AnyMd5
    <3>1. req[s].md5 \in AnyMd5
      BY DEF Request
    <3> QED
      BY <3>1 DEF HandlerStep, GetRasp, UpsertRasp, GetApp, GetSelectedPlugin, Fail, Discard
  <2>3. events' \in 0..MaxEvents
    BY Counted DEF HandlerStep, GetRasp, UpsertRasp, GetApp, GetSelectedPlugin, Fail, Discard
  <2> QED
    BY <2>1, <2>2, <2>3
<1>2. Claimed'
  BY HandlerRequests DEF Typed, TypeOK, Claimed, agentVars, taskVars
<1> QED
  BY <1>1, <1>2 DEF Typed

\* What a task that takes its answer does to its request.
LEMMA Taken ==
  ASSUME Typed, NEW t \in Task, slot[t] # NoSlot,
         req' = [req EXCEPT ![slot[t]] = Free], slot' = [slot EXCEPT ![t] = NoSlot]
  PROVE  /\ req' \in [Slot -> Request]
         /\ slot' \in [Task -> Slot \cup {NoSlot}]
         /\ \A u, v \in Task : slot'[u] = slot'[v] => u = v \/ slot'[u] = NoSlot
         /\ Claimed'
<1>1. slot[t] \in Slot
  BY DEF Typed, TypeOK
<1>2. \A u \in Task : slot'[u] # NoSlot => u # t /\ slot'[u] = slot[u] /\ slot[u] # slot[t]
  BY DEF Typed, TypeOK
<1>3. \A u \in Task : slot'[u] # NoSlot => req'[slot'[u]] = req[slot[u]]
  BY <1>1, <1>2 DEF Typed, TypeOK
<1> QED
  BY <1>1, <1>2, <1>3, Blanks DEF Typed, TypeOK, Claimed

\* What a task that sends a request does to it.
LEMMA Sent ==
  ASSUME Typed, NEW t \in Task, NEW s \in Slot, slot[t] = NoSlot, Send(t, s)
  PROVE  /\ req' \in [Slot -> Request]
         /\ req'[s].pc = "sent" /\ req'[s].doc = Local
         /\ \A r \in Slot \ {s} : req'[r] = req[r]
         /\ slot' \in [Task -> Slot \cup {NoSlot}]
         /\ \A u, v \in Task : slot'[u] = slot'[v] => u = v \/ slot'[u] = NoSlot
         /\ Claimed'
<1>1. [Free EXCEPT !.pc = "sent", !.time = ctime, !.md5 = md5] \in Request
  BY Blanks DEF Typed, TypeOK, Free, Blank, Request, Answered
<1>2. req' \in [Slot -> Request] /\ \A r \in Slot \ {s} : req'[r] = req[r]
  BY <1>1 DEF Typed, TypeOK, Send
<1>3. req'[s].pc = "sent" /\ req'[s].doc = Local
  BY DEF Typed, TypeOK, Send, Free, Blank
<1>4. \A u \in Task : slot[u] # s
  BY ConstantsAssumption DEF Typed, Claimed, Send, Free, Blank
<1>5. slot'[t] = s /\ \A u \in Task : u # t => slot'[u] = slot[u]
  BY DEF Typed, TypeOK, Send
<1>6. slot' \in [Task -> Slot \cup {NoSlot}]
  BY DEF Typed, TypeOK, Send
<1>7. \A u, v \in Task : slot'[u] = slot'[v] => u = v \/ slot'[u] = NoSlot
  BY <1>4, <1>5 DEF Typed, TypeOK
<1>8. Claimed'
  BY <1>2, <1>3, <1>4, <1>5, <1>6 DEF Typed, TypeOK, Claimed
<1> QED
  BY <1>2, <1>3, <1>6, <1>7, <1>8

\* A step of a heartbeat task keeps the types.
LEMMA TaskTypes == ASSUME Typed, NEW t \in Task, TaskStep(t) PROVE Typed'
<1> USE ConstantsAssumption, Blanks DEF serverVars, consoleVars, taskVars, modelVars, agentVars
<1> DEFINE Shape ==
             /\ mode' \in [Task -> {"idle", "waiting", "configuring", "stamping", "installing",
                                    "recording", "installed", "confirming", "registering"}]
             /\ \A u \in Task \ {t} : mode'[u] = mode[u]
<1>1. ASSUME NEW s \in Slot, Heartbeat(t, s) \/ Confirm(t, s) PROVE Typed'
  <2>1. slot[t] = NoSlot /\ Send(t, s)
    BY <1>1 DEF Typed, TypeOK, Heartbeat, Confirm
  <2>2. Shape /\ mode'[t] \in {"waiting", "confirming"} /\ slot'[t] # NoSlot
    BY <1>1, <2>1 DEF Typed, TypeOK, Heartbeat, Confirm, Goto, Send
  <2>3. \A u \in Task \ {t} : slot'[u] = slot[u]
    BY <2>1 DEF Typed, TypeOK, Send
  <2>4. reply' \in [Task -> Reply]
    BY <1>1 DEF Typed, TypeOK, Heartbeat, Confirm
  <2> QED
    BY <1>1, <2>1, <2>2, <2>3, <2>4, Sent DEF Typed, TypeOK, Heartbeat, Confirm
<1>2. ASSUME Timeout(t) PROVE Typed'
  <2>1. Shape /\ mode'[t] = "idle" /\ overtaken' \in [Task -> BOOLEAN]
    BY <1>2 DEF Typed, TypeOK, Timeout, Goto, StopWaiting
  <2>2. /\ slot' \in [Task -> Slot \cup {NoSlot}] /\ slot'[t] = NoSlot
        /\ \A u \in Task \ {t} : slot'[u] = slot[u]
    BY <1>2 DEF Typed, TypeOK, Timeout, StopWaiting
  <2>3. events' \in 0..MaxEvents
    BY <1>2, Counted DEF Typed, TypeOK, Timeout
  <2>4. TypeOK'
    BY <1>2, <2>1, <2>2, <2>3 DEF Typed, TypeOK, Timeout
  <2>5. Claimed'
    BY <1>2, <2>2 DEF Typed, Claimed, Timeout
  <2> QED
    BY <2>4, <2>5 DEF Typed
<1>3. ASSUME \/ ReceiveUpdate(t) \/ ReceiveNothing(t) \/ ReceiveNotFound(t)
             \/ ReceiveConfirmation(t)
      PROVE  Typed'
  <2> USE <1>3 DEF ReceiveUpdate, ReceiveNothing, ReceiveNotFound, ReceiveConfirmation, Answer,
                   StopWaiting
  <2>1. /\ slot[t] # NoSlot /\ slot[t] \in Slot
        /\ req' = [req EXCEPT ![slot[t]] = Free] /\ slot' = [slot EXCEPT ![t] = NoSlot]
    BY DEF Typed, TypeOK
  <2>2. Shape /\ mode'[t] \in {"idle", "configuring", "registering"}
    BY DEF Typed, TypeOK, Goto
  <2>3. overtaken' \in [Task -> BOOLEAN]
    BY DEF Typed, TypeOK
  <2>4. reply' \in [Task -> Reply]
    <3>1. Update(slot[t]) \in Reply
      BY <2>1 DEF Typed, TypeOK, Update, Reply, Request
    <3> QED
      BY <3>1 DEF Typed, TypeOK
  <2>5. slot'[t] = NoSlot /\ \A u \in Task \ {t} : slot'[u] = slot[u]
    BY <2>1 DEF Typed, TypeOK
  <2>6. UNCHANGED <<consoleVars, known, shown, modelVars, events>>
    OBVIOUS
  <2> HIDE <1>3 DEF ReceiveUpdate, ReceiveNothing, ReceiveNotFound, ReceiveConfirmation, Answer,
                    StopWaiting
  <2> QED
    BY <2>1, <2>2, <2>3, <2>4, <2>5, <2>6, Taken DEF Typed, TypeOK
<1>4. ASSUME \/ LoadConfig(t) \/ StampConfig(t) \/ InstallPlugin(t) \/ InstallFails(t)
             \/ RecordPlugin(t) \/ Unchanged(t) \/ RegisterRasp(t) \/ RegisterUnanswered(t)
      PROVE  Typed'
  <2> USE <1>4 DEF LoadConfig, StampConfig, InstallPlugin, InstallFails, RecordPlugin, Unchanged,
                   RegisterRasp, RegisterUnanswered, Overtake
  <2>1. Shape /\ (mode'[t] \in {"waiting", "confirming"} <=> mode[t] \in {"waiting", "confirming"})
    BY DEF Typed, TypeOK, Goto
  <2>2. UNCHANGED <<slot, req, consoleVars>>
    OBVIOUS
  <2>3. overtaken' \in [Task -> BOOLEAN]
    BY DEF Typed, TypeOK
  <2>4. reply' \in [Task -> Reply]
    <3>1. \A r \in Reply : /\ [r EXCEPT !.doc = Local] \in Reply
                           /\ [r EXCEPT !.md5 = NoMd5] \in Reply
      BY DEF Reply, AnyMd5
    <3>2. reply[t] \in Reply /\ reply \in [Task -> Reply]
      BY DEF Typed, TypeOK
    <3>3. reply' \in {reply, [reply EXCEPT ![t].doc = Local], [reply EXCEPT ![t].md5 = NoMd5],
                     [reply EXCEPT ![t] = NoReply]}
      OBVIOUS
    <3> QED
      BY <3>1, <3>2, <3>3
  <2>5. /\ applied' \in Version /\ ctime' \in Time
        /\ plugin' \in AnyMd5 /\ md5' \in AnyMd5
    BY DEF Typed, TypeOK, Reply, Version
  <2>6. crossed' \in [conf : BOOLEAN, plugin : BOOLEAN]
    BY DEF Typed, TypeOK
  <2>7. known' \in BOOLEAN /\ shown' \in AnyMd5
    BY DEF Typed, TypeOK, AnyMd5
  <2>8. events' \in 0..MaxEvents
    BY Counted DEF Typed, TypeOK
  <2> HIDE <1>4 DEF LoadConfig, StampConfig, InstallPlugin, InstallFails, RecordPlugin, Unchanged,
                    RegisterRasp, RegisterUnanswered, Overtake
  <2> QED
    BY <2>1, <2>2, <2>3, <2>4, <2>5, <2>6, <2>7, <2>8 DEF Typed, TypeOK, Claimed
<1> QED
  BY <1>1, <1>2, <1>3, <1>4 DEF TaskStep, TaskProgress

\* A restart keeps the types.
LEMMA RestartTypes == ASSUME Typed, Restart PROVE Typed'
<1> USE ConstantsAssumption, Blanks DEF Restart, serverVars, consoleVars
<1>1. events' \in 0..MaxEvents
  BY Counted DEF Typed, TypeOK
<1>2. \A t \in Task : mode'[t] = "registering" /\ slot'[t] = NoSlot
  OBVIOUS
<1>3. reply' \in [Task -> Reply] /\ overtaken' \in [Task -> BOOLEAN]
  OBVIOUS
<1> QED
  BY <1>1, <1>2, <1>3 DEF Typed, TypeOK, Claimed, Time, AnyMd5

-----------------------------------------------------------------------------
(***************************************************************************)
(* Copies of the document, and the last to load                            *)
(***************************************************************************)

\* The actions that may change what the agent runs, or what a task holds.
LEMMA TaskKinds ==
  ASSUME Typed, Marks, NEW t \in Task, TaskStep(t)
  PROVE  \/ LoadConfig(t) \/ StampConfig(t) \/ InstallPlugin(t) \/ RecordPlugin(t)
         \/ /\ UNCHANGED <<modelVars, published, doc>>
            /\ \A u \in Task \ {t} : /\ mode'[u] = mode[u] /\ reply'[u] = reply[u]
                                     /\ overtaken'[u] = overtaken[u] /\ slot'[u] = slot[u]
            /\ mode[t] \notin {"stamping", "recording"}
            /\ mode'[t] \notin {"stamping", "recording"}
            /\ overtaken'[t] => mode'[t] \in {"waiting", "configuring"}
<1> DEFINE Else == /\ \A u \in Task \ {t} : /\ mode'[u] = mode[u] /\ reply'[u] = reply[u]
                                           /\ overtaken'[u] = overtaken[u] /\ slot'[u] = slot[u]
                   /\ mode[t] \notin {"stamping", "recording"}
                   /\ mode'[t] \notin {"stamping", "recording"}
                   /\ overtaken'[t] => mode'[t] \in {"waiting", "configuring"}
<1> USE DEF Typed, TypeOK, Goto, StopWaiting, Marks, UnderWay
<1>1. ASSUME NEW s \in Slot, Heartbeat(t, s) \/ Confirm(t, s)
      PROVE  Else /\ UNCHANGED <<modelVars, published, doc>>
  BY <1>1 DEF Heartbeat, Confirm, Send, consoleVars
<1>2. ASSUME Timeout(t) PROVE Else /\ UNCHANGED <<modelVars, published, doc>>
  BY <1>2 DEF Timeout, consoleVars
<1>3. ASSUME \/ ReceiveUpdate(t) \/ ReceiveNothing(t) \/ ReceiveNotFound(t)
             \/ ReceiveConfirmation(t)
      PROVE  Else /\ UNCHANGED <<modelVars, published, doc>>
  <2>1. UNCHANGED <<modelVars, published, doc>>
    BY <1>3 DEF ReceiveUpdate, ReceiveNothing, ReceiveNotFound, ReceiveConfirmation, consoleVars
  <2>2. mode[t] \in {"waiting", "confirming"}
    BY <1>3 DEF ReceiveUpdate, ReceiveNothing, ReceiveNotFound, ReceiveConfirmation, Answer
  <2>3. CASE ReceiveUpdate(t)
    BY <2>1, <2>3, <2>2 DEF ReceiveUpdate
  <2>4. CASE ReceiveNothing(t) \/ ReceiveNotFound(t) \/ ReceiveConfirmation(t)
    BY <2>1, <2>4, <2>2 DEF ReceiveNothing, ReceiveNotFound, ReceiveConfirmation
  <2> QED
    BY <1>3, <2>3, <2>4
<1>4. ASSUME InstallFails(t) \/ Unchanged(t) \/ RegisterRasp(t) \/ RegisterUnanswered(t)
      PROVE  Else /\ UNCHANGED <<modelVars, published, doc>>
  BY <1>4 DEF InstallFails, Unchanged, RegisterRasp, RegisterUnanswered, agentVars, taskVars,
              consoleVars
<1> QED
  BY <1>1, <1>2, <1>3, <1>4 DEF TaskStep, TaskProgress

\* What a task holds in its hands is a copy of what it was given, or nothing.
LEMMA RepliesCopied ==
  ASSUME Typed, Copies, NEW t \in Task, TaskStep(t)
  PROVE  /\ \A u \in Task : reply'[u].doc \in published
         /\ \A s \in Slot : req'[s].doc \in published
         /\ UNCHANGED <<doc, published>>
<1> USE DEF Typed, TypeOK, Copies
<1>1. ASSUME NEW s \in Slot, Heartbeat(t, s) \/ Confirm(t, s)
      PROVE  \A r \in Slot : req'[r].doc \in published
  <2>1. slot[t] = NoSlot /\ Send(t, s)
    BY <1>1 DEF Heartbeat, Confirm
  <2> QED
    BY <2>1, Sent
<1>2. ASSUME \/ ReceiveUpdate(t) \/ ReceiveNothing(t) \/ ReceiveNotFound(t)
             \/ ReceiveConfirmation(t)
      PROVE  \A r \in Slot : req'[r].doc \in published
  <2>1. slot[t] \in Slot /\ req' = [req EXCEPT ![slot[t]] = Free]
    BY <1>2, ConstantsAssumption
    DEF ReceiveUpdate, ReceiveNothing, ReceiveNotFound, ReceiveConfirmation, Answer
  <2> QED
    BY <2>1 DEF Free, Blank
<1>3. ASSUME \/ Timeout(t) \/ LoadConfig(t) \/ StampConfig(t) \/ InstallPlugin(t)
             \/ InstallFails(t) \/ RecordPlugin(t) \/ Unchanged(t) \/ RegisterRasp(t)
             \/ RegisterUnanswered(t)
      PROVE  req' = req
  BY <1>3 DEF Timeout, LoadConfig, StampConfig, InstallPlugin, InstallFails, RecordPlugin,
              Unchanged, RegisterRasp, RegisterUnanswered, serverVars
<1>4. \A s \in Slot : req'[s].doc \in published
  BY <1>1, <1>2, <1>3 DEF TaskStep, TaskProgress
<1>5. UNCHANGED <<doc, published>>
  BY DEF TaskStep, TaskProgress, Heartbeat, Confirm, Timeout, ReceiveUpdate, ReceiveNothing,
         ReceiveNotFound, ReceiveConfirmation, LoadConfig, StampConfig, InstallPlugin,
         InstallFails, RecordPlugin, Unchanged, RegisterRasp, RegisterUnanswered, consoleVars
<1>6. \A u \in Task : reply'[u].doc \in published
  <2>1. CASE ReceiveUpdate(t)
    <3>1. slot[t] \in Slot
      BY <2>1, ConstantsAssumption DEF ReceiveUpdate, Answer
    <3> QED
      BY <2>1, <3>1 DEF ReceiveUpdate, Update
  <2>2. CASE \/ \E s \in Slot : Heartbeat(t, s)
             \/ Timeout(t) \/ ReceiveNothing(t) \/ ReceiveNotFound(t) \/ ReceiveConfirmation(t)
             \/ LoadConfig(t) \/ InstallPlugin(t) \/ RegisterRasp(t) \/ RegisterUnanswered(t)
    BY <2>2 DEF Heartbeat, Timeout, ReceiveNothing, ReceiveNotFound, ReceiveConfirmation,
                LoadConfig, InstallPlugin, RegisterRasp, RegisterUnanswered, agentVars, taskVars
  <2>3. CASE StampConfig(t) \/ InstallFails(t) \/ RecordPlugin(t)
    BY <2>3 DEF StampConfig, InstallFails, RecordPlugin, Reply
  <2>4. CASE Unchanged(t) \/ \E s \in Slot : Confirm(t, s)
    BY <2>4 DEF Unchanged, Confirm, NoReply
  <2> QED
    BY <2>1, <2>2, <2>3, <2>4 DEF TaskStep, TaskProgress
<1> QED
  BY <1>4, <1>5, <1>6

\* A task that loads (installs) is from then on the last to have done so; a
\* task that stamps (records) without being the last has crossed another.
LEMMA TaskRuns ==
  ASSUME Typed, Copies, Runs, NEW t \in Task, TaskStep(t)
  PROVE  Copies' /\ Runs'
<1> USE RepliesCopied DEF Typed, TypeOK, Copies, Runs, HoldsPublished, StampIsApplied,
        Md5IsPlugin, Marks, LastToLoad, LastToInstall, Goto
<1>1. CASE LoadConfig(t)
  <2>1. /\ mode'[t] = "stamping" /\ ~overtaken'[t] /\ reply' = reply /\ applied' = reply[t].doc
        /\ UNCHANGED <<ctime, plugin, md5, crossed>>
    BY <1>1 DEF LoadConfig, Overtake
  <2>2. \A u \in Task \ {t} : /\ mode'[u] = mode[u]
                              /\ overtaken'[u] <=> overtaken[u] \/ mode[u] \in UnderWay
    BY <1>1 DEF LoadConfig, Overtake
  <2>3. HoldsPublished'
    <3>1. ASSUME NEW u \in Task, mode[u] = "recording", ~overtaken[u]
          PROVE  mode'[u] = "recording" /\ ~overtaken'[u]
      BY <1>1, <2>2, <3>1 DEF LoadConfig, UnderWay
    <3> QED
      BY <2>1, <3>1
  <2>4. Marks' /\ LastToLoad' /\ LastToInstall'
    BY <2>1, <2>2 DEF UnderWay
  <2> QED
    BY <2>1, <2>3, <2>4
<1>2. CASE StampConfig(t)
  <2>1. /\ mode'[t] = "installing" /\ ~overtaken'[t] /\ ctime' = reply[t].doc.time
        /\ mode[t] = "stamping"
        /\ crossed'.conf = overtaken[t] /\ crossed'.plugin = crossed.plugin
        /\ UNCHANGED <<applied, plugin, md5>>
    BY <1>2 DEF StampConfig
  <2>2. \A u \in Task \ {t} : /\ mode'[u] = mode[u] /\ overtaken'[u] = overtaken[u]
                              /\ reply'[u] = reply[u]
    BY <1>2 DEF StampConfig
  <2>3. ctime' = applied'.time \/ crossed'.conf
    BY <2>1
  <2>4. Md5IsPlugin' \/ \E u \in Task : mode'[u] = "recording" /\ ~overtaken'[u]
    BY <2>1, <2>2
  <2> QED
    BY <2>1, <2>2, <2>3, <2>4
<1>3. CASE InstallPlugin(t)
  <2>1. /\ mode'[t] = "recording" /\ ~overtaken'[t] /\ reply' = reply /\ plugin' = reply[t].md5
        /\ mode[t] = "installing" /\ UNCHANGED <<applied, ctime, md5, crossed>>
    BY <1>3 DEF InstallPlugin, Overtake
  <2>2. \A u \in Task \ {t} : /\ mode'[u] = mode[u]
                              /\ overtaken'[u] <=> overtaken[u] \/ mode[u] = "recording"
    BY <1>3 DEF InstallPlugin, Overtake
  <2>3. StampIsApplied' \/ \E u \in Task : mode'[u] = "stamping" /\ ~overtaken'[u]
    BY <2>1, <2>2
  <2> QED
    BY <2>1, <2>2, <2>3 DEF UnderWay
<1>4. CASE RecordPlugin(t)
  <2>1. /\ mode'[t] = "installed" /\ ~overtaken'[t] /\ md5' = reply[t].md5
        /\ mode[t] = "recording"
        /\ crossed'.plugin = overtaken[t] /\ crossed'.conf = crossed.conf
        /\ UNCHANGED <<applied, ctime, plugin>>
    BY <1>4 DEF RecordPlugin
  <2>2. \A u \in Task \ {t} : /\ mode'[u] = mode[u] /\ overtaken'[u] = overtaken[u]
                              /\ reply'[u] = reply[u]
    BY <1>4 DEF RecordPlugin
  <2>3. plugin' = md5' \/ crossed'.plugin
    BY <2>1
  <2>4. StampIsApplied' \/ \E u \in Task : mode'[u] = "stamping" /\ ~overtaken'[u]
    BY <2>1, <2>2
  <2> QED
    BY <2>1, <2>2, <2>3, <2>4
<1>5. CASE /\ UNCHANGED <<modelVars, published, doc>>
           /\ \A u \in Task \ {t} : /\ mode'[u] = mode[u] /\ reply'[u] = reply[u]
                                    /\ overtaken'[u] = overtaken[u] /\ slot'[u] = slot[u]
           /\ mode[t] \notin {"stamping", "recording"}
           /\ mode'[t] \notin {"stamping", "recording"}
           /\ overtaken'[t] => mode'[t] \in {"waiting", "configuring"}
  BY <1>5 DEF modelVars, UnderWay
<1> QED
  BY <1>1, <1>2, <1>3, <1>4, <1>5, TaskKinds

\* Only Write adds a value of the document, only GetApp copies it, and only
\* tasks carry the copies to the agent.
LEMMA AnyStep == ASSUME AnyConsole, Next PROVE AnyConsole'
<1> USE DEF AnyConsole
<1>1. CASE ConsoleStep
  <2>1. UNCHANGED <<req, agentVars>> /\ published \subseteq published' /\ doc' \in published'
    BY <1>1 DEF ConsoleStep, Write, Stamp, SelectPlugin, RemoveRasp, consoleVars, serverVars,
                Copies
  <2> QED
    BY <1>1, <2>1, ConsoleTypes
    DEF Copies, Runs, Marks, LastToLoad, LastToInstall, HoldsPublished, StampIsApplied,
        Md5IsPlugin, agentVars, taskVars, modelVars
<1>2. ASSUME NEW s \in Slot, HandlerStep(s) \/ Fail(s) \/ Discard(s) PROVE AnyConsole'
  <2>1. UNCHANGED <<published, doc, agentVars>>
    BY <1>2, HandlerRequests DEF consoleVars
  <2>2. \A r \in Slot : req'[r].doc \in published
    BY <1>2, HandlerRequests DEF Copies
  <2> QED
    BY <1>2, <2>1, <2>2, HandlerTypes
    DEF Copies, Runs, Marks, LastToLoad, LastToInstall, HoldsPublished, StampIsApplied,
        Md5IsPlugin, agentVars, taskVars, modelVars
<1>3. ASSUME NEW t \in Task, TaskStep(t) PROVE AnyConsole'
  BY <1>3, TaskTypes, TaskRuns
<1>4. CASE Restart
  <2>1. /\ UNCHANGED <<published, doc, req>> /\ applied' = Local /\ ctime' = 0
        /\ plugin' = NoMd5 /\ md5' = NoMd5
        /\ \A t \in Task : mode'[t] = "registering" /\ reply'[t] = NoReply /\ ~overtaken'[t]
    BY <1>4 DEF Restart, consoleVars, serverVars
  <2> QED
    BY <1>4, <2>1, RestartTypes
    DEF Copies, Runs, Marks, LastToLoad, LastToInstall, HoldsPublished, StampIsApplied,
        Md5IsPlugin, NoReply, Local
<1> QED
  BY <1>1, <1>2, <1>3, <1>4 DEF Next

\* With any overlap of console requests and of heartbeat tasks.
THEOREM Invariance == Spec => []AnyConsole
<1>1. Init => AnyConsole
  BY InitInv
<1>2. AnyConsole /\ [Next]_vars => AnyConsole'
  <2>1. ASSUME AnyConsole, UNCHANGED vars PROVE AnyConsole'
    BY <2>1 DEF AnyConsole, Typed, TypeOK, Claimed, Copies, Runs, Marks, LastToLoad,
                LastToInstall, HoldsPublished, StampIsApplied, Md5IsPlugin, vars, consoleVars,
                serverVars, agentVars, taskVars, modelVars
  <2> QED
    BY <2>1, AnyStep
<1> QED
  BY <1>1, <1>2, PTL DEF Spec

\* Types, the places where a task waits, and no two tasks for one request.
THEOREM TypeCorrect == Spec => []TypeOK
  BY Invariance, PTL DEF AnyConsole, Typed

\* Whatever console requests and heartbeat tasks overlap and whatever is lost
\* or late, the agent runs a version the document has had as a whole; its stamp
\* and md5 are those of what it runs but while the last task to load (install)
\* has not stamped (recorded) it, and after a crossing.
THEOREM HoldsPublishedHolds == Spec => []HoldsPublished
  BY Invariance, PTL DEF AnyConsole, Runs

-----------------------------------------------------------------------------
(***************************************************************************)
(* One console request at a time                                           *)
(***************************************************************************)

\* Only console steps change the console's variables.
LEMMA ConsoleAlone ==
  ASSUME Typed, Next, ~ConsoleStep
  PROVE  UNCHANGED consoleVars
<1>1. ASSUME NEW t \in Task, TaskStep(t) PROVE UNCHANGED consoleVars
  BY <1>1 DEF TaskStep, TaskProgress, Heartbeat, Confirm, Timeout, ReceiveUpdate,
     ReceiveNothing, ReceiveNotFound, ReceiveConfirmation, LoadConfig, StampConfig,
     InstallPlugin, InstallFails, RecordPlugin, Unchanged, RegisterRasp, RegisterUnanswered
<1>2. Restart => UNCHANGED consoleVars
  BY DEF Restart
<1> QED
  BY <1>1, <1>2, HandlerRequests DEF Next

\* Stamps are written in the order they are taken.
LEMMA StampsStep ==
  ASSUME OneAtATime, OneRequest, Next
  PROVE  StampsInOrder'
<1> USE DEF OneRequest, AnyConsole, Typed, TypeOK, StampsInOrder
<1>1. ASSUME NEW a \in Admin, Write(a) PROVE StampsInOrder'
  <2>1. doc'.time = edit[a].time /\ published' = published \cup {doc'} /\ clock' = clock
    BY <1>1 DEF Write, Version
  <2>2. \A b \in Admin : edit'[b] = NoEdit
    BY <1>1 DEF Write, OneAtATime
  <2>3. doc'.time > doc.time /\ doc'.time \in Nat /\ doc.time \in Nat
    <3>1. edit[a] # NoEdit /\ edit[a] \in Edit /\ doc \in Version
      BY <1>1 DEF Write
    <3> QED
      BY <2>1, <3>1 DEF Edit, Version, Time
  <2>4. \A v \in published' : v.time <= doc'.time
    BY <2>1, <2>3 DEF Version, Time
  <2>5. doc'.time <= clock'
    BY <1>1, <2>1 DEF Write
  <2>6. NoEdit.time <= clock'
    BY <2>1 DEF NoEdit, Time
  <2> QED
    BY <2>2, <2>4, <2>5, <2>6
<1>2. ASSUME NEW a \in Admin, NEW part \in Part, Stamp(a, part) PROVE StampsInOrder'
  <2>1. clock' > doc.time /\ doc.time <= clock'
    BY <1>2 DEF Stamp, Version, Time
  <2>2. \A b \in Admin : edit'[b].time = clock'
    BY <1>2 DEF Stamp, OneAtATime
  <2> QED
    BY <1>2, <2>1, <2>2 DEF Stamp
<1>3. CASE \E p \in Md5 : SelectPlugin(p)
  BY <1>3 DEF SelectPlugin
<1>4. CASE UNCHANGED consoleVars
  BY <1>4 DEF consoleVars
<1>5. CASE RemoveRasp
  BY <1>4, <1>5 DEF RemoveRasp
<1> QED
  BY <1>1, <1>2, <1>3, <1>4, <1>5, ConsoleAlone DEF ConsoleStep

\* Only an answer to the request a task waits for is ever applied, its handler
\* has read the document while the task waited, and whoever delivers in between
\* overtakes it.
LEMMA NotOlderStep ==
  ASSUME OneRequest, Next
  PROVE  NotOlder'
<1>1. /\ Typed /\ Marks /\ NotOlder /\ applied.time <= doc.time
      /\ applied.time \in Nat /\ doc.time \in Nat
  BY DEF OneRequest, AnyConsole, Runs, Typed, TypeOK, Copies, StampsInOrder, Version, Time
<1>2. CASE ConsoleStep
  BY <1>1, <1>2 DEF ConsoleStep, Write, Stamp, SelectPlugin, RemoveRasp, serverVars, agentVars,
                    taskVars, modelVars, NotOlder
<1>3. ASSUME NEW s \in Slot, HandlerStep(s) \/ Fail(s) \/ Discard(s) PROVE NotOlder'
  <2>1. UNCHANGED <<mode, slot, reply, overtaken, applied>>
    BY <1>1, <1>3, HandlerRequests DEF agentVars, taskVars, modelVars
  <2>2. SUFFICES ASSUME NEW t \in Task, ~overtaken[t], mode[t] = "waiting",
                        req'[slot[t]].pc \in {"app", "update"}
                 PROVE  req'[slot[t]].doc.time >= applied.time
    BY <1>1, <2>1 DEF NotOlder
  <2>3. slot[t] \in Slot
    BY <1>1, <2>2 DEF Typed, TypeOK
  <2>4. CASE slot[t] # s
    BY <1>1, <1>3, <2>2, <2>3, <2>4, HandlerRequests DEF NotOlder
  <2>5. CASE slot[t] = s
    <3>1. req'[s].doc = doc \/ (req[s].pc = "app" /\ req'[s].doc = req[s].doc)
      BY <1>1, <1>3, <2>2, <2>5, HandlerRequests
    <3> QED
      BY <1>1, <2>2, <2>5, <3>1 DEF NotOlder
  <2> QED
    BY <2>4, <2>5
<1>4. ASSUME NEW t \in Task, TaskStep(t) PROVE NotOlder'
  <2> USE DEF Typed, TypeOK, Goto
  <2>1. ASSUME NEW s \in Slot, Heartbeat(t, s) \/ Confirm(t, s) PROVE NotOlder'
    <3>1. slot[t] = NoSlot /\ Send(t, s)
      BY <1>1, <2>1 DEF Heartbeat, Confirm
    <3>2. /\ slot'[t] = s /\ mode'[t] # "configuring"
          /\ UNCHANGED <<overtaken, applied>>
          /\ \A u \in Task \ {t} : slot'[u] = slot[u] /\ mode'[u] = mode[u] /\ reply'[u] = reply[u]
      BY <1>1, <2>1 DEF Heartbeat, Confirm, Send, modelVars
    <3>3. req'[s].pc = "sent" /\ \A r \in Slot \ {s} : req'[r] = req[r]
      BY <1>1, <3>1, Sent
    <3> QED
      BY <1>1, <3>2, <3>3, ConstantsAssumption DEF NotOlder
  <2>2. ASSUME \/ ReceiveUpdate(t) \/ ReceiveNothing(t) \/ ReceiveNotFound(t)
               \/ ReceiveConfirmation(t)
        PROVE  NotOlder'
    <3>1. /\ slot[t] \in Slot /\ req' = [req EXCEPT ![slot[t]] = Free] /\ applied' = applied
          /\ mode[t] \in {"waiting", "confirming"} /\ mode'[t] # "waiting"
      BY <1>1, <2>2, ConstantsAssumption
      DEF ReceiveUpdate, ReceiveNothing, ReceiveNotFound, ReceiveConfirmation, Answer, modelVars
    <3>2. \A u \in Task \ {t} : /\ mode'[u] = mode[u] /\ reply'[u] = reply[u]
                                /\ overtaken'[u] = overtaken[u] /\ slot'[u] = slot[u]
      BY <1>1, <2>2 DEF ReceiveUpdate, ReceiveNothing, ReceiveNotFound, ReceiveConfirmation,
                        StopWaiting
    <3>3. \A r \in Slot : req'[r] = req[r] \/ req'[r].pc = "free"
      BY <1>1, <3>1 DEF Free, Blank
    <3>4. ASSUME mode'[t] = "configuring", ~overtaken'[t] PROVE reply'[t].doc.time >= applied.time
      <4>1. ReceiveUpdate(t)
        BY <1>1, <2>2, <3>4 DEF ReceiveUpdate, ReceiveNothing, ReceiveNotFound,
                                ReceiveConfirmation
      <4> QED
        BY <1>1, <3>4, <4>1 DEF ReceiveUpdate, Answer, Update, NotOlder
    <3> QED
      BY <1>1, <3>1, <3>2, <3>3, <3>4, ConstantsAssumption DEF NotOlder
  <2>3. CASE LoadConfig(t)
    <3>1. mode'[t] = "stamping" /\ UNCHANGED <<slot, reply, req>>
      BY <1>1, <2>3 DEF LoadConfig, serverVars
    <3>2. \A u \in Task \ {t} :
            mode'[u] = mode[u] /\ (mode[u] \in {"waiting", "configuring"} => overtaken'[u])
      BY <1>1, <2>3 DEF LoadConfig, Overtake, UnderWay
    <3> QED
      BY <3>1, <3>2 DEF NotOlder
  <2>4. CASE InstallPlugin(t)
    <3>1. mode'[t] = "recording" /\ UNCHANGED <<slot, reply, req, applied>>
      BY <1>1, <2>4 DEF InstallPlugin, serverVars
    <3>2. \A u \in Task \ {t} : mode'[u] = mode[u] /\ (overtaken[u] => overtaken'[u])
      BY <1>1, <2>4 DEF InstallPlugin, Overtake
    <3> QED
      BY <1>1, <3>1, <3>2 DEF NotOlder
  <2>5. CASE \/ Timeout(t) \/ StampConfig(t) \/ InstallFails(t) \/ RecordPlugin(t)
             \/ Unchanged(t) \/ RegisterRasp(t) \/ RegisterUnanswered(t)
    <3>1. /\ applied' = applied /\ req' = req
          /\ mode'[t] \notin {"waiting", "configuring"}
      BY <1>1, <2>5 DEF Timeout, StampConfig, InstallFails, RecordPlugin, Unchanged,
                        RegisterRasp, RegisterUnanswered, modelVars, serverVars, agentVars, taskVars
    <3>2. \A u \in Task \ {t} : /\ mode'[u] = mode[u] /\ reply'[u] = reply[u]
                                /\ overtaken'[u] = overtaken[u] /\ slot'[u] = slot[u]
      BY <1>1, <2>5 DEF Timeout, StampConfig, InstallFails, RecordPlugin, Unchanged,
                        RegisterRasp, RegisterUnanswered, agentVars, taskVars, StopWaiting
    <3> QED
      BY <1>1, <3>1, <3>2 DEF NotOlder
  <2> QED
    BY <1>4, <2>1, <2>2, <2>3, <2>4, <2>5 DEF TaskStep, TaskProgress
<1>5. CASE Restart
  BY <1>5 DEF Restart, NotOlder
<1> QED
  BY <1>2, <1>3, <1>4, <1>5 DEF Next

\* With one console request at a time.
THEOREM OneRequestInvariance == ASSUME OneAtATime PROVE Spec => []OneRequest
<1>1. Init => OneRequest
  BY InitInv DEF OneRequest
<1>2. OneRequest /\ AnyConsole' /\ [Next]_vars => OneRequest'
  <2>1. ASSUME OneRequest, UNCHANGED vars PROVE StampsInOrder' /\ NotOlder'
    BY <2>1 DEF OneRequest, StampsInOrder, NotOlder, vars, consoleVars, serverVars, agentVars,
                taskVars, modelVars
  <2> QED
    BY <2>1, OneAtATime, StampsStep, NotOlderStep DEF OneRequest
<1> QED
  BY <1>1, <1>2, Invariance, PTL DEF Spec

\* Neither what an agent runs nor the stamp it reports is ever ahead of the
\* document, however its tasks interleave.
THEOREM NeverAheadHolds == ASSUME OneAtATime PROVE Spec => []NeverAhead
<1>1. OneRequest => NeverAhead
  BY DEF OneRequest, AnyConsole, Copies, StampsInOrder, NeverAhead
<1> QED
  BY <1>1, OneRequestInvariance, PTL

-----------------------------------------------------------------------------
(***************************************************************************)
(* Delivery                                                                *)
(***************************************************************************)

\* The configuration is loaded by LoadConfig and dropped by Restart, and by
\* nothing else.
LEMMA AppliedChanges ==
  ASSUME Next
  PROVE  applied' = applied \/ Restart \/ \E t \in Task : LoadConfig(t)
<1>1. ASSUME NEW t \in Task, TaskStep(t) PROVE applied' = applied \/ LoadConfig(t)
  BY <1>1 DEF TaskStep, TaskProgress, Heartbeat, Confirm, Timeout, ReceiveUpdate,
     ReceiveNothing, ReceiveNotFound, ReceiveConfirmation, StampConfig, InstallPlugin,
     InstallFails, RecordPlugin, Unchanged, RegisterRasp, RegisterUnanswered, agentVars, modelVars
<1>2. ASSUME NEW s \in Slot, HandlerStep(s) \/ Fail(s) \/ Discard(s) PROVE applied' = applied
  BY <1>2 DEF HandlerStep, GetRasp, UpsertRasp, GetApp, GetSelectedPlugin, Fail, Discard,
              agentVars, modelVars
<1>3. ConsoleStep => applied' = applied
  BY DEF ConsoleStep, Write, Stamp, SelectPlugin, RemoveRasp, agentVars, modelVars
<1> QED
  BY <1>1, <1>2, <1>3 DEF Next

\* A step of the system is a step of SharedDelivery or a stutter.
LEMMA DeliveryStep ==
  ASSUME OneRequest, [Next]_vars
  PROVE  [Delivery!Next]_<<published, applied, [t \in Task |-> Asked(t)]>>
<1> DEFINE Marked == [t \in Task |-> Asked(t)]
<1> DEFINE Rest(t) == \A u \in Task \ {t} : mode'[u] = mode[u] /\ overtaken'[u] = overtaken[u]
<1>1. /\ OneRequest /\ AnyConsole /\ Typed /\ TypeOK /\ Marks /\ NotOlder
  BY DEF OneRequest, AnyConsole, Typed, Runs
<1>2. ASSUME UNCHANGED <<mode, overtaken>> PROVE Marked' = Marked
  BY <1>2 DEF Asked
<1>3. CASE UNCHANGED vars
  BY <1>2, <1>3 DEF vars, consoleVars, agentVars, taskVars, modelVars
<1>4. CASE ConsoleStep
  <2>1. UNCHANGED <<mode, overtaken, applied>>
    BY <1>4 DEF ConsoleStep, Write, Stamp, SelectPlugin, RemoveRasp, agentVars, taskVars, modelVars
  <2>2. published' = published \/ \E v \in Version : published' = published \cup {v}
    <3>1. ASSUME NEW a \in Admin, Write(a) PROVE \E v \in Version : published' = published \cup {v}
      <4>1. doc' \in Version
        BY <1>1, <1>4, ConsoleTypes DEF Typed, TypeOK
      <4> QED
        BY <3>1, <4>1 DEF Write
    <3> QED
      BY <1>4, <3>1 DEF ConsoleStep, Stamp, SelectPlugin, RemoveRasp, consoleVars
  <2> QED
    BY <1>2, <2>1, <2>2 DEF Delivery!Next, Delivery!Publish
<1>5. ASSUME NEW s \in Slot, HandlerStep(s) \/ Fail(s) \/ Discard(s)
      PROVE  UNCHANGED <<published, applied, Marked>>
  BY <1>1, <1>2, <1>5, HandlerRequests DEF consoleVars, agentVars, taskVars, modelVars
<1>6. CASE Restart
  <2>1. applied' = Local /\ published' = published
    BY <1>6 DEF Restart, consoleVars
  <2>2. Marked' = [t \in Task |-> "no"]
    BY <1>6 DEF Restart, Asked
  <2> QED
    BY <2>1, <2>2 DEF Delivery!Next, Delivery!Restart
<1>7. ASSUME NEW t \in Task, TaskStep(t) PROVE Delivery!Next \/ UNCHANGED <<published, applied, Marked>>
  <2>1. published' = published
    BY <1>1, <1>7, RepliesCopied DEF AnyConsole
  <2>2. CASE LoadConfig(t)
    <3>1. /\ applied' = reply[t].doc /\ reply[t].doc \in published
          /\ Asked(t) # "no" /\ (Asked(t) = "fresh" => reply[t].doc.time >= applied.time)
      BY <1>1, <2>2 DEF LoadConfig, AnyConsole, Copies, NotOlder, Asked
    <3>2. Marked' = [u \in Task |-> IF u = t \/ Marked[u] = "no" THEN "no" ELSE "stale"]
      <4>1. /\ mode'[t] = "stamping"
            /\ \A u \in Task \ {t} : /\ mode'[u] = mode[u]
                                     /\ mode[u] \in UnderWay => overtaken'[u]
        BY <1>1, <2>2 DEF LoadConfig, Overtake, Goto, TypeOK
      <4>2. ASSUME NEW u \in Task
            PROVE  Asked(u)' = IF u = t \/ Asked(u) = "no" THEN "no" ELSE "stale"
        <5>1. CASE u = t
          BY <4>1, <5>1 DEF Asked
        <5>2. CASE u # t /\ mode[u] \in {"waiting", "configuring"}
          <6>1. mode'[u] = mode[u] /\ overtaken'[u]
            BY <4>1, <5>2 DEF UnderWay
          <6>2. Asked(u)' = "stale" /\ Asked(u) # "no"
            BY <5>2, <6>1 DEF Asked
          <6> QED
            BY <5>2, <6>2
        <5>3. CASE u # t /\ mode[u] \notin {"waiting", "configuring"}
          BY <4>1, <5>3 DEF Asked
        <5> QED
          BY <5>1, <5>2, <5>3
      <4> QED
        BY <4>2
    <3>3. Delivery!Deliver(t)
      BY <2>1, <3>1, <3>2 DEF Delivery!Deliver
    <3> QED
      BY <3>3 DEF Delivery!Next
  <2>3. ASSUME NEW s \in Slot, Heartbeat(t, s) PROVE Delivery!Next
    <3>1. /\ mode[t] = "idle" /\ mode'[t] = "waiting" /\ ~overtaken'[t]
          /\ Rest(t) /\ applied' = applied
      BY <1>1, <2>3 DEF Heartbeat, Send, Goto, TypeOK, Marks, UnderWay, modelVars
    <3>2. Asked(t) = "no" /\ Asked(t)' = "fresh" /\ \A u \in Task \ {t} : Asked(u)' = Asked(u)
      BY <3>1 DEF Asked
    <3>3. Marked' = [Marked EXCEPT ![t] = "fresh"]
      BY <3>2
    <3> QED
      BY <2>1, <3>1, <3>2, <3>3 DEF Delivery!Next, Delivery!Ask
  <2>4. CASE Timeout(t) \/ ReceiveNothing(t) \/ ReceiveNotFound(t) \/ ReceiveConfirmation(t)
    <3>1. mode'[t] \in {"idle", "registering"} /\ Rest(t) /\ applied' = applied
      BY <1>1, <2>4 DEF Timeout, ReceiveNothing, ReceiveNotFound, ReceiveConfirmation, Goto,
                        StopWaiting, TypeOK, modelVars
    <3>2. Asked(t)' = "no" /\ \A u \in Task \ {t} : Asked(u)' = Asked(u)
      BY <3>1 DEF Asked
    <3>3. Marked' = [Marked EXCEPT ![t] = "no"]
      BY <3>2
    <3> QED
      BY <2>1, <3>1, <3>3 DEF Delivery!Next, Delivery!Drop
  <2>5. CASE ReceiveUpdate(t)
    <3>1. /\ mode[t] = "waiting" /\ mode'[t] = "configuring" /\ overtaken' = overtaken
          /\ Rest(t) /\ applied' = applied
      BY <1>1, <2>5 DEF ReceiveUpdate, Answer, Goto, TypeOK, modelVars
    <3>2. \A u \in Task : Asked(u)' = Asked(u)
      BY <3>1 DEF Asked
    <3> QED
      BY <2>1, <3>1, <3>2
  <2>6. CASE InstallPlugin(t)
    <3>1. /\ mode[t] = "installing" /\ mode'[t] = "recording" /\ applied' = applied
          /\ \A u \in Task \ {t} : /\ mode'[u] = mode[u]
                                   /\ mode[u] # "recording" => (overtaken'[u] <=> overtaken[u])
      BY <1>1, <2>6 DEF InstallPlugin, Overtake, Goto, TypeOK
    <3>2. ASSUME NEW u \in Task PROVE Asked(u)' = Asked(u)
      <4>1. CASE u # t /\ mode[u] \in {"waiting", "configuring"}
        BY <3>1, <4>1 DEF Asked
      <4>2. CASE u = t \/ mode[u] \notin {"waiting", "configuring"}
        BY <3>1, <4>2 DEF Asked
      <4> QED
        BY <4>1, <4>2
    <3> QED
      BY <2>1, <3>1, <3>2
  <2>7. CASE \/ StampConfig(t) \/ InstallFails(t) \/ RecordPlugin(t) \/ Unchanged(t)
             \/ RegisterRasp(t) \/ RegisterUnanswered(t) \/ \E s \in Slot : Confirm(t, s)
    <3>1. /\ mode[t] \notin {"waiting", "configuring"} /\ mode'[t] \notin {"waiting", "configuring"}
          /\ Rest(t) /\ applied' = applied
      BY <1>1, <2>7 DEF StampConfig, InstallFails, RecordPlugin, Unchanged, RegisterRasp,
                        RegisterUnanswered, Confirm, Goto, TypeOK, agentVars, taskVars, modelVars
    <3>2. \A u \in Task : Asked(u)' = Asked(u)
      BY <3>1 DEF Asked
    <3> QED
      BY <2>1, <3>1, <3>2
  <2> QED
    BY <1>7, <2>2, <2>3, <2>4, <2>5, <2>6, <2>7 DEF TaskStep, TaskProgress
<1> QED
  BY <1>3, <1>4, <1>5, <1>6, <1>7 DEF Next

\* The agent goes back to an older configuration only by the answer of a task
\* that another one has overtaken, whatever is lost, late or restarted.
THEOREM DeliveryImplemented == ASSUME OneAtATime PROVE Spec => ImplementsDelivery
<1>1. Init => Delivery!Init
  <2>1. ASSUME Init PROVE [t \in Task |-> Asked(t)] = [t \in Task |-> "no"]
    BY <2>1 DEF Init, Asked
  <2> QED
    BY <2>1, Blanks DEF Init, Delivery!Init
<1>2. OneRequest /\ [Next]_vars => [Delivery!Next]_<<published, applied, [t \in Task |-> Asked(t)]>>
  BY DeliveryStep
<1> QED
  BY <1>1, <1>2, OneRequestInvariance, PTL DEF Spec, ImplementsDelivery, Delivery!Spec

-----------------------------------------------------------------------------
(***************************************************************************)
(* One heartbeat task                                                      *)
(***************************************************************************)

\* A single task is never overtaken.
LEMMA UncrossedStep == ASSUME OneServer, AnyConsole, Uncrossed, Next PROVE Uncrossed'
<1>1. TypeOK
  BY DEF AnyConsole, Typed
<1>2. ASSUME NEW t \in Task, TaskStep(t) PROVE Uncrossed'
  <2>1. \A u \in Task : u = t
    BY DEF OneServer
  <2>2. CASE LoadConfig(t) \/ InstallPlugin(t)
    BY <2>1, <2>2 DEF LoadConfig, InstallPlugin, Overtake, Uncrossed
  <2>3. CASE StampConfig(t) \/ RecordPlugin(t)
    <3>1. crossed' = NoCrossing
      BY <1>1, <2>3 DEF StampConfig, RecordPlugin, Uncrossed, NoCrossing, TypeOK
    <3> QED
      BY <1>1, <2>1, <2>3, <3>1 DEF StampConfig, RecordPlugin, Uncrossed, TypeOK
  <2>4. CASE \/ \E s \in Slot : Heartbeat(t, s) \/ Confirm(t, s)
             \/ Timeout(t) \/ ReceiveUpdate(t) \/ ReceiveNothing(t) \/ ReceiveNotFound(t)
             \/ ReceiveConfirmation(t) \/ InstallFails(t) \/ Unchanged(t) \/ RegisterRasp(t)
             \/ RegisterUnanswered(t)
    BY <1>1, <2>1, <2>4 DEF Heartbeat, Confirm, Timeout, ReceiveUpdate, ReceiveNothing,
       ReceiveNotFound, ReceiveConfirmation, InstallFails, Unchanged, RegisterRasp,
       RegisterUnanswered, StopWaiting, modelVars, agentVars, taskVars, Uncrossed, TypeOK
  <2> QED
    BY <1>2, <2>2, <2>3, <2>4 DEF TaskStep, TaskProgress
<1>3. ASSUME NEW s \in Slot, HandlerStep(s) \/ Fail(s) \/ Discard(s) PROVE Uncrossed'
  BY <1>3, HandlerRequests DEF AnyConsole, Uncrossed, agentVars, taskVars, modelVars
<1>4. CASE ConsoleStep
  BY <1>4 DEF ConsoleStep, Write, Stamp, SelectPlugin, RemoveRasp, agentVars, taskVars,
              modelVars, Uncrossed
<1>5. CASE Restart
  BY <1>5 DEF Restart, Uncrossed
<1> QED
  BY <1>2, <1>3, <1>4, <1>5 DEF Next

\* An agent with one task, as one server in the JVM starts it, never crosses.
THEOREM OneServerInvariance == ASSUME OneServer PROVE Spec => []Uncrossed
<1>1. Init => Uncrossed
  BY DEF Init, Uncrossed
<1>2. AnyConsole /\ Uncrossed /\ [Next]_vars => Uncrossed'
  <2>1. ASSUME Uncrossed, UNCHANGED vars PROVE Uncrossed'
    BY <2>1 DEF Uncrossed, vars, agentVars, taskVars, modelVars
  <2> QED
    BY <2>1, OneServer, UncrossedStep
<1> QED
  BY <1>1, <1>2, Invariance, PTL DEF Spec

\* Its stamp and md5 are those of what it runs, except between the load (the
\* installation) and the record that follows it.
InStep ==
  /\ ctime = applied.time \/ \E t \in Task : mode[t] = "stamping"
  /\ plugin = md5 \/ \E t \in Task : mode[t] = "recording"

THEOREM OneServerInStep == ASSUME OneServer PROVE Spec => []InStep
<1>1. AnyConsole /\ Uncrossed => InStep
  BY DEF AnyConsole, Runs, HoldsPublished, StampIsApplied, Md5IsPlugin, Uncrossed, NoCrossing,
         InStep
<1> QED
  BY <1>1, Invariance, OneServerInvariance, PTL

Versioned == INSTANCE VersionedDelivery WITH held <- applied

\* With one task and one console request at a time, the agent never goes back
\* to an older configuration: it implements VersionedDelivery.
THEOREM OneServerDelivery == ASSUME OneAtATime, OneServer PROVE Spec => Versioned!Spec
<1>1. Init => Versioned!Init
  BY Blanks DEF Init, Versioned!Init
<1>2. OneRequest /\ Uncrossed /\ [Next]_vars => [Versioned!Next]_<<published, applied>>
  <2> SUFFICES ASSUME OneRequest, Uncrossed, [Next]_vars
               PROVE  Versioned!Next \/ UNCHANGED <<published, applied>>
    OBVIOUS
  <2>1. CASE UNCHANGED vars
    BY <2>1 DEF vars, consoleVars, agentVars, modelVars
  <2>2. ASSUME NEW t \in Task, LoadConfig(t) PROVE Versioned!Deliver
    <3>1. ~overtaken[t] /\ reply[t].doc \in published
      BY DEF OneRequest, AnyConsole, Copies, Uncrossed
    <3>2. reply[t].doc.time >= applied.time
      BY <2>2, <3>1 DEF OneRequest, NotOlder, LoadConfig
    <3> QED
      BY <2>2, <3>1, <3>2 DEF LoadConfig, consoleVars, Versioned!Deliver
  <2>3. CASE Restart
    BY <2>3 DEF Restart, consoleVars, Versioned!Restart, Versioned!Next
  <2>4. CASE ConsoleStep
    <3>1. applied' = applied
      BY <2>4 DEF ConsoleStep, Write, Stamp, SelectPlugin, RemoveRasp, agentVars, modelVars
    <3>2. doc' \in Version
      BY <2>4, ConsoleTypes DEF OneRequest, AnyConsole, Typed, TypeOK
    <3> QED
      BY <2>4, <3>1, <3>2 DEF ConsoleStep, Write, Stamp, SelectPlugin, RemoveRasp, consoleVars,
                              Versioned!Publish, Versioned!Next
  <2>5. CASE Next /\ ~ConsoleStep /\ applied' = applied
    BY <2>5, ConsoleAlone DEF OneRequest, AnyConsole, consoleVars
  <2> QED
    BY <2>1, <2>2, <2>3, <2>4, <2>5, AppliedChanges DEF Versioned!Next
<1> QED
  BY <1>1, <1>2, OneRequestInvariance, OneServerInvariance, PTL DEF Spec, Versioned!Spec

=============================================================================
