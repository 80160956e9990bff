---------------------------- MODULE ConfigDelivery ----------------------------
(***************************************************************************)
(* Delivery of configuration and plugin from the management backend        *)
(* (rasp-cloud) to one Java agent.                                         *)
(*                                                                         *)
(* Console requests edit the application's document: UpdateGeneralConfig   *)
(* and UpdateWhiteListConfig take a time stamp and then write one part of  *)
(* the configuration together with that stamp (models/app.go).  The agent  *)
(* sends heartbeats (cloud/KeepAlive.java) with the stamp and the plugin   *)
(* md5 it holds; the handler (controllers/agent/heartbeat.go) reads the    *)
(* agent's record, writes it back, reads the application and then, with a  *)
(* second read, the selected plugin, and answers with all of it when the   *)
(* agent is behind.  Requests and answers may be lost or late; the agent   *)
(* abandons a request after a timeout while its handler goes on.           *)
(*                                                                         *)
(* Every server found in the JVM registers and starts a heartbeat task of  *)
(* its own (ServerDetector.sendRegister, CloudManager.init).  The tasks    *)
(* share the agent's configuration, its plugin and CloudCacheModel.  A     *)
(* configuration is loaded, and a plugin installed, under a lock; the      *)
(* stamp and the md5 are recorded afterwards without one, so tasks         *)
(* interleave between the two.                                             *)
(*                                                                         *)
(* The content of a part of the configuration is identified with the stamp *)
(* of the request that wrote it, a plugin with its md5.  The switch        *)
(* HookHandler.enableHook, which the same handlers also set, is modelled   *)
(* in HookSwitch.                                                          *)
(***************************************************************************)
EXTENDS Naturals

CONSTANTS
  Admin,       \* console requests that may be in progress together
  Task,        \* heartbeat tasks of the agent, one per server found
  Slot,        \* heartbeat requests that may be in progress together
  Md5,         \* md5 sums of plugins that may be selected
  NoMd5,       \* the empty md5: no plugin installed by the console
  NoSlot,      \* a task waits for no request
  MaxTime,     \* bound: number of edits of the configuration
  MaxEvents    \* bound: selections of a plugin, removals, faults and restarts together

ASSUME ConstantsAssumption ==
  /\ MaxTime \in Nat
  /\ MaxEvents \in Nat
  /\ Md5 # {}
  /\ NoMd5 \notin Md5
  /\ NoSlot \notin Slot

Time == 0..MaxTime
Part == {"general", "white"}
Version == [general : Time, white : Time, time : Time]
Local == [general |-> 0, white |-> 0, time |-> 0]

VARIABLES
  clock,       \* the last time stamp taken
  doc,         \* general_config, whitelist_config and config_time of the application
  selected,    \* md5 of the application's selected plugin
  edit,        \* edit[a]: console request a, between its stamp and its write
  known,       \* the agent's record exists
  shown,       \* plugin_md5 of that record
  req,         \* req[s]: heartbeat request s and where its handler stands
  mode,        \* mode[t]: where task t stands
  slot,        \* slot[t]: the request it waits for
  reply,       \* reply[t]: the answer it is handling, and what it found before
  applied,     \* the configuration the agent runs
  ctime,       \* CloudCacheModel.configTime
  plugin,      \* the plugin in V8
  md5,         \* CloudCacheModel.pluginMD5
  overtaken,   \* history: overtaken[t], another task has loaded a configuration
               \* while t's answer was under way, or installed a plugin since t did
  crossed,     \* history: the stamp (the md5) was recorded by another task than
               \* the one that loaded (installed) last
  published,   \* history: the values doc has had
  events       \* bound: events counted so far

consoleVars == <<clock, doc, selected, edit, published>>
serverVars  == <<known, shown, req>>
taskVars    == <<mode, slot, reply, overtaken>>
modelVars   == <<applied, ctime, plugin, md5, crossed>>
agentVars   == <<taskVars, modelVars>>
vars == <<consoleVars, serverVars, agentVars, events>>

NoEdit  == [part |-> "none", time |-> 0]
NoReply == [doc |-> Local, md5 |-> NoMd5, oldTime |-> 0, oldMd5 |-> NoMd5]
NoCrossing == [conf |-> FALSE, plugin |-> FALSE]
Blank(pc) == [pc |-> pc, time |-> 0, md5 |-> NoMd5, doc |-> Local, plugin |-> NoMd5]
Free == Blank("free")

\* An application is created with the default configuration and a plugin.
Init ==
  /\ clock = 0
  /\ doc = Local
  /\ selected \in Md5
  /\ edit = [a \in Admin |-> NoEdit]
  /\ known = FALSE
  /\ shown = NoMd5
  /\ req = [s \in Slot |-> Free]
  /\ mode = [t \in Task |-> "registering"]
  /\ slot = [t \in Task |-> NoSlot]
  /\ reply = [t \in Task |-> NoReply]
  /\ overtaken = [t \in Task |-> FALSE]
  /\ applied = Local
  /\ ctime = 0
  /\ plugin = NoMd5
  /\ md5 = NoMd5
  /\ crossed = NoCrossing
  /\ published = {Local}
  /\ events = 0

\* Everything that can go on for ever is counted.
Event ==
  /\ events < MaxEvents
  /\ events' = events + 1

(***************************************************************************)
(* Console requests                                                        *)
(***************************************************************************)

\* time.Now() is evaluated before the update is sent to the database.
Stamp(a, part) ==
  /\ edit[a] = NoEdit
  /\ clock < MaxTime
  /\ clock' = clock + 1
  /\ edit' = [edit EXCEPT ![a] = [part |-> part, time |-> clock']]
  /\ UNCHANGED <<doc, selected, published, serverVars, agentVars, events>>

\* UpdateAppById: one $set of the part and of config_time.
Write(a) ==
  /\ edit[a] # NoEdit
  /\ doc' = [doc EXCEPT ![edit[a].part] = edit[a].time, !.time = edit[a].time]
  /\ edit' = [edit EXCEPT ![a] = NoEdit]
  /\ published' = published \cup {doc'}
  /\ UNCHANGED <<clock, selected, serverVars, agentVars, events>>

\* Another plugin is selected, or its algorithm configuration edited.
SelectPlugin(p) ==
  /\ Event
  /\ p # selected
  /\ selected' = p
  /\ UNCHANGED <<clock, doc, edit, published, serverVars, agentVars>>

RemoveRasp ==
  /\ Event
  /\ known
  /\ known' = FALSE
  /\ shown' = NoMd5
  /\ UNCHANGED <<consoleVars, req, agentVars>>

(***************************************************************************)
(* HeartbeatController.Post                                                *)
(***************************************************************************)

GetRasp(s) ==
  /\ req[s].pc = "sent"
  /\ req' = [req EXCEPT ![s] = IF known THEN [req[s] EXCEPT !.pc = "rasp"]
                                         ELSE Blank("not found")]
  /\ UNCHANGED <<consoleVars, known, shown, agentVars, events>>

\* The whole record is written back, whatever happened to it since GetRasp.
UpsertRasp(s) ==
  /\ req[s].pc = "rasp"
  /\ known' = TRUE
  /\ shown' = req[s].md5
  /\ req' = [req EXCEPT ![s].pc = "upserted"]
  /\ UNCHANGED <<consoleVars, agentVars, events>>

GetApp(s) ==
  /\ req[s].pc = "upserted"
  /\ req' = [req EXCEPT ![s].pc = "app", ![s].doc = doc]
  /\ UNCHANGED <<consoleVars, known, shown, agentVars, events>>

\* Mutant of Behind: the time stamps are not compared.
BehindOnPlugin(r) == selected # r.md5

\* The agent is behind the document read by GetApp or the plugin read now.
Behind(r) == selected # r.md5 \/ r.doc.time > r.time

\* Mutant of GetSelectedPlugin: the configuration is read again, its stamp is not.
GetAppAgain(s) ==
  /\ req[s].pc = "app"
  /\ req' = [req EXCEPT ![s] = [Blank("update") EXCEPT
                !.doc = [doc EXCEPT !.time = req[s].doc.time], !.plugin = selected]]
  /\ UNCHANGED <<consoleVars, known, shown, agentVars, events>>

GetSelectedPlugin(s) ==
  /\ req[s].pc = "app"
  /\ req' = [req EXCEPT ![s] =
                IF Behind(req[s]) THEN [Blank("update") EXCEPT !.doc = req[s].doc,
                                                          !.plugin = selected]
                             ELSE Blank("nothing")]
  /\ UNCHANGED <<consoleVars, known, shown, agentVars, events>>

\* Any of the database operations fails, or the request never arrives.
Fail(s) ==
  /\ Event
  /\ req[s].pc \in {"sent", "rasp", "upserted", "app"}
  /\ req' = [req EXCEPT ![s] = Blank("failed")]
  /\ UNCHANGED <<consoleVars, known, shown, agentVars>>

Answered == {"update", "nothing", "not found", "failed"}

\* An answer nobody waits for disappears.
Discard(s) ==
  /\ req[s].pc \in Answered
  /\ \A t \in Task : slot[t] # s
  /\ req' = [req EXCEPT ![s] = Free]
  /\ UNCHANGED <<consoleVars, known, shown, agentVars, events>>

HandlerStep(s) == GetRasp(s) \/ UpsertRasp(s) \/ GetApp(s) \/ GetSelectedPlugin(s)

(***************************************************************************)
(* KeepAlive.execute and handleResponse, in task t.  What a request        *)
(* reports is read in one step: the handler judges the stamp and the md5   *)
(* one by one.                                                             *)
(***************************************************************************)

Goto(t, label) == mode' = [mode EXCEPT ![t] = label]

Send(t, s) ==
  /\ req[s] = Free
  /\ req' = [req EXCEPT ![s] = [Free EXCEPT !.pc = "sent", !.time = ctime, !.md5 = md5]]
  /\ slot' = [slot EXCEPT ![t] = s]

Heartbeat(t, s) ==
  /\ mode[t] = "idle"
  /\ Send(t, s)
  /\ Goto(t, "waiting")
  /\ UNCHANGED <<consoleVars, known, shown, reply, overtaken, modelVars, events>>

\* The answer no longer matters, and what overtook it neither.
StopWaiting(t) ==
  /\ slot' = [slot EXCEPT ![t] = NoSlot]
  /\ overtaken' = [overtaken EXCEPT ![t] = FALSE]

\* Mutant of Timeout: the task goes on without giving up the request.
TimeoutKeepsSlot(t) ==
  /\ Event
  /\ mode[t] \in {"waiting", "confirming"}
  /\ Goto(t, "idle")
  /\ UNCHANGED <<consoleVars, serverVars, slot, reply, overtaken, modelVars>>

\* No answer within the timeout, or the answer is lost.
Timeout(t) ==
  /\ Event
  /\ mode[t] \in {"waiting", "confirming"}
  /\ StopWaiting(t)
  /\ Goto(t, "idle")
  /\ UNCHANGED <<consoleVars, serverVars, reply, modelVars>>

Answer(t, pc) ==
  /\ mode[t] = "waiting"
  /\ req[slot[t]].pc = pc
  /\ req' = [req EXCEPT ![slot[t]] = Free]

Update(s) == [doc |-> req[s].doc, md5 |-> req[s].plugin, oldTime |-> ctime, oldMd5 |-> md5]

\* Mutant of ReceiveUpdate: an answer to an abandoned request is taken, too.
ReceiveLateUpdate(t) ==
  /\ mode[t] = "waiting"
  /\ \E s \in Slot :
       /\ req[s].pc = "update"
       /\ reply' = [reply EXCEPT ![t] = Update(s)]
       /\ req' = [req EXCEPT ![s] = Free]
  /\ slot' = [slot EXCEPT ![t] = NoSlot]
  /\ Goto(t, "configuring")
  /\ UNCHANGED <<consoleVars, known, shown, overtaken, modelVars, events>>

ReceiveUpdate(t) ==
  /\ Answer(t, "update")
  /\ reply' = [reply EXCEPT ![t] = Update(slot[t])]
  /\ slot' = [slot EXCEPT ![t] = NoSlot]
  /\ Goto(t, "configuring")
  /\ UNCHANGED <<consoleVars, known, shown, overtaken, modelVars, events>>

ReceiveNothing(t) ==
  /\ Answer(t, "nothing") \/ Answer(t, "failed")
  /\ StopWaiting(t)
  /\ Goto(t, "idle")
  /\ UNCHANGED <<consoleVars, known, shown, reply, modelVars, events>>

\* Mutant of ReceiveNotFound: the agent does not register again.
IgnoreNotFound(t) ==
  /\ Answer(t, "not found")
  /\ StopWaiting(t)
  /\ Goto(t, "idle")
  /\ UNCHANGED <<consoleVars, known, shown, reply, modelVars, events>>

\* handleRaspNotFound: suspend this task and register again.
ReceiveNotFound(t) ==
  /\ Answer(t, "not found")
  /\ StopWaiting(t)
  /\ Goto(t, "registering")
  /\ UNCHANGED <<consoleVars, known, shown, reply, modelVars, events>>

\* Task t has done what tasks at these places will do in their turn.
Overtake(t, places) ==
  overtaken' = [u \in Task |-> u # t /\ (overtaken[u] \/ mode[u] \in places)]

UnderWay == {"waiting", "configuring", "stamping"}

\* loadConfigFromCloud: the whole configuration under the lock of Config.
LoadConfig(t) ==
  /\ mode[t] = "configuring"
  /\ applied' = reply[t].doc
  /\ Overtake(t, UnderWay)
  /\ Goto(t, "stamping")
  /\ UNCHANGED <<consoleVars, serverVars, slot, reply, ctime, plugin, md5, crossed, events>>

\* Mutant of StampConfig: the agent's clock is taken for the answer's stamp.
StampAhead(t) ==
  /\ mode[t] = "stamping"
  /\ ctime' = clock
  /\ crossed' = [crossed EXCEPT !.conf = overtaken[t]]
  /\ overtaken' = [overtaken EXCEPT ![t] = FALSE]
  /\ reply' = [reply EXCEPT ![t].doc = Local]
  /\ Goto(t, "installing")
  /\ UNCHANGED <<consoleVars, serverVars, slot, applied, plugin, md5, events>>

\* setConfigTime, after the lock has been released.
StampConfig(t) ==
  /\ mode[t] = "stamping"
  /\ ctime' = reply[t].doc.time
  /\ crossed' = [crossed EXCEPT !.conf = overtaken[t]]
  /\ overtaken' = [overtaken EXCEPT ![t] = FALSE]
  /\ reply' = [reply EXCEPT ![t].doc = Local]
  /\ Goto(t, "installing")
  /\ UNCHANGED <<consoleVars, serverVars, slot, applied, plugin, md5, events>>

\* JS.UpdatePlugin, under the lock of JS.
InstallPlugin(t) ==
  /\ mode[t] = "installing"
  /\ plugin' = reply[t].md5
  /\ Overtake(t, {"recording"})
  /\ Goto(t, "recording")
  /\ UNCHANGED <<consoleVars, serverVars, slot, reply, applied, ctime, md5, crossed, events>>

\* JS.UpdatePlugin returns false: the md5 is not recorded.
InstallFails(t) ==
  /\ Event
  /\ mode[t] = "installing"
  /\ reply' = [reply EXCEPT ![t].md5 = NoMd5]
  /\ Goto(t, "installed")
  /\ UNCHANGED <<consoleVars, serverVars, slot, overtaken, modelVars>>

\* setPluginMD5, after the lock has been released.
RecordPlugin(t) ==
  /\ mode[t] = "recording"
  /\ md5' = reply[t].md5
  /\ crossed' = [crossed EXCEPT !.plugin = overtaken[t]]
  /\ overtaken' = [overtaken EXCEPT ![t] = FALSE]
  /\ reply' = [reply EXCEPT ![t].md5 = NoMd5]
  /\ Goto(t, "installed")
  /\ UNCHANGED <<consoleVars, serverVars, slot, applied, ctime, plugin, events>>

\* The agent's stamp or md5 is not what it was when the answer came.
Changed(t) == reply[t].oldTime # ctime \/ reply[t].oldMd5 # md5

Unchanged(t) ==
  /\ mode[t] = "installed"
  /\ ~Changed(t)
  /\ reply' = [reply EXCEPT ![t] = NoReply]
  /\ Goto(t, "idle")
  /\ UNCHANGED <<consoleVars, serverVars, slot, overtaken, modelVars, events>>

\* A second heartbeat follows at once.
Confirm(t, s) ==
  /\ mode[t] = "installed"
  /\ Changed(t)
  /\ Send(t, s)
  /\ reply' = [reply EXCEPT ![t] = NoReply]
  /\ Goto(t, "confirming")
  /\ UNCHANGED <<consoleVars, known, shown, overtaken, modelVars, events>>

\* Its answer is not looked at.
ReceiveConfirmation(t) ==
  /\ mode[t] = "confirming"
  /\ req[slot[t]].pc \in Answered
  /\ req' = [req EXCEPT ![slot[t]] = Free]
  /\ StopWaiting(t)
  /\ Goto(t, "idle")
  /\ UNCHANGED <<consoleVars, known, shown, reply, modelVars, events>>

(***************************************************************************)
(* Register, and a restart of the application server                       *)
(***************************************************************************)

RegisterRasp(t) ==
  /\ mode[t] = "registering"
  /\ known' = TRUE
  /\ shown' = NoMd5
  /\ Goto(t, "idle")
  /\ UNCHANGED <<consoleVars, req, slot, reply, overtaken, modelVars, events>>

\* The record is written and the answer lost: the task will register again.
RegisterUnanswered(t) ==
  /\ mode[t] = "registering"
  /\ known' = TRUE
  /\ shown' = NoMd5
  /\ UNCHANGED <<consoleVars, req, agentVars, events>>

Restart ==
  /\ Event
  /\ mode' = [t \in Task |-> "registering"]
  /\ slot' = [t \in Task |-> NoSlot]
  /\ reply' = [t \in Task |-> NoReply]
  /\ overtaken' = [t \in Task |-> FALSE]
  /\ applied' = Local
  /\ ctime' = 0
  /\ plugin' = NoMd5
  /\ md5' = NoMd5
  /\ crossed' = NoCrossing
  /\ UNCHANGED <<consoleVars, serverVars>>

ConsoleStep ==
  \/ \E a \in Admin : Write(a) \/ \E part \in Part : Stamp(a, part)
  \/ \E p \in Md5 : SelectPlugin(p)
  \/ RemoveRasp

\* What a heartbeat task and its Register thread do without a fault.
TaskProgress(t) ==
  \/ \E s \in Slot : Heartbeat(t, s) \/ Confirm(t, s)
  \/ ReceiveUpdate(t) \/ ReceiveNothing(t) \/ ReceiveNotFound(t) \/ ReceiveConfirmation(t)
  \/ LoadConfig(t) \/ StampConfig(t) \/ InstallPlugin(t) \/ RecordPlugin(t) \/ Unchanged(t)
  \/ RegisterRasp(t)

TaskStep(t) == TaskProgress(t) \/ Timeout(t) \/ InstallFails(t) \/ RegisterUnanswered(t)

Next ==
  \/ ConsoleStep
  \/ \E t \in Task : TaskStep(t)
  \/ Restart
  \/ \E s \in Slot : HandlerStep(s) \/ Fail(s) \/ Discard(s)

Spec == Init /\ [][Next]_vars

(***************************************************************************)
(* Fairness.  A console request and a heartbeat handler that have started  *)
(* run to their end, and the heartbeat and register threads keep looping.  *)
(* Faults are events and so come to an end: from then on the network and   *)
(* the database answer and V8 accepts the plugin.                          *)
(***************************************************************************)
Fairness ==
  /\ \A a \in Admin : WF_vars(Write(a))
  /\ \A s \in Slot : WF_vars(HandlerStep(s) \/ Discard(s))
  /\ \A t \in Task : WF_vars(TaskProgress(t))

FairSpec == Spec /\ Fairness

-------------------------------------------------------------------------------
(***************************************************************************)
(* Properties                                                              *)
(***************************************************************************)

Edit == [part : Part \cup {"none"}, time : Time]
AnyMd5 == Md5 \cup {NoMd5}
Reply == [doc : Version, md5 : AnyMd5, oldTime : Time, oldMd5 : AnyMd5]
Request == [pc : {"free", "sent", "rasp", "upserted", "app"} \cup Answered,
            time : Time, md5 : AnyMd5, doc : Version, plugin : AnyMd5]

\* Every variable stays in its type, a task waits for a request only in the
\* two places of KeepAlive that call CloudHttp, and no two for the same.
TypeOK ==
  /\ clock \in Time
  /\ doc \in Version
  /\ selected \in Md5
  /\ edit \in [Admin -> Edit]
  /\ known \in BOOLEAN
  /\ shown \in AnyMd5
  /\ req \in [Slot -> Request]
  /\ mode \in [Task -> {"idle", "waiting", "configuring", "stamping", "installing",
                        "recording", "installed", "confirming", "registering"}]
  /\ slot \in [Task -> Slot \cup {NoSlot}]
  /\ \A t \in Task : mode[t] \in {"waiting", "confirming"} <=> slot[t] # NoSlot
  /\ \A t, u \in Task : slot[t] = slot[u] => t = u \/ slot[t] = NoSlot
  /\ reply \in [Task -> Reply]
  /\ overtaken \in [Task -> BOOLEAN]
  /\ applied \in Version
  /\ ctime \in Time
  /\ plugin \in AnyMd5
  /\ md5 \in AnyMd5
  /\ crossed \in [conf : BOOLEAN, plugin : BOOLEAN]
  /\ published \subseteq Version
  /\ events \in 0..MaxEvents

\* When console requests do not overlap, neither the configuration of an agent
\* nor the stamp it reports is ever ahead of the document, whatever its tasks
\* do: no later edit is taken for one the agent already has.
NeverAhead ==
  /\ ctime <= doc.time
  /\ applied.time <= doc.time

\* Whatever is lost, late or repeated, the agent runs a version the document
\* has had as a whole, and goes back to an older one only by the answer of a
\* task that another task has overtaken since it sent its request.
Asked(t) ==
  IF mode[t] \in {"waiting", "configuring"}
    THEN IF overtaken[t] THEN "stale" ELSE "fresh"
    ELSE "no"
Delivery == INSTANCE SharedDelivery
              WITH Carrier <- Task, held <- applied, asked <- [t \in Task |-> Asked(t)]
ImplementsDelivery == Delivery!Spec

\* The agent runs what its stamp and md5 say, but for a crossing: of two tasks
\* that load (install) between each other's load and stamp, the one that
\* loaded first stamped last.
StampIsApplied == ctime = applied.time \/ crossed.conf
Md5IsPlugin == plugin = md5 \/ crossed.plugin

\* The console shows the selected plugin as the agent's.
Shown ==
  /\ known
  /\ shown = selected

\* Once the console is left alone, the agent runs what the console holds, and
\* the console shows it, whatever was lost, removed or restarted before.  The
\* only exception is a crossing of two tasks, which no later heartbeat repairs.
EventuallyDelivered ==
  <>[](/\ md5 = selected /\ Shown
       /\ applied = doc \/ crossed.conf
       /\ plugin = selected \/ crossed.plugin)

\* "Takes effect after one heartbeat" is what the console says when a plugin is
\* selected (plugins.vue:158).  It is wrong for good after a crossing: the
\* agent reports the selected plugin and runs another.
TakesEffect == <>[](plugin = selected)

\* Whatever console requests and heartbeat tasks overlap, the agent runs a
\* version that the document has had as a whole.  The stamp it reports is that
\* version's but while the task that loaded it has not stamped it, and after
\* a crossing; and likewise the plugin's md5.
HoldsPublished ==
  /\ applied \in published
  /\ StampIsApplied \/ \E t \in Task : mode[t] = "stamping" /\ ~overtaken[t]
  /\ Md5IsPlugin \/ \E t \in Task : mode[t] = "recording" /\ ~overtaken[t]

\* With overlapping console requests the later stamp may be written first.
\* Only an agent that took a version with a stamp ahead of the document's, or
\* whose tasks crossed, may then be left with a configuration the console no
\* longer holds.
StuckOnlyWhenAhead ==
  <>[](/\ md5 = selected /\ Shown
       /\ applied = doc \/ ctime > doc.time \/ crossed.conf
       /\ plugin = selected \/ crossed.plugin)

===============================================================================
