------------------------------ MODULE HookSwitch ------------------------------
(***************************************************************************)
(* The switches of the Java agent that decide whether a hooked call is     *)
(* checked at all: HookHandler.enableHook, the global switch, and          *)
(* Config.hookWhiteAll, which keeps an agent under remote management       *)
(* quiet until it has registered.                                          *)
(*                                                                         *)
(* Several threads write them without a common lock.  The class loading    *)
(* threads turn enableHook on when a detector recognises the server        *)
(* (ServerDetector.handleServer); an application with Tomcat and Dubbo     *)
(* has two of them, and each starts a registration and then a heartbeat    *)
(* task of its own.  A heartbeat task that the backend does not know turns *)
(* the switch off until it has registered again (cloud/KeepAlive.java).    *)
(* Without remote management, the thread that watches the plugin directory *)
(* saves the switch, turns it off while it reads the files and restores    *)
(* what it saved (JS.UpdatePlugin), and so does JS.Dispose; these hold the *)
(* lock of class JS, which no detector takes.                              *)
(***************************************************************************)
EXTENDS Naturals

CONSTANTS
  Detector,    \* detections of a server, each at most once
  MaxChange,   \* bound: changes of a plugin file
  MaxFault     \* bound: removals of the agent's record and lost answers together

ASSUME ConstantsAssumption ==
  /\ MaxChange \in Nat
  /\ MaxFault \in Nat

VARIABLES
  cloud,       \* CloudUtils.checkCloudControlEnter()
  enable,      \* HookHandler.enableHook
  whiteAll,    \* Config.hookWhiteAll
  phase,       \* phase[d]: where detection d and its cloud threads stand
  known,       \* the backend has the agent's record
  jsLock,      \* the thread inside a synchronized method of JS
  jspc,        \* where that thread stands
  oldValue,    \* its local variable oldValue
  released,    \* JS.Dispose has been called
  lost,        \* history: the last detection was overwritten by a restore
  changes,     \* bound: plugin file changes so far
  faults       \* bound: faults so far

jsVars == <<jsLock, jspc, oldValue, released, changes>>
cloudVars == <<whiteAll, known, faults>>
vars == <<cloud, enable, phase, lost, jsVars, cloudVars>>

\* EngineBoot.start installs the class transformer after JS.Initialize, so no
\* server has been detected before.
Init ==
  /\ cloud \in BOOLEAN
  /\ enable = FALSE
  /\ whiteAll = TRUE
  /\ phase = [d \in Detector |-> "unloaded"]
  /\ known = FALSE
  /\ jsLock = "none"
  /\ jspc = "idle"
  /\ oldValue = FALSE
  /\ released = FALSE
  /\ lost = FALSE
  /\ changes = 0
  /\ faults = 0

Fault ==
  /\ faults < MaxFault
  /\ faults' = faults + 1

Goto(d, label) == phase' = [phase EXCEPT ![d] = label]

(***************************************************************************)
(* ServerDetector.handleServer                                             *)
(***************************************************************************)
Detect(d) ==
  /\ phase[d] = "unloaded"
  /\ enable' = TRUE
  /\ lost' = (jspc = "reading" /\ ~oldValue)
  /\ Goto(d, "detected")
  /\ UNCHANGED <<cloud, jsVars, cloudVars>>

\* Mutant of SendRegister: remote management is taken for granted.
RegisterAlways(d) ==
  /\ phase[d] = "detected"
  /\ Goto(d, "registering")
  /\ UNCHANGED <<cloud, enable, lost, jsVars, cloudVars>>

SendRegister(d) ==
  /\ phase[d] = "detected"
  /\ Goto(d, IF cloud THEN "registering" ELSE "standalone")
  /\ UNCHANGED <<cloud, enable, lost, jsVars, cloudVars>>

(***************************************************************************)
(* Register and KeepAlive                                                  *)
(***************************************************************************)

\* setHookWhiteAll("false"), then CloudManager.init starts the heartbeat.
RegisterFirst(d) ==
  /\ phase[d] = "registering"
  /\ known' = TRUE
  /\ whiteAll' = FALSE
  /\ Goto(d, "beating")
  /\ UNCHANGED <<cloud, enable, lost, faults, jsVars>>

\* The request or its answer is lost: the thread sleeps and tries again.
RegisterFails(d) ==
  /\ Fault
  /\ phase[d] \in {"registering", "reregistering"}
  /\ known' \in {known, TRUE}
  /\ UNCHANGED <<cloud, enable, whiteAll, phase, lost, jsVars>>

RemoveRasp ==
  /\ Fault
  /\ known
  /\ known' = FALSE
  /\ UNCHANGED <<cloud, enable, whiteAll, phase, lost, jsVars>>

Heartbeat(d) ==
  /\ phase[d] = "beating"
  /\ ~known
  /\ Goto(d, "not found")
  /\ UNCHANGED <<cloud, enable, lost, jsVars, cloudVars>>

\* A heartbeat that finds the record, or is lost, changes no switch.
HeartbeatFound(d) ==
  /\ phase[d] = "beating"
  /\ UNCHANGED vars

\* handleRaspNotFound: the task suspends itself and turns all hooks off.
Suspend(d) ==
  /\ phase[d] = "not found"
  /\ enable' = FALSE
  /\ Goto(d, "reregistering")
  /\ UNCHANGED <<cloud, lost, jsVars, cloudVars>>

RegisterAgain(d) ==
  /\ phase[d] = "reregistering"
  /\ known' = TRUE
  /\ whiteAll' = FALSE
  /\ Goto(d, "registered")
  /\ UNCHANGED <<cloud, enable, lost, faults, jsVars>>

\* Mutant of Resume: the task resumes without the switch.
ResumeOnly(d) ==
  /\ phase[d] = "registered"
  /\ Goto(d, "beating")
  /\ UNCHANGED <<cloud, enable, lost, jsVars, cloudVars>>

\* The callback: the switch on, then the task goes on.
Resume(d) ==
  /\ phase[d] = "registered"
  /\ enable' = TRUE
  /\ Goto(d, "beating")
  /\ UNCHANGED <<cloud, lost, jsVars, cloudVars>>

(***************************************************************************)
(* The synchronized methods of JS, without remote management               *)
(***************************************************************************)

\* getAndSet(false)
SaveSwitch(thread) ==
  /\ jsLock' = thread
  /\ jspc' = "reading"
  /\ oldValue' = enable
  /\ enable' = FALSE

\* Mutant of FileChanged: UpdatePlugin is not synchronized.
FileChangedNoLock ==
  /\ ~cloud
  /\ changes < MaxChange
  /\ changes' = changes + 1
  /\ SaveSwitch("watcher")
  /\ UNCHANGED <<cloud, phase, lost, released, cloudVars>>

\* A change of a plugin file, also one noticed just before the watch ended.
FileChanged ==
  /\ ~cloud
  /\ jsLock = "none"
  /\ changes < MaxChange
  /\ changes' = changes + 1
  /\ SaveSwitch("watcher")
  /\ UNCHANGED <<cloud, phase, lost, released, cloudVars>>

Dispose ==
  /\ ~cloud
  /\ jsLock = "none"
  /\ ~released
  /\ released' = TRUE
  /\ SaveSwitch("release")
  /\ UNCHANGED <<cloud, phase, lost, changes, cloudVars>>

RestoreSwitch ==
  /\ jspc = "reading"
  /\ enable' = oldValue
  /\ jspc' = "installing"
  /\ UNCHANGED <<cloud, phase, lost, jsLock, oldValue, released, changes, cloudVars>>

\* The plugin is installed (or the method just ends) and the lock released.
EndUpdate ==
  /\ jspc = "installing"
  /\ jsLock' = "none"
  /\ jspc' = "idle"
  /\ oldValue' = FALSE
  /\ UNCHANGED <<cloud, enable, phase, lost, released, changes, cloudVars>>

DetectorStep(d) ==
  \/ SendRegister(d) \/ RegisterFirst(d)
  \/ Heartbeat(d) \/ Suspend(d) \/ RegisterAgain(d) \/ Resume(d)

Next ==
  \/ \E d \in Detector :
       Detect(d) \/ DetectorStep(d) \/ RegisterFails(d) \/ HeartbeatFound(d)
  \/ RemoveRasp
  \/ FileChanged \/ Dispose \/ RestoreSwitch \/ EndUpdate

Spec == Init /\ [][Next]_vars

\* The register and heartbeat threads keep looping; the faults are bounded.
Fairness == \A d \in Detector : WF_vars(DetectorStep(d))
FairSpec == Spec /\ Fairness

-------------------------------------------------------------------------------
(***************************************************************************)
(* Properties                                                              *)
(***************************************************************************)

Phase == {"unloaded", "detected", "standalone", "registering", "beating",
          "not found", "reregistering", "registered"}
Detected == \E d \in Detector : phase[d] # "unloaded"

\* Every variable stays in its type, and each mode uses only its own threads.
TypeOK ==
  /\ cloud \in BOOLEAN /\ enable \in BOOLEAN /\ whiteAll \in BOOLEAN
  /\ phase \in [Detector -> Phase]
  /\ known \in BOOLEAN
  /\ jsLock \in {"none", "watcher", "release"}
  /\ jspc \in {"idle", "reading", "installing"}
  /\ jspc = "idle" <=> jsLock = "none"
  /\ oldValue \in BOOLEAN /\ released \in BOOLEAN /\ lost \in BOOLEAN
  /\ changes \in 0..MaxChange
  /\ faults \in 0..MaxFault
  /\ cloud => jspc = "idle"
  /\ ~cloud => \A d \in Detector : phase[d] \in {"unloaded", "detected", "standalone"}

\* Without remote management, the hooks of an agent whose server has been
\* detected are off, outside of a read of the plugin files, exactly when the
\* last detection fell into such a read that had saved the switch as off:
\* JS.UpdatePlugin then restores a value that is no longer current.
OffOnlyWhenLost ==
  ~cloud /\ Detected /\ jspc # "reading" => (enable <=> ~lost)

\* Under remote management, whatever records are removed and answers lost,
\* an agent that has detected its server ends with all its hooks on: every
\* Suspend of one heartbeat task is followed by a Resume that no other undoes.
HooksComeBack ==
  <>[](cloud /\ Detected => enable /\ ~whiteAll)

\* What a restore is going to write is as current as the switch would be.
SavedWhenLost ==
  ~cloud /\ Detected /\ jspc = "reading" => (oldValue <=> ~lost)

\* The inductive invariant behind OffOnlyWhenLost.
IInv == TypeOK /\ OffOnlyWhenLost /\ SavedWhenLost

===============================================================================
