---------------------------- MODULE PhpDelivery ----------------------------
(***************************************************************************)
(* How a plugin and a configuration travel from the backend to the worker  *)
(* processes of a PHP server (agent/heartbeat_agent.cc,                    *)
(* agent/plugin_update_pkg.cc, openrasp.cc, openrasp_v8.cc).  The          *)
(* heartbeat process stores them in two files and announces them in shared *)
(* memory: the configuration by its time, the plugin by the second in      *)
(* which its version was set.  A worker compares both with what it holds   *)
(* when a request starts, and keeps the parameters that its plugin found   *)
(* clean in an LRU (openrasp_lru.h).                                       *)
(*                                                                         *)
(* A worker is a process with one thread, as in PHP-FPM, so that the mutex *)
(* of the V8 globals is free whenever it is tried.  Plugins and            *)
(* configurations are numbered in the order in which the backend makes     *)
(* them; the number of a configuration stands for its config_time too.     *)
(*                                                                         *)
(* Each block of shared memory has a read-write lock that is not robust    *)
(* (utils/read_write_lock.cc): what a process held when it died stays      *)
(* held.  A read lock that is left keeps writers out, a write lock         *)
(* everybody.  A block that died half-written is never read again.         *)
(***************************************************************************)
EXTENDS Integers, Sequences

CONSTANTS
  Worker,     \* the worker processes
  Key,        \* the parameters that are checked, as LRU keys
  LruMax,     \* LruMax[c]: lru.max_size in configuration c; 0 is the default one
  Oversize,   \* configurations whose white list does not fit into shared memory
  MaxPlugin,  \* bound: plugins
  MaxConfig,  \* bound: configurations
  MaxTime,    \* bound: seconds
  MaxFault    \* bound: deaths, failed writes, lost answers, restarts; a lock left
              \* behind counts as two

ASSUME DeliveryAssumption ==
  /\ MaxPlugin \in Nat /\ MaxConfig \in Nat  /\ MaxFault \in Nat
  /\ MaxTime \in Nat \ {0}
  /\ LruMax \in [0 .. MaxConfig -> Nat]
  /\ Oversize \subseteq 1 .. MaxConfig

VARIABLES
  plugin,     \* the plugin the backend holds for this application, 0: none
  config,     \* the configuration it holds, 0: none
  now,        \* time(nullptr)
  shm,        \* the shared blocks of plugin and configuration
  snap,       \* snapshot.dat: a plugin, None or Torn
  cloud,      \* cloud-config.json: a configuration, None or Torn
  pc,         \* where the heartbeat process stands
  answer,     \* the body of the answer it works on
  worker,     \* the workers
  lock,       \* lock[b]: what dead processes hold of the lock of block b
  faults,     \* bound: faults so far
  first       \* history: first[t], the first plugin announced in second t

vars == <<plugin, config, now, shm, snap, cloud, pc, answer, worker, lock, faults, first>>

cloudVars == <<plugin, config, now>>
agentVars == <<shm, snap, cloud, pc, answer, first>>

None == 0
Torn == 0 - 1

Block == {"agent", "plugin", "config", "webdir"}

\* A worker that FPM has just forked: no plugin, the default configuration.
NewWorker ==
  [at |-> "idle", seen |-> 0, cfg |-> None, cfgTime |-> 0, white |-> None,
   blob |-> None, stamp |-> 0, max |-> LruMax[None], lru |-> <<>>]

Init ==
  /\ plugin = None
  /\ config = None
  /\ now = 1
  /\ shm = [md5 |-> None, version |-> None, stamp |-> 0, action |-> None,
            time |-> 0, white |-> None, registered |-> TRUE]
  /\ snap = None
  /\ cloud = None
  /\ pc = "idle"
  /\ answer = [plugin |-> None, config |-> None]
  /\ worker = [w \in Worker |-> NewWorker]
  /\ lock = [b \in Block |-> "free"]
  /\ faults = 0
  /\ first = [t \in 1 .. MaxTime |-> None]

Fault ==
  /\ faults < MaxFault
  /\ faults' = faults + 1

-----------------------------------------------------------------------------
(***************************************************************************)
(* The console and the clock.                                              *)
(***************************************************************************)

PublishPlugin ==
  /\ plugin < MaxPlugin
  /\ plugin' = plugin + 1
  /\ UNCHANGED <<config, now, agentVars, worker, lock, faults>>

PublishConfig ==
  /\ config < MaxConfig
  /\ config' = config + 1
  /\ UNCHANGED <<plugin, now, agentVars, worker, lock, faults>>

Tick ==
  /\ now < MaxTime
  /\ now' = now + 1
  /\ UNCHANGED <<plugin, config, agentVars, worker, lock, faults>>

-----------------------------------------------------------------------------
(***************************************************************************)
(* Locks.                                                                  *)
(***************************************************************************)

\* A process gets a read lock unless a dead one writes, a write lock unless a
\* dead one reads or writes.
Free(block, use) == lock[block] = "free" \/ (use = "read" /\ lock[block] = "read")

Granted(uses) == \A u \in uses : Free(u[1], u[2])

\* A process dies in one of its uses of the locks.  This counts as two faults.
DieHolding(uses) ==
  /\ \E u \in uses : Free(u[1], u[2]) /\ lock' = [lock EXCEPT ![u[1]] = u[2]]
  /\ faults + 1 < MaxFault
  /\ faults' = faults + 2

\* The supervisor, the web directory agent or a request that looks into the
\* mailbox dies where it holds a lock; what it leaves of other read locks the
\* processes below leave as well.
OtherDies ==
  /\ DieHolding({<<"agent", "write">>} \cup {"webdir"} \X {"read", "write"})
  /\ UNCHANGED <<cloudVars, agentVars, worker>>

-----------------------------------------------------------------------------
(***************************************************************************)
(* The heartbeat process.                                                  *)
(***************************************************************************)

HasPlugin == answer.plugin # None /\ answer.plugin # shm.md5
HasConfig == answer.config # None /\ answer.config # shm.time

\* The locks that the process takes in its next step.
AgentUses ==
  CASE pc = "idle" -> {"agent", "plugin", "config"} \X {"read"}
    [] pc = "unknown" -> {<<"agent", "write">>}
    [] pc = "plugin" -> {<<"plugin", "read">>}
    [] pc \in {"saved", "unsaved"} -> {<<"config", "write">>}
    [] pc \in {"md5", "version"} -> {<<"plugin", "write">>}
    [] pc = "config" -> {"config"} \X (IF HasConfig THEN {"read", "write"} ELSE {"read"})
    [] pc = "webdir" -> {<<"webdir", "write">>}
    [] pc = "time" -> {<<"config", "write">>}
    [] OTHER -> {}

At(place) == pc = place /\ Granted(AgentUses)

\* Mutant of Beat: the plugin is announced when the answer has come.
BeatAnnouncing ==
  /\ At("idle") /\ shm.registered
  /\ answer' = [plugin |-> IF shm.md5 # plugin THEN plugin ELSE None,
                config |-> IF shm.time # config THEN config ELSE None]
  /\ IF shm.md5 # plugin
     THEN /\ shm' = [shm EXCEPT !.version = plugin, !.stamp = now]
          /\ first' = [first EXCEPT ![now] = IF @ = None THEN plugin ELSE @]
     ELSE UNCHANGED <<shm, first>>
  /\ pc' = "plugin"
  /\ UNCHANGED <<cloudVars, lock, snap, cloud, worker, faults>>

\* do_heartbeat sends plugin_md5 and config_time; the backend answers with what
\* differs.  An unregistered agent applies nothing.
Beat ==
  /\ At("idle")
  /\ IF shm.registered
     THEN /\ answer' = [plugin |-> IF shm.md5 # plugin THEN plugin ELSE None,
                        config |-> IF shm.time # config THEN config ELSE None]
          /\ pc' = "plugin"
     ELSE UNCHANGED <<answer, pc>>
  /\ UNCHANGED <<cloudVars, lock, shm, snap, cloud, first, worker, faults>>

\* Status 4001: register again.
BeatUnknown ==
  /\ At("idle")
  /\ Fault
  /\ pc' = "unknown"
  /\ UNCHANGED <<cloudVars, lock, shm, snap, cloud, answer, first, worker>>

Unregister ==
  /\ At("unknown")
  /\ shm' = [shm EXCEPT !.registered = FALSE]
  /\ pc' = "idle"
  /\ UNCHANGED <<cloudVars, lock, snap, cloud, answer, first, worker, faults>>

\* The supervisor registers the agent (agent_remote_register).
Register ==
  /\ ~shm.registered
  /\ Free("agent", "write")
  /\ shm' = [shm EXCEPT !.registered = TRUE]
  /\ UNCHANGED <<cloudVars, lock, snap, cloud, pc, answer, first, worker, faults>>

\* build_plugin_update_package returns a package: Save opens and truncates the
\* snapshot file.
BeginSave ==
  /\ At("plugin") /\ HasPlugin
  /\ snap' = Torn
  /\ pc' = "save"
  /\ UNCHANGED <<cloudVars, lock, shm, cloud, answer, first, worker, faults>>

\* No package, or one whose snapshot V8 cannot make.
NoPlugin ==
  /\ At("plugin")
  /\ pc' = "config"
  /\ IF HasPlugin THEN Fault ELSE UNCHANGED faults
  /\ UNCHANGED <<cloudVars, lock, shm, snap, cloud, answer, first, worker>>

EndSave ==
  /\ At("save")
  /\ \/ snap' = answer.plugin /\ pc' = "saved" /\ UNCHANGED faults
     \/ UNCHANGED snap /\ pc' = "unsaved" /\ Fault
  /\ UNCHANGED <<cloudVars, lock, shm, cloud, answer, first, worker>>

\* build_snapshot: the builtin actions follow the plugin even when the file
\* could not be written.
SetAction ==
  /\ At("saved") \/ At("unsaved")
  /\ shm' = [shm EXCEPT !.action = answer.plugin]
  /\ pc' = IF pc = "saved" THEN "md5" ELSE "config"
  /\ UNCHANGED <<cloudVars, lock, snap, cloud, answer, first, worker, faults>>

SetMd5 ==
  /\ At("md5")
  /\ shm' = [shm EXCEPT !.md5 = answer.plugin]
  /\ pc' = "version"
  /\ UNCHANGED <<cloudVars, lock, snap, cloud, answer, first, worker, faults>>


\* set_plugin_version stamps the block with the present second.
SetVersion ==
  /\ At("version")
  /\ shm' = [shm EXCEPT !.version = answer.plugin, !.stamp = now]
  /\ first' = [first EXCEPT ![now] = IF @ = None THEN answer.plugin ELSE @]
  /\ pc' = "config"
  /\ UNCHANGED <<cloudVars, lock, snap, cloud, answer, worker, faults>>

\* Mutant of SetShared: the time is set with the other values.
SetSharedWithTime ==
  /\ At("config") /\ HasConfig
  /\ shm' = [shm EXCEPT !.white = IF answer.config \in Oversize THEN @ ELSE answer.config,
                        !.time = answer.config]
  /\ pc' = "webdir"
  /\ UNCHANGED <<cloudVars, lock, snap, cloud, answer, first, worker, faults>>

\* Mutant of SetShared: the test of the size is inverted.
SetSharedOversize ==
  /\ At("config") /\ HasConfig
  /\ shm' = [shm EXCEPT !.white = IF answer.config \in Oversize THEN answer.config ELSE @]
  /\ pc' = "webdir"
  /\ UNCHANGED <<cloudVars, lock, snap, cloud, answer, first, worker, faults>>

\* The values in shared memory come first.  A white list that does not fit is
\* left as it was.
SetShared ==
  /\ At("config") /\ HasConfig
  /\ shm' = [shm EXCEPT !.white = IF answer.config \in Oversize THEN @ ELSE answer.config]
  /\ pc' = "webdir"
  /\ UNCHANGED <<cloudVars, lock, snap, cloud, answer, first, worker, faults>>

NoConfig ==
  /\ At("config") /\ ~HasConfig
  /\ pc' = "idle"
  /\ UNCHANGED <<cloudVars, lock, shm, snap, cloud, answer, first, worker, faults>>

\* The intervals of the web directory agent, in a block of their own.
SetIntervals ==
  /\ At("webdir")
  /\ pc' = "open"
  /\ UNCHANGED <<cloudVars, lock, shm, snap, cloud, answer, first, worker, faults>>

\* write_string_to_file: the file is truncated when it is opened, and written.
\* A failed write is reported as a success.
OpenCloud ==
  /\ At("open")
  /\ \/ cloud' = Torn /\ pc' = "write" /\ UNCHANGED faults
     \/ UNCHANGED cloud /\ pc' = "idle" /\ Fault
  /\ UNCHANGED <<cloudVars, lock, shm, snap, answer, first, worker>>

WriteCloud ==
  /\ At("write")
  /\ \/ cloud' = answer.config /\ UNCHANGED faults
     \/ UNCHANGED cloud /\ Fault
  /\ pc' = "time"
  /\ UNCHANGED <<cloudVars, lock, shm, snap, answer, first, worker>>

SetTime ==
  /\ At("time")
  /\ shm' = [shm EXCEPT !.time = answer.config]
  /\ pc' = "idle"
  /\ UNCHANGED <<cloudVars, lock, snap, cloud, answer, first, worker, faults>>

\* The process dies anywhere, in one of its accessors or not, and the supervisor
\* starts another.
Crash ==
  /\ (Fault /\ UNCHANGED lock) \/ DieHolding(AgentUses)
  /\ pc' = "idle"
  /\ UNCHANGED <<cloudVars, shm, snap, cloud, answer, first, worker>>

-----------------------------------------------------------------------------
(***************************************************************************)
(* A worker.                                                               *)
(***************************************************************************)

\* The locks that a worker takes in its next step; a check built into PHP takes one
\* while the request runs.  Where a running request reads another block and waits
\* for its lock, the heartbeat process waits for it, too.
WorkerUses(w) ==
  CASE worker[w].at \in {"idle", "hook", "run"} -> {<<"config", "read">>}
    [] worker[w].at = "v8" -> {<<"plugin", "read">>}
    [] worker[w].at = "root" -> {<<"webdir", "write">>}
    [] OTHER -> {}

Step(w, new) ==
  /\ worker' = [worker EXCEPT ![w] = new]
  /\ UNCHANGED <<cloudVars, agentVars>>

\* The LRU (openrasp_lru.h): the entries from the latest used to the oldest.
Holds(lru, k) == \E i \in 1 .. Len(lru) : lru[i].key = k

\* get, by way of contains: the entry moves to the front.
Used(lru, k) ==
  LET at == CHOOSE i \in 1 .. Len(lru) : lru[i].key = k
  IN [j \in 1 .. Len(lru) |->
        IF j = 1 THEN lru[at] ELSE IF j <= at THEN lru[j - 1] ELSE lru[j]]

\* Mutant of Added: the oldest entry leaves one too late.
AddedOverfull(lru, max, e) ==
  IF max = 0 THEN lru
  ELSE [j \in 1 .. (IF Len(lru) <= max THEN Len(lru) + 1 ELSE max + 1) |->
          IF j = 1 THEN e ELSE lru[j - 1]]

\* set for a key that is not there: the oldest entry leaves a full cache.
Added(lru, max, e) ==
  IF max = 0 THEN lru
  ELSE [j \in 1 .. (IF Len(lru) < max THEN Len(lru) + 1 ELSE max) |->
          IF j = 1 THEN e ELSE lru[j - 1]]

\* RINIT compares the times and remembers the shared one.
StartRequest(w) ==
  LET me == worker[w]
  IN /\ me.at = "idle" /\ Granted(WorkerUses(w))
     /\ IF shm.time # 0 /\ shm.time > me.cfgTime
        THEN Step(w, [me EXCEPT !.at = "file", !.seen = shm.time])
        ELSE Step(w, [me EXCEPT !.at = "hook"])
     /\ UNCHANGED <<lock, faults>>

\* Mutant of ReadConfig: a file that does not parse is adopted.
ReadConfigUnparsed(w) ==
  LET me == worker[w]
  IN /\ me.at = "file"
     /\ Step(w, [me EXCEPT !.at = "hook", !.seen = 0, !.cfg = cloud, !.cfgTime = me.seen])
     /\ UNCHANGED <<lock, faults>>

\* ConfigHolder.update from the file; a file that does not parse is left for
\* the next request.
ReadConfig(w) ==
  LET me == worker[w]
  IN /\ me.at = "file"
     /\ Step(w, IF cloud \in {None, Torn}
                THEN [me EXCEPT !.at = "hook", !.seen = 0]
                ELSE [me EXCEPT !.at = "hook", !.seen = 0, !.cfg = cloud, !.cfgTime = me.seen])
     /\ UNCHANGED <<lock, faults>>

\* RINIT of the hooks: the white list of the request, and an empty LRU when its
\* size has changed.
InitHook(w) ==
  LET me == worker[w]
  IN /\ me.at = "hook" /\ Granted(WorkerUses(w))
     /\ Step(w, [me EXCEPT !.at = "v8", !.white = shm.white, !.max = LruMax[me.cfg],
                           !.lru = IF me.max # LruMax[me.cfg] THEN <<>> ELSE @])
     /\ UNCHANGED <<lock, faults>>

\* RINIT goes on to write a document root into the mailbox, unless the tests before
\* fail: they only try the lock.  (PhpWebdirs models the mailbox.)
AfterV8 == IF lock["webdir"] = "write" THEN {"run"} ELSE {"root", "run"}

\* RINIT of V8: is the snapshot expired?
InitV8(w) ==
  LET me == worker[w]
  IN /\ me.at = "v8" /\ Granted(WorkerUses(w))
     /\ IF shm.stamp > 0 /\ (me.blob = None \/ shm.stamp > me.stamp)
        THEN Step(w, [me EXCEPT !.at = "load", !.seen = shm.stamp])
        ELSE \E place \in AfterV8 : Step(w, [me EXCEPT !.at = place])
     /\ UNCHANGED <<lock, faults>>

\* Mutant of LoadSnapshot: the LRU survives the plugin.
LoadSnapshotKeepingLru(w) ==
  LET me == worker[w]
  IN /\ me.at = "load"
     /\ \E place \in AfterV8 :
          Step(w, IF snap \in {None, Torn}
                  THEN [me EXCEPT !.at = place, !.seen = 0]
                  ELSE [me EXCEPT !.at = place, !.seen = 0, !.blob = snap, !.stamp = me.seen])
     /\ UNCHANGED <<lock, faults>>

\* Mutant of LoadSnapshot: IsOk is not asked.
LoadSnapshotUnchecked(w) ==
  LET me == worker[w]
  IN /\ me.at = "load"
     /\ \E place \in AfterV8 :
          Step(w, [me EXCEPT !.at = place, !.seen = 0, !.blob = snap, !.stamp = me.seen,
                             !.lru = <<>>])
     /\ UNCHANGED <<lock, faults>>

\* The snapshot file is loaded under the stamp that was read before; the LRU is
\* cleared and the isolate is made anew.
LoadSnapshot(w) ==
  LET me == worker[w]
  IN /\ me.at = "load"
     /\ \E place \in AfterV8 :
          Step(w, IF snap \in {None, Torn}
                  THEN [me EXCEPT !.at = place, !.seen = 0]
                  ELSE [me EXCEPT !.at = place, !.seen = 0, !.blob = snap, !.stamp = me.seen,
                                  !.lru = <<>>])
     /\ UNCHANGED <<lock, faults>>

\* V8Detector.run: a known key is not checked again; otherwise the plugin finds
\* the parameters clean, and they are kept, or not.
Check(w) ==
  LET me == worker[w]
  IN /\ me.at = "run" /\ me.blob # None
     /\ \E k \in Key :
          IF Holds(me.lru, k)
          THEN Step(w, [me EXCEPT !.lru = Used(@, k)])
          ELSE \E clean \in BOOLEAN :
                 Step(w, [me EXCEPT !.lru =
                            IF clean THEN Added(@, me.max, [key |-> k, by |-> me.blob]) ELSE @])
     /\ UNCHANGED <<lock, faults>>

\* write_webroot_path waits for the lock.
WriteRoot(w) ==
  LET me == worker[w]
  IN /\ me.at = "root" /\ Granted(WorkerUses(w))
     /\ Step(w, [me EXCEPT !.at = "run"])
     /\ UNCHANGED <<lock, faults>>

EndRequest(w) ==
  LET me == worker[w]
  IN /\ me.at = "run"
     /\ Step(w, [me EXCEPT !.at = "idle"])
     /\ UNCHANGED <<lock, faults>>

\* FPM ends a worker, in an accessor or not, and forks another.
Respawn(w) ==
  /\ (Fault /\ UNCHANGED lock) \/ DieHolding(WorkerUses(w))
  /\ Step(w, NewWorker)

-----------------------------------------------------------------------------
AgentStep ==
  \/ Beat \/ Unregister \/ BeginSave \/ NoPlugin \/ EndSave \/ SetAction
  \/ SetMd5 \/ SetVersion
  \/ SetShared \/ NoConfig \/ SetIntervals \/ OpenCloud \/ WriteCloud \/ SetTime

\* A request goes on until it ends.
RequestStep(w) ==
  \/ ReadConfig(w) \/ InitHook(w) \/ InitV8(w) \/ LoadSnapshot(w)
  \/ WriteRoot(w) \/ EndRequest(w)

Next ==
  \/ PublishPlugin \/ PublishConfig \/ Tick
  \/ AgentStep \/ BeatUnknown \/ Register \/ Crash \/ OtherDies
  \/ \E w \in Worker : StartRequest(w) \/ RequestStep(w) \/ Check(w) \/ Respawn(w)

Spec == Init /\ [][Next]_vars

\* The heartbeat loop and the supervisor run on, requests keep coming and each
\* one goes on until it ends, as far as the locks let them.  Nothing is assumed
\* of the console, the clock and the faults.
FairSpec ==
  /\ Spec
  /\ WF_vars(AgentStep \/ Register)
  /\ \A w \in Worker : WF_vars(StartRequest(w) \/ RequestStep(w))

-----------------------------------------------------------------------------
(***************************************************************************)
(* Properties.                                                             *)
(***************************************************************************)

Plugins == 0 .. MaxPlugin
Configs == 0 .. MaxConfig
Entry == [key : Key, by : 1 .. MaxPlugin]

WorkerState ==
  [at : {"idle", "file", "hook", "v8", "load", "root", "run"}, seen : Nat,
   cfg : Configs, cfgTime : Configs, white : Configs,
   blob : Plugins, stamp : 0 .. MaxTime, max : Nat, lru : Seq(Entry)]

\* Every variable has its type.
TypeOK ==
  /\ plugin \in Plugins
  /\ config \in Configs
  /\ now \in 1 .. MaxTime
  /\ shm \in [md5 : Plugins, version : Plugins, stamp : 0 .. MaxTime, action : Plugins,
              time : Configs, white : Configs, registered : BOOLEAN]
  /\ snap \in Plugins \cup {Torn}
  /\ cloud \in Configs \cup {Torn}
  /\ pc \in {"idle", "unknown", "plugin", "save", "saved", "unsaved", "md5", "version",
             "config", "webdir", "open", "write", "time"}
  /\ answer \in [plugin : Plugins, config : Configs]
  /\ worker \in [Worker -> WorkerState]
  /\ lock \in [Block -> {"free", "read", "write"}]
  /\ faults \in 0 .. MaxFault
  /\ first \in [1 .. MaxTime -> Plugins]

\* The LRU of a worker holds no key twice and no more entries than lru.max_size,
\* whatever the configuration that has just changed it.
LruBounded ==
  \A w \in Worker :
    LET lru == worker[w].lru
    IN /\ Len(lru) <= worker[w].max
       /\ \A i, j \in 1 .. Len(lru) : lru[i].key = lru[j].key => i = j

\* A worker that has marked itself up to date with a time runs a configuration
\* at least that new, although the file is rewritten in place while it reads.
ConfigAtLeastAnnounced ==
  \A w \in Worker : worker[w].cfgTime <= worker[w].cfg

\* A worker that has stamped its snapshot with a second runs at least the first
\* plugin that was announced in that second.  A second plugin of the same
\* second is not noticed.
SnapshotAtLeastAnnounced ==
  \A w \in Worker :
    worker[w].stamp # 0 => worker[w].blob >= first[worker[w].stamp]

\* The white list of a request is not older than the configuration it runs
\* under, unless it did not fit into shared memory.
WhiteAtLeastConfig ==
  \A w \in Worker :
    worker[w].at \in {"v8", "load", "root", "run"} /\ worker[w].cfgTime \notin Oversize =>
      worker[w].white >= worker[w].cfgTime

\* A parameter is never skipped on the word of another plugin than the one the
\* worker runs.
FreshVerdicts ==
  \A w \in Worker : \A i \in 1 .. Len(worker[w].lru) :
    worker[w].lru[i].by = worker[w].blob

\* A worker runs its local configuration or one that the backend has published,
\* never a part of one, and moves to newer ones only, until it is restarted.
Held(w) == INSTANCE VersionedDelivery WITH
  Version <- [time : Configs],
  Local <- [time |-> None],
  published <- [time : 0 .. config],
  held <- [time |-> worker[w].cfg]

Delivered ==
  /\ \A w \in Worker : Held(w)!Init
  /\ [][\A w \in Worker : [Held(w)!Next]_<<config, worker[w].cfg>>]_vars

\* Two plugins of one second: the worker has loaded one under that
\* second and does not see the other.
SameSecond(w) ==
  /\ worker[w].blob # None
  /\ worker[w].stamp = shm.stamp
  /\ \A t \in 1 .. MaxTime : first[t] # shm.version

\* The heartbeat process died between the md5 and the version: the backend is
\* told that the plugin is there, and no worker is.
HalfAnnounced == pc \notin {"version"} /\ shm.md5 # shm.version

\* A process that died in an accessor holds a lock for which the heartbeat process,
\* the supervisor that would register again, or the worker itself waits for ever.
Hangs(w) ==
  \/ ~Granted(AgentUses)
  \/ ~shm.registered /\ ~Free("agent", "write")
  \/ ~Granted(WorkerUses(w))


-----------------------------------------------------------------------------
(***************************************************************************)
(* What makes the properties inductive.                                    *)
(***************************************************************************)

Applying == pc \notin {"idle", "unknown"}

\* Configurations move one way: from the answer into the file, from the file
\* into the workers; the announced time follows the file.
ConfigFlow ==
  /\ cloud <= config
  /\ shm.time <= config
  /\ cloud # Torn => shm.time <= cloud
  /\ Applying /\ answer.config # None =>
       /\ answer.config <= config
       /\ cloud <= answer.config
       /\ shm.time <= answer.config
       /\ \A w \in Worker : worker[w].cfg <= answer.config
  /\ pc \in {"webdir", "open", "write", "time"} => answer.config # None
  /\ pc = "write" => cloud = Torn
  /\ pc = "time" => cloud \in {answer.config, Torn}
  /\ \A w \in Worker :
       /\ worker[w].cfg <= config
       /\ cloud # Torn => worker[w].cfg <= cloud
       /\ worker[w].at = "file" => worker[w].seen <= shm.time
       /\ worker[w].cfgTime <= shm.time

\* The white list in shared memory is ahead of every announced configuration
\* that fits.
WhiteFlow ==
  /\ shm.time \notin Oversize => shm.time <= shm.white
  /\ pc \in {"webdir", "open", "write", "time"} /\ answer.config \notin Oversize =>
       answer.config <= shm.white
  /\ \A w \in Worker :
       /\ worker[w].at = "file" /\ worker[w].seen \notin Oversize =>
            worker[w].seen <= shm.white
       /\ worker[w].cfgTime \notin Oversize => worker[w].cfgTime <= shm.white

\* The same for plugins; a second that is announced has its first plugin.
PluginFlow ==
  /\ snap <= plugin
  /\ \A t \in 1 .. MaxTime : first[t] <= plugin /\ (snap # Torn => first[t] <= snap)
  /\ Applying /\ answer.plugin # None =>
       /\ answer.plugin <= plugin
       /\ \A t \in 1 .. MaxTime : first[t] <= answer.plugin
  /\ pc = "save" => answer.plugin # None /\ snap = Torn
  /\ pc \in {"saved", "md5", "version"} => answer.plugin # None /\ snap = answer.plugin
  /\ shm.stamp # 0 => first[shm.stamp] # None
  /\ \A w \in Worker :
       /\ worker[w].at = "load" => worker[w].seen \in 1 .. MaxTime /\ first[worker[w].seen] # None
       /\ worker[w].stamp # 0 => first[worker[w].stamp] # None

IInv ==
  /\ TypeOK
  /\ ConfigFlow /\ ConfigAtLeastAnnounced
  /\ WhiteFlow /\ WhiteAtLeastConfig
  /\ PluginFlow /\ SnapshotAtLeastAnnounced
  /\ LruBounded /\ FreshVerdicts

==============================================================================
