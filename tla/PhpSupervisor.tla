---------------------------- MODULE PhpSupervisor ----------------------------
(***************************************************************************)
(* The processes of the PHP agent (agent/openrasp_agent_manager.cc).  The  *)
(* server's first process creates the shared control block, forks the      *)
(* supervisor and serves requests.  The supervisor registers the host and  *)
(* then keeps one process of every agent alive: it forks the agents whose  *)
(* recorded pid is 0, and its SIGCHLD handler sets the recorded pid of a   *)
(* dead agent back to 0.  When the recorded master is dead it kills the    *)
(* agents and itself; the agents also leave on their own.                  *)
(*                                                                         *)
(* php-fpm either stays in the foreground, so that the first process is    *)
(* the master, or forks its master from a launcher that then exits; the    *)
(* launcher's module shutdown hands the recorded master over.  Apache is   *)
(* the foreground case without the search for the process title.           *)
(*                                                                         *)
(* The control block is protected by one process-shared rwlock.  Its       *)
(* accesses are short, so those of the host processes and the agents are   *)
(* single steps, except that a process killed inside one leaves the lock   *)
(* taken.  The supervisor's accesses are two steps, because its handler    *)
(* can interrupt it while it holds the lock.  Pids are never reused.       *)
(***************************************************************************)
EXTENDS Naturals

CONSTANTS
  NumAgents,   \* agents in the order of supervisor_startup
  LogAgent,    \* the one whose loop also compares its pid with the recorded one
  MaxForks,    \* bound: agents forked by the supervisor
  MaxFault     \* bound: crashes, failed forks and heartbeats answered with 4001

ASSUME AgentAssumption ==
  /\ NumAgents \in Nat \ {0}
  /\ LogAgent \in 1 .. NumAgents
  /\ MaxForks \in Nat
  /\ MaxFault \in Nat

Agent == 1 .. NumAgents
Heartbeat == 1
Pid == 1 .. MaxForks
NoPid == 0
Host == {"launcher", "fpm", "worker"}

VARIABLES
  shm,         \* shm[a]: the recorded pid of agent a
  registered,  \* the flag of the control block
  recorded,    \* the supervisor's own pid is recorded
  master,      \* the recorded master
  stuck,       \* what a process killed inside a critical section left locked
  pc,          \* where the supervisor's main loop stands, "dead" without supervisor
  idx,         \* the agent its loop is at
  seen,        \* the local variable pid_before_detect, "none" out of its scope
  hold,        \* what its main loop holds of the lock
  cleared,     \* its vector of agents is empty
  sig,         \* SIGCHLD is pending
  handler,     \* its SIGCHLD handler
  forks,       \* the children forked so far
  kind,        \* kind[p]: the agent that p runs
  st,          \* st[p]: the life of child p
  host,        \* host[h]: the life of a process of the server
  hi,          \* hi[h]: the agent it kills next
  faults,      \* bound: faults so far
  lost         \* history: the dead children that the handler could not match

blockVars == <<registered, recorded, master>>
mainVars == <<pc, idx, seen, hold, cleared>>
procVars == <<forks, kind>>
hostVars == <<host, hi>>
vars == <<shm, blockVars, stuck, mainVars, sig, handler, procVars, st,
          hostVars, faults, lost>>

\* The first process after create_share_memory and the fork of the supervisor;
\* all memory starts at zero.  One worker is followed, in the foreground case:
\* under a launcher no search can take it for the master.
Init ==
  /\ shm = [a \in Agent |-> NoPid]
  /\ registered = FALSE
  /\ recorded = FALSE
  /\ \E first \in {"launcher", "fpm"} :
       /\ master = first
       /\ host = [h \in Host |-> IF h = first THEN "record"
                                 ELSE IF h = "worker" /\ first = "launcher" THEN "gone"
                                 ELSE "none"]
  /\ hi = [h \in Host |-> 1]
  /\ stuck = "no"
  /\ pc = "registered"
  /\ idx = 1
  /\ seen = "none"
  /\ hold = "no"
  /\ cleared = FALSE
  /\ sig = FALSE
  /\ handler = "off"
  /\ forks = 0
  /\ kind = [p \in Pid |-> 1]
  /\ st = [p \in Pid |-> "unborn"]
  /\ faults = 0
  /\ lost = {}

Up(h) == host[h] \notin {"none", "gone"}
Live(p) == st[p] \in {"boot", "run", "stray"}

\* A reader waits for a writer, a writer for everyone.
CanRead == "write" \notin {stuck, hold}
CanWrite == stuck = "no" /\ hold = "no"

-----------------------------------------------------------------------------
(***************************************************************************)
(* Deaths.                                                                 *)
(***************************************************************************)

\* What a killed child may leave locked: every agent reads the block, the
\* heartbeat agent also writes it.
LeftLocked(p) ==
  {stuck}
    \cup (IF st[p] # "boot" /\ stuck = "no" /\ CanRead THEN {"read"} ELSE {})
    \cup (IF st[p] # "boot" /\ CanWrite /\ kind[p] = Heartbeat THEN {"write"} ELSE {})

Fault == faults < MaxFault /\ faults' = faults + 1

\* A dead child of a living supervisor is a zombie and raises SIGCHLD.
Ends(p) ==
  /\ st' = [st EXCEPT ![p] = IF pc # "dead" THEN "zombie" ELSE "gone"]
  /\ sig' = (sig \/ pc # "dead")

\* kill(pid, SIGKILL) for a recorded pid: nothing happens to 0 or to a pid that
\* is not alive any more.
KillPid(p) ==
  IF p # NoPid /\ Live(p)
  THEN Ends(p) /\ stuck' \in LeftLocked(p)
  ELSE UNCHANGED <<st, sig, stuck>>

\* The death of the supervisor: init reaps its zombies.  What it holds of the
\* lock stays taken.
SupervisorEnds ==
  /\ pc' = "dead"
  /\ idx' = 1
  /\ seen' = "none"
  /\ cleared' = FALSE
  /\ sig' = FALSE
  /\ handler' = "off"
  /\ st' = [p \in Pid |-> IF st[p] = "zombie" THEN "gone" ELSE st[p]]

-----------------------------------------------------------------------------
(***************************************************************************)
(* The supervisor's main loop, supervisor_run.                             *)
(***************************************************************************)

AtMain(label) == handler = "off" /\ pc = label

Acquire ==
  /\ handler = "off" /\ hold = "no"
  /\ \/ /\ pc \in {"registered", "check", "detect", "redetect", "kill", "suicide"}
        /\ stuck # "write"
        /\ hold' = "read"
     \/ /\ pc \in {"setreg", "record"}
        /\ stuck = "no"
        /\ hold' = "write"
  /\ UNCHANGED <<shm, blockVars, stuck, pc, idx, seen, cleared, sig, handler,
                 procVars, st, hostVars, faults, lost>>

\* A round whose countdown is at zero.  The others go on to the test of the
\* master at once; they are left out, since nothing else tells them apart from a
\* round in which no agent is missing or the registration fails.
StartRound ==
  /\ AtMain("registered") /\ hold = "read"
  /\ hold' = "no"
  /\ pc' = IF ~registered THEN "register" ELSE IF cleared THEN "detect" ELSE "check"
  /\ UNCHANGED <<shm, blockVars, stuck, idx, seen, cleared, sig, handler,
                 procVars, st, hostVars, faults, lost>>

\* agent_remote_register: the request fails, or the backend accepts.
Register ==
  /\ AtMain("register")
  /\ pc' \in {"detect", "setreg"}
  /\ UNCHANGED <<shm, blockVars, stuck, idx, seen, hold, cleared, sig, handler,
                 procVars, st, hostVars, faults, lost>>

SetRegistered ==
  /\ AtMain("setreg") /\ hold = "write"
  /\ registered' = TRUE
  /\ hold' = "no"
  /\ pc' = "detect"
  /\ UNCHANGED <<shm, recorded, master, stuck, idx, seen, cleared, sig, handler,
                 procVars, st, hostVars, faults, lost>>

NextAgent ==
  IF idx = NumAgents
  THEN pc' = "detect" /\ idx' = 1
  ELSE pc' = "check" /\ idx' = idx + 1

CheckAgent ==
  /\ AtMain("check") /\ hold = "read"
  /\ hold' = "no"
  /\ IF shm[idx] = NoPid THEN pc' = "fork" /\ idx' = idx ELSE NextAgent
  /\ UNCHANGED <<shm, blockVars, stuck, seen, cleared, sig, handler,
                 procVars, st, hostVars, faults, lost>>

Fork ==
  /\ AtMain("fork") /\ forks < MaxForks
  /\ forks' = forks + 1
  /\ kind' = [kind EXCEPT ![forks + 1] = idx]
  /\ st' = [st EXCEPT ![forks + 1] = "boot"]
  /\ pc' = "record"
  /\ UNCHANGED <<shm, blockVars, stuck, idx, seen, hold, cleared, sig, handler,
                 hostVars, faults, lost>>

ForkFails ==
  /\ AtMain("fork")
  /\ Fault \/ (forks = MaxForks /\ faults' = faults)
  /\ NextAgent
  /\ UNCHANGED <<shm, blockVars, stuck, seen, hold, cleared, sig, handler,
                 procVars, st, hostVars, lost>>

RecordPid ==
  /\ AtMain("record") /\ hold = "write"
  /\ shm' = [shm EXCEPT ![idx] = forks]
  /\ hold' = "no"
  /\ NextAgent
  /\ UNCHANGED <<blockVars, stuck, seen, cleared, sig, handler,
                 procVars, st, hostVars, faults, lost>>

ReadMaster ==
  /\ AtMain("detect") /\ hold = "read"
  /\ seen' = master
  /\ hold' = "no"
  /\ pc' = "probe"
  /\ UNCHANGED <<shm, blockVars, stuck, idx, cleared, sig, handler,
                 procVars, st, hostVars, faults, lost>>

ProbeMaster ==
  /\ AtMain("probe")
  /\ IF Up(seen)
     THEN pc' = "registered" /\ seen' = "none"
     ELSE pc' = "redetect" /\ seen' = seen
  /\ UNCHANGED <<shm, blockVars, stuck, idx, hold, cleared, sig, handler,
                 procVars, st, hostVars, faults, lost>>

\* Mutant of StillMaster: the pid is not read again.
StillMasterAssumed == TRUE

\* Mutant of StillMaster: the comparison is the wrong way round.
StillMasterInverted == master # seen

StillMaster == master = seen

RereadMaster ==
  /\ AtMain("redetect") /\ hold = "read"
  /\ hold' = "no"
  /\ IF StillMaster
     THEN pc' = (IF cleared THEN "suicide" ELSE "kill") /\ seen' = seen
     ELSE pc' = "registered" /\ seen' = "none"
  /\ UNCHANGED <<shm, blockVars, stuck, idx, cleared, sig, handler,
                 procVars, st, hostVars, faults, lost>>

\* kill_agent_processes, then agents.clear().
KillRecorded ==
  /\ AtMain("kill") /\ hold = "read"
  /\ hold' = "no"
  /\ KillPid(shm[idx])
  /\ IF idx = NumAgents
     THEN pc' = "suicide" /\ cleared' = TRUE /\ idx' = 1
     ELSE pc' = "kill" /\ cleared' = cleared /\ idx' = idx + 1
  /\ UNCHANGED <<shm, blockVars, seen, handler, procVars, hostVars, faults, lost>>

\* Without a recorded pid of its own the supervisor goes on, with no agents.
Suicide ==
  /\ AtMain("suicide") /\ hold = "read"
  /\ hold' = "no"
  /\ IF recorded
     THEN SupervisorEnds
     ELSE pc' = "registered" /\ seen' = "none" /\ UNCHANGED <<idx, cleared, sig, handler, st>>
  /\ UNCHANGED <<shm, blockVars, stuck, procVars, hostVars, faults, lost>>

-----------------------------------------------------------------------------
(***************************************************************************)
(* The SIGCHLD handler, supervisor_sigchld_handler.  The signal is blocked *)
(* while it runs and any number of deaths before it make one signal.       *)
(***************************************************************************)

EnterHandler ==
  /\ handler = "off" /\ sig
  /\ sig' = FALSE
  /\ handler' = "on"
  /\ UNCHANGED <<shm, blockVars, stuck, mainVars, procVars, st, hostVars, faults, lost>>

\* Mutant of Reset: every recorded pid is reset.
ResetAll(p) == [a \in Agent |-> NoPid]

\* Mutant of Reset: the recorded pid stays.
ResetNothing(p) == shm

Reset(p) == [shm EXCEPT ![kind[p]] = NoPid]

Match(p) == ~cleared /\ shm[kind[p]] = p

\* One turn of its loop: waitpid, the comparison with every recorded pid and
\* the reset of the one that is equal.  When the interrupted main loop holds
\* the lock for writing, read_lock fails and every recorded pid reads as 0;
\* when it holds it for reading, the comparison works and write_lock waits for
\* the very thread it interrupts.
Reap(p) ==
  /\ handler = "on" /\ st[p] = "zombie"
  /\ st' = [st EXCEPT ![p] = "gone"]
  /\ \/ /\ cleared \/ hold = "write" \/ (CanRead /\ ~Match(p))
        /\ lost' = lost \cup {p}
        /\ UNCHANGED <<shm, handler>>
     \/ /\ CanWrite /\ Match(p)
        /\ shm' = Reset(p)
        /\ UNCHANGED <<handler, faults, lost>>
     \/ /\ ~cleared /\ hold # "write"
        /\ stuck = "write" \/ (Match(p) /\ ~CanWrite)
        /\ handler' = "hung"
        /\ UNCHANGED <<shm, faults, lost>>
  /\ UNCHANGED <<blockVars, stuck, mainVars, sig, procVars, hostVars, faults>>

\* Mutant of LeaveHandler: one waitpid per signal.
LeaveHandlerEarly ==
  /\ handler = "on"
  /\ handler' = "off"
  /\ UNCHANGED <<shm, blockVars, stuck, mainVars, sig, procVars, st, hostVars, faults, lost>>

LeaveHandler ==
  /\ handler = "on"
  /\ \A p \in Pid : st[p] # "zombie"
  /\ handler' = "off"
  /\ UNCHANGED <<shm, blockVars, stuck, mainVars, sig, procVars, st, hostVars, faults, lost>>

-----------------------------------------------------------------------------
(***************************************************************************)
(* The agents: the loops of HeartBeatAgent, LogAgent and WebDirAgent.      *)
(***************************************************************************)

\* getppid: a child that comes to it after the supervisor's death takes init
\* for the supervisor, and init never dies.
Boot(p) ==
  /\ st[p] = "boot"
  /\ st' = [st EXCEPT ![p] = IF pc # "dead" THEN "run" ELSE "stray"]
  /\ UNCHANGED <<shm, blockVars, stuck, mainVars, sig, handler, procVars,
                 hostVars, faults, lost>>

\* Mutant of EndsLoop: the supervisor is not tested.
EndsLoopWithMaster(p) == ~Up(master) \/ (kind[p] = LogAgent /\ shm[LogAgent] # p)

\* The tests that end an agent's loop.
EndsLoop(p) ==
  \/ ~Up(master)
  \/ st[p] = "run" /\ pc = "dead"
  \/ kind[p] = LogAgent /\ shm[LogAgent] # p

Leave(p) ==
  /\ st[p] \in {"run", "stray"} /\ CanRead
  /\ EndsLoop(p)
  /\ Ends(p)
  /\ UNCHANGED <<shm, blockVars, stuck, mainVars, handler, procVars, hostVars, faults, lost>>

\* Answer 4001 to a heartbeat.
Unregister(p) ==
  /\ st[p] \in {"run", "stray"} /\ kind[p] = Heartbeat
  /\ registered /\ CanWrite
  /\ Fault
  /\ registered' = FALSE
  /\ UNCHANGED <<shm, recorded, master, stuck, mainVars, sig, handler, procVars, st,
                 hostVars, lost>>

\* A crash, or SIGKILL from outside.
Dies(p) ==
  /\ Live(p)
  /\ Fault
  /\ KillPid(p)
  /\ UNCHANGED <<shm, blockVars, mainVars, handler, procVars, hostVars, lost>>

SupervisorDies ==
  /\ pc # "dead"
  /\ Fault
  /\ SupervisorEnds
  /\ UNCHANGED <<shm, blockVars, stuck, hold, procVars, hostVars, lost>>

-----------------------------------------------------------------------------
(***************************************************************************)
(* The server's processes.                                                 *)
(***************************************************************************)

RecordSupervisor(h) ==
  /\ host[h] = "record" /\ CanWrite
  /\ recorded' = TRUE
  /\ host' = [host EXCEPT ![h] = "serve"]
  /\ UNCHANGED <<shm, registered, master, stuck, mainVars, sig, handler, procVars, st,
                 hi, faults, lost>>

\* php-fpm forks: the launcher its master, the master its workers.  A worker
\* carries the master's process title until it has set its own.
StartProcess ==
  /\ \/ /\ host["launcher"] = "serve" /\ host["fpm"] = "none"
        /\ host' = [host EXCEPT !["fpm"] = "serve"]
     \/ /\ host["fpm"] = "serve" /\ host["worker"] = "none"
        /\ host' = [host EXCEPT !["worker"] = "untitled"]
     \/ /\ host["worker"] = "untitled"
        /\ host' = [host EXCEPT !["worker"] = "serve"]
  /\ UNCHANGED <<shm, blockVars, stuck, mainVars, sig, handler, procVars, st, hi, faults, lost>>

\* search_fpm_master_pid: the children of the first process whose title is the
\* master's.  In the foreground case that is a worker before it has its title.
FpmMaster ==
  {h \in {"fpm"} : host["launcher"] \notin {"none", "gone"} /\ Up("fpm")}
    \cup {h \in {"worker"} : host["launcher"] = "none" /\ host["worker"] = "untitled"}

SetMaster ==
  IF FpmMaster = {} THEN master' = master ELSE CanWrite /\ master' \in FpmMaster

\* The module shutdown of a process up to the test of its pid; a launcher waits
\* until the master is up.
BeginShutdown(h) ==
  /\ host[h] = "serve"
  /\ h = "launcher" => host["fpm"] # "none"
  /\ SetMaster
  /\ host' = [host EXCEPT ![h] = "shutdown"]
  /\ UNCHANGED <<shm, registered, recorded, stuck, mainVars, sig, handler, procVars, st,
                 hi, faults, lost>>

\* Another worker, one that is not tracked, ends: it may record what it finds.
OldWorkerEnds ==
  /\ host["fpm"] = "serve"
  /\ FpmMaster # {}
  /\ SetMaster
  /\ UNCHANGED <<shm, registered, recorded, stuck, mainVars, sig, handler, procVars, st,
                 hostVars, faults, lost>>

\* Only the recorded master goes on to end the supervisor.
GuardShutdown(h) ==
  /\ host[h] = "shutdown" /\ CanRead
  /\ host' = [host EXCEPT ![h] = IF master = h THEN "kill" ELSE "gone"]
  /\ UNCHANGED <<shm, blockVars, stuck, mainVars, sig, handler, procVars, st, hi, faults, lost>>

KillAgent(h) ==
  /\ host[h] = "kill" /\ CanRead
  /\ KillPid(shm[hi[h]])
  /\ IF hi[h] = NumAgents
     THEN host' = [host EXCEPT ![h] = "killsup"] /\ hi' = [hi EXCEPT ![h] = 1]
     ELSE host' = host /\ hi' = [hi EXCEPT ![h] = @ + 1]
  /\ UNCHANGED <<shm, blockVars, mainVars, handler, procVars, faults, lost>>

KillSupervisor(h) ==
  /\ host[h] = "killsup" /\ CanRead
  /\ host' = [host EXCEPT ![h] = "gone"]
  /\ IF recorded THEN SupervisorEnds ELSE UNCHANGED <<pc, idx, seen, cleared, sig, handler, st>>
  /\ UNCHANGED <<shm, blockVars, stuck, hold, procVars, hi, faults, lost>>

HostDies(h) ==
  /\ Up(h)
  /\ Fault
  /\ host' = [host EXCEPT ![h] = "gone"]
  /\ UNCHANGED <<shm, blockVars, stuck, mainVars, sig, handler, procVars, st, hi, lost>>

-----------------------------------------------------------------------------
MainStep ==
  \/ Acquire \/ StartRound \/ Register \/ SetRegistered
  \/ CheckAgent \/ Fork \/ ForkFails \/ RecordPid
  \/ ReadMaster \/ ProbeMaster \/ RereadMaster \/ KillRecorded \/ Suicide

HandlerStep == EnterHandler \/ LeaveHandler \/ \E p \in Pid : Reap(p)

AgentStep ==
  \/ \E p \in Pid : Boot(p) \/ Leave(p) \/ Unregister(p) \/ Dies(p)
  \/ SupervisorDies

HostStep ==
  \/ StartProcess \/ OldWorkerEnds
  \/ \E h \in Host :
       \/ RecordSupervisor(h) \/ BeginShutdown(h) \/ GuardShutdown(h)
       \/ KillAgent(h) \/ KillSupervisor(h) \/ HostDies(h)

Next == MainStep \/ HandlerStep \/ AgentStep \/ HostStep

Spec == Init /\ [][Next]_vars

\* Every process that can run does; a server process ends only when told to.
FairSpec ==
  /\ Spec
  /\ WF_vars(MainStep)
  /\ WF_vars(HandlerStep)
  /\ WF_vars(\E p \in Pid : Boot(p) \/ Leave(p))
  /\ WF_vars(\E h \in Host : GuardShutdown(h) \/ KillAgent(h) \/ KillSupervisor(h))

-----------------------------------------------------------------------------
(***************************************************************************)
(* Properties.                                                             *)
(***************************************************************************)

\* Every variable has its type (OpenraspCtrlBlock and the process life cycles).
TypeOK ==
  /\ shm \in [Agent -> Pid \cup {NoPid}]
  /\ registered \in BOOLEAN
  /\ recorded \in BOOLEAN
  /\ master \in Host
  /\ stuck \in {"no", "read", "write"}
  /\ pc \in {"registered", "register", "setreg", "check", "fork", "record", "detect",
             "probe", "redetect", "kill", "suicide", "dead"}
  /\ idx \in Agent
  /\ seen \in Host \cup {"none"}
  /\ hold \in {"no", "read", "write"}
  /\ cleared \in BOOLEAN
  /\ sig \in BOOLEAN
  /\ handler \in {"off", "on", "hung"}
  /\ forks \in 0 .. MaxForks
  /\ kind \in [Pid -> Agent]
  /\ st \in [Pid -> {"unborn", "boot", "run", "stray", "zombie", "gone"}]
  /\ host \in [Host -> {"none", "record", "untitled", "serve", "shutdown", "kill",
                        "killsup", "gone"}]
  /\ hi \in [Host -> Agent]
  /\ faults \in 0 .. MaxFault
  /\ lost \subseteq Pid

\* ensure_agent_processes_survival never leaves two processes of one agent
\* alive, whatever dies and whenever the handler runs: two heartbeats would
\* overwrite each other's plugin, two log agents post every line twice.
OneLivePerAgent ==
  \A p, q \in Pid : Live(p) /\ Live(q) /\ kind[p] = kind[q] => p = q

\* A recorded pid whose process is dead is noticed: its zombie is still to be
\* reaped by a handler that is pending or running, or it is one of those that
\* the handler could not match.  Signals coalesce, so the handler's loop has to
\* reap every zombie.
DeathsNoticed ==
  pc # "dead" =>
    /\ (\E p \in Pid : st[p] = "zombie") => sig \/ handler # "off"
    /\ \A a \in Agent : shm[a] # NoPid /\ st[shm[a]] = "gone" =>
         shm[a] \in lost \/ handler = "hung"

ShuttingDown ==
  \/ pc \in {"kill", "suicide"}
  \/ \E h \in Host \ {"fpm"} : host[h] \in {"kill", "killsup"}

\* Nobody ends the agents of a serving master that the block names: neither the
\* supervisor that read the launcher's pid just before the hand-over, nor a
\* worker or the launcher in its own module shutdown.
SparesServer ==
  ShuttingDown /\ host["fpm"] = "serve" => master # "fpm"

\* An agent that dies comes back (as long as forks are left), unless the
\* supervisor is gone, is blocked, is not registered, has given its agents up,
\* or missed the death.
Blocked == stuck # "no" \/ handler = "hung"
GivenUp(a) ==
  \/ pc = "dead" \/ Blocked \/ ~registered \/ cleared
  \/ shm[a] \in lost \/ forks = MaxForks
AgentsComeBack ==
  []<>(\A a \in Agent : GivenUp(a) \/ (shm[a] # NoPid /\ Live(shm[a])))

\* When nothing of the server is left the supervisor ends, unless it is blocked
\* or the first process died before it had recorded the supervisor's pid.
SupervisorLeaves ==
  (\A h \in Host : ~Up(h) /\ host["fpm"] # "none") ~> (pc = "dead" \/ Blocked \/ ~recorded)

\* Without a supervisor the agents leave, except one that started after the
\* supervisor's death: it stays as long as the recorded master lives.
AgentsLeave ==
  pc = "dead" ~>
    ~CanRead \/ \A p \in Pid : Live(p) => st[p] = "stray" /\ Up(master)

==============================================================================
