------------------------ MODULE PhpSupervisor_proofs ------------------------
(***************************************************************************)
(* Proofs about PhpSupervisor, for any number of agents, forks and faults. *)
(***************************************************************************)
EXTENDS PhpSupervisor, TLAPS

\* Only children that have been forked are or were alive.
Unborn == \A p \in Pid : p > forks => st[p] = "unborn"

\* What the block says of the children.  A supervisor forks only an agent that
\* has no pid in the block, so that a live child is either recorded or the one
\* about to be.
Records ==
  /\ pc \in {"fork", "record"} => shm[idx] = NoPid
  /\ pc = "record" => forks \in Pid /\ kind[forks] = idx
  /\ pc = "record" /\ st[forks] = "gone" => forks \in lost \/ handler = "hung"
  /\ \A a \in Agent : shm[a] # NoPid => kind[shm[a]] = a /\ shm[a] <= forks
  /\ pc # "dead" => \A p \in Pid : Live(p) => shm[kind[p]] = p \/ (pc = "record" /\ p = forks)

IInv == TypeOK /\ Unborn /\ Records /\ OneLivePerAgent /\ DeathsNoticed

-----------------------------------------------------------------------------
(***************************************************************************)
(* Deaths                                                                  *)
(***************************************************************************)

\* What a step does to the children when all it does to them is to end some:
\* under a living supervisor they become zombies and the signal is raised.
Dying ==
  /\ \A q \in Pid : st'[q] # st[q] =>
       /\ Live(q)
       /\ st'[q] \in {"zombie", "gone"}
       /\ pc # "dead" => st'[q] = "zombie" /\ sig'
  /\ sig => sig'

\* One child ends.
LEMMA EndsOne ==
  ASSUME TypeOK, NEW p \in Pid, Live(p), Ends(p)
  PROVE  /\ st' \in [Pid -> {"unborn", "boot", "run", "stray", "zombie", "gone"}]
         /\ sig' \in BOOLEAN
         /\ Dying
<1> USE DEF TypeOK, Ends, Dying
<1>1. st' \in [Pid -> {"unborn", "boot", "run", "stray", "zombie", "gone"}]
  OBVIOUS
<1>2. sig' \in BOOLEAN /\ (sig => sig') /\ (pc # "dead" => sig')
  OBVIOUS
<1>3. /\ \A q \in Pid : st'[q] # st[q] => q = p
      /\ st'[p] = IF pc # "dead" THEN "zombie" ELSE "gone"
  OBVIOUS
<1> QED
  BY <1>1, <1>2, <1>3

\* A recorded pid is killed: nothing happens, or one child ends.
LEMMA KillOne ==
  ASSUME TypeOK, NEW p \in Pid \cup {NoPid}, KillPid(p)
  PROVE  /\ st' \in [Pid -> {"unborn", "boot", "run", "stray", "zombie", "gone"}]
         /\ sig' \in BOOLEAN
         /\ stuck' \in {"no", "read", "write"}
         /\ Dying
<1>1. CASE p # NoPid /\ Live(p)
  <2>1. stuck' \in {"no", "read", "write"}
    BY <1>1 DEF KillPid, LeftLocked, TypeOK
  <2>2. p \in Pid /\ Ends(p)
    BY <1>1 DEF KillPid
  <2> QED
    BY <1>1, <2>1, <2>2, EndsOne
<1>2. CASE ~(p # NoPid /\ Live(p))
  BY <1>2 DEF KillPid, TypeOK, Dying
<1> QED
  BY <1>1, <1>2

-----------------------------------------------------------------------------
(***************************************************************************)
(* Types                                                                   *)
(***************************************************************************)

\* The supervisor's loop over the agents stays within them.
LEMMA NextAgentTypes ==
  ASSUME idx \in Agent, NextAgent
  PROVE  idx' \in Agent /\ pc' \in {"check", "detect"}
  BY AgentAssumption DEF NextAgent, Agent

\* The end of the supervisor.
LEMMA SupervisorEndsTypes ==
  ASSUME TypeOK, SupervisorEnds
  PROVE  /\ pc' = "dead" /\ idx' \in Agent /\ seen' = "none" /\ cleared' \in BOOLEAN
         /\ sig' \in BOOLEAN /\ handler' = "off"
         /\ st' \in [Pid -> {"unborn", "boot", "run", "stray", "zombie", "gone"}]
         /\ \A p \in Pid : st'[p] = IF st[p] = "zombie" THEN "gone" ELSE st[p]
<1>1. 1 \in Agent
  BY AgentAssumption DEF Agent
<1>2. \A p \in Pid : st'[p] = IF st[p] = "zombie" THEN "gone" ELSE st[p]
  BY DEF SupervisorEnds
<1>3. st' \in [Pid -> {"unborn", "boot", "run", "stray", "zombie", "gone"}]
  BY DEF SupervisorEnds, TypeOK
<1> QED
  BY <1>1, <1>2, <1>3 DEF SupervisorEnds

\* The main loop keeps the types.
LEMMA MainTypes == ASSUME TypeOK, MainStep PROVE TypeOK'
<1> USE DEF TypeOK, blockVars, procVars, hostVars, AtMain
<1>1. CASE Acquire
  BY <1>1 DEF Acquire
<1>2. CASE StartRound \/ Register
  BY <1>2 DEF StartRound, Register
<1>3. CASE SetRegistered
  BY <1>3 DEF SetRegistered
<1>4. CASE CheckAgent
  BY <1>4, NextAgentTypes DEF CheckAgent
<1>5. CASE Fork
  <2>1. forks + 1 \in Pid /\ forks' \in 0 .. MaxForks
    BY <1>5, AgentAssumption DEF Fork, Pid
  <2>2. kind' \in [Pid -> Agent]
    BY <1>5, <2>1 DEF Fork
  <2>3. st' \in [Pid -> {"unborn", "boot", "run", "stray", "zombie", "gone"}]
    BY <1>5, <2>1 DEF Fork
  <2> QED
    BY <1>5, <2>1, <2>2, <2>3 DEF Fork
<1>6. CASE ForkFails
  <2>1. faults' \in 0 .. MaxFault
    BY <1>6, AgentAssumption DEF ForkFails, Fault
  <2> QED
    BY <1>6, <2>1, NextAgentTypes DEF ForkFails
<1>7. CASE RecordPid
  <2>1. forks \in Pid \cup {NoPid}
    BY AgentAssumption DEF Pid, NoPid
  <2>2. shm' \in [Agent -> Pid \cup {NoPid}]
    BY <1>7, <2>1 DEF RecordPid
  <2> QED
    BY <1>7, <2>2, NextAgentTypes DEF RecordPid
<1>8. CASE ReadMaster \/ ProbeMaster \/ RereadMaster
  BY <1>8 DEF ReadMaster, ProbeMaster, RereadMaster
<1>9. CASE KillRecorded
  <2>1. shm[idx] \in Pid \cup {NoPid} /\ KillPid(shm[idx])
    BY <1>9 DEF KillRecorded
  <2>2. idx' \in Agent /\ pc' \in {"kill", "suicide"} /\ cleared' \in BOOLEAN
    <3>1. 1 \in Agent /\ (idx # NumAgents => idx + 1 \in Agent)
      BY AgentAssumption DEF Agent
    <3> QED
      BY <1>9, <3>1 DEF KillRecorded
  <2> QED
    BY <1>9, <2>1, <2>2, KillOne DEF KillRecorded
<1>10. CASE Suicide
  BY <1>10, SupervisorEndsTypes DEF Suicide
<1> QED
  BY <1>1, <1>2, <1>3, <1>4, <1>5, <1>6, <1>7, <1>8, <1>9, <1>10 DEF MainStep

\* The handler keeps the types.
LEMMA HandlerTypes == ASSUME TypeOK, HandlerStep PROVE TypeOK'
<1> USE DEF TypeOK, blockVars, mainVars, procVars, hostVars
<1>1. CASE EnterHandler \/ LeaveHandler
  BY <1>1 DEF EnterHandler, LeaveHandler
<1>2. ASSUME NEW p \in Pid, Reap(p) PROVE TypeOK'
  <2>1. st' \in [Pid -> {"unborn", "boot", "run", "stray", "zombie", "gone"}]
    BY <1>2 DEF Reap
  <2>2. shm' \in [Agent -> Pid \cup {NoPid}]
    BY <1>2 DEF Reap, Reset
  <2>3. handler' \in {"off", "on", "hung"} /\ lost' \subseteq Pid
    BY <1>2 DEF Reap
  <2> QED
    BY <1>2, <2>1, <2>2, <2>3 DEF Reap
<1> QED
  BY <1>1, <1>2 DEF HandlerStep

\* A fault stays within the bound.
LEMMA FaultCounted == ASSUME faults \in 0 .. MaxFault, Fault PROVE faults' \in 0 .. MaxFault
  BY AgentAssumption DEF Fault

\* The agents and crashes keep the types.
LEMMA AgentTypes == ASSUME TypeOK, AgentStep PROVE TypeOK'
<1> USE DEF TypeOK, blockVars, mainVars, procVars, hostVars
<1>1. ASSUME NEW p \in Pid, Boot(p) PROVE TypeOK'
  BY <1>1 DEF Boot
<1>2. ASSUME NEW p \in Pid, Leave(p) PROVE TypeOK'
  <2>1. Live(p) /\ Ends(p)
    BY <1>2 DEF Leave, Live
  <2> QED
    BY <1>2, <2>1, EndsOne DEF Leave
<1>3. ASSUME NEW p \in Pid, Unregister(p) PROVE TypeOK'
  <2>1. faults' \in 0 .. MaxFault
    BY <1>3, FaultCounted DEF Unregister
  <2>2. registered' \in BOOLEAN
    BY <1>3 DEF Unregister
  <2>3. UNCHANGED <<shm, recorded, master, stuck, mainVars, sig>>
    BY <1>3 DEF Unregister
  <2>4. UNCHANGED <<handler, procVars, st, hostVars, lost>>
    BY <1>3 DEF Unregister
  <2> QED
    BY <2>1, <2>2, <2>3, <2>4
<1>4. ASSUME NEW p \in Pid, Dies(p) PROVE TypeOK'
  BY <1>4, FaultCounted, KillOne DEF Dies
<1>5. CASE SupervisorDies
  BY <1>5, FaultCounted, SupervisorEndsTypes DEF SupervisorDies
<1> QED
  BY <1>1, <1>2, <1>3, <1>4, <1>5 DEF AgentStep

\* Only a process of the server becomes the master.
LEMMA SetMasterTypes == ASSUME TypeOK, SetMaster PROVE master' \in Host
  BY DEF SetMaster, FpmMaster, TypeOK, Host

\* The server's processes keep the types.
LEMMA HostTypes == ASSUME TypeOK, HostStep PROVE TypeOK'
<1> USE DEF TypeOK, blockVars, mainVars, procVars, hostVars
<1>1. CASE StartProcess
  BY <1>1 DEF StartProcess
<1>2. CASE OldWorkerEnds
  BY <1>2, SetMasterTypes DEF OldWorkerEnds
<1>3. ASSUME NEW h \in Host, RecordSupervisor(h) \/ GuardShutdown(h) PROVE TypeOK'
  <2>1. host' \in [Host -> {"none", "record", "untitled", "serve", "shutdown", "kill",
                            "killsup", "gone"}]
    BY <1>3 DEF RecordSupervisor, GuardShutdown
  <2>2. recorded' \in BOOLEAN
    BY <1>3 DEF RecordSupervisor, GuardShutdown
  <2> QED
    BY <1>3, <2>1, <2>2 DEF RecordSupervisor, GuardShutdown
<1>4. ASSUME NEW h \in Host, BeginShutdown(h) PROVE TypeOK'
  BY <1>4, SetMasterTypes DEF BeginShutdown
<1>5. ASSUME NEW h \in Host, KillAgent(h) PROVE TypeOK'
  <2>1. shm[hi[h]] \in Pid \cup {NoPid} /\ KillPid(shm[hi[h]])
    BY <1>5 DEF KillAgent
  <2>2. 1 \in Agent /\ (hi[h] # NumAgents => hi[h] + 1 \in Agent)
    BY AgentAssumption DEF Agent
  <2>3. hi' \in [Host -> Agent]
    BY <1>5, <2>2 DEF KillAgent
  <2>4. host' \in [Host -> {"none", "record", "untitled", "serve", "shutdown", "kill",
                            "killsup", "gone"}]
    BY <1>5 DEF KillAgent
  <2> QED
    BY <1>5, <2>1, <2>3, <2>4, KillOne DEF KillAgent
<1>6. ASSUME NEW h \in Host, KillSupervisor(h) PROVE TypeOK'
  <2>1. host' \in [Host -> {"none", "record", "untitled", "serve", "shutdown", "kill",
                            "killsup", "gone"}]
    BY <1>6 DEF KillSupervisor
  <2> QED
    BY <1>6, <2>1, SupervisorEndsTypes DEF KillSupervisor
<1>7. ASSUME NEW h \in Host, HostDies(h) PROVE TypeOK'
  BY <1>7, FaultCounted DEF HostDies
<1> QED
  BY <1>1, <1>2, <1>3, <1>4, <1>5, <1>6, <1>7 DEF HostStep

-----------------------------------------------------------------------------
(***************************************************************************)
(* One live process per agent, and no death unnoticed                      *)
(***************************************************************************)

\* A step that forks and records nothing, and ends any number of children.
LEMMA Calm ==
  ASSUME IInv, Dying,
         UNCHANGED <<shm, forks, kind, lost>>,
         handler' = handler \/ (handler = "off" /\ handler' = "on"),
         pc' = "dead" <=> pc = "dead",
         \/ UNCHANGED <<pc, idx>>
         \/ pc # "record" /\ pc' \notin {"fork", "record"}
         \/ pc = "check" /\ pc' = "fork" /\ idx' = idx /\ shm[idx] = NoPid,
         sig => sig' \/ handler' # "off"
  PROVE  Unborn' /\ Records' /\ OneLivePerAgent' /\ DeathsNoticed'
<1> USE DEF IInv
<1>1. \A q \in Pid : /\ Live(q)' => Live(q)
                     /\ st[q] = "unborn" => st'[q] = "unborn"
                     /\ pc # "dead" /\ st'[q] = "gone" => st[q] = "gone"
                     /\ pc # "dead" /\ st'[q] = "zombie" => st[q] = "zombie" \/ sig'
  BY DEF Dying, Live
<1>2. Unborn'
  BY <1>1 DEF Unborn
<1>3. Records'
  BY <1>1 DEF Records, TypeOK
<1>4. OneLivePerAgent'
  BY <1>1 DEF OneLivePerAgent
<1>5. DeathsNoticed'
  BY <1>1 DEF DeathsNoticed, TypeOK
<1> QED
  BY <1>2, <1>3, <1>4, <1>5

\* The supervisor's end: nothing is promised of the block any more, and no
\* child is born.
LEMMA Fall ==
  ASSUME IInv, SupervisorEnds, UNCHANGED <<shm, forks, kind, lost>>
  PROVE  Unborn' /\ Records' /\ OneLivePerAgent' /\ DeathsNoticed'
<1> USE DEF IInv
<1>1. pc' = "dead" /\ \A q \in Pid : st'[q] = IF st[q] = "zombie" THEN "gone" ELSE st[q]
  BY SupervisorEndsTypes
<1>2. \A q \in Pid : (Live(q)' => Live(q)) /\ (st[q] = "unborn" => st'[q] = "unborn")
  BY <1>1 DEF Live
<1> QED
  BY <1>1, <1>2 DEF Unborn, Records, OneLivePerAgent, DeathsNoticed

\* A child is forked for an agent that has none.
LEMMA ForkStep ==
  ASSUME IInv, Fork
  PROVE  Unborn' /\ Records' /\ OneLivePerAgent' /\ DeathsNoticed'
<1> USE DEF IInv
<1>1. /\ pc = "fork" /\ pc' = "record" /\ shm[idx] = NoPid /\ idx \in Agent
      /\ forks' = forks + 1 /\ forks \in Nat /\ forks' \in Pid
      /\ UNCHANGED <<shm, idx, lost, handler, sig>>
  BY AgentAssumption DEF Fork, AtMain, TypeOK, Pid, Records
<1>2. /\ kind'[forks'] = idx /\ st'[forks'] = "boot" /\ st[forks'] = "unborn"
      /\ \A q \in Pid \ {forks'} : kind'[q] = kind[q] /\ st'[q] = st[q]
  BY <1>1 DEF Fork, TypeOK, Unborn
<1>3. \A a \in Agent : shm[a] # NoPid => shm[a] \in Pid \ {forks'} /\ shm[a] <= forks'
  BY <1>1 DEF Records, TypeOK, Pid
<1>4. Unborn'
  BY <1>1, <1>2 DEF Unborn, Pid
<1>5. Records'
  BY <1>1, <1>2, <1>3 DEF Records, Live
<1>6. OneLivePerAgent'
  <2>1. \A p \in Pid \ {forks'} : Live(p)' => Live(p) /\ kind'[p] # idx
    BY <1>1, <1>2, <1>3 DEF Records, Live, TypeOK, NoPid, Pid
  <2> QED
    BY <1>2, <2>1 DEF OneLivePerAgent
<1>7. DeathsNoticed'
  BY <1>1, <1>2, <1>3 DEF DeathsNoticed
<1> QED
  BY <1>4, <1>5, <1>6, <1>7

\* The child is recorded under its agent.
LEMMA RecordStep ==
  ASSUME IInv, RecordPid
  PROVE  Unborn' /\ Records' /\ OneLivePerAgent' /\ DeathsNoticed'
<1> USE DEF IInv
<1>1. /\ pc = "record" /\ pc' \in {"check", "detect"} /\ forks \in Pid /\ kind[forks] = idx
      /\ idx \in Agent /\ shm[idx] = NoPid
      /\ shm' = [shm EXCEPT ![idx] = forks]
      /\ UNCHANGED <<st, kind, forks, lost, handler, sig>>
      /\ st[forks] = "gone" => forks \in lost \/ handler = "hung"
  BY NextAgentTypes DEF RecordPid, AtMain, TypeOK, Records, procVars
<1>2. shm'[idx] = forks /\ \A a \in Agent \ {idx} : shm'[a] = shm[a]
  BY <1>1 DEF TypeOK
<1>3. Unborn' /\ OneLivePerAgent'
  BY <1>1 DEF Unborn, OneLivePerAgent, Live
<1>4. Records'
  <2>1. \A p \in Pid : Live(p)' => shm'[kind'[p]] = p
    BY <1>1, <1>2 DEF Records, Live, TypeOK, NoPid, Pid
  <2>2. \A a \in Agent : shm'[a] # NoPid => kind'[shm'[a]] = a /\ shm'[a] <= forks'
    BY <1>1, <1>2 DEF Records, TypeOK
  <2> QED
    BY <1>1, <2>1, <2>2 DEF Records
<1>5. DeathsNoticed'
  BY <1>1, <1>2 DEF DeathsNoticed
<1> QED
  BY <1>3, <1>4, <1>5

\* The handler reaps one child.
LEMMA ReapStep ==
  ASSUME IInv, NEW p \in Pid, Reap(p)
  PROVE  Unborn' /\ Records' /\ OneLivePerAgent' /\ DeathsNoticed'
<1> USE DEF IInv
<1>1. /\ st[p] = "zombie" /\ st'[p] = "gone" /\ handler = "on" /\ handler' \in {"on", "hung"}
      /\ \A q \in Pid \ {p} : st'[q] = st[q]
      /\ UNCHANGED <<pc, idx, forks, kind, sig>>
      /\ lost \subseteq lost'
  BY DEF Reap, TypeOK, mainVars, procVars
<1>2. \/ shm' = shm /\ (p \in lost' \/ handler' = "hung")
      \/ shm' = [shm EXCEPT ![kind[p]] = NoPid] /\ shm[kind[p]] = p
  BY DEF Reap, Match, Reset
<1>3. \A q \in Pid : Live(q)' <=> Live(q)
  BY <1>1 DEF Live
<1>4. kind[p] \in Agent /\ p # NoPid
  BY DEF TypeOK, Pid, NoPid
<1>5. \A a \in Agent : \/ shm'[a] = shm[a] /\ (shm[a] = p => p \in lost' \/ handler' = "hung")
                       \/ shm'[a] = NoPid /\ shm[a] = p /\ a = kind[p]
  BY <1>2, <1>4 DEF Records, TypeOK
<1>6. Unborn' /\ OneLivePerAgent'
  BY <1>1, <1>3 DEF Unborn, OneLivePerAgent
<1>7. Records'
  <2>1. pc' \in {"fork", "record"} => shm'[idx'] = NoPid
    BY <1>1, <1>5 DEF Records, TypeOK
  <2>2. pc' = "record" => forks' \in Pid /\ kind'[forks'] = idx'
    BY <1>1 DEF Records
  <2>3. pc' = "record" /\ st'[forks'] = "gone" => forks' \in lost' \/ handler' = "hung"
    <3>1. CASE forks = p /\ pc = "record"
      BY <1>1, <1>2, <1>4, <3>1 DEF Records
    <3>2. CASE forks # p
      BY <1>1, <3>2 DEF Records
    <3> QED
      BY <1>1, <3>1, <3>2
  <2>4. \A a \in Agent : shm'[a] # NoPid => kind'[shm'[a]] = a /\ shm'[a] <= forks'
    BY <1>1, <1>5 DEF Records
  <2>5. pc' # "dead" =>
          \A q \in Pid : Live(q)' => shm'[kind'[q]] = q \/ (pc' = "record" /\ q = forks')
    <3>1. ~Live(p)
      BY <1>1 DEF Live
    <3>2. \A q \in Pid : kind[q] \in Agent
      BY DEF TypeOK
    <3> QED
      BY <1>1, <1>3, <1>5, <3>1, <3>2 DEF Records
  <2> QED
    BY <2>1, <2>2, <2>3, <2>4, <2>5 DEF Records
<1>8. DeathsNoticed'
  <2>1. ASSUME NEW a \in Agent, pc' # "dead", shm'[a] # NoPid, st'[shm'[a]] = "gone"
        PROVE  shm'[a] \in lost' \/ handler' = "hung"
    <3>1. shm'[a] = shm[a] /\ shm[a] \in Pid
      BY <1>5, <2>1 DEF TypeOK
    <3> QED
      BY <1>1, <1>5, <2>1, <3>1 DEF DeathsNoticed
  <2> QED
    BY <1>1, <2>1 DEF DeathsNoticed
<1> QED
  BY <1>6, <1>7, <1>8

\* Every other step of the main loop ends children at most.
LEMMA MainStepKeeps ==
  ASSUME IInv, MainStep
  PROVE  Unborn' /\ Records' /\ OneLivePerAgent' /\ DeathsNoticed'
<1> USE DEF IInv, AtMain, procVars
<1>1. UNCHANGED st /\ (sig => sig') => Dying
  BY DEF Dying, TypeOK
<1>2. ASSUME Acquire \/ StartRound \/ Register \/ SetRegistered \/ ReadMaster \/ ProbeMaster
             \/ RereadMaster
      PROVE  Unborn' /\ Records' /\ OneLivePerAgent' /\ DeathsNoticed'
  <2>1. UNCHANGED <<shm, forks, kind, lost, handler, sig, st>>
    BY <1>2 DEF Acquire, StartRound, Register, SetRegistered, ReadMaster, ProbeMaster, RereadMaster
  <2>2. UNCHANGED <<pc, idx>> \/ (pc \notin {"record", "dead"} /\ pc' \notin {"fork", "record", "dead"})
    BY <1>2 DEF Acquire, StartRound, Register, SetRegistered, ReadMaster, ProbeMaster, RereadMaster
  <2> QED
    BY <1>1, <2>1, <2>2, Calm
<1>3. CASE CheckAgent
  <2>1. UNCHANGED <<shm, forks, kind, lost, handler, sig, st>> /\ pc = "check"
    BY <1>3 DEF CheckAgent
  <2>2. \/ pc' \in {"check", "detect"}
        \/ pc' = "fork" /\ idx' = idx /\ shm[idx] = NoPid
    BY <1>3, NextAgentTypes DEF CheckAgent, TypeOK
  <2> QED
    BY <1>1, <2>1, <2>2, Calm
<1>4. CASE ForkFails
  <2>1. UNCHANGED <<shm, forks, kind, lost, handler, sig, st>> /\ pc = "fork"
    BY <1>4 DEF ForkFails
  <2>2. pc' \in {"check", "detect"}
    BY <1>4, NextAgentTypes DEF ForkFails, TypeOK
  <2> QED
    BY <1>1, <2>1, <2>2, Calm
<1>5. CASE KillRecorded
  <2>1. shm[idx] \in Pid \cup {NoPid} /\ KillPid(shm[idx]) /\ TypeOK
    BY <1>5 DEF KillRecorded, TypeOK
  <2>2. Dying
    BY <2>1, KillOne
  <2>3. UNCHANGED <<shm, forks, kind, lost, handler>> /\ pc = "kill" /\ pc' \in {"kill", "suicide"}
    BY <1>5 DEF KillRecorded
  <2> QED
    BY <2>2, <2>3, Calm DEF Dying
<1>6. CASE Suicide
  <2>1. UNCHANGED <<shm, forks, kind, lost>> /\ pc = "suicide"
    BY <1>6 DEF Suicide
  <2>2. CASE recorded
    BY <1>6, <2>1, <2>2, Fall DEF Suicide
  <2>3. CASE ~recorded
    <3>1. UNCHANGED <<sig, handler, st>> /\ pc' = "registered"
      BY <1>6, <2>3 DEF Suicide
    <3> QED
      BY <1>1, <2>1, <3>1, Calm
  <2> QED
    BY <2>2, <2>3
<1> QED
  BY <1>2, <1>3, <1>4, <1>5, <1>6, ForkStep, RecordStep DEF MainStep

\* The handler: deaths that come while it runs raise the signal again, and it
\* leaves when no zombie is left.
LEMMA HandlerStepKeeps ==
  ASSUME IInv, HandlerStep
  PROVE  Unborn' /\ Records' /\ OneLivePerAgent' /\ DeathsNoticed'
<1>1. CASE EnterHandler
  <2>1. /\ UNCHANGED <<shm, forks, kind, lost, pc, idx, st>>
        /\ handler = "off" /\ handler' = "on" /\ sig
    BY <1>1 DEF EnterHandler, mainVars, procVars
  <2> QED
    BY <2>1 DEF IInv, Unborn, Records, OneLivePerAgent, DeathsNoticed, Live
<1>2. CASE LeaveHandler
  <2>1. /\ UNCHANGED <<shm, forks, kind, lost, pc, idx, st, sig>>
        /\ handler = "on" /\ handler' = "off" /\ \A p \in Pid : st[p] # "zombie"
    BY <1>2 DEF LeaveHandler, mainVars, procVars
  <2> QED
    BY <2>1 DEF IInv, Unborn, Records, OneLivePerAgent, DeathsNoticed, Live
<1> QED
  BY <1>1, <1>2, ReapStep DEF HandlerStep

\* The agents and crashes.
LEMMA AgentStepKeeps ==
  ASSUME IInv, AgentStep
  PROVE  Unborn' /\ Records' /\ OneLivePerAgent' /\ DeathsNoticed'
<1> USE DEF IInv, mainVars, procVars
<1>1. ASSUME NEW p \in Pid, Boot(p)
      PROVE  Unborn' /\ Records' /\ OneLivePerAgent' /\ DeathsNoticed'
  <2>1. UNCHANGED <<shm, forks, kind, lost, handler, sig, pc, idx>>
    BY <1>1 DEF Boot
  <2>2. /\ st[p] = "boot" /\ st'[p] \in {"run", "stray"}
        /\ \A q \in Pid \ {p} : st'[q] = st[q]
    BY <1>1 DEF Boot, TypeOK
  <2>3. \A q \in Pid : /\ Live(q)' <=> Live(q)
                       /\ st'[q] = "gone" <=> st[q] = "gone"
                       /\ st'[q] = "zombie" <=> st[q] = "zombie"
                       /\ st[q] = "unborn" => st'[q] = "unborn"
    BY <2>2 DEF Live
  <2>4. Unborn' /\ OneLivePerAgent'
    BY <2>1, <2>3 DEF Unborn, OneLivePerAgent
  <2>5. Records'
    BY <2>1, <2>3 DEF Records
  <2>6. DeathsNoticed'
    BY <2>1, <2>3 DEF DeathsNoticed, TypeOK
  <2> QED
    BY <2>4, <2>5, <2>6
<1>2. ASSUME NEW p \in Pid, Leave(p)
      PROVE  Unborn' /\ Records' /\ OneLivePerAgent' /\ DeathsNoticed'
  <2>1. UNCHANGED <<shm, forks, kind, lost, handler, pc, idx>>
    BY <1>2 DEF Leave
  <2>2. Dying
    BY <1>2, EndsOne DEF Leave, Live
  <2> QED
    BY <2>1, <2>2, Calm DEF Dying
<1>3. ASSUME NEW p \in Pid, Unregister(p)
      PROVE  Unborn' /\ Records' /\ OneLivePerAgent' /\ DeathsNoticed'
  <2>1. UNCHANGED <<shm, forks, kind, lost, handler, pc, idx, sig, st>>
    BY <1>3 DEF Unregister
  <2> QED
    BY <2>1, Calm DEF Dying
<1>4. ASSUME NEW p \in Pid, Dies(p)
      PROVE  Unborn' /\ Records' /\ OneLivePerAgent' /\ DeathsNoticed'
  <2>1. UNCHANGED <<shm, forks, kind, lost, handler, pc, idx>>
    BY <1>4 DEF Dies
  <2>2. Dying
    BY <1>4, KillOne DEF Dies
  <2> QED
    BY <2>1, <2>2, Calm DEF Dying
<1>5. CASE SupervisorDies
  BY <1>5, Fall DEF SupervisorDies
<1> QED
  BY <1>1, <1>2, <1>3, <1>4, <1>5 DEF AgentStep

\* The server's processes end children and the supervisor at most.
LEMMA HostStepKeeps ==
  ASSUME IInv, HostStep
  PROVE  Unborn' /\ Records' /\ OneLivePerAgent' /\ DeathsNoticed'
<1> USE DEF IInv, mainVars, procVars
<1>1. ASSUME \/ StartProcess \/ OldWorkerEnds
             \/ \E h \in Host : \/ RecordSupervisor(h) \/ BeginShutdown(h)
                               \/ GuardShutdown(h) \/ HostDies(h)
      PROVE  Unborn' /\ Records' /\ OneLivePerAgent' /\ DeathsNoticed'
  <2>1. UNCHANGED <<shm, forks, kind, lost, handler, pc, idx, sig, st>>
    BY <1>1 DEF StartProcess, OldWorkerEnds, RecordSupervisor, BeginShutdown, GuardShutdown,
                HostDies
  <2> QED
    BY <2>1, Calm DEF Dying
<1>2. ASSUME NEW h \in Host, KillAgent(h)
      PROVE  Unborn' /\ Records' /\ OneLivePerAgent' /\ DeathsNoticed'
  <2>1. shm[hi[h]] \in Pid \cup {NoPid} /\ KillPid(shm[hi[h]]) /\ TypeOK
    BY <1>2 DEF KillAgent, TypeOK
  <2>2. Dying
    BY <2>1, KillOne
  <2>3. UNCHANGED <<shm, forks, kind, lost, handler, pc, idx>>
    BY <1>2 DEF KillAgent
  <2> QED
    BY <2>2, <2>3, Calm DEF Dying
<1>3. ASSUME NEW h \in Host, KillSupervisor(h)
      PROVE  Unborn' /\ Records' /\ OneLivePerAgent' /\ DeathsNoticed'
  <2>1. UNCHANGED <<shm, forks, kind, lost>>
    BY <1>3 DEF KillSupervisor
  <2>2. CASE recorded
    BY <1>3, <2>1, <2>2, Fall DEF KillSupervisor
  <2>3. CASE ~recorded
    <3>1. UNCHANGED <<pc, idx, sig, handler, st>>
      BY <1>3, <2>3 DEF KillSupervisor
    <3> QED
      BY <2>1, <3>1, Calm DEF Dying
  <2> QED
    BY <2>2, <2>3
<1> QED
  BY <1>1, <1>2, <1>3 DEF HostStep

\* The invariant is inductive.
THEOREM Invariance == Spec => []IInv
<1>1. Init => IInv
  <2> SUFFICES ASSUME Init PROVE IInv
    OBVIOUS
  <2>1. 1 \in Agent /\ 0 \in 0 .. MaxForks /\ 0 \in 0 .. MaxFault
    BY AgentAssumption DEF Agent
  <2>2. \E first \in Host : master = first /\ host \in [Host -> {"record", "gone", "none"}]
    <3>1. PICK first \in {"launcher", "fpm"} :
            /\ master = first
            /\ host = [h \in Host |-> IF h = first THEN "record"
                                      ELSE IF h = "worker" /\ first = "launcher" THEN "gone"
                                      ELSE "none"]
      BY DEF Init
    <3> QED
      BY <3>1 DEF Host
  <2>3. TypeOK
    BY <2>1, <2>2 DEF Init, TypeOK
  <2>4. Unborn /\ Records /\ OneLivePerAgent /\ DeathsNoticed
    BY DEF Init, Unborn, Records, OneLivePerAgent, DeathsNoticed, Live
  <2> QED
    BY <2>3, <2>4 DEF IInv
<1>2. IInv /\ [Next]_vars => IInv'
  <2>1. ASSUME IInv, Next PROVE IInv'
    BY <2>1, MainTypes, HandlerTypes, AgentTypes, HostTypes, MainStepKeeps, HandlerStepKeeps,
       AgentStepKeeps, HostStepKeeps DEF Next, IInv
  <2>2. ASSUME IInv, UNCHANGED vars PROVE IInv'
    BY <2>2 DEF IInv, TypeOK, Unborn, Records, OneLivePerAgent, DeathsNoticed, Live, vars,
                blockVars, mainVars, procVars, hostVars
  <2> QED
    BY <2>1, <2>2
<1> QED
  BY <1>1, <1>2, PTL DEF Spec

\* The control block, the life cycles and the loops keep their types.
THEOREM TypeCorrect == Spec => []TypeOK
  BY Invariance, PTL DEF IInv

\* ensure_agent_processes_survival never leaves two live processes of one agent,
\* whatever crashes and whenever the handler interrupts it.
THEOREM OneLivePerAgentHolds == Spec => []OneLivePerAgent
  BY Invariance, PTL DEF IInv

\* As long as there is a supervisor, every dead agent is still to be reaped by a
\* handler that runs or is pending, or the handler could not match its pid.
THEOREM DeathsNoticedHolds == Spec => []DeathsNoticed
  BY Invariance, PTL DEF IInv

-----------------------------------------------------------------------------
(***************************************************************************)
(* The hand-over of the master                                             *)
(***************************************************************************)

\* What is known of a process that is, or was, recorded as the master: it has
\* been started, and a worker is found only where there is no launcher.
Known(h) ==
  /\ h \in {"launcher", "fpm"} => host[h] # "none"
  /\ h = "worker" => host["launcher"] = "none"

\* A known master found dead: php-fpm's master will never serve again, nor will
\* the launcher hand over.
Dead(h) ==
  /\ h \in Host /\ Known(h)
  /\ h \in {"launcher", "fpm"} => host[h] = "gone"

\* Without a launcher only a worker is ever taken for the master.  A launcher
\* that goes down has handed over, unless php-fpm's master is already gone, and
\* a worker that goes on to kill is the recorded master and remains it.
HandOver ==
  /\ Known(master)
  /\ pc = "probe" => Known(seen) /\ seen \in Host
  /\ pc \in {"redetect", "kill", "suicide"} => Dead(seen)
  /\ pc \in {"kill", "suicide"} /\ Up("fpm") => master # "fpm"
  /\ host["launcher"] = "shutdown" => master = "fpm" \/ host["fpm"] = "gone"
  /\ host["launcher"] \in {"kill", "killsup"} => host["fpm"] = "gone"
  /\ host["worker"] \in {"kill", "killsup"} => master = "worker"

\* How a process lives: once gone it stays so, once started it never goes back,
\* and only a serving launcher starts php-fpm's master.
Lives ==
  /\ \A h \in Host : host[h] = "gone" => host'[h] = "gone"
  /\ \A h \in Host : host'[h] = "none" => host[h] = "none"
  /\ host["launcher"] = "none" => host'["launcher"] = "none"
  /\ host["fpm"] = "none" /\ host'["fpm"] # "none" => host["launcher"] = "serve"

\* What is known of a master, and that it is dead, stays true.
LEMMA KnownStays ==
  ASSUME Lives, NEW h \in Host
  PROVE  (Known(h) => Known(h)') /\ (Dead(h) => Dead(h)')
  BY DEF Lives, Known, Dead, Host

\* What search_fpm_master_pid finds, if anything.
LEMMA Found ==
  ASSUME TypeOK, SetMaster
  PROVE  /\ \/ master' = master
            \/ master' = "fpm" /\ host["launcher"] \notin {"none", "gone"} /\ Up("fpm")
            \/ master' = "worker" /\ host["launcher"] = "none" /\ host["worker"] = "untitled"
         /\ host["launcher"] \notin {"none", "gone"} /\ Up("fpm") => master' = "fpm"
  BY DEF SetMaster, FpmMaster

\* Every step lets the processes live.
LEMMA LivesStep == ASSUME TypeOK, [Next]_vars PROVE Lives
<1> USE DEF TypeOK, hostVars
<1>1. CASE UNCHANGED host
  BY <1>1 DEF Lives
<1>2. CASE StartProcess
  BY <1>2 DEF StartProcess, Lives, Host
<1>3. ASSUME NEW h \in Host, \/ RecordSupervisor(h) \/ BeginShutdown(h) \/ GuardShutdown(h)
                             \/ KillAgent(h) \/ KillSupervisor(h) \/ HostDies(h)
      PROVE  Lives
  <2>1. /\ host[h] \notin {"none", "gone"} /\ host'[h] # "none"
        /\ \A g \in Host \ {h} : host'[g] = host[g]
    BY <1>3 DEF RecordSupervisor, BeginShutdown, GuardShutdown, KillAgent, KillSupervisor,
                HostDies, Up
  <2> QED
    BY <2>1 DEF Lives, Host
<1>4. MainStep \/ HandlerStep \/ AgentStep \/ OldWorkerEnds => UNCHANGED host
  <2>1. MainStep => UNCHANGED host
    BY DEF MainStep, Acquire, StartRound, Register, SetRegistered, CheckAgent, Fork, ForkFails,
           RecordPid, ReadMaster, ProbeMaster, RereadMaster, KillRecorded, Suicide
  <2>2. HandlerStep \/ AgentStep \/ OldWorkerEnds => UNCHANGED host
    BY DEF HandlerStep, EnterHandler, LeaveHandler, Reap, AgentStep, Boot, Leave, Unregister,
           Dies, SupervisorDies, OldWorkerEnds
  <2> QED
    BY <2>1, <2>2
<1> QED
  BY <1>1, <1>2, <1>3, <1>4 DEF Next, HostStep, vars

\* While the recorded master stays the same, a supervisor comes to the end of
\* its test only with a dead one.
LEMMA SameMaster ==
  ASSUME TypeOK, HandOver, Lives, UNCHANGED master,
         pc' = "probe" => \/ pc = "probe" /\ UNCHANGED seen
                          \/ seen' = master,
         pc' = "redetect" => \/ pc = "redetect" /\ UNCHANGED seen
                             \/ pc = "probe" /\ UNCHANGED seen /\ ~Up(seen) /\ UNCHANGED host,
         pc' \in {"kill", "suicide"} =>
           \/ pc \in {"kill", "suicide"} /\ UNCHANGED seen
           \/ pc = "redetect" /\ master = seen /\ UNCHANGED <<host, seen>>
  PROVE  /\ Known(master)'
         /\ pc' = "probe" => Known(seen)' /\ seen' \in Host
         /\ pc' \in {"redetect", "kill", "suicide"} => Dead(seen)'
         /\ pc' \in {"kill", "suicide"} /\ Up("fpm")' => master' # "fpm"
<1> USE DEF HandOver
<1>1. master \in Host /\ \A h \in Host : (Known(h) => Known(h)') /\ (Dead(h) => Dead(h)')
  BY KnownStays DEF TypeOK
<1>2. Known(master)'
  BY <1>1 DEF Known
<1>3. pc' = "probe" => Known(seen)' /\ seen' \in Host
  BY <1>1 DEF Known
<1>4. pc' \in {"redetect", "kill", "suicide"} => Dead(seen)'
  <2>1. CASE pc = "probe" /\ UNCHANGED seen /\ ~Up(seen) /\ UNCHANGED host
    <3>1. Dead(seen)
      BY <2>1 DEF Dead, Known, Up
    <3> QED
      BY <1>1, <2>1, <3>1 DEF Dead, Known
  <2>2. CASE pc \in {"redetect", "kill", "suicide"} /\ UNCHANGED seen
    <3>1. Dead(seen) /\ seen \in Host
      BY <2>2 DEF Dead
    <3> QED
      BY <1>1, <2>2, <3>1 DEF Dead, Known
  <2> QED
    BY <2>1, <2>2
<1>5. pc' \in {"kill", "suicide"} /\ Up("fpm")' => master' # "fpm"
  <2>1. CASE pc \in {"kill", "suicide"}
    BY <2>1 DEF Known, Up, Lives, Host
  <2>2. CASE pc = "redetect" /\ master = seen /\ UNCHANGED <<host, seen>>
    BY <2>2 DEF Dead, Up
  <2> QED
    BY <2>1, <2>2
<1> QED
  BY <1>2, <1>3, <1>4, <1>5

\* A module shutdown that finds another master finds one that is up, which no
\* supervisor has found dead.
LEMMA NewMaster ==
  ASSUME TypeOK, HandOver, Lives, SetMaster, master' # master, UNCHANGED <<pc, seen>>
  PROVE  /\ Known(master)'
         /\ pc' = "probe" => Known(seen)' /\ seen' \in Host
         /\ pc' \in {"redetect", "kill", "suicide"} => Dead(seen)'
         /\ pc' \in {"kill", "suicide"} /\ Up("fpm")' => master' # "fpm"
<1> USE DEF HandOver
<1>1. \A h \in Host : (Known(h) => Known(h)') /\ (Dead(h) => Dead(h)')
  BY KnownStays
<1>2. \/ master' = "fpm" /\ host["launcher"] \notin {"none", "gone"} /\ Up("fpm")
      \/ master' = "worker" /\ host["launcher"] = "none"
  BY Found
<1>3. Known(master)'
  BY <1>2 DEF Known, Lives, Up, Host
<1>4. pc' = "probe" => Known(seen)' /\ seen' \in Host
  BY <1>1 DEF Known
<1>5. pc' \in {"redetect", "kill", "suicide"} => Dead(seen)'
  <2>1. pc \in {"redetect", "kill", "suicide"} => Dead(seen) /\ seen \in Host
    BY DEF Dead
  <2> QED
    BY <1>1, <2>1 DEF Dead, Known
<1>6. pc' \in {"kill", "suicide"} => master' # "fpm"
  BY <1>2 DEF Dead, Known, Up, Host
<1> QED
  BY <1>3, <1>4, <1>5, <1>6

\* The supervisor's walk through its test of the master.
LEMMA TestOrder ==
  ASSUME [Next]_vars
  PROVE  /\ pc' = "probe" => \/ pc = "probe" /\ UNCHANGED seen
                             \/ seen' = master
         /\ pc' = "redetect" =>
              \/ pc = "redetect" /\ UNCHANGED seen
              \/ pc = "probe" /\ UNCHANGED seen /\ ~Up(seen) /\ UNCHANGED host
         /\ pc' \in {"kill", "suicide"} =>
              \/ pc \in {"kill", "suicide"} /\ UNCHANGED seen
              \/ pc = "redetect" /\ master = seen /\ UNCHANGED <<host, seen>>
<1> USE DEF mainVars, hostVars, AtMain
<1>1. CASE MainStep
  <2>1. CASE Acquire \/ StartRound \/ Register \/ SetRegistered
    BY <2>1 DEF Acquire, StartRound, Register, SetRegistered
  <2>2. CASE CheckAgent \/ Fork \/ ForkFails \/ RecordPid
    BY <2>2 DEF CheckAgent, Fork, ForkFails, RecordPid, NextAgent
  <2>3. CASE ReadMaster \/ ProbeMaster \/ RereadMaster
    BY <2>3 DEF ReadMaster, ProbeMaster, RereadMaster, StillMaster
  <2>4. CASE KillRecorded \/ Suicide
    BY <2>4 DEF KillRecorded, Suicide, SupervisorEnds
  <2> QED
    BY <1>1, <2>1, <2>2, <2>3, <2>4 DEF MainStep
<1>2. CASE HandlerStep
  BY <1>2 DEF HandlerStep, EnterHandler, LeaveHandler, Reap
<1>3. CASE AgentStep
  BY <1>3 DEF AgentStep, Boot, Leave, Unregister, Dies, SupervisorDies, SupervisorEnds
<1>4. CASE HostStep
  BY <1>4 DEF HostStep, StartProcess, OldWorkerEnds, RecordSupervisor, BeginShutdown,
              GuardShutdown, KillAgent, KillSupervisor, HostDies, SupervisorEnds
<1>5. CASE UNCHANGED vars
  BY <1>5 DEF vars
<1> QED
  BY <1>1, <1>2, <1>3, <1>4, <1>5 DEF Next

\* What the server's processes do to the master and to each other.
LEMMA ShutdownOrder ==
  ASSUME TypeOK, HandOver, Lives, [Next]_vars
  PROVE  /\ UNCHANGED master \/ (SetMaster /\ UNCHANGED <<pc, seen>>)
         /\ host'["launcher"] = "shutdown" => master' = "fpm" \/ host'["fpm"] = "gone"
         /\ host'["launcher"] \in {"kill", "killsup"} => host'["fpm"] = "gone"
         /\ host'["worker"] \in {"kill", "killsup"} => master' = "worker"
<1> USE DEF TypeOK, HandOver, hostVars, blockVars, mainVars
<1>1. CASE UNCHANGED <<master, host>>
  BY <1>1
<1>2. ASSUME SetMaster, UNCHANGED <<pc, seen, host>> PROVE
         /\ host'["launcher"] = "shutdown" => master' = "fpm" \/ host'["fpm"] = "gone"
         /\ host'["launcher"] \in {"kill", "killsup"} => host'["fpm"] = "gone"
         /\ host'["worker"] \in {"kill", "killsup"} => master' = "worker"
  BY <1>2, Found DEF Known
<1>3. CASE OldWorkerEnds
  BY <1>2, <1>3 DEF OldWorkerEnds
<1>4. ASSUME NEW h \in Host, BeginShutdown(h)
      PROVE  /\ SetMaster /\ UNCHANGED <<pc, seen>>
             /\ host'["launcher"] = "shutdown" => master' = "fpm" \/ host'["fpm"] = "gone"
             /\ host'["launcher"] \in {"kill", "killsup"} => host'["fpm"] = "gone"
             /\ host'["worker"] \in {"kill", "killsup"} => master' = "worker"
  <2>1. /\ SetMaster /\ UNCHANGED <<pc, seen>> /\ host[h] = "serve"
        /\ host' = [host EXCEPT ![h] = "shutdown"]
        /\ h = "launcher" => host["fpm"] # "none"
    BY <1>4 DEF BeginShutdown
  <2>2. host'["launcher"] = "shutdown" => master' = "fpm" \/ host'["fpm"] = "gone"
    BY <2>1, Found DEF Known, Up, Host, Lives
  <2>3. host'["launcher"] \in {"kill", "killsup"} => host'["fpm"] = "gone"
    BY <2>1 DEF Host, Lives
  <2>4. host'["worker"] \in {"kill", "killsup"} => master' = "worker"
    BY <2>1, Found DEF Known, Host
  <2> QED
    BY <2>1, <2>2, <2>3, <2>4
<1>5. ASSUME NEW h \in Host, GuardShutdown(h) \/ KillAgent(h) \/ KillSupervisor(h)
                               \/ RecordSupervisor(h) \/ HostDies(h)
      PROVE  /\ UNCHANGED master
             /\ host'["launcher"] = "shutdown" => master' = "fpm" \/ host'["fpm"] = "gone"
             /\ host'["launcher"] \in {"kill", "killsup"} => host'["fpm"] = "gone"
             /\ host'["worker"] \in {"kill", "killsup"} => master' = "worker"
  <2>1. UNCHANGED master /\ \A g \in Host \ {h} : host'[g] = host[g]
    BY <1>5 DEF GuardShutdown, KillAgent, KillSupervisor, RecordSupervisor, HostDies
  <2>2. \/ host'[h] \in {"gone", "serve"}
        \/ host[h] = "shutdown" /\ host'[h] = "kill" /\ master = h
        \/ host[h] = "kill" /\ host'[h] \in {"kill", "killsup"}
    BY <1>5 DEF GuardShutdown, KillAgent, KillSupervisor, RecordSupervisor, HostDies
  <2> QED
    BY <2>1, <2>2 DEF Lives, Host
<1>6. CASE StartProcess
  BY <1>6 DEF StartProcess, Lives, Host
<1>7. CASE MainStep \/ HandlerStep \/ AgentStep
  <2>1. MainStep => UNCHANGED <<master, host>>
    BY DEF MainStep, Acquire, StartRound, Register, SetRegistered, CheckAgent, Fork, ForkFails,
           RecordPid, ReadMaster, ProbeMaster, RereadMaster, KillRecorded, Suicide
  <2>2. HandlerStep \/ AgentStep => UNCHANGED <<master, host>>
    BY DEF HandlerStep, EnterHandler, LeaveHandler, Reap, AgentStep, Boot, Leave, Unregister,
           Dies, SupervisorDies
  <2> QED
    BY <1>1, <1>7, <2>1, <2>2
<1>8. CASE UNCHANGED vars
  BY <1>1, <1>8 DEF vars
<1> QED
  BY <1>2, <1>3, <1>4, <1>5, <1>6, <1>7, <1>8 DEF Next, HostStep, OldWorkerEnds, StartProcess

\* The hand-over is an invariant.
THEOREM HandOverInvariance == Spec => []HandOver
<1>1. Init => HandOver
  BY DEF Init, HandOver, Known, Dead, Up, Host
<1>2. TypeOK /\ HandOver /\ [Next]_vars => HandOver'
  <2> SUFFICES ASSUME TypeOK, HandOver, [Next]_vars PROVE HandOver'
    OBVIOUS
  <2>1. Lives
    BY LivesStep
  <2>2. CASE UNCHANGED master
    BY <2>1, <2>2, SameMaster, TestOrder, ShutdownOrder DEF HandOver
  <2>3. CASE master' # master
    BY <2>1, <2>3, NewMaster, ShutdownOrder DEF HandOver
  <2> QED
    BY <2>2, <2>3
<1> QED
  BY <1>1, <1>2, TypeCorrect, PTL DEF Spec

\* Whatever is killed and whenever the master is handed over, neither the
\* supervisor nor the module shutdown of a launcher or a worker ends the agents
\* of a serving master that the block names.
THEOREM SparesServerHolds == Spec => []SparesServer
<1>1. HandOver => SparesServer
  BY DEF HandOver, SparesServer, ShuttingDown, Up, Host
<1> QED
  BY <1>1, HandOverInvariance, PTL

=============================================================================
