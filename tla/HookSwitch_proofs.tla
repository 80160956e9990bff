--------------------------- MODULE HookSwitch_proofs ---------------------------
(***************************************************************************)
(* Proofs about HookSwitch, for any number of detections and any bounds.   *)
(*                                                                         *)
(* OffOnlyWhenLost is not inductive: while a thread of JS reads the plugin *)
(* files, the switch it will restore is in its local variable, and the     *)
(* invariant has to say of that variable what it says of the switch        *)
(* otherwise (SavedWhenLost).                                              *)
(***************************************************************************)
EXTENDS HookSwitch, TLAPS

\* A counter below its bound may be increased.
LEMMA Counted ==
  ASSUME NEW max \in Nat, NEW n \in 0..max, n < max
  PROVE  n + 1 \in 0..max
  OBVIOUS

\* The state after JS.Initialize satisfies the invariant.
LEMMA InitInv == Init => IInv
<1> SUFFICES ASSUME Init PROVE IInv
  OBVIOUS
<1> USE ConstantsAssumption DEF Init
<1>1. TypeOK
  <2>1. phase \in [Detector -> Phase]
    BY DEF Phase
  <2>2. changes \in 0..MaxChange /\ faults \in 0..MaxFault
    OBVIOUS
  <2>3. ~cloud => \A d \in Detector : phase[d] \in {"unloaded", "detected", "standalone"}
    OBVIOUS
  <2> QED
    BY <2>1, <2>2, <2>3, Zenon DEF TypeOK
<1>2. ~Detected
  BY DEF Detected
<1> QED
  BY <1>1, <1>2 DEF IInv, OffOnlyWhenLost, SavedWhenLost

\* Every step keeps the variables in their types, and each mode its threads.
LEMMA TypeStep == ASSUME TypeOK, Next PROVE TypeOK'
<1> USE ConstantsAssumption DEF TypeOK, Phase, vars, jsVars, cloudVars, Goto
<1>1. ASSUME NEW d \in Detector, Detect(d) PROVE TypeOK'
  BY <1>1 DEF Detect
<1>2. ASSUME NEW d \in Detector, SendRegister(d) PROVE TypeOK'
  BY <1>2 DEF SendRegister
<1>3. ASSUME NEW d \in Detector, RegisterFirst(d) PROVE TypeOK'
  BY <1>3 DEF RegisterFirst
<1>4. ASSUME NEW d \in Detector, RegisterFails(d) PROVE TypeOK'
  <2>1. faults' \in 0..MaxFault
    BY <1>4, Counted, Zenon DEF RegisterFails, Fault
  <2>2. known' \in BOOLEAN
    BY <1>4, Zenon DEF RegisterFails
  <2>3. /\ cloud' = cloud /\ enable' = enable /\ whiteAll' = whiteAll
        /\ phase' = phase /\ lost' = lost
        /\ jsLock' = jsLock /\ jspc' = jspc /\ oldValue' = oldValue
        /\ released' = released /\ changes' = changes
    BY <1>4 DEF RegisterFails
  <2> QED
    BY <2>1, <2>2, <2>3, Zenon
<1>5. ASSUME NEW d \in Detector, Heartbeat(d) PROVE TypeOK'
  BY <1>5 DEF Heartbeat
<1>6. ASSUME NEW d \in Detector, HeartbeatFound(d) PROVE TypeOK'
  BY <1>6 DEF HeartbeatFound
<1>7. ASSUME NEW d \in Detector, Suspend(d) PROVE TypeOK'
  BY <1>7 DEF Suspend
<1>8. ASSUME NEW d \in Detector, RegisterAgain(d) PROVE TypeOK'
  BY <1>8 DEF RegisterAgain
<1>9. ASSUME NEW d \in Detector, Resume(d) PROVE TypeOK'
  BY <1>9 DEF Resume
<1>10. CASE RemoveRasp
  <2>1. faults' \in 0..MaxFault
    BY <1>10, Counted, Zenon DEF RemoveRasp, Fault
  <2>2. /\ known' = FALSE
        /\ cloud' = cloud /\ enable' = enable /\ whiteAll' = whiteAll
        /\ phase' = phase /\ lost' = lost
        /\ jsLock' = jsLock /\ jspc' = jspc /\ oldValue' = oldValue
        /\ released' = released /\ changes' = changes
    BY <1>10 DEF RemoveRasp
  <2> QED
    BY <2>1, <2>2, Zenon
<1>11. CASE FileChanged
  <2>1. changes' \in 0..MaxChange
    BY <1>11, Counted, Zenon DEF FileChanged
  <2>2. jsLock' = "watcher" /\ jspc' = "reading"
    BY <1>11, Zenon DEF FileChanged, SaveSwitch
  <2>3. /\ jsLock' \in {"none", "watcher", "release"}
        /\ jspc' \in {"idle", "reading", "installing"}
        /\ jspc' = "idle" <=> jsLock' = "none"
    BY <2>2
  <2>4. /\ oldValue' = enable /\ enable' = FALSE /\ ~cloud /\ cloud' = cloud
        /\ phase' = phase /\ lost' = lost /\ released' = released
        /\ whiteAll' = whiteAll /\ known' = known /\ faults' = faults
    BY <1>11 DEF FileChanged, SaveSwitch
  <2> QED
    BY <2>1, <2>3, <2>4, Zenon
<1>12. CASE Dispose
  <2>1. jsLock' = "release" /\ jspc' = "reading"
    BY <1>12, Zenon DEF Dispose, SaveSwitch
  <2>2. /\ jsLock' \in {"none", "watcher", "release"}
        /\ jspc' \in {"idle", "reading", "installing"}
        /\ jspc' = "idle" <=> jsLock' = "none"
    BY <2>1
  <2> QED
    BY <1>12, <2>2, Zenon DEF Dispose, SaveSwitch
<1>13. CASE RestoreSwitch
  <2>1. /\ jspc' \in {"idle", "reading", "installing"}
        /\ jspc' = "idle" <=> jsLock' = "none"
    BY <1>13 DEF RestoreSwitch
  <2> QED
    BY <1>13, <2>1, Zenon DEF RestoreSwitch
<1>14. CASE EndUpdate
  BY <1>14 DEF EndUpdate
<1> QED
  BY <1>1, <1>2, <1>3, <1>4, <1>5, <1>6, <1>7, <1>8, <1>9, <1>10, <1>11,
     <1>12, <1>13, <1>14 DEF Next, DetectorStep

\* Every step keeps the switch, or the copy of it, as current as lost says.
LEMMA SwitchStep ==
  ASSUME IInv, Next, ~cloud'
  PROVE  OffOnlyWhenLost' /\ SavedWhenLost'
<1> USE DEF IInv, OffOnlyWhenLost, SavedWhenLost, jsVars, cloudVars, vars, TypeOK
<1>1. ASSUME NEW d \in Detector, Detect(d) PROVE OffOnlyWhenLost' /\ SavedWhenLost'
  BY <1>1 DEF Detect
<1>2. ASSUME NEW d \in Detector, SendRegister(d)
      PROVE OffOnlyWhenLost' /\ SavedWhenLost'
  <2>1. Detected
    BY <1>2 DEF Detected, SendRegister
  <2> QED
    BY <1>2, <2>1 DEF SendRegister
<1>3. ASSUME NEW d \in Detector,
             \/ RegisterFirst(d) \/ Heartbeat(d) \/ Suspend(d)
             \/ RegisterAgain(d) \/ Resume(d)
      PROVE FALSE
  BY <1>3 DEF RegisterFirst, Heartbeat, Suspend, RegisterAgain, Resume
<1>4. ASSUME NEW d \in Detector, RegisterFails(d) \/ HeartbeatFound(d) PROVE FALSE
  BY <1>4 DEF RegisterFails, HeartbeatFound
<1>5. CASE RemoveRasp
  BY <1>5 DEF RemoveRasp, Detected
<1>6. CASE FileChanged
  BY <1>6 DEF FileChanged, SaveSwitch, Detected
<1>7. CASE Dispose
  BY <1>7 DEF Dispose, SaveSwitch, Detected
<1>8. CASE RestoreSwitch
  BY <1>8 DEF RestoreSwitch, Detected
<1>9. CASE EndUpdate
  BY <1>9 DEF EndUpdate, Detected
<1> QED
  BY <1>1, <1>2, <1>3, <1>4, <1>5, <1>6, <1>7, <1>8, <1>9 DEF Next, DetectorStep

\* The invariant is inductive.
LEMMA StepInv == IInv /\ [Next]_vars => IInv'
<1> SUFFICES ASSUME IInv, [Next]_vars PROVE IInv'
  OBVIOUS
<1>1. CASE Next
  <2>1. TypeOK'
    BY <1>1, TypeStep DEF IInv
  <2>2. CASE cloud'
    BY <2>1, <2>2 DEF IInv, OffOnlyWhenLost, SavedWhenLost
  <2>3. CASE ~cloud'
    BY <1>1, <2>1, <2>3, SwitchStep DEF IInv
  <2> QED
    BY <2>2, <2>3
<1>2. CASE UNCHANGED vars
  BY <1>2 DEF vars, jsVars, cloudVars, IInv, TypeOK, OffOnlyWhenLost,
              SavedWhenLost, Detected
<1> QED
  BY <1>1, <1>2

\* Every reachable state satisfies the inductive invariant.
THEOREM Invariance == Spec => []IInv
  BY InitInv, StepInv, PTL DEF Spec

\* The variables stay in their types (the switches of HookHandler, Config and
\* the threads that write them).
THEOREM TypeCorrect == Spec => []TypeOK
<1>1. IInv => TypeOK
  BY DEF IInv
<1> QED
  BY <1>1, Invariance, PTL

\* For any number of detections and file changes, the hooks of an agent
\* without remote management are off outside JS.UpdatePlugin exactly when a
\* detection was overwritten by the restore of an older value.
THEOREM OffOnlyWhenLostHolds == Spec => []OffOnlyWhenLost
<1>1. IInv => OffOnlyWhenLost
  BY DEF IInv
<1> QED
  BY <1>1, Invariance, PTL

===============================================================================
