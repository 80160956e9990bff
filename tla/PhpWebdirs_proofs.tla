-------------------------- MODULE PhpWebdirs_proofs --------------------------
(***************************************************************************)
(* Proofs about PhpWebdirs, for any number of document roots, workers and  *)
(* places in the registry.                                                 *)
(***************************************************************************)
EXTENDS PhpWebdirs, FiniteSetTheorems, TLAPS

IInv == TypeOK /\ Watched /\ Sent /\ EachAccounted /\ AllAccounted

-----------------------------------------------------------------------------
(***************************************************************************)
(* Types                                                                   *)
(***************************************************************************)

LEMMA InitTypes ==
  ASSUME Init
  PROVE  TypeOK
<1>1. Nothing \in [Root -> 0 .. MaxChange] /\ 0 \in 0 .. MaxChange /\ 0 \in 0 .. MaxFault
  BY WebdirsAssumption DEF Nothing
<1>2. reg \in Seq(Root) /\ Len(reg) < MaxRoots
  BY WebdirsAssumption DEF Init
<1>3. rpc \in [Worker -> {"idle", "writable", "new"}]
  BY DEF Init
<1> QED
  BY <1>1, <1>2, <1>3 DEF Init, TypeOK

LEMMA RequestTypes ==
  ASSUME TypeOK, NEW w \in Worker, Visit(w) \/ LookUp(w) \/ WriteRoot(w)
  PROVE  TypeOK'
<1>1. /\ UNCHANGED <<reg, stuck, configured, apc, dirs, mark, deps, lock, known, changes, faults>>
      /\ rpc' \in [Worker -> {"idle", "writable", "new"}]
  BY DEF Visit, LookUp, WriteRoot, RequestUnchanged, agentVars, TypeOK
<1>2. box' \in Root \cup {NoRoot}
  BY WebdirsAssumption DEF Visit, LookUp, WriteRoot, TypeOK
<1> QED
  BY <1>1, <1>2 DEF TypeOK

\* An append stays below the size of the registry.
LEMMA RegisteredTypes ==
  ASSUME TypeOK, NEW r \in Root
  PROVE  Registered(r) \in Seq(Root) /\ Len(Registered(r)) < MaxRoots
BY WebdirsAssumption DEF TypeOK, Registered

LEMMA AgentTypes ==
  ASSUME TypeOK, AgentStep
  PROVE  TypeOK'
<1> USE DEF shmVars, OutsideUnchanged
<1>1. CASE Collect
  <2>1. /\ box \in Root /\ reg' = Registered(box) /\ dirs' = dirs \cup {box}
        /\ box' = NoRoot /\ apc' = "check"
        /\ UNCHANGED <<mark, deps, known, faults, rpc, stuck, configured, lock, changes>>
    BY <1>1 DEF Collect, TypeOK
  <2>2. reg' \in Seq(Root) /\ Len(reg') < MaxRoots
    BY <2>1, RegisteredTypes
  <2> QED
    BY <2>1, <2>2 DEF TypeOK
<1>2. CASE Interval
  BY <1>2 DEF Interval, TypeOK
<1>3. CASE CheckModified
  BY <1>3 DEF CheckModified, TypeOK
<1>4. CASE Detect
  <2>1. deps' \in [Root -> 0 .. MaxChange]
    BY <1>4, WebdirsAssumption DEF Detect, TypeOK
  <2> QED
    BY <1>4, <2>1 DEF Detect, UpdateLockStatus, TypeOK
<1>5. CASE Report
  <2>1. Nothing \in [Root -> 0 .. MaxChange]
    BY WebdirsAssumption DEF Nothing
  <2>2. known' \in [Root -> 0 .. MaxChange] /\ deps' \in [Root -> 0 .. MaxChange]
    BY <1>5, <2>1 DEF Report, Received, TypeOK
  <2>3. faults' \in 0 .. MaxFault
    BY <1>5, WebdirsAssumption DEF Report, Fault, TypeOK
  <2> QED
    BY <1>5, <2>2, <2>3 DEF Report, TypeOK
<1> QED
  BY <1>1, <1>2, <1>3, <1>4, <1>5 DEF AgentStep

LEMMA CrashTypes ==
  ASSUME TypeOK, Crash
  PROVE  TypeOK'
<1>1. mark' \in [Root -> 0 .. MaxChange] /\ deps' \in [Root -> 0 .. MaxChange]
  BY WebdirsAssumption DEF Crash, Nothing
<1>2. faults' \in 0 .. MaxFault
  BY WebdirsAssumption DEF Crash, Fault, TypeOK
<1>3. stuck' \in {"no", "read", "write"}
  BY DEF Crash, TypeOK
<1> QED
  BY <1>1, <1>2, <1>3 DEF Crash, TypeOK, shmVars

LEMMA OutsideTypes ==
  ASSUME TypeOK, Configure \/ \E r \in Root : ChangeLock(r)
  PROVE  TypeOK'
<1> USE DEF shmVars, agentVars
<1>1. CASE Configure
  BY <1>1 DEF Configure, TypeOK
<1>2. ASSUME NEW r \in Root, ChangeLock(r) PROVE TypeOK'
  <2>1. changes' \in 0 .. MaxChange
    BY <1>2, WebdirsAssumption DEF ChangeLock, TypeOK
  <2>2. changes + 1 \in 0 .. MaxChange /\ 0 \in 0 .. MaxChange
    BY <1>2, WebdirsAssumption DEF ChangeLock, TypeOK
  <2>3. lock' \in [Root -> 0 .. MaxChange]
    BY <1>2, <2>2 DEF ChangeLock, TypeOK
  <2> QED
    BY <1>2, <2>1, <2>3 DEF ChangeLock, TypeOK
<1> QED
  BY <1>1, <1>2

LEMMA StepTypes ==
  ASSUME TypeOK, [Next]_vars
  PROVE  TypeOK'
<1>1. CASE UNCHANGED vars
  BY <1>1 DEF vars, shmVars, agentVars, TypeOK
<1> QED
  BY <1>1, RequestTypes, AgentTypes, CrashTypes, OutsideTypes DEF Next

-----------------------------------------------------------------------------
(***************************************************************************)
(* What the agent watches                                                  *)
(***************************************************************************)

\* Only the death of an agent takes directories from it, and what is registered
\* is watched in the same step.
LEMMA WatchedStep ==
  ASSUME TypeOK, Watched, [Next]_vars
  PROVE  Watched'
<1> USE DEF Watched
<1>1. CASE UNCHANGED <<reg, dirs, faults>>
  BY <1>1
<1>2. CASE Collect
  <2>1. /\ reg \in Seq(Root) /\ box \in Root /\ UNCHANGED faults
        /\ dirs' = dirs \cup {box} /\ reg' = Registered(box)
    BY <1>2 DEF Collect, TypeOK
  <2>2. \A i \in 1 .. Len(reg') : reg'[i] = box \/ (i \in 1 .. Len(reg) /\ reg'[i] = reg[i])
    BY <2>1 DEF Registered
  <2> QED
    BY <2>1, <2>2
<1>3. CASE Report
  <2>1. UNCHANGED <<reg, dirs>> /\ (UNCHANGED faults \/ Fault)
    BY <1>3 DEF Report, shmVars
  <2>2. faults' = 0 => faults = 0
    BY <2>1 DEF Fault, TypeOK
  <2> QED
    BY <2>1, <2>2
<1>4. CASE Crash
  <2>1. faults' # 0
    BY <1>4 DEF Crash, Fault, TypeOK
  <2> QED
    BY <2>1
<1>5. ASSUME ~Collect, ~Report, ~Crash PROVE UNCHANGED <<reg, dirs, faults>>
  BY <1>5 DEF Next, vars, shmVars, agentVars, Visit, LookUp, WriteRoot, RequestUnchanged,
              AgentStep, Interval, CheckModified, Detect, Configure, ChangeLock
<1> QED
  BY <1>1, <1>2, <1>3, <1>4, <1>5

-----------------------------------------------------------------------------
(***************************************************************************)
(* The mailbox and the registry                                            *)
(***************************************************************************)

\* What the agent, the heartbeat and composer do to them: nothing, but for Collect.
LEMMA OthersLeaveThem ==
  ASSUME [Next]_vars, ~Collect, \A w \in Worker : ~Visit(w) /\ ~LookUp(w) /\ ~WriteRoot(w)
  PROVE  UNCHANGED <<box, reg, rpc>>
BY DEF Next, vars, shmVars, AgentStep, Interval, CheckModified, Detect, Report, Crash,
       OutsideUnchanged, Configure, ChangeLock

LEMMA SentStep ==
  ASSUME TypeOK, Sent, [Next]_vars
  PROVE  Sent'
<1>1. CASE UNCHANGED <<box, reg, rpc>>
  BY <1>1 DEF Sent
<1>2. CASE Collect
  BY <1>2 DEF Collect, Sent
<1>3. ASSUME NEW w \in Worker, Visit(w) PROVE Sent'
  BY <1>3 DEF Visit, Sent
<1>4. ASSUME NEW w \in Worker, LookUp(w) PROVE Sent'
  <2>1. \A v \in Worker : rpc[v] = "idle" => rpc'[v] = "idle"
    BY <1>4 DEF LookUp, TypeOK
  <2> QED
    BY <1>4, <2>1 DEF LookUp, Sent
<1>5. ASSUME NEW w \in Worker, WriteRoot(w) PROVE Sent'
  BY <1>5 DEF WriteRoot, Sent, TypeOK
<1> QED
  BY <1>1, <1>2, <1>3, <1>4, <1>5, OthersLeaveThem

\* A finite set is no smaller than its parts, and greater than those that lack an
\* element of it.
LEMMA Grows ==
  ASSUME NEW S, NEW T, S \subseteq T, IsFiniteSet(T)
  PROVE  /\ Cardinality(S) \in Nat /\ Cardinality(T) \in Nat
         /\ Cardinality(S) <= Cardinality(T)
         /\ \A x \in T \ S : Cardinality(S) + 1 <= Cardinality(T)
<1>1. /\ Cardinality(S) \in Nat /\ Cardinality(T) \in Nat
      /\ Cardinality(S) <= Cardinality(T) /\ IsFiniteSet(S)
  BY FS_Subset, FS_CardinalityType
<1>2. ASSUME NEW x \in T \ S PROVE Cardinality(S) + 1 <= Cardinality(T)
  <2>1. IsFiniteSet(S \cup {x}) /\ Cardinality(S \cup {x}) = Cardinality(S) + 1
    BY <1>1, FS_AddElement
  <2>2. S \cup {x} \subseteq T
    BY <1>2
  <2> QED
    BY <2>1, <2>2, FS_Subset
<1> QED
  BY <1>1, <1>2

\* The workers and the places of the registry can be counted.
LEMMA Counts ==
  ASSUME TypeOK
  PROVE  /\ IsFiniteSet(Settled) /\ \A r : IsFiniteSet(Quiet(r)) /\ IsFiniteSet(Entries(r))
         /\ Cardinality(Settled) \in Nat /\ Cardinality(Settled) <= Cardinality(Worker)
         /\ \A r : Cardinality(Quiet(r)) \in Nat /\ Cardinality(Entries(r)) \in Nat
         /\ Cardinality(Worker) \in Nat
<1>1. IsFiniteSet(2 .. Len(reg))
  BY FS_Interval DEF TypeOK
<1> QED
  BY <1>1, WebdirsAssumption, FS_Subset, FS_CardinalityType DEF Settled, Quiet, Entries

\* A request leaves the registry alone.  A quiet worker stays quiet as long as its
\* root is found, and one that writes a registered path becomes quiet.
LEMMA RequestQuiet ==
  ASSUME TypeOK, NEW w \in Worker, Visit(w) \/ LookUp(w) \/ WriteRoot(w)
  PROVE  /\ UNCHANGED reg
         /\ \A v \in Worker : Found(DocRoot[v]) /\ rpc[v] # "new" => rpc'[v] # "new"
         /\ \/ UNCHANGED box
            \/ box' = DocRoot[w] /\ rpc[w] = "new" /\ rpc'[w] # "new"
BY DEF Visit, LookUp, WriteRoot, RequestUnchanged, TypeOK

LEMMA RequestEachAccounted ==
  ASSUME TypeOK, EachAccounted, NEW w \in Worker, Visit(w) \/ LookUp(w) \/ WriteRoot(w)
  PROVE  EachAccounted'
<1> SUFFICES ASSUME NEW r \in Root, Found(r)'
             PROVE  Cardinality(Entries(r)') + (IF box' = r THEN 1 ELSE 0) <= Cardinality(Quiet(r)')
  BY DEF EachAccounted
<1>1. Entries(r)' = Entries(r) /\ Found(r)
  BY RequestQuiet DEF Entries, Found
<1>2. Quiet(r) \subseteq Quiet(r)' /\ IsFiniteSet(Quiet(r)')
  BY <1>1, RequestQuiet, WebdirsAssumption, FS_Subset DEF Quiet
<1>3. /\ Cardinality(Quiet(r)) \in Nat /\ Cardinality(Quiet(r)') \in Nat
      /\ Cardinality(Quiet(r)) <= Cardinality(Quiet(r)')
      /\ \A v \in Quiet(r)' \ Quiet(r) : Cardinality(Quiet(r)) + 1 <= Cardinality(Quiet(r)')
  BY <1>2, Grows
<1>4. /\ Cardinality(Entries(r)) \in Nat
      /\ Cardinality(Entries(r)) + (IF box = r THEN 1 ELSE 0) <= Cardinality(Quiet(r))
  BY <1>1, Counts DEF EachAccounted
<1>5. CASE box' = box \/ box' # r
  BY <1>1, <1>3, <1>4, <1>5
<1>6. CASE box' # box /\ box' = r
  <2>1. w \in Quiet(r)' \ Quiet(r)
    BY <1>6, RequestQuiet DEF Quiet
  <2> QED
    BY <1>1, <1>3, <1>4, <1>6, <2>1
<1> QED
  BY <1>5, <1>6

LEMMA RequestAllAccounted ==
  ASSUME TypeOK, AllAccounted, NEW w \in Worker, Visit(w) \/ LookUp(w) \/ WriteRoot(w)
  PROVE  AllAccounted'
<1>1. UNCHANGED reg /\ \A r : Found(r)' <=> Found(r)
  BY RequestQuiet DEF Found
<1>2. Settled' = {v \in Worker : Found(DocRoot[v]) /\ rpc'[v] # "new"}
  BY <1>1 DEF Settled
<1>3. Settled \subseteq Settled' /\ IsFiniteSet(Settled')
  BY <1>2, RequestQuiet, WebdirsAssumption, FS_Subset DEF Settled
<1>4. /\ Len(reg) \in Nat /\ Cardinality(Settled) \in Nat /\ Cardinality(Settled') \in Nat
      /\ Cardinality(Settled) <= Cardinality(Settled')
      /\ \A v \in Settled' \ Settled : Cardinality(Settled) + 1 <= Cardinality(Settled')
  BY <1>3, Grows DEF TypeOK
<1>5. CASE box' = box \/ ~Found(box')
  BY <1>1, <1>4, <1>5 DEF AllAccounted
<1>6. CASE box' # box /\ Found(box')
  <2>1. w \in Settled' \ Settled
    BY <1>2, <1>6, RequestQuiet DEF Settled
  <2> QED
    BY <1>1, <1>4, <2>1 DEF AllAccounted
<1> QED
  BY <1>5, <1>6

\* Collect empties the mailbox, and may register what was in it.
LEMMA CollectEffect ==
  ASSUME TypeOK, Collect
  PROVE  /\ reg \in Seq(Root) /\ reg' \in Seq(Root) /\ box \in Root /\ box' = NoRoot
         /\ UNCHANGED rpc /\ NoRoot \notin Root /\ ~Found(box)'
         /\ reg' = reg \/ reg' = Append(reg, box)
<1>1. /\ reg \in Seq(Root) /\ box \in Root /\ UNCHANGED rpc /\ box' = NoRoot
      /\ reg' = Registered(box) /\ NoRoot \notin Root
  BY WebdirsAssumption DEF Collect, TypeOK, OutsideUnchanged
<1>2. reg' \in Seq(Root)
  BY <1>1, RegisteredTypes
<1> QED
  BY <1>1, <1>2 DEF Found, Registered

\* What is registered is a path that was counted in the mailbox, or the path of a
\* root that had no entry and has a quiet worker, its sender.
LEMMA CollectEachAccounted ==
  ASSUME TypeOK, Sent, EachAccounted, Collect
  PROVE  EachAccounted'
<1> SUFFICES ASSUME NEW r \in Root, Found(r)'
             PROVE  Cardinality(Entries(r)') + (IF box' = r THEN 1 ELSE 0) <= Cardinality(Quiet(r)')
  BY DEF EachAccounted
<1>1. Quiet(r)' = Quiet(r) /\ box' # r /\ Len(reg) \in Nat
  BY CollectEffect DEF Quiet
<1>2. IsFiniteSet(Entries(r)) /\ Cardinality(Entries(r)) \in Nat /\ Cardinality(Quiet(r)) \in Nat
  BY Counts
<1>3. Found(r) => Cardinality(Entries(r)) + (IF box = r THEN 1 ELSE 0) <= Cardinality(Quiet(r))
  BY DEF EachAccounted
<1>4. CASE reg' = reg \/ box # r \/ reg = <<>>
  <2>1. Entries(r)' = Entries(r) /\ Found(r)
    BY <1>4, CollectEffect DEF Entries, Found
  <2> QED
    BY <1>1, <1>2, <1>3, <2>1
<1>5. CASE reg' = Append(reg, box) /\ box = r /\ reg # <<>>
  <2>1. Entries(r)' = Entries(r) \cup {Len(reg) + 1} /\ Len(reg) + 1 \notin Entries(r)
    BY <1>1, <1>5, CollectEffect DEF Entries
  <2>2. Cardinality(Entries(r)') = Cardinality(Entries(r)) + 1
    BY <1>2, <2>1, FS_AddElement
  <2>3. CASE Found(r)
    BY <1>1, <1>2, <1>3, <1>5, <2>2, <2>3
  <2>4. CASE ~Found(r)
    <3>1. Entries(r) = {}
      BY <2>4 DEF Entries, Found
    <3>2. PICK w \in Worker : DocRoot[w] = r /\ rpc[w] = "idle"
      BY <1>5, CollectEffect DEF Sent
    <3>3. w \in Quiet(r)
      BY <3>2 DEF Quiet
    <3>4. Cardinality(Quiet(r)) >= 1
      BY <1>2, <3>3, Counts, FS_EmptySet
    <3> QED
      BY <1>1, <2>2, <3>1, <3>4, FS_EmptySet
  <2> QED
    BY <2>3, <2>4
<1> QED
  BY <1>4, <1>5, CollectEffect

\* For all roots together there is also the first entry, which is not counted.
LEMMA CollectAllAccounted ==
  ASSUME TypeOK, Sent, AllAccounted, Collect
  PROVE  AllAccounted'
<1>1. /\ reg \in Seq(Root) /\ box \in Root /\ ~Found(box)'
      /\ reg' = reg \/ reg' = Append(reg, box)
  BY CollectEffect
<1>2. \A r : Found(r) => Found(r)'
  BY <1>1 DEF Found
<1>3. Settled' = {w \in Worker : Found(DocRoot[w])' /\ rpc[w] # "new"}
  BY CollectEffect DEF Settled, Found
<1>4. Settled \subseteq Settled' /\ IsFiniteSet(Settled')
  BY <1>2, <1>3, WebdirsAssumption, FS_Subset DEF Settled
<1>5. /\ Cardinality(Settled) \in Nat /\ Cardinality(Settled') \in Nat
      /\ Cardinality(Settled) <= Cardinality(Settled')
      /\ \A w \in Settled' \ Settled : Cardinality(Settled) + 1 <= Cardinality(Settled')
  BY <1>4, Grows
<1>6. CASE reg' = reg
  BY <1>1, <1>5, <1>6 DEF AllAccounted
<1>7. CASE reg' = Append(reg, box) /\ reg = <<>>
  <2>1. Len(reg') = 1
    BY <1>1, <1>7
  <2> QED
    BY <1>1, <1>5, <2>1 DEF AllAccounted
<1>8. CASE reg' = Append(reg, box) /\ reg # <<>> /\ Found(box)
  BY <1>1, <1>5, <1>8 DEF AllAccounted
<1>9. CASE reg' = Append(reg, box) /\ reg # <<>> /\ ~Found(box)
  <2>1. PICK w \in Worker : DocRoot[w] = box /\ rpc[w] = "idle"
    BY CollectEffect DEF Sent
  <2>2. Len(reg) + 1 \in 2 .. Len(reg') /\ reg'[Len(reg) + 1] = box
    BY <1>1, <1>9
  <2>3. w \in Settled' \ Settled
    BY <1>3, <1>9, <2>1, <2>2 DEF Settled, Found
  <2> QED
    BY <1>1, <1>5, <1>9, <2>3 DEF AllAccounted
<1> QED
  BY <1>1, <1>6, <1>7, <1>8, <1>9

LEMMA AccountedStep ==
  ASSUME TypeOK, Sent, EachAccounted, AllAccounted, [Next]_vars
  PROVE  EachAccounted' /\ AllAccounted'
<1>1. CASE UNCHANGED <<box, reg, rpc>>
  BY <1>1 DEF EachAccounted, AllAccounted, Settled, Quiet, Entries, Found
<1> QED
  BY <1>1, CollectEachAccounted, CollectAllAccounted, RequestEachAccounted,
     RequestAllAccounted, OthersLeaveThem

-----------------------------------------------------------------------------
(***************************************************************************)
(* Theorems                                                                *)
(***************************************************************************)

LEMMA InitInv ==
  ASSUME Init
  PROVE  IInv
<1>1. Watched /\ Sent /\ EachAccounted /\ AllAccounted
  BY DEF Init, Watched, Sent, EachAccounted, AllAccounted, Found
<1> QED
  BY <1>1, InitTypes DEF IInv

LEMMA StepInv ==
  ASSUME IInv, [Next]_vars
  PROVE  IInv'
BY StepTypes, WatchedStep, SentStep, AccountedStep DEF IInv

\* The inductive invariant of the mailbox, the registry and the directories.
THEOREM WebdirsInvariance == Spec => []IInv
<1>1. Init => IInv
  BY InitInv
<1>2. IInv /\ [Next]_vars => IInv'
  BY StepInv
<1> QED
  BY <1>1, <1>2, PTL DEF Spec

\* Every variable of the web directories has its type; in particular the
\* registry stays below its size.
THEOREM WebdirsTypesCorrect == Spec => []TypeOK
<1>1. IInv => TypeOK
  BY DEF IInv
<1> QED
  BY <1>1, WebdirsInvariance, PTL

\* While no agent has died and no report failed, the agent watches every root
\* that a request finds registered.
THEOREM ForgottenOnlyByFaultHolds == Spec => []ForgottenOnlyByFault
<1>1. IInv => ForgottenOnlyByFault
  <2> SUFFICES ASSUME IInv, NEW r \in Root, Forgotten(r) PROVE faults > 0
    BY DEF ForgottenOnlyByFault
  <2>1. faults # 0
    BY DEF IInv, Watched, Forgotten, Found, TypeOK
  <2> QED
    BY <2>1 DEF IInv, TypeOK
<1> QED
  BY <1>1, WebdirsInvariance, PTL

\* No root takes more places of the registry than it has workers, besides the
\* first, for any races of requests and any deaths of agents.
THEOREM RegistryBoundedHolds == Spec => []RegistryBounded
<1>1. IInv => RegistryBounded
  <2> SUFFICES ASSUME IInv, NEW r \in Root
               PROVE  Cardinality(Entries(r)) <= Cardinality({w \in Worker : DocRoot[w] = r})
    BY DEF RegistryBounded
  <2> DEFINE W == {w \in Worker : DocRoot[w] = r}
  <2>1. TypeOK /\ EachAccounted
    BY DEF IInv
  <2>2. Quiet(r) \subseteq W /\ IsFiniteSet(W)
    BY WebdirsAssumption, FS_Subset DEF Quiet
  <2>3. /\ Cardinality(W) \in Nat /\ Cardinality(Quiet(r)) \in Nat
        /\ Cardinality(Quiet(r)) <= Cardinality(W)
    BY <2>2, Grows
  <2>4. CASE Found(r)
    BY <2>1, <2>3, <2>4, Counts DEF EachAccounted
  <2>5. CASE ~Found(r)
    <3>1. Entries(r) = {}
      BY <2>5 DEF Entries, Found
    <3> QED
      BY <2>3, <3>1, FS_EmptySet
  <2> QED
    BY <2>4, <2>5
<1> QED
  BY <1>1, WebdirsInvariance, PTL

\* A registry with three places more than there are workers always has room: one
\* place is never used, one is taken by the first entry, and the others are
\* taken by different workers.
THEOREM RegistryNeverFull ==
  ASSUME MaxRoots > Cardinality(Worker) + 2
  PROVE  Spec => []~Full
<1>1. IInv => ~Full
  <2> SUFFICES ASSUME IInv PROVE ~Full
    OBVIOUS
  <2>1. TypeOK /\ AllAccounted
    BY DEF IInv
  <2>2. Len(reg) \in Nat /\ (reg = <<>> => Len(reg) = 0)
    BY <2>1 DEF TypeOK
  <2>3. Len(reg) <= Cardinality(Worker) + 1
    BY <2>1, <2>2, Counts DEF AllAccounted
  <2> QED
    BY <2>1, <2>2, <2>3, Counts, WebdirsAssumption DEF Full
<1> QED
  BY <1>1, WebdirsInvariance, PTL

=============================================================================
