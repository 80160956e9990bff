------------------------- MODULE PhpDelivery_proofs -------------------------
(***************************************************************************)
(* Proofs about PhpDelivery, for any set of workers, any LRU size and any  *)
(* number of plugins, configurations and faults.                           *)
(*                                                                         *)
(* The argument follows the flow: a number only moves from the backend     *)
(* into the answer, from there into a file, from the file into a worker,   *)
(* and none of them goes back (ConfigFlow, PluginFlow); what is announced  *)
(* has passed through the file before.  Deaths of the heartbeat process    *)
(* and failed writes leave files that nobody adopts (Torn).                *)
(***************************************************************************)
EXTENDS PhpDelivery, SequenceTheorems, TLAPS

\* The bounds are numbers, and what is compared with them is one.
LEMMA Sorts ==
  /\ Plugins \subseteq Nat /\ Configs \subseteq Nat
  /\ None \in Plugins /\ None \in Configs
  /\ Torn \notin Nat /\ Torn \in Int
  /\ 1 .. MaxTime \subseteq Nat \ {0} /\ 1 \in 1 .. MaxTime
  /\ \A c \in Configs : LruMax[c] \in Nat
  BY DeliveryAssumption DEF Plugins, Configs, None, Torn

-----------------------------------------------------------------------------
(***************************************************************************)
(* The LRU.                                                                *)
(***************************************************************************)

\* An LRU: its entries, no more than max, with different keys and all from the
\* same plugin.
Lru(lru, max, by) ==
  /\ lru \in Seq(Entry)
  /\ Len(lru) <= max
  /\ \A i, j \in 1 .. Len(lru) : lru[i].key = lru[j].key => i = j
  /\ \A i \in 1 .. Len(lru) : lru[i].by = by

\* A sequence defined by its elements.
LEMMA Enumerated ==
  ASSUME NEW S, NEW n \in Nat, NEW f \in [1 .. n -> S]
  PROVE  f \in Seq(S) /\ Len(f) = n /\ DOMAIN f = 1 .. n
  BY SeqDef

\* An LRU that is emptied is one, whatever its size and the plugin.
LEMMA EmptyLru ==
  ASSUME NEW max \in Nat, NEW by
  PROVE  Lru(<<>>, max, by)
  BY EmptySeq DEF Lru

\* Using an entry reorders the LRU and nothing else.
LEMMA UsedLru ==
  ASSUME NEW lru, NEW max \in Nat, NEW by, Lru(lru, max, by),
         NEW k \in Key, Holds(lru, k)
  PROVE  Lru(Used(lru, k), max, by)
<1> DEFINE n == Len(lru)
           at == CHOOSE i \in 1 .. Len(lru) : lru[i].key = k
           new == [j \in 1 .. n |->
                     IF j = 1 THEN lru[at] ELSE IF j <= at THEN lru[j - 1] ELSE lru[j]]
<1>1. n \in Nat /\ lru \in [1 .. n -> Entry]
  BY LenProperties DEF Lru
<1>2. at \in 1 .. n
  BY DEF Holds
<1>3. new = Used(lru, k)
  BY Zenon DEF Used
<1> HIDE DEF at
<1>4. \A j \in 1 .. n : IF j = 1 THEN at \in 1 .. n ELSE IF j <= at THEN j - 1 \in 1 .. n ELSE j \in 1 .. n
  BY <1>1, <1>2
<1>5. new \in [1 .. n -> Entry]
  BY <1>1, <1>2, <1>4
<1>6. new \in Seq(Entry) /\ Len(new) = n
  BY <1>1, <1>5, Enumerated
<1>7. \A i, j \in 1 .. n : lru[i].key = lru[j].key => i = j
  BY DEF Lru
<1>8. \A j \in 1 .. n : lru[j].by = by
  BY DEF Lru
<1>9. ASSUME NEW i \in 1 .. n, NEW j \in 1 .. n, new[i].key = new[j].key PROVE i = j
  <2> DEFINE src(m) == IF m = 1 THEN at ELSE IF m <= at THEN m - 1 ELSE m
  <2>1. \A m \in 1 .. n : src(m) \in 1 .. n /\ new[m] = lru[src(m)]
    BY <1>1, <1>2, <1>4
  <2>2. src(i) = src(j)
    BY <1>7, <1>9, <2>1
  <2> QED
    BY <1>1, <1>2, <2>2
<1>10. \A j \in 1 .. n : new[j].by = by
  BY <1>1, <1>2, <1>4, <1>8
<1> HIDE DEF new
<1> QED
  BY <1>3, <1>6, <1>9, <1>10 DEF Lru

\* Adding an entry under a new key keeps the size, and drops the oldest at most.
LEMMA AddedLru ==
  ASSUME NEW lru, NEW max \in Nat, NEW by \in 1 .. MaxPlugin, Lru(lru, max, by),
         NEW k \in Key, ~Holds(lru, k)
  PROVE  Lru(Added(lru, max, [key |-> k, by |-> by]), max, by)
<1> DEFINE n == Len(lru)
           e == [key |-> k, by |-> by]
           m == IF n < max THEN n + 1 ELSE max
           new == [j \in 1 .. m |-> IF j = 1 THEN e ELSE lru[j - 1]]
<1>1. n \in Nat /\ lru \in [1 .. n -> Entry] /\ n <= max /\ e \in Entry
  BY LenProperties DEF Lru, Entry
<1>2. CASE max = 0
  BY <1>2, Zenon DEF Added
<1>3. CASE max # 0
  <2>1. new = Added(lru, max, e)
    BY <1>3, Zenon DEF Added
  <2>2. m \in Nat /\ m <= max /\ m - 1 <= n
    BY <1>1
  <2> HIDE DEF m
  <2>3. \A j \in 1 .. m : j = 1 \/ j - 1 \in 1 .. n
    BY <1>1, <2>2
  <2> HIDE DEF e
  <2>4. new \in [1 .. m -> Entry]
    BY <1>1, <2>3
  <2>5. new \in Seq(Entry) /\ Len(new) = m
    BY <2>2, <2>4, Enumerated
  <2>6. \A i \in 1 .. n : lru[i].key # k
    BY DEF Holds
  <2>7. e.key = k /\ e.by = by
    BY DEF e
  <2>8. \A i, j \in 1 .. n : lru[i].key = lru[j].key => i = j
    BY DEF Lru
  <2>9. \A i \in 1 .. n : lru[i].by = by
    BY DEF Lru
  <2>10. ASSUME NEW i \in 1 .. m, NEW j \in 1 .. m, new[i].key = new[j].key PROVE i = j
    <3>1. CASE i = 1 /\ j = 1
      BY <3>1
    <3>2. CASE i = 1 /\ j # 1
      BY <2>3, <2>6, <2>7, <2>10, <3>2
    <3>3. CASE i # 1 /\ j = 1
      BY <2>3, <2>6, <2>7, <2>10, <3>3
    <3>4. CASE i # 1 /\ j # 1
      <4>1. i - 1 = j - 1
        BY <2>3, <2>8, <2>10, <3>4
      <4> QED
        BY <2>2, <4>1
    <3> QED
      BY <3>1, <3>2, <3>3, <3>4
  <2>11. \A j \in 1 .. m : new[j].by = by
    BY <2>3, <2>7, <2>9
  <2> HIDE DEF new
  <2> QED
    BY <2>1, <2>2, <2>5, <2>10, <2>11 DEF Lru, e
<1> QED
  BY <1>2, <1>3

-----------------------------------------------------------------------------
(***************************************************************************)
(* Types.                                                                  *)
(***************************************************************************)

\* A worker that has just been forked.
LEMMA ForkedWorker == NewWorker \in WorkerState
<1> DEFINE lru == <<>>
<1>1. lru \in Seq(Entry) /\ LruMax[None] \in Nat
  BY Sorts, EmptySeq
<1>2. 0 \in 0 .. MaxTime
  BY DeliveryAssumption
<1> HIDE DEF lru
<1>3. [at |-> "idle", seen |-> 0, cfg |-> None, cfgTime |-> 0, white |-> None,
       blob |-> None, stamp |-> 0, max |-> LruMax[None], lru |-> lru] \in WorkerState
  BY <1>1, <1>2, Sorts DEF WorkerState, None
<1> QED
  BY <1>3 DEF NewWorker, lru

\* The initial state satisfies the invariant.
LEMMA InitInv == Init => IInv
<1> SUFFICES ASSUME Init PROVE IInv
  OBVIOUS
<1> USE DeliveryAssumption, Sorts DEF Init
<1>1. NewWorker \in WorkerState
  BY ForkedWorker
<1>2. TypeOK
  <2>1. worker \in [Worker -> WorkerState]
    BY <1>1
  <2>2. faults \in 0 .. MaxFault /\ now \in 1 .. MaxTime
    BY DEF TypeOK
  <2>3. shm \in [md5 : Plugins, version : Plugins, stamp : 0 .. MaxTime, action : Plugins,
                 time : Configs, white : Configs, registered : BOOLEAN]
    BY DEF None
  <2> QED
    BY <2>1, <2>2, <2>3 DEF TypeOK
<1>3. ConfigFlow /\ ConfigAtLeastAnnounced
  BY DEF ConfigFlow, ConfigAtLeastAnnounced, NewWorker, Applying, None, Torn
<1>4. WhiteFlow /\ WhiteAtLeastConfig
  BY DEF WhiteFlow, WhiteAtLeastConfig, NewWorker, None
<1>5. PluginFlow /\ SnapshotAtLeastAnnounced
  BY DEF PluginFlow, SnapshotAtLeastAnnounced, NewWorker, Applying, None, Torn
<1>6. LruBounded /\ FreshVerdicts
  <2>1. \A w \in Worker : Lru(worker[w].lru, worker[w].max, worker[w].blob)
    BY EmptyLru DEF NewWorker
  <2> QED
    BY <2>1 DEF LruBounded, FreshVerdicts, Lru
<1> QED
  BY <1>2, <1>3, <1>4, <1>5, <1>6 DEF IInv

\* A step of worker w puts another record in its place.
LEMMA StepOf ==
  ASSUME TypeOK, NEW w \in Worker, NEW new \in WorkerState, Step(w, new)
  PROVE  /\ worker' \in [Worker -> WorkerState]
         /\ worker'[w] = new
         /\ \A v \in Worker \ {w} : worker'[v] = worker[v]
         /\ UNCHANGED <<cloudVars, agentVars>>
  BY DEF Step, TypeOK

\* What is known of the LRU of a worker, as one fact.
LEMMA LruOf ==
  ASSUME TypeOK, LruBounded, FreshVerdicts, NEW w \in Worker
  PROVE  Lru(worker[w].lru, worker[w].max, worker[w].blob)
  BY DEF TypeOK, WorkerState, LruBounded, FreshVerdicts, Lru

\* A fault is counted and stays within its bound.
LEMMA FaultCounted ==
  ASSUME faults \in 0 .. MaxFault, Fault
  PROVE  faults' \in 0 .. MaxFault
  BY DeliveryAssumption DEF Fault

\* So do the two that a lock costs, and the lock is held for reading or writing.
LEMMA LockLeft ==
  ASSUME faults \in 0 .. MaxFault, lock \in [Block -> {"free", "read", "write"}],
         NEW uses \in SUBSET (Block \X {"read", "write"}), DieHolding(uses)
  PROVE  faults' \in 0 .. MaxFault /\ lock' \in [Block -> {"free", "read", "write"}]
<1>1. faults' \in 0 .. MaxFault
  BY DeliveryAssumption DEF DieHolding
<1>2. PICK u \in uses : lock' = [lock EXCEPT ![u[1]] = u[2]]
  BY DEF DieHolding
<1>3. u[1] \in Block /\ u[2] \in {"read", "write"}
  OBVIOUS
<1> QED
  BY <1>1, <1>2, <1>3

\* What the processes take is a lock of a block.
LEMMA UsesOfBlocks ==
  /\ {<<"agent", "write">>} \cup {"webdir"} \X {"read", "write"} \subseteq Block \X {"read", "write"}
  /\ AgentUses \subseteq Block \X {"read", "write"}
  /\ \A w \in Worker : WorkerUses(w) \subseteq Block \X {"read", "write"}
  BY DEF AgentUses, WorkerUses, Block

\* Where a worker stands after its plugin has been seen to.
LEMMA AfterV8Places ==
  AfterV8 \subseteq {"root", "run"}
  BY DEF AfterV8

\* The steps of the workers, one by one: the record they leave is a state of a
\* worker, and its LRU is one for the plugin the worker has then.
WorkerStep(w) ==
  StartRequest(w) \/ RequestStep(w) \/ Check(w) \/ Respawn(w)

\* A step of a worker leaves the backend, the files and the shared blocks alone
\* (RINIT of a request only reads them).
LEMMA WorkerLeaves ==
  ASSUME IInv, NEW w \in Worker, WorkerStep(w)
  PROVE  \E new \in WorkerState : Step(w, new) /\ Lru(new.lru, new.max, new.blob)
<1> DEFINE me == worker[w]
<1> USE DeliveryAssumption, Sorts
<1>1. me \in WorkerState /\ TypeOK /\ Lru(me.lru, me.max, me.blob)
  BY LruOf DEF IInv, TypeOK
<1>2. me.max \in Nat /\ me.lru \in Seq(Entry) /\ me.cfg \in Configs /\ me.blob \in Plugins
  BY <1>1 DEF WorkerState
<1>3. <<>> \in Seq(Entry)
  BY EmptySeq
<1> DEFINE Left(new) == new \in WorkerState /\ Step(w, new) /\ Lru(new.lru, new.max, new.blob)
<1>4. CASE StartRequest(w)
  <2>1. shm.time \in Nat
    BY <1>1 DEF TypeOK
  <2>2. CASE shm.time # 0 /\ shm.time > me.cfgTime
    <3>1. Left([me EXCEPT !.at = "file", !.seen = shm.time])
      BY <1>1, <1>4, <2>1, <2>2 DEF StartRequest, WorkerState
    <3> QED
      BY <3>1
  <2>3. CASE ~(shm.time # 0 /\ shm.time > me.cfgTime)
    <3>1. Left([me EXCEPT !.at = "hook"])
      BY <1>1, <1>4, <2>3 DEF StartRequest, WorkerState
    <3> QED
      BY <3>1
  <2> QED
    BY <2>2, <2>3
<1>5. CASE ReadConfig(w)
  <2>1. cloud \notin {None, Torn} => cloud \in Configs
    BY <1>1 DEF TypeOK
  <2>2. me.at = "file" /\ me.seen \in Configs
    <3>1. me.at = "file" /\ me.seen <= shm.time /\ shm.time \in 0 .. MaxConfig /\ me.seen \in Nat
      BY <1>1, <1>5 DEF IInv, TypeOK, ConfigFlow, WorkerState, Configs, ReadConfig
    <3> QED
      BY <3>1 DEF Configs
  <2>3. CASE cloud \in {None, Torn}
    <3>1. Left([me EXCEPT !.at = "hook", !.seen = 0])
      BY <1>1, <1>5, <2>3 DEF ReadConfig, WorkerState
    <3> QED
      BY <3>1
  <2>4. CASE cloud \notin {None, Torn}
    <3>1. Left([me EXCEPT !.at = "hook", !.seen = 0, !.cfg = cloud, !.cfgTime = me.seen])
      BY <1>1, <1>5, <2>1, <2>2, <2>4 DEF ReadConfig, WorkerState
    <3> QED
      BY <3>1
  <2> QED
    BY <2>3, <2>4
<1>6. CASE InitHook(w)
  <2> DEFINE new == [me EXCEPT !.at = "v8", !.white = shm.white, !.max = LruMax[me.cfg],
                               !.lru = IF me.max # LruMax[me.cfg] THEN <<>> ELSE @]
  <2>1. new \in WorkerState
    BY <1>1, <1>2, <1>3 DEF WorkerState, TypeOK
  <2>2. Lru(new.lru, new.max, new.blob)
    <3>1. CASE me.max # LruMax[me.cfg]
      BY <1>1, <1>2, <3>1, EmptyLru DEF WorkerState
    <3>2. CASE me.max = LruMax[me.cfg]
      BY <1>1, <3>2 DEF WorkerState
    <3> QED
      BY <3>1, <3>2
  <2>3. Step(w, new)
    BY <1>6 DEF InitHook
  <2> QED
    BY <2>1, <2>2, <2>3
<1>7. CASE InitV8(w)
  <2>1. shm.stamp \in Nat
    BY <1>1 DEF TypeOK
  <2>2. \/ Left([me EXCEPT !.at = "load", !.seen = shm.stamp])
        \/ \E place \in {"root", "run"} : Left([me EXCEPT !.at = place])
    BY <1>1, <1>7, <2>1, AfterV8Places DEF InitV8, WorkerState
  <2> QED
    BY <2>2
<1>8. CASE LoadSnapshot(w)
  <2> DEFINE skip(place) == [me EXCEPT !.at = place, !.seen = 0]
             new(place) == [me EXCEPT !.at = place, !.seen = 0, !.blob = snap, !.stamp = me.seen,
                                      !.lru = <<>>]
  <2>1. CASE snap \in {None, Torn}
    <3>1. PICK place \in {"root", "run"} : Step(w, skip(place))
      BY <1>8, <2>1, AfterV8Places DEF LoadSnapshot
    <3>2. skip(place) \in WorkerState /\ Lru(skip(place).lru, skip(place).max, skip(place).blob)
      BY <1>1 DEF WorkerState
    <3> QED
      BY <3>1, <3>2
  <2>2. CASE snap \notin {None, Torn}
    <3>1. PICK place \in {"root", "run"} : Step(w, new(place))
      BY <1>8, <2>2, AfterV8Places DEF LoadSnapshot
    <3>2. snap \in Plugins /\ me.seen \in 0 .. MaxTime
      <4>1. me.at = "load" /\ me.seen \in 1 .. MaxTime
        BY <1>8 DEF IInv, PluginFlow, LoadSnapshot
      <4>2. snap \in Plugins
        BY <1>1, <2>2 DEF TypeOK
      <4> QED
        BY <4>1, <4>2
    <3>3. new(place) \in WorkerState
      BY <1>1, <1>3, <3>2 DEF WorkerState
    <3>4. Lru(new(place).lru, new(place).max, new(place).blob)
      BY <1>1, <1>2, EmptyLru DEF WorkerState
    <3> QED
      BY <3>1, <3>3, <3>4
  <2> QED
    BY <2>1, <2>2
<1>9. CASE Check(w)
  <2>1. me.blob \in 1 .. MaxPlugin
    BY <1>2, <1>9 DEF Check, Plugins, None
  <2>2. PICK k \in Key :
          IF Holds(me.lru, k)
          THEN Step(w, [me EXCEPT !.lru = Used(@, k)])
          ELSE \E clean \in BOOLEAN :
                 Step(w, [me EXCEPT !.lru =
                            IF clean THEN Added(@, me.max, [key |-> k, by |-> me.blob]) ELSE @])
    BY <1>9 DEF Check
  <2>3. ASSUME NEW lru, Lru(lru, me.max, me.blob), Step(w, [me EXCEPT !.lru = lru])
        PROVE  \E new \in WorkerState : Step(w, new) /\ Lru(new.lru, new.max, new.blob)
    <3> DEFINE new == [me EXCEPT !.lru = lru]
    <3>1. lru \in Seq(Entry)
      BY <2>3 DEF Lru
    <3>2. new \in WorkerState /\ new.lru = lru /\ new.max = me.max /\ new.blob = me.blob
      BY <1>1, <3>1 DEF WorkerState
    <3> QED
      BY <2>3, <3>2
  <2>4. CASE Holds(me.lru, k)
    <3>1. Lru(Used(me.lru, k), me.max, me.blob)
      BY <1>1, <1>2, <2>4, UsedLru
    <3> QED
      BY <2>2, <2>3, <2>4, <3>1
  <2>5. CASE ~Holds(me.lru, k)
    <3>1. Lru(Added(me.lru, me.max, [key |-> k, by |-> me.blob]), me.max, me.blob)
      BY <1>1, <1>2, <2>1, <2>5, AddedLru
    <3> QED
      BY <1>1, <2>2, <2>3, <2>5, <3>1
  <2> QED
    BY <2>4, <2>5
<1>10. CASE WriteRoot(w) \/ EndRequest(w)
  <2>1. Left([me EXCEPT !.at = "run"]) \/ Left([me EXCEPT !.at = "idle"])
    BY <1>1, <1>10 DEF WriteRoot, EndRequest, WorkerState
  <2> QED
    BY <2>1
<1>11. CASE Respawn(w)
  <2>1. NewWorker \in WorkerState
    BY ForkedWorker
  <2>2. Lru(NewWorker.lru, NewWorker.max, NewWorker.blob)
    BY EmptyLru DEF NewWorker
  <2> QED
    BY <1>11, <2>1, <2>2 DEF Respawn
<1> QED
  BY <1>4, <1>5, <1>6, <1>7, <1>8, <1>9, <1>10, <1>11 DEF WorkerStep, RequestStep

\* Next, with the steps of the workers gathered.
LEMMA NextSteps ==
  ASSUME Next
  PROVE  \/ PublishPlugin \/ PublishConfig \/ Tick
         \/ AgentStep \/ BeatUnknown \/ Register \/ Crash \/ OtherDies
         \/ \E w \in Worker : WorkerStep(w)
  BY DEF Next, WorkerStep

\* Every step keeps the variables in their types.
LEMMA TypeStep == ASSUME IInv, Next PROVE TypeOK'
<1>1. TypeOK
  BY DEF IInv
<1>2. ASSUME NEW w \in Worker, WorkerStep(w) PROVE TypeOK'
  <2>1. PICK new \in WorkerState : Step(w, new)
    BY <1>2, WorkerLeaves
  <2>2. worker' \in [Worker -> WorkerState] /\ UNCHANGED <<cloudVars, agentVars>>
    BY <1>1, <2>1, StepOf
  <2>3. faults' \in 0 .. MaxFault /\ lock' \in [Block -> {"free", "read", "write"}]
    <3>1. \/ UNCHANGED <<lock, faults>>
          \/ Fault /\ UNCHANGED lock
          \/ DieHolding(WorkerUses(w))
      BY <1>2 DEF WorkerStep, RequestStep, StartRequest, ReadConfig, InitHook, InitV8,
                  LoadSnapshot, WriteRoot, Check, EndRequest, Respawn
    <3> QED
      BY <1>1, <3>1, FaultCounted, LockLeft, UsesOfBlocks DEF TypeOK
  <2> QED
    BY <1>1, <2>2, <2>3 DEF TypeOK, cloudVars, agentVars
<1> USE <1>1 DEF TypeOK, cloudVars, agentVars
<1>3. CASE PublishPlugin
  BY <1>3, DeliveryAssumption DEF PublishPlugin, Plugins
<1>4. CASE PublishConfig
  BY <1>4, DeliveryAssumption DEF PublishConfig, Configs
<1>5. CASE Tick
  BY <1>5, DeliveryAssumption DEF Tick
<1>6. CASE Register
  BY <1>6 DEF Register
<1>7. CASE BeatUnknown
  <2>1. faults' \in 0 .. MaxFault
    BY <1>7, FaultCounted DEF BeatUnknown
  <2> QED
    BY <1>7, <2>1 DEF BeatUnknown
<1>9. CASE Crash \/ OtherDies
  <2>1. faults' \in 0 .. MaxFault /\ lock' \in [Block -> {"free", "read", "write"}]
    BY <1>9, FaultCounted, LockLeft, UsesOfBlocks DEF Crash, OtherDies
  <2>2. UNCHANGED <<cloudVars, shm, snap, cloud, answer, first, worker>> /\ pc' \in {pc, "idle"}
    BY <1>9 DEF Crash, OtherDies
  <2> QED
    BY <2>1, <2>2
<1>8. CASE AgentStep
  <2>1. None \in Plugins /\ None \in Configs
    BY Sorts
  <2>2. CASE Beat
    <3>2. answer' \in [plugin : Plugins, config : Configs]
      BY <2>1, <2>2 DEF Beat
    <3>3. pc' \in {"idle", "plugin"}
      BY <2>2 DEF Beat, At
    <3> QED
      BY <2>2, <3>2, <3>3 DEF Beat
  <2>3. CASE BeginSave
    BY <2>3 DEF BeginSave
  <2>4. CASE NoPlugin
    <3>1. faults' \in 0 .. MaxFault
      BY <2>4, FaultCounted DEF NoPlugin
    <3> QED
      BY <2>4, <3>1 DEF NoPlugin
  <2>5. CASE EndSave
    <3>1. faults' \in 0 .. MaxFault
      BY <2>5, FaultCounted DEF EndSave
    <3> QED
      BY <2>5, <3>1 DEF EndSave
  <2>6. CASE SetMd5 \/ SetAction \/ Unregister \/ SetIntervals
    BY <2>6 DEF SetMd5, SetAction, Unregister, SetIntervals
  <2>7. CASE SetVersion
    <3>1. now \in 0 .. MaxTime
      BY DeliveryAssumption
    <3> QED
      BY <2>7, <3>1 DEF SetVersion
  <2>8. CASE SetShared \/ NoConfig
    BY <2>8 DEF SetShared, NoConfig
  <2>9. CASE OpenCloud
    <3>1. faults' \in 0 .. MaxFault
      BY <2>9, FaultCounted DEF OpenCloud
    <3> QED
      BY <2>9, <3>1 DEF OpenCloud
  <2>10. CASE WriteCloud
    <3>1. faults' \in 0 .. MaxFault
      BY <2>10, FaultCounted DEF WriteCloud
    <3> QED
      BY <2>10, <3>1 DEF WriteCloud
  <2>11. CASE SetTime
    BY <2>11 DEF SetTime
  <2> QED
    BY <1>8, <2>2, <2>3, <2>4, <2>5, <2>6, <2>7, <2>8, <2>9, <2>10, <2>11 DEF AgentStep
<1> QED
  BY <1>2, <1>3, <1>4, <1>5, <1>6, <1>7, <1>8, <1>9, NextSteps

-----------------------------------------------------------------------------
(***************************************************************************)
(* The LRU of every worker.                                                *)
(***************************************************************************)

\* Only the steps of a worker change workers.
LEMMA OtherSteps ==
  ASSUME Next
  PROVE  UNCHANGED worker \/ \E w \in Worker : WorkerStep(w)
  BY NextSteps DEF PublishPlugin, PublishConfig, Tick, AgentStep, BeatUnknown, Register, Crash,
    OtherDies, Beat, Unregister, BeginSave, NoPlugin, EndSave, SetAction, SetMd5, SetVersion,
    SetShared, NoConfig, SetIntervals, OpenCloud, WriteCloud, SetTime

\* The bound of the LRU and the freshness of its verdicts survive every step
\* (LRU::set and reset, and the clear of PHP_RINIT(openrasp_v8)).
LEMMA LruStep == ASSUME IInv, Next PROVE LruBounded' /\ FreshVerdicts'
<1>1. TypeOK /\ \A v \in Worker : Lru(worker[v].lru, worker[v].max, worker[v].blob)
  BY LruOf DEF IInv
<1>2. CASE UNCHANGED worker
  BY <1>2 DEF IInv, LruBounded, FreshVerdicts
<1>3. ASSUME NEW w \in Worker, WorkerStep(w) PROVE LruBounded' /\ FreshVerdicts'
  <2>1. PICK new \in WorkerState : Step(w, new) /\ Lru(new.lru, new.max, new.blob)
    BY <1>3, WorkerLeaves
  <2>2. \A v \in Worker : Lru(worker'[v].lru, worker'[v].max, worker'[v].blob)
    BY <1>1, <2>1, StepOf
  <2> QED
    BY <2>2 DEF LruBounded, FreshVerdicts, Lru
<1> QED
  BY <1>2, <1>3, OtherSteps

-----------------------------------------------------------------------------
(***************************************************************************)
(* Configurations.                                                         *)
(***************************************************************************)

\* The numbers that configurations are compared by.
LEMMA ConfigSorts ==
  ASSUME TypeOK
  PROVE  /\ config \in Int /\ cloud \in Int /\ shm.time \in Int /\ shm.white \in Int
         /\ answer.config \in Int
         /\ \A w \in Worker : /\ worker[w].cfg \in Int /\ worker[w].cfgTime \in Int
                              /\ worker[w].seen \in Int /\ worker[w].white \in Int
<1> USE DEF Configs, Torn
<1>1. config \in Int /\ cloud \in Int
  BY DEF TypeOK
<1>2. shm.time \in Int /\ shm.white \in Int /\ answer.config \in Int
  BY DEF TypeOK
<1>3. ASSUME NEW w \in Worker
      PROVE  /\ worker[w].cfg \in Int /\ worker[w].cfgTime \in Int
             /\ worker[w].seen \in Int /\ worker[w].white \in Int
  <2>1. worker[w] \in WorkerState
    BY DEF TypeOK
  <2> QED
    BY <2>1 DEF WorkerState
<1> QED
  BY <1>1, <1>2, <1>3

\* The heartbeat process changes the announced time and the white list where
\* the configuration is applied, and nowhere else.
LEMMA TimeKept ==
  ASSUME TypeOK, \/ PublishPlugin \/ Tick \/ Register \/ Unregister \/ BeatUnknown \/ Crash
                 \/ OtherDies \/ Beat \/ BeginSave \/ NoPlugin \/ EndSave \/ SetAction
                 \/ SetMd5 \/ SetVersion
  PROVE  shm'.time = shm.time /\ shm'.white = shm.white
<1>1. CASE Register \/ Unregister \/ SetAction
  BY <1>1 DEF TypeOK, Register, Unregister, SetAction
<1>2. CASE SetMd5 \/ SetVersion
  BY <1>2 DEF TypeOK, SetMd5, SetVersion
<1> QED
  BY <1>1, <1>2 DEF PublishPlugin, Tick, BeatUnknown, Crash, OtherDies, Beat, BeginSave,
    NoPlugin, EndSave, agentVars

ConfigParts == ConfigFlow /\ ConfigAtLeastAnnounced

\* No step of the backend or of the heartbeat process breaks the flow.
LEMMA ConfigStepAgent ==
  ASSUME IInv, Next, UNCHANGED worker
  PROVE  ConfigParts'
<1> USE ConfigSorts, Sorts DEF IInv, ConfigParts, ConfigFlow, ConfigAtLeastAnnounced, Applying
<1>1. CASE PublishPlugin \/ Tick \/ Register \/ Unregister \/ BeatUnknown \/ Crash \/ OtherDies
  <2>1. shm'.time = shm.time
    BY <1>1, TimeKept
  <2>2. UNCHANGED <<config, cloud, answer>> /\ pc' \in {pc, "idle", "unknown"}
    BY <1>1 DEF PublishPlugin, Tick, Register, Unregister, BeatUnknown, Crash, OtherDies,
      agentVars, cloudVars
  <2> QED
    BY <2>1, <2>2
<1>2. CASE PublishConfig
  BY <1>2 DEF PublishConfig, agentVars
<1>3. CASE Beat
  BY <1>3 DEF Beat, cloudVars
<1>4. CASE BeginSave \/ NoPlugin \/ EndSave \/ SetAction
  <2>1. shm'.time = shm.time
    BY <1>4, TimeKept
  <2>2. UNCHANGED <<config, cloud, answer>> /\ Applying
    BY <1>4 DEF BeginSave, NoPlugin, EndSave, SetAction, cloudVars, At
  <2>3. pc' \in {"save", "saved", "unsaved", "md5", "config"}
    BY <1>4 DEF BeginSave, NoPlugin, EndSave, SetAction
  <2> QED
    BY <2>1, <2>2, <2>3
<1>5. CASE SetMd5 \/ SetVersion
  <2>1. shm'.time = shm.time
    BY <1>5, TimeKept
  <2>2. UNCHANGED <<config, cloud, answer>> /\ Applying /\ pc' \in {"version", "config"}
    BY <1>5 DEF SetMd5, SetVersion, cloudVars, At
  <2> QED
    BY <2>1, <2>2
<1>6. CASE SetShared
  BY <1>6 DEF SetShared, At, HasConfig, cloudVars, TypeOK
<1>7. CASE NoConfig
  BY <1>7 DEF NoConfig, cloudVars
<1>12. CASE SetIntervals
  BY <1>12 DEF SetIntervals, At, cloudVars
<1>8. CASE OpenCloud
  <2>1. UNCHANGED <<config, answer, shm>> /\ pc = "open"
    BY <1>8 DEF OpenCloud, At, cloudVars
  <2>2. CASE cloud' = Torn /\ pc' = "write"
    <3>1. Torn <= config /\ Torn <= answer.config
      BY DEF Torn, TypeOK, Configs
    <3> QED
      BY <2>1, <2>2, <3>1
  <2>3. CASE UNCHANGED cloud /\ pc' = "idle"
    BY <2>1, <2>3
  <2> QED
    BY <1>8, <2>2, <2>3 DEF OpenCloud
<1>9. CASE WriteCloud
  BY <1>9 DEF WriteCloud, At, cloudVars
<1>10. CASE SetTime
  <2>1. UNCHANGED <<config, cloud, answer>> /\ pc = "time" /\ pc' = "idle"
    BY <1>10 DEF SetTime, At, cloudVars
  <2>2. shm'.time = answer.config
    BY <1>10 DEF SetTime, TypeOK
  <2>3. shm.time <= answer.config /\ answer.config <= config /\ cloud \in {answer.config, Torn}
    BY <2>1
  <2> QED
    BY <2>1, <2>2, <2>3
<1>11. ASSUME NEW w \in Worker, WorkerStep(w) PROVE ConfigParts'
  BY <1>11, WorkerLeaves, StepOf DEF cloudVars, agentVars
<1> QED
  BY <1>1, <1>2, <1>3, <1>4, <1>5, <1>6, <1>7, <1>8, <1>9, <1>10, <1>11, <1>12, NextSteps
  DEF AgentStep

\* What a step of a worker does to its configuration.
LEMMA ConfigOf ==
  ASSUME IInv, NEW w \in Worker, WorkerStep(w)
  PROVE  LET me == worker[w]
             me2 == worker'[w]
         IN \/ /\ me2.cfg = me.cfg /\ me2.cfgTime = me.cfgTime
               /\ me2.at = "file" => me.at = "idle" /\ me2.seen = shm.time
            \/ /\ me.at = "file" /\ me2.at = "hook" /\ cloud \notin {None, Torn}
               /\ me2.cfg = cloud /\ me2.cfgTime = me.seen
            \/ me2 = NewWorker
<1> DEFINE me == worker[w]
<1>1. me \in WorkerState /\ TypeOK
  BY DEF IInv, TypeOK
<1>2. \A new : Step(w, new) => worker'[w] = new
  BY <1>1 DEF Step, TypeOK
<1> USE <1>1, <1>2 DEF WorkerState
<1>3. CASE StartRequest(w)
  <2>1. \/ Step(w, [me EXCEPT !.at = "file", !.seen = shm.time]) /\ me.at = "idle"
        \/ Step(w, [me EXCEPT !.at = "hook"])
    BY <1>3 DEF StartRequest
  <2> QED
    BY <2>1
<1>4. CASE ReadConfig(w)
  <2>1. me.at = "file"
    BY <1>4 DEF ReadConfig
  <2>2. CASE cloud \in {None, Torn}
    BY <1>4, <2>1, <2>2 DEF ReadConfig
  <2>3. CASE cloud \notin {None, Torn}
    BY <1>4, <2>1, <2>3 DEF ReadConfig
  <2> QED
    BY <2>2, <2>3
<1>5. CASE InitHook(w)
  <2>1. \E white, max, lru :
          Step(w, [me EXCEPT !.at = "v8", !.white = white, !.max = max, !.lru = lru])
    BY <1>5 DEF InitHook
  <2>2. PICK white, max, lru :
          worker'[w] = [me EXCEPT !.at = "v8", !.white = white, !.max = max, !.lru = lru]
    BY <2>1, <1>2
  <2> QED
    BY <2>2
<1>6. CASE InitV8(w)
  BY <1>6, AfterV8Places DEF InitV8
<1>7. CASE LoadSnapshot(w)
  BY <1>7, AfterV8Places DEF LoadSnapshot
<1>8. CASE Check(w)
  <2>1. me.at = "run" /\ \E lru : Step(w, [me EXCEPT !.lru = lru])
    BY <1>8 DEF Check
  <2> QED
    BY <2>1
<1>9. CASE WriteRoot(w) \/ EndRequest(w)
  BY <1>9 DEF WriteRoot, EndRequest
<1>10. CASE Respawn(w)
  BY <1>10 DEF Respawn
<1> QED
  BY <1>3, <1>4, <1>5, <1>6, <1>7, <1>8, <1>9, <1>10 DEF WorkerStep, RequestStep

\* A step of a worker does not break the flow either.
LEMMA ConfigStepWorker ==
  ASSUME IInv, NEW w \in Worker, WorkerStep(w)
  PROVE  ConfigParts'
<1>1. UNCHANGED <<cloudVars, agentVars>> /\ \A v \in Worker \ {w} : worker'[v] = worker[v]
  BY WorkerLeaves, StepOf DEF IInv
<1>2. TypeOK' /\ TypeOK
  <2>1. Next
    BY DEF Next, WorkerStep
  <2> QED
    BY <2>1, TypeStep DEF IInv
<1>3. /\ worker'[w].cfg <= config
      /\ cloud # Torn => worker'[w].cfg <= cloud
      /\ worker'[w].at = "file" => worker'[w].seen <= shm.time
      /\ worker'[w].cfgTime <= shm.time
      /\ worker'[w].cfgTime <= worker'[w].cfg
      /\ Applying /\ answer.config # None => worker'[w].cfg <= answer.config
  <2> USE ConfigSorts, <1>2, Sorts DEF IInv, ConfigFlow, ConfigAtLeastAnnounced
  <2>1. CASE worker'[w] = NewWorker
    <3>1. 0 <= config /\ 0 <= shm.time /\ 0 <= answer.config /\ (cloud # Torn => 0 <= cloud)
      BY DEF TypeOK, Configs
    <3> QED
      BY <2>1, <3>1 DEF NewWorker, None
  <2>2. CASE /\ worker'[w].cfg = worker[w].cfg /\ worker'[w].cfgTime = worker[w].cfgTime
             /\ worker'[w].at = "file" => worker[w].at = "idle" /\ worker'[w].seen = shm.time
    BY <2>2
  <2>3. CASE /\ worker[w].at = "file" /\ worker'[w].at = "hook" /\ cloud \notin {None, Torn}
             /\ worker'[w].cfg = cloud /\ worker'[w].cfgTime = worker[w].seen
    BY <2>3
  <2> QED
    BY <2>1, <2>2, <2>3, ConfigOf
<1> QED
  BY <1>1, <1>3 DEF IInv, ConfigParts, ConfigFlow, ConfigAtLeastAnnounced, Applying, cloudVars,
    agentVars

\* What is known of cloud-config.json and the announced time survives every step.
LEMMA ConfigStep == ASSUME IInv, Next PROVE ConfigParts'
  BY OtherSteps, ConfigStepAgent, ConfigStepWorker

-----------------------------------------------------------------------------
(***************************************************************************)
(* The white list.                                                         *)
(***************************************************************************)

WhiteParts == WhiteFlow /\ WhiteAtLeastConfig

\* What is known of the shared white list survives the steps of the heartbeat
\* process and of the console (build_check_type_white_array before the file).
LEMMA WhiteStepAgent ==
  ASSUME IInv, Next, UNCHANGED worker
  PROVE  WhiteParts'
<1> USE ConfigSorts DEF IInv, WhiteParts, WhiteFlow, WhiteAtLeastConfig
<1>1. CASE \/ PublishPlugin \/ Tick \/ Register \/ Unregister \/ BeatUnknown \/ Crash
           \/ OtherDies \/ Beat
  <2>1. shm'.time = shm.time /\ shm'.white = shm.white
    BY <1>1, TimeKept
  <2>2. pc' \in {"idle", "unknown", "plugin"} \/ UNCHANGED <<pc, answer>>
    BY <1>1 DEF PublishPlugin, Tick, Register, Unregister, BeatUnknown, Crash, OtherDies, Beat,
      agentVars
  <2> QED
    BY <2>1, <2>2
<1>2. CASE PublishConfig
  BY <1>2 DEF PublishConfig, agentVars
<1>3. CASE BeginSave \/ NoPlugin \/ EndSave \/ SetAction \/ SetMd5 \/ SetVersion
  <2>1. shm'.time = shm.time /\ shm'.white = shm.white
    BY <1>3, TimeKept
  <2>2. pc' \in {"save", "saved", "unsaved", "md5", "version", "config"}
    BY <1>3 DEF BeginSave, NoPlugin, EndSave, SetAction, SetMd5, SetVersion
  <2> QED
    BY <2>1, <2>2
<1>4. CASE SetShared
  <2>1. shm'.time = shm.time /\ answer' = answer
    BY <1>4 DEF SetShared, TypeOK
  <2>2. shm'.white = IF answer.config \in Oversize THEN shm.white ELSE answer.config
    BY <1>4 DEF SetShared, TypeOK
  <2>3. CASE answer.config \in Oversize
    BY <1>4, <2>1, <2>2, <2>3 DEF SetShared
  <2>4. CASE answer.config \notin Oversize
    <3>1. /\ shm.time <= answer.config
          /\ \A w \in Worker : /\ worker[w].cfg <= answer.config
                               /\ worker[w].cfgTime <= worker[w].cfg
                               /\ worker[w].at = "file" => worker[w].seen <= shm.time
      BY <1>4 DEF SetShared, At, HasConfig, ConfigFlow, ConfigAtLeastAnnounced, Applying
    <3>2. \A w \in Worker : /\ worker[w].cfgTime <= answer.config
                            /\ worker[w].at = "file" => worker[w].seen <= answer.config
      BY <3>1
    <3> QED
      BY <2>1, <2>2, <2>4, <3>1, <3>2
  <2> QED
    BY <2>3, <2>4
<1>5. CASE NoConfig
  BY <1>5 DEF NoConfig
<1>6. CASE SetIntervals \/ OpenCloud \/ WriteCloud
  BY <1>6 DEF SetIntervals, OpenCloud, WriteCloud, At
<1>7. CASE SetTime
  <2>1. shm'.time = answer.config /\ shm'.white = shm.white /\ pc = "time" /\ pc' = "idle"
    BY <1>7 DEF SetTime, At, TypeOK
  <2> QED
    BY <2>1
<1>8. ASSUME NEW w \in Worker, WorkerStep(w) PROVE WhiteParts'
  BY <1>8, WorkerLeaves, StepOf DEF agentVars
<1> QED
  BY <1>1, <1>2, <1>3, <1>4, <1>5, <1>6, <1>7, <1>8, NextSteps DEF AgentStep

\* What a step of a worker does to the white list of its request.
LEMMA WhiteOf ==
  ASSUME IInv, NEW w \in Worker, WorkerStep(w), worker'[w].at \in {"v8", "load", "root", "run"}
  PROVE  /\ worker'[w].cfgTime = worker[w].cfgTime
         /\ \/ worker'[w].white = shm.white
            \/ worker[w].at \in {"v8", "load", "root", "run"} /\ worker'[w].white = worker[w].white
<1> DEFINE me == worker[w]
<1>1. me \in WorkerState /\ TypeOK
  BY DEF IInv, TypeOK
<1>2. \A new : Step(w, new) => worker'[w] = new
  BY <1>1 DEF Step, TypeOK
<1> USE <1>1, <1>2 DEF WorkerState
<1>3. CASE StartRequest(w)
  BY <1>3 DEF StartRequest
<1>4. CASE ReadConfig(w)
  <2>1. CASE cloud \in {None, Torn}
    BY <1>4, <2>1 DEF ReadConfig
  <2>2. CASE cloud \notin {None, Torn}
    BY <1>4, <2>2 DEF ReadConfig
  <2> QED
    BY <2>1, <2>2
<1>5. CASE InitHook(w)
  BY <1>5 DEF InitHook
<1>6. CASE InitV8(w)
  BY <1>6, AfterV8Places DEF InitV8
<1>7. CASE LoadSnapshot(w)
  BY <1>7, AfterV8Places DEF LoadSnapshot
<1>8. CASE Check(w)
  <2>1. me.at = "run" /\ \E lru : Step(w, [me EXCEPT !.lru = lru])
    BY <1>8 DEF Check
  <2> QED
    BY <2>1
<1>9. CASE WriteRoot(w) \/ EndRequest(w)
  BY <1>9 DEF WriteRoot, EndRequest
<1>10. CASE Respawn(w)
  BY <1>10 DEF Respawn, NewWorker
<1> QED
  BY <1>3, <1>4, <1>5, <1>6, <1>7, <1>8, <1>9, <1>10 DEF WorkerStep, RequestStep

\* It survives the steps of a worker (PHP_RINIT(openrasp_hook)).
LEMMA WhiteStepWorker ==
  ASSUME IInv, NEW w \in Worker, WorkerStep(w)
  PROVE  WhiteParts'
<1>1. UNCHANGED <<cloudVars, agentVars>> /\ \A v \in Worker \ {w} : worker'[v] = worker[v]
  BY WorkerLeaves, StepOf DEF IInv
<1> USE DEF IInv, WhiteParts, WhiteFlow, WhiteAtLeastConfig
<1>2. /\ worker'[w].at = "file" /\ worker'[w].seen \notin Oversize =>
           worker'[w].seen <= shm.white
      /\ worker'[w].cfgTime \notin Oversize => worker'[w].cfgTime <= shm.white
  <2>1. 0 <= shm.white
    BY DEF TypeOK, Configs
  <2>2. CASE worker'[w] = NewWorker
    BY <2>1, <2>2 DEF NewWorker
  <2>3. CASE worker'[w] # NewWorker
    BY <2>3, ConfigOf
  <2> QED
    BY <2>2, <2>3
<1>3. worker'[w].at \in {"v8", "load", "root", "run"} /\ worker'[w].cfgTime \notin Oversize =>
        worker'[w].white >= worker'[w].cfgTime
  BY ConfigSorts, WhiteOf
<1> QED
  BY <1>1, <1>2, <1>3 DEF agentVars

\* It survives every step.
LEMMA WhiteStep == ASSUME IInv, Next PROVE WhiteParts'
  BY OtherSteps, WhiteStepAgent, WhiteStepWorker

-----------------------------------------------------------------------------
(***************************************************************************)
(* Plugins.                                                                *)
(***************************************************************************)

PluginParts == PluginFlow /\ SnapshotAtLeastAnnounced

\* The numbers that plugins are compared by.
LEMMA PluginSorts ==
  ASSUME TypeOK
  PROVE  /\ plugin \in Int /\ snap \in Int /\ answer.plugin \in Int
         /\ shm.stamp \in 0 .. MaxTime /\ now \in 1 .. MaxTime
         /\ \A t \in 1 .. MaxTime : first[t] \in Int
         /\ \A w \in Worker : worker[w].blob \in Int /\ worker[w].stamp \in 0 .. MaxTime
<1> USE DEF Plugins, Torn
<1>1. plugin \in Int /\ snap \in Int
  BY DEF TypeOK
<1>2. answer.plugin \in Int /\ shm.stamp \in 0 .. MaxTime /\ now \in 1 .. MaxTime
  BY DEF TypeOK
<1>3. \A t \in 1 .. MaxTime : first[t] \in Int
  BY DEF TypeOK
<1>4. ASSUME NEW w \in Worker PROVE worker[w].blob \in Int /\ worker[w].stamp \in 0 .. MaxTime
  <2>1. worker[w] \in WorkerState
    BY DEF TypeOK
  <2> QED
    BY <2>1 DEF WorkerState
<1> QED
  BY <1>1, <1>2, <1>3, <1>4

\* Only SetVersion stamps.
LEMMA StampKept ==
  ASSUME TypeOK, \/ Register \/ Unregister \/ SetAction \/ SetMd5 \/ SetShared \/ SetTime
  PROVE  shm'.stamp = shm.stamp /\ first' = first
<1>1. CASE Register \/ Unregister \/ SetAction
  BY <1>1 DEF TypeOK, Register, Unregister, SetAction
<1>2. CASE SetMd5 \/ SetShared \/ SetTime
  BY <1>2 DEF TypeOK, SetMd5, SetShared, SetTime
<1> QED
  BY <1>1, <1>2

\* What is known of snapshot.dat and the stamp survives the steps of the
\* heartbeat process and of the console (the file before set_plugin_version).
LEMMA PluginStepAgent ==
  ASSUME IInv, Next, UNCHANGED worker
  PROVE  PluginParts'
<1> USE PluginSorts DEF IInv, PluginParts, PluginFlow, SnapshotAtLeastAnnounced, Applying
<1>1. CASE PublishPlugin
  BY <1>1 DEF PublishPlugin, agentVars
<1>2. CASE \/ PublishConfig \/ Tick \/ BeatUnknown \/ Crash \/ OtherDies \/ NoPlugin
           \/ NoConfig \/ SetIntervals \/ OpenCloud \/ WriteCloud
  <2>1. UNCHANGED <<plugin, shm, snap, first, answer>>
    BY <1>2 DEF PublishConfig, Tick, BeatUnknown, Crash, OtherDies, NoPlugin, NoConfig,
                SetIntervals, OpenCloud, WriteCloud, agentVars, cloudVars
  <2>2. \/ pc' \in {pc, "idle", "unknown"}
        \/ Applying /\ pc' \in {"config", "open", "write", "time"}
    BY <1>2 DEF PublishConfig, Tick, BeatUnknown, Crash, OtherDies, NoPlugin, NoConfig,
                SetIntervals, OpenCloud, WriteCloud, At, agentVars
  <2> QED
    BY <2>1, <2>2
<1>3. CASE Register \/ Unregister \/ SetShared \/ SetTime
  <2>1. shm'.stamp = shm.stamp /\ first' = first
    BY <1>3, StampKept
  <2>2. UNCHANGED <<plugin, snap, answer>>
    BY <1>3 DEF Register, Unregister, SetShared, SetTime, cloudVars
  <2>3. pc' = pc \/ pc' = "idle" \/ (Applying /\ pc' = "webdir")
    BY <1>3 DEF Register, Unregister, SetShared, SetTime, At
  <2> QED
    BY <2>1, <2>2, <2>3
<1>4. CASE Beat
  BY <1>4 DEF Beat, cloudVars, None
<1>5. CASE BeginSave
  <2>1. Torn <= plugin
    BY DEF Torn, TypeOK, Plugins
  <2> QED
    BY <1>5, <2>1 DEF BeginSave, At, HasPlugin, cloudVars
<1>6. CASE EndSave
  <2>1. UNCHANGED <<plugin, answer, shm, first>> /\ pc = "save"
    BY <1>6 DEF EndSave, At, cloudVars
  <2>2. \/ snap' = answer.plugin /\ pc' = "saved"
        \/ snap' = snap /\ pc' = "unsaved"
    BY <1>6 DEF EndSave
  <2> QED
    BY <2>1, <2>2
<1>10. CASE SetAction
  <2>1. shm'.stamp = shm.stamp /\ first' = first
    BY <1>10, StampKept
  <2>2. /\ UNCHANGED <<plugin, answer, snap>> /\ pc \in {"saved", "unsaved"}
        /\ pc' = IF pc = "saved" THEN "md5" ELSE "config"
    BY <1>10 DEF SetAction, At, cloudVars
  <2> QED
    BY <2>1, <2>2
<1>7. CASE SetMd5
  <2>1. shm'.stamp = shm.stamp /\ first' = first
    BY <1>7, StampKept
  <2> QED
    BY <1>7, <2>1 DEF SetMd5, At, cloudVars
<1>8. CASE SetVersion
  <2>1. /\ pc = "version" /\ pc' = "config" /\ UNCHANGED <<plugin, snap, answer>>
        /\ shm'.stamp = now
    BY <1>8 DEF SetVersion, At, cloudVars, TypeOK
  <2>2. /\ first'[now] = IF first[now] = None THEN answer.plugin ELSE first[now]
        /\ \A t \in 1 .. MaxTime : t # now => first'[t] = first[t]
    BY <1>8 DEF SetVersion, TypeOK
  <2>3. answer.plugin # None /\ snap = answer.plugin /\ answer.plugin <= plugin
    BY <2>1
  <2>4. now # 0 /\ now \in 1 .. MaxTime
    OBVIOUS
  <2>5. \A t \in 1 .. MaxTime : /\ first'[t] <= plugin /\ first'[t] <= answer.plugin
                                /\ first[t] # None => first'[t] = first[t]
    BY <2>1, <2>2, <2>3
  <2>6. first'[now] # None
    BY <2>2, <2>3
  <2>7. \A w \in Worker : worker[w].stamp # 0 => worker[w].stamp \in 1 .. MaxTime
    OBVIOUS
  <2> QED
    BY <2>1, <2>3, <2>4, <2>5, <2>6, <2>7
<1>9. ASSUME NEW w \in Worker, WorkerStep(w) PROVE PluginParts'
  BY <1>9, WorkerLeaves, StepOf DEF cloudVars, agentVars
<1> QED
  BY <1>1, <1>2, <1>3, <1>4, <1>5, <1>6, <1>7, <1>8, <1>9, <1>10, NextSteps DEF AgentStep

\* What a step of a worker does to its plugin.
LEMMA PluginOf ==
  ASSUME IInv, NEW w \in Worker, WorkerStep(w)
  PROVE  LET me == worker[w]
             me2 == worker'[w]
         IN \/ /\ me2.blob = me.blob /\ me2.stamp = me.stamp
               /\ me2.at = "load" => me2.seen = shm.stamp /\ shm.stamp > 0
            \/ /\ me.at = "load" /\ me2.at \in {"root", "run"} /\ snap \notin {None, Torn}
               /\ me2.blob = snap /\ me2.stamp = me.seen
            \/ me2 = NewWorker
<1> DEFINE me == worker[w]
<1>1. me \in WorkerState /\ TypeOK
  BY DEF IInv, TypeOK
<1>2. \A new : Step(w, new) => worker'[w] = new
  BY <1>1 DEF Step, TypeOK
<1> USE <1>1, <1>2 DEF WorkerState
<1>3. CASE StartRequest(w)
  BY <1>3 DEF StartRequest
<1>4. CASE ReadConfig(w)
  <2>1. CASE cloud \in {None, Torn}
    BY <1>4, <2>1 DEF ReadConfig
  <2>2. CASE cloud \notin {None, Torn}
    BY <1>4, <2>2 DEF ReadConfig
  <2> QED
    BY <2>1, <2>2
<1>5. CASE InitHook(w)
  BY <1>5 DEF InitHook
<1>6. CASE InitV8(w)
  <2>1. \/ Step(w, [me EXCEPT !.at = "load", !.seen = shm.stamp]) /\ shm.stamp > 0
        \/ \E place \in {"root", "run"} : Step(w, [me EXCEPT !.at = place])
    BY <1>6, AfterV8Places DEF InitV8
  <2> QED
    BY <2>1
<1>7. CASE LoadSnapshot(w)
  <2>1. CASE snap \in {None, Torn}
    BY <1>7, <2>1, AfterV8Places DEF LoadSnapshot
  <2>2. CASE snap \notin {None, Torn}
    BY <1>7, <2>2, AfterV8Places DEF LoadSnapshot
  <2> QED
    BY <2>1, <2>2
<1>8. CASE Check(w)
  <2>1. me.at = "run" /\ \E lru : Step(w, [me EXCEPT !.lru = lru])
    BY <1>8 DEF Check
  <2> QED
    BY <2>1
<1>9. CASE WriteRoot(w) \/ EndRequest(w)
  BY <1>9 DEF WriteRoot, EndRequest
<1>10. CASE Respawn(w)
  BY <1>10 DEF Respawn
<1> QED
  BY <1>3, <1>4, <1>5, <1>6, <1>7, <1>8, <1>9, <1>10 DEF WorkerStep, RequestStep

\* It survives the steps of a worker (PHP_RINIT(openrasp_v8)).
LEMMA PluginStepWorker ==
  ASSUME IInv, NEW w \in Worker, WorkerStep(w)
  PROVE  PluginParts'
<1>1. UNCHANGED <<cloudVars, agentVars>> /\ \A v \in Worker \ {w} : worker'[v] = worker[v]
  BY WorkerLeaves, StepOf DEF IInv
<1> USE DEF IInv, PluginParts, PluginFlow, SnapshotAtLeastAnnounced
<1>2. /\ worker'[w].at = "load" =>
           worker'[w].seen \in 1 .. MaxTime /\ first[worker'[w].seen] # None
      /\ worker'[w].stamp # 0 =>
           first[worker'[w].stamp] # None /\ worker'[w].blob >= first[worker'[w].stamp]
  <2>1. CASE worker'[w] = NewWorker
    BY <2>1 DEF NewWorker
  <2>2. CASE /\ worker'[w].blob = worker[w].blob /\ worker'[w].stamp = worker[w].stamp
             /\ worker'[w].at = "load" => worker'[w].seen = shm.stamp /\ shm.stamp > 0
    BY <2>2, PluginSorts
  <2>3. CASE /\ worker[w].at = "load" /\ worker'[w].at \in {"root", "run"} /\ snap \notin {None, Torn}
             /\ worker'[w].blob = snap /\ worker'[w].stamp = worker[w].seen
    BY <2>3, PluginSorts
  <2> QED
    BY <2>1, <2>2, <2>3, PluginOf
<1> QED
  BY <1>1, <1>2 DEF cloudVars, agentVars, Applying

\* It survives every step.
LEMMA PluginStep == ASSUME IInv, Next PROVE PluginParts'
  BY OtherSteps, PluginStepAgent, PluginStepWorker

-----------------------------------------------------------------------------
(***************************************************************************)
(* The theorems.                                                           *)
(***************************************************************************)

\* Every step keeps the invariant.
LEMMA InvStep == IInv /\ [Next]_vars => IInv'
<1>1. ASSUME IInv, Next PROVE IInv'
  BY <1>1, TypeStep, ConfigStep, WhiteStep, PluginStep, LruStep
  DEF IInv, ConfigParts, WhiteParts, PluginParts
<1>2. ASSUME IInv, UNCHANGED vars PROVE IInv'
  BY <1>2 DEF IInv, vars, TypeOK, ConfigFlow, ConfigAtLeastAnnounced, WhiteFlow,
    WhiteAtLeastConfig, PluginFlow, SnapshotAtLeastAnnounced, LruBounded, FreshVerdicts, Applying
<1> QED
  BY <1>1, <1>2

\* IInv holds in every reachable state.
THEOREM Invariance == Spec => []IInv
  BY InitInv, InvStep, PTL DEF Spec

\* Every variable of the delivery keeps its type.
THEOREM TypesCorrect == Spec => []TypeOK
<1>1. IInv => TypeOK
  BY DEF IInv
<1> QED
  BY <1>1, Invariance, PTL

\* The LRU never holds a key twice and never outgrows lru.max_size, for any
\* sizes the configurations give it.
THEOREM LruStaysBounded == Spec => []LruBounded
<1>1. IInv => LruBounded
  BY DEF IInv
<1> QED
  BY <1>1, Invariance, PTL

\* A worker that is up to date with a time runs a configuration that new.
THEOREM ConfigIsAsAnnounced == Spec => []ConfigAtLeastAnnounced
<1>1. IInv => ConfigAtLeastAnnounced
  BY DEF IInv
<1> QED
  BY <1>1, Invariance, PTL

\* A worker that has stamped its snapshot runs a plugin that new.
THEOREM SnapshotIsAsAnnounced == Spec => []SnapshotAtLeastAnnounced
<1>1. IInv => SnapshotAtLeastAnnounced
  BY DEF IInv
<1> QED
  BY <1>1, Invariance, PTL

\* The white list of a request is not behind its configuration.
THEOREM WhiteListIsAhead == Spec => []WhiteAtLeastConfig
<1>1. IInv => WhiteAtLeastConfig
  BY DEF IInv
<1> QED
  BY <1>1, Invariance, PTL

\* No check is skipped on the word of an older plugin.
THEOREM VerdictsAreFresh == Spec => []FreshVerdicts
<1>1. IInv => FreshVerdicts
  BY DEF IInv
<1> QED
  BY <1>1, Invariance, PTL

\* One more time stamp is one more version.
LEMMA OneMore ==
  ASSUME NEW S, NEW c
  PROVE  [time : S \cup {c}] = [time : S] \cup {[time |-> c]}
<1>1. ASSUME NEW v \in [time : S \cup {c}] PROVE v \in [time : S] \cup {[time |-> c]}
  <2>1. v = [time |-> v.time] /\ v.time \in S \cup {c}
    OBVIOUS
  <2>2. CASE v.time \in S
    <3>1. [time |-> v.time] \in [time : S]
      BY <2>2
    <3> QED
      BY <2>1, <3>1
  <2>3. CASE v.time = c
    BY <2>1, <2>3
  <2> QED
    BY <2>1, <2>2, <2>3
<1>2. ASSUME NEW v \in [time : S] \cup {[time |-> c]} PROVE v \in [time : S \cup {c}]
  OBVIOUS
<1> QED
  BY <1>1, <1>2

\* A step of the system is, for each worker, a step of VersionedDelivery or
\* none.
LEMMA HeldStep ==
  ASSUME IInv, [Next]_vars, NEW v \in Worker
  PROVE  [Held(v)!Next]_<<config, worker[v].cfg>>
<1> DEFINE now1 == [time |-> worker[v].cfg]
           next1 == [time |-> worker'[v].cfg]
<1>1. TypeOK /\ TypeOK'
  BY InvStep DEF IInv
<1>2. config \in Configs /\ config' \in Configs /\ worker[v].cfg \in Configs
  BY <1>1 DEF TypeOK, WorkerState
<1>3. CASE UNCHANGED vars
  BY <1>3 DEF vars
<1>4. CASE PublishConfig
  <2>1. worker' = worker /\ config' = config + 1
    BY <1>4 DEF PublishConfig
  <2>2. [time : 0 .. config'] = [time : 0 .. config] \cup {[time |-> config']}
    <3>1. 0 .. config' = (0 .. config) \cup {config'}
      BY <1>2, <2>1 DEF Configs
    <3> QED
      BY <3>1, OneMore
  <2>3. [time |-> config'] \in [time : Configs]
    BY <1>2
  <2>4. Held(v)!Publish
    BY <2>1, <2>2, <2>3 DEF Held!Publish
  <2> QED
    BY <2>4 DEF Held!Next
<1>5. ASSUME NEW w \in Worker, WorkerStep(w)
      PROVE  [Held(v)!Next]_<<config, worker[v].cfg>>
  <2>1. UNCHANGED <<cloudVars, agentVars>> /\ \A u \in Worker \ {w} : worker'[u] = worker[u]
    BY <1>1, <1>5, WorkerLeaves, StepOf
  <2>2. config' = config
    BY <2>1 DEF cloudVars
  <2>3. CASE worker'[v].cfg = worker[v].cfg
    BY <2>2, <2>3
  <2>4. CASE worker'[v].cfg # worker[v].cfg
    <3>1. w = v
      BY <2>1, <2>4
    <3>2. CASE worker'[v] = NewWorker
      <4>1. Held(v)!Restart
        BY <2>2, <3>2 DEF Held!Restart, NewWorker
      <4> QED
        BY <4>1 DEF Held!Next
    <3>3. CASE cloud \notin {None, Torn} /\ worker'[v].cfg = cloud
      <4>1. cloud \in 0 .. config /\ worker[v].cfg <= cloud
        BY <1>1, <1>2, <3>3 DEF IInv, TypeOK, ConfigFlow, Configs
      <4>2. next1 \in [time : 0 .. config] /\ next1.time >= now1.time
        BY <1>2, <3>3, <4>1 DEF Configs
      <4>3. Held(v)!Deliver
        BY <2>2, <4>2 DEF Held!Deliver
      <4> QED
        BY <4>3 DEF Held!Next
    <3> QED
      BY <1>5, <2>4, <3>1, <3>2, <3>3, ConfigOf
  <2> QED
    BY <2>3, <2>4
<1>6. CASE PublishPlugin \/ Tick \/ AgentStep \/ BeatUnknown \/ Register \/ Crash \/ OtherDies
  <2>1. worker' = worker /\ config' = config
    BY <1>6 DEF PublishPlugin, Tick, AgentStep, BeatUnknown, Register, Crash, OtherDies,
      cloudVars, agentVars, Beat, Unregister, BeginSave, NoPlugin, EndSave, SetAction, SetMd5,
      SetVersion, SetShared, NoConfig, SetIntervals, OpenCloud, WriteCloud, SetTime
  <2> QED
    BY <2>1
<1> QED
  BY <1>3, <1>4, <1>5, <1>6, NextSteps

\* PhpDelivery implements VersionedDelivery for every worker: it holds a
\* published configuration or its default, and only moves to newer ones.
THEOREM WorkersImplementDelivery == Spec => Delivered
<1>1. Init => \A w \in Worker : Held(w)!Init
  <2> SUFFICES ASSUME Init, NEW w \in Worker PROVE Held(w)!Init
    OBVIOUS
  <2>1. [time : 0 .. config] \in SUBSET [time : Configs]
    BY Sorts DEF Init, None, Configs
  <2>2. [time |-> worker[w].cfg] = [time |-> None]
    BY DEF Init, NewWorker
  <2> QED
    BY <2>1, <2>2 DEF Held!Init
<1>2. IInv /\ [Next]_vars =>
        [\A w \in Worker : [Held(w)!Next]_<<config, worker[w].cfg>>]_vars
  BY HeldStep
<1> QED
  BY <1>1, <1>2, Invariance, PTL DEF Spec, Delivered

=============================================================================
