-------------------------- MODULE PluginStore_proofs --------------------------
(***************************************************************************)
(* Proofs about PluginStore, for any number of requests and uploads and    *)
(* any value of MaxPlugins.                                                *)
(*                                                                         *)
(* Two facts carry them.  Every selection leaves its mark on the removals  *)
(* that have already searched for a user of their plugin (KnowsMove).  And *)
(* a plugin that is being uploaded has a number nobody else holds          *)
(* (FreshUploads), so that an insertion can never bring back a plugin that *)
(* is selected and missing.                                                *)
(***************************************************************************)
EXTENDS PluginStore, FiniteSetTheorems, WellFoundedInduction, TLAPS

\* The next number is a plugin's number, and greater than all before.
LEMMA NextPlugin ==
  ASSUME next \in PluginId, next < MaxUpload, next' = next + 1
  PROVE  /\ next' \in PluginId /\ next < next'
         /\ \A p \in PluginId \cup {NoPlugin} : p <= next => p <= next' /\ p # next'
  BY ConstantsAssumption DEF PluginId, NoPlugin

\* An application starts with one plugin, selected, and no request.
LEMMA InitInv == Init => IInv
<1> SUFFICES ASSUME Init PROVE IInv
  OBVIOUS
<1> USE ConstantsAssumption DEF Init, NoPlugin, PluginId
<1>1. TypeOK
  BY DEF TypeOK, Label
<1>2. KnowsMove /\ NotAhead /\ FreshUploads
  BY DEF KnowsMove, NotAhead, FreshUploads, Uploading
<1> QED
  BY <1>1, <1>2 DEF IInv

\* The end of a request resets its local variables and nothing else.
LEMMA Returned ==
  ASSUME TypeOK, NEW r \in Request, Return(r)
  PROVE  /\ pc' \in [Request -> Label]
         /\ arg' \in [Request -> PluginId \cup {NoPlugin}]
         /\ todo' \in [Request -> SUBSET PluginId]
         /\ old' \in [Request -> PluginId \cup {NoPlugin}]
         /\ moved' \in [Request -> BOOLEAN]
         /\ pc'[r] = "idle" /\ arg'[r] = NoPlugin /\ old'[r] = NoPlugin
         /\ \A q \in Request \ {r} :
              /\ pc'[q] = pc[q] /\ arg'[q] = arg[q] /\ todo'[q] = todo[q]
              /\ old'[q] = old[q] /\ moved'[q] = moved[q]
  BY DEF TypeOK, Return, Goto, Label

\* Every step keeps the variables in their types and the mutex with its holder.
LEMMA TypeStep == ASSUME IInv, Next PROVE TypeOK'
<1> USE ConstantsAssumption DEF IInv, TypeOK, Label, Goto, localVars, vars
<1>1. ASSUME NEW r \in Request, Generate(r) PROVE TypeOK'
  <2>1. next' \in PluginId
    BY <1>1, NextPlugin, Zenon DEF Generate
  <2>2. arg' \in [Request -> PluginId \cup {NoPlugin}]
    BY <1>1, <2>1 DEF Generate
  <2>3. \A q \in Request : pc'[q] \in {"prune", "remove"} <=> mutex' = q
    BY <1>1 DEF Generate
  <2>4. pc' \in [Request -> Label]
    BY <1>1 DEF Generate
  <2> QED
    BY <1>1, <2>1, <2>2, <2>3, <2>4 DEF Generate
<1>2. ASSUME NEW r \in Request, LockAndList(r) PROVE TypeOK'
  <2>1. todo' \in [Request -> SUBSET PluginId]
    BY <1>2 DEF LockAndList
  <2>2. pc' \in [Request -> Label]
    BY <1>2 DEF LockAndList
  <2>3. \A q \in Request : pc[q] \notin {"prune", "remove"}
    BY <1>2 DEF LockAndList
  <2>4. \A q \in Request : pc'[q] \in {"prune", "remove"} <=> mutex' = q
    BY <1>2, <2>3 DEF LockAndList
  <2> QED
    BY <1>2, <2>1, <2>2, <2>4 DEF LockAndList
<1>3. ASSUME NEW r \in Request, FindUser(r) PROVE TypeOK'
  <2>1. todo' \in [Request -> SUBSET PluginId]
    BY <1>3 DEF FindUser
  <2>2. moved' \in [Request -> BOOLEAN] /\ pc' \in [Request -> Label]
    BY <1>3 DEF FindUser
  <2>3. \A q \in Request : pc'[q] \in {"prune", "remove"} <=> mutex' = q
    BY <1>3 DEF FindUser
  <2> QED
    BY <1>3, <2>1, <2>2, <2>3 DEF FindUser
<1>4. ASSUME NEW r \in Request, RemoveOld(r) PROVE TypeOK'
  <2>1. todo' \in [Request -> SUBSET PluginId]
    BY <1>4 DEF RemoveOld
  <2>2. \A q \in Request : pc'[q] \in {"prune", "remove"} <=> mutex' = q
    BY <1>4 DEF RemoveOld
  <2>3. pc' \in [Request -> Label]
    BY <1>4 DEF RemoveOld
  <2> QED
    BY <1>4, <2>1, <2>2, <2>3 DEF RemoveOld
<1>5. ASSUME NEW r \in Request, Insert(r) PROVE TypeOK'
  <2>1. arg[r] \in PluginId /\ mutex = r
    BY <1>5 DEF Insert, FreshUploads, Uploading
  <2>2. \A q \in Request : pc'[q] \in {"prune", "remove"} <=> mutex' = q
    BY <1>5, <2>1, Returned DEF Insert
  <2> QED
    BY <1>5, <2>1, <2>2, Returned DEF Insert
<1>6. ASSUME NEW r \in Request, Fails(r) PROVE TypeOK'
  <2>1. \A q \in Request : pc'[q] \in {"prune", "remove"} <=> mutex' = q
    BY <1>6, Returned DEF Fails
  <2> QED
    BY <1>6, <2>1, Returned DEF Fails
<1>7. ASSUME NEW r \in Request, NEW p \in PluginId, BeginDelete(r, p) \/ BeginSelect(r, p)
      PROVE TypeOK'
  BY <1>7 DEF BeginDelete, BeginSelect
<1>8. ASSUME NEW r \in Request, NEW p \in PluginId, RefuseMissing(r, p) PROVE TypeOK'
  BY <1>8 DEF RefuseMissing
<1>9. ASSUME NEW r \in Request, RefuseDelete(r) PROVE TypeOK'
  BY <1>9, Returned DEF RefuseDelete
<1>10. ASSUME NEW r \in Request, CheckUnused(r) PROVE TypeOK'
  BY <1>10 DEF CheckUnused
<1>11. ASSUME NEW r \in Request, DeletePlugin(r) PROVE TypeOK'
  BY <1>11, Returned DEF DeletePlugin
<1>12. ASSUME NEW r \in Request, ReadApp(r) PROVE TypeOK'
  BY <1>12 DEF ReadApp
<1>13. ASSUME NEW r \in Request, ReadOld(r) PROVE TypeOK'
  BY <1>13, Returned DEF ReadOld
<1>14. ASSUME NEW r \in Request, ReadNew(r) PROVE TypeOK'
  BY <1>14, Returned DEF ReadNew
<1>15. ASSUME NEW r \in Request, WriteMerged(r) PROVE TypeOK'
  BY <1>15, Returned DEF WriteMerged
<1>16. ASSUME NEW r \in Request, UpdateApp(r) PROVE TypeOK'
  BY <1>16 DEF UpdateApp
<1>17. CASE Restart
  BY <1>17 DEF Restart
<1> QED
  BY <1>1, <1>2, <1>3, <1>4, <1>5, <1>6, <1>7, <1>8, <1>9, <1>10, <1>11, <1>12,
     <1>13, <1>14, <1>15, <1>16, <1>17 DEF Next, UploadStep, DeleteStep, SelectStep

\* A removal that has searched for a user knows of every later selection.
LEMMA KnowsMoveStep == ASSUME IInv, Next PROVE KnowsMove'
<1> USE ConstantsAssumption DEF IInv, TypeOK, KnowsMove, Goto, localVars, vars
<1>1. ASSUME NEW r \in Request, Generate(r) PROVE KnowsMove'
  BY <1>1 DEF Generate
<1>2. ASSUME NEW r \in Request, LockAndList(r) PROVE KnowsMove'
  BY <1>2 DEF LockAndList
<1>3. ASSUME NEW r \in Request, FindUser(r) PROVE KnowsMove'
  BY <1>3 DEF FindUser
<1>4. ASSUME NEW r \in Request, RemoveOld(r) PROVE KnowsMove'
  BY <1>4 DEF RemoveOld
<1>5. ASSUME NEW r \in Request, Return(r), UNCHANGED selected PROVE KnowsMove'
  BY <1>5, Returned
<1>6. ASSUME NEW r \in Request, NEW p \in PluginId, BeginDelete(r, p) \/ BeginSelect(r, p)
      PROVE KnowsMove'
  BY <1>6 DEF BeginDelete, BeginSelect
<1>7. ASSUME NEW r \in Request, NEW p \in PluginId, RefuseMissing(r, p) PROVE KnowsMove'
  BY <1>7 DEF RefuseMissing
<1>8. ASSUME NEW r \in Request, CheckUnused(r) PROVE KnowsMove'
  BY <1>8 DEF CheckUnused
<1>9. ASSUME NEW r \in Request, ReadApp(r) PROVE KnowsMove'
  BY <1>9 DEF ReadApp
<1>10. ASSUME NEW r \in Request, ReadOld(r) \/ ReadNew(r) \/ WriteMerged(r) PROVE KnowsMove'
  <2>1. CASE Return(r)
    BY <1>5, <1>10, <2>1 DEF ReadOld, ReadNew, WriteMerged
  <2>2. CASE ~Return(r)
    BY <1>10, <2>2 DEF ReadOld, ReadNew, WriteMerged
  <2> QED
    BY <2>1, <2>2
<1>11. ASSUME NEW r \in Request, UpdateApp(r) PROVE KnowsMove'
  BY <1>11 DEF UpdateApp
<1>12. CASE Restart
  BY <1>12 DEF Restart
<1>13. ASSUME NEW r \in Request,
              Insert(r) \/ Fails(r) \/ RefuseDelete(r) \/ DeletePlugin(r)
       PROVE KnowsMove'
  BY <1>5, <1>13 DEF Insert, Fails, RefuseDelete, DeletePlugin
<1> QED
  BY <1>1, <1>2, <1>3, <1>4, <1>6, <1>7, <1>8, <1>9, <1>10, <1>11, <1>12, <1>13
     DEF Next, UploadStep, DeleteStep, SelectStep

\* No request and no stored plugin has a number of the future, and an
\* upload's number is its own.
LEMMA FreshStep == ASSUME IInv, Next PROVE NotAhead' /\ FreshUploads'
<1> USE ConstantsAssumption DEF IInv, TypeOK, NotAhead, FreshUploads, Uploading,
        Goto, localVars, vars
<1>1. ASSUME NEW r \in Request, Generate(r) PROVE NotAhead' /\ FreshUploads'
  <2>1. /\ next' \in PluginId /\ next < next'
        /\ \A p \in PluginId \cup {NoPlugin} : p <= next => p <= next' /\ p # next'
    BY <1>1, NextPlugin, Zenon DEF Generate
  <2>2. arg' = [arg EXCEPT ![r] = next'] /\ old' = old /\ store' = store
        /\ selected' = selected /\ pc' = [pc EXCEPT ![r] = "upload"]
    BY <1>1 DEF Generate
  <2>3. next' <= next'
    BY <2>1 DEF PluginId
  <2>4. NotAhead'
    BY <2>1, <2>2, <2>3
  <2>5. FreshUploads'
    BY <2>1, <2>2
  <2> QED
    BY <2>4, <2>5
<1>2. ASSUME NEW r \in Request, LockAndList(r) PROVE NotAhead' /\ FreshUploads'
  BY <1>2 DEF LockAndList
<1>3. ASSUME NEW r \in Request, FindUser(r) PROVE NotAhead' /\ FreshUploads'
  BY <1>3 DEF FindUser
<1>4. ASSUME NEW r \in Request, RemoveOld(r) PROVE NotAhead' /\ FreshUploads'
  BY <1>4 DEF RemoveOld
<1>5. ASSUME NEW r \in Request, Return(r), store' \subseteq store \cup {arg[r]},
             \A q \in Request : Uploading(q) /\ q # r => arg[q] # arg[r],
             UNCHANGED <<selected, next>>
      PROVE NotAhead' /\ FreshUploads'
  <2>1. NotAhead'
    BY <1>5, Returned DEF NoPlugin, PluginId
  <2>2. FreshUploads'
    BY <1>5, Returned DEF NoPlugin, PluginId
  <2> QED
    BY <2>1, <2>2
<1>6. ASSUME NEW r \in Request, NEW p \in PluginId, BeginDelete(r, p) \/ BeginSelect(r, p)
      PROVE NotAhead' /\ FreshUploads'
  BY <1>6 DEF BeginDelete, BeginSelect
<1>7. ASSUME NEW r \in Request, NEW p \in PluginId, RefuseMissing(r, p)
      PROVE NotAhead' /\ FreshUploads'
  BY <1>7 DEF RefuseMissing
<1>8. ASSUME NEW r \in Request, CheckUnused(r) PROVE NotAhead' /\ FreshUploads'
  BY <1>8 DEF CheckUnused
<1>9. ASSUME NEW r \in Request, ReadApp(r) PROVE NotAhead' /\ FreshUploads'
  BY <1>9 DEF ReadApp
<1>10. ASSUME NEW r \in Request, ReadOld(r) \/ ReadNew(r) \/ WriteMerged(r)
       PROVE NotAhead' /\ FreshUploads'
  <2>1. CASE Return(r)
    BY <1>5, <1>10, <2>1 DEF ReadOld, ReadNew, WriteMerged
  <2>2. CASE ~Return(r)
    BY <1>10, <2>2 DEF ReadOld, ReadNew, WriteMerged
  <2> QED
    BY <2>1, <2>2
<1>11. ASSUME NEW r \in Request, UpdateApp(r) PROVE NotAhead' /\ FreshUploads'
  BY <1>11 DEF UpdateApp, NoPlugin, PluginId
<1>12. CASE Restart
  BY <1>12 DEF Restart, NoPlugin, PluginId
<1>13. ASSUME NEW r \in Request,
              Insert(r) \/ Fails(r) \/ RefuseDelete(r) \/ DeletePlugin(r)
       PROVE NotAhead' /\ FreshUploads'
  BY <1>5, <1>13 DEF Insert, Fails, RefuseDelete, DeletePlugin
<1> QED
  BY <1>1, <1>2, <1>3, <1>4, <1>6, <1>7, <1>8, <1>9, <1>10, <1>11, <1>12, <1>13
     DEF Next, UploadStep, DeleteStep, SelectStep

\* The invariant is inductive.
LEMMA StepInv == IInv /\ [Next]_vars => IInv'
<1> SUFFICES ASSUME IInv, [Next]_vars PROVE IInv'
  OBVIOUS
<1>1. CASE Next
  BY <1>1, TypeStep, KnowsMoveStep, FreshStep DEF IInv
<1>2. CASE UNCHANGED vars
  BY <1>2 DEF vars, localVars, IInv, TypeOK, KnowsMove, NotAhead, FreshUploads,
              Uploading
<1> QED
  BY <1>1, <1>2

\* Every reachable state satisfies the inductive invariant.
THEOREM Invariance == Spec => []IInv
  BY InitInv, StepInv, PTL DEF Spec

\* The variables stay in their types, and the mutex of models/plugin.go is held
\* exactly by the request inside addPluginToDb.
THEOREM TypeCorrect == Spec => []TypeOK
<1>1. IInv => TypeOK
  BY DEF IInv
<1> QED
  BY <1>1, Invariance, PTL

\* Neither a pruning upload nor a deletion removes the selected plugin, unless
\* it was selected after the search for a user of it.
THEOREM RemovesOnlyUnusedHolds == Spec => RemovesOnlyUnused
<1> DEFINE Step == selected \in store \ store' =>
                     \E r \in Request : pc[r] \in {"remove", "delete"} /\ moved[r]
<1>1. ASSUME IInv, [Next]_vars, selected \in store \ store'
      PROVE \E r \in Request : pc[r] \in {"remove", "delete"} /\ moved[r]
  <2>1. PICK r \in Request : RemoveOld(r) \/ DeletePlugin(r)
    BY <1>1 DEF Next, UploadStep, DeleteStep, SelectStep, vars, Generate,
       LockAndList, FindUser, Insert, Fails, BeginDelete, RefuseMissing,
       RefuseDelete, CheckUnused, BeginSelect, ReadApp, ReadOld, ReadNew,
       WriteMerged, UpdateApp, Restart
  <2>2. CASE RemoveOld(r)
    BY <1>1, <2>2 DEF RemoveOld, IInv, KnowsMove
  <2>3. CASE DeletePlugin(r)
    BY <1>1, <2>3 DEF DeletePlugin, IInv, KnowsMove
  <2> QED
    BY <2>1, <2>2, <2>3
<1>2. IInv /\ [Next]_vars => [Step]_vars
  BY <1>1
<1> QED
  BY <1>2, Invariance, PTL DEF Spec, RemovesOnlyUnused

\* An application whose selected plugin is gone, and no selection on its way,
\* stays so: every selection fails on the plugin it would replace, and no
\* upload can bring that plugin back.
THEOREM WedgedStaysHolds == Spec => WedgedStays
<1>1. ASSUME IInv, [Next]_vars, Wedged PROVE Wedged'
  <2> USE <1>1, ConstantsAssumption
      DEF Wedged, Dangling, NoSelectionPassed, IInv, TypeOK, Goto
  <2>1. ASSUME NEW r \in Request, Insert(r) PROVE Wedged'
    <3>1. /\ store' = store \cup {arg[r]} /\ selected' = selected
          /\ pc'[r] = "idle"
          /\ \A q \in Request \ {r} : pc'[q] = pc[q] /\ old'[q] = old[q]
      BY <2>1, Returned DEF Insert
    <3>2. arg[r] # selected /\ \A q \in Request : old[q] # arg[r]
      BY <2>1 DEF Insert, FreshUploads, Uploading
    <3>3. NoSelectionPassed'
      BY <3>1, <3>2
    <3> QED
      BY <3>1, <3>2, <3>3
  <2>2. ASSUME NEW r \in Request, ReadApp(r) PROVE Wedged'
    BY <2>2 DEF ReadApp
  <2>3. ASSUME NEW r \in Request, ReadOld(r) PROVE Wedged'
    BY <2>3, Returned DEF ReadOld
  <2>4. ASSUME NEW r \in Request,
               ReadNew(r) \/ WriteMerged(r) \/ UpdateApp(r) PROVE Wedged'
    BY <2>4 DEF ReadNew, WriteMerged, UpdateApp
  <2>5. ASSUME NEW r \in Request, Fails(r) \/ RefuseDelete(r) \/ DeletePlugin(r)
        PROVE Wedged'
    BY <2>5, Returned DEF Fails, RefuseDelete, DeletePlugin
  <2>6. ASSUME NEW r \in Request,
               Generate(r) \/ LockAndList(r) \/ FindUser(r) \/ RemoveOld(r)
        PROVE Wedged'
    BY <2>6 DEF Generate, LockAndList, FindUser, RemoveOld
  <2>7. ASSUME NEW r \in Request, NEW p \in PluginId,
               BeginDelete(r, p) \/ BeginSelect(r, p) \/ RefuseMissing(r, p)
        PROVE Wedged'
    BY <2>7 DEF BeginDelete, BeginSelect, RefuseMissing, vars, localVars
  <2>8. ASSUME NEW r \in Request, CheckUnused(r) PROVE Wedged'
    BY <2>8 DEF CheckUnused
  <2>9. CASE Restart
    BY <2>9 DEF Restart
  <2>10. CASE UNCHANGED vars
    BY <2>10 DEF vars, localVars
  <2> QED
    BY <2>1, <2>2, <2>3, <2>4, <2>5, <2>6, <2>7, <2>8, <2>9, <2>10
       DEF Next, UploadStep, DeleteStep, SelectStep
<1>2. IInv /\ [Next]_vars => [Wedged => Wedged']_vars
  BY <1>1
<1> QED
  BY <1>2, Invariance, PTL DEF Spec, WedgedStays

-------------------------------------------------------------------------------
(***************************************************************************)
(* Pruning                                                                 *)
(***************************************************************************)

\* Every plugin an upload has listed for pruning is stored, and at least
\* MaxPlugins - 1 newer ones are.
StillOld(r) ==
  /\ todo[r] \subseteq store
  /\ pc[r] = "remove" => todo[r] # {}
  /\ \A p \in todo[r] : Cardinality({q \in store : q > p}) >= MaxPlugins - 1

OldStaysOld == \A r \in Request : pc[r] \in {"prune", "remove"} => StillOld(r)

\* A set of plugins that is not empty has a newest one.
LEMMA NewestPlugin ==
  ASSUME NEW S \in SUBSET PluginId, S # {}
  PROVE  Max(S) \in S /\ \A p \in S : p <= Max(S)
<1> DEFINE Rest == {MaxUpload - p : p \in S}
<1>1. Rest \subseteq Nat /\ Rest # {}
  <2>1. \A p \in S : MaxUpload - p \in Nat
    BY ConstantsAssumption DEF PluginId
  <2>2. PICK p \in S : TRUE
    OBVIOUS
  <2>3. MaxUpload - p \in Rest
    OBVIOUS
  <2> QED
    BY <2>1, <2>3
<1>2. PICK t \in Rest : \A u \in Rest : ~ u < t
  <2> HIDE DEF Rest
  <2>1. PICK t \in Rest : \A u \in Rest : <<u, t>> \notin OpToRel(<, Nat)
    BY <1>1, NatLessThanWellFounded, WFMin, Zenon
  <2>2. \A u \in Rest : <<u, t>> \in OpToRel(<, Nat) <=> u < t
    BY <1>1 DEF OpToRel
  <2> QED
    BY <2>1, <2>2
<1>3. \E p \in S : \A q \in S : p >= q
  <2>1. PICK p \in S : t = MaxUpload - p
    OBVIOUS
  <2>2. \A q \in S : ~ (MaxUpload - q < MaxUpload - p)
    BY <1>2, <2>1
  <2> QED
    BY <2>2, ConstantsAssumption DEF PluginId
<1>4. \A q \in S : Max(S) \in S /\ Max(S) >= q
  BY <1>3 DEF Max
<1> QED
  BY <1>4 DEF PluginId

\* More plugins are newer than an older one, in a larger store.
LEMMA MoreNewer ==
  ASSUME NEW S \in SUBSET PluginId, NEW T \in SUBSET S
  PROVE  Cardinality(T) \in Nat /\ Cardinality(S) \in Nat /\ Cardinality(T) <= Cardinality(S)
<1>1. IsFiniteSet(PluginId)
  BY ConstantsAssumption, FS_Interval DEF PluginId
<1>2. IsFiniteSet(S) /\ IsFiniteSet(T)
  BY <1>1, FS_Subset
<1> QED
  BY <1>2, FS_CardinalityType, FS_Subset

\* The mutex keeps the store as it was listed: whoever removes a listed plugin
\* is the upload itself, which takes the newest first, so those that are left
\* still have all the plugins before them that made the newest one old.
LEMMA OldStep == ASSUME IInv, OldStaysOld, Next PROVE OldStaysOld'
<1> USE ConstantsAssumption DEF IInv, TypeOK, OldStaysOld, StillOld
<1>1. ASSUME NEW r \in Request, LockAndList(r) PROVE OldStaysOld'
  <2>1. /\ store' = store /\ pc' = [pc EXCEPT ![r] = "prune"]
        /\ todo' = [todo EXCEPT ![r] = store \ Newest(MaxPlugins - 1)]
        /\ \A q \in Request : pc[q] \notin {"prune", "remove"}
    BY <1>1 DEF LockAndList, Goto
  <2>2. \A p \in PluginId : Cardinality({q \in store : q > p}) \in Nat
    BY MoreNewer
  <2>3. \A p \in todo'[r] : Cardinality({q \in store : q > p}) >= MaxPlugins - 1
    BY <2>1, <2>2 DEF Newest
  <2> QED
    BY <2>1, <2>3
<1>2. ASSUME NEW r \in Request, FindUser(r) PROVE OldStaysOld'
  BY <1>2 DEF FindUser, Goto
<1>3. ASSUME NEW r \in Request, RemoveOld(r) PROVE OldStaysOld'
  <2> DEFINE m == Max(todo[r])
  <2>1. /\ todo[r] \in SUBSET PluginId /\ todo[r] # {} /\ StillOld(r)
        /\ store' = store \ {m} /\ todo' = [todo EXCEPT ![r] = todo[r] \ {m}]
        /\ pc' = [pc EXCEPT ![r] = "prune"]
        /\ \A q \in Request \ {r} : pc[q] \notin {"prune", "remove"}
    BY <1>3 DEF RemoveOld, Goto
  <2>2. m \in todo[r] /\ \A p \in todo[r] : p <= m
    BY <2>1, NewestPlugin
  <2>3. ASSUME NEW p \in todo'[r]
        PROVE  Cardinality({q \in store' : q > p}) >= MaxPlugins - 1
    <3> DEFINE S == {q \in store' : q > p}
    <3> DEFINE T == {q \in store : q > m}
    <3>1. p < m
      BY <2>1, <2>2 DEF PluginId
    <3>2. T \in SUBSET S /\ S \in SUBSET PluginId
      <4>1. m \in PluginId /\ p \in PluginId
        BY <2>1, <2>2
      <4>2. \A q \in store : q > m => q > p /\ q # m
        BY <3>1, <4>1 DEF PluginId
      <4>3. store' \subseteq PluginId
        BY <2>1
      <4> QED
        BY <2>1, <4>2, <4>3
    <3>3. Cardinality(T) >= MaxPlugins - 1
      BY <2>1, <2>2
    <3> HIDE DEF S, T
    <3>4. Cardinality(T) \in Nat /\ Cardinality(S) \in Nat /\ Cardinality(T) <= Cardinality(S)
      BY <3>2, MoreNewer
    <3>5. Cardinality(S) >= MaxPlugins - 1
      BY <3>3, <3>4
    <3> QED
      BY <3>5 DEF S
  <2> QED
    BY <2>1, <2>3
<1>4. ASSUME NEW r \in Request, Insert(r) \/ DeletePlugin(r) PROVE OldStaysOld'
  <2>1. \A q \in Request \ {r} : pc[q] \notin {"prune", "remove"}
    BY <1>4 DEF Insert, DeletePlugin
  <2> QED
    BY <1>4, <2>1, Returned DEF Insert, DeletePlugin
<1>5. ASSUME UNCHANGED store,
             \A q \in Request : \/ pc'[q] \notin {"prune", "remove"}
                                \/ pc'[q] = pc[q] /\ todo'[q] = todo[q]
      PROVE  OldStaysOld'
  BY <1>5
<1>6. ASSUME NEW r \in Request, Return(r), UNCHANGED store PROVE OldStaysOld'
  BY <1>5, <1>6, Returned
<1>7. ASSUME NEW r \in Request, NEW p \in PluginId,
             BeginDelete(r, p) \/ BeginSelect(r, p) \/ RefuseMissing(r, p)
      PROVE  OldStaysOld'
  BY <1>5, <1>7 DEF BeginDelete, BeginSelect, RefuseMissing, Goto, vars, localVars
<1>8. ASSUME NEW r \in Request, Generate(r) \/ CheckUnused(r) \/ ReadApp(r) \/ UpdateApp(r)
      PROVE  OldStaysOld'
  BY <1>5, <1>8 DEF Generate, CheckUnused, ReadApp, UpdateApp, Goto
<1>9. ASSUME NEW r \in Request, ReadOld(r) \/ ReadNew(r) \/ WriteMerged(r)
      PROVE  OldStaysOld'
  <2>1. CASE Return(r)
    BY <1>6, <1>9, <2>1 DEF ReadOld, ReadNew, WriteMerged
  <2>2. CASE ~Return(r)
    BY <1>5, <1>9, <2>2 DEF ReadOld, ReadNew, WriteMerged, Goto
  <2> QED
    BY <2>1, <2>2
<1>10. ASSUME NEW r \in Request, Fails(r) \/ RefuseDelete(r) PROVE OldStaysOld'
  BY <1>6, <1>10 DEF Fails, RefuseDelete
<1>11. CASE Restart
  BY <1>5, <1>11 DEF Restart
<1> QED
  BY <1>1, <1>2, <1>3, <1>4, <1>7, <1>8, <1>9, <1>10, <1>11
     DEF Next, UploadStep, DeleteStep, SelectStep

\* Whatever is deleted, selected or uploaded meanwhile, an upload never prunes
\* one of the MaxPlugins - 1 newest plugins.
THEOREM PrunesOnlyOldHolds == Spec => []PrunesOnlyOld
<1>1. Init => OldStaysOld
  BY DEF Init, OldStaysOld
<1>2. IInv /\ OldStaysOld /\ [Next]_vars => OldStaysOld'
  <2>1. ASSUME OldStaysOld, UNCHANGED vars PROVE OldStaysOld'
    BY <2>1 DEF OldStaysOld, StillOld, vars, localVars
  <2> QED
    BY <2>1, OldStep
<1>3. IInv /\ OldStaysOld => PrunesOnlyOld
  <2> SUFFICES ASSUME IInv, OldStaysOld, NEW r \in Request, pc[r] = "remove"
               PROVE  /\ Max(todo[r]) \in store
                      /\ Max(todo[r]) \notin Newest(MaxPlugins - 1)
    BY DEF PrunesOnlyOld
  <2>1. StillOld(r) /\ todo[r] \in SUBSET PluginId /\ store \in SUBSET PluginId
    BY DEF OldStaysOld, IInv, TypeOK
  <2>2. Max(todo[r]) \in todo[r]
    BY <2>1, NewestPlugin DEF StillOld
  <2>3. Cardinality({q \in store : q > Max(todo[r])}) \in Nat
    BY <2>1, MoreNewer
  <2> QED
    BY <2>1, <2>2, <2>3, ConstantsAssumption DEF StillOld, Newest
<1> QED
  BY <1>1, <1>2, <1>3, Invariance, PTL DEF Spec

===============================================================================
