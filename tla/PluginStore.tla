------------------------------ MODULE PluginStore ------------------------------
(***************************************************************************)
(* The plugins of one application in the management backend                *)
(* (models/plugin.go, controllers/api/plugin.go).                          *)
(*                                                                         *)
(* Console requests upload a plugin (which prunes the oldest ones to keep  *)
(* about MaxPlugins), delete one, or select the one that the heartbeat     *)
(* handler sends to the agents.  Insertion and removal run under a mutex;  *)
(* the checks before a removal and the whole selection do not.  Every      *)
(* database operation is a step of its own.                                *)
(*                                                                         *)
(* Plugins are numbered by their upload time, which generatePlugin takes   *)
(* before the mutex.  Their content and algorithm configuration are left   *)
(* out; MergeAlgorithmPlugin is kept for the reads that can fail.          *)
(***************************************************************************)
EXTENDS Naturals, FiniteSets, FiniteSetsExt

CONSTANTS
  Request,     \* console requests that may be in progress together
  NoRequest,   \* nobody holds the mutex
  MaxPlugins,  \* conf.AppConfig.MaxPlugins
  MaxUpload    \* bound: number of uploads

ASSUME ConstantsAssumption ==
  /\ NoRequest \notin Request
  /\ MaxPlugins \in Nat \ {0}
  /\ MaxUpload \in Nat \ {0}

NoPlugin == 0
PluginId == 1..MaxUpload

VARIABLES
  store,     \* the plugin collection
  selected,  \* selected_plugin_id of the application
  next,      \* the last upload time taken
  mutex,     \* the holder of the mutex of models/plugin.go
  pc,        \* pc[r]: where request r stands
  arg,       \* arg[r]: the plugin it uploads, deletes or selects
  todo,      \* todo[r]: oldPlugins an upload has still to look at
  old,       \* old[r]: oldPluginId of a selection
  moved      \* moved[r]: history, another selection was made since r's check

localVars == <<pc, arg, todo, old, moved>>
vars == <<store, selected, next, mutex, localVars>>

\* An application is created with the default plugin selected.
Init ==
  /\ store = {1}
  /\ selected = 1
  /\ next = 1
  /\ mutex = NoRequest
  /\ pc = [r \in Request |-> "idle"]
  /\ arg = [r \in Request |-> NoPlugin]
  /\ todo = [r \in Request |-> {}]
  /\ old = [r \in Request |-> NoPlugin]
  /\ moved = [r \in Request |-> FALSE]

Goto(r, label) == pc' = [pc EXCEPT ![r] = label]

\* The request is answered, with success or with an error.
Return(r) ==
  /\ Goto(r, "idle")
  /\ arg' = [arg EXCEPT ![r] = NoPlugin]
  /\ todo' = [todo EXCEPT ![r] = {}]
  /\ old' = [old EXCEPT ![r] = NoPlugin]
  /\ moved' = [moved EXCEPT ![r] = FALSE]

(***************************************************************************)
(* AddPlugin: generatePlugin, then addPluginToDb under the mutex           *)
(***************************************************************************)

Newest(n) == {p \in store : Cardinality({q \in store : q > p}) < n}

Generate(r) ==
  /\ pc[r] = "idle"
  /\ next < MaxUpload
  /\ next' = next + 1
  /\ arg' = [arg EXCEPT ![r] = next']
  /\ Goto(r, "upload")
  /\ UNCHANGED <<store, selected, mutex, todo, old, moved>>

\* Mutant of LockAndList: the pruning does not wait for the mutex.
ListWithoutLock(r) ==
  /\ pc[r] = "upload"
  /\ todo' = [todo EXCEPT ![r] = store \ Newest(MaxPlugins - 1)]
  /\ Goto(r, "prune")
  /\ UNCHANGED <<store, selected, next, mutex, arg, old, moved>>

\* GetPluginsByApp skips the MaxPlugins - 1 newest plugins.
LockAndList(r) ==
  /\ pc[r] = "upload"
  /\ mutex = NoRequest
  /\ mutex' = r
  /\ todo' = [todo EXCEPT ![r] = store \ Newest(MaxPlugins - 1)]
  /\ Goto(r, "prune")
  /\ UNCHANGED <<store, selected, next, arg, old, moved>>

\* Mutant of FindUser: the plugin in use is not spared.
FindNoUser(r) ==
  /\ pc[r] = "prune"
  /\ todo[r] # {}
  /\ Goto(r, "remove")
  /\ moved' = [moved EXCEPT ![r] = FALSE]
  /\ UNCHANGED <<store, selected, next, mutex, arg, todo, old>>

\* The application collection is searched for one that uses the plugin.
FindUser(r) ==
  /\ pc[r] = "prune"
  /\ todo[r] # {}
  /\ IF selected = Max(todo[r])
       THEN /\ todo' = [todo EXCEPT ![r] = @ \ {Max(@)}]
            /\ UNCHANGED <<pc, moved>>
       ELSE /\ Goto(r, "remove")
            /\ moved' = [moved EXCEPT ![r] = FALSE]
            /\ UNCHANGED todo
  /\ UNCHANGED <<store, selected, next, mutex, arg, old>>

RemoveOld(r) ==
  /\ pc[r] = "remove"
  /\ store' = store \ {Max(todo[r])}
  /\ todo' = [todo EXCEPT ![r] = @ \ {Max(@)}]
  /\ Goto(r, "prune")
  /\ UNCHANGED <<selected, next, mutex, arg, old, moved>>

Insert(r) ==
  /\ pc[r] = "prune"
  /\ todo[r] = {}
  /\ store' = store \cup {arg[r]}
  /\ mutex' = NoRequest
  /\ Return(r)
  /\ UNCHANGED <<selected, next>>

(***************************************************************************)
(* PluginController.Delete                                                 *)
(***************************************************************************)

BeginDelete(r, p) ==
  /\ pc[r] = "idle"
  /\ p \in store
  /\ arg' = [arg EXCEPT ![r] = p]
  /\ Goto(r, "check")
  /\ UNCHANGED <<store, selected, next, mutex, todo, old, moved>>

\* "Unable to delete a plugin in use."
RefuseDelete(r) ==
  /\ pc[r] = "check"
  /\ selected = arg[r]
  /\ Return(r)
  /\ UNCHANGED <<store, selected, next, mutex>>

CheckUnused(r) ==
  /\ pc[r] = "check"
  /\ selected # arg[r]
  /\ moved' = [moved EXCEPT ![r] = FALSE]
  /\ Goto(r, "delete")
  /\ UNCHANGED <<store, selected, next, mutex, arg, todo, old>>

\* Mutant of DeletePlugin: the removal does not wait for the mutex.
DeleteWithoutLock(r) ==
  /\ pc[r] = "delete"
  /\ store' = store \ {arg[r]}
  /\ Return(r)
  /\ UNCHANGED <<selected, next, mutex>>

DeletePlugin(r) ==
  /\ pc[r] = "delete"
  /\ mutex = NoRequest
  /\ store' = store \ {arg[r]}
  /\ Return(r)
  /\ UNCHANGED <<selected, next, mutex>>

\* GetPluginById finds nothing: a deletion or selection answers an error.
RefuseMissing(r, p) ==
  /\ pc[r] = "idle"
  /\ p \notin store
  /\ UNCHANGED vars

(***************************************************************************)
(* SetSelectedPlugin                                                       *)
(***************************************************************************)

BeginSelect(r, p) ==
  /\ pc[r] = "idle"
  /\ p \in store
  /\ arg' = [arg EXCEPT ![r] = p]
  /\ Goto(r, "select")
  /\ UNCHANGED <<store, selected, next, mutex, todo, old, moved>>

ReadApp(r) ==
  /\ pc[r] = "select"
  /\ old' = [old EXCEPT ![r] = selected]
  /\ Goto(r, IF selected = NoPlugin THEN "update" ELSE "read old")
  /\ UNCHANGED <<store, selected, next, mutex, arg, todo, moved>>

\* Mutant of ReadOld: a missing old plugin is not an error.
ReadOldAnyway(r) ==
  /\ pc[r] = "read old"
  /\ Goto(r, "read new")
  /\ UNCHANGED <<store, selected, next, mutex, arg, todo, old, moved>>

\* MergeAlgorithmPlugin needs the old plugin ...
ReadOld(r) ==
  /\ pc[r] = "read old"
  /\ IF old[r] \in store
       THEN Goto(r, "read new") /\ UNCHANGED <<arg, todo, old, moved>>
       ELSE Return(r)
  /\ UNCHANGED <<store, selected, next, mutex>>

\* ... and the new one, whose configuration it may have to write back.
ReadNew(r) ==
  /\ pc[r] = "read new"
  /\ IF arg[r] \in store
       THEN /\ \E label \in {"merge", "update"} : Goto(r, label)
            /\ UNCHANGED <<arg, todo, old, moved>>
       ELSE Return(r)
  /\ UNCHANGED <<store, selected, next, mutex>>

WriteMerged(r) ==
  /\ pc[r] = "merge"
  /\ IF arg[r] \in store
       THEN Goto(r, "update") /\ UNCHANGED <<arg, todo, old, moved>>
       ELSE Return(r)
  /\ UNCHANGED <<store, selected, next, mutex>>

UpdateApp(r) ==
  /\ pc[r] = "update"
  /\ selected' = arg[r]
  /\ Goto(r, "idle")
  /\ arg' = [arg EXCEPT ![r] = NoPlugin]
  /\ old' = [old EXCEPT ![r] = NoPlugin]
  /\ moved' = [q \in Request |-> moved[q] \/ pc[q] \in {"remove", "delete"}]
  /\ UNCHANGED <<store, next, mutex, todo>>

\* A database operation fails: the request ends with an error, a mutex it
\* holds is released, and what it has written stays so.
Fails(r) ==
  /\ pc[r] # "idle"
  /\ mutex' = IF mutex = r THEN NoRequest ELSE mutex
  /\ Return(r)
  /\ UNCHANGED <<store, selected, next>>

\* The backend is restarted: requests in progress and the mutex are gone.
Restart ==
  /\ \E r \in Request : pc[r] # "idle"
  /\ mutex' = NoRequest
  /\ pc' = [r \in Request |-> "idle"]
  /\ arg' = [r \in Request |-> NoPlugin]
  /\ todo' = [r \in Request |-> {}]
  /\ old' = [r \in Request |-> NoPlugin]
  /\ moved' = [r \in Request |-> FALSE]
  /\ UNCHANGED <<store, selected, next>>

UploadStep(r) ==
  \/ Generate(r) \/ LockAndList(r) \/ FindUser(r) \/ RemoveOld(r)
  \/ Insert(r)

DeleteStep(r) ==
  \/ \E p \in PluginId : BeginDelete(r, p) \/ RefuseMissing(r, p)
  \/ RefuseDelete(r) \/ CheckUnused(r) \/ DeletePlugin(r)

SelectStep(r) ==
  \/ \E p \in PluginId : BeginSelect(r, p)
  \/ ReadApp(r) \/ ReadOld(r) \/ ReadNew(r) \/ WriteMerged(r) \/ UpdateApp(r)

Next ==
  \/ \E r \in Request : UploadStep(r) \/ DeleteStep(r) \/ SelectStep(r) \/ Fails(r)
  \/ Restart

Spec == Init /\ [][Next]_vars

-------------------------------------------------------------------------------
(***************************************************************************)
(* Properties                                                              *)
(***************************************************************************)

Label == {"idle", "upload", "prune", "remove", "check", "delete",
          "select", "read old", "read new", "merge", "update"}

\* Every variable stays in its type, and the holder of the mutex is the
\* request inside addPluginToDb.
TypeOK ==
  /\ store \subseteq PluginId
  /\ selected \in PluginId \cup {NoPlugin}
  /\ next \in PluginId
  /\ mutex \in Request \cup {NoRequest}
  /\ pc \in [Request -> Label]
  /\ arg \in [Request -> PluginId \cup {NoPlugin}]
  /\ todo \in [Request -> SUBSET PluginId]
  /\ old \in [Request -> PluginId \cup {NoPlugin}]
  /\ moved \in [Request -> BOOLEAN]
  /\ \A r \in Request : pc[r] \in {"prune", "remove"} <=> mutex = r

\* Deletions and other uploads never make an upload prune one of the
\* MaxPlugins - 1 newest plugins: what it listed as old is still old when it
\* removes it.
PrunesOnlyOld ==
  \A r \in Request :
    pc[r] = "remove" =>
      /\ Max(todo[r]) \in store
      /\ Max(todo[r]) \notin Newest(MaxPlugins - 1)

\* The selected plugin is removed only when it was selected after the remover
\* had found it unused.
RemovesOnlyUnused ==
  [][ (selected \in store \ store') =>
        \E r \in Request : pc[r] \in {"remove", "delete"} /\ moved[r] ]_vars

Dangling == selected \notin store \cup {NoPlugin}

\* No selection in progress has still found the plugin it replaces.
NoSelectionPassed ==
  \A r \in Request :
    /\ pc[r] \notin {"read new", "merge", "update"}
    /\ pc[r] = "read old" => old[r] \notin store

Wedged == Dangling /\ NoSelectionPassed

\* An application whose selected plugin is gone stays so for ever, unless a
\* selection had passed the plugin it replaces before: MergeAlgorithmPlugin
\* fails on the missing plugin, so every later selection fails, too.
WedgedStays == [][Wedged => Wedged']_vars

\* "Unable to delete a plugin in use" (controllers/api/plugin.go:161): the
\* plugin an application has selected exists.
SelectedExists == ~Dangling

(***************************************************************************)
(* The inductive invariant behind the properties.  A removal about to hit  *)
(* the selected plugin knows of the selection made meanwhile; a plugin on  *)
(* its way into the store is one that no other request and no selection    *)
(* has seen, because its number is taken from a clock.                     *)
(***************************************************************************)
KnowsMove ==
  \A r \in Request :
    /\ pc[r] = "remove" /\ Max(todo[r]) = selected => moved[r]
    /\ pc[r] = "delete" /\ arg[r] = selected => moved[r]

Uploading(r) == pc[r] \in {"upload", "prune", "remove"}

NotAhead ==
  /\ \A p \in store : p <= next
  /\ selected <= next
  /\ \A r \in Request : arg[r] <= next /\ old[r] <= next

FreshUploads ==
  \A r \in Request : Uploading(r) =>
    /\ arg[r] \in PluginId \ store
    /\ arg[r] # selected
    /\ \A q \in Request : old[q] # arg[r] /\ (arg[q] = arg[r] => q = r)

IInv == TypeOK /\ KnowsMove /\ NotAhead /\ FreshUploads

===============================================================================
