----------------------------- MODULE PhpWebdirs -----------------------------
(***************************************************************************)
(* The document roots of a PHP server and their dependencies               *)
(* (agent/webdir, openrasp.cc).  Requests tell the web directory agent of  *)
(* a new document root through a mailbox for one path in shared memory; a  *)
(* registry of hashes beside it keeps them from telling it again.  The     *)
(* agent keeps the directories in its own memory and sends what their      *)
(* composer.lock files name to the backend, when it has collected a path   *)
(* and whenever dependency_check.interval has passed.                      *)
(*                                                                         *)
(* Both the mailbox and the registry are under one process-shared rwlock.  *)
(* A request only tries it for its two tests: one that finds it taken does *)
(* nothing, like a request that does not come.  A critical section is one  *)
(* step, except that an agent killed inside one leaves the lock taken.     *)
(* A composer.lock is a version number, 0 when there is none; it stands    *)
(* for the time of the file, its content-hash and the packages it names.   *)
(* The scan for sensitive files between collecting and checking writes log *)
(* lines only and is left out.                                             *)
(***************************************************************************)
EXTENDS Naturals, Sequences, FiniteSets

CONSTANTS
  Root,       \* the document roots
  Worker,     \* the worker processes
  DocRoot,    \* DocRoot[w]: the document root of w's requests
  MaxRoots,   \* WebdirCtrlBlock::webroot_max_size
  MaxChange,  \* bound: changes of composer.lock files
  MaxFault    \* bound: deaths of the agent and failed reports

NoRoot == "none"

ASSUME WebdirsAssumption ==
  /\ NoRoot \notin Root
  /\ IsFiniteSet(Worker)
  /\ DocRoot \in [Worker -> Root]
  /\ MaxRoots \in Nat \ {0}
  /\ MaxChange \in Nat
  /\ MaxFault \in Nat

VARIABLES
  box,         \* webroot_path
  reg,         \* the counted part of webroot_hash
  stuck,       \* what a killed agent left of the lock
  rpc,         \* rpc[w]: where a request of w stands
  configured,  \* config_last_update is set
  apc,         \* where the agent stands
  dirs,        \* its WebDirDetector.webdirs
  mark,        \* mark[r]: composer_lock_last_modified and composer_lock_hash
  deps,        \* deps[r]: what the report it works on says of r
  lock,        \* lock[r]: the composer.lock of r
  known,       \* known[r]: the composer.lock whose packages the backend holds
  changes,     \* bound: changes so far
  faults       \* bound: faults so far

shmVars == <<box, reg>>
agentVars == <<apc, dirs, mark, deps>>
vars == <<shmVars, stuck, rpc, configured, agentVars, lock, known, changes, faults>>

Nothing == [r \in Root |-> 0]

\* Shared memory and a first agent without directories; before the first
\* heartbeat no configuration has come.
Init ==
  /\ box = NoRoot
  /\ reg = <<>>
  /\ stuck = "no"
  /\ rpc = [w \in Worker |-> "idle"]
  /\ configured = FALSE
  /\ apc = "sleep"
  /\ dirs = {}
  /\ mark = Nothing
  /\ deps = Nothing
  /\ lock = Nothing
  /\ known = Nothing
  /\ changes = 0
  /\ faults = 0

Fault == faults < MaxFault /\ faults' = faults + 1

-----------------------------------------------------------------------------
(***************************************************************************)
(* A request, at the end of RINIT.                                         *)
(***************************************************************************)

RequestUnchanged == UNCHANGED <<reg, stuck, configured, agentVars, lock, known, changes, faults>>

\* Mutant of Visit: the mailbox is not looked at first.
VisitAnyway(w) ==
  /\ rpc[w] = "idle"
  /\ stuck # "write"
  /\ rpc' = [rpc EXCEPT ![w] = "writable"]
  /\ UNCHANGED box
  /\ RequestUnchanged

\* path_writable: the mailbox is empty.
Visit(w) ==
  /\ rpc[w] = "idle"
  /\ stuck # "write" /\ box = NoRoot
  /\ rpc' = [rpc EXCEPT ![w] = "writable"]
  /\ UNCHANGED box
  /\ RequestUnchanged

\* webroot_found: the loop ends before index 0, so that the first hash is never
\* found.
Found(r) == \E i \in 2 .. Len(reg) : reg[i] = r

\* path_exist, which is true without the lock.
LookUp(w) ==
  /\ rpc[w] = "writable"
  /\ rpc' = [rpc EXCEPT ![w] = IF stuck = "write" \/ Found(DocRoot[w]) THEN "idle" ELSE "new"]
  /\ UNCHANGED box
  /\ RequestUnchanged

\* write_webroot_path waits for the lock and does not test the mailbox again: it
\* may replace the path of another request.
WriteRoot(w) ==
  /\ rpc[w] = "new"
  /\ stuck = "no"
  /\ box' = DocRoot[w]
  /\ rpc' = [rpc EXCEPT ![w] = "idle"]
  /\ RequestUnchanged

-----------------------------------------------------------------------------
(***************************************************************************)
(* The web directory agent.                                                *)
(***************************************************************************)

OutsideUnchanged == UNCHANGED <<rpc, stuck, configured, lock, changes>>

\* A round of the loop: consume_webroot_path waits for the lock.
Awake == apc = "sleep" /\ configured /\ stuck = "no"

\* set_webroot_count ignores a count that is not below the size: the last place
\* is written again and again and never looked at.
Registered(r) ==
  IF Len(reg) + 1 < MaxRoots THEN Append(reg, r) ELSE reg

\* A path has come: it is registered and watched, and forces a check.
Collect ==
  /\ Awake /\ box # NoRoot
  /\ reg' = Registered(box)
  /\ dirs' = dirs \cup {box}
  /\ box' = NoRoot
  /\ apc' = "check"
  /\ UNCHANGED <<mark, deps, known, faults>>
  /\ OutsideUnchanged

\* No path, and the interval has passed.
Interval ==
  /\ Awake /\ box = NoRoot
  /\ apc' = "check"
  /\ UNCHANGED <<shmVars, dirs, mark, deps, known, faults>>
  /\ OutsideUnchanged

\* webdirs_composer_lock_modified
CheckModified ==
  /\ apc = "check"
  /\ apc' = IF \E r \in dirs : mark[r] # lock[r] THEN "detect" ELSE "sleep"
  /\ UNCHANGED <<shmVars, dirs, mark, deps, known, faults>>
  /\ OutsideUnchanged

\* Mutant of UpdateLockStatus: the status is assigned.
UpdateLockStatusAssigned ==
  mark' = [r \in Root |-> IF r \in dirs THEN lock[r] ELSE mark[r]]

\* update_composer_lock_status compares (!=) where it would assign: the status
\* stays at zero, and every existing composer.lock counts as modified.
UpdateLockStatus == UNCHANGED mark

\* dependency_detect
Detect ==
  /\ apc = "detect"
  /\ deps' = [r \in Root |-> IF r \in dirs THEN lock[r] ELSE 0]
  /\ UpdateLockStatus
  /\ apc' = "post"
  /\ UNCHANGED <<shmVars, dirs, known, faults>>
  /\ OutsideUnchanged

\* The backend replaces what it holds for this agent, unless the list is empty.
Received == IF deps = Nothing THEN known ELSE deps

\* The report is sent, and its result is only logged.  It may not arrive, or
\* its answer is lost, or the backend fails between removing and adding.
Report ==
  /\ apc = "post"
  /\ \/ known' = Received /\ UNCHANGED faults
     \/ Fault /\ known' \in {known, Received, IF deps = Nothing THEN known ELSE Nothing}
  /\ apc' = "sleep"
  /\ deps' = Nothing
  /\ UNCHANGED <<shmVars, dirs, mark>>
  /\ OutsideUnchanged

\* The agent dies, perhaps inside a critical section (of consume_webroot_path, or
\* reading a setting before a check), and the supervisor starts another one: it
\* watches nothing, while the registry keeps its roots.
Crash ==
  /\ Fault
  /\ apc' = "sleep"
  /\ dirs' = {}
  /\ mark' = Nothing
  /\ deps' = Nothing
  /\ stuck' \in {stuck} \cup (IF stuck = "no" /\ apc \in {"sleep", "check"}
                             THEN {"read", "write"} ELSE {})
  /\ UNCHANGED <<shmVars, rpc, configured, lock, known, changes>>

-----------------------------------------------------------------------------
(***************************************************************************)
(* The heartbeat agent and composer.                                       *)
(***************************************************************************)

Configure ==
  /\ ~configured
  /\ configured' = TRUE
  /\ UNCHANGED <<shmVars, stuck, rpc, agentVars, lock, known, changes, faults>>

\* composer writes a new composer.lock, or it is removed.
ChangeLock(r) ==
  /\ changes < MaxChange
  /\ changes' = changes + 1
  /\ lock' \in {[lock EXCEPT ![r] = changes + 1], [lock EXCEPT ![r] = 0]}
  /\ UNCHANGED <<shmVars, stuck, rpc, configured, agentVars, known, faults>>

-----------------------------------------------------------------------------
AgentStep == Collect \/ Interval \/ CheckModified \/ Detect \/ Report

Next ==
  \/ \E w \in Worker : Visit(w) \/ LookUp(w) \/ WriteRoot(w)
  \/ AgentStep \/ Crash
  \/ Configure
  \/ \E r \in Root : ChangeLock(r)

Spec == Init /\ [][Next]_vars

\* The agent's loop runs on, requests keep coming to every document root and
\* each gets through RINIT.  No heartbeat is assumed to succeed.
FairSpec ==
  /\ Spec
  /\ WF_vars(AgentStep)
  /\ \A w \in Worker : WF_vars(Visit(w)) /\ WF_vars(LookUp(w) \/ WriteRoot(w))

-----------------------------------------------------------------------------
(***************************************************************************)
(* Properties.                                                             *)
(***************************************************************************)

\* The agent that registered the root has died: its requests find it, and the
\* agent that lives does not know it.
Forgotten(r) == Found(r) /\ r \notin dirs

\* No root can be registered any more.
Full == Len(reg) + 1 = MaxRoots

\* Nothing that is watched has a composer.lock: an empty list is never sent.
NothingLeft == \A r \in dirs : lock[r] = 0

\* When composer has come to rest, the backend ends with what the composer.lock
\* of every root says, over failed reports, deaths of the agent and requests
\* that replace each other's path in the mailbox; except for a root that was
\* forgotten, a full registry, a lock left by a killed agent, a server without
\* configuration, and the last composer.lock that was removed.
DependenciesKnown ==
  <>[](~configured \/ stuck # "no" \/ Full \/ NothingLeft
       \/ \A r \in Root : known[r] = lock[r] \/ Forgotten(r))

\* As long as nothing fails the agent watches every root that is registered: a
\* request that finds its root registered has nothing to tell.
ForgottenOnlyByFault == \A r \in Root : Forgotten(r) => faults > 0

\* The places but the first where a root is registered.
Entries(r) == {i \in 2 .. Len(reg) : reg[i] = r}

\* However the requests race for the mailbox between their test and their write,
\* and whichever agents die, a worker registers its root at most once, besides the
\* first entry, which is never found: no root takes more places than it has
\* workers, so that a registry with three places more than there are workers does
\* not fill up.
RegistryBounded ==
  \A r \in Root : Cardinality(Entries(r)) <= Cardinality({w \in Worker : DocRoot[w] = r})

-----------------------------------------------------------------------------
(***************************************************************************)
(* What makes the properties inductive.                                    *)
(***************************************************************************)

TypeOK ==
  /\ box \in Root \cup {NoRoot}
  /\ reg \in Seq(Root) /\ Len(reg) < MaxRoots
  /\ stuck \in {"no", "read", "write"}
  /\ rpc \in [Worker -> {"idle", "writable", "new"}]
  /\ configured \in BOOLEAN
  /\ apc \in {"sleep", "check", "detect", "post"}
  /\ dirs \subseteq Root
  /\ mark \in [Root -> 0 .. MaxChange] /\ deps \in [Root -> 0 .. MaxChange]
  /\ lock \in [Root -> 0 .. MaxChange] /\ known \in [Root -> 0 .. MaxChange]
  /\ changes \in 0 .. MaxChange
  /\ faults \in 0 .. MaxFault

\* Until the first fault the agent knows what is registered.
Watched == faults = 0 => \A i \in 1 .. Len(reg) : reg[i] \in dirs

\* The workers of a root without a request that is about to write it, and those of
\* all roots that are found.
Quiet(r) == {w \in Worker : DocRoot[w] = r /\ rpc[w] # "new"}
Settled == {w \in Worker : Found(DocRoot[w]) /\ rpc[w] # "new"}

\* A path in the mailbox was put there by a request that has ended, and no other
\* begins before it is taken out.
Sent == box # NoRoot => \E w \in Worker : DocRoot[w] = box /\ rpc[w] = "idle"

\* Each entry but the first has a quiet worker of its own, and so has a registered
\* path that waits in the mailbox to be registered once more: counted for one root,
\* and for all.
EachAccounted ==
  \A r \in Root : Found(r) =>
    Cardinality(Entries(r)) + (IF box = r THEN 1 ELSE 0) <= Cardinality(Quiet(r))
AllAccounted ==
  reg # <<>> => (Len(reg) - 1) + (IF Found(box) THEN 1 ELSE 0) <= Cardinality(Settled)

==============================================================================
