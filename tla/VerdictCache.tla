----------------------------- MODULE VerdictCache -----------------------------
(***************************************************************************)
(* The clean-verdict cache of the Java agent.                              *)
(*                                                                         *)
(* Every application thread that reaches a hook of a cacheable type calls  *)
(* JS.Check (plugin/js/JS.java): it derives a key from the check's         *)
(* parameters, skips the JavaScript plugin when the key is in              *)
(* Config.commonLRUCache, otherwise runs the plugin and stores the key     *)
(* when the verdict is clean.  Meanwhile one thread may install a new      *)
(* plugin (JS.UpdatePlugin, which clears the cache afterwards) and another *)
(* may change lru.max_size, lru.compare_enable or lru.compare_limit (the   *)
(* setters of config/ConfigItem.java).  Only the operations of LRUCache    *)
(* are under a lock; everything between two of them interleaves.           *)
(*                                                                         *)
(* A verdict is abstracted to whether the plugin flags the check, and a    *)
(* parameter buffer to its hash and its size.  Plugins are numbered in the *)
(* order they are installed.                                               *)
(***************************************************************************)
EXTENDS Naturals, Sequences, SequencesExt

CONSTANTS
  Thread,      \* application threads
  Check,       \* checks of a cacheable type: a type together with its parameters
  Buffer,      \* serialized parameter buffers
  Hash,        \* hash codes of buffers
  NoKey,       \* the null key
  Params,      \* Params[c]: the buffer of check c (the type is not part of it)
  HashOf,      \* HashOf[b]: ByteBuffer.wrap(b).hashCode()
  Size,        \* Size[b]: the length of b
  Flagged,     \* Flagged[v]: the checks that plugin v reports
  MaxPlugin,   \* bound: number of the last plugin installed
  Capacity,    \* values lru.max_size may take
  Limit,       \* values lru.compare_limit may take
  MaxGen       \* bound: number of times the cache object is replaced

Plugin == 1..MaxPlugin
Key == Buffer \cup Hash

\* What the per-thread variables hold between two calls.
AnyCheck == CHOOSE c \in Check : TRUE

ASSUME ConstantsAssumption ==
  /\ Check # {}
  /\ Params \in [Check -> Buffer]
  /\ HashOf \in [Buffer -> Hash]
  /\ Size \in [Buffer -> Nat]
  /\ MaxPlugin \in Nat \ {0}
  /\ Flagged \in [Plugin -> SUBSET Check]
  /\ Capacity \subseteq Nat
  /\ Limit \subseteq Nat
  /\ MaxGen \in Nat
  /\ Buffer \cap Hash = {}
  /\ NoKey \notin Key

VARIABLES
  plugin,      \* the plugin V8 evaluates
  cache,       \* entries of the current cache object, eldest first
  gen,         \* which cache object Config.commonLRUCache refers to
  capacity,    \* its cacheSize
  compare,     \* Config.lruCompareEnable
  limit,       \* Config.lruCompareLimit
  pc,          \* pc[t]: where thread t stands in JS.Check
  check,       \* check[t]: the check t is processing
  key,         \* key[t]: hashData
  seen,        \* seen[t]: the plugin that gave t's clean verdict
  late,        \* late[t]: history, a plugin was installed after that verdict
  ref,         \* ref[t]: the cache object t is about to store into
  upc,         \* where the plugin updater stands in JS.UpdatePlugin
  uref,        \* the cache object it is about to clear
  cpc,         \* where the configuration loader stands in a setter
  cnew         \* the value that setter is storing

checkVars  == <<pc, check, key, seen, late, ref>>
updateVars == <<upc, uref>>
configVars == <<capacity, compare, limit, cpc, cnew>>
vars == <<plugin, cache, gen, checkVars, updateVars, configVars>>

(***************************************************************************)
(* LRUCache.  An entry is a key; the other fields are history: the check   *)
(* that stored it, the plugin that found it clean, and whether that plugin *)
(* had been replaced before the entry was stored.                          *)
(***************************************************************************)
Entry == [key : Key, by : Check, version : Plugin, late : BOOLEAN]

KeysOf(s) == {s[i].key : i \in DOMAIN s}
Holds(s, k) == k \in KeysOf(s)
Position(s, k) == CHOOSE i \in DOMAIN s : s[i].key = k

\* put on an access-ordered LinkedHashMap: the entry becomes the youngest,
\* and removeEldestEntry drops the eldest when the size exceeds n.
Without(s, k) == IF Holds(s, k) THEN RemoveAt(s, Position(s, k)) ELSE s
\* Mutants of DropEldest: removeEldestEntry one entry too late, one too early.
DropEldestLate(s, n) == IF Len(s) > n + 1 THEN Tail(s) ELSE s
DropEldestEarly(s, n) == IF Len(s) >= n THEN Tail(s) ELSE s

DropEldest(s, n) == IF Len(s) > n THEN Tail(s) ELSE s
Store(s, e, n) == DropEldest(Append(Without(s, e.key), e), n)

(***************************************************************************)
(* The state the class initialiser and the first plugin leave behind.      *)
(***************************************************************************)
Init ==
  /\ plugin = 1
  /\ cache = <<>>
  /\ gen = 0
  /\ capacity \in Capacity
  /\ compare \in BOOLEAN
  /\ limit \in Limit
  /\ pc = [t \in Thread |-> "idle"]
  /\ check = [t \in Thread |-> AnyCheck]
  /\ key = [t \in Thread |-> NoKey]
  /\ seen = [t \in Thread |-> 1]
  /\ late = [t \in Thread |-> FALSE]
  /\ ref = [t \in Thread |-> 0]
  /\ upc = "idle"
  /\ uref = 0
  /\ cpc = "idle"
  /\ cnew = 0

(***************************************************************************)
(* JS.Check, one action per access to state shared with other threads.     *)
(***************************************************************************)

KeysFor(c) == {Params[c], HashOf[Params[c]]}

\* hashData: the hash, the whole buffer, or null when it is too long.
KeyFor(c) ==
  LET b == Params[c]
  IN  IF ~compare THEN HashOf[b]
      ELSE IF Size[b] <= limit THEN b ELSE NoKey

Return(t) ==
  /\ pc' = [pc EXCEPT ![t] = "idle"]
  /\ check' = [check EXCEPT ![t] = AnyCheck]
  /\ key' = [key EXCEPT ![t] = NoKey]
  /\ seen' = [seen EXCEPT ![t] = 1]
  /\ late' = [late EXCEPT ![t] = FALSE]
  /\ ref' = [ref EXCEPT ![t] = 0]

Begin(t, c) ==
  /\ pc[t] = "idle"
  /\ pc' = [pc EXCEPT ![t] = "keyed"]
  /\ check' = [check EXCEPT ![t] = c]
  /\ key' = [key EXCEPT ![t] = KeyFor(c)]
  /\ UNCHANGED <<plugin, cache, gen, seen, late, ref, updateVars, configVars>>

Hit(t) ==
  /\ pc[t] = "keyed"
  /\ Holds(cache, key[t])
  /\ Return(t)
  /\ UNCHANGED <<plugin, cache, gen, updateVars, configVars>>

Miss(t) ==
  /\ pc[t] = "keyed"
  /\ ~Holds(cache, key[t])
  /\ pc' = [pc EXCEPT ![t] = "missed"]
  /\ UNCHANGED <<plugin, cache, gen, check, key, seen, late, ref,
                 updateVars, configVars>>

\* Mutant of EvaluateClean: a report is taken for a clean verdict.
EvaluateAnyway(t) ==
  /\ pc[t] = "missed"
  /\ pc' = [pc EXCEPT ![t] = "clean"]
  /\ seen' = [seen EXCEPT ![t] = plugin]
  /\ UNCHANGED <<plugin, cache, gen, check, key, late, ref,
                 updateVars, configVars>>

\* V8.Check finds nothing (results == null).
EvaluateClean(t) ==
  /\ pc[t] = "missed"
  /\ check[t] \notin Flagged[plugin]
  /\ pc' = [pc EXCEPT ![t] = "clean"]
  /\ seen' = [seen EXCEPT ![t] = plugin]
  /\ UNCHANGED <<plugin, cache, gen, check, key, late, ref,
                 updateVars, configVars>>

\* V8.Check throws, times out or reports an attack: nothing is stored.
EvaluateOther(t) ==
  /\ pc[t] = "missed"
  /\ Return(t)
  /\ UNCHANGED <<plugin, cache, gen, updateVars, configVars>>

\* hashData == null or maxSize() == 0: the clean verdict is not stored.
SkipStore(t) ==
  /\ pc[t] = "clean"
  /\ key[t] = NoKey \/ capacity = 0
  /\ Return(t)
  /\ UNCHANGED <<plugin, cache, gen, updateVars, configVars>>

\* Config.commonLRUCache is read before put is called on it.
FetchCache(t) ==
  /\ pc[t] = "clean"
  /\ key[t] # NoKey
  /\ capacity # 0
  /\ pc' = [pc EXCEPT ![t] = "storing"]
  /\ ref' = [ref EXCEPT ![t] = gen]
  /\ UNCHANGED <<plugin, cache, gen, check, key, seen, late,
                 updateVars, configVars>>

\* A put into an object that has been replaced in between is lost.
Put(t) ==
  /\ pc[t] = "storing"
  /\ IF ref[t] = gen
       THEN cache' = Store(cache, [key |-> key[t], by |-> check[t],
                                   version |-> seen[t], late |-> late[t]],
                           capacity)
       ELSE UNCHANGED cache
  /\ Return(t)
  /\ UNCHANGED <<plugin, gen, updateVars, configVars>>

CheckStep(t) ==
  \/ Hit(t) \/ Miss(t)
  \/ EvaluateClean(t) \/ EvaluateOther(t)
  \/ SkipStore(t) \/ FetchCache(t) \/ Put(t)

(***************************************************************************)
(* JS.UpdatePlugin.  A snapshot that cannot be created changes nothing.    *)
(***************************************************************************)
CreateSnapshot ==
  /\ upc = "idle"
  /\ plugin < MaxPlugin
  /\ plugin' = plugin + 1
  /\ upc' = "installed"
  /\ late' = [t \in Thread |-> late[t] \/ pc[t] \in {"clean", "storing"}]
  /\ UNCHANGED <<cache, gen, pc, check, key, seen, ref, uref, configVars>>

FetchToClear ==
  /\ upc = "installed"
  /\ upc' = "clearing"
  /\ uref' = gen
  /\ UNCHANGED <<plugin, cache, gen, checkVars, configVars>>

\* Mutant of ClearOnUpdate: the old plugin's verdicts are kept.
KeepOnUpdate ==
  /\ upc = "clearing"
  /\ upc' = "idle"
  /\ uref' = 0
  /\ UNCHANGED <<plugin, cache, gen, checkVars, configVars>>

ClearOnUpdate ==
  /\ upc = "clearing"
  /\ cache' = IF uref = gen THEN <<>> ELSE cache
  /\ upc' = "idle"
  /\ uref' = 0
  /\ UNCHANGED <<plugin, gen, checkVars, configVars>>

UpdateStep == CreateSnapshot \/ FetchToClear \/ ClearOnUpdate

(***************************************************************************)
(* The configuration setters that touch the cache.                         *)
(***************************************************************************)

\* lru.max_size: clear the old object, then replace it.
BeginCapacity(n) ==
  /\ cpc = "idle"
  /\ gen < MaxGen
  /\ n # capacity
  /\ cache' = <<>>
  /\ cpc' = "replace"
  /\ cnew' = n
  /\ UNCHANGED <<plugin, gen, capacity, compare, limit, checkVars, updateVars>>

ReplaceCache ==
  /\ cpc = "replace"
  /\ gen' = gen + 1
  /\ capacity' = cnew
  /\ cache' = <<>>
  /\ cpc' = "idle"
  /\ cnew' = 0
  /\ UNCHANGED <<plugin, compare, limit, checkVars, updateVars>>

\* lru.compare_enable: change the flag, then clear.
FlipCompare ==
  /\ cpc = "idle"
  /\ compare' = ~compare
  /\ cpc' = "clear"
  /\ UNCHANGED <<plugin, cache, gen, capacity, limit, cnew, checkVars, updateVars>>

ClearAfterFlip ==
  /\ cpc = "clear"
  /\ cache' = <<>>
  /\ cpc' = "idle"
  /\ UNCHANGED <<plugin, gen, capacity, compare, limit, cnew, checkVars, updateVars>>

\* lru.compare_limit: clear first when the limit shrinks, then change it.
BeginLimit(n) ==
  /\ cpc = "idle"
  /\ n # limit
  /\ cache' = IF n < limit THEN <<>> ELSE cache
  /\ cpc' = "limit"
  /\ cnew' = n
  /\ UNCHANGED <<plugin, gen, capacity, compare, limit, checkVars, updateVars>>

SetLimit ==
  /\ cpc = "limit"
  /\ limit' = cnew
  /\ cpc' = "idle"
  /\ cnew' = 0
  /\ UNCHANGED <<plugin, cache, gen, capacity, compare, checkVars, updateVars>>

ConfigStep ==
  \/ \E n \in Capacity : BeginCapacity(n)
  \/ \E n \in Limit : BeginLimit(n)
  \/ ReplaceCache \/ FlipCompare \/ ClearAfterFlip \/ SetLimit

Next ==
  \/ \E t \in Thread : (\E c \in Check : Begin(t, c)) \/ CheckStep(t)
  \/ UpdateStep
  \/ ConfigStep

Spec == Init /\ [][Next]_vars

-------------------------------------------------------------------------------
(***************************************************************************)
(* Properties                                                              *)
(***************************************************************************)

\* Every variable stays in its type.
TypeOK ==
  /\ plugin \in Plugin
  /\ cache \in Seq(Entry)
  /\ gen \in 0..MaxGen
  /\ capacity \in Capacity
  /\ compare \in BOOLEAN
  /\ limit \in Limit
  /\ pc \in [Thread -> {"idle", "keyed", "missed", "clean", "storing"}]
  /\ check \in [Thread -> Check]
  /\ key \in [Thread -> Key \cup {NoKey}]
  /\ seen \in [Thread -> Plugin]
  /\ late \in [Thread -> BOOLEAN]
  /\ ref \in [Thread -> 0..MaxGen]
  /\ upc \in {"idle", "installed", "clearing"}
  /\ uref \in 0..MaxGen
  /\ cpc \in {"idle", "replace", "clear", "limit"}
  /\ cnew \in Nat
  /\ cpc = "replace" => cnew \in Capacity /\ gen < MaxGen
  /\ cpc = "limit" => cnew \in Limit

Distinct(s) == \A i, j \in DOMAIN s : s[i].key = s[j].key => i = j

\* The cache never exceeds lru.max_size, whatever puts, clears and
\* replacements overlap, and holds a key at most once (LRUCache.put).
CacheShape ==
  /\ Len(cache) <= capacity
  /\ Distinct(cache)

\* A key is in the cache only because some installed plugin found a check
\* with that key clean: a report, a timeout and an exception of the plugin
\* are never remembered (JS.Check stores only when results == null).
Earned ==
  \A i \in DOMAIN cache :
    /\ cache[i].version <= plugin
    /\ cache[i].by \notin Flagged[cache[i].version]
    /\ cache[i].key \in KeysFor(cache[i].by)

Fresh(e) == e.version = plugin \/ e.late

\* Once JS.UpdatePlugin has returned, a verdict of an earlier plugin is in the
\* cache only if the check that stored it was still between its evaluation
\* and its put when the new plugin was installed: no other verdict outlives
\* its plugin, even when lru.max_size replaces the cache under the clear.
NoStaleVerdict ==
  upc = "idle" => \A i \in DOMAIN cache : Fresh(cache[i])

\* A key leaves the cache only because the cache was cleared or replaced, or
\* because the cache was full: a put never loses another verdict otherwise.
EvictOnlyWhenFull ==
  [][ \A k \in KeysOf(cache) \ KeysOf(cache') :
        cache' = <<>> \/ Len(cache) = capacity ]_vars

(***************************************************************************)
(* The inductive invariant behind the properties.  A thread that holds a   *)
(* clean verdict took it from an installed plugin, and its history         *)
(* variable tells whether that plugin is still the current one.  While an  *)
(* update is between its snapshot and its clear, old verdicts may remain,  *)
(* but only in the cache object the clear is going to empty.               *)
(***************************************************************************)
ThreadInv ==
  \A t \in Thread :
    /\ pc[t] \in {"clean", "storing"} =>
         /\ seen[t] <= plugin
         /\ check[t] \notin Flagged[seen[t]]
         /\ seen[t] = plugin \/ late[t]
    /\ pc[t] # "idle" => key[t] \in KeysFor(check[t]) \cup {NoKey}
    /\ pc[t] = "storing" => key[t] # NoKey

FreshInv ==
  \/ upc = "installed"
  \/ upc = "clearing" /\ uref = gen
  \/ \A i \in DOMAIN cache : Fresh(cache[i])

IInv == TypeOK /\ CacheShape /\ Earned /\ ThreadInv /\ FreshInv

===============================================================================
