------------------------- MODULE VerdictCache_proofs --------------------------
(***************************************************************************)
(* Proofs about VerdictCache, for any number of threads, checks, plugins   *)
(* and cache sizes.                                                        *)
(***************************************************************************)
EXTENDS VerdictCache, SequenceTheorems, TLAPS

(***************************************************************************)
(* What LRUCache.put does to a sequence of entries without duplicate keys. *)
(***************************************************************************)
\* Removing one position of a sequence keeps the others, in order.
LEMMA RemoveAtProperties ==
  ASSUME NEW S, NEW s \in Seq(S), NEW i \in 1..Len(s)
  PROVE  /\ RemoveAt(s, i) \in Seq(S)
         /\ Len(RemoveAt(s, i)) = Len(s) - 1
         /\ \A j \in 1..(Len(s) - 1) :
              RemoveAt(s, i)[j] = IF j < i THEN s[j] ELSE s[j + 1]
<1> DEFINE L == SubSeq(s, 1, i - 1)
           R == SubSeq(s, i + 1, Len(s))
<1>0. Len(s) \in Nat /\ \A j \in 1..Len(s) : s[j] \in S
  BY ElementOfSeq, LenProperties
<1>1. /\ L \in Seq(S)
      /\ Len(L) = i - 1
      /\ \A j \in 1..(i - 1) : L[j] = s[j]
  <2>1. i - 1 \in Int /\ \A j \in 1..(i - 1) : s[j] \in S
    BY <1>0
  <2> QED BY <1>0, <2>1, SubSeqProperties
<1>2. /\ R \in Seq(S)
      /\ Len(R) = Len(s) - i
      /\ \A j \in 1..(Len(s) - i) : R[j] = s[i + j]
  <2>1. i + 1 \in Int /\ Len(s) \in Int /\ \A j \in (i + 1)..Len(s) : s[j] \in S
    BY <1>0
  <2>2. /\ R \in Seq(S)
        /\ Len(R) = IF i + 1 <= Len(s) THEN Len(s) - (i + 1) + 1 ELSE 0
        /\ \A j \in 1..(Len(s) - (i + 1) + 1) : R[j] = s[(i + 1) + j - 1]
    BY <2>1, SubSeqProperties
  <2> QED BY <1>0, <2>2
<1> HIDE DEF L, R
<1>3. /\ L \o R \in Seq(S)
      /\ Len(L \o R) = Len(L) + Len(R)
      /\ \A j \in 1..(Len(L) + Len(R)) :
           (L \o R)[j] = IF j <= Len(L) THEN L[j] ELSE R[j - Len(L)]
  BY <1>1, <1>2, ConcatProperties
<1>4. RemoveAt(s, i) = L \o R
  BY DEF RemoveAt, L, R
<1>5. ASSUME NEW j \in 1..(Len(s) - 1)
      PROVE  RemoveAt(s, i)[j] = IF j < i THEN s[j] ELSE s[j + 1]
  <2>1. j \in 1..(Len(L) + Len(R)) /\ j \in Int /\ i \in Int
    BY <1>0, <1>1, <1>2
  <2>2. CASE j < i
    BY <2>1, <2>2, <1>1, <1>3, <1>4
  <2>3. CASE ~(j < i)
    <3>1. (L \o R)[j] = R[j - (i - 1)]
      BY <2>1, <2>3, <1>1, <1>3
    <3>2. j - (i - 1) \in 1..(Len(s) - i)
      BY <1>0, <2>1, <2>3
    <3>3. R[j - (i - 1)] = s[i + (j - (i - 1))]
      BY <3>2, <1>2
    <3>4. i + (j - (i - 1)) = j + 1
      BY <2>1
    <3> QED BY <2>3, <3>1, <3>3, <3>4, <1>4
  <2> QED BY <2>2, <2>3
<1>6. Len(RemoveAt(s, i)) = Len(s) - 1
  BY <1>0, <1>1, <1>2, <1>3, <1>4
<1> QED BY <1>3, <1>4, <1>5, <1>6

\* Dropping a key from a sequence of entries leaves only entries of it, and
\* none with that key.
LEMMA WithoutProperties ==
  ASSUME NEW s \in Seq(Entry), NEW k, Distinct(s)
  PROVE  /\ Without(s, k) \in Seq(Entry)
         /\ Len(Without(s, k)) <= Len(s)
         /\ \A j \in 1..Len(Without(s, k)) :
              \E i \in 1..Len(s) : Without(s, k)[j] = s[i] /\ s[i].key # k
         /\ Distinct(Without(s, k))
<1>0. Len(s) \in Nat /\ DOMAIN s = 1..Len(s)
  BY LenProperties
<1>1. CASE ~Holds(s, k)
  <2>1. Without(s, k) = s
    BY <1>1 DEF Without
  <2>2. \A i \in 1..Len(s) : s[i].key # k
    BY <1>0, <1>1 DEF Holds, KeysOf
  <2> QED BY <1>0, <2>1, <2>2
<1>2. CASE Holds(s, k)
  <2> DEFINE p == Position(s, k)
             w == RemoveAt(s, p)
  <2>1. p \in 1..Len(s) /\ s[p].key = k
    BY <1>0, <1>2 DEF Holds, KeysOf, Position
  <2>2. Without(s, k) = w
    BY <1>2 DEF Without
  <2> HIDE DEF p
  <2>3. /\ w \in Seq(Entry)
        /\ Len(w) = Len(s) - 1
        /\ \A j \in 1..(Len(s) - 1) : w[j] = IF j < p THEN s[j] ELSE s[j + 1]
    BY <2>1, RemoveAtProperties
  <2> HIDE DEF w
  <2>4. DOMAIN w = 1..(Len(s) - 1)
    BY <2>3, LenProperties
  <2>5. \A j \in 1..(Len(s) - 1) :
          \E i \in 1..Len(s) : /\ w[j] = s[i] /\ i # p
                               /\ i = IF j < p THEN j ELSE j + 1
    BY <1>0, <2>1, <2>3
  <2>6. \A i \in 1..Len(s) : i # p => s[i].key # k
    BY <1>0, <2>1 DEF Distinct
  <2>7. Distinct(w)
    <3> SUFFICES ASSUME NEW a \in 1..(Len(s) - 1), NEW b \in 1..(Len(s) - 1),
                        w[a].key = w[b].key
                 PROVE  a = b
      BY <2>4 DEF Distinct
    <3>1. PICK i \in 1..Len(s) : w[a] = s[i] /\ i = IF a < p THEN a ELSE a + 1
      BY <2>5
    <3>2. PICK j \in 1..Len(s) : w[b] = s[j] /\ j = IF b < p THEN b ELSE b + 1
      BY <2>5
    <3>3. i = j
      BY <1>0, <3>1, <3>2 DEF Distinct
    <3> QED BY <1>0, <2>1, <3>1, <3>2, <3>3
  <2>8. \A j \in 1..Len(w) : \E i \in 1..Len(s) : w[j] = s[i] /\ s[i].key # k
    BY <2>3, <2>5, <2>6
  <2>9. Len(w) <= Len(s)
    BY <1>0, <2>3
  <2> QED BY <2>2, <2>3, <2>7, <2>8, <2>9
<1> QED BY <1>1, <1>2

\* LRUCache.put keeps the cache within its size and free of duplicates, and
\* what it leaves is the new entry and entries that were already there.
LEMMA StoreProperties ==
  ASSUME NEW s \in Seq(Entry), NEW e \in Entry, NEW n \in Nat,
         Distinct(s), Len(s) <= n
  PROVE  /\ Store(s, e, n) \in Seq(Entry)
         /\ Len(Store(s, e, n)) <= n
         /\ Distinct(Store(s, e, n))
         /\ \A j \in DOMAIN Store(s, e, n) :
              \/ Store(s, e, n)[j] = e
              \/ \E i \in DOMAIN s : Store(s, e, n)[j] = s[i]
<1> DEFINE w == Without(s, e.key)
           g == Append(w, e)
<1>0. Len(s) \in Nat /\ DOMAIN s = 1..Len(s)
  BY LenProperties
<1>1. /\ w \in Seq(Entry)
      /\ Len(w) <= Len(s)
      /\ \A j \in 1..Len(w) : \E i \in 1..Len(s) : w[j] = s[i] /\ s[i].key # e.key
      /\ Distinct(w)
  BY WithoutProperties
<1>2. Len(w) \in Nat /\ DOMAIN w = 1..Len(w)
  BY <1>1, LenProperties
<1> HIDE DEF w
<1>3. /\ g \in Seq(Entry)
      /\ g # <<>>
      /\ Len(g) = Len(w) + 1
      /\ \A i \in 1..Len(w) : g[i] = w[i]
      /\ g[Len(w) + 1] = e
  BY <1>1, AppendProperties
<1>4. DOMAIN g = 1..(Len(w) + 1)
  BY <1>3, LenProperties
<1> HIDE DEF g
<1>5. \A j \in DOMAIN g : g[j] = e \/ (\E i \in 1..Len(s) : g[j] = s[i])
  BY <1>1, <1>2, <1>3, <1>4
<1>6. Distinct(g)
  <2> SUFFICES ASSUME NEW a \in 1..(Len(w) + 1), NEW b \in 1..(Len(w) + 1),
                      g[a].key = g[b].key
               PROVE  a = b
    BY <1>4 DEF Distinct
  <2>1. \A j \in 1..Len(w) : g[j].key # e.key
    BY <1>1, <1>3
  <2>2. CASE a \in 1..Len(w) /\ b \in 1..Len(w)
    BY <2>2, <1>1, <1>2, <1>3 DEF Distinct
  <2>3. CASE a = Len(w) + 1 /\ b = Len(w) + 1
    BY <2>3
  <2>4. CASE a \in 1..Len(w) /\ b = Len(w) + 1
    BY <2>1, <2>4, <1>3
  <2>5. CASE a = Len(w) + 1 /\ b \in 1..Len(w)
    BY <2>1, <2>5, <1>3
  <2> QED BY <1>2, <2>2, <2>3, <2>4, <2>5
<1>7. Store(s, e, n) = DropEldest(g, n)
  BY DEF Store, g, w
<1>8. CASE Len(g) > n
  <2>1. Store(s, e, n) = Tail(g)
    BY <1>7, <1>8 DEF DropEldest
  <2>2. /\ Tail(g) \in Seq(Entry)
        /\ Len(Tail(g)) = Len(g) - 1
        /\ \A i \in 1..Len(Tail(g)) : Tail(g)[i] = g[i + 1]
    BY <1>3, HeadTailProperties
  <2>3. DOMAIN Tail(g) = 1..Len(w)
    BY <1>2, <1>3, <2>2, LenProperties
  <2>4. Len(Tail(g)) <= n
    BY <1>0, <1>1, <1>2, <1>3, <2>2
  <2>5. \A j \in 1..Len(w) : Tail(g)[j] = g[j + 1] /\ j + 1 \in DOMAIN g
    BY <1>2, <1>3, <1>4, <2>2
  <2>6. Distinct(Tail(g))
    <3> SUFFICES ASSUME NEW a \in 1..Len(w), NEW b \in 1..Len(w),
                        Tail(g)[a].key = Tail(g)[b].key
                 PROVE  a = b
      BY <2>3 DEF Distinct
    <3>1. a + 1 = b + 1
      BY <1>6, <2>5 DEF Distinct
    <3> QED BY <1>2, <3>1
  <2>7. \A j \in DOMAIN Tail(g) :
          Tail(g)[j] = e \/ (\E i \in DOMAIN s : Tail(g)[j] = s[i])
    BY <1>0, <1>5, <2>3, <2>5
  <2> QED BY <2>1, <2>2, <2>4, <2>6, <2>7
<1>9. CASE ~(Len(g) > n)
  <2>1. Store(s, e, n) = g
    BY <1>7, <1>9 DEF DropEldest
  <2>2. Len(g) <= n
    BY <1>2, <1>3, <1>9
  <2> QED BY <1>0, <1>3, <1>5, <1>6, <2>1, <2>2
<1> QED BY <1>8, <1>9

\* Dropping a key loses no other one.
LEMMA WithoutKeeps ==
  ASSUME NEW s \in Seq(Entry), NEW k, NEW i \in 1..Len(s), s[i].key # k
  PROVE  \E j \in 1..Len(Without(s, k)) : Without(s, k)[j] = s[i]
<1>0. Len(s) \in Nat /\ DOMAIN s = 1..Len(s)
  BY LenProperties
<1>1. CASE ~Holds(s, k)
  BY <1>1 DEF Without
<1>2. CASE Holds(s, k)
  <2> DEFINE p == Position(s, k)
             w == RemoveAt(s, p)
  <2>1. p \in 1..Len(s) /\ s[p].key = k
    BY <1>0, <1>2 DEF Holds, KeysOf, Position
  <2>2. Without(s, k) = w
    BY <1>2 DEF Without
  <2> HIDE DEF p
  <2>3. /\ Len(w) = Len(s) - 1
        /\ \A j \in 1..(Len(s) - 1) : w[j] = IF j < p THEN s[j] ELSE s[j + 1]
    BY <2>1, RemoveAtProperties
  <2> HIDE DEF w
  <2> DEFINE j == IF i < p THEN i ELSE i - 1
  <2>4. i # p
    BY <2>1
  <2>5. j \in 1..(Len(s) - 1) /\ (j < p => j = i) /\ (~(j < p) => j + 1 = i)
    BY <1>0, <2>1, <2>4
  <2>6. w[j] = s[i]
    BY <2>3, <2>5
  <2> QED BY <2>2, <2>3, <2>5, <2>6
<1> QED BY <1>1, <1>2

\* While it is not full, LRUCache.put loses no key.
LEMMA StoreKeeps ==
  ASSUME NEW s \in Seq(Entry), NEW e \in Entry, NEW n \in Nat, Distinct(s), Len(s) < n
  PROVE  KeysOf(s) \subseteq KeysOf(Store(s, e, n))
<1> DEFINE w == Without(s, e.key)
           g == Append(w, e)
<1>0. Len(s) \in Nat /\ DOMAIN s = 1..Len(s)
  BY LenProperties
<1>1. w \in Seq(Entry) /\ Len(w) \in Nat /\ Len(w) <= Len(s)
  BY WithoutProperties, LenProperties
<1>2. \A i \in 1..Len(s) : s[i].key # e.key => \E j \in 1..Len(w) : w[j] = s[i]
  BY WithoutKeeps
<1> HIDE DEF w
<1>3. /\ g \in Seq(Entry) /\ Len(g) = Len(w) + 1
      /\ \A i \in 1..Len(w) : g[i] = w[i]
      /\ g[Len(w) + 1] = e
  BY <1>1, AppendProperties
<1>4. DOMAIN g = 1..(Len(w) + 1)
  BY <1>3, LenProperties
<1>5. Store(s, e, n) = g
  BY <1>0, <1>1, <1>3 DEF Store, DropEldest, w
<1> HIDE DEF g
<1>6. \A i \in 1..Len(s) : \E j \in DOMAIN g : g[j].key = s[i].key
  <2> TAKE i \in 1..Len(s)
  <2>1. CASE s[i].key = e.key
    BY <1>1, <1>3, <1>4, <2>1
  <2>2. CASE s[i].key # e.key
    <3>1. PICK j \in 1..Len(w) : w[j] = s[i]
      BY <1>2, <2>2
    <3>2. j \in 1..(Len(w) + 1) /\ g[j] = s[i]
      BY <1>1, <1>3, <3>1
    <3> QED BY <1>4, <3>2
  <2> QED BY <2>1, <2>2
<1> QED BY <1>0, <1>5, <1>6 DEF KeysOf

-------------------------------------------------------------------------------
(***************************************************************************)
(* The inductive invariant.                                                *)
(***************************************************************************)

LEMMA AnyCheckType == AnyCheck \in Check
BY ConstantsAssumption DEF AnyCheck

\* The empty cache of Config's static block satisfies the invariant.
LEMMA InitIInv == Init => IInv
<1> SUFFICES ASSUME Init PROVE IInv
  OBVIOUS
<1> USE ConstantsAssumption, AnyCheckType DEF Init
<1>1. cache = <<>> /\ Len(cache) = 0 /\ DOMAIN cache = {}
  OBVIOUS
<1>2. TypeOK
  BY EmptySeq DEF TypeOK, Plugin, Key
<1>3. CacheShape /\ Earned /\ FreshInv
  BY <1>1 DEF CacheShape, Distinct, Earned, FreshInv
<1>4. ThreadInv
  BY DEF ThreadInv
<1> QED BY <1>2, <1>3, <1>4 DEF IInv

\* A step of a thread inside JS.Check other than the put: the cache and the
\* plugin stay, and only that thread's record of its own check changes.
LEMMA ReturnIInv ==
  ASSUME IInv, NEW t \in Thread, Return(t),
         UNCHANGED <<plugin, cache, gen, updateVars, configVars>>
  PROVE  IInv'
<1> USE ConstantsAssumption, AnyCheckType
    DEF IInv, Return, updateVars, configVars
<1>1. TypeOK'
  BY DEF TypeOK, Plugin
<1>2. ThreadInv'
  BY DEF TypeOK, ThreadInv, KeysFor
<1>3. CacheShape' /\ Earned' /\ FreshInv'
  BY DEF CacheShape, Distinct, Earned, FreshInv, Fresh
<1> QED BY <1>1, <1>2, <1>3

\* The start of JS.Check keeps the invariant.
LEMMA BeginIInv ==
  ASSUME IInv, NEW t \in Thread, NEW c \in Check, Begin(t, c)
  PROVE  IInv'
<1> USE ConstantsAssumption DEF IInv, Begin, updateVars, configVars
<1>1. Params[c] \in Buffer /\ HashOf[Params[c]] \in Hash
  OBVIOUS
<1>2. KeyFor(c) \in KeysFor(c) \cup {NoKey} /\ KeyFor(c) \in Key \cup {NoKey}
  BY <1>1 DEF KeyFor, KeysFor, Key
<1>3. TypeOK'
  BY <1>2 DEF TypeOK
<1>4. ThreadInv'
  BY <1>2 DEF TypeOK, ThreadInv
<1>5. CacheShape' /\ Earned' /\ FreshInv'
  BY DEF CacheShape, Distinct, Earned, FreshInv, Fresh
<1> QED BY <1>3, <1>4, <1>5

\* A key that is not found (JS.Check) keeps it.
LEMMA MissIInv ==
  ASSUME IInv, NEW t \in Thread, Miss(t)
  PROVE  IInv'
<1> USE DEF IInv, Miss, updateVars, configVars
<1>1. TypeOK'
  BY DEF TypeOK
<1>2. ThreadInv'
  BY DEF TypeOK, ThreadInv
<1>3. CacheShape' /\ Earned' /\ FreshInv'
  BY DEF CacheShape, Distinct, Earned, FreshInv, Fresh
<1> QED BY <1>1, <1>2, <1>3

\* A clean verdict of V8 keeps it: the verdict comes from an installed plugin.
LEMMA EvaluateCleanIInv ==
  ASSUME IInv, NEW t \in Thread, EvaluateClean(t)
  PROVE  IInv'
<1> USE DEF IInv, EvaluateClean, updateVars, configVars
<1>1. TypeOK'
  BY DEF TypeOK
<1>2. ThreadInv'
  BY ConstantsAssumption DEF TypeOK, ThreadInv, Plugin
<1>3. CacheShape' /\ Earned' /\ FreshInv'
  BY DEF CacheShape, Distinct, Earned, FreshInv, Fresh
<1> QED BY <1>1, <1>2, <1>3

\* Reading Config.commonLRUCache before the put keeps it.
LEMMA FetchCacheIInv ==
  ASSUME IInv, NEW t \in Thread, FetchCache(t)
  PROVE  IInv'
<1> USE DEF IInv, FetchCache, updateVars, configVars
<1>1. TypeOK'
  BY DEF TypeOK
<1>2. ThreadInv'
  BY DEF TypeOK, ThreadInv
<1>3. CacheShape' /\ Earned' /\ FreshInv'
  BY DEF CacheShape, Distinct, Earned, FreshInv, Fresh
<1> QED BY <1>1, <1>2, <1>3

\* The put: the stored entry carries what ThreadInv says of its thread.
LEMMA PutIInv ==
  ASSUME IInv, NEW t \in Thread, Put(t)
  PROVE  IInv'
<1> DEFINE e == [key |-> key[t], by |-> check[t],
                 version |-> seen[t], late |-> late[t]]
<1>0. /\ pc[t] = "storing"
      /\ Return(t)
      /\ UNCHANGED <<plugin, gen, updateVars, configVars>>
  BY DEF Put
<1>1. CASE ref[t] # gen
  <2>1. UNCHANGED <<plugin, cache, gen, updateVars, configVars>>
    BY <1>0, <1>1 DEF Put
  <2> QED BY <1>0, <2>1, ReturnIInv
<1>2. CASE ref[t] = gen
  <2>1. cache' = Store(cache, e, capacity)
    BY <1>2 DEF Put
  <2>2. /\ e \in Entry
        /\ e.version <= plugin
        /\ e.by \notin Flagged[e.version]
        /\ e.key \in KeysFor(e.by)
        /\ Fresh(e)
    BY <1>0 DEF IInv, TypeOK, ThreadInv, Entry, Fresh
  <2>3. cache \in Seq(Entry) /\ capacity \in Nat /\ Distinct(cache) /\ Len(cache) <= capacity
    BY ConstantsAssumption DEF IInv, TypeOK, CacheShape
  <2> HIDE DEF e
  <2>4. /\ cache' \in Seq(Entry)
        /\ Len(cache') <= capacity
        /\ Distinct(cache')
        /\ \A j \in DOMAIN cache' :
             cache'[j] = e \/ (\E i \in DOMAIN cache : cache'[j] = cache[i])
    BY <2>1, <2>2, <2>3, StoreProperties
  <2>5. TypeOK'
    BY <1>0, <2>4, ConstantsAssumption, AnyCheckType
    DEF IInv, TypeOK, Return, updateVars, configVars, Plugin
  <2>6. CacheShape'
    BY <1>0, <2>4 DEF CacheShape, Distinct, configVars
  <2>7. Earned'
    BY <1>0, <2>2, <2>4 DEF IInv, Earned
  <2>8. ThreadInv'
    BY <1>0, AnyCheckType DEF IInv, TypeOK, ThreadInv, Return, KeysFor
  <2>9. FreshInv'
    BY <1>0, <2>2, <2>4 DEF IInv, FreshInv, Fresh, updateVars
  <2> QED BY <2>5, <2>6, <2>7, <2>8, <2>9 DEF IInv
<1> QED BY <1>1, <1>2

\* The steps of JS.UpdatePlugin keep it.
LEMMA UpdateIInv ==
  ASSUME IInv, UpdateStep
  PROVE  IInv'
<1> USE DEF IInv, checkVars, configVars
<1>1. CASE CreateSnapshot
  <2>1. plugin' = plugin + 1 /\ plugin \in Nat
    BY <1>1, ConstantsAssumption DEF CreateSnapshot, TypeOK, Plugin
  <2>2. TypeOK'
    BY <1>1, ConstantsAssumption DEF CreateSnapshot, TypeOK, Plugin
  <2>3. CacheShape' /\ FreshInv'
    BY <1>1 DEF CreateSnapshot, CacheShape, Distinct, FreshInv
  <2>4. Earned'
    <3>1. \A i \in DOMAIN cache : cache[i].version \in Nat
      <4>1. cache \in Seq(Entry)
        BY DEF TypeOK
      <4>2. \A i \in DOMAIN cache : cache[i] \in Entry
        BY <4>1, ElementOfSeq, LenProperties
      <4> QED BY <4>2, ConstantsAssumption DEF Entry, Plugin
    <3> QED BY <1>1, <2>1, <3>1 DEF CreateSnapshot, Earned
  <2>5. ThreadInv'
    <3> SUFFICES ASSUME NEW t \in Thread,
                        pc[t] \in {"clean", "storing"} =>
                          /\ seen[t] <= plugin
                          /\ check[t] \notin Flagged[seen[t]]
                 PROVE  pc[t] \in {"clean", "storing"} =>
                          /\ seen[t] <= plugin'
                          /\ check[t] \notin Flagged[seen[t]]
                          /\ seen[t] = plugin' \/ late'[t]
      BY <1>1 DEF CreateSnapshot, ThreadInv
    <3>1. seen[t] \in Nat /\ late' = [s \in Thread |-> late[s] \/ pc[s] \in {"clean", "storing"}]
      BY <1>1, ConstantsAssumption DEF CreateSnapshot, TypeOK, Plugin
    <3>2. pc[t] \in {"clean", "storing"} => seen[t] <= plugin'
      BY <2>1, <3>1
    <3>3. pc[t] \in {"clean", "storing"} => late'[t]
      BY <3>1, Zenon
    <3> QED BY <3>2, <3>3, Zenon
  <2> QED BY <2>2, <2>3, <2>4, <2>5
<1>2. CASE FetchToClear
  <2>1. TypeOK'
    BY <1>2 DEF FetchToClear, TypeOK
  <2>2. CacheShape' /\ Earned' /\ ThreadInv' /\ FreshInv'
    BY <1>2 DEF FetchToClear, CacheShape, Distinct, Earned, ThreadInv, FreshInv
  <2> QED BY <2>1, <2>2
<1>3. CASE ClearOnUpdate
  <2>1. TypeOK'
    BY <1>3, EmptySeq, ConstantsAssumption DEF ClearOnUpdate, TypeOK
  <2>2. ThreadInv'
    BY <1>3 DEF ClearOnUpdate, ThreadInv
  <2>3. CASE uref = gen
    <3>1. cache' = <<>> /\ Len(cache') = 0 /\ DOMAIN cache' = {}
      BY <1>3, <2>3 DEF ClearOnUpdate
    <3>2. CacheShape' /\ Earned' /\ FreshInv'
      BY <1>3, <3>1, ConstantsAssumption
      DEF ClearOnUpdate, TypeOK, CacheShape, Distinct, Earned, FreshInv
    <3> QED BY <2>1, <2>2, <3>2
  <2>4. CASE uref # gen
    <3>1. CacheShape' /\ Earned' /\ FreshInv'
      BY <1>3, <2>4 DEF ClearOnUpdate, CacheShape, Distinct, Earned, FreshInv, Fresh
    <3> QED BY <2>1, <2>2, <3>1
  <2> QED BY <2>3, <2>4
<1> QED BY <1>1, <1>2, <1>3 DEF UpdateStep

\* A setter that empties the cache.
LEMMA EmptyCacheIInv ==
  ASSUME IInv, TypeOK', cache' = <<>>, UNCHANGED <<plugin, checkVars, updateVars>>
  PROVE  IInv'
<1>1. Len(cache') = 0 /\ DOMAIN cache' = {} /\ capacity' \in Nat
  BY ConstantsAssumption DEF TypeOK
<1>2. CacheShape' /\ Earned' /\ FreshInv'
  BY <1>1 DEF CacheShape, Distinct, Earned, FreshInv
<1>3. ThreadInv'
  BY DEF IInv, ThreadInv, checkVars
<1> QED BY <1>2, <1>3 DEF IInv

\* The setters of the cache settings (ConfigItem.setValue) keep it.
LEMMA ConfigIInv ==
  ASSUME IInv, ConfigStep
  PROVE  IInv'
<1> USE DEF checkVars, updateVars
<1>1. ASSUME NEW n \in Capacity, BeginCapacity(n) PROVE IInv'
  <2>1. TypeOK'
    BY <1>1, EmptySeq, ConstantsAssumption DEF IInv, BeginCapacity, TypeOK
  <2> QED BY <1>1, <2>1, EmptyCacheIInv DEF BeginCapacity
<1>2. CASE ReplaceCache
  <2>1. gen' \in 0..MaxGen
    BY <1>2, ConstantsAssumption DEF IInv, ReplaceCache, TypeOK
  <2>2. TypeOK'
    BY <1>2, <2>1, EmptySeq, ConstantsAssumption DEF IInv, ReplaceCache, TypeOK
  <2> QED BY <1>2, <2>2, EmptyCacheIInv DEF ReplaceCache
<1>3. CASE ClearAfterFlip
  <2>1. TypeOK'
    BY <1>3, EmptySeq DEF IInv, ClearAfterFlip, TypeOK
  <2> QED BY <1>3, <2>1, EmptyCacheIInv DEF ClearAfterFlip
<1>4. CASE FlipCompare
  BY <1>4 DEF FlipCompare, IInv, TypeOK, CacheShape, Distinct, Earned,
              ThreadInv, FreshInv, Fresh
<1>5. ASSUME NEW n \in Limit, BeginLimit(n) PROVE IInv'
  <2>1. TypeOK'
    BY <1>5, EmptySeq, ConstantsAssumption DEF IInv, BeginLimit, TypeOK
  <2>2. CASE n < limit
    BY <1>5, <2>1, <2>2, EmptyCacheIInv DEF BeginLimit
  <2>3. CASE ~(n < limit)
    BY <1>5, <2>1, <2>3 DEF BeginLimit, IInv, CacheShape, Distinct, Earned,
                            ThreadInv, FreshInv, Fresh
  <2> QED BY <2>2, <2>3
<1>6. CASE SetLimit
  BY <1>6, ConstantsAssumption
  DEF SetLimit, IInv, TypeOK, CacheShape, Distinct, Earned, ThreadInv, FreshInv, Fresh
<1> QED BY <1>1, <1>2, <1>3, <1>4, <1>5, <1>6 DEF ConfigStep

\* Every step keeps it.
LEMMA NextIInv == IInv /\ [Next]_vars => IInv'
<1> SUFFICES ASSUME IInv, [Next]_vars PROVE IInv'
  OBVIOUS
<1>1. ASSUME NEW t \in Thread, NEW c \in Check, Begin(t, c) PROVE IInv'
  BY <1>1, BeginIInv
<1>2. ASSUME NEW t \in Thread, CheckStep(t) PROVE IInv'
  <2>1. CASE Hit(t) \/ EvaluateOther(t) \/ SkipStore(t)
    BY <2>1, ReturnIInv DEF Hit, EvaluateOther, SkipStore
  <2>2. CASE Miss(t)
    BY <2>2, MissIInv
  <2>3. CASE EvaluateClean(t)
    BY <2>3, EvaluateCleanIInv
  <2>4. CASE FetchCache(t)
    BY <2>4, FetchCacheIInv
  <2>5. CASE Put(t)
    BY <2>5, PutIInv
  <2> QED BY <1>2, <2>1, <2>2, <2>3, <2>4, <2>5 DEF CheckStep
<1>3. CASE UpdateStep
  BY <1>3, UpdateIInv
<1>4. CASE ConfigStep
  BY <1>4, ConfigIInv
<1>5. CASE UNCHANGED vars
  BY <1>5 DEF vars, checkVars, updateVars, configVars, IInv, TypeOK, CacheShape,
              Distinct, Earned, ThreadInv, FreshInv, Fresh
<1> QED BY <1>1, <1>2, <1>3, <1>4, <1>5 DEF Next

\* IInv holds in every state of every behavior of the cache.
THEOREM Invariance == Spec => []IInv
BY InitIInv, NextIInv, PTL DEF Spec

\* The variables keep their types (all of VerdictCache).
THEOREM TypeCorrect == Spec => []TypeOK
<1>1. IInv => TypeOK
  BY DEF IInv
<1> QED BY <1>1, Invariance, PTL

\* The cache stays within lru.max_size and holds no key twice (LRUCache.put),
\* for any number of threads and any values of the setting.
THEOREM CacheShapeHolds == Spec => []CacheShape
<1>1. IInv => CacheShape
  BY DEF IInv
<1> QED BY <1>1, Invariance, PTL

\* Only clean verdicts of installed plugins are remembered (JS.Check).
THEOREM EarnedHolds == Spec => []Earned
<1>1. IInv => Earned
  BY DEF IInv
<1> QED BY <1>1, Invariance, PTL

\* After JS.UpdatePlugin no verdict of an earlier plugin remains, except from
\* a check that was under way across the installation.
THEOREM NoStaleVerdictHolds == Spec => []NoStaleVerdict
<1>1. IInv => NoStaleVerdict
  BY DEF IInv, FreshInv, NoStaleVerdict
<1> QED BY <1>1, Invariance, PTL

\* A key leaves the cache only with a clear or a replacement, or because the
\* cache was full.
THEOREM EvictOnlyWhenFullHolds == Spec => EvictOnlyWhenFull
<1> DEFINE Kept == \A k \in KeysOf(cache) \ KeysOf(cache') :
                     cache' = <<>> \/ Len(cache) = capacity
<1>1. ASSUME IInv, [Next]_vars, cache' # cache, cache' # <<>>
      PROVE  \E t \in Thread : Put(t) /\ ref[t] = gen
  <2>1. ~UpdateStep
    BY <1>1 DEF UpdateStep, CreateSnapshot, FetchToClear, ClearOnUpdate
  <2>2. ~ConfigStep
    BY <1>1 DEF ConfigStep, BeginCapacity, BeginLimit, ReplaceCache, FlipCompare, ClearAfterFlip,
                SetLimit
  <2>3. PICK t \in Thread : (\E c \in Check : Begin(t, c)) \/ CheckStep(t)
    BY <1>1, <2>1, <2>2 DEF Next, vars
  <2>4. Put(t)
    BY <1>1, <2>3 DEF Begin, CheckStep, Hit, Miss, EvaluateClean, EvaluateOther, SkipStore,
                      FetchCache
  <2> QED
    BY <1>1, <2>4 DEF Put
<1>2. ASSUME IInv, NEW t \in Thread, Put(t), ref[t] = gen PROVE Kept
  <2> DEFINE e == [key |-> key[t], by |-> check[t], version |-> seen[t], late |-> late[t]]
  <2>1. cache' = Store(cache, e, capacity)
    BY <1>2 DEF Put
  <2>2. e \in Entry
    BY <1>2 DEF Put, IInv, TypeOK, ThreadInv, Entry
  <2>3. /\ cache \in Seq(Entry) /\ capacity \in Nat /\ Distinct(cache)
        /\ Len(cache) <= capacity /\ Len(cache) \in Nat
    BY <1>2, ConstantsAssumption, LenProperties DEF IInv, TypeOK, CacheShape
  <2> HIDE DEF e
  <2>4. Len(cache) # capacity => KeysOf(cache) \subseteq KeysOf(cache')
    BY <2>1, <2>2, <2>3, StoreKeeps
  <2> QED BY <2>4
<1>3. IInv /\ [Next]_vars => [Kept]_vars
  <2> SUFFICES ASSUME IInv, [Next]_vars PROVE Kept
    OBVIOUS
  <2>1. CASE cache' = cache
    BY <2>1
  <2> QED BY <1>1, <1>2, <2>1
<1> QED
  BY <1>3, Invariance, PTL DEF Spec, EvictOnlyWhenFull

===============================================================================
