-------------------------- MODULE PhpLogging_proofs --------------------------
(***************************************************************************)
(* Proofs about the limit on the log lines of a process and about the      *)
(* batch of the log agent, for any burst, interval, day and batch.         *)
(*                                                                         *)
(* The limit holds because the tokens that are missing from a full bucket  *)
(* account for every line of the last interval (Window): a refill, which   *)
(* forgets what is missing, comes only when the interval since the latest  *)
(* line has passed, and then no line is in it.                             *)
(***************************************************************************)
EXTENDS PhpLogging, SequenceTheorems, FiniteSetTheorems, WellFoundedInduction, TLAPS

BucketTypeOK ==
  /\ now \in Nat
  /\ tokens \in 0 .. Burst
  /\ last \in Nat
  /\ times \in Seq(Nat)

\* The times are in order, last is the latest, and none is in the future.
Ordered ==
  /\ last <= now
  /\ \A i \in 1 .. Len(times) : times[i] <= last
  /\ \A i, j \in 1 .. Len(times) : i <= j => times[i] <= times[j]

\* The lines of the interval that ends with the latest line have taken tokens
\* that have not come back.
Window ==
  \A i \in 1 .. Len(times) :
    last - times[i] <= Refill => Len(times) - i + 1 <= Burst - tokens

BucketInv == BucketTypeOK /\ Ordered /\ Window /\ AtMostBurst

\* A refill gives at most a full bucket, and nothing before the interval is over.
LEMMA RefilledBounds ==
  ASSUME BucketTypeOK, last <= now
  PROVE  Refilled \in 0 .. Burst /\ (now - last <= Refill => Refilled = tokens)
<1> DEFINE gap == now - last
           q == gap \div Refill
           more == tokens + q * Burst
<1>1. gap \in Nat /\ tokens \in Nat /\ Burst \in Nat /\ tokens <= Burst /\ Refill \in Nat \ {0}
  BY BucketAssumption DEF BucketTypeOK
<1>2. q \in Nat
  BY <1>1
<1> HIDE DEF q
<1>3. q * Burst \in Nat
  BY <1>1, <1>2
<1>4. more \in Nat
  BY <1>1, <1>3
<1>5. Refilled = IF gap > Refill THEN IF more > Burst THEN Burst ELSE more ELSE tokens
  BY DEF Refilled, q
<1> HIDE DEF more, gap
<1>6. Refilled \in 0 .. Burst /\ (gap <= Refill => Refilled = tokens)
  BY <1>1, <1>4, <1>5
<1> QED
  BY <1>6 DEF gap

\* A new line is in order, and it and the lines of the interval before it have
\* taken their tokens.
LEMMA ConsumeKeeps == ASSUME BucketInv, Consume PROVE BucketInv'
<1> USE DEF BucketInv
<1> DEFINE n == Len(times)
<1>1. BucketTypeOK /\ n \in Nat /\ times \in [1 .. n -> Nat]
  BY LenProperties DEF BucketTypeOK
<1>2. now \in Nat /\ last \in Nat /\ tokens \in Int /\ Burst \in Nat /\ Refill \in Nat /\ tokens <= Burst
  BY <1>1, BucketAssumption DEF BucketTypeOK
<1>3. /\ Refilled \in 0 .. Burst /\ Refilled > 0 /\ (now - last <= Refill => Refilled = tokens)
      /\ last <= now
  BY <1>1, RefilledBounds DEF Ordered, Consume
<1>4. tokens' = Refilled - 1 /\ last' = now /\ now' = now /\ times' = Append(times, now)
  BY DEF Consume
<1>5. /\ times' \in Seq(Nat) /\ Len(times') = n + 1 /\ times'[n + 1] = now
      /\ \A i \in 1 .. n : times'[i] = times[i]
  BY <1>1, <1>2, <1>4, AppendProperties DEF BucketTypeOK
<1>6. BucketTypeOK'
  BY <1>2, <1>3, <1>4, <1>5 DEF BucketTypeOK
<1>7. \A i \in 1 .. n + 1 : i \in 1 .. n \/ i = n + 1
  BY <1>1
<1>8. \A i \in 1 .. n : times[i] \in Nat /\ times[i] <= last
  BY <1>1 DEF Ordered
<1>9. Ordered'
  <2>1. \A i \in 1 .. n + 1 : times'[i] <= now
    BY <1>2, <1>3, <1>5, <1>7, <1>8
  <2>2. ASSUME NEW i \in 1 .. n + 1, NEW j \in 1 .. n + 1, i <= j PROVE times'[i] <= times'[j]
    <3>1. CASE j = n + 1
      BY <1>5, <2>1, <3>1
    <3>2. CASE j \in 1 .. n
      <4>1. i \in 1 .. n
        BY <1>1, <2>2, <3>2
      <4> QED
        BY <1>5, <2>2, <3>2, <4>1 DEF Ordered
    <3> QED
      BY <1>7, <3>1, <3>2
  <2> QED
    BY <1>2, <1>4, <1>5, <2>1, <2>2 DEF Ordered
<1>10. ASSUME NEW i \in 1 .. n + 1, now - times'[i] <= Refill
       PROVE  (n + 1) - i + 1 <= Burst - tokens'
  <2>1. CASE i = n + 1
    BY <1>1, <1>2, <1>3, <1>4, <2>1
  <2>2. CASE i \in 1 .. n
    <3>1. now - times[i] <= Refill /\ times[i] \in Nat /\ times[i] <= last
      BY <1>5, <1>8, <1>10, <2>2
    <3>2. now - last <= Refill /\ last - times[i] <= Refill
      BY <1>2, <1>3, <3>1
    <3>3. n - i + 1 <= Burst - tokens
      BY <2>2, <3>2 DEF Window
    <3>4. tokens' = tokens - 1
      BY <1>3, <1>4, <3>2
    <3> QED
      BY <1>1, <1>2, <2>2, <3>3, <3>4
  <2> QED
    BY <1>7, <2>1, <2>2
<1>11. Window'
  BY <1>4, <1>5, <1>10 DEF Window
<1>12. AtMostBurst'
  <2> SUFFICES ASSUME NEW i \in 1 .. n + 1, i + Burst <= n + 1
               PROVE  times'[i + Burst] - times'[i] > Refill
    BY <1>4, <1>5 DEF AtMostBurst
  <2>1. CASE i + Burst = n + 1
    <3>1. ~(now - times'[i] <= Refill)
      <4>1. tokens' >= 0 /\ tokens' \in Int
        BY <1>3, <1>4
      <4>2. ~((n + 1) - i + 1 <= Burst - tokens')
        BY <1>1, <1>2, <2>1, <4>1
      <4> QED
        BY <1>10, <4>2
    <3>2. times'[i] \in Int
      BY <1>2, <1>5, <1>7, <1>8
    <3> QED
      BY <1>2, <1>5, <2>1, <3>1, <3>2
  <2>2. CASE i + Burst # n + 1
    <3>1. i \in 1 .. n /\ i + Burst \in 1 .. n /\ i + Burst <= n
      BY <1>1, <1>2, <2>2
    <3> QED
      BY <1>5, <3>1 DEF AtMostBurst
  <2> QED
    BY <2>1, <2>2
<1> QED
  BY <1>6, <1>9, <1>11, <1>12

\* A refusal writes no line and leaves no token.
LEMMA RefuseKeeps == ASSUME BucketInv, Refuse PROVE BucketInv'
<1>1. BucketTypeOK /\ last <= now
  BY DEF BucketInv, Ordered
<1>2. Refilled \in 0 .. Burst /\ Refilled <= 0
  BY <1>1, RefilledBounds DEF Refuse
<1>3. tokens' = 0 /\ UNCHANGED <<now, last, times>>
  BY <1>2, BucketAssumption DEF Refuse
<1>4. BucketTypeOK'
  BY <1>1, <1>3, BucketAssumption DEF BucketTypeOK
<1>5. ASSUME NEW i \in 1 .. Len(times), last - times[i] <= Refill
      PROVE  Len(times) - i + 1 <= Burst - 0
  <2>1. Len(times) - i + 1 <= Burst - tokens
    BY <1>5 DEF BucketInv, Window
  <2>2. Len(times) \in Nat /\ tokens \in 0 .. Burst
    BY <1>1, LenProperties DEF BucketTypeOK
  <2> QED
    BY <2>1, <2>2, BucketAssumption
<1> QED
  BY <1>3, <1>4, <1>5 DEF BucketInv, Ordered, Window, AtMostBurst

\* The clock only makes the present later.
LEMMA TickKeeps == ASSUME BucketInv, Tick PROVE BucketInv'
<1>1. now' = now + 1 /\ UNCHANGED <<tokens, last, times>>
  BY DEF Tick
<1>2. now \in Nat /\ last \in Nat /\ last <= now
  BY DEF BucketInv, BucketTypeOK, Ordered
<1>3. now' \in Nat /\ last <= now'
  BY <1>1, <1>2
<1> QED
  BY <1>1, <1>3 DEF BucketInv, BucketTypeOK, Ordered, Window, AtMostBurst

\* An empty history satisfies the invariant.
LEMMA BucketInitInv == BucketInit => BucketInv
  BY BucketAssumption, EmptySeq
  DEF BucketInit, BucketInv, BucketTypeOK, Ordered, Window, AtMostBurst

\* The bound on the tokens and what makes it inductive survive every step of
\* comsume_token_if_available.
LEMMA BucketStep == BucketInv /\ [BucketNext]_bucketVars => BucketInv'
<1>1. ASSUME BucketInv, UNCHANGED bucketVars PROVE BucketInv'
  BY <1>1 DEF bucketVars, BucketInv, BucketTypeOK, Ordered, Window, AtMostBurst
<1> QED
  BY <1>1, ConsumeKeeps, RefuseKeeps, TickKeeps DEF BucketNext

\* More than log.maxburst lines of one process take longer than the interval,
\* for any pace of the lines and the clock.
THEOREM BurstIsBounded == BucketSpec => []AtMostBurst
<1>1. BucketInv => AtMostBurst
  BY DEF BucketInv
<1> QED
  BY <1>1, BucketInitInv, BucketStep, PTL DEF BucketSpec

-----------------------------------------------------------------------------
\* The log agent takes no part in the limit: the whole log implements the
\* bucket.
THEOREM LogImplementsBucket == LogSpec => BucketSpec
<1>1. LogInit => BucketInit
  BY DEF LogInit
<1>2. [LogNext]_logVars => [BucketNext]_bucketVars
  <2>1. ASSUME LogNext PROVE BucketNext \/ UNCHANGED bucketVars
    BY <2>1 DEF LogNext, StartRequest, EndRequest, WriteTail, WriteLine, DropLine, Clock,
      AgentNext, ReadPass, PostAccepted, PostFailed, SaveStatus, HandleRotate, Crash,
      BucketNext, writerVars
  <2>2. ASSUME UNCHANGED logVars PROVE UNCHANGED bucketVars
    BY <2>2 DEF logVars, writerVars
  <2> QED
    BY <2>1, <2>2
<1> QED
  BY <1>1, <1>2, PTL DEF LogSpec, BucketSpec

\* The limit holds for the lines of a log that an agent collects.
THEOREM LogIsBounded == LogSpec => []AtMostBurst
  BY LogImplementsBucket, BurstIsBounded, PTL

-----------------------------------------------------------------------------
\* Reading is the only step that takes lines, and it does so with an empty
\* cache; only an accepted upload or a death empties it.
LEMMA ReadIsKeptStep == ReadIsKept /\ [LogNext]_logVars => ReadIsKept'
<1> SUFFICES ASSUME ReadIsKept, [LogNext]_logVars PROVE ReadIsKept'
  OBVIOUS
<1> USE DEF ReadIsKept
<1>1. CASE UNCHANGED logVars
  BY <1>1 DEF logVars, memVars
<1>2. CASE ReadPass
  <2>1. CASE UNCHANGED <<cache, taken>>
    BY <1>2, <2>1 DEF ReadPass
  <2>2. CASE cache = {} /\ taken' = taken \cup cache'
    BY <1>2, <2>2 DEF ReadPass
  <2> QED
    BY <1>2, <2>1, <2>2 DEF ReadPass
<1>3. CASE PostAccepted
  BY <1>3 DEF PostAccepted
<1>4. CASE PostFailed
  BY <1>4 DEF PostFailed, memVars
<1>5. CASE SaveStatus
  BY <1>5 DEF SaveStatus
<1>6. CASE HandleRotate
  BY <1>6 DEF HandleRotate
<1>7. CASE Crash
  BY <1>7 DEF Crash
<1>8. CASE StartRequest \/ EndRequest \/ WriteTail \/ DropLine \/ Clock
          \/ \E part \in {"whole", "head", "other"} : WriteLine(part)
  BY <1>8 DEF StartRequest, EndRequest, WriteTail, DropLine, Clock, WriteLine, AgentUnchanged,
    memVars
<1> QED
  BY <1>1, <1>2, <1>3, <1>4, <1>5, <1>6, <1>7, <1>8 DEF LogNext, AgentNext

\* A line the agent has cached is received or stays cached while the agent
\* lives, over failed uploads and rotations.
THEOREM BatchesAreKept == LogSpec => []ReadIsKept
<1>1. LogInit => ReadIsKept
  BY DEF LogInit, ReadIsKept
<1> QED
  BY <1>1, ReadIsKeptStep, PTL DEF LogSpec

-----------------------------------------------------------------------------
(***************************************************************************)
(* What a batch holds.                                                     *)
(***************************************************************************)

\* A nonempty set of numbers has a least one.
LEMMA LeastOf ==
  ASSUME NEW S \in SUBSET Nat, S # {}
  PROVE  \E m \in S : \A n \in S : m <= n
<1>1. PICK m \in S : \A n \in S : ~ (<<n, m>> \in OpToRel(<, Nat))
  BY NatLessThanWellFounded, WFMin, Zenon
<1>2. \A n \in S : <<n, m>> \in OpToRel(<, Nat) <=> n < m
  BY DEF OpToRel
<1>3. \A n \in S : ~ (n < m)
  BY <1>1, <1>2
<1>4. \A n \in S : n \in Nat
  OBVIOUS
<1>5. \A n \in S : m <= n
  BY <1>3, <1>4
<1> QED
  BY <1>5

\* A nonempty bounded set of numbers has a greatest one.
LEMMA GreatestOf ==
  ASSUME NEW S \in SUBSET Nat, S # {}, NEW b \in Nat, \A n \in S : n <= b
  PROVE  \E m \in S : \A n \in S : n <= m
<1> DEFINE Rest == {b - n : n \in S}
<1>1. \A n \in S : n \in Nat /\ b - n \in Nat
  OBVIOUS
<1>2. Rest \in SUBSET Nat /\ Rest # {}
  BY <1>1
<1>3. PICK r \in Rest : \A t \in Rest : r <= t
  BY <1>2, LeastOf
<1>4. PICK m \in S : r = b - m
  OBVIOUS
<1>5. \A n \in S : b - m <= b - n
  BY <1>3, <1>4
<1>6. \A n \in S : n <= m
  BY <1>1, <1>5
<1> QED
  BY <1>6

\* The places where a line begins are finitely many, and a qualified one is no
\* second part.
LEMMA Starts ==
  ASSUME NEW f \in Seq(Entry), NEW p \in 0 .. Len(f)
  PROVE  /\ LineStarts(f, p) \in SUBSET (p .. Len(f) - 1)
         /\ LineStarts(f, p) \in SUBSET Nat
         /\ IsFiniteSet(LineStarts(f, p))
         /\ \A q \in LineStarts(f, p) :
              /\ f[q + 1] \in Entry
              /\ LineEnd(f, q) \in Nat /\ q < LineEnd(f, q) /\ LineEnd(f, q) <= Len(f)
              /\ LineEnd(f, q) # q + 1 => LineEnd(f, q) = q + 2 /\ f[q + 1].part = "head"
              /\ Qualified(f, q) => f[q + 1].part # "tail"
<1>1. Len(f) \in Nat /\ \A i \in 1 .. Len(f) : f[i] \in Entry
  BY LenProperties
<1>2. IsFiniteSet(p .. Len(f) - 1)
  BY <1>1, FS_Interval
<1>3. LineStarts(f, p) \in SUBSET (p .. Len(f) - 1)
  BY DEF LineStarts
<1>4. LineStarts(f, p) \in SUBSET Nat /\ IsFiniteSet(LineStarts(f, p))
  BY <1>1, <1>2, <1>3, FS_Subset
<1>5. ASSUME NEW q \in LineStarts(f, p)
      PROVE  /\ f[q + 1] \in Entry
             /\ LineEnd(f, q) \in Nat /\ q < LineEnd(f, q) /\ LineEnd(f, q) <= Len(f)
             /\ LineEnd(f, q) # q + 1 => LineEnd(f, q) = q + 2 /\ f[q + 1].part = "head"
             /\ Qualified(f, q) => f[q + 1].part # "tail"
  <2>1. q \in Nat /\ q + 1 \in 1 .. Len(f)
    BY <1>1, <1>3
  <2> QED
    BY <1>1, <2>1 DEF LineEnd, Qualified
<1> QED
  BY <1>3, <1>4, <1>5

\* What refresh_cache_body makes of a file, for any bound on the batch: it
\* caches at most that many lines, none of them a second part, moves forwards in
\* the file, and caches or skips everything it passes.
LEMMA ReadUpToResult ==
  ASSUME NEW f \in Seq(Entry), WellFormed(f), NEW p \in 0 .. Len(f), NEW max \in Nat \ {0}
  PROVE  LET b == ReadUpTo(f, p, max)
         IN  /\ b.lines \subseteq Line /\ Cardinality(b.lines) <= max
             /\ b.skip \subseteq Line
             /\ b.pos \in p .. Len(f)
             /\ \A n \in b.lines : \E i \in p + 1 .. b.pos : f[i].part # "tail" /\ f[i].id = n
             /\ \A i \in p + 1 .. b.pos : f[i].id \in b.lines \cup b.skip
<1> DEFINE starts == LineStarts(f, p)
           upTo(q) == {r \in starts : r <= q}
           batch == {q \in starts : Cardinality(upTo(q)) <= max /\ \A r \in upTo(q) : Qualified(f, r)}
           rest == starts \ batch
           stop == CHOOSE q \in rest : \A r \in rest : q <= r
           lines == {f[q + 1].id : q \in batch}
           skip == IF rest = {} THEN {} ELSE {f[stop + 1].id}
           end == IF rest = {} THEN Len(f) ELSE LineEnd(f, stop)
<1>1. ReadUpTo(f, p, max) = [lines |-> lines, skip |-> skip, pos |-> end]
  BY DEF ReadUpTo
<1>2. /\ starts \in SUBSET (p .. Len(f) - 1) /\ starts \in SUBSET Nat /\ IsFiniteSet(starts)
      /\ \A q \in starts :
           /\ f[q + 1] \in Entry
           /\ LineEnd(f, q) \in Nat /\ q < LineEnd(f, q) /\ LineEnd(f, q) <= Len(f)
           /\ LineEnd(f, q) # q + 1 => LineEnd(f, q) = q + 2 /\ f[q + 1].part = "head"
           /\ Qualified(f, q) => f[q + 1].part # "tail"
  BY Starts
<1>3. Len(f) \in Nat /\ p \in Nat /\ p <= Len(f) /\ (\A i \in 1 .. Len(f) : f[i] \in Entry)
  BY LenProperties
<1>4. \A q \in batch : q \in starts /\ q \in upTo(q) /\ Qualified(f, q)
  BY <1>2
<1>5. batch \in SUBSET starts /\ IsFiniteSet(batch) /\ Cardinality(batch) \in Nat
  BY <1>2, FS_Subset, FS_CardinalityType
<1>6. Cardinality(batch) <= max
  <2>1. CASE batch = {}
    <3>1. Cardinality(batch) = 0
      BY <2>1, FS_EmptySet, Zenon
    <3> QED
      BY <3>1
  <2>2. CASE batch # {}
    <3>1. PICK m \in batch : \A q \in batch : q <= m
      <4> HIDE DEF batch, starts
      <4>1. batch \in SUBSET Nat /\ \A q \in batch : q <= Len(f)
        BY <1>2, <1>3, <1>5
      <4> QED
        BY <1>3, <2>2, <4>1, GreatestOf
    <3>2. batch \subseteq upTo(m)
      BY <1>5, <3>1
    <3>3. IsFiniteSet(upTo(m)) /\ Cardinality(upTo(m)) \in Nat
      BY <1>2, FS_Subset, FS_CardinalityType
    <3>4. Cardinality(batch) <= Cardinality(upTo(m))
      BY <3>2, <3>3, FS_Subset
    <3>5. Cardinality(upTo(m)) <= max
      BY <3>1
    <3> QED
      BY <1>5, <3>3, <3>4, <3>5
  <2> QED
    BY <2>1, <2>2
<1>7. Cardinality(lines) <= max
  <2> DEFINE idOf == [q \in batch |-> f[q + 1].id]
  <2>1. idOf \in Surjection(batch, lines)
    BY DEF Surjection
  <2>2. IsFiniteSet(lines) /\ Cardinality(lines) <= Cardinality(batch)
    BY <1>5, <2>1, FS_Surjection
  <2>3. Cardinality(lines) \in Nat
    BY <2>2, FS_CardinalityType
  <2> QED
    BY <1>5, <1>6, <2>2, <2>3
<1>8. rest # {} => stop \in rest /\ \A r \in rest : stop <= r
  <2> SUFFICES ASSUME rest # {} PROVE stop \in rest /\ \A r \in rest : stop <= r
    OBVIOUS
  <2>1. rest \in SUBSET Nat
    BY <1>2
  <2>2. \E q \in rest : \A r \in rest : q <= r
    BY <2>1, LeastOf
  <2> QED
    BY <2>2
<1>ordered. ASSUME NEW q \in batch, NEW r \in rest PROVE q < r
  <2> SUFFICES ASSUME r <= q PROVE r \in batch
    BY <1>2, <1>5
  <2>1. upTo(r) \subseteq upTo(q)
    BY <1>2, <1>5
  <2>2. IsFiniteSet(upTo(q)) /\ Cardinality(upTo(q)) \in Nat /\ IsFiniteSet(upTo(r)) /\ Cardinality(upTo(r)) \in Nat
    BY <1>2, FS_Subset, FS_CardinalityType
  <2>3. Cardinality(upTo(r)) <= Cardinality(upTo(q))
    BY <2>1, <2>2, FS_Subset
  <2> QED
    BY <2>1, <2>2, <2>3
<1> HIDE DEF batch, stop, rest
<1>9. rest \subseteq starts /\ starts \subseteq batch \cup rest
  BY DEF rest
<1>10. lines \subseteq Line /\ skip \subseteq Line
  BY <1>2, <1>4, <1>8, <1>9 DEF Entry
<1>11. end \in p .. Len(f)
  <2>1. CASE rest = {}
    BY <1>3, <2>1
  <2>2. CASE rest # {}
    <3>1. stop \in starts /\ p <= stop /\ stop \in Nat
      BY <1>2, <1>3, <1>8, <1>9, <2>2
    <3> QED
      BY <1>2, <1>3, <2>2, <3>1
  <2> QED
    BY <2>1, <2>2
<1>12. ASSUME NEW n \in lines PROVE \E i \in p + 1 .. end : f[i].part # "tail" /\ f[i].id = n
  <2>1. PICK q \in batch : n = f[q + 1].id
    OBVIOUS
  <2>2. q + 1 \in p + 1 .. Len(f) /\ f[q + 1].part # "tail"
    BY <1>2, <1>3, <1>4
  <2>3. q + 1 <= end
    <3>1. CASE rest = {}
      BY <2>2, <3>1
    <3>2. CASE rest # {}
      BY <1>2, <1>4, <1>8, <1>9, <1>ordered, <3>2
    <3> QED
      BY <3>1, <3>2
  <2> QED
    BY <1>3, <1>11, <2>1, <2>2, <2>3
\* A beginning before the end is in the batch, or it is the line that stopped the loop.
<1>13. ASSUME NEW q \in starts, q < end PROVE f[q + 1].id \in lines \cup skip
  <2>1. CASE q \in batch
    BY <2>1
  <2>2. CASE q \in rest
    <3>1. stop \in starts /\ stop <= q /\ q < LineEnd(f, stop) /\ end = LineEnd(f, stop)
      BY <1>8, <1>9, <1>13, <2>2
    <3>2. q = stop \/ (q = stop + 1 /\ LineEnd(f, stop) = stop + 2 /\ f[stop + 1].part = "head")
      BY <1>2, <3>1
    <3>3. CASE q = stop
      BY <2>2, <3>3
    <3>4. CASE q = stop + 1 /\ LineEnd(f, stop) = stop + 2 /\ f[stop + 1].part = "head"
      <4>1. q # p /\ stop + 1 \in 1 .. Len(f) /\ stop + 2 \in 1 .. Len(f) /\ stop + 1 < Len(f)
            /\ (stop + 1) + 1 = stop + 2
        BY <1>2, <1>3, <3>1, <3>4
      <4>2. f[stop + 2].part = "tail"
        BY <3>4, <4>1 DEF WellFormed
      <4>3. f[q + 1].part # "tail"
        BY <4>1 DEF LineStarts
      <4> QED
        BY <1>2, <3>1, <3>4, <4>2, <4>3
    <3> QED
      BY <3>2, <3>3, <3>4
  <2> QED
    BY <1>9, <2>1, <2>2
<1>14. ASSUME NEW i \in p + 1 .. end PROVE f[i].id \in lines \cup skip
  <2>1. end \in Nat /\ i \in 1 .. Len(f) /\ i - 1 \in p .. Len(f) - 1 /\ i - 1 + 1 = i
    BY <1>3, <1>11
  <2>2. CASE i - 1 \in starts
    BY <1>3, <1>11, <1>13, <2>1, <2>2
  <2>3. CASE i - 1 \notin starts
    <3>1. f[i].part = "tail" /\ i - 1 # p
      BY <2>1, <2>3 DEF LineStarts
    <3>2. i > 1 /\ f[i - 1] = [id |-> f[i].id, part |-> "head"]
      BY <2>1, <3>1 DEF WellFormed
    <3>3. i - 2 \in p .. Len(f) - 1 /\ i - 2 + 1 = i - 1 /\ i - 2 < end
      BY <1>3, <2>1, <3>1, <3>2
    <3>4. i - 2 \in starts
      BY <3>2, <3>3 DEF LineStarts
    <3> QED
      BY <1>13, <3>2, <3>3, <3>4
  <2> QED
    BY <2>2, <2>3
<1> HIDE DEF lines, skip, end
<1> QED
  BY <1>1, <1>7, <1>10, <1>11, <1>12, <1>14

-----------------------------------------------------------------------------
(***************************************************************************)
(* The files.                                                              *)
(***************************************************************************)

\* The clock stays in its bounds and so do the times of the lines.
ClockInv == BucketInv /\ now <= MaxTime

\* A later moment is not on an earlier day.
LEMMA LaterDay ==
  ASSUME NEW s \in Nat, NEW t \in Nat, s <= t
  PROVE  Day(s) \in Nat /\ Day(s) <= Day(t)
<1> DEFINE q == s \div DayLen
           r == t \div DayLen
<1>1. DayLen \in Nat /\ DayLen > 0
  BY LogAssumption
<1>2. q \in Nat /\ r \in Nat /\ DayLen * q <= s /\ t < DayLen * (r + 1)
  BY <1>1
<1> HIDE DEF q, r
<1>3. ASSUME r + 1 <= q PROVE DayLen * (r + 1) <= DayLen * q
  BY <1>1, <1>2, <1>3
<1>4. DayLen * (r + 1) \in Nat /\ DayLen * q \in Nat
  BY <1>1, <1>2
<1>5. q <= r
  BY <1>2, <1>3, <1>4
<1> QED
  BY <1>2, <1>5 DEF Day, q, r

\* The present day is one of the days, and so is the day a line goes to.
LEMMA TodayIsDay ==
  ASSUME ClockInv
  PROVE  /\ Today \in DaySet /\ Today \in Nat
         /\ wday \in DaySet \cup {NoDay} => Target \in DaySet
         /\ NoDay \notin DaySet /\ NoDay \in Int /\ \A d \in DaySet : d \in Nat /\ NoDay < d
<1>1. now \in Nat /\ MaxTime \in Nat /\ now <= MaxTime
  BY BucketAssumption DEF ClockInv, BucketInv, BucketTypeOK
<1>2. Today \in Nat /\ Today <= Day(MaxTime) /\ Day(MaxTime) \in Nat
  BY <1>1, LaterDay DEF Today
<1>3. DaySet = 0 .. Day(MaxTime)
  BY DEF DaySet, Day
<1>4. Today \in DaySet
  BY <1>2, <1>3
<1>5. NoDay \notin DaySet /\ NoDay \in Int /\ \A d \in DaySet : d \in Nat /\ NoDay < d
  BY <1>2, <1>3 DEF NoDay
<1> QED
  BY <1>2, <1>4, <1>5 DEF Target

\* Appending to the file of a day leaves what it holds, and the other files.
LEMMA Appended ==
  ASSUME file \in [DaySet -> Seq(Entry)], NEW d \in DaySet, NEW e \in Entry,
         file' = [file EXCEPT ![d] = Append(@, e)]
  PROVE  /\ file' \in [DaySet -> Seq(Entry)]
         /\ \A x \in DaySet :
              /\ Len(file[x]) \in Nat /\ Len(file'[x]) \in Nat
              /\ x # d => file'[x] = file[x]
              /\ Len(file[x]) <= Len(file'[x])
              /\ \A i \in 1 .. Len(file[x]) : file[x][i] \in Entry /\ file'[x][i] = file[x][i]
         /\ Len(file'[d]) = Len(file[d]) + 1 /\ file'[d][Len(file[d]) + 1] = e
         /\ file'[d] # <<>>
<1>1. file[d] \in Seq(Entry) /\ file'[d] = Append(file[d], e)
  OBVIOUS
<1>2. /\ Append(file[d], e) \in Seq(Entry) /\ Append(file[d], e) # <<>>
      /\ Len(Append(file[d], e)) = Len(file[d]) + 1
      /\ Append(file[d], e)[Len(file[d]) + 1] = e
      /\ \A i \in 1 .. Len(file[d]) : Append(file[d], e)[i] = file[d][i]
  BY <1>1, AppendProperties
<1>3. file' \in [DaySet -> Seq(Entry)]
  BY <1>1, <1>2
<1>4. \A x \in DaySet : x # d => file'[x] = file[x]
  OBVIOUS
<1>5. ASSUME NEW x \in DaySet
      PROVE  /\ Len(file[x]) \in Nat /\ Len(file'[x]) \in Nat
             /\ Len(file[x]) <= Len(file'[x])
             /\ \A i \in 1 .. Len(file[x]) : file[x][i] \in Entry /\ file'[x][i] = file[x][i]
  <2>1. file[x] \in Seq(Entry) /\ file'[x] \in Seq(Entry)
    BY <1>3
  <2>2. /\ Len(file[x]) \in Nat /\ Len(file'[x]) \in Nat
        /\ \A i \in 1 .. Len(file[x]) : file[x][i] \in Entry
    BY <2>1, LenProperties
  <2>3. CASE x = d
    BY <1>1, <1>2, <2>2, <2>3
  <2>4. CASE x # d
    BY <1>4, <2>2, <2>4
  <2> QED
    BY <2>3, <2>4
<1> QED
  BY <1>1, <1>2, <1>3, <1>4, <1>5

\* What a file already holds stays, and what is added is a new line or the
\* second part of one.
FilesGrow ==
  /\ Len(times) \in Nat /\ Len(times') \in Nat /\ Len(times) <= Len(times')
  /\ \A x \in DaySet :
       /\ Len(file[x]) \in Nat /\ Len(file'[x]) \in Nat /\ Len(file[x]) <= Len(file'[x])
       /\ \A i \in 1 .. Len(file[x]) : file'[x][i] = file[x][i]
       /\ \A i \in 1 .. Len(file'[x]) :
            i \in 1 .. Len(file[x]) \/ file'[x][i].part = "tail" \/ file'[x][i].id > Len(times)

\* A step that leaves the files and the number of lines.
LEMMA SameFiles ==
  ASSUME WriterInv, UNCHANGED <<file, times, half>>, half => Target' = Target,
         wday' \in DaySet \cup {NoDay}, drops' \in Nat, Len(times) + drops' <= MaxLines
  PROVE  WriterInv'
<1>1. OneOpen'
  BY DEF WriterInv, OneOpen, Open
<1>2. Distinct'
  BY DEF WriterInv, Distinct
<1> QED
  BY <1>1, <1>2 DEF WriterInv, WellFormed

\* A new line, perhaps only its first part, goes to the end of a file without
\* an open line.
LEMMA WriteLineKeeps ==
  ASSUME ClockInv, WriterInv, NEW part \in {"whole", "head", "other"}, WriteLine(part)
  PROVE  WriterInv' /\ FilesGrow
<1> DEFINE n == Len(times)
           e == [id |-> n + 1, part |-> part]
           d == Target
           k == Len(file[d])
<1>1. /\ file \in [DaySet -> Seq(Entry)] /\ wday \in DaySet \cup {NoDay} /\ ~half
      /\ n \in Nat /\ drops \in Nat /\ MaxLines \in Nat
  BY LenProperties, BucketAssumption DEF WriterInv, WriteLine, ClockInv, BucketInv, BucketTypeOK
<1>2. n + drops < MaxLines /\ times' = Append(times, now) /\ Len(times') = n + 1
      /\ UNCHANGED <<now, drops, wday>> /\ half' = (part = "head")
      /\ file' = [file EXCEPT ![d] = Append(@, e)]
  <2>1. times \in Seq(Nat) /\ now \in Nat
    BY DEF ClockInv, BucketInv, BucketTypeOK
  <2>2. Len(Append(times, now)) = n + 1
    BY <2>1, AppendProperties
  <2> QED
    BY <2>2 DEF WriteLine, Consume, Offered
<1>3. d \in DaySet /\ Target' = d
  BY <1>1, <1>2, TodayIsDay DEF Target, Today
<1>4. e \in Entry
  BY <1>1, <1>2 DEF Entry, Line
<1> HIDE DEF e, d
<1>5. /\ file' \in [DaySet -> Seq(Entry)]
      /\ \A x \in DaySet :
           /\ Len(file[x]) \in Nat /\ Len(file'[x]) \in Nat
           /\ x # d => file'[x] = file[x]
           /\ Len(file[x]) <= Len(file'[x])
           /\ \A i \in 1 .. Len(file[x]) : file[x][i] \in Entry /\ file'[x][i] = file[x][i]
      /\ Len(file'[d]) = k + 1 /\ file'[d][k + 1] = e /\ file'[d] # <<>>
  BY <1>1, <1>2, <1>3, <1>4, Appended
<1>6. e.id = n + 1 /\ e.part = part /\ e.part # "tail"
  BY DEF e
<1>7. \A x \in DaySet : ~Open(file[x])
  BY <1>1 DEF WriterInv, OneOpen
<1>8. \A x \in DaySet : \A i \in 1 .. Len(file'[x]) :
        i \in 1 .. Len(file[x]) \/ (x = d /\ i = k + 1)
  BY <1>5
<1>9. \A x \in DaySet : \A i \in 1 .. Len(file[x]) : file[x][i].id \in Nat /\ file[x][i].id <= n
  <2> SUFFICES ASSUME NEW x \in DaySet, NEW i \in 1 .. Len(file[x])
               PROVE  file[x][i].id \in Nat /\ file[x][i].id <= n
    OBVIOUS
  <2>1. file[x][i] \in Entry
    BY <1>5
  <2>2. file[x][i].id \in Nat
    BY <2>1 DEF Entry, Line
  <2>3. file[x][i].id <= n
    BY DEF WriterInv
  <2> QED
    BY <2>2, <2>3
<1>10. ASSUME NEW x \in DaySet PROVE WellFormed(file'[x])
  <2>1. WellFormed(file[x])
    BY DEF WriterInv
  <2>2. CASE x # d
    BY <1>5, <2>1, <2>2
  <2>3. CASE x = d
    <3> SUFFICES ASSUME NEW i \in 1 .. k + 1
                 PROVE  /\ file'[d][i].part = "tail" =>
                             i > 1 /\ file'[d][i - 1] = [id |-> file'[d][i].id, part |-> "head"]
                        /\ file'[d][i].part = "head" /\ i < k + 1 => file'[d][i + 1].part = "tail"
      BY <1>5, <2>3 DEF WellFormed
    <3>1. CASE i = k + 1
      BY <1>3, <1>5, <1>6, <3>1
    <3>2. CASE i \in 1 .. k
      <4>0. k \in Nat /\ \A j \in 1 .. k : file'[d][j] = file[d][j]
        BY <1>3, <1>5
      <4>1. file'[d][i] = file[d][i] /\ (i > 1 => i - 1 \in 1 .. k /\ file'[d][i - 1] = file[d][i - 1])
        BY <3>2, <4>0
      <4>2. file[d][i].part = "head" => i < k
        <5>1. file[d] # <<>>
          BY <1>3, <1>5, <3>2
        <5> QED
          BY <1>3, <1>5, <1>7, <3>2, <5>1 DEF Open
      <4>3. i < k => i + 1 \in 1 .. k /\ file'[d][i + 1] = file[d][i + 1]
        BY <1>3, <1>5, <3>2
      <4> QED
        BY <2>1, <2>3, <3>2, <4>1, <4>2, <4>3 DEF WellFormed
    <3> QED
      BY <1>3, <1>5, <3>1, <3>2
  <2> QED
    BY <2>2, <2>3
<1>11. ASSUME NEW x \in DaySet, NEW i \in 1 .. Len(file'[x]) PROVE file'[x][i].id <= n + 1
  BY <1>1, <1>5, <1>6, <1>8, <1>9
<1>12. OneOpen'
  <2>1. ASSUME NEW x \in DaySet, Open(file'[x]) PROVE half' /\ x = d
    <3>1. x = d
      BY <1>5, <1>7, <2>1
    <3> QED
      BY <1>2, <1>5, <1>6, <2>1, <3>1 DEF Open
  <2>2. half' => Open(file'[d]) /\ file'[d][Len(file'[d])].id = Len(times')
    BY <1>2, <1>5, <1>6 DEF Open
  <2> QED
    BY <1>3, <2>1, <2>2 DEF OneOpen, Open
<1>13. Distinct'
  <2> SUFFICES ASSUME NEW x \in DaySet, NEW y \in DaySet,
                      NEW i \in 1 .. Len(file'[x]), NEW j \in 1 .. Len(file'[y]),
                      file'[x][i].part # "tail", file'[y][j].part # "tail",
                      file'[x][i].id = file'[y][j].id
               PROVE  x = y /\ i = j
    BY DEF Distinct
  <2>1. CASE i \in 1 .. Len(file[x]) /\ j \in 1 .. Len(file[y])
    <3>1. file'[x][i] = file[x][i] /\ file'[y][j] = file[y][j]
      BY <1>5, <2>1
    <3>2. Distinct
      BY DEF WriterInv
    <3> QED
      BY <2>1, <3>1, <3>2 DEF Distinct
  <2>2. CASE i \in 1 .. Len(file[x]) /\ y = d /\ j = k + 1
    BY <1>1, <1>5, <1>6, <1>9, <2>2
  <2>3. CASE j \in 1 .. Len(file[y]) /\ x = d /\ i = k + 1
    BY <1>1, <1>5, <1>6, <1>9, <2>3
  <2> QED
    BY <1>8, <2>1, <2>2, <2>3
<1>14. half' \in BOOLEAN /\ Len(times') + drops' <= MaxLines
  BY <1>1, <1>2
<1>15. WriterInv'
  BY <1>1, <1>2, <1>5, <1>10, <1>11, <1>12, <1>13, <1>14 DEF WriterInv
<1>16. FilesGrow
  <2>1. \A x \in DaySet : \A i \in 1 .. Len(file'[x]) :
          i \in 1 .. Len(file[x]) \/ file'[x][i].id > n
    BY <1>1, <1>5, <1>6, <1>8
  <2> QED
    BY <1>1, <1>2, <1>5, <2>1 DEF FilesGrow
<1> QED
  BY <1>15, <1>16

\* The second part of a line follows its first.
LEMMA WriteTailKeeps == ASSUME ClockInv, WriterInv, WriteTail PROVE WriterInv' /\ FilesGrow
<1> DEFINE n == Len(times)
           e == [id |-> n, part |-> "tail"]
           d == Target
           k == Len(file[d])
<1>1. /\ file \in [DaySet -> Seq(Entry)] /\ wday \in DaySet \cup {NoDay} /\ half
      /\ half' = FALSE /\ UNCHANGED <<now, times, drops, wday>>
      /\ file' = [file EXCEPT ![d] = Append(@, e)]
  BY DEF WriterInv, WriteTail, bucketVars
<1>2. d \in DaySet /\ Target' = d
  BY <1>1, TodayIsDay DEF Target, Today
<1>3. file[d] # <<>> /\ file[d][k].part = "head" /\ file[d][k].id = n
  BY <1>1 DEF WriterInv, OneOpen, Open
<1>4. k \in Nat /\ k \in 1 .. k /\ file[d][k] = [id |-> n, part |-> "head"] /\ n \in Line
  <2>1. file[d] \in Seq(Entry)
    BY <1>1, <1>2
  <2>2. k \in Nat /\ k # 0
    BY <1>3, <2>1, LenProperties, EmptySeq
  <2>3. file[d][k] \in Entry
    BY <2>1, <2>2, LenProperties
  <2> QED
    BY <1>3, <2>2, <2>3 DEF Entry
<1>5. e \in Entry
  BY <1>4 DEF Entry
<1> HIDE DEF e, d
<1>6. /\ file' \in [DaySet -> Seq(Entry)]
      /\ \A x \in DaySet :
           /\ Len(file[x]) \in Nat /\ Len(file'[x]) \in Nat
           /\ x # d => file'[x] = file[x]
           /\ Len(file[x]) <= Len(file'[x])
           /\ \A i \in 1 .. Len(file[x]) : file[x][i] \in Entry /\ file'[x][i] = file[x][i]
      /\ Len(file'[d]) = k + 1 /\ file'[d][k + 1] = e /\ file'[d] # <<>>
  BY <1>1, <1>2, <1>5, Appended
<1>7. e.id = n /\ e.part = "tail"
  BY DEF e
<1>8. \A x \in DaySet : \A i \in 1 .. Len(file'[x]) :
        i \in 1 .. Len(file[x]) \/ (x = d /\ i = k + 1)
  BY <1>6
<1>9. ASSUME NEW x \in DaySet PROVE WellFormed(file'[x])
  <2>1. WellFormed(file[x])
    BY DEF WriterInv
  <2>2. CASE x # d
    BY <1>6, <2>1, <2>2
  <2>3. CASE x = d
    <3> SUFFICES ASSUME NEW i \in 1 .. k + 1
                 PROVE  /\ file'[d][i].part = "tail" =>
                             i > 1 /\ file'[d][i - 1] = [id |-> file'[d][i].id, part |-> "head"]
                        /\ file'[d][i].part = "head" /\ i < k + 1 => file'[d][i + 1].part = "tail"
      BY <1>6, <2>3 DEF WellFormed
    <3>1. CASE i = k + 1
      <4>1. i - 1 = k /\ file'[d][k] = file[d][k] /\ file'[d][i] = e /\ i > 1
        BY <1>2, <1>4, <1>6, <3>1
      <4> QED
        BY <1>4, <1>7, <3>1, <4>1
    <3>2. CASE i \in 1 .. k
      <4>1. file'[d][i] = file[d][i] /\ (i > 1 => i - 1 \in 1 .. k /\ file'[d][i - 1] = file[d][i - 1])
        BY <1>2, <1>6, <3>2
      <4>2. i < k => i + 1 \in 1 .. k /\ file'[d][i + 1] = file[d][i + 1]
        BY <1>2, <1>6, <3>2
      <4>3. i = k => file'[d][i + 1].part = "tail"
        BY <1>6, <1>7
      <4> QED
        BY <1>4, <2>1, <2>3, <3>2, <4>1, <4>2, <4>3 DEF WellFormed
    <3> QED
      BY <1>4, <3>1, <3>2
  <2> QED
    BY <2>2, <2>3
<1>10. ASSUME NEW x \in DaySet, NEW i \in 1 .. Len(file'[x]) PROVE file'[x][i].id <= n
  <2>1. n <= n
    BY <1>4 DEF Line
  <2> QED
    BY <1>6, <1>7, <1>8, <2>1 DEF WriterInv
<1>11. OneOpen'
  <2>1. ASSUME NEW x \in DaySet PROVE ~Open(file'[x])
    <3>1. CASE x # d
      BY <1>6, <3>1 DEF WriterInv, OneOpen, d
    <3>2. CASE x = d
      BY <1>6, <1>7, <3>2 DEF Open
    <3> QED
      BY <3>1, <3>2
  <2> QED
    BY <1>1, <2>1 DEF OneOpen, Open
<1>12. Distinct'
  <2> SUFFICES ASSUME NEW x \in DaySet, NEW y \in DaySet,
                      NEW i \in 1 .. Len(file'[x]), NEW j \in 1 .. Len(file'[y]),
                      file'[x][i].part # "tail", file'[y][j].part # "tail",
                      file'[x][i].id = file'[y][j].id
               PROVE  x = y /\ i = j
    BY DEF Distinct
  <2>1. i \in 1 .. Len(file[x]) /\ j \in 1 .. Len(file[y])
    BY <1>6, <1>7, <1>8
  <2> QED
    BY <1>6, <2>1 DEF WriterInv, Distinct
<1>13. WriterInv'
  BY <1>1, <1>6, <1>9, <1>10, <1>11, <1>12 DEF WriterInv
<1>14. FilesGrow
  <2>1. n \in Nat /\ n <= n /\ Len(times') = n
    BY <1>1, <1>4 DEF Line
  <2>2. \A x \in DaySet : \A i \in 1 .. Len(file'[x]) :
          i \in 1 .. Len(file[x]) \/ file'[x][i].part = "tail"
    BY <1>6, <1>7, <1>8
  <2> QED
    BY <1>6, <2>1, <2>2 DEF FilesGrow
<1> QED
  BY <1>13, <1>14

\* A step without a line leaves the files.
LEMMA NothingGrows ==
  ASSUME WriterInv, times \in Seq(Nat), UNCHANGED <<file, times>>
  PROVE  FilesGrow
<1>1. Len(times) \in Nat
  BY LenProperties
<1>2. \A x \in DaySet : Len(file[x]) \in Nat
  BY LenProperties DEF WriterInv
<1> QED
  BY <1>1, <1>2 DEF FilesGrow

\* Every step keeps the files in order, and only adds to them; the days go on.
LEMMA WriterStep ==
  ASSUME ClockInv, WriterInv, [LogNext]_logVars
  PROVE  ClockInv' /\ WriterInv' /\ FilesGrow /\ Today <= Today'
<1>1. [BucketNext]_bucketVars
  BY DEF LogNext, StartRequest, EndRequest, WriteTail, WriteLine, DropLine, Clock,
    AgentNext, ReadPass, PostAccepted, PostFailed, SaveStatus, HandleRotate, Crash,
    BucketNext, writerVars, logVars
<1>2. BucketInv'
  BY <1>1, BucketStep DEF ClockInv
<1>3. /\ now \in Nat /\ now' \in Nat /\ MaxTime \in Nat /\ MaxLines \in Nat
      /\ times \in Seq(Nat) /\ Len(times) \in Nat
  BY <1>2, LenProperties, BucketAssumption DEF ClockInv, BucketInv, BucketTypeOK
<1>4. now <= now' /\ now' <= MaxTime
  BY <1>1, <1>3 DEF BucketNext, Consume, Refuse, Tick, bucketVars, ClockInv
<1>5. ClockInv'
  BY <1>2, <1>4 DEF ClockInv
<1>6. Today <= Today'
  BY <1>3, <1>4, LaterDay DEF Today
<1>7. WriterInv' /\ FilesGrow
  <2>1. /\ drops \in Nat /\ Len(times) + drops <= MaxLines /\ wday \in DaySet \cup {NoDay}
        /\ half \in BOOLEAN
    BY DEF WriterInv
  <2>2. CASE UNCHANGED writerVars
    <3>1. UNCHANGED <<file, times, half, wday, drops, now>>
      BY <2>2 DEF writerVars, bucketVars
    <3>2. Target' = Target
      BY <3>1 DEF Target, Today
    <3> QED
      BY <1>3, <2>1, <3>1, <3>2, SameFiles, NothingGrows
  <2>3. CASE StartRequest
    <3>1. UNCHANGED <<file, times, half, drops, now>> /\ wday = NoDay /\ wday' = Today
      BY <2>3 DEF StartRequest, bucketVars
    <3>2. Target' = Target
      BY <3>1 DEF Target, Today
    <3>3. Today \in DaySet
      BY TodayIsDay
    <3> QED
      BY <1>3, <2>1, <3>1, <3>2, <3>3, SameFiles, NothingGrows
  <2>4. CASE EndRequest
    <3>1. UNCHANGED <<file, times, half, drops>> /\ ~half /\ wday' = NoDay
      BY <2>4 DEF EndRequest, bucketVars
    <3> QED
      BY <1>3, <2>1, <3>1, SameFiles, NothingGrows
  <2>5. CASE DropLine
    <3>1. UNCHANGED <<file, times, half, wday>> /\ ~half /\ drops' = drops + 1
          /\ Len(times) + drops < MaxLines
      BY <2>5 DEF DropLine, Refuse, Offered
    <3>2. drops' \in Nat /\ Len(times) + drops' <= MaxLines
      BY <1>3, <2>1, <3>1
    <3> QED
      BY <1>3, <2>1, <3>1, <3>2, SameFiles, NothingGrows
  <2>6. CASE Clock
    <3>1. UNCHANGED <<file, times, half, wday, drops>> /\ ~half
      BY <2>6 DEF Clock, Tick
    <3> QED
      BY <1>3, <2>1, <3>1, SameFiles, NothingGrows
  <2>7. CASE WriteTail
    BY <2>7, WriteTailKeeps
  <2>8. ASSUME NEW part \in {"whole", "head", "other"}, WriteLine(part)
        PROVE  WriterInv' /\ FilesGrow
    BY <2>8, WriteLineKeeps
  <2>9. AgentNext \/ Crash \/ UNCHANGED logVars => UNCHANGED writerVars
    BY DEF AgentNext, ReadPass, PostAccepted, PostFailed, SaveStatus, HandleRotate, Crash,
      logVars
  <2> QED
    BY <2>2, <2>3, <2>4, <2>5, <2>6, <2>7, <2>8, <2>9 DEF LogNext
<1> QED
  BY <1>5, <1>6, <1>7

\* Without a line there is nothing to keep in order.
LEMMA WriterInit == LogInit => ClockInv /\ WriterInv
<1> SUFFICES ASSUME LogInit PROVE ClockInv /\ WriterInv
  OBVIOUS
<1>1. ClockInv
  BY BucketInitInv, BucketAssumption DEF LogInit, ClockInv, BucketInit
<1>2. /\ file = [d \in DaySet |-> <<>>] /\ half = FALSE /\ wday = NoDay /\ times = <<>> /\ drops = 0
      /\ Len(times) = 0 /\ MaxLines \in Nat
  BY BucketAssumption, EmptySeq DEF LogInit, BucketInit
<1>3. \A d \in DaySet : file[d] = <<>> /\ file[d] \in Seq(Entry) /\ Len(file[d]) = 0
  BY <1>2, EmptySeq
<1>4. \A d \in DaySet : WellFormed(file[d]) /\ ~Open(file[d])
  BY <1>3 DEF WellFormed, Open
<1>5. OneOpen /\ Distinct
  BY <1>2, <1>3, <1>4 DEF OneOpen, Distinct
<1>6. file \in [DaySet -> Seq(Entry)] /\ Len(times) + drops <= MaxLines
  BY <1>2, <1>3
<1>7. \A d \in DaySet : \A i \in 1 .. Len(file[d]) : file[d][i].id <= Len(times)
  BY <1>3
<1> QED
  BY <1>1, <1>2, <1>4, <1>5, <1>6, <1>7 DEF WriterInv

-----------------------------------------------------------------------------
(***************************************************************************)
(* The log agent.                                                          *)
(***************************************************************************)

\* What is known of the days, of the files and of the two positions.
LEMMA Positions ==
  ASSUME ClockInv, WriterInv, AgentInv
  PROVE  /\ Today \in DaySet /\ Today \in Nat /\ DaySet \subseteq Nat
         /\ NoDay \notin DaySet /\ NoDay \in Int /\ \A d \in DaySet : NoDay < d
         /\ suf \in Int /\ lastDay \in Int /\ pos \in Nat
         /\ status.suf \in DaySet \cup {NoDay} /\ status.day \in DaySet \cup {NoDay}
         /\ status.suf \in Int /\ status.day \in Int /\ status.pos \in Nat
         /\ Len(times) \in Nat
         /\ \A d \in DaySet :
              /\ file[d] \in Seq(Entry) /\ Len(file[d]) \in Nat
              /\ \A i \in 1 .. Len(file[d]) : file[d][i] \in Entry /\ file[d][i].id \in Line
         /\ Line \subseteq Nat
<1>1. /\ Today \in DaySet /\ Today \in Nat /\ NoDay \notin DaySet /\ NoDay \in Int
      /\ \A d \in DaySet : d \in Nat /\ NoDay < d
  BY TodayIsDay
<1>2. /\ suf \in DaySet \cup {NoDay} /\ lastDay \in DaySet \cup {NoDay} /\ pos \in Nat
      /\ status \in [suf : DaySet \cup {NoDay}, day : DaySet \cup {NoDay}, pos : Nat]
  BY DEF AgentInv, AgentTypeOK
<1>3. \A d \in DaySet : d \in Int
  BY <1>1
<1>4. /\ suf \in Int /\ lastDay \in Int
      /\ status.suf \in DaySet \cup {NoDay} /\ status.day \in DaySet \cup {NoDay}
      /\ status.suf \in Int /\ status.day \in Int /\ status.pos \in Nat
  BY <1>1, <1>2, <1>3
<1>5. Len(times) \in Nat
  BY LenProperties DEF ClockInv, BucketInv, BucketTypeOK
<1>6. ASSUME NEW d \in DaySet
      PROVE  /\ file[d] \in Seq(Entry) /\ Len(file[d]) \in Nat
             /\ \A i \in 1 .. Len(file[d]) : file[d][i] \in Entry /\ file[d][i].id \in Line
  <2>1. file[d] \in Seq(Entry)
    BY DEF WriterInv
  <2>2. Len(file[d]) \in Nat /\ \A i \in 1 .. Len(file[d]) : file[d][i] \in Entry
    BY <2>1, LenProperties
  <2> QED
    BY <2>1, <2>2 DEF Entry
<1>7. Line \subseteq Nat
  BY DEF Line
<1> QED
  BY <1>1, <1>2, <1>4, <1>5, <1>6, <1>7

\* The worker does not disturb the agent: it only adds new lines, and second
\* parts, behind every position.
LEMMA WriterLeavesAgent ==
  ASSUME ClockInv, WriterInv, AgentInv, ClockInv', WriterInv', FilesGrow, Today <= Today',
         UNCHANGED <<status, memVars, lpc, got, skipped, taken, settled, crashes, rejects>>
  PROVE  AgentInv'
<1>1. UNCHANGED <<status, suf, lastDay, pos, cache, rotate, adrift, lpc, got, skipped, taken,
                  settled, crashes, rejects>>
  BY DEF memVars
<1>2. /\ Today \in Nat /\ suf \in Int /\ lastDay \in Int /\ pos \in Nat
      /\ status.suf \in DaySet \cup {NoDay} /\ status.suf \in Int /\ status.day \in Int
      /\ status.pos \in Nat /\ suf \in DaySet \cup {NoDay}
      /\ \A d \in DaySet : \A i \in 1 .. Len(file[d]) : file[d][i].id \in Line
  BY Positions DEF AgentInv, AgentTypeOK
<1>3. Today' \in Nat
  BY TodayIsDay, LaterDay DEF Today, ClockInv, BucketInv, BucketTypeOK
<1>4. \A x \in DaySet :
        /\ Len(file[x]) \in Nat /\ Len(file'[x]) \in Nat /\ Len(file[x]) <= Len(file'[x])
        /\ \A i \in 1 .. Len(file[x]) : file'[x][i] = file[x][i]
        /\ \A i \in 1 .. Len(file'[x]) :
             i \in 1 .. Len(file[x]) \/ file'[x][i].part = "tail" \/ file'[x][i].id > Len(times)
  BY DEF FilesGrow
<1>5. AgentTypeOK'
  <2>1. AgentTypeOK /\ (suf # NoDay => pos <= Len(file[suf]))
    BY DEF AgentInv, AgentTypeOK
  <2>2. suf # NoDay => pos <= Len(file'[suf])
    BY <1>2, <1>4, <2>1
  <2> QED
    BY <1>1, <2>1, <2>2 DEF AgentTypeOK
<1>6. Forwards'
  <2>1. Forwards
    BY DEF AgentInv
  <2>2. lastDay <= Today' /\ status.day <= Today' /\ (rotate /\ lpc # "sleep" => suf < Today')
    BY <1>2, <1>3, <2>1 DEF Forwards
  <2>3. status.suf # NoDay => status.pos <= Len(file'[status.suf])
    BY <1>2, <1>4, <2>1 DEF Forwards
  <2> QED
    BY <1>1, <2>1, <2>2, <2>3 DEF Forwards
<1>7. PassedIsKept'
  <2>1. suf # NoDay => \A i \in 1 .. pos : i \in 1 .. Len(file[suf])
    BY <1>2, <1>4 DEF AgentInv, AgentTypeOK
  <2> QED
    BY <1>1, <1>2, <1>4, <2>1 DEF AgentInv, PassedIsKept
<1>8. SavedIsDelivered'
  <2>1. status.suf # NoDay => \A i \in 1 .. status.pos : i \in 1 .. Len(file[status.suf])
    BY <1>2, <1>4 DEF AgentInv, Forwards
  <2> QED
    BY <1>1, <1>2, <1>4, <2>1 DEF AgentInv, SavedIsDelivered
<1>9. SettledBehind'
  <2>1. SettledBehind /\ settled \subseteq Line /\ Len(times) \in Nat /\ Len(times') \in Nat
        /\ Len(times) <= Len(times')
    BY DEF AgentInv, AgentTypeOK, FilesGrow
  <2>2. \A n \in settled : n \in Nat /\ n <= Len(times)
    BY <2>1, Positions DEF SettledBehind
  <2>3. \A n \in settled : n <= Len(times')
    BY <2>1, <2>2
  <2>4. ASSUME NEW d \in DaySet, NEW i \in 1 .. Len(file'[d]),
               d > status.suf \/ (d = status.suf /\ i > status.pos),
               file'[d][i].part # "tail"
        PROVE  file'[d][i].id \notin settled
    <3>1. CASE i \in 1 .. Len(file[d])
      BY <1>4, <2>1, <2>4, <3>1 DEF SettledBehind
    <3>2. CASE file'[d][i].id > Len(times)
      BY <2>1, <2>2, <3>2
    <3> QED
      BY <1>4, <2>4, <3>1, <3>2
  <2> QED
    BY <1>1, <2>3, <2>4 DEF SettledBehind
<1>10. (lpc = "status" => cache = {})' /\ SettledNotResent'
  BY <1>1 DEF AgentInv, SettledNotResent
<1> QED
  BY <1>5, <1>6, <1>7, <1>8, <1>9, <1>10 DEF AgentInv

\* A pass reads a batch, or sends the one it has again: it goes forwards, and
\* what it newly caches is behind the saved position.
LEMMA ReadPassKeeps ==
  ASSUME ClockInv, WriterInv, AgentInv, ReadPass
  PROVE  AgentInv'
<1> DEFINE batch == ReadBatch(file[suf], pos)
<1>1. /\ UNCHANGED <<now, times, file, status, suf, lastDay, adrift, got, settled, crashes, rejects>>
      /\ rotate' = (lastDay # Today) /\ lpc' \in {"post", "rotate"}
  BY DEF ReadPass, writerVars, bucketVars
<1>2. Today' = Today /\ Today \in Nat /\ suf \in Int /\ lastDay \in Int /\ pos \in Nat
      /\ status.suf \in Int /\ status.pos \in Nat
  BY <1>1, Positions DEF Today
<1>3. AgentTypeOK /\ Forwards /\ PassedIsKept /\ SavedIsDelivered /\ SettledBehind /\ SettledNotResent
  BY DEF AgentInv
<1>4. rotate' => suf < Today
  <2> SUFFICES ASSUME rotate' PROVE suf < Today
    OBVIOUS
  <2>1. lastDay # Today
    BY <1>1
  <2> QED
    BY <1>2, <1>3, <2>1 DEF Forwards
<1>5. \/ UNCHANGED <<cache, pos, skipped, taken>>
      \/ /\ FileExists(suf) /\ cache = {}
         /\ cache' = batch.lines /\ pos' = batch.pos
         /\ skipped' = skipped \cup batch.skip /\ taken' = taken \cup batch.lines
  BY DEF ReadPass
<1> HIDE DEF batch
<1>6. CASE UNCHANGED <<cache, pos, skipped, taken>>
  <2>1. AgentTypeOK'
    BY <1>1, <1>3, <1>6 DEF AgentTypeOK
  <2>2. Forwards'
    BY <1>1, <1>2, <1>3, <1>4, <1>6 DEF Forwards
  <2>3. PassedIsKept' /\ SavedIsDelivered' /\ SettledBehind' /\ SettledNotResent'
    BY <1>1, <1>3, <1>6 DEF PassedIsKept, SavedIsDelivered, SettledBehind, SettledNotResent
  <2> QED
    BY <1>1, <2>1, <2>2, <2>3 DEF AgentInv
<1>7. CASE /\ FileExists(suf) /\ cache = {}
           /\ cache' = batch.lines /\ pos' = batch.pos
           /\ skipped' = skipped \cup batch.skip /\ taken' = taken \cup batch.lines
  <2>1. suf \in DaySet /\ suf # NoDay /\ file[suf] \in Seq(Entry) /\ WellFormed(file[suf])
        /\ Len(file[suf]) \in Nat
    BY <1>7, Positions DEF FileExists, WriterInv
  <2>2. pos \in 0 .. Len(file[suf])
    BY <1>2, <1>3, <2>1 DEF AgentTypeOK
  <2>3. /\ batch.lines \subseteq Line /\ Cardinality(batch.lines) <= Batch
        /\ batch.skip \subseteq Line
        /\ batch.pos \in pos .. Len(file[suf])
        /\ \A n \in batch.lines : \E i \in pos + 1 .. batch.pos :
             file[suf][i].part # "tail" /\ file[suf][i].id = n
        /\ \A i \in pos + 1 .. batch.pos : file[suf][i].id \in batch.lines \cup batch.skip
    BY <2>1, <2>2, LogAssumption, ReadUpToResult DEF ReadBatch, batch
  <2>4. pos' \in Nat /\ pos <= pos' /\ pos' <= Len(file[suf])
    BY <1>2, <1>7, <2>1, <2>3
  <2>5. AgentTypeOK'
    BY <1>1, <1>3, <1>7, <2>3, <2>4 DEF AgentTypeOK
  <2>6. Forwards'
    <3>1. status.suf = suf => status.pos <= pos'
      BY <1>2, <1>3, <2>4 DEF Forwards
    <3> QED
      BY <1>1, <1>2, <1>3, <1>4, <3>1 DEF Forwards
  <2>7. PassedIsKept'
    <3>1. ASSUME NEW i \in 1 .. pos' PROVE file[suf][i].id \in got \cup skipped' \cup cache'
      <4>1. CASE i \in 1 .. pos
        BY <1>3, <1>7, <2>1, <4>1 DEF PassedIsKept
      <4>2. CASE i \in pos + 1 .. batch.pos
        BY <1>7, <2>3, <4>2
      <4> QED
        BY <1>2, <1>7, <2>4, <4>1, <4>2
    <3> QED
      BY <1>1, <3>1 DEF PassedIsKept
  <2>8. SavedIsDelivered' /\ SettledBehind'
    BY <1>1, <1>3, <1>7 DEF SavedIsDelivered, SettledBehind
  <2>9. SettledNotResent'
    <3>1. ASSUME NEW n \in cache' PROVE n \notin settled
      <4>1. PICK i \in pos + 1 .. batch.pos : file[suf][i].part # "tail" /\ file[suf][i].id = n
        BY <1>7, <2>3, <3>1
      <4>2. i \in 1 .. Len(file[suf]) /\ i > pos
        BY <1>2, <1>7, <2>1, <2>4
      <4>3. suf > status.suf \/ (suf = status.suf /\ i > status.pos)
        BY <1>2, <1>3, <4>2 DEF Forwards
      <4> QED
        BY <1>3, <2>1, <4>1, <4>2, <4>3 DEF SettledBehind
    <3> QED
      BY <1>1, <3>1 DEF SettledNotResent
  <2> QED
    BY <1>1, <2>5, <2>6, <2>7, <2>8, <2>9 DEF AgentInv
<1> QED
  BY <1>5, <1>6, <1>7

\* An upload, whatever becomes of it, moves the agent nowhere: the batch is
\* received, or it stays.
LEMMA PostKeeps ==
  ASSUME ClockInv, WriterInv, AgentInv, PostAccepted \/ PostFailed
  PROVE  AgentInv'
<1>1. /\ UNCHANGED <<now, times, file, status, suf, lastDay, pos, rotate, adrift, skipped, taken,
                    settled, crashes>>
      /\ lpc = "post" /\ lpc' \in {"status", "rotate"} /\ rejects' \in 0 .. MaxReject
      /\ got \subseteq got' /\ got' \subseteq got \cup cache
      /\ (cache' = {} /\ got' = got \cup cache) \/ (cache' = cache /\ lpc' = "rotate")
  BY LogAssumption DEF PostAccepted, PostFailed, writerVars, bucketVars, memVars, AgentInv, AgentTypeOK
<1>2. Today' = Today
  BY <1>1 DEF Today
<1>3. AgentTypeOK /\ Forwards /\ PassedIsKept /\ SavedIsDelivered /\ SettledBehind /\ SettledNotResent
  BY DEF AgentInv
<1>4. Cardinality({}) = 0
  BY FS_EmptySet
<1>5. AgentTypeOK'
  <2>1. got' \subseteq Line
    BY <1>1, <1>3 DEF AgentTypeOK
  <2>2. cache' \subseteq Line /\ Cardinality(cache') <= Batch
    <3>1. CASE cache' = {}
      BY <1>4, <3>1, LogAssumption
    <3>2. CASE cache' = cache
      BY <1>3, <3>2 DEF AgentTypeOK
    <3> QED
      BY <1>1, <3>1, <3>2
  <2> QED
    BY <1>1, <1>3, <2>1, <2>2 DEF AgentTypeOK
<1>6. Forwards'
  BY <1>1, <1>2, <1>3 DEF Forwards
<1>7. PassedIsKept'
  BY <1>1, <1>3 DEF PassedIsKept
<1>8. SavedIsDelivered'
  BY <1>1, <1>3 DEF SavedIsDelivered
<1>9. SettledBehind' /\ SettledNotResent'
  BY <1>1, <1>3 DEF SettledBehind, SettledNotResent
<1> QED
  BY <1>1, <1>5, <1>6, <1>7, <1>8, <1>9 DEF AgentInv

\* The position is saved when the batch is received.  Every line is in one
\* place, so none behind the position is settled by those before it.
LEMMA SaveStatusKeeps ==
  ASSUME ClockInv, WriterInv, AgentInv, SaveStatus
  PROVE  AgentInv'
<1>1. /\ UNCHANGED <<now, times, file, suf, pos, cache, rotate, got, skipped, taken, crashes, rejects>>
      /\ lpc = "status" /\ lpc' = "rotate" /\ lastDay' = Today /\ adrift' \in {adrift, "midnight"}
      /\ status' = [suf |-> suf, day |-> Today, pos |-> pos]
      /\ settled' = settled \cup (IF suf = NoDay THEN {} ELSE Before(suf, pos))
  BY DEF SaveStatus, TouchDay, writerVars, bucketVars
<1>2. /\ Today' = Today /\ Today \in DaySet /\ Today \in Nat
      /\ NoDay \in Int /\ (\A d \in DaySet : d \in Nat /\ NoDay < d)
      /\ suf \in Int /\ lastDay \in Int /\ pos \in Nat
      /\ status.suf \in Int /\ status.pos \in Nat /\ suf \in DaySet \cup {NoDay}
  BY <1>1, Positions DEF Today, AgentInv, AgentTypeOK
<1>3. /\ AgentTypeOK /\ Forwards /\ PassedIsKept /\ SavedIsDelivered /\ SettledBehind
      /\ SettledNotResent /\ cache = {}
  BY <1>1 DEF AgentInv
<1>4. status'.suf = suf /\ status'.day = Today /\ status'.pos = pos
  BY <1>1
<1>5. \A d \in DaySet : /\ Len(file[d]) \in Nat
                        /\ \A i \in 1 .. Len(file[d]) : file[d][i].id \in Line
  BY Positions
<1>6. suf # NoDay => suf \in DaySet /\ pos <= Len(file[suf]) /\ \A i \in 1 .. pos : i \in 1 .. Len(file[suf])
  BY <1>2, <1>3, <1>5 DEF AgentTypeOK
<1>7. \A n \in settled' : n \in settled \/ \E i \in 1 .. pos : suf # NoDay /\ n = file[suf][i].id
  BY <1>1 DEF Before
<1>8. AgentTypeOK'
  <2>1. settled' \subseteq Line
    BY <1>3, <1>5, <1>6, <1>7 DEF AgentTypeOK
  <2> QED
    BY <1>1, <1>2, <1>3, <2>1 DEF AgentTypeOK
<1>9. Forwards'
  BY <1>1, <1>2, <1>3, <1>4, <1>6 DEF Forwards
<1>10. PassedIsKept' /\ SavedIsDelivered'
  BY <1>1, <1>3, <1>4 DEF PassedIsKept, SavedIsDelivered
<1>11. SettledBehind'
  <2>1. ASSUME NEW n \in settled' PROVE n <= Len(times)
    BY <1>3, <1>6, <1>7 DEF SettledBehind, WriterInv
  <2>2. ASSUME NEW d \in DaySet, NEW i \in 1 .. Len(file[d]),
               d > suf \/ (d = suf /\ i > pos), file[d][i].part # "tail"
        PROVE  file[d][i].id \notin settled'
    <3>1. d > status.suf \/ (d = status.suf /\ i > status.pos)
      BY <1>2, <1>3, <1>5, <2>2 DEF Forwards
    <3>2. file[d][i].id \notin settled
      BY <1>3, <2>2, <3>1 DEF SettledBehind
    <3>3. ASSUME NEW j \in 1 .. pos, suf # NoDay, file[d][i].id = file[suf][j].id PROVE FALSE
      <4>1. suf \in DaySet /\ j \in 1 .. Len(file[suf]) /\ WellFormed(file[suf])
        BY <1>6, <3>3 DEF WriterInv
      <4>2. PICK h \in 1 .. j : file[suf][h].part # "tail" /\ file[suf][h].id = file[suf][j].id
        <5>1. CASE file[suf][j].part = "tail"
          <6>1. j > 1 /\ file[suf][j - 1] = [id |-> file[suf][j].id, part |-> "head"]
            BY <4>1, <5>1 DEF WellFormed
          <6>2. j - 1 \in 1 .. j
            BY <1>2, <6>1
          <6> QED
            BY <6>1, <6>2
        <5>2. CASE file[suf][j].part # "tail"
          BY <1>2, <5>2
        <5> QED
          BY <5>1, <5>2
      <4>3. h \in 1 .. Len(file[suf]) /\ h <= pos
        BY <1>2, <1>5, <4>1
      <4>4. d = suf /\ i = h
        BY <2>2, <3>3, <4>1, <4>2, <4>3 DEF WriterInv, Distinct
      <4> QED
        BY <1>2, <1>5, <2>2, <4>3, <4>4
    <3> QED
      BY <1>7, <3>2, <3>3
  <2> QED
    BY <1>1, <1>4, <2>1, <2>2 DEF SettledBehind
<1>12. SettledNotResent'
  BY <1>1, <1>3 DEF SettledNotResent
<1> QED
  BY <1>1, <1>8, <1>9, <1>10, <1>11, <1>12 DEF AgentInv

\* The agent turns to the present day, which is later than the day it leaves.
LEMMA HandleRotateKeeps ==
  ASSUME ClockInv, WriterInv, AgentInv, HandleRotate
  PROVE  AgentInv'
<1>1. /\ UNCHANGED <<now, times, file, status, cache, rotate, got, skipped, taken, settled, crashes, rejects>>
      /\ lpc = "rotate" /\ lpc' = "sleep" /\ lastDay' = Today
      /\ adrift' \in {adrift, "no", "midnight"}
      /\ (rotate /\ suf' = Today /\ pos' = 0) \/ (suf' = suf /\ pos' = pos)
  BY DEF HandleRotate, TouchDay, writerVars, bucketVars
<1>2. /\ Today' = Today /\ Today \in DaySet /\ Today \in Nat
      /\ suf \in Int /\ lastDay \in Int /\ status.suf \in Int
      /\ \A d \in DaySet : Len(file[d]) \in Nat
  BY <1>1, Positions DEF Today
<1>3. AgentTypeOK /\ Forwards /\ PassedIsKept /\ SavedIsDelivered /\ SettledBehind /\ SettledNotResent
  BY DEF AgentInv
<1>4. AgentTypeOK'
  BY <1>1, <1>2, <1>3 DEF AgentTypeOK
<1>5. Forwards'
  BY <1>1, <1>2, <1>3 DEF Forwards
<1>6. PassedIsKept'
  BY <1>1, <1>3 DEF PassedIsKept
<1>7. SavedIsDelivered' /\ SettledBehind' /\ SettledNotResent'
  BY <1>1, <1>3 DEF SavedIsDelivered, SettledBehind, SettledNotResent
<1> QED
  BY <1>1, <1>4, <1>5, <1>6, <1>7 DEF AgentInv

\* A successor starts where the saved position is, or from nothing.
LEMMA CrashKeeps ==
  ASSUME ClockInv, WriterInv, AgentInv, Crash
  PROVE  AgentInv'
<1>1. /\ UNCHANGED <<now, times, file, got, skipped, rejects>>
      /\ crashes < MaxCrash /\ crashes' = crashes + 1
      /\ suf' = status'.suf /\ lastDay' = status'.day /\ pos' = status'.pos
      /\ cache' = {} /\ rotate' = FALSE /\ taken' = {} /\ lpc' = "sleep"
      /\ adrift' \in {"no", "restart"}
      /\ (status' = status /\ settled' = settled) \/ (status' = NoStatus /\ settled' = {})
  BY DEF Crash, writerVars, bucketVars
<1>2. /\ Today' = Today /\ Today \in Nat /\ NoDay \in Int /\ NoDay < Today
      /\ status.suf \in DaySet \cup {NoDay} /\ status.day \in DaySet \cup {NoDay}
      /\ status.suf \in Int /\ status.day \in Int /\ status.pos \in Nat
  BY <1>1, Positions DEF Today
<1>3. AgentTypeOK /\ Forwards /\ SavedIsDelivered /\ SettledBehind
  BY DEF AgentInv
<1>4. /\ NoStatus.suf = NoDay /\ NoStatus.day = NoDay /\ NoStatus.pos = 0
      /\ NoStatus \in [suf : DaySet \cup {NoDay}, day : DaySet \cup {NoDay}, pos : Nat]
  BY DEF NoStatus
<1>5. /\ status' \in [suf : DaySet \cup {NoDay}, day : DaySet \cup {NoDay}, pos : Nat]
      /\ status'.suf <= status'.day /\ status'.day <= Today
      /\ status'.suf \in Int /\ status'.pos \in Nat
      /\ status'.suf # NoDay => status'.pos <= Len(file[status'.suf])
  BY <1>1, <1>2, <1>3, <1>4 DEF AgentTypeOK, Forwards
<1>6. SavedIsDelivered'
  BY <1>1, <1>3, <1>4 DEF SavedIsDelivered
<1>7. AgentTypeOK'
  <2>1. crashes' \in 0 .. MaxCrash
    BY <1>1, <1>3, LogAssumption DEF AgentTypeOK
  <2>2. cache' \subseteq Line /\ Cardinality(cache') <= Batch /\ taken' \subseteq Line
    BY <1>1, LogAssumption, FS_EmptySet
  <2>3. /\ suf' \in DaySet \cup {NoDay} /\ lastDay' \in DaySet \cup {NoDay} /\ pos' \in Nat
        /\ suf' # NoDay => pos' <= Len(file[suf'])
    BY <1>1, <1>5
  <2>4. settled' \subseteq Line
    BY <1>1, <1>3 DEF AgentTypeOK
  <2> QED
    BY <1>1, <1>3, <1>5, <2>1, <2>2, <2>3, <2>4 DEF AgentTypeOK
<1>8. Forwards'
  BY <1>1, <1>2, <1>5 DEF Forwards
<1>9. PassedIsKept'
  BY <1>1, <1>6 DEF PassedIsKept, SavedIsDelivered
<1>10. SettledBehind' /\ SettledNotResent'
  BY <1>1, <1>3 DEF SettledBehind, SettledNotResent
<1> QED
  BY <1>1, <1>6, <1>7, <1>8, <1>9, <1>10 DEF AgentInv

\* An agent without a status file has passed nothing.
LEMMA AgentInit == LogInit => AgentInv
<1> SUFFICES ASSUME LogInit PROVE AgentInv
  OBVIOUS
<1>1. /\ status = NoStatus /\ suf = NoDay /\ lastDay = NoDay /\ pos = 0 /\ cache = {} /\ rotate = FALSE
      /\ adrift = "no" /\ lpc = "sleep" /\ got = {} /\ skipped = {} /\ taken = {} /\ settled = {}
      /\ crashes = 0 /\ rejects = 0
  BY DEF LogInit
<1>2. /\ NoStatus.suf = NoDay /\ NoStatus.day = NoDay /\ NoStatus.pos = 0
      /\ NoStatus \in [suf : DaySet \cup {NoDay}, day : DaySet \cup {NoDay}, pos : Nat]
  BY DEF NoStatus
<1>3. NoDay <= NoDay /\ NoDay <= Today
  BY WriterInit, TodayIsDay
<1>4. Cardinality(cache) <= Batch
  BY <1>1, LogAssumption, FS_EmptySet
<1>5. AgentTypeOK
  <2>1. crashes \in 0 .. MaxCrash /\ rejects \in 0 .. MaxReject /\ pos \in Nat
    BY <1>1, LogAssumption
  <2>2. suf = NoDay /\ status \in [suf : DaySet \cup {NoDay}, day : DaySet \cup {NoDay}, pos : Nat]
    BY <1>1, <1>2
  <2> QED
    BY <1>1, <1>4, <2>1, <2>2 DEF AgentTypeOK
<1>6. Forwards
  BY <1>1, <1>2, <1>3 DEF Forwards
<1>7. PassedIsKept /\ SavedIsDelivered /\ SettledBehind /\ SettledNotResent
  BY <1>1, <1>2 DEF PassedIsKept, SavedIsDelivered, SettledBehind, SettledNotResent
<1> QED
  BY <1>1, <1>5, <1>6, <1>7 DEF AgentInv

\* What makes the properties of the log inductive survives every step.
LEMMA AgentStep ==
  ASSUME ClockInv, WriterInv, AgentInv, [LogNext]_logVars
  PROVE  AgentInv'
<1>1. ClockInv' /\ WriterInv' /\ FilesGrow /\ Today <= Today'
  BY WriterStep
<1>2. CASE AgentUnchanged \/ UNCHANGED logVars
  BY <1>1, <1>2, WriterLeavesAgent DEF AgentUnchanged, logVars
<1>3. CASE StartRequest \/ EndRequest \/ WriteTail \/ DropLine \/ Clock
          \/ \E part \in {"whole", "head", "other"} : WriteLine(part)
  BY <1>2, <1>3 DEF StartRequest, EndRequest, WriteTail, DropLine, Clock, WriteLine
<1>4. CASE AgentNext
  BY <1>4, ReadPassKeeps, PostKeeps, SaveStatusKeeps, HandleRotateKeeps DEF AgentNext
<1>5. CASE Crash
  BY <1>5, CrashKeeps
<1> QED
  BY <1>2, <1>3, <1>4, <1>5 DEF LogNext

\* No step strands the agent without a cause: only SaveStatus, HandleRotate and
\* Crash set last_post_time, and a later day ends every stranding.
LEMMA StrandedStep ==
  ASSUME ClockInv, WriterInv, AgentInv, StrandedForACause, [LogNext]_logVars
  PROVE  StrandedForACause'
<1>1. Today <= Today' /\ Today \in Int /\ Today' \in Int
  BY WriterStep, Positions, TodayIsDay, LaterDay DEF Today, ClockInv, BucketInv, BucketTypeOK
<1>2. lastDay <= Today /\ lastDay \in Int
  BY Positions DEF AgentInv, Forwards
<1> USE DEF StrandedForACause, Stranded
\* A step that does not touch the agent, as the clock's.
<1>3. CASE UNCHANGED <<suf, lastDay, rotate, adrift, lpc>>
  <2>1. lastDay = Today' => lastDay = Today
    BY <1>1, <1>2
  <2> QED
    BY <1>3, <2>1
<1>4. CASE AgentUnchanged \/ UNCHANGED logVars
  BY <1>3, <1>4 DEF AgentUnchanged, logVars, memVars
<1>5. CASE StartRequest \/ EndRequest \/ WriteTail \/ DropLine \/ Clock
          \/ \E part \in {"whole", "head", "other"} : WriteLine(part)
  BY <1>4, <1>5 DEF StartRequest, EndRequest, WriteTail, DropLine, Clock, WriteLine
<1>6. CASE ReadPass
  <2>1. UNCHANGED <<now, suf, lastDay, adrift>> /\ lpc = "sleep"
    BY <1>6 DEF ReadPass, writerVars, bucketVars
  <2> QED
    BY <2>1 DEF Today
<1>7. CASE PostAccepted \/ PostFailed
  <2>1. UNCHANGED <<now, suf, lastDay, rotate, adrift>> /\ lpc = "post" /\ lpc' # "sleep"
    BY <1>7 DEF PostAccepted, PostFailed, memVars, writerVars, bucketVars
  <2> QED
    BY <2>1 DEF Today
<1>8. CASE SaveStatus
  <2>1. UNCHANGED <<now, suf, rotate>> /\ lpc # "sleep" /\ lpc' # "sleep"
    BY <1>8 DEF SaveStatus, writerVars, bucketVars
  <2>2. adrift' = IF lastDay # Today /\ ~rotate THEN "midnight" ELSE adrift
    BY <1>8 DEF SaveStatus, TouchDay
  <2> QED
    BY <2>1, <2>2 DEF Today
<1>9. CASE HandleRotate
  <2>1. UNCHANGED <<now, rotate>>
    BY <1>9 DEF HandleRotate, writerVars, bucketVars
  <2>2. CASE rotate
    BY <1>9, <2>1, <2>2 DEF HandleRotate, Today
  <2>3. CASE ~rotate
    BY <1>9, <2>1, <2>3 DEF HandleRotate, TouchDay, Today
  <2> QED
    BY <2>2, <2>3
<1>10. CASE Crash
  <2>1. /\ UNCHANGED now
        /\ suf' = status'.suf /\ lastDay' = status'.day
        /\ adrift' = IF status'.day = Today /\ status'.suf # Today THEN "restart" ELSE "no"
    BY <1>10 DEF Crash, writerVars, bucketVars
  <2> QED
    BY <2>1 DEF Today
<1> QED
  BY <1>4, <1>5, <1>6, <1>7, <1>8, <1>9, <1>10 DEF LogNext, AgentNext

\* A batch is taken from ahead of a first agent, and left behind it.
LEMMA ReceivedBehindStep ==
  ASSUME ClockInv, WriterInv, AgentInv, ReceivedBehind, SentOnce, [LogNext]_logVars
  PROVE  ReceivedBehind' /\ SentOnce'
<1> DEFINE Ahead(d, i, s, p) == d > s \/ (d = s /\ i > p)
<1>1. /\ Today \in Nat /\ DaySet \subseteq Nat /\ suf \in Int /\ pos \in Nat
      /\ Len(times) \in Nat /\ Line \subseteq Nat
      /\ \A d \in DaySet : Len(file[d]) \in Nat
  BY Positions
<1>2. /\ got \subseteq Line /\ cache \subseteq Line /\ crashes \in Nat /\ rejects \in Nat
      /\ Forwards /\ (suf # NoDay => suf \in DaySet)
  BY DEF AgentInv, AgentTypeOK
<1>3. FilesGrow
  BY WriterStep
\* A step that does not touch the files.
<1>4. ASSUME UNCHANGED <<file, times>>,
             got' \cup cache' \subseteq got \cup cache,
             crashes' = 0 =>
               /\ crashes = 0
               /\ \A d \in DaySet : \A i \in 1 .. Len(file[d]) :
                    Ahead(d, i, suf', pos') => Ahead(d, i, suf, pos)
      PROVE  ReceivedBehind'
  BY <1>4 DEF ReceivedBehind
<1>5. CASE AgentUnchanged \/ UNCHANGED logVars
  <2>1. UNCHANGED <<suf, pos, cache, got, crashes, rejects>>
    BY <1>5 DEF AgentUnchanged, logVars, memVars
  <2>2. \A n \in got \cup cache : n \in Nat /\ n <= Len(times)
    BY <1>1, <1>2 DEF ReceivedBehind
  <2>3. \A n \in got \cup cache : n <= Len(times')
    BY <1>1, <1>3, <2>2 DEF FilesGrow
  <2>4. ASSUME crashes = 0, NEW d \in DaySet, NEW i \in 1 .. Len(file'[d]), Ahead(d, i, suf, pos),
               file'[d][i].part # "tail"
        PROVE  file'[d][i].id \notin got \cup cache
    <3>1. CASE i \in 1 .. Len(file[d])
      BY <1>3, <2>4, <3>1 DEF ReceivedBehind, FilesGrow
    <3>2. CASE file'[d][i].id > Len(times)
      BY <1>1, <2>2, <3>2
    <3> QED
      BY <1>3, <2>4, <3>1, <3>2 DEF FilesGrow
  <2> QED
    BY <2>1, <2>3, <2>4 DEF ReceivedBehind, SentOnce
<1>6. CASE ReadPass
  <2> DEFINE batch == ReadBatch(file[suf], pos)
  <2>1. /\ UNCHANGED <<file, times, suf, got, crashes, rejects>>
        /\ \/ UNCHANGED <<cache, pos>>
           \/ FileExists(suf) /\ cache = {} /\ cache' = batch.lines /\ pos' = batch.pos
    BY <1>6 DEF ReadPass, writerVars, bucketVars
  <2> HIDE DEF batch
  <2>2. CASE UNCHANGED <<cache, pos>>
    BY <1>4, <2>1, <2>2 DEF SentOnce
  <2>3. CASE FileExists(suf) /\ cache = {} /\ cache' = batch.lines /\ pos' = batch.pos
    <3>1. suf \in DaySet /\ suf # NoDay /\ file[suf] \in Seq(Entry) /\ WellFormed(file[suf])
      BY <2>3, Positions DEF FileExists, WriterInv
    <3>2. pos \in 0 .. Len(file[suf])
      BY <1>1, <3>1 DEF AgentInv, AgentTypeOK
    <3>3. /\ batch.pos \in pos .. Len(file[suf])
          /\ \A n \in batch.lines : \E i \in pos + 1 .. batch.pos :
               file[suf][i].part # "tail" /\ file[suf][i].id = n
      BY <3>1, <3>2, LogAssumption, ReadUpToResult DEF ReadBatch, batch
    <3>4. \A n \in cache' : \E i \in 1 .. Len(file[suf]) :
            i > pos /\ i <= pos' /\ file[suf][i].part # "tail" /\ file[suf][i].id = n
      BY <1>1, <2>3, <3>1, <3>3
    <3>5. \A n \in got \cup cache' : n <= Len(times)
      BY <3>1, <3>4 DEF ReceivedBehind, WriterInv
    <3>6. ASSUME crashes = 0, NEW d \in DaySet, NEW i \in 1 .. Len(file[d]), Ahead(d, i, suf, pos'),
                 file[d][i].part # "tail"
          PROVE  file[d][i].id \notin got \cup cache'
      <4>1. Ahead(d, i, suf, pos)
        BY <1>1, <2>3, <3>1, <3>3, <3>6
      <4>2. file[d][i].id \notin got
        BY <3>6, <4>1 DEF ReceivedBehind
      <4>3. ASSUME file[d][i].id \in cache' PROVE FALSE
        <5>1. PICK j \in 1 .. Len(file[suf]) :
                /\ j > pos /\ j <= pos'
                /\ file[suf][j].part # "tail" /\ file[suf][j].id = file[d][i].id
          BY <3>4, <4>3
        <5>2. Distinct
          BY <1>1 DEF WriterInv
        <5>3. d = suf /\ i = j
          BY <3>1, <3>6, <5>1, <5>2 DEF Distinct
        <5>4. d \in Nat /\ i \in Nat /\ pos' \in Nat
          BY <2>3, <3>1, <3>2, <3>3, <3>6, Positions DEF DaySet
        <5> QED
          BY <3>6, <5>1, <5>3, <5>4
      <4> QED
        BY <4>2, <4>3
    <3>7. crashes = 0 => cache' \cap got = {}
      BY <3>1, <3>4 DEF ReceivedBehind
    <3> QED
      BY <2>1, <3>5, <3>6, <3>7 DEF ReceivedBehind, SentOnce
  <2> QED
    BY <2>1, <2>2, <2>3
<1>7. CASE PostAccepted
  <2>1. /\ UNCHANGED <<file, times, suf, pos, crashes>> /\ got' = got \cup cache /\ cache' = {}
    BY <1>7 DEF PostAccepted, writerVars, bucketVars
  <2> QED
    BY <1>4, <2>1 DEF SentOnce
<1>8. CASE PostFailed
  <2>1. /\ UNCHANGED <<file, times, suf, pos, crashes, cache>> /\ got' \subseteq got \cup cache
        /\ rejects' = rejects + 1
    BY <1>8 DEF PostFailed, memVars, writerVars, bucketVars
  <2>2. rejects' # 0
    BY <1>2, <2>1
  <2> QED
    BY <1>4, <2>1, <2>2 DEF SentOnce
<1>9. CASE SaveStatus
  <2>1. UNCHANGED <<file, times, suf, pos, crashes, rejects, cache, got>>
    BY <1>9 DEF SaveStatus, writerVars, bucketVars
  <2> QED
    BY <1>4, <2>1 DEF SentOnce
<1>10. CASE HandleRotate
  <2>1. /\ UNCHANGED <<file, times, crashes, rejects, cache, got>>
        /\ (rotate /\ suf' = Today /\ pos' = 0) \/ (suf' = suf /\ pos' = pos)
        /\ lpc # "sleep"
    BY <1>10 DEF HandleRotate, writerVars, bucketVars
  <2>2. \A d \in DaySet : \A i \in 1 .. Len(file[d]) :
          Ahead(d, i, suf', pos') => Ahead(d, i, suf, pos)
    BY <1>1, <1>2, <2>1 DEF Forwards
  <2> QED
    BY <1>4, <2>1, <2>2 DEF SentOnce
<1>11. CASE Crash
  <2>1. /\ UNCHANGED <<file, times, got>> /\ crashes' = crashes + 1 /\ cache' = {}
    BY <1>11 DEF Crash, writerVars, bucketVars
  <2>2. crashes' # 0
    BY <1>2, <2>1
  <2> QED
    BY <1>4, <2>1, <2>2 DEF SentOnce
<1>12. CASE StartRequest \/ EndRequest \/ WriteTail \/ DropLine \/ Clock
          \/ \E part \in {"whole", "head", "other"} : WriteLine(part)
  BY <1>5, <1>12 DEF StartRequest, EndRequest, WriteTail, DropLine, Clock, WriteLine
<1> QED
  BY <1>5, <1>6, <1>7, <1>8, <1>9, <1>10, <1>11, <1>12 DEF LogNext, AgentNext

\* In every state of a log its files are in order, and the agent stands where
\* nothing is lost or sent twice.
THEOREM LogInvariance == LogSpec => [](ClockInv /\ WriterInv /\ AgentInv)
<1>1. LogInit => ClockInv /\ WriterInv /\ AgentInv
  BY WriterInit, AgentInit
<1>2. (ClockInv /\ WriterInv /\ AgentInv) /\ [LogNext]_logVars => (ClockInv /\ WriterInv /\ AgentInv)'
  BY WriterStep, AgentStep
<1> QED
  BY <1>1, <1>2, PTL DEF LogSpec

\* Every variable of the writer, the bucket and the agent has its type; a batch
\* has at most max_post_logs_account lines.
THEOREM LogTypesCorrect == LogSpec => []LogTypeOK
<1>1. ASSUME ClockInv, WriterInv, AgentInv PROVE LogTypeOK
  <2>1. /\ now \in Nat /\ last \in Nat /\ tokens \in 0 .. Burst /\ times \in Seq(Nat)
        /\ now <= MaxTime /\ last <= now /\ MaxTime \in Nat
        /\ \A i \in 1 .. Len(times) : times[i] <= last
    BY <1>1, BucketAssumption DEF ClockInv, BucketInv, BucketTypeOK, Ordered
  <2>2. times \in Seq(0 .. MaxTime)
    <3>1. Len(times) \in Nat /\ times \in [1 .. Len(times) -> Nat]
      BY <2>1, LenProperties
    <3>2. \A i \in 1 .. Len(times) : times[i] \in 0 .. MaxTime
      BY <2>1, <3>1
    <3>3. times \in [1 .. Len(times) -> 0 .. MaxTime]
      BY <3>1, <3>2
    <3> QED
      BY <3>1, <3>3, SeqDef
  <2>3. drops \in 0 .. MaxLines
    <3>1. Len(times) \in Nat /\ drops \in Nat /\ Len(times) + drops <= MaxLines /\ MaxLines \in Nat
      BY <1>1, <2>1, LenProperties, BucketAssumption DEF WriterInv
    <3> QED
      BY <3>1
  <2>4. /\ \A d \in DaySet : file[d] \in Seq(Entry)
        /\ wday \in DaySet \cup {NoDay} /\ half \in BOOLEAN /\ AgentTypeOK
    BY <1>1 DEF WriterInv, AgentInv
  <2> QED
    BY <2>1, <2>2, <2>3, <2>4 DEF LogTypeOK
<1> QED
  BY <1>1, LogInvariance, PTL

\* The saved position never passes a line the backend does not have, except
\* lines that refresh_cache_body skips, over deaths in any step and lost answers.
THEOREM SavedIsDeliveredHolds == LogSpec => []SavedIsDelivered
<1>1. AgentInv => SavedIsDelivered
  BY DEF AgentInv
<1> QED
  BY <1>1, LogInvariance, PTL

\* What lies before a saved position is never cached again, over rotations and
\* restarts, as long as the status file is not lost.
THEOREM SettledNotResentHolds == LogSpec => []SettledNotResent
<1>1. AgentInv => SettledNotResent
  BY DEF AgentInv
<1> QED
  BY <1>1, LogInvariance, PTL

\* An agent stays with an older file for a day only when it was restarted on the
\* word of a status saved on the new day for the old file, or when midnight fell
\* between need_rotate and the update of last_post_time.
THEOREM StrandedHasACause == LogSpec => []StrandedForACause
<1>1. LogInit => StrandedForACause
  BY DEF LogInit, StrandedForACause, Stranded
<1>2. ClockInv /\ WriterInv /\ AgentInv /\ StrandedForACause /\ [LogNext]_logVars
        => StrandedForACause'
  BY StrandedStep
<1> QED
  BY <1>1, <1>2, LogInvariance, PTL DEF LogSpec

\* An agent that has not died and whose uploads were all answered never sends a
\* line that the backend has.
THEOREM SentOnceWithoutFaults == LogSpec => []SentOnce
<1>1. LogInit => ReceivedBehind /\ SentOnce
  BY DEF LogInit, ReceivedBehind, SentOnce
<1>2. ClockInv /\ WriterInv /\ AgentInv /\ ReceivedBehind /\ SentOnce /\ [LogNext]_logVars
        => ReceivedBehind' /\ SentOnce'
  BY ReceivedBehindStep
<1> QED
  BY <1>1, <1>2, LogInvariance, PTL DEF LogSpec

=============================================================================
