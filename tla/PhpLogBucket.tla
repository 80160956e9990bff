---------------------------- MODULE PhpLogBucket ----------------------------
(***************************************************************************)
(* The limit on the log lines of one PHP process or thread: the tokens of  *)
(* RaspLoggerEntry (openrasp_log.cc).  A line takes a token.  Tokens come  *)
(* back only when more than RASP_LOG_TOKEN_REFILL_INTERVAL has passed      *)
(* since the last line that was written, log.maxburst of them for every    *)
(* whole interval.                                                         *)
(***************************************************************************)
EXTENDS Integers, Sequences

CONSTANTS
  Burst,      \* log.maxburst
  Refill,     \* RASP_LOG_TOKEN_REFILL_INTERVAL, in ticks of the clock
  MaxTime,    \* bound: ticks
  MaxLines    \* bound: lines that are offered

ASSUME BucketAssumption ==
  /\ Burst \in Nat
  /\ Refill \in Nat \ {0}
  /\ MaxTime \in Nat
  /\ MaxLines \in Nat

VARIABLES
  now,        \* the clock
  tokens,     \* available_token
  last,       \* last_logged_time
  times,      \* history: when the lines were written
  drops       \* history: lines refused so far

bucketVars == <<now, tokens, last, times, drops>>

\* RaspLoggerEntry.init
BucketInit ==
  /\ now = 0
  /\ tokens = Burst
  /\ last = 0
  /\ times = <<>>
  /\ drops = 0

\* Mutant of Refilled: the interval is compared with the tokens of one tick.
RefilledEveryTick ==
  IF now > last THEN Burst ELSE tokens

\* The tokens at this moment.
Refilled ==
  LET more == tokens + ((now - last) \div Refill) * Burst
  IN IF now - last > Refill
     THEN IF more > Burst THEN Burst ELSE more
     ELSE tokens

Offered == Len(times) + drops

\* comsume_token_if_available returns true.
Consume ==
  /\ Offered < MaxLines
  /\ Refilled > 0
  /\ tokens' = Refilled - 1
  /\ last' = now
  /\ times' = Append(times, now)
  /\ UNCHANGED <<now, drops>>

\* It returns false: the line is lost.
Refuse ==
  /\ Offered < MaxLines
  /\ Refilled <= 0
  /\ tokens' = Refilled
  /\ drops' = drops + 1
  /\ UNCHANGED <<now, last, times>>

Tick ==
  /\ now < MaxTime
  /\ now' = now + 1
  /\ UNCHANGED <<tokens, last, times, drops>>

BucketNext == Consume \/ Refuse \/ Tick

BucketSpec == BucketInit /\ [][BucketNext]_bucketVars

\* Whatever the pace, Burst + 1 lines of one process take longer than the
\* interval: the tokens bound what a process can write in a minute (not in a
\* second, as rasp-install/php/openrasp.yml:10 has it), because writing
\* postpones the refill.
AtMostBurst ==
  \A i \in 1 .. Len(times) :
    i + Burst <= Len(times) => times[i + Burst] - times[i] > Refill

==============================================================================
