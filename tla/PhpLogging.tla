----------------------------- MODULE PhpLogging -----------------------------
(***************************************************************************)
(* One log of the PHP agent from the process that writes it to the         *)
(* backend.  A worker appends lines to the file of a day                   *)
(* (openrasp_log.cc); the log agent reads the file of its current suffix   *)
(* (agent/log_collect_item.cc), keeps a batch until the backend has        *)
(* accepted it, saves its position in .status.json and goes on to the next *)
(* day's file (agent/log_agent.cc).  The agent may die at any step and is  *)
(* started again by the supervisor; an upload may fail, or succeed with    *)
(* its answer lost.                                                        *)
(*                                                                         *)
(* A file is the sequence of what was appended to it: complete lines,      *)
(* lines the agent does not send, and long lines written in two parts.     *)
(* The inode test of update_fpos is left out: files are not replaced.      *)
(***************************************************************************)
EXTENDS PhpLogBucket, FiniteSets

CONSTANTS
  DayLen,     \* ticks of a day
  Batch,      \* LogAgent::max_post_logs_account
  MaxCrash,   \* bound: deaths of the log agent
  MaxReject   \* bound: failed uploads and lost answers

ASSUME LogAssumption ==
  /\ DayLen \in Nat \ {0}
  /\ Batch \in Nat \ {0}
  /\ MaxCrash \in Nat
  /\ MaxReject \in Nat

VARIABLES
  file,       \* file[d]: what the file of day d holds
  wday,       \* the suffix the worker computed at the start of its request
  half,       \* the worker is between the two parts of a line
  status,     \* .status.json
  suf,        \* curr_suffix
  lastDay,    \* the day of last_post_time
  pos,        \* the position of ifs, or where it will be opened
  cache,      \* the lines of cached_body
  rotate,     \* the local variable file_rotate
  adrift,     \* history: why the agent is with an older file on a new day, or "no"
  lpc,        \* where the log agent stands
  got,        \* the lines that the backend has received
  skipped,    \* history: lines read and not cached
  taken,      \* history: lines that this life of the agent has cached
  settled,    \* history: lines that the saved position covers
  crashes,    \* bound: deaths so far
  rejects     \* bound: failed uploads so far

writerVars == <<bucketVars, file, wday, half>>
memVars == <<suf, lastDay, pos, cache, rotate, adrift>>
logVars == <<writerVars, status, memVars, lpc, got, skipped, taken, settled, crashes, rejects>>

Day(t) == t \div DayLen
Today == Day(now)
DaySet == 0 .. MaxTime \div DayLen
NoDay == 0 - 1

\* No status file, or one that was truncated and not written: curr_suffix is
\* empty and names no file, last_post_time is 0.
NoStatus == [suf |-> NoDay, day |-> NoDay, pos |-> 0]

LogInit ==
  /\ BucketInit
  /\ file = [d \in DaySet |-> <<>>]
  /\ wday = NoDay
  /\ half = FALSE
  /\ status = NoStatus
  /\ suf = NoDay
  /\ lastDay = NoDay
  /\ pos = 0
  /\ cache = {}
  /\ rotate = FALSE
  /\ adrift = "no"
  /\ lpc = "sleep"
  /\ got = {}
  /\ skipped = {}
  /\ taken = {}
  /\ settled = {}
  /\ crashes = 0
  /\ rejects = 0

-----------------------------------------------------------------------------
(***************************************************************************)
(* The worker.                                                             *)
(***************************************************************************)

AgentUnchanged == UNCHANGED <<status, memVars, lpc, got, skipped, taken, settled, crashes, rejects>>

\* RINIT fixes the date suffix.
StartRequest ==
  /\ wday = NoDay
  /\ wday' = Today
  /\ UNCHANGED <<bucketVars, file, half>>
  /\ AgentUnchanged

EndRequest ==
  /\ wday # NoDay /\ ~half
  /\ wday' = NoDay
  /\ UNCHANGED <<bucketVars, file, half>>
  /\ AgentUnchanged

\* The file a line goes to.  raw_log asks whether last_logged_time is another
\* day, but the token it has just taken has set that time to the present, so
\* the suffix of the request stays.
Target == IF wday = NoDay THEN Today ELSE wday

\* Lines are numbered in the order they are written.
WriteLine(part) ==
  /\ ~half
  /\ Consume
  /\ file' = [file EXCEPT ![Target] = Append(@, [id |-> Len(times) + 1, part |-> part])]
  /\ half' = (part = "head")
  /\ UNCHANGED wday
  /\ AgentUnchanged

\* A line longer than the buffer of the stream is appended in two writes.
WriteTail ==
  /\ half
  /\ file' = [file EXCEPT ![Target] = Append(@, [id |-> Len(times), part |-> "tail"])]
  /\ half' = FALSE
  /\ UNCHANGED <<bucketVars, wday>>
  /\ AgentUnchanged

DropLine ==
  /\ ~half
  /\ Refuse
  /\ UNCHANGED <<file, wday, half>>
  /\ AgentUnchanged

Clock ==
  /\ ~half
  /\ Tick
  /\ UNCHANGED <<file, wday, half>>
  /\ AgentUnchanged

-----------------------------------------------------------------------------
(***************************************************************************)
(* The log agent.                                                          *)
(***************************************************************************)

\* std::getline at position p of f: up to the end of the line or of the file.
LineEnd(f, p) ==
  IF f[p + 1].part = "head" /\ p + 2 <= Len(f) THEN p + 2 ELSE p + 1

\* log_content_qualified: a complete line of this agent.  A part of a line is
\* no JSON text.
Qualified(f, p) ==
  \/ f[p + 1].part = "whole"
  \/ f[p + 1].part = "head" /\ LineEnd(f, p) = p + 2

\* The places from p on where getline begins a line: p, even when it is between
\* the two parts of one, and every later beginning.
LineStarts(f, p) == {q \in p .. Len(f) - 1 : q = p \/ f[q + 1].part # "tail"}

\* Of at most max lines from position p: the batch, the lines that are consumed
\* without being cached, and the new position.  The line that ends the loop,
\* because it is not qualified or because the batch is full, is consumed.
ReadUpTo(f, p, max) ==
  LET starts == LineStarts(f, p)
      upTo(q) == {r \in starts : r <= q}
      batch == {q \in starts : Cardinality(upTo(q)) <= max /\ \A r \in upTo(q) : Qualified(f, r)}
      rest == starts \ batch
      stop == CHOOSE q \in rest : \A r \in rest : q <= r
  IN [lines |-> {f[q + 1].id : q \in batch},
      skip  |-> IF rest = {} THEN {} ELSE {f[stop + 1].id},
      pos   |-> IF rest = {} THEN Len(f) ELSE LineEnd(f, stop)]

\* Mutant of ReadBatch: one line more than the limit.
ReadBatchOneMore(f, p) == ReadUpTo(f, p, Batch + 1)

\* refresh_cache_body from position p.
ReadBatch(f, p) == ReadUpTo(f, p, Batch)

FileExists(d) == d \in DaySet /\ file[d] # <<>>

\* need_rotate, update_collect_status and refresh_cache_body: a batch that is
\* still cached is sent again and nothing is read.
ReadPass ==
  /\ lpc = "sleep"
  /\ rotate' = (lastDay # Today)
  /\ IF FileExists(suf)
     THEN LET batch == ReadBatch(file[suf], pos)
          IN IF cache = {}
             THEN /\ cache' = batch.lines
                  /\ pos' = batch.pos
                  /\ skipped' = skipped \cup batch.skip
                  /\ taken' = taken \cup batch.lines
                  /\ lpc' = IF batch.lines = {} THEN "rotate" ELSE "post"
             ELSE /\ lpc' = "post"
                  /\ UNCHANGED <<cache, pos, skipped, taken>>
     ELSE /\ lpc' = "rotate"
          /\ UNCHANGED <<cache, pos, skipped, taken>>
  /\ UNCHANGED <<writerVars, status, suf, lastDay, adrift, got, settled, crashes, rejects>>

\* Mutant of PostAccepted: the batch is not cleared.
PostAcceptedKeeping ==
  /\ lpc = "post"
  /\ got' = got \cup cache
  /\ lpc' = "status"
  /\ UNCHANGED <<writerVars, status, memVars, skipped, taken, settled, crashes, rejects>>

\* post_logs_via_curl succeeds; clear_cache_body.
PostAccepted ==
  /\ lpc = "post"
  /\ got' = got \cup cache
  /\ cache' = {}
  /\ lpc' = "status"
  /\ UNCHANGED <<writerVars, status, suf, lastDay, pos, rotate, adrift, skipped, taken,
                 settled, crashes, rejects>>

\* Mutants of PostFailed: the result is not looked at; the batch is dropped.
PostFailedIgnored ==
  /\ lpc = "post"
  /\ rejects < MaxReject
  /\ rejects' = rejects + 1
  /\ cache' = {}
  /\ lpc' = "status"
  /\ UNCHANGED <<writerVars, status, suf, lastDay, pos, rotate, adrift, got, skipped, taken,
                 settled, crashes>>

PostFailedDropping ==
  /\ lpc = "post"
  /\ rejects < MaxReject
  /\ rejects' = rejects + 1
  /\ cache' = {}
  /\ lpc' = "rotate"
  /\ UNCHANGED <<writerVars, status, suf, lastDay, pos, rotate, adrift, got, skipped, taken,
                 settled, crashes>>

\* It fails, before or after the backend has taken the batch.
PostFailed ==
  /\ lpc = "post"
  /\ rejects < MaxReject
  /\ rejects' = rejects + 1
  /\ got' \in {got, got \cup cache}
  /\ lpc' = "rotate"
  /\ UNCHANGED <<writerVars, status, memVars, skipped, taken, settled, crashes>>

\* The lines before the saved position.
Before(d, p) == {file[d][i].id : i \in 1 .. p}

\* The present becomes last_post_time.  When need_rotate saw another day, nobody
\* notices the new one before the next midnight.
TouchDay ==
  /\ lastDay' = Today
  /\ adrift' = IF lastDay # Today /\ ~rotate THEN "midnight" ELSE adrift

\* update_status_snapshot: the position and the present are saved.
SaveStatus ==
  /\ lpc = "status"
  /\ status' = [suf |-> suf, day |-> Today, pos |-> pos]
  /\ TouchDay
  /\ settled' = settled \cup (IF suf = NoDay THEN {} ELSE Before(suf, pos))
  /\ lpc' = "rotate"
  /\ UNCHANGED <<writerVars, suf, pos, cache, rotate, got, skipped, taken, crashes, rejects>>

\* Mutants of HandleRotate: the suffix is not updated; the batch is cleared.
HandleRotateSameFile ==
  /\ lpc = "rotate"
  /\ IF rotate
     THEN /\ lastDay' = Today /\ adrift' = "no"
          /\ suf' = (IF suf = NoDay THEN Today ELSE suf) /\ pos' = 0
     ELSE TouchDay /\ UNCHANGED <<suf, pos>>
  /\ lpc' = "sleep"
  /\ UNCHANGED <<writerVars, status, cache, rotate, got, skipped, taken, settled, crashes,
                 rejects>>

HandleRotateClearing ==
  /\ lpc = "rotate"
  /\ IF rotate
     THEN lastDay' = Today /\ adrift' = "no" /\ suf' = Today /\ pos' = 0 /\ cache' = {}
     ELSE TouchDay /\ UNCHANGED <<suf, pos, cache>>
  /\ lpc' = "sleep"
  /\ UNCHANGED <<writerVars, status, rotate, got, skipped, taken, settled, crashes, rejects>>

\* handle_rotate: after the first pass of a new day the agent turns to that
\* day's file, whatever is left in the old one.
HandleRotate ==
  /\ lpc = "rotate"
  /\ IF rotate
     THEN lastDay' = Today /\ adrift' = "no" /\ suf' = Today /\ pos' = 0
     ELSE TouchDay /\ UNCHANGED <<suf, pos>>
  /\ lpc' = "sleep"
  /\ UNCHANGED <<writerVars, status, cache, rotate, got, skipped, taken, settled, crashes,
                 rejects>>

\* The agent dies and its successor loads the status file, which is empty when
\* the death came between its truncation and its write.
Crash ==
  /\ crashes < MaxCrash
  /\ crashes' = crashes + 1
  /\ \/ status' = status /\ settled' = settled
     \/ lpc = "status" /\ status' = NoStatus /\ settled' = {}
  /\ suf' = status'.suf
  /\ lastDay' = status'.day
  /\ pos' = status'.pos
  /\ cache' = {}
  /\ rotate' = FALSE
  /\ adrift' = IF status'.day = Today /\ status'.suf # Today THEN "restart" ELSE "no"
  /\ taken' = {}
  /\ lpc' = "sleep"
  /\ UNCHANGED <<writerVars, got, skipped, rejects>>

-----------------------------------------------------------------------------
AgentNext == ReadPass \/ PostAccepted \/ PostFailed \/ SaveStatus \/ HandleRotate

LogNext ==
  \/ StartRequest \/ EndRequest \/ WriteTail \/ DropLine \/ Clock
  \/ \E part \in {"whole", "head", "other"} : WriteLine(part)
  \/ AgentNext \/ Crash

LogSpec == LogInit /\ [][LogNext]_logVars

\* The agent runs on, and a line that is begun is finished; nothing makes a
\* worker write or a day end.
FairLogSpec == LogSpec /\ WF_logVars(AgentNext) /\ WF_logVars(WriteTail)

-----------------------------------------------------------------------------
(***************************************************************************)
(* Properties.                                                             *)
(***************************************************************************)

Line == 1 .. MaxLines
Entry == [id : Line, part : {"whole", "head", "tail", "other"}]

AgentTypeOK ==
  /\ status \in [suf : DaySet \cup {NoDay}, day : DaySet \cup {NoDay}, pos : Nat]
  /\ suf \in DaySet \cup {NoDay}
  /\ lastDay \in DaySet \cup {NoDay}
  /\ pos \in Nat
  /\ suf # NoDay => pos <= Len(file[suf])
  /\ cache \subseteq Line /\ Cardinality(cache) <= Batch
  /\ rotate \in BOOLEAN
  /\ adrift \in {"no", "restart", "midnight"}
  /\ lpc \in {"sleep", "post", "status", "rotate"}
  /\ got \subseteq Line
  /\ skipped \subseteq Line
  /\ taken \subseteq Line
  /\ settled \subseteq Line
  /\ crashes \in 0 .. MaxCrash
  /\ rejects \in 0 .. MaxReject

\* Every variable has its type (LogCollectItem and the day files).
LogTypeOK ==
  /\ now \in 0 .. MaxTime
  /\ tokens \in 0 .. Burst
  /\ last \in 0 .. MaxTime
  /\ times \in Seq(0 .. MaxTime)
  /\ drops \in 0 .. MaxLines
  /\ \A d \in DaySet :
       file[d] \in Seq(Entry)
  /\ wday \in DaySet \cup {NoDay}
  /\ half \in BOOLEAN
  /\ AgentTypeOK

\* The saved position never passes a line that the backend does not have,
\* except lines that the reading loop consumed without caching: a crash loses
\* nothing that was cached.
SavedIsDelivered ==
  status.suf # NoDay =>
    \A i \in 1 .. status.pos :
      file[status.suf][i].id \in got \cup skipped

\* A line before a saved position is not sent again, in this life of the agent
\* or a later one: not after a rotation, not after a restart on another day.
SettledNotResent == cache \cap settled = {}

\* A line that the agent has cached is received or stays cached as long as the
\* agent lives: over failed uploads, and over the rotation to the next day's
\* file that may come between.
ReadIsKept == taken \subseteq got \cup cache

\* Every line that is sent twice is so because of a death or of an upload that
\* was not answered: without them what is about to be sent is not received yet.
SentOnce == crashes = 0 /\ rejects = 0 => cache \cap got = {}

\* The agent is with the file of an older day and will not leave it before the
\* next midnight, as the present day is already its last_post_time.
Stranded == lastDay = Today /\ suf \notin {Today, NoDay}

\* Only two things strand the agent.  It was restarted on the word of a status
\* that was saved on the new day for the old file; or midnight fell between
\* need_rotate, which still saw the old day, and the update of last_post_time in
\* handle_rotate or update_status_snapshot, without any death.
StrandedForACause ==
  Stranded /\ (lpc = "sleep" \/ ~rotate) => adrift # "no"

\* The agent catches up again and again with the file of the day, however often
\* it dies and uploads fail: every complete line of it is received or skipped.
\* Except while it is stranded for one of the two causes: then the lines of that
\* day stay where they are.
Collected ==
  []<>(\/ Stranded /\ adrift # "no"
       \/ \A i \in 1 .. Len(file[Today]) :
            file[Today][i].part = "whole" => file[Today][i].id \in got \cup skipped)

-----------------------------------------------------------------------------
(***************************************************************************)
(* What makes the properties inductive.                                    *)
(***************************************************************************)

\* The two parts of a line are next to each other.
WellFormed(f) ==
  \A i \in 1 .. Len(f) :
    /\ f[i].part = "tail" => i > 1 /\ f[i - 1] = [id |-> f[i].id, part |-> "head"]
    /\ f[i].part = "head" /\ i < Len(f) => f[i + 1].part = "tail"

\* The last line lacks its second part.
Open(f) == f # <<>> /\ f[Len(f)].part = "head"

\* Only the line that is being written is open.
OneOpen ==
  /\ \A d \in DaySet : Open(file[d]) => half /\ d = Target
  /\ half => Open(file[Target]) /\ file[Target][Len(file[Target])].id = Len(times)

\* Every line is in one place.
Distinct ==
  \A d, e \in DaySet : \A i \in 1 .. Len(file[d]), j \in 1 .. Len(file[e]) :
    /\ file[d][i].part # "tail" /\ file[e][j].part # "tail"
    /\ file[d][i].id = file[e][j].id
    => d = e /\ i = j

WriterInv ==
  /\ file \in [DaySet -> Seq(Entry)]
  /\ wday \in DaySet \cup {NoDay} /\ half \in BOOLEAN
  /\ drops \in Nat /\ Len(times) + drops <= MaxLines
  /\ \A d \in DaySet : WellFormed(file[d])
  /\ \A d \in DaySet : \A i \in 1 .. Len(file[d]) : file[d][i].id <= Len(times)
  /\ OneOpen
  /\ Distinct

\* The agent goes from one day to the next and forwards in a file; what it has
\* saved is not ahead of where it is.
Forwards ==
  /\ suf <= lastDay /\ lastDay <= Today
  /\ status.suf <= status.day /\ status.day <= Today
  /\ status.suf <= suf
  /\ status.suf = suf => status.pos <= pos
  /\ status.suf # NoDay => status.pos <= Len(file[status.suf])
  /\ rotate /\ lpc # "sleep" => suf < Today

\* A line the agent has passed is received, skipped or in the batch.
PassedIsKept ==
  suf # NoDay =>
    \A i \in 1 .. pos : file[suf][i].id \in got \cup skipped \cup cache

\* Ahead of the saved position no line is settled; the second part of a settled
\* line may be.
SettledBehind ==
  /\ \A n \in settled : n <= Len(times)
  /\ \A d \in DaySet : \A i \in 1 .. Len(file[d]) :
       /\ d > status.suf \/ (d = status.suf /\ i > status.pos)
       /\ file[d][i].part # "tail"
       => file[d][i].id \notin settled

AgentInv ==
  /\ AgentTypeOK
  /\ Forwards
  /\ lpc = "status" => cache = {}
  /\ PassedIsKept /\ SavedIsDelivered
  /\ SettledBehind /\ SettledNotResent

\* Nothing ahead of a first agent is received or in its batch, except second
\* parts of lines.
ReceivedBehind ==
  /\ \A n \in got \cup cache : n <= Len(times)
  /\ crashes = 0 =>
       \A d \in DaySet : \A i \in 1 .. Len(file[d]) :
         /\ d > suf \/ (d = suf /\ i > pos)
         /\ file[d][i].part # "tail"
         => file[d][i].id \notin got \cup cache

==============================================================================
