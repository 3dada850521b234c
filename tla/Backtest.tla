------------------------------- MODULE Backtest -------------------------------
(***************************************************************************)
(* A backtest job of BacktestEngineService beside live cycles: it back-    *)
(* fills its range, loads the candles and the snapshots calculated from    *)
(* them into the in-memory repositories, and runs one trading cycle per    *)
(* candle of the range. Its row in backtest_results is also written by the *)
(* HTTP API, through sessions of its own. Snapshot i is that of candle i:  *)
(* it bears the time at which the candle opens, and is available when the  *)
(* candle closes.                                                          *)
(***************************************************************************)
EXTENDS CandleSync

CONSTANTS
  WarmUp,      \* candles wanted before the start
  MinCandles,  \* fewer give no snapshot
  CheckEvery   \* cycles between two looks at the row

ASSUME BacktestAssumption ==
  /\ WarmUp \in Nat /\ MinCandles \in Nat /\ CheckEvery \in Nat \ {0}
  /\ Backtests # {}

TheFetcher == CHOOSE f \in Backtests : TRUE

VARIABLES
  row, \* the job's row: its status, or "none"
  job  \* the task: where it is, its range, simulated time, cached snapshots

vars == <<syncVars, row, job>>

NoJob == [pc |-> "none", start |-> 0, end |-> 0, sim |-> 0,
          cache |-> << >>, read |-> -1, cancel |-> FALSE]

-----------------------------------------------------------------------------
(* The in-memory repositories: sequences in the order of time, searched by *)
(* bisection.                                                              *)

BisectLeft(times, t) == Cardinality({i \in DOMAIN times : times[i] < t})

BisectRight(times, t) == Cardinality({i \in DOMAIN times : times[i] <= t})

\* At the place bisection finds, unless a snapshot of the same time is replaced there.
InsertSorted(times, t) ==
  LET idx == BisectLeft(times, t)
  IN  IF idx < Len(times) /\ times[idx + 1] = t THEN times ELSE InsertAt(times, idx + 1, t)

\* After each of the snapshots to be inserted.
Upserted(times, more) ==
  LET upserted[n \in 0 .. Len(more)] ==
        IF n = 0 THEN times ELSE InsertSorted(upserted[n - 1], more[n])
  IN  upserted

Upsert(times, more) == Upserted(times, more)[Len(more)]

\* CacheList, had it bisected to the left of the end.
CacheListExclusive(times, start, end, limit) ==
  LET to   == BisectLeft(times, end)
      from == IF BisectLeft(times, start) > to - limit
                THEN BisectLeft(times, start) ELSE to - limit
  IN  SubSeq(times, from + 1, to)

\* list_by_symbol; get_latest is its last element.
CacheList(times, start, end, limit) ==
  LET to   == BisectRight(times, end)
      from == IF BisectLeft(times, start) > to - limit
                THEN BisectLeft(times, start) ELSE to - limit
  IN  SubSeq(times, from + 1, to)

\* The repositories' queries: in the range, newest first, at most limit, reversed.
QueryList(stored, start, end, limit) ==
  LET newest == Reverse(Ascending({t \in stored : start <= t /\ t <= end}))
  IN  Reverse(IF Len(newest) > limit THEN SubSeq(newest, 1, limit) ELSE newest)

Calculated(candles) == IF Len(candles) < MinCandles THEN << >> ELSE candles

\* Twice: from the candles up to the end, then from all that there are.
Snapshots ==
  Upsert(Upsert(<< >>, Calculated(Ascending({i \in store : i <= job.end}))),
         Calculated(Ascending(store)))

-----------------------------------------------------------------------------
(* BacktestEngineService.run_backtest *)

WarmUpStart(start) == IF start > WarmUp THEN start - WarmUp ELSE 0

\* POST /run checks the range, here one of the past; the row is added and committed.
Run ==
  /\ job.pc = "none" /\ row = "none"
  /\ \E start, end \in Times :
       /\ start < end /\ end <= now
       /\ job' = [NoJob EXCEPT !.pc = "filling", !.start = start, !.end = end]
       /\ Begin(TheFetcher, WarmUpStart(start), end)
  /\ row' = "RUNNING"
  /\ UNCHANGED <<now, missing, store, asked>>

\* Whatever the back-fill brought; the account is created, simulated time set.
Load ==
  /\ job.pc = "filling"
  /\ fetch[TheFetcher].pc = "done"
  /\ job' = [job EXCEPT !.pc = "looping", !.sim = job.start, !.cache = Snapshots]
  /\ fetch' = [fetch EXCEPT ![TheFetcher] = Idle]
  /\ UNCHANGED <<now, missing, store, asked, row>>

\* The row is refreshed every CheckEvery cycles: no row is an error, a cancelled job
\* leaves the loop.
IsCheck == job.sim <= job.end /\ (job.sim - job.start + 1) % CheckEvery = 0

Cancelled == IsCheck /\ row = "CANCELLED"

Latest(times, t) ==
  LET found == CacheList(times, 0, t, 1) IN IF found = << >> THEN -1 ELSE found[1]

Simulate ==
  /\ job.pc = "looping"
  /\ job.sim <= job.end
  /\ IsCheck => row = "RUNNING"
  /\ job' = [job EXCEPT !.sim = @ + 1, !.read = Latest(job.cache, job.sim)]
  /\ UNCHANGED <<syncVars, row>>

LoopEnds ==
  /\ job.pc = "looping"
  /\ job.sim > job.end \/ Cancelled
  /\ job' = [job EXCEPT !.pc = "analysing"]
  /\ UNCHANGED <<syncVars, row>>

\* Analytics, then COMPLETED whichever way the loop ended; the archive may fail.
Complete ==
  /\ job.pc = "analysing"
  /\ row # "none"
  /\ job' = NoJob
  /\ row' = "COMPLETED"
  /\ UNCHANGED syncVars

\* The row is gone: refreshing it or writing the result raises, and so does the handler.
Stale ==
  /\ row = "none"
  /\ \/ job.pc = "looping" /\ IsCheck
     \/ job.pc = "analysing"
  /\ job' = NoJob
  /\ UNCHANGED <<syncVars, row>>

\* Any step may raise. The handler writes FAILED, unless the error left the session in
\* need of a rollback: then the handler raises too.
Fail ==
  /\ job.pc # "none"
  /\ job.pc = "filling" => fetch[TheFetcher].pc = "done"
  /\ job' = NoJob
  /\ row' \in {row} \cup IF row = "none" THEN {} ELSE {"FAILED"}
  /\ fetch' = [fetch EXCEPT ![TheFetcher] = Idle]
  /\ UNCHANGED <<now, missing, store, asked>>

-----------------------------------------------------------------------------
(* The HTTP API *)

\* Cancel, had it committed what it wrote.
CancelCommitted ==
  /\ row = "RUNNING"
  /\ row' = "CANCELLED"
  /\ job' = [job EXCEPT !.cancel = TRUE]
  /\ UNCHANGED syncVars

\* The update is flushed; the session is closed without a commit, which undoes it.
Cancel ==
  /\ row = "RUNNING"
  /\ job' = [job EXCEPT !.cancel = job.pc # "none"]
  /\ UNCHANGED <<syncVars, row>>

\* DELETE of the job, or of all jobs.
Delete ==
  /\ row # "none"
  /\ row' = "none"
  /\ UNCHANGED <<syncVars, job>>

-----------------------------------------------------------------------------
LiveTraffic ==
  /\ \E f \in Live : LiveCycle(f) \/ FetchStep(f)
  /\ UNCHANGED <<row, job>>

Backfill == FetchStep(TheFetcher) /\ UNCHANGED <<row, job>>

Time == Tick /\ UNCHANGED <<row, job>>

\* Nothing looks at rows that a dead process left RUNNING.
Crash ==
  /\ job.pc # "none" \/ \E f \in Fetchers : fetch[f].pc # "idle"
  /\ AllIdle
  /\ job' = NoJob
  /\ UNCHANGED <<now, missing, store, asked, row>>

JobStep == Load \/ Simulate \/ LoopEnds \/ Complete \/ Stale

Init == SyncInit /\ row = "none" /\ job = NoJob

Next == Run \/ JobStep \/ Fail \/ Cancel \/ Delete \/ LiveTraffic \/ Backfill \/ Time \/ Crash

Spec == Init /\ [][Next]_vars

-----------------------------------------------------------------------------
\* Types of the fetchers, of the job's row and of its task: simulated time stays within
\* one candle of the range of times, and the cache holds times of candles.
TypeOK ==
  /\ SyncTypeOK
  /\ row \in {"none", "RUNNING", "CANCELLED", "COMPLETED", "FAILED"}
  /\ job \in [pc : {"none", "filling", "looping", "analysing"}, start : Times,
              end : Times, sim : 0 .. MaxTime + 1,
              cache : Seq(Times), read : Times \cup {-1}, cancel : BOOLEAN]

\* A job becomes COMPLETED only after a cycle for every candle of its range
\* (run_backtest writes COMPLETED on both ways out of its loop).
CompletedIsWhole ==
  [][row # "COMPLETED" /\ row' = "COMPLETED"
     => job.sim = job.end + 1]_vars

\* The in-memory repositories answer every query as the database would, had it stored
\* the same snapshots.
MemoryAgrees ==
  job.pc = "looping" /\ job.sim = job.start => \A start, end \in Times, limit \in 1 .. 2 :
    CacheList(job.cache, start, end, limit)
      = QueryList({job.cache[i] : i \in DOMAIN job.cache}, start, end, limit)

\* Once a cancellation was answered, the next look at the row ends the loop.
CancelHonoured ==
  [][job.pc = "looping" /\ job.cancel /\ IsCheck /\ job'.sim > job.sim
     => job'.pc # "looping"]_vars

\* A cycle at simulated time t uses indicators of candles that have closed by then.
NoLookAhead == job.pc = "looping" /\ job.sim > job.start => job.read + 1 < job.sim
=============================================================================
