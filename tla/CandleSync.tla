------------------------------ MODULE CandleSync ------------------------------
(***************************************************************************)
(* How candles reach the database: HistoricalFetcherService pages through  *)
(* a range of one series (exchange, symbol, timeframe), resuming after the *)
(* newest candle that is stored in the range, and drops every page that    *)
(* CandleIntegrityChecker rejects. A live cycle asks for the last Window   *)
(* candles of its own timeframe and for the last HigherWindow of the next  *)
(* higher one, so that cycles of two bots may ask for the same series over *)
(* different times; a backtest asks for the range it is given. Candle i    *)
(* opens at time i and closes at i + 1. Table backfill_states is written   *)
(* after every page and never read: it is left out.                        *)
(***************************************************************************)
EXTENDS Integers, FiniteSets, SequencesExt

CONSTANTS
  Live,         \* fetchers of live cycles
  Backtests,    \* fetchers of backtests
  Window,       \* candles of its own timeframe a live cycle looks back
  HigherWindow, \* candles of the higher timeframe; Window, if the series is nobody's
  PageSize,     \* candles the exchange answers at most
  Timeframe,    \* of the series
  Bars,         \* prices, volumes and time to the close a candle may come with
  Outages,      \* the sets of candles the exchange may lack
  MaxTime       \* bound: the last candle

ASSUME SyncAssumption ==
  /\ Live \cap Backtests = {}
  /\ Window \in Nat /\ HigherWindow \in 0 .. Window /\ PageSize \in Nat \ {0} /\ MaxTime \in Nat
  /\ Outages \subseteq SUBSET (0 .. MaxTime)

Fetchers == Live \cup Backtests

Times == 0 .. MaxTime

VARIABLES
  now,     \* the candle that is open
  missing, \* the candles the exchange lacks
  store,   \* the candles in the database
  asked,   \* those of them that a backtest stored
  fetch    \* what each fetcher is at

syncVars == <<now, missing, store, asked, fetch>>

Idle == [pc |-> "idle", end |-> 0, from |-> 0, page |-> << >>]

Candles == [time : Times, bar : Bars]

-----------------------------------------------------------------------------
(* CandleIntegrityChecker *)

Sorted(page) == \A i \in 1 .. Len(page) - 1 : page[i].time <= page[i + 1].time

NoDuplicates(page) == \A i, j \in DOMAIN page : page[i].time = page[j].time => i = j

SaneOhlc(bar) ==
  /\ \A price \in {bar.open, bar.high, bar.low, bar.close} : price > 0
  /\ \A price \in {bar.open, bar.low, bar.close} : bar.low <= price /\ price <= bar.high

SaneVolume(bar) == bar.volume >= 0 /\ bar.quote >= 0

SaneBounds(bar) == bar.lasts > 0

\* Minutes between two candles; the checker knows no step for longer timeframes.
Steps == [m \in {"1m", "5m", "15m", "1h", "4h", "1d"} |->
            CASE m = "1m" -> 1 [] m = "5m" -> 5 [] m = "15m" -> 15
              [] m = "1h" -> 60 [] m = "4h" -> 240 [] m = "1d" -> 1440]

\* Within a page only: nobody compares its first candle with what is stored.
Regular(page) ==
  LET times == {page[i].time : i \in DOMAIN page}
      Adjacent(a, b) == a < b /\ \A c \in times : ~ (a < c /\ c < b)
  IN  \A a, b \in times : Adjacent(a, b) => Timeframe \in DOMAIN Steps /\ b = a + 1

Valid(page) ==
  /\ page # << >> /\ Sorted(page) /\ NoDuplicates(page) /\ Regular(page)
  /\ \A i \in DOMAIN page :
       SaneOhlc(page[i].bar) /\ SaneVolume(page[i].bar) /\ SaneBounds(page[i].bar)

-----------------------------------------------------------------------------
(* The exchange: what fetch_ohlcv answers *)

\* The k-th of the times has k - 1 before it.
Ascending(times) ==
  [k \in 1 .. Cardinality(times) |->
     CHOOSE t \in times : Cardinality({u \in times : u < t}) = k - 1]

Available(from, end) == {i \in from .. end : i <= now /\ i \notin missing}

Proper(from, end, bar) ==
  LET all == Ascending(Available(from, end))
      few == IF Len(all) > PageSize THEN SubSeq(all, 1, PageSize) ELSE all
  IN  [k \in DOMAIN few |-> [time |-> few[k], bar |-> bar]]

\* In order; prices and volumes may be anything.
Answers(from, end) == {Proper(from, end, bar) : bar \in Bars}

-----------------------------------------------------------------------------
(* HistoricalFetcherService.fetch_and_store_range *)

\* One past the newest candle that is stored in the range.
ResumeFrom(start, end) ==
  LET stored == {i \in store : start <= i /\ i <= end}
  IN  IF stored = {} THEN start ELSE 1 + CHOOSE i \in stored : \A j \in stored : j <= i

Begin(f, start, end) ==
  /\ fetch[f].pc = "idle"
  /\ fetch' = [fetch EXCEPT ![f] =
       [Idle EXCEPT !.pc = "asking", !.end = end,
                    !.from = ResumeFrom(start, end)]]

\* A backtest goes on with what its fetch came to; a live cycle does not ask.
Finished(f) == IF f \in Backtests THEN [Idle EXCEPT !.pc = "done"] ELSE Idle

Ask(f) ==
  /\ fetch[f].pc = "asking"
  /\ fetch[f].from <= fetch[f].end
  /\ \E page \in Answers(fetch[f].from, fetch[f].end) :
       fetch' = [fetch EXCEPT ![f].pc = "answered", ![f].page = page]
  /\ UNCHANGED <<now, missing, store, asked>>

PastEnd(f) ==
  /\ fetch[f].pc = "asking"
  /\ fetch[f].from > fetch[f].end
  /\ fetch' = [fetch EXCEPT ![f] = Finished(f)]
  /\ UNCHANGED <<now, missing, store, asked>>

\* AskFails, had it gone on with the page after the one that failed.
AskSkips(f) ==
  /\ fetch[f].pc = "asking"
  /\ fetch[f].from <= fetch[f].end
  /\ fetch' = [fetch EXCEPT ![f] =
       IF fetch[f].from + PageSize > fetch[f].end
         THEN Finished(f)
         ELSE [@ EXCEPT !.from = @ + PageSize]]
  /\ UNCHANGED <<now, missing, store, asked>>

\* The retries of the adapter are spent, or its circuit breaker is open.
AskFails(f) ==
  /\ fetch[f].pc = "asking"
  /\ fetch[f].from <= fetch[f].end
  /\ fetch' = [fetch EXCEPT ![f] = Finished(f)]
  /\ UNCHANGED <<now, missing, store, asked>>

\* The page is dropped as a whole.
Reject(f) ==
  /\ fetch[f].pc = "answered"
  /\ ~ Valid(fetch[f].page)
  /\ fetch' = [fetch EXCEPT ![f] = Finished(f)]
  /\ UNCHANGED <<now, missing, store, asked>>

Stored(page) == {page[i].time : i \in DOMAIN page}

\* StorePage, had it not committed the page.
StoreUncommitted(f) ==
  LET page == fetch[f].page
  IN  /\ fetch[f].pc = "answered"
      /\ Valid(page)
      /\ store' = store
      /\ asked' = IF f \in Backtests THEN asked \cup Stored(page) ELSE asked
      /\ fetch' = [fetch EXCEPT ![f] =
           IF Len(page) < PageSize
             THEN Finished(f)
             ELSE [@ EXCEPT !.pc = "asking", !.page = << >>, !.from = Last(page).time + 1]]
      /\ UNCHANGED <<now, missing>>

StorePage(f) ==
  LET page == fetch[f].page
  IN  /\ fetch[f].pc = "answered"
      /\ Valid(page)
      /\ store' = store \cup Stored(page)
      /\ asked' = IF f \in Backtests THEN asked \cup Stored(page) ELSE asked
      /\ fetch' = [fetch EXCEPT ![f] =
           IF Len(page) < PageSize
             THEN Finished(f)
             ELSE [@ EXCEPT !.pc = "asking", !.page = << >>, !.from = Last(page).time + 1]]
      /\ UNCHANGED <<now, missing>>

FetchStep(f) == Ask(f) \/ PastEnd(f) \/ AskFails(f) \/ Reject(f) \/ StorePage(f)

-----------------------------------------------------------------------------
\* MarketDataOrchestrator.fetch_data_for_symbols: a bot of this timeframe, or one for
\* which it is the higher timeframe (htf_map).
LiveCycle(f) ==
  /\ \E window \in {Window, HigherWindow} :
       Begin(f, IF now > window THEN now - window ELSE 0, now)
  /\ UNCHANGED <<now, missing, store, asked>>

SyncInit ==
  /\ now = 0
  /\ missing \in Outages
  /\ store = {}
  /\ asked = {}
  /\ fetch = [f \in Fetchers |-> Idle]

Tick ==
  /\ now < MaxTime
  /\ now' = now + 1
  /\ UNCHANGED <<missing, store, asked, fetch>>

\* The process dies, and with it every fetch; a page is stored by one commit.
AllIdle == fetch' = [f \in Fetchers |-> Idle]

\* run_backtest fetches its range, which is one of the past, and goes on.
BackFill(f) ==
  /\ \E start, end \in 0 .. now : start < end /\ Begin(f, start, end)
  /\ UNCHANGED <<now, missing, store, asked>>

Collect(f) ==
  /\ fetch[f].pc = "done"
  /\ fetch' = [fetch EXCEPT ![f] = Idle]
  /\ UNCHANGED <<now, missing, store, asked>>

SyncCrash ==
  /\ AllIdle
  /\ UNCHANGED <<now, missing, store, asked>>

SyncNext ==
  \/ Tick \/ SyncCrash
  \/ \E f \in Live : LiveCycle(f)
  \/ \E f \in Backtests : BackFill(f) \/ Collect(f)
  \/ \E f \in Fetchers : FetchStep(f)

\* One series on its own: what its fetchers may do, whatever else live cycles and jobs do.
SyncSpec == SyncInit /\ [][SyncNext]_syncVars

-----------------------------------------------------------------------------
\* Types of the series, of its store and of the fetchers' ranges and pages.
SyncTypeOK ==
  /\ now \in Times
  /\ missing \subseteq Times
  /\ store \subseteq 0 .. now /\ asked \subseteq store
  /\ \A f \in Fetchers :
       /\ fetch[f].pc \in {"idle", "asking", "answered", "done"}
       /\ fetch[f].end \in Times /\ fetch[f].from \in 0 .. MaxTime + 1
       /\ \A i \in DOMAIN fetch[f].page :
            fetch[f].page[i].time \in Times /\ fetch[f].page[i].bar \in Bars

\* Within the shorter of the two windows, two stored candles with nothing stored in
\* between are neighbours, unless the exchange lacks all that lies between them or the
\* later one was stored by a backtest: live cycles alone leave no hole there, however they
\* overlap, fail, or are cut short by a crash (fetch_and_store_range resumes after the
\* newest). Further back, up to Window, they do: what the cycles of a higher timeframe's
\* window have stored makes those of the longer one resume beyond what is lacking before it.
NoHoles ==
  \A i, j \in store :
    (/\ now - HigherWindow <= i /\ i + 1 < j
     /\ \A k \in i + 1 .. j - 1 : k \notin store)
    => i + 1 .. j - 1 \subseteq missing \/ j \in asked
=============================================================================
