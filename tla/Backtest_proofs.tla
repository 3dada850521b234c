--------------------------- MODULE Backtest_proofs ---------------------------
(***************************************************************************)
(* A backtest is only marked COMPLETED after its loop has simulated the    *)
(* whole range, for any range, any schedule of looks at the row, and       *)
(* whatever live cycles, the API, errors and crashes do meanwhile. The     *)
(* reason is a flaw: a cancellation never reaches the row, so that the     *)
(* loop has one way out. And what live cycles store of a series has no     *)
(* holes, for any series, window and size of pages: every page follows     *)
(* what is stored, and a fetch that is cut short leaves off at a candle    *)
(* from which the next one resumes. The repositories in memory stay in the *)
(* order of time whatever is inserted, and so answer as the database does. *)
(***************************************************************************)
EXTENDS Backtest, Loops, FiniteSetTheorems, TLAPS

\* What the proof needs to know of the job's record.
Fields == {"pc", "start", "end", "sim", "cache", "read", "cancel"}

JobShape ==
  /\ DOMAIN job = Fields
  /\ job.start \in Nat /\ job.end \in Nat /\ job.sim \in Nat

\* The loop's simulated time moves within the range, and leaves it by one.
InRange ==
  /\ job.pc = "filling" => job.start < job.end
  /\ job.pc = "looping" => job.sim <= job.end + 1
  /\ job.pc = "analysing" => job.sim = job.end + 1

Inv == row # "CANCELLED" /\ JobShape /\ InRange

\* No job.
LEMMA NoJobFits == job' = NoJob => JobShape' /\ InRange'
BY DEF NoJob, JobShape, InRange, Fields

\* The invariant is inductive.
LEMMA InvInductive == Inv /\ [Next]_vars => Inv'
<1> SUFFICES ASSUME Inv, [Next]_vars PROVE Inv'
  OBVIOUS
<1> USE BacktestAssumption, SyncAssumption
<1>1. ASSUME UNCHANGED <<row, job>> PROVE Inv'
  BY <1>1 DEF Inv, JobShape, InRange
<1>2. ASSUME job' = NoJob, row' # "CANCELLED" PROVE Inv'
  BY <1>2, NoJobFits DEF Inv
<1>3. CASE Run
  <2> PICK start, end \in Times :
        /\ start < end
        /\ job' = [NoJob EXCEPT !.pc = "filling", !.start = start, !.end = end]
    BY <1>3 DEF Run
  <2>1. /\ DOMAIN job' = Fields /\ job'.pc = "filling"
        /\ job'.start = start /\ job'.end = end /\ job'.sim = 0
    BY DEF NoJob, Fields
  <2>2. start \in Nat /\ end \in Nat
    BY DEF Times
  <2> QED
    BY <1>3, <2>1, <2>2 DEF Run, Inv, JobShape, InRange
<1>4. CASE Load
  <2>1. /\ DOMAIN job' = Fields /\ job'.pc = "looping" /\ job'.sim = job.start
        /\ job'.start = job.start /\ job'.end = job.end
    BY <1>4 DEF Load, Inv, JobShape, Fields
  <2> QED
    BY <1>4, <2>1 DEF Load, Inv, JobShape, InRange
<1>5. CASE Simulate
  <2>1. /\ DOMAIN job' = Fields /\ job'.pc = "looping" /\ job'.sim = job.sim + 1
        /\ job'.start = job.start /\ job'.end = job.end
    BY <1>5 DEF Simulate, Inv, JobShape, Fields
  <2> QED
    BY <1>5, <2>1 DEF Simulate, Inv, JobShape, InRange
<1>6. CASE LoopEnds
  <2>1. /\ DOMAIN job' = Fields /\ job'.pc = "analysing" /\ job'.sim = job.sim
        /\ job'.start = job.start /\ job'.end = job.end
    BY <1>6 DEF LoopEnds, Inv, JobShape, Fields
  <2>2. job.sim > job.end
    BY <1>6 DEF LoopEnds, Cancelled, Inv
  <2> QED
    BY <1>6, <2>1, <2>2 DEF LoopEnds, Inv, JobShape, InRange
<1>7. CASE Cancel
  <2>1. /\ DOMAIN job' = Fields /\ job'.pc = job.pc /\ job'.sim = job.sim
        /\ job'.start = job.start /\ job'.end = job.end
    BY <1>7 DEF Cancel, Inv, JobShape, Fields
  <2> QED
    BY <1>7, <2>1 DEF Cancel, Inv, JobShape, InRange
<1>8. CASE Complete \/ Stale \/ Fail \/ Crash
  <2>1. job' = NoJob
    BY <1>8 DEF Complete, Stale, Fail, Crash
  <2>2. row' # "CANCELLED"
    BY <1>8 DEF Complete, Stale, Fail, Crash, Inv
  <2> QED
    BY <1>2, <2>1, <2>2
<1>9. CASE Delete
  BY <1>9 DEF Delete, Inv, JobShape, InRange
<1>10. CASE LiveTraffic \/ Backfill \/ Time \/ UNCHANGED vars
  BY <1>1, <1>10 DEF LiveTraffic, Backfill, Time, vars
<1> QED
  BY <1>3, <1>4, <1>5, <1>6, <1>7, <1>8, <1>9, <1>10 DEF Next, JobStep

\* The invariant holds throughout.
LEMMA InvCorrect == Spec => []Inv
<1>1. Init => Inv
  BY DEF Init, Inv, NoJob, JobShape, InRange, Fields
<1> QED
  BY <1>1, InvInductive, PTL DEF Spec

\* run_backtest writes COMPLETED only for a range that was simulated to its end.
THEOREM WholeCorrect == Spec => CompletedIsWhole
<1>1. Inv /\ [Next]_vars =>
        [row # "COMPLETED" /\ row' = "COMPLETED" => job.sim = job.end + 1]_vars
  <2> SUFFICES ASSUME Inv, Next, row # "COMPLETED", row' = "COMPLETED"
               PROVE  job.sim = job.end + 1
    OBVIOUS
  <2>1. Complete
    BY DEF Next, JobStep, Run, Load, Simulate, LoopEnds, Stale, Fail, Cancel, Delete,
           LiveTraffic, Backfill, Time, Crash, syncVars
  <2> QED
    BY <2>1 DEF Complete, Inv, InRange
<1> QED
  BY <1>1, InvCorrect, PTL DEF Spec, CompletedIsWhole
-----------------------------------------------------------------------------
(***************************************************************************)
(* No holes: for any fetchers, however their pages interleave.             *)
(***************************************************************************)

\* Where the shorter of the windows of live cycles begins.
WindowStart == IF now > HigherWindow THEN now - HigherWindow ELSE 0

\* The set of the times that come before one of them.
Before(times, t) == {u \in times : u < t}

\* A non-empty set of times has a first one.
LEMMA First ==
  \A times : times \subseteq Nat /\ times # {} => \E t \in times : \A u \in times : t <= u
<1> SUFFICES ASSUME NEW times \in SUBSET Nat, times # {}
             PROVE  \E t \in times : \A u \in times : t <= u
  OBVIOUS
<1> DEFINE Less == {pair \in Nat \X Nat : pair[1] < pair[2]}
<1>1. IsWellFoundedOn(Less, Nat)
  BY NatLessThanWellFounded DEF OpToRel
<1> HIDE DEF Less
<1>2. PICK t \in times : \A u \in times : <<u, t>> \notin Less
  BY <1>1, WFMin
<1>3. \A u \in times : t \in Nat /\ u \in Nat
  OBVIOUS
<1>4. ASSUME NEW u \in times, u < t PROVE FALSE
  <2>1. u \in Nat /\ t \in Nat
    BY <1>3
  <2>2. <<u, t>> \in Less
    BY <1>4, <2>1 DEF Less
  <2> QED
    BY <1>2, <2>2
<1> QED
  BY <1>3, <1>4

\* Of two times the later one has more before it.
LEMMA MoreBefore ==
  ASSUME NEW times \in SUBSET Nat, IsFiniteSet(times), NEW t \in times, NEW u \in times, t < u
  PROVE  Cardinality(Before(times, t)) < Cardinality(Before(times, u))
<1>1. IsFiniteSet(Before(times, t)) /\ IsFiniteSet(Before(times, u))
  BY FS_Subset DEF Before
<1>0. \A v \in times : v \in Nat
  OBVIOUS
<1>2. t \notin Before(times, t) /\ Before(times, t) \cup {t} \subseteq Before(times, u)
  <2>1. t \notin Before(times, t) /\ t \in Before(times, u)
    BY <1>0 DEF Before
  <2>2. ASSUME NEW v \in Before(times, t) PROVE v \in Before(times, u)
    <3>1. v \in times /\ v < t
      BY DEF Before
    <3>2. v < u
      BY <1>0, <3>1
    <3> QED
      BY <3>1, <3>2 DEF Before
  <2> QED
    BY <2>1, <2>2
<1>3. Cardinality(Before(times, t) \cup {t}) = Cardinality(Before(times, t)) + 1
  BY <1>1, <1>2, FS_AddElement
<1>4. Cardinality(Before(times, t) \cup {t}) <= Cardinality(Before(times, u))
  BY <1>1, <1>2, FS_Subset
<1> QED
  BY <1>1, <1>3, <1>4, FS_CardinalityType

\* Every time has fewer before it than there are.
LEMMA FewBefore ==
  ASSUME NEW times \in SUBSET Nat, IsFiniteSet(times), NEW t \in times
  PROVE  /\ Cardinality(Before(times, t)) \in Nat
         /\ Cardinality(Before(times, t)) < Cardinality(times)
<1>1. IsFiniteSet(Before(times, t)) /\ Before(times, t) \in SUBSET times
  BY FS_Subset DEF Before
<1>2. Before(times, t) # times
  BY DEF Before
<1>3. Cardinality(Before(times, t)) <= Cardinality(times)
  BY <1>1, FS_Subset
<1>4. Cardinality(Before(times, t)) # Cardinality(times)
  BY <1>1, <1>2, FS_Subset
<1> QED
  BY <1>1, <1>3, <1>4, FS_CardinalityType

\* For every number below that of the times, one of them has so many before it.
LEMMA SomeTime ==
  ASSUME NEW times \in SUBSET Nat, IsFiniteSet(times)
  PROVE  \A k \in 1 .. Cardinality(times) :
           \E t \in times : Cardinality(Before(times, t)) = k - 1
<1> DEFINE Nth(k) == \E t \in times : Cardinality(Before(times, t)) = k - 1
           gaps == {k \in 1 .. Cardinality(times) : ~Nth(k)}
<1>0. Cardinality(times) \in Nat
  BY FS_CardinalityType
<1> SUFFICES ASSUME gaps # {} PROVE FALSE
  OBVIOUS
<1>1. gaps \subseteq Nat /\ \A t \in times : t \in Nat
  OBVIOUS
<1>2. PICK k \in gaps : \A l \in gaps : k <= l
  BY <1>1, First
<1>3. k \in 1 .. Cardinality(times) /\ \A t \in times : Cardinality(Before(times, t)) # k - 1
  BY <1>2
<1>4. CASE k = 1
  <2>1. times # {}
    BY <1>0, <1>3, FS_EmptySet
  <2>2. PICK t \in times : \A u \in times : t <= u
    BY <2>1, First
  <2>3. Before(times, t) = {}
    <3>1. \A u \in times : ~(u < t)
      BY <1>1, <2>2
    <3> QED
      BY <3>1 DEF Before
  <2>4. Cardinality(Before(times, t)) = k - 1
    BY <1>4, <2>3, FS_EmptySet
  <2> QED
    BY <1>3, <2>4
<1>5. CASE k > 1
  <2>1. k - 1 \in 1 .. Cardinality(times) /\ k - 1 \notin gaps
    BY <1>0, <1>2, <1>5
  <2>2. PICK t \in times : Cardinality(Before(times, t)) = k - 2
    BY <2>1
  <2> DEFINE later == {u \in times : u > t}
  <2>3. IsFiniteSet(Before(times, t)) /\ t \notin Before(times, t)
    BY FS_Subset DEF Before
  <2>4. /\ IsFiniteSet(Before(times, t) \cup {t})
        /\ Cardinality(Before(times, t) \cup {t}) = k - 1
    BY <1>0, <1>5, <2>2, <2>3, FS_AddElement
  <2>5. later # {}
    <3>1. later = {} => times = Before(times, t) \cup {t}
      <4>1. \A u \in times : u < t \/ u = t \/ u > t
        BY <1>1
      <4> QED
        BY <4>1 DEF Before
    <3>2. times # Before(times, t) \cup {t}
      BY <1>0, <1>3, <2>4
    <3> QED
      BY <3>1, <3>2
  <2>6. PICK u \in later : \A v \in later : u <= v
    BY <1>1, <2>5, First
  <2>7. Before(times, u) = Before(times, t) \cup {t}
    <3>1. \A v \in times : v < u <=> v < t \/ v = t
      BY <1>1, <2>6
    <3> QED
      BY <3>1 DEF Before
  <2> QED
    BY <1>3, <2>4, <2>6, <2>7
<1> QED
  BY <1>0, <1>3, <1>4, <1>5

\* The times of a set in their order: each of them, at its place.
LEMMA AscendingOrder ==
  ASSUME NEW times \in SUBSET Nat, IsFiniteSet(times)
  PROVE  /\ Ascending(times) \in Seq(times) /\ Len(Ascending(times)) = Cardinality(times)
         /\ \A k \in 1 .. Cardinality(times) :
              Cardinality(Before(times, Ascending(times)[k])) = k - 1
         /\ \A t \in times : \E k \in 1 .. Cardinality(times) :
              Ascending(times)[k] = t /\ k = Cardinality(Before(times, t)) + 1
<1>0. Cardinality(times) \in Nat
  BY FS_CardinalityType
<1>1. Ascending(times) = [k \in 1 .. Cardinality(times) |->
                            CHOOSE t \in times : Cardinality(Before(times, t)) = k - 1]
  BY DEF Ascending, Before
<1>2. ASSUME NEW k \in 1 .. Cardinality(times)
      PROVE  /\ Ascending(times)[k] \in times
             /\ Cardinality(Before(times, Ascending(times)[k])) = k - 1
  <2>1. \E t \in times : Cardinality(Before(times, t)) = k - 1
    BY SomeTime
  <2> QED
    BY <1>1, <2>1
<1>3. Ascending(times) \in Seq(times) /\ Len(Ascending(times)) = Cardinality(times)
  <2>1. Ascending(times) \in [1 .. Cardinality(times) -> times]
    BY <1>1, <1>2
  <2> QED
    BY <1>0, <2>1
<1>4. ASSUME NEW t \in times
      PROVE  \E k \in 1 .. Cardinality(times) :
               Ascending(times)[k] = t /\ k = Cardinality(Before(times, t)) + 1
  <2> DEFINE k == Cardinality(Before(times, t)) + 1
             u == Ascending(times)[k]
  <2>1. k \in 1 .. Cardinality(times)
    BY <1>0, FewBefore
  <2>2. u \in times /\ Cardinality(Before(times, u)) = Cardinality(Before(times, t))
    BY <1>2, <2>1, FewBefore
  <2>3. u < t => Cardinality(Before(times, u)) < Cardinality(Before(times, t))
    BY <2>2, MoreBefore
  <2>4. t < u => Cardinality(Before(times, t)) < Cardinality(Before(times, u))
    BY <2>2, MoreBefore
  <2>5. u = t
    <3>1. u \in Nat /\ t \in Nat /\ Cardinality(Before(times, t)) \in Nat
      BY <2>2, FewBefore
    <3> HIDE DEF u
    <3> QED
      BY <2>2, <2>3, <2>4, <3>1
  <2> QED
    BY <2>1, <2>5
<1> QED
  BY <1>2, <1>3, <1>4

\* A page that the exchange answers: candles that it has, and of two that it has the
\* earlier one first, so that only the latest are cut off.
LEMMA ProperPage ==
  ASSUME SyncTypeOK, NEW from \in Nat, NEW end \in Times, NEW bar \in Bars
  PROVE  LET page == Proper(from, end, bar)
         IN  /\ page \in Seq(Candles)
             /\ Stored(page) \subseteq Available(from, end)
             /\ \A j \in Stored(page) : \A h \in Available(from, end) :
                  h < j => h \in Stored(page)
<1> USE SyncAssumption
<1> DEFINE has == Available(from, end)
           all == Ascending(has)
           few == IF Len(all) > PageSize THEN SubSeq(all, 1, PageSize) ELSE all
           page == Proper(from, end, bar)
<1>1. has \in SUBSET Nat /\ has \in SUBSET Times /\ IsFiniteSet(has)
  <2>1. has \in SUBSET (from .. end) /\ end \in Int
    BY DEF Available, Times
  <2>2. IsFiniteSet(has)
    BY <2>1, FS_Interval, FS_Subset
  <2> QED
    BY <2>1, <2>2 DEF Times
<1> HIDE DEF has
<1>2. /\ all \in Seq(has) /\ Len(all) = Cardinality(has)
      /\ \A k \in 1 .. Cardinality(has) : Cardinality(Before(has, all[k])) = k - 1
      /\ \A t \in has : \E k \in 1 .. Cardinality(has) :
           all[k] = t /\ k = Cardinality(Before(has, t)) + 1
  BY <1>1, AscendingOrder
<1> HIDE DEF all
<1>3. /\ few \in Seq(has) /\ Len(few) <= Len(all)
      /\ \A k \in 1 .. Len(few) : few[k] = all[k]
  BY <1>2
<1>4. page = [k \in 1 .. Len(few) |-> [time |-> few[k], bar |-> bar]]
  BY <1>3 DEF Proper, all, has
<1> HIDE DEF few
<1>5. page \in Seq(Candles)
  <2>1. \A k \in 1 .. Len(few) : [time |-> few[k], bar |-> bar] \in Candles
    <3>1. \A k \in 1 .. Len(few) : few[k] \in Times
      <4>1. \A k \in 1 .. Len(few) : few[k] \in has
        BY ONLY <1>3
      <4> QED
        BY ONLY <1>1, <4>1
    <3> QED
      BY ONLY <3>1, bar \in Bars DEF Candles
  <2>2. page \in [1 .. Len(few) -> Candles] /\ Len(few) \in Nat
    BY <1>3, <1>4, <2>1
  <2> QED
    BY <2>2
<1>6. Stored(page) = {few[k] : k \in 1 .. Len(few)}
  BY <1>4 DEF Stored
<1>7. Stored(page) \subseteq has
  BY <1>3, <1>6
<1>8. ASSUME NEW j \in Stored(page), NEW h \in has, h < j
      PROVE  h \in Stored(page)
  <2>1. PICK k \in 1 .. Len(few) : few[k] = j
    BY <1>6
  <2>2. PICK l \in 1 .. Cardinality(has) : all[l] = h /\ l = Cardinality(Before(has, h)) + 1
    BY <1>2
  <2>3. Cardinality(Before(has, j)) = k - 1
    <3>1. k \in 1 .. Cardinality(has) /\ all[k] = j
      BY <1>1, <1>2, <1>3, <2>1, FS_CardinalityType
    <3> QED
      BY <1>2, <3>1
  <2>4. l < k
    <3>1. Cardinality(Before(has, h)) < Cardinality(Before(has, j))
      BY <1>1, <1>7, <1>8, MoreBefore
    <3>2. Cardinality(Before(has, h)) \in Nat /\ Cardinality(Before(has, j)) \in Nat
      BY <1>1, <1>7, FewBefore
    <3>3. k \in Int
      BY <1>3, <2>1
    <3> QED
      BY <2>2, <2>3, <3>1, <3>2, <3>3
  <2>5. few[l] = h /\ l \in 1 .. Len(few)
    BY <1>3, <2>2, <2>4
  <2> QED
    BY <1>6, <2>5
<1> QED
  BY <1>5, <1>7, <1>8 DEF has

\* In the window, a candle that the exchange has is stored before a later one that
\* live cycles alone stored, or another is, between the two.
Followed ==
  \A j \in store \ asked : \A h \in WindowStart .. j - 1 :
    h \notin missing => \E k \in h .. j - 1 : k \in store

\* A live cycle asks from the start of its window, or follows on a stored candle.
FollowsOn(f) == fetch[f].from <= WindowStart \/ fetch[f].from - 1 \in store

\* Its page leaves out nothing that the exchange has.
PageIsWhole(f) ==
  \A j \in Stored(fetch[f].page) : \A h \in fetch[f].from .. j - 1 :
    h \notin missing => h \in Stored(fetch[f].page)

PageFits(f) ==
  \A t \in Stored(fetch[f].page) : fetch[f].from <= t /\ t <= now

\* What is known of a fetcher.
FetcherInv(f) ==
  /\ fetch[f].pc = "answered" => PageFits(f)
  /\ f \in Live /\ fetch[f].pc \in {"asking", "answered"} => FollowsOn(f)
  /\ f \in Live /\ fetch[f].pc = "answered" => PageIsWhole(f)

Fetch == [pc : {"idle", "asking", "answered", "done"}, end : Times, from : 0 .. MaxTime + 1,
          page : Seq(Candles)]

\* What makes NoHoles inductive.
SyncInv ==
  /\ now \in Times
  /\ missing \subseteq Times
  /\ store \subseteq 0 .. now /\ asked \subseteq store
  /\ fetch \in [Fetchers -> Fetch]
  /\ Followed
  /\ \A f \in Fetchers : FetcherInv(f)

\* The types of the fetchers' records are among it.
LEMMA SyncInvTypes == SyncInv => SyncTypeOK
<1> SUFFICES ASSUME SyncInv PROVE SyncTypeOK
  OBVIOUS
<1>1. ASSUME NEW f \in Fetchers
      PROVE  /\ fetch[f].pc \in {"idle", "asking", "answered", "done"}
             /\ fetch[f].end \in Times /\ fetch[f].from \in 0 .. MaxTime + 1
             /\ \A i \in DOMAIN fetch[f].page :
                  fetch[f].page[i].time \in Times /\ fetch[f].page[i].bar \in Bars
  <2>1. fetch[f] \in Fetch
    BY DEF SyncInv
  <2>2. \A i \in DOMAIN fetch[f].page : fetch[f].page[i] \in Candles
    BY <2>1 DEF Fetch
  <2> QED
    BY <2>1, <2>2 DEF Fetch, Candles
<1> QED
  BY <1>1 DEF SyncInv, SyncTypeOK

\* The window of a live cycle moves with time.
LEMMA WindowMoves ==
  ASSUME now \in Nat, now' \in Nat, now <= now'
  PROVE  WindowStart <= WindowStart' /\ WindowStart \in Nat /\ WindowStart' \in Nat
<1>1. HigherWindow \in Nat
  BY SyncAssumption
<1>2. CASE now > HigherWindow
  <2>1. WindowStart = now - HigherWindow /\ WindowStart' = now' - HigherWindow
    <3>1. now' > HigherWindow
      BY <1>1, <1>2
    <3> QED
      BY <1>2, <3>1 DEF WindowStart
  <2>2. \A later \in Nat : now <= later =>
          /\ now - HigherWindow \in Nat /\ later - HigherWindow \in Nat
          /\ now - HigherWindow <= later - HigherWindow
    BY <1>1, <1>2
  <2> QED
    BY <2>1, <2>2
<1>3. CASE ~(now > HigherWindow)
  <2>1. WindowStart = 0
    BY <1>3 DEF WindowStart
  <2>2. WindowStart' = 0 \/ (now' > HigherWindow /\ WindowStart' = now' - HigherWindow)
    BY DEF WindowStart
  <2> QED
    BY <1>1, <2>1, <2>2
<1> QED
  BY <1>2, <1>3

\* As time goes by and pages are stored, what is known of a fetcher that does nothing
\* stays true: the window moves on, and no candle is deleted.
LEMMA FetcherWaits ==
  ASSUME SyncInv, NEW f \in Fetchers, fetch'[f] = fetch[f], store \subseteq store',
         now' \in Nat, now <= now', missing' = missing
  PROVE  FetcherInv(f)'
<1> USE DEF SyncInv, FetcherInv
<1>0. now \in Nat
  BY SyncAssumption DEF Times
<1>1. fetch[f].pc = "answered" => PageFits(f)'
  <2> SUFFICES ASSUME PageFits(f), NEW t \in Stored(fetch[f].page)
               PROVE  fetch[f].from <= t /\ t <= now'
    BY DEF PageFits
  <2>1. fetch[f].from <= t /\ t <= now
    BY DEF PageFits
  <2>2. t \in Nat
    BY SyncInvTypes, SyncAssumption DEF SyncTypeOK, Stored, Times
  <2> QED
    BY <1>0, <2>1, <2>2
<1>2. fetch[f].pc = "answered" /\ f \in Live => PageIsWhole(f)'
  BY DEF PageIsWhole
<1>3. fetch[f].pc \in {"asking", "answered"} /\ f \in Live => FollowsOn(f)'
  <2>1. WindowStart <= WindowStart' /\ WindowStart \in Nat /\ WindowStart' \in Nat
    BY <1>0, WindowMoves
  <2>2. fetch[f].from \in Nat
    BY DEF Fetch
  <2> QED
    BY <2>1, <2>2 DEF FollowsOn
<1> QED
  BY <1>1, <1>2, <1>3

\* A fetcher that is idle or done is at no page.
LEMMA FetcherRests ==
  ASSUME NEW f, fetch'[f].pc \in {"idle", "done"}
  PROVE  FetcherInv(f)'
BY DEF FetcherInv

\* The window moves on: there is less to follow.
LEMMA FollowedLater ==
  ASSUME SyncInv, store' = store, asked' = asked, missing' = missing, now' \in Nat, now <= now'
  PROVE  Followed'
<1>1. WindowStart <= WindowStart' /\ WindowStart \in Nat /\ WindowStart' \in Nat
  BY SyncAssumption, WindowMoves DEF SyncInv, Times
<1>2. \A j \in store : j \in Int
  BY DEF SyncInv
<1> QED
  BY <1>1, <1>2 DEF SyncInv, Followed

\* A step that changes one fetcher only.
LEMMA OneFetcher ==
  ASSUME SyncInv, NEW f \in Fetchers, NEW at \in Fetch, fetch' = [fetch EXCEPT ![f] = at],
         UNCHANGED <<now, missing, store, asked>>,
         fetch'[f] = at => FetcherInv(f)'
  PROVE  SyncInv'
<1>1. now' \in Nat /\ now <= now'
  BY SyncAssumption DEF SyncInv, Times
<1>2. fetch' \in [Fetchers -> Fetch] /\ fetch'[f] = at
  BY DEF SyncInv
<1>3. ASSUME NEW g \in Fetchers, g # f PROVE FetcherInv(g)'
  <2>1. fetch'[g] = fetch[g]
    BY <1>3 DEF SyncInv
  <2> QED
    BY <1>1, <2>1, FetcherWaits
<1>4. Followed'
  BY <1>1, FollowedLater
<1> QED
  BY <1>2, <1>3, <1>4 DEF SyncInv

\* A set of times with an end has a last one.
LEMMA LastOne ==
  ASSUME NEW end \in Nat, NEW times \in SUBSET (0 .. end), times # {}
  PROVE  \E t \in times : \A u \in times : u <= t
<1> DEFINE left == {end - t : t \in times}
<1>1. left \subseteq Nat /\ left # {}
  OBVIOUS
<1>2. PICK n \in left : \A m \in left : n <= m
  BY <1>1, First
<1>3. PICK t \in times : n = end - t
  BY <1>2
<1>4. ASSUME NEW u \in times PROVE u <= t
  <2>1. n <= end - u
    BY <1>2
  <2> QED
    BY <1>3, <2>1
<1> QED
  BY <1>4

\* A fetch begins at the start of its range or follows on a stored candle.
LEMMA Resumes ==
  ASSUME SyncInv, NEW start \in Times, NEW end \in Times
  PROVE  /\ ResumeFrom(start, end) \in 0 .. MaxTime + 1
         /\ ResumeFrom(start, end) = start \/ ResumeFrom(start, end) - 1 \in store
<1> USE SyncAssumption DEF Times
<1> DEFINE stored == {i \in store : start <= i /\ i <= end}
<1>1. CASE stored = {}
  BY <1>1 DEF ResumeFrom
<1>2. CASE stored # {}
  <2>1. stored \in SUBSET (0 .. end) /\ end \in Nat
    <3>1. \A i \in stored : i \in Nat /\ i <= end
      BY DEF SyncInv
    <3> QED
      BY <3>1
  <2>2. \E i \in stored : \A j \in stored : j <= i
    BY <1>2, <2>1, LastOne
  <2> DEFINE last == CHOOSE i \in stored : \A j \in stored : j <= i
  <2>3. last \in stored
    BY <2>2
  <2>4. ResumeFrom(start, end) = 1 + last
    BY <1>2 DEF ResumeFrom
  <2> HIDE DEF last
  <2> QED
    BY <2>1, <2>3, <2>4
<1> QED
  BY <1>1, <1>2

\* fetch_and_store_range begins.
LEMMA BeginKeeps ==
  ASSUME SyncInv, NEW f \in Fetchers, NEW start \in Times, NEW end \in Times,
         Begin(f, start, end), UNCHANGED <<now, missing, store, asked>>,
         f \in Live => start <= WindowStart
  PROVE  SyncInv'
<1> DEFINE from == ResumeFrom(start, end)
           at == [Idle EXCEPT !.pc = "asking", !.end = end, !.from = from]
<1>1. from \in 0 .. MaxTime + 1 /\ (from = start \/ from - 1 \in store)
  BY Resumes
<1> HIDE DEF from
<1>2. at \in Fetch /\ at.pc = "asking" /\ at.from = from
  <2>1. << >> \in Seq(Candles) /\ 0 \in Times /\ 0 \in 0 .. MaxTime + 1
    BY SyncAssumption DEF Times
  <2> QED
    BY <1>1, <2>1 DEF Idle, Fetch
<1>3. fetch' = [fetch EXCEPT ![f] = at]
  BY DEF Begin, from
<1> HIDE DEF at
<1>4. ASSUME fetch'[f] = at PROVE FetcherInv(f)'
  <2>1. WindowStart' = WindowStart
    BY DEF WindowStart
  <2>2. f \in Live => FollowsOn(f)'
    BY <1>1, <1>2, <1>4, <2>1 DEF FollowsOn
  <2> QED
    BY <1>2, <1>4, <2>2 DEF FetcherInv
<1> QED
  BY <1>2, <1>3, <1>4, OneFetcher

\* The exchange answers.
LEMMA AskKeeps ==
  ASSUME SyncInv, NEW f \in Fetchers, Ask(f)
  PROVE  SyncInv'
<1> DEFINE from == fetch[f].from
           end == fetch[f].end
<1>1. from \in Nat /\ end \in Times /\ fetch[f] \in Fetch
  BY DEF SyncInv, Fetch
<1>2. PICK page \in Answers(from, end) :
        fetch' = [fetch EXCEPT ![f].pc = "answered", ![f].page = page]
  BY DEF Ask
<1>3. PICK bar \in Bars : page = Proper(from, end, bar)
  BY DEF Answers
<1>4. /\ page \in Seq(Candles)
      /\ Stored(page) \subseteq Available(from, end)
      /\ \A j \in Stored(page) : \A h \in Available(from, end) : h < j => h \in Stored(page)
  BY <1>1, <1>3, ProperPage, SyncInvTypes
<1> DEFINE at == [fetch[f] EXCEPT !.pc = "answered", !.page = page]
<1>5. /\ at \in Fetch /\ at.pc = "answered" /\ at.page = page
      /\ at.from = fetch[f].from /\ at.end = fetch[f].end
  BY <1>1, <1>4 DEF Fetch
<1>6. fetch' = [fetch EXCEPT ![f] = at]
  BY <1>2, <1>1 DEF SyncInv
<1> HIDE DEF at
<1>7. ASSUME fetch'[f] = at PROVE FetcherInv(f)'
  <2>1. PageFits(f)'
    <3>1. \A t \in Stored(page) : from <= t /\ t <= now
      BY <1>1, <1>4 DEF Available
    <3> QED
      BY <1>5, <1>7, <3>1 DEF PageFits, Ask
  <2>2. PageIsWhole(f)'
    <3> SUFFICES ASSUME NEW j \in Stored(page), NEW h \in from .. j - 1, h \notin missing
                 PROVE  h \in Stored(page)
      BY <1>5, <1>7 DEF PageIsWhole, Ask
    <3>1. j \in from .. end /\ j <= now
      BY <1>4 DEF Available
    <3>2. h \in from .. end /\ h <= now
      BY <1>1, <3>1, SyncAssumption DEF Times, SyncInv
    <3> QED
      BY <1>1, <1>4, <3>1, <3>2 DEF Available
  <2>3. f \in Live => FollowsOn(f)'
    <3>1. f \in Live => FollowsOn(f)
      BY DEF SyncInv, FetcherInv, Ask
    <3> QED
      BY <1>5, <1>7, <3>1 DEF FollowsOn, WindowStart, Ask
  <2> QED
    BY <2>1, <2>2, <2>3 DEF FetcherInv
<1> QED
  BY <1>5, <1>6, <1>7, OneFetcher DEF Ask
\* A fetch ends: past its end, or because the exchange or the page failed.
LEMMA EndKeeps ==
  ASSUME SyncInv, NEW f \in Fetchers, UNCHANGED <<now, missing, store, asked>>,
         NEW at \in {Idle, Finished(f)}, fetch' = [fetch EXCEPT ![f] = at]
  PROVE  SyncInv'
<1>1. << >> \in Seq(Candles) /\ 0 \in Times /\ 0 \in 0 .. MaxTime + 1
  BY SyncAssumption DEF Times
<1>2. Idle \in Fetch /\ Idle.pc = "idle"
  BY <1>1 DEF Idle, Fetch
<1>3. [Idle EXCEPT !.pc = "done"] \in Fetch /\ [Idle EXCEPT !.pc = "done"].pc = "done"
  BY <1>2 DEF Fetch
<1>4. at \in Fetch /\ at.pc \in {"idle", "done"}
  BY <1>2, <1>3 DEF Finished
<1>5. fetch'[f] = at => FetcherInv(f)'
  BY <1>4, FetcherRests
<1> QED
  BY <1>4, <1>5, OneFetcher

\* A page is stored. It leaves out nothing that the exchange has, from where it begins;
\* what a live cycle may lack before that lies before a stored candle or the window.
LEMMA StoreKeeps ==
  ASSUME SyncInv, NEW f \in Fetchers, StorePage(f)
  PROVE  SyncInv'
<1> DEFINE page == fetch[f].page
           from == fetch[f].from
           P == Stored(page)
<1> USE DEF StorePage
<1>0. /\ now \in Nat /\ fetch[f] \in Fetch /\ page \in Seq(Candles) /\ page # << >>
      /\ from \in Nat /\ MaxTime \in Nat
  BY SyncAssumption DEF SyncInv, Times, Fetch, Valid
<1>1. /\ store' = store \cup P /\ UNCHANGED <<now, missing>>
      /\ asked' = IF f \in Backtests THEN asked \cup P ELSE asked
  OBVIOUS
<1>2. \A t \in P : t \in Times /\ from <= t /\ t <= now
  <2>1. \A t \in P : t \in Times
    <3>1. \A i \in DOMAIN page : page[i] \in Candles
      BY <1>0
    <3> QED
      BY <3>1 DEF Stored, Candles
  <2> QED
    BY <2>1 DEF SyncInv, FetcherInv, PageFits
<1>3. Last(page).time \in P
  BY <1>0 DEF Last, Stored
<1>4. store' \subseteq 0 .. now' /\ asked' \subseteq store'
  <2>1. P \subseteq 0 .. now
    BY <1>2 DEF Times
  <2> QED
    BY <1>1, <2>1 DEF SyncInv
<1>5. WindowStart' = WindowStart /\ WindowStart \in Nat
  BY <1>0, WindowMoves DEF WindowStart
<1>6. Followed'
  <2> SUFFICES ASSUME NEW j \in store' \ asked', NEW h \in WindowStart .. j - 1, h \notin missing
               PROVE  \E k \in h .. j - 1 : k \in store'
    BY <1>1, <1>5 DEF Followed
  <2>0. j \in Nat /\ h \in Nat
    BY <1>4, <1>5
  <2>1. CASE j \in store
    <3>1. j \in store \ asked
      BY <1>1, <2>1
    <3>2. \E k \in h .. j - 1 : k \in store
      BY <3>1 DEF SyncInv, Followed
    <3> QED
      BY <1>1, <3>2
  <2>2. CASE j \notin store
    <3>1. j \in P /\ f \in Live
      BY <1>1, <2>2 DEF Fetchers
    <3>2. PageIsWhole(f) /\ FollowsOn(f)
      BY <3>1 DEF SyncInv, FetcherInv
    <3>3. CASE h >= from
      <4>1. h \in P
        BY <1>0, <2>0, <3>1, <3>2, <3>3 DEF PageIsWhole
      <4> QED
        BY <1>1, <2>0, <4>1
    <3>4. CASE h < from
      <4>1. from - 1 \in store
        BY <1>0, <1>5, <2>0, <3>2, <3>4 DEF FollowsOn
      <4>2. from - 1 \in h .. j - 1
        BY <1>0, <1>2, <2>0, <3>1, <3>4
      <4> QED
        BY <1>1, <4>1, <4>2
    <3> QED
      BY <1>0, <2>0, <3>3, <3>4
  <2> QED
    BY <2>1, <2>2
<1>7. ASSUME NEW g \in Fetchers, g # f PROVE FetcherInv(g)'
  <2>1. fetch'[g] = fetch[g]
    BY <1>7 DEF SyncInv
  <2> QED
    BY <1>0, <1>1, <2>1, FetcherWaits
<1> DEFINE next == [fetch[f] EXCEPT !.pc = "asking", !.page = << >>, !.from = Last(page).time + 1]
<1>8. CASE fetch' = [fetch EXCEPT ![f] = Finished(f)]
  <2>1. /\ << >> \in Seq(Candles) /\ 0 \in Times /\ 0 \in 0 .. MaxTime + 1
    BY <1>0 DEF Times
  <2>2. Idle \in Fetch /\ Idle.pc = "idle"
    BY <2>1 DEF Idle, Fetch
  <2>3. Finished(f) \in Fetch /\ Finished(f).pc \in {"idle", "done"}
    BY <2>2 DEF Finished, Fetch
  <2>4. fetch' \in [Fetchers -> Fetch] /\ fetch'[f] = Finished(f)
    BY <1>8, <2>3 DEF SyncInv
  <2>5. FetcherInv(f)'
    <3>1. fetch'[f].pc \in {"idle", "done"}
      BY <2>3, <2>4
    <3> HIDE DEF StorePage
    <3> QED
      BY <3>1, FetcherRests
  <2> QED
    BY <1>1, <1>4, <1>6, <1>7, <2>4, <2>5 DEF SyncInv
<1>9. CASE fetch' = [fetch EXCEPT ![f] = next]
  <2>1. Last(page).time + 1 \in 0 .. MaxTime + 1 /\ << >> \in Seq(Candles)
    BY <1>0, <1>2, <1>3 DEF Times
  <2>2. next \in Fetch /\ next.pc = "asking" /\ next.from = Last(page).time + 1
    BY <1>0, <2>1 DEF Fetch
  <2> HIDE DEF next
  <2>3. fetch' \in [Fetchers -> Fetch] /\ fetch'[f] = next
    BY <1>9, <2>2 DEF SyncInv
  <2>4. FollowsOn(f)'
    <3>1. fetch'[f].from - 1 = Last(page).time
      BY <1>2, <1>3, <2>2, <2>3 DEF Times
    <3> QED
      BY <1>1, <1>3, <3>1 DEF FollowsOn
  <2>5. FetcherInv(f)'
    <3>1. fetch'[f].pc = "asking"
      BY <2>2, <2>3
    <3> QED
      BY <2>4, <3>1 DEF FetcherInv
  <2> QED
    BY <1>1, <1>4, <1>6, <1>7, <2>3, <2>5 DEF SyncInv
<1>10. CASE Len(page) < PageSize
  BY <1>8, <1>10
<1>11. CASE ~(Len(page) < PageSize)
  BY <1>9, <1>11 DEF SyncInv
<1> QED
  BY <1>10, <1>11

\* What a fetcher does keeps the invariant.
LEMMA FetchKeeps ==
  ASSUME SyncInv, NEW f \in Fetchers, FetchStep(f)
  PROVE  SyncInv'
<1>1. CASE PastEnd(f) \/ AskFails(f) \/ Reject(f)
  BY <1>1, EndKeeps DEF PastEnd, AskFails, Reject
<1> QED
  BY <1>1, AskKeeps, StoreKeeps DEF FetchStep

\* A process that dies, or has not begun, fetches nothing.
LEMMA NothingFetched ==
  ASSUME NEW all, all = [f \in Fetchers |-> Idle]
  PROVE  all \in [Fetchers -> Fetch] /\ \A f \in Fetchers : all[f].pc = "idle"
<1>1. << >> \in Seq(Candles) /\ 0 \in Times /\ 0 \in 0 .. MaxTime + 1
  BY SyncAssumption DEF Times
<1> QED
  BY <1>1 DEF Idle, Fetch

\* A live cycle begins to fetch, its own timeframe or its higher one
\* (fetch_data_for_symbols): no later than the shorter window.
LEMMA LiveKeeps ==
  ASSUME SyncInv, NEW f \in Live, LiveCycle(f)
  PROVE  SyncInv'
<1>1. PICK window \in {Window, HigherWindow} :
        Begin(f, IF now > window THEN now - window ELSE 0, now)
  BY DEF LiveCycle
<1> DEFINE start == IF now > window THEN now - window ELSE 0
<1>2. /\ now \in Nat /\ now <= MaxTime /\ MaxTime \in Nat
      /\ window \in Nat /\ HigherWindow \in Nat /\ HigherWindow <= window
  BY SyncAssumption DEF SyncInv, Times
<1>3. start \in Nat /\ start <= now /\ start <= WindowStart
  BY <1>2 DEF WindowStart
<1>4. start \in Times /\ now \in Times /\ f \in Fetchers
  BY <1>2, <1>3 DEF Times, Fetchers
<1>5. Begin(f, start, now)
  BY <1>1
<1>6. UNCHANGED <<now, missing, store, asked>>
  BY DEF LiveCycle
<1> HIDE DEF start
<1> QED
  BY <1>3, <1>4, <1>5, <1>6, BeginKeeps

\* The invariant of the fetchers and the store is inductive.
LEMMA SyncInvInductive == SyncInv /\ [SyncNext]_syncVars => SyncInv'
<1> SUFFICES ASSUME SyncInv, [SyncNext]_syncVars PROVE SyncInv'
  OBVIOUS
<1>0. now \in Times /\ MaxTime \in Nat /\ Live \cap Backtests = {}
  BY SyncAssumption DEF SyncInv
<1>1. CASE Tick
  <2>1. now' \in Times /\ now \in Nat /\ now' \in Nat /\ now <= now'
    BY <1>0, <1>1 DEF Tick, Times
  <2>2. \A f \in Fetchers : FetcherInv(f)'
    BY <1>1, <2>1, FetcherWaits DEF Tick
  <2>3. Followed'
    BY <1>1, <2>1, FollowedLater DEF Tick
  <2>4. store' \subseteq 0 .. now'
    BY <1>1, <2>1 DEF Tick, SyncInv
  <2> QED
    BY <1>1, <2>1, <2>2, <2>3, <2>4 DEF Tick, SyncInv
<1>2. CASE SyncCrash
  <2>1. fetch' \in [Fetchers -> Fetch] /\ \A f \in Fetchers : fetch'[f].pc = "idle"
    BY <1>2, NothingFetched DEF SyncCrash, AllIdle
  <2>2. Followed'
    BY <1>0, <1>2, FollowedLater DEF SyncCrash, SyncInv, Times
  <2> QED
    BY <1>2, <2>1, <2>2, FetcherRests DEF SyncCrash, SyncInv
<1>3. ASSUME NEW f \in Live, LiveCycle(f) PROVE SyncInv'
  BY <1>3, LiveKeeps
<1>4. ASSUME NEW f \in Backtests, BackFill(f) PROVE SyncInv'
  <2>1. PICK start, end \in 0 .. now : Begin(f, start, end)
    BY <1>4 DEF BackFill
  <2>2. start \in Times /\ end \in Times
    BY <1>0 DEF Times
  <2>3. f \in Fetchers /\ f \notin Live
    BY <1>0 DEF Fetchers
  <2> QED
    BY <1>4, <2>1, <2>2, <2>3, BeginKeeps DEF BackFill
<1>5. ASSUME NEW f \in Backtests, Collect(f) PROVE SyncInv'
  <2>1. f \in Fetchers
    BY DEF Fetchers
  <2> QED
    BY <1>5, <2>1, EndKeeps DEF Collect
<1>6. ASSUME NEW f \in Fetchers, FetchStep(f) PROVE SyncInv'
  BY <1>6, FetchKeeps
<1>7. CASE UNCHANGED syncVars
  <2>1. now' \in Nat /\ now <= now'
    BY <1>0, <1>7 DEF syncVars, Times
  <2> QED
    BY <1>7, <2>1, FetcherWaits, FollowedLater DEF syncVars, SyncInv
<1> QED
  BY <1>1, <1>2, <1>3, <1>4, <1>5, <1>6, <1>7 DEF SyncNext

\* It holds of a series that nobody has fetched.
LEMMA SyncInvInitially == SyncInit => SyncInv
<1> SUFFICES ASSUME SyncInit PROVE SyncInv
  OBVIOUS
<1>1. fetch \in [Fetchers -> Fetch] /\ \A f \in Fetchers : fetch[f].pc = "idle"
  BY NothingFetched DEF SyncInit
<1>2. now \in Times /\ missing \subseteq Times
  BY SyncAssumption DEF SyncInit, Times
<1> QED
  BY <1>1, <1>2 DEF SyncInit, SyncInv, FetcherInv, Followed

\* It holds throughout.
LEMMA SeriesInvCorrect == SyncSpec => []SyncInv
  BY SyncInvInitially, SyncInvInductive, PTL DEF SyncSpec

\* Live cycles beside a back-fill leave no hole within the shorter of their windows:
\* fetch_and_store_range resumes after the newest candle, and stores a page as a whole.
LEMMA SeriesHasNoHoles == SyncSpec => []NoHoles
<1>1. SyncInv => NoHoles
  <2> SUFFICES ASSUME SyncInv, NEW i \in store, NEW j \in store \ asked,
                      now - HigherWindow <= i, i + 1 < j,
                      \A k \in i + 1 .. j - 1 : k \notin store,
                      NEW h \in i + 1 .. j - 1, h \notin missing
               PROVE  FALSE
    BY DEF NoHoles
  <2>1. i \in Nat /\ j \in Nat /\ now \in Nat /\ HigherWindow \in Nat
    BY SyncAssumption DEF SyncInv, Times
  <2>2. h \in WindowStart .. j - 1
    BY <2>1 DEF WindowStart
  <2>3. PICK k \in h .. j - 1 : k \in store
    BY <2>2 DEF SyncInv, Followed
  <2> QED
    BY <2>1, <2>3
<1> QED
  BY <1>1, SeriesInvCorrect, PTL

\* Outside its back-fill, a job leaves its fetcher alone (run_backtest).
Rests == job.pc # "filling" => fetch[TheFetcher] = Idle

\* The steps of a fetcher change its own record, and only when it has one to go on with.
LEMMA OwnFetch ==
  ASSUME SyncInv, NEW f \in Fetchers, FetchStep(f) \/ LiveCycle(f)
  PROVE  /\ \A g \in Fetchers \ {f} : fetch'[g] = fetch[g]
         /\ FetchStep(f) => fetch[f].pc # "idle"
<1>1. fetch \in [Fetchers -> Fetch]
  BY DEF SyncInv
<1>2. CASE Ask(f) \/ PastEnd(f) \/ AskFails(f) \/ Reject(f)
  BY <1>1, <1>2 DEF Ask, PastEnd, AskFails, Reject, FetchStep, StorePage
<1>3. CASE StorePage(f)
  BY <1>1, <1>3 DEF StorePage
<1>4. CASE LiveCycle(f)
  BY <1>1, <1>4 DEF LiveCycle, Begin, FetchStep, Ask, PastEnd, AskFails, Reject, StorePage
<1> QED
  BY <1>2, <1>3, <1>4 DEF FetchStep

\* No step of the job, of the API or of a live cycle touches the fetcher out of turn.
LEMMA RestsInductive == SyncInv /\ Rests /\ [Next]_vars => Rests'
<1> SUFFICES ASSUME SyncInv, Rests, [Next]_vars PROVE Rests'
  OBVIOUS
<1> USE DEF Rests
<1>0. TheFetcher \in Fetchers /\ TheFetcher \notin Live /\ Live \subseteq Fetchers
  BY SyncAssumption, BacktestAssumption DEF TheFetcher, Fetchers
<1>1. CASE Run
  BY <1>1 DEF Run, NoJob
<1>2. CASE Load \/ Fail
  BY <1>0, <1>2 DEF Load, Fail, SyncInv
<1>3. CASE Simulate \/ LoopEnds \/ Complete \/ Stale
  BY <1>3 DEF Simulate, LoopEnds, Complete, Stale, syncVars
<1>4. CASE Cancel
  <2>1. job'.pc = job.pc \/ job' = job
    <3> DEFINE cancelled == job.pc # "none"
    <3>1. job' = [job EXCEPT !.cancel = cancelled]
      BY <1>4 DEF Cancel
    <3> HIDE DEF cancelled
    <3> QED
      BY <3>1
  <2> QED
    BY <1>4, <2>1 DEF Cancel, syncVars
<1>5. CASE Delete \/ Time \/ UNCHANGED vars
  BY <1>5 DEF Delete, Time, Tick, vars, syncVars
<1>6. CASE LiveTraffic
  <2> PICK f \in Live : LiveCycle(f) \/ FetchStep(f)
    BY <1>6 DEF LiveTraffic
  <2>1. f \in Fetchers /\ TheFetcher \in Fetchers \ {f}
    BY <1>0
  <2>2. fetch'[TheFetcher] = fetch[TheFetcher]
    BY <2>1, OwnFetch
  <2> QED
    BY <1>6, <2>2 DEF LiveTraffic
<1>7. CASE Backfill
  <2>1. fetch[TheFetcher].pc # "idle"
    BY <1>0, <1>7, OwnFetch DEF Backfill
  <2> QED
    BY <1>7, <2>1 DEF Backfill, Idle
<1>8. CASE Crash
  BY <1>0, <1>8 DEF Crash, AllIdle
<1> QED
  BY <1>1, <1>2, <1>3, <1>4, <1>5, <1>6, <1>7, <1>8 DEF Next, JobStep

\* A step of the whole is one of the series, or leaves the series alone.
LEMMA StepOfSeries == SyncInv /\ Rests /\ [Next]_vars => [SyncNext]_syncVars
<1> SUFFICES ASSUME SyncInv, Rests, [Next]_vars PROVE [SyncNext]_syncVars
  OBVIOUS
<1>0. TheFetcher \in Backtests /\ TheFetcher \in Fetchers
  BY BacktestAssumption DEF TheFetcher, Fetchers
<1>1. CASE Run
  <2>1. PICK start, end \in Times :
          start < end /\ end <= now /\ Begin(TheFetcher, WarmUpStart(start), end)
    BY <1>1 DEF Run
  <2>2. /\ WarmUpStart(start) \in Nat /\ WarmUpStart(start) <= start
        /\ start \in Nat /\ end \in Nat
    BY SyncAssumption, BacktestAssumption DEF WarmUpStart, Times
  <2>3. WarmUpStart(start) \in 0 .. now /\ end \in 0 .. now /\ WarmUpStart(start) < end
    BY <2>1, <2>2, SyncAssumption DEF SyncInv, Times
  <2> QED
    BY <1>0, <1>1, <2>1, <2>3 DEF Run, BackFill, SyncNext
<1>2. CASE Load
  BY <1>0, <1>2 DEF Load, Collect, SyncNext
<1>3. CASE Fail
  <2>1. CASE job.pc = "filling"
    BY <1>0, <1>3, <2>1 DEF Fail, Collect, SyncNext
  <2>2. CASE job.pc # "filling"
    <3>1. fetch' = [fetch EXCEPT ![TheFetcher] = Idle] /\ fetch[TheFetcher] = Idle
      BY <1>3, <2>2 DEF Fail, Rests
    <3>2. fetch' = fetch
      BY <1>0, <3>1 DEF SyncInv
    <3> QED
      BY <1>3, <3>2 DEF Fail, syncVars
  <2> QED
    BY <2>1, <2>2
<1>4. CASE Simulate \/ LoopEnds \/ Complete \/ Stale \/ Cancel \/ Delete
  BY <1>4 DEF Simulate, LoopEnds, Complete, Stale, Cancel, Delete
<1>5. CASE LiveTraffic \/ Backfill
  BY <1>0, <1>5 DEF LiveTraffic, Backfill, SyncNext, Fetchers
<1>6. CASE Time
  BY <1>6 DEF Time, SyncNext
<1>7. CASE Crash
  BY <1>7 DEF Crash, SyncCrash, SyncNext
<1>8. CASE UNCHANGED vars
  BY <1>8 DEF vars
<1> QED
  BY <1>1, <1>2, <1>3, <1>4, <1>5, <1>6, <1>7, <1>8 DEF Next, JobStep

\* Jobs, the API, errors and crashes do nothing to the series but what its fetchers do on
\* their own (run_backtest touches candles through backfill_universe only): so what holds
\* of the series alone, NoHoles included, holds beside jobs.
THEOREM JobsOnlyFetch == Spec => SyncSpec
<1>1. Init => SyncInit /\ Rests
  BY BacktestAssumption DEF Init, SyncInit, Rests, TheFetcher, Fetchers
<1> QED
  BY <1>1, SyncInvInitially, SyncInvInductive, RestsInductive, StepOfSeries, PTL
  DEF Spec, SyncSpec

\* Live cycles leave no hole within the shorter of their windows, however many there are,
\* wherever their pages end and whatever fails: fetch_and_store_range resumes after the
\* newest candle that is stored, and a page is stored as a whole.
THEOREM NoHolesCorrect == Spec => []NoHoles
  BY JobsOnlyFetch, SeriesHasNoHoles, PTL

\* The invariant of the series, beside jobs.
LEMMA SyncInvCorrect == Spec => []SyncInv
  BY JobsOnlyFetch, SeriesInvCorrect, PTL

-----------------------------------------------------------------------------
(***************************************************************************)
(* The repositories in memory: what a backtest reads.                      *)
(***************************************************************************)

\* In the order of time, none twice.
Rising(times) == \A i, j \in DOMAIN times : i < j => times[i] < times[j]

\* The places up to one of them are as many as they are.
LEMMA FirstPlaces ==
  ASSUME NEW n \in Nat, NEW some \in SUBSET (1 .. n), \A i \in some : \A j \in 1 .. i : j \in some
  PROVE  Cardinality(some) \in 0 .. n /\ some = 1 .. Cardinality(some)
<1>1. CASE some = {}
  BY <1>1, FS_EmptySet
<1>2. CASE some # {}
  <2>1. some \in SUBSET (0 .. n)
    OBVIOUS
  <2>2. PICK last \in some : \A i \in some : i <= last
    BY <1>2, <2>1, LastOne
  <2>3. last \in 1 .. n /\ some = 1 .. last
    <3>1. last \in 1 .. n /\ \A i \in some : i \in 1 .. n /\ i <= last
      BY <2>2
    <3>2. \A j \in 1 .. last : j \in some
      OBVIOUS
    <3>3. \A i \in some : i \in 1 .. last
      BY <3>1
    <3> QED BY <3>1, <3>2, <3>3
  <2>4. Cardinality(1 .. last) = last
    BY <2>3, FS_Interval
  <2> QED BY <2>3, <2>4
<1> QED BY <1>1, <1>2

\* bisect_left finds how many are earlier, and they come first.
LEMMA LeftSplits ==
  ASSUME NEW times \in Seq(Nat), Rising(times), NEW t \in Nat
  PROVE  /\ BisectLeft(times, t) \in 0 .. Len(times)
         /\ \A i \in 1 .. Len(times) : times[i] < t <=> i <= BisectLeft(times, t)
<1> DEFINE earlier == {i \in DOMAIN times : times[i] < t}
<1>1. Len(times) \in Nat /\ DOMAIN times = 1 .. Len(times) /\ \A i \in 1 .. Len(times) : times[i] \in Nat
  OBVIOUS
<1>2. ASSUME NEW i \in earlier, NEW j \in 1 .. i
      PROVE  j \in earlier
  <2>1. i \in 1 .. Len(times) /\ times[i] < t /\ j \in 1 .. Len(times)
    BY <1>1
  <2>2. j = i \/ times[j] < times[i]
    BY <1>1, <2>1 DEF Rising
  <2>3. times[j] < t
    BY <1>1, <2>1, <2>2
  <2> QED BY <1>1, <2>1, <2>3
<1>3. earlier \in SUBSET (1 .. Len(times))
  BY <1>1
<1>4. BisectLeft(times, t) = Cardinality(earlier)
  BY DEF BisectLeft
<1>5. \A i \in 1 .. Len(times) : i \in earlier <=> times[i] < t
  BY <1>1
<1> HIDE DEF earlier
<1>6. Cardinality(earlier) \in 0 .. Len(times) /\ earlier = 1 .. Cardinality(earlier)
  BY <1>1, <1>2, <1>3, FirstPlaces
<1> QED BY <1>1, <1>4, <1>5, <1>6

\* bisect_right finds how many are not later, and they come first.
LEMMA RightSplits ==
  ASSUME NEW times \in Seq(Nat), Rising(times), NEW t \in Nat
  PROVE  /\ BisectRight(times, t) \in 0 .. Len(times)
         /\ \A i \in 1 .. Len(times) : times[i] <= t <=> i <= BisectRight(times, t)
<1> DEFINE early == {i \in DOMAIN times : times[i] <= t}
<1>1. Len(times) \in Nat /\ DOMAIN times = 1 .. Len(times) /\ \A i \in 1 .. Len(times) : times[i] \in Nat
  OBVIOUS
<1>2. ASSUME NEW i \in early, NEW j \in 1 .. i
      PROVE  j \in early
  <2>1. i \in 1 .. Len(times) /\ times[i] <= t /\ j \in 1 .. Len(times)
    BY <1>1
  <2>2. j = i \/ times[j] < times[i]
    BY <1>1, <2>1 DEF Rising
  <2>3. times[j] <= t
    BY <1>1, <2>1, <2>2
  <2> QED BY <1>1, <2>1, <2>3
<1>3. early \in SUBSET (1 .. Len(times))
  BY <1>1
<1>4. BisectRight(times, t) = Cardinality(early)
  BY DEF BisectRight
<1>5. \A i \in 1 .. Len(times) : i \in early <=> times[i] <= t
  BY <1>1
<1> HIDE DEF early
<1>6. Cardinality(early) \in 0 .. Len(times) /\ early = 1 .. Cardinality(early)
  BY <1>1, <1>2, <1>3, FirstPlaces
<1> QED BY <1>1, <1>4, <1>5, <1>6

\* What a repository in memory holds of a series.
Caches == {times \in Seq(Times) : Rising(times)}

\* _insert_sorted keeps the order, and keeps each time once.
LEMMA InsertKeeps ==
  ASSUME NEW times \in Caches, NEW t \in Times
  PROVE  InsertSorted(times, t) \in Caches
<1> DEFINE n == Len(times)
           idx == BisectLeft(times, t)
           grown == InsertAt(times, idx + 1, t)
<1>1. /\ times \in Seq(Nat) /\ times \in Seq(Times) /\ Rising(times) /\ n \in Nat
      /\ t \in Nat /\ \A i \in 1 .. n : times[i] \in Nat /\ times[i] \in Times
  <2>1. Times \subseteq Nat
    BY SyncAssumption DEF Times
  <2>2. times \in Seq(Times) /\ Rising(times)
    BY DEF Caches
  <2> HIDE DEF Times
  <2>3. n \in Nat /\ times \in [1 .. n -> Times]
    BY <2>2
  <2>4. times \in [1 .. n -> Nat] /\ t \in Nat
    BY <2>1, <2>3
  <2>5. times \in Seq(Nat)
    BY <2>3, <2>4
  <2> QED BY <2>2, <2>3, <2>4, <2>5
<1>2. idx \in 0 .. n /\ \A i \in 1 .. n : times[i] < t <=> i <= idx
  BY <1>1, LeftSplits
<1>3. CASE idx < n /\ times[idx + 1] = t
  BY <1>3 DEF InsertSorted
<1>4. CASE ~(idx < n /\ times[idx + 1] = t)
  <2>1. InsertSorted(times, t) = grown
    BY <1>4 DEF InsertSorted
  <2> HIDE DEF idx
  <2>2. /\ grown \in Seq(Times) /\ Len(grown) = n + 1
        /\ \A i \in 1 .. n + 1 : grown[i] = IF i <= idx THEN times[i]
                                            ELSE IF i = idx + 1 THEN t ELSE times[i - 1]
    <3> DEFINE a == SubSeq(times, 1, idx)
               c == SubSeq(times, idx + 1, n)
    <3>1. /\ a \in Seq(Times) /\ Len(a) = idx /\ \A i \in 1 .. idx : a[i] = times[i]
          /\ c \in Seq(Times) /\ Len(c) = n - idx /\ \A i \in 1 .. n - idx : c[i] = times[idx + i]
      <4> HIDE DEF Times
      <4> QED BY <1>1, <1>2
    <3>2. grown = a \o <<t>> \o c
      <4>1. (idx + 1) - 1 = idx
        BY <1>2
      <4> QED BY <4>1 DEF InsertAt
    <3> HIDE DEF a, c, grown, Times, n
    <3>3. grown \in Seq(Times) /\ Len(grown) = n + 1
      BY <1>1, <1>2, <3>1, <3>2
    <3>4. ASSUME NEW i \in 1 .. n + 1
          PROVE  grown[i] = IF i <= idx THEN times[i] ELSE IF i = idx + 1 THEN t ELSE times[i - 1]
      <4>1. CASE i <= idx
        BY <1>1, <1>2, <3>1, <3>2, <4>1
      <4>2. CASE i = idx + 1
        BY <1>1, <1>2, <3>1, <3>2, <4>2
      <4>3. CASE i > idx + 1
        <5>1. i - idx - 1 \in 1 .. n - idx /\ idx + (i - idx - 1) = i - 1
          BY <1>1, <1>2, <4>3
        <5>2. grown[i] = c[i - idx - 1]
          BY <1>1, <1>2, <3>1, <3>2, <4>3
        <5> QED BY <1>2, <3>1, <4>3, <5>1, <5>2
      <4> QED BY <1>2, <4>1, <4>2, <4>3
    <3> QED BY <3>3, <3>4
  <2> HIDE DEF grown
  <2>3. \A i \in 1 .. n : i > idx => t < times[i]
    <3>1. ASSUME NEW i \in 1 .. n, i > idx
          PROVE  t < times[i]
      <4>1. idx + 1 \in 1 .. n /\ times[idx + 1] # t /\ ~(times[idx + 1] < t)
        BY <1>1, <1>2, <1>4, <3>1
      <4>2. i = idx + 1 \/ times[idx + 1] < times[i]
        BY <1>1, <1>2, <3>1, <4>1 DEF Rising
      <4> QED BY <1>1, <4>1, <4>2
    <3> QED BY <3>1
  <2>4. ASSUME NEW i \in 1 .. n + 1, NEW j \in 1 .. n + 1, i < j
        PROVE  grown[i] < grown[j]
    <3>0. \A k, l \in 1 .. n : k < l => times[k] < times[l]
      BY <1>1 DEF Rising
    <3> HIDE DEF n
    <3>1. CASE j <= idx
      BY <1>1, <1>2, <2>2, <2>4, <3>0, <3>1
    <3>2. CASE j = idx + 1
      BY <1>1, <1>2, <2>2, <2>4, <3>0, <3>2
    <3>3. CASE j > idx + 1
      <4>1. j - 1 \in 1 .. n /\ j - 1 > idx /\ grown[j] = times[j - 1]
        BY <1>1, <1>2, <2>2, <3>3
      <4>2. CASE i <= idx
        <5>1. i \in 1 .. n /\ i < j - 1 /\ grown[i] = times[i]
          BY <1>1, <1>2, <2>2, <4>1, <4>2
        <5> QED BY <3>0, <4>1, <5>1
      <4>3. CASE i = idx + 1
        BY <1>1, <1>2, <2>2, <2>3, <4>1, <4>3
      <4>4. CASE i > idx + 1
        <5>0. i - 1 \in 1 .. n /\ i - 1 < j - 1
          BY <1>1, <1>2, <2>4, <4>1, <4>4
        <5>1. ~(i <= idx) /\ i # idx + 1
          BY <1>2, <4>4
        <5>2. grown[i] = times[i - 1]
          BY <2>2, <5>1
        <5> QED BY <3>0, <4>1, <5>0, <5>2
      <4> QED BY <1>2, <4>2, <4>3, <4>4
    <3> QED BY <1>2, <3>1, <3>2, <3>3
  <2>5. Rising(grown)
    <3>1. DOMAIN grown = 1 .. n + 1
      BY <2>2
    <3> QED BY <2>4, <3>1 DEF Rising
  <2> QED BY <2>1, <2>2, <2>5 DEF Caches
<1> QED BY <1>3, <1>4

\* bulk_upsert keeps the order, whatever it is given.
LEMMA UpsertKeeps ==
  ASSUME NEW times \in Caches, NEW more \in Seq(Times)
  PROVE  Upsert(times, more) \in Caches
<1> DEFINE n == Len(more)
           step == [i \in 1 .. n |-> [cache \in Caches |-> InsertSorted(cache, more[i])]]
<1>1. n \in Nat /\ \A i \in 1 .. n : more[i] \in Times
  <2> HIDE DEF Times
  <2> QED OBVIOUS
<1>2. step \in [1 .. n -> [Caches -> Caches]]
  BY <1>1, InsertKeeps
<1>3. PICK f \in [0 .. n -> Caches] : Runs(f, n, times, step)
  <2> HIDE DEF n, step
  <2> QED BY <1>1, <1>2, LoopRuns
<1>4. \A i \in 0 .. n : f[i] = IF i = 0 THEN times ELSE InsertSorted(f[i - 1], more[i])
  <2>1. ASSUME NEW i \in 0 .. n
        PROVE  f[i] = IF i = 0 THEN times ELSE InsertSorted(f[i - 1], more[i])
    <3>1. f[i] = IF i = 0 THEN times ELSE step[i][f[i - 1]]
      BY <1>3 DEF Runs
    <3>2. CASE i = 0
      BY <3>1, <3>2
    <3>3. CASE i # 0
      <4>1. i \in 1 .. n /\ i - 1 \in 0 .. n
        BY <1>1, <3>3
      <4>2. f[i - 1] \in Caches
        BY <4>1
      <4> QED BY <3>1, <3>3, <4>1, <4>2
    <3> QED BY <3>2, <3>3
  <2> QED BY <2>1
<1> DEFINE Made(g) == g = [i \in 0 .. n |-> IF i = 0 THEN times ELSE InsertSorted(g[i - 1], more[i])]
<1>5. Made(f)
  BY <1>4
<1>6. Upserted(times, more) = CHOOSE g : Made(g)
  BY DEF Upserted
<1>7. Made(Upserted(times, more))
  <2> HIDE DEF Made
  <2> QED BY <1>5, <1>6
<1> DEFINE g == Upserted(times, more)
<1>8. \A i \in 0 .. n : g[i] = IF i = 0 THEN times ELSE InsertSorted(g[i - 1], more[i])
  BY <1>7
<1> HIDE DEF g
<1> DEFINE good == {i \in 0 .. n : g[i] \in Caches}
<1>9. 0 \in good /\ \A i \in 1 .. n : i - 1 \in good => i \in good
  <2>1. 0 \in good
    BY <1>1, <1>8
  <2>2. ASSUME NEW i \in 1 .. n, i - 1 \in good
        PROVE  i \in good
    <3>1. i \in 0 .. n /\ g[i] = InsertSorted(g[i - 1], more[i]) /\ more[i] \in Times
      BY <1>1, <1>8
    <3>2. g[i - 1] \in Caches
      BY <2>2
    <3>3. g[i] \in Caches
      BY <3>1, <3>2, InsertKeeps
    <3> QED BY <3>1, <3>3
  <2> QED BY <2>1, <2>2
<1>10. n \in good
  <2> HIDE DEF good
  <2>1. \A i \in 0 .. n : i \in good
    BY <1>1, <1>9, Rounds
  <2> QED BY <1>1, <2>1
<1> QED BY <1>10 DEF Upsert, g
\* The snapshots that a backtest loads are in order.
LEMMA SnapshotsRise ==
  ASSUME SyncInv, job.end \in Times
  PROVE  Snapshots \in Caches
<1>1. now \in Nat /\ MaxTime \in Nat /\ Times = 0 .. MaxTime /\ store \subseteq 0 .. now /\ now \in Times
  BY SyncAssumption DEF SyncInv, Times
<1>2. ASSUME NEW some \in SUBSET store
      PROVE  Calculated(Ascending(some)) \in Seq(Times)
  <2>1. some \in SUBSET Nat /\ some \in SUBSET Times /\ IsFiniteSet(some)
    <3>1. some \in SUBSET (0 .. now) /\ \A t \in 0 .. now : t \in Nat /\ t \in 0 .. MaxTime
      BY <1>1
    <3>2. IsFiniteSet(0 .. now)
      BY <1>1, FS_Interval
    <3>3. IsFiniteSet(some)
      BY <3>1, <3>2, FS_Subset
    <3> QED BY <1>1, <3>1, <3>3
  <2>2. Ascending(some) \in Seq(some)
    BY <2>1, AscendingOrder
  <2>3. Ascending(some) \in Seq(Times)
    <3>1. Len(Ascending(some)) \in Nat /\ Ascending(some) \in [1 .. Len(Ascending(some)) -> some]
      BY <2>2
    <3>2. Ascending(some) \in [1 .. Len(Ascending(some)) -> Times]
      BY <2>1, <3>1
    <3> QED BY <3>1, <3>2
  <2> QED BY <2>3 DEF Calculated
<1>3. << >> \in Caches
  BY DEF Caches, Rising
<1> DEFINE early == Calculated(Ascending({i \in store : i <= job.end}))
           all == Calculated(Ascending(store))
<1>4. early \in Seq(Times) /\ all \in Seq(Times)
  <2>1. {i \in store : i <= job.end} \in SUBSET store /\ store \in SUBSET store
    OBVIOUS
  <2> QED BY <1>2, <2>1
<1>5. Snapshots = Upsert(Upsert(<< >>, early), all)
  BY DEF Snapshots
<1> HIDE DEF early, all
<1> QED BY <1>3, <1>4, <1>5, UpsertKeeps

\* What a list holds, each once, is as many as its places.
LEMMA Counted ==
  ASSUME NEW n \in Nat, NEW B, NEW list \in [1 .. n -> B],
         \A i, j \in 1 .. n : i # j => list[i] # list[j],
         \A t \in B : \E i \in 1 .. n : list[i] = t
  PROVE  IsFiniteSet(B) /\ Cardinality(B) = n
<1>1. list \in Injection(1 .. n, B)
  BY DEF Injection, IsInjective
<1>2. list \in Surjection(1 .. n, B)
  BY DEF Surjection
<1>3. ExistsBijection(1 .. n, B)
  BY <1>1, <1>2 DEF ExistsBijection, Bijection
<1>4. IsFiniteSet(1 .. n)
  BY FS_Interval
<1> QED BY <1>3, <1>4, FS_Bijection, FS_CountingElements

\* A list in order is what its times are in order.
LEMMA RisingIsAscending ==
  ASSUME NEW times \in Seq(Nat), Rising(times)
  PROVE  /\ IsFiniteSet(ToSet(times)) /\ ToSet(times) \in SUBSET Nat
         /\ Ascending(ToSet(times)) = times
<1> DEFINE n == Len(times)
           S == ToSet(times)
<1>1. n \in Nat /\ DOMAIN times = 1 .. n /\ \A i \in 1 .. n : times[i] \in Nat /\ times[i] \in S
  BY DEF ToSet
<1>2. \A t \in S : \E i \in 1 .. n : t = times[i]
  BY DEF ToSet
<1>3. ASSUME NEW k \in 1 .. n
      PROVE  Cardinality(Before(S, times[k])) = k - 1
  <2> DEFINE few == [i \in 1 .. k - 1 |-> times[i]]
             B == Before(S, times[k])
  <2>1. \A i \in 1 .. n : times[i] < times[k] <=> i < k
    <3>1. ASSUME NEW i \in 1 .. n
          PROVE  times[i] < times[k] <=> i < k
      <4>1. i < k => times[i] < times[k]
        BY <1>1 DEF Rising
      <4>2. k < i => times[k] < times[i]
        BY <1>1 DEF Rising
      <4> QED BY <1>1, <4>1, <4>2
    <3> QED BY <3>1
  <2>2. few \in [1 .. k - 1 -> B]
    <3>1. ASSUME NEW i \in 1 .. k - 1
          PROVE  times[i] \in B
      <4>1. i \in 1 .. n /\ i < k
        BY <1>1
      <4> QED BY <1>1, <2>1, <4>1 DEF Before
    <3> QED BY <3>1
  <2>3. \A i, j \in 1 .. k - 1 : i # j => few[i] # few[j]
    <3>1. ASSUME NEW i \in 1 .. k - 1, NEW j \in 1 .. k - 1, i < j
          PROVE  few[i] # few[j]
      <4>1. i \in 1 .. n /\ j \in 1 .. n
        BY <1>1
      <4>2. times[i] < times[j]
        BY <1>1, <3>1, <4>1 DEF Rising
      <4> QED BY <1>1, <4>1, <4>2
    <3>2. \A i, j \in 1 .. k - 1 : i # j => i < j \/ j < i
      OBVIOUS
    <3> HIDE DEF few
    <3> QED BY <3>1, <3>2
  <2>4. \A t \in B : \E i \in 1 .. k - 1 : few[i] = t
    <3> SUFFICES ASSUME NEW t \in B
                 PROVE  \E i \in 1 .. k - 1 : few[i] = t
      OBVIOUS
    <3>1. t \in S /\ t < times[k]
      BY DEF Before
    <3>2. PICK i \in 1 .. n : t = times[i]
      BY <1>2, <3>1
    <3>3. i \in 1 .. k - 1
      BY <1>1, <2>1, <3>1, <3>2
    <3> QED BY <3>2, <3>3
  <2>5. k - 1 \in Nat
    BY <1>1
  <2> HIDE DEF few, B
  <2>6. Cardinality(B) = k - 1
    BY <2>2, <2>3, <2>4, <2>5, Counted
  <2> QED BY <2>6 DEF B
<1>4. IsFiniteSet(S) /\ Cardinality(S) = n
  <2>1. times \in [1 .. n -> S]
    BY <1>1
  <2>2. ASSUME NEW i \in 1 .. n, NEW j \in 1 .. n, i # j
        PROVE  times[i] # times[j]
    <3>1. i < j \/ j < i
      BY <2>2
    <3>2. i < j => times[i] < times[j]
      BY <1>1 DEF Rising
    <3>3. j < i => times[j] < times[i]
      BY <1>1 DEF Rising
    <3>4. times[i] \in Nat /\ times[j] \in Nat
      BY <1>1
    <3> HIDE DEF n
    <3> QED BY <3>1, <3>2, <3>3, <3>4
  <2> HIDE DEF n, S
  <2> QED BY <1>1, <1>2, <2>1, <2>2, Counted
<1>5. S \in SUBSET Nat
  BY <1>1, <1>2
<1> DEFINE asc == Ascending(S)
<1>6. /\ asc \in Seq(S) /\ Len(asc) = n
      /\ \A t \in S : \E k \in 1 .. n : asc[k] = t /\ k = Cardinality(Before(S, t)) + 1
  <2> HIDE DEF S
  <2> QED BY <1>4, <1>5, AscendingOrder
<1> HIDE DEF asc, S
<1>7. ASSUME NEW k \in 1 .. n
      PROVE  asc[k] = times[k]
  <2>1. PICK l \in 1 .. n : asc[l] = times[k] /\ l = Cardinality(Before(S, times[k])) + 1
    BY <1>1, <1>6
  <2>2. l = k
    BY <1>3, <2>1
  <2> QED BY <2>1, <2>2
<1>8. asc = times
  <2>1. asc = [k \in 1 .. n |-> asc[k]] /\ times = [k \in 1 .. n |-> times[k]]
    BY <1>1, <1>6
  <2> QED BY <1>7, <2>1
<1> QED BY <1>4, <1>5, <1>8 DEF asc, S

\* Of a list, the places after the first lo and up to hi.
LEMMA PartOf ==
  ASSUME NEW X, NEW list \in Seq(X), NEW lo \in Nat, NEW hi \in 0 .. Len(list)
  PROVE  /\ SubSeq(list, lo + 1, hi) \in Seq(X)
         /\ Len(SubSeq(list, lo + 1, hi)) = IF lo < hi THEN hi - lo ELSE 0
         /\ \A i \in 1 .. Len(SubSeq(list, lo + 1, hi)) : SubSeq(list, lo + 1, hi)[i] = list[lo + i]
<1>1. CASE lo < hi
  <2>1. lo + 1 \in 1 .. Len(list) /\ hi - (lo + 1) + 1 = hi - lo
    BY <1>1
  <2> QED BY <1>1, <2>1
<1>2. CASE ~(lo < hi)
  <2>1. SubSeq(list, lo + 1, hi) = << >>
    BY <1>2
  <2> QED BY <1>2, <2>1
<1> QED BY <1>1, <1>2

\* A list from its end to its start.
LEMMA ReverseIs ==
  ASSUME NEW X, NEW list \in Seq(X)
  PROVE  /\ Reverse(list) \in Seq(X) /\ Len(Reverse(list)) = Len(list)
         /\ Reverse(list) = [i \in 1 .. Len(list) |-> list[Len(list) - i + 1]]
<1> DEFINE n == Len(list)
           back == [i \in 1 .. n |-> list[n - i + 1]]
<1>1. n \in Nat /\ \A i \in 1 .. n : list[n - i + 1] \in X
  <2>1. \A i \in 1 .. n : n - i + 1 \in 1 .. n
    OBVIOUS
  <2> QED BY <2>1
<1>2. Reverse(list) = back
  BY DEF Reverse
<1>3. back \in [1 .. n -> X]
  BY <1>1
<1>4. back \in Seq(X) /\ Len(back) = n
  <2> HIDE DEF back
  <2> QED BY <1>1, <1>3
<1> QED BY <1>2, <1>4

\* list_by_symbol and the query it stands for give the same list, whatever limit.
LEMMA ListsAgree ==
  ASSUME NEW cache \in Caches, NEW start \in Times, NEW end \in Times, NEW limit \in Nat
  PROVE  CacheList(cache, start, end, limit)
           = QueryList({cache[i] : i \in DOMAIN cache}, start, end, limit)
<1> DEFINE n == Len(cache)
           lo == BisectLeft(cache, start)
           hi == BisectRight(cache, end)
           S == {t \in {cache[i] : i \in DOMAIN cache} : start <= t /\ t <= end}
           part == SubSeq(cache, lo + 1, hi)
           m == Len(part)
<1>1. /\ cache \in Seq(Nat) /\ Rising(cache) /\ n \in Nat /\ DOMAIN cache = 1 .. n
      /\ start \in Nat /\ end \in Nat /\ \A i \in 1 .. n : cache[i] \in Nat
  <2>1. Times \subseteq Nat
    BY SyncAssumption DEF Times
  <2>2. cache \in Seq(Times) /\ Rising(cache)
    BY DEF Caches
  <2> HIDE DEF Times
  <2>3. n \in Nat /\ DOMAIN cache = 1 .. n /\ cache \in [1 .. n -> Times]
    BY <2>2
  <2>4. cache \in [1 .. n -> Nat] /\ start \in Nat /\ end \in Nat
    BY <2>1, <2>3
  <2>5. cache \in Seq(Nat)
    BY <2>3, <2>4
  <2> QED BY <2>2, <2>3, <2>4, <2>5
<1>2. lo \in 0 .. n /\ \A i \in 1 .. n : cache[i] < start <=> i <= lo
  BY <1>1, LeftSplits
<1>3. hi \in 0 .. n /\ \A i \in 1 .. n : cache[i] <= end <=> i <= hi
  BY <1>1, RightSplits
<1> HIDE DEF lo, hi
<1>4. /\ part \in Seq(Nat) /\ m = (IF lo < hi THEN hi - lo ELSE 0)
      /\ \A i \in 1 .. m : part[i] = cache[lo + i]
  BY <1>1, <1>2, <1>3, PartOf
<1>5. m \in Nat /\ DOMAIN part = 1 .. m /\ \A i \in 1 .. m : lo + i \in 1 .. n /\ lo + i <= hi
  BY <1>1, <1>2, <1>3, <1>4
<1> HIDE DEF part, n
<1>6. Rising(part)
  <2>1. ASSUME NEW i \in 1 .. m, NEW j \in 1 .. m, i < j
        PROVE  part[i] < part[j]
    <3>1. lo + i < lo + j /\ lo + i \in 1 .. n /\ lo + j \in 1 .. n
      BY <1>2, <1>5, <2>1
    <3>2. cache[lo + i] < cache[lo + j]
      BY <1>1, <3>1 DEF Rising
    <3> QED BY <1>4, <3>2
  <2> QED BY <1>5, <2>1 DEF Rising
<1>7. ToSet(part) = S
  <2>1. ASSUME NEW t \in S
        PROVE  t \in ToSet(part)
    <3>1. PICK i \in 1 .. n : t = cache[i]
      BY <1>1
    <3>2. lo < i /\ i <= hi
      BY <1>1, <1>2, <1>3, <3>1
    <3>3. i - lo \in 1 .. m /\ lo + (i - lo) = i
      BY <1>2, <1>3, <1>4, <3>2
    <3>4. part[i - lo] = t
      BY <1>4, <3>1, <3>3
    <3> QED BY <1>5, <3>3, <3>4 DEF ToSet
  <2>2. ASSUME NEW i \in 1 .. m
        PROVE  part[i] \in S
    <3>1. lo + i \in 1 .. n /\ lo + i <= hi /\ ~(lo + i <= lo)
      BY <1>2, <1>5
    <3>2. start <= cache[lo + i] /\ cache[lo + i] <= end
      BY <1>1, <1>2, <1>3, <3>1
    <3> QED BY <1>1, <1>4, <3>1, <3>2
  <2> QED BY <1>5, <2>1, <2>2 DEF ToSet
<1>8. Ascending(S) = part
  BY <1>4, <1>6, <1>7, RisingIsAscending
<1> HIDE DEF S
<1> DEFINE newest == Reverse(part)
           cut == IF m > limit THEN SubSeq(newest, 1, limit) ELSE newest
           from == IF lo > hi - limit THEN lo ELSE hi - limit
<1>9. QueryList({cache[i] : i \in DOMAIN cache}, start, end, limit) = Reverse(cut)
  <2>1. newest \in Seq(Nat) /\ Len(newest) = m
    BY <1>4, ReverseIs
  <2> QED BY <1>8, <2>1 DEF QueryList, S
<1>10. CacheList(cache, start, end, limit) = SubSeq(cache, from + 1, hi)
  BY DEF CacheList, lo, hi
<1>11. newest = [i \in 1 .. m |-> part[m - i + 1]]
  BY DEF Reverse
<1>12. CASE m > limit
  <2>1. lo < hi /\ m = hi - lo /\ from = hi - limit /\ from \in Nat
    BY <1>2, <1>3, <1>4, <1>12
  <2>2. /\ SubSeq(cache, from + 1, hi) \in Seq(Nat) /\ Len(SubSeq(cache, from + 1, hi)) = limit
        /\ \A i \in 1 .. limit : SubSeq(cache, from + 1, hi)[i] = cache[from + i]
    <3> HIDE DEF from
    <3>1. from < hi <=> limit > 0
      BY <1>3, <2>1
    <3>2. (IF from < hi THEN hi - from ELSE 0) = limit
      BY <1>3, <2>1, <3>1
    <3>3. hi \in 0 .. Len(cache)
      BY <1>3 DEF n
    <3> QED BY <1>1, <2>1, <3>2, <3>3, PartOf
  <2>3. cut = [i \in 1 .. limit |-> part[m - i + 1]]
    <3>1. newest \in Seq(Nat) /\ Len(newest) = m
      BY <1>4, ReverseIs
    <3> HIDE DEF newest
    <3>2. cut = [i \in 1 .. limit |-> newest[i]]
      BY <1>5, <1>12, <3>1
    <3> QED BY <1>5, <1>11, <1>12, <3>2
  <2> HIDE DEF cut, from
  <2>4. Len(cut) = limit
    BY <2>3
  <2>5. Reverse(cut) = [i \in 1 .. limit |-> cut[limit - i + 1]]
    BY <2>4 DEF Reverse
  <2>6. ASSUME NEW i \in 1 .. limit
        PROVE  cut[limit - i + 1] = cache[from + i]
    <3>1. limit - i + 1 \in 1 .. limit /\ m - (limit - i + 1) + 1 = m - limit + i
      BY <1>5
    <3>2. m - limit + i \in 1 .. m /\ lo + (m - limit + i) = from + i
      BY <1>2, <1>3, <1>5, <1>12, <2>1
    <3>3. cut[limit - i + 1] = part[m - limit + i]
      BY <2>3, <3>1
    <3> QED BY <1>4, <3>2, <3>3
  <2>7. SubSeq(cache, from + 1, hi) = [i \in 1 .. limit |-> cache[from + i]]
    BY <2>2
  <2> QED BY <1>9, <1>10, <2>5, <2>6, <2>7
<1>13. CASE ~(m > limit)
  <2>1. cut = newest
    BY <1>13
  <2>2. Len(newest) = m
    BY <1>5, <1>11
  <2>3. Reverse(newest) = [i \in 1 .. m |-> newest[m - i + 1]]
    BY <2>2 DEF Reverse
  <2>4. ASSUME NEW i \in 1 .. m
        PROVE  newest[m - i + 1] = part[i]
    <3>1. m - i + 1 \in 1 .. m /\ m - (m - i + 1) + 1 = i
      BY <1>5
    <3> QED BY <1>11, <3>1
  <2>5. part = [i \in 1 .. m |-> part[i]]
    BY <1>4, <1>5
  <2>6. Reverse(cut) = part
    <3> HIDE DEF newest, cut
    <3> QED BY <2>1, <2>3, <2>4, <2>5
  <2>7. SubSeq(cache, from + 1, hi) = part
    <3>1. CASE lo < hi
      <4>1. from = lo
        <5>1. hi - lo <= limit
          BY <1>4, <1>13, <3>1
        <5>2. lo >= hi - limit
          BY <1>2, <1>3, <5>1
        <5> QED BY <1>2, <1>3, <5>2
      <4> QED BY <4>1 DEF part
    <3>2. CASE ~(lo < hi)
      <4>1. from + 1 > hi /\ lo + 1 > hi /\ from \in Nat
        BY <1>2, <1>3, <3>2
      <4>2. SubSeq(cache, from + 1, hi) = << >> /\ part = << >>
        BY <1>2, <1>3, <4>1 DEF part
      <4> QED BY <4>2
    <3> QED BY <3>1, <3>2
  <2> HIDE DEF newest, cut, from
  <2> QED BY <1>9, <1>10, <2>6, <2>7
<1> QED BY <1>12, <1>13

\* What a job has in memory, its repositories in order.
Jobs == [pc : {"none", "filling", "looping", "analysing"}, start : Times, end : Times,
         sim : 0 .. MaxTime + 1, cache : Caches, read : Times \cup {-1}, cancel : BOOLEAN]

JobInv ==
  /\ row \in {"none", "RUNNING", "CANCELLED", "COMPLETED", "FAILED"}
  /\ job \in Jobs

\* No job, as in the beginning.
LEMMA NoJobTyped == NoJob \in Jobs
<1>1. << >> \in Caches
  BY DEF Caches, Rising
<1>2. 0 \in Times /\ 0 \in 0 .. MaxTime + 1
  BY SyncAssumption DEF Times
<1> QED BY <1>1, <1>2 DEF NoJob, Jobs

\* get_latest finds a snapshot that there is, or none.
LEMMA LatestTyped ==
  ASSUME NEW cache \in Caches, NEW t \in Times
  PROVE  Latest(cache, t) \in Times \cup {-1}
<1> DEFINE found == CacheList(cache, 0, t, 1)
           lo == BisectLeft(cache, 0)
           hi == BisectRight(cache, t)
           from == IF lo > hi - 1 THEN lo ELSE hi - 1
<1>1. cache \in Seq(Nat) /\ cache \in Seq(Times) /\ Rising(cache) /\ t \in Nat
  <2>1. Times \subseteq Nat
    BY SyncAssumption DEF Times
  <2>2. cache \in Seq(Times) /\ Rising(cache)
    BY DEF Caches
  <2> HIDE DEF Times
  <2>3. Len(cache) \in Nat /\ cache \in [1 .. Len(cache) -> Times]
    BY <2>2
  <2>4. cache \in [1 .. Len(cache) -> Nat]
    BY <2>1, <2>3
  <2>5. cache \in Seq(Nat)
    BY <2>3, <2>4
  <2> QED BY <2>1, <2>2, <2>5
<1>2. lo \in 0 .. Len(cache) /\ hi \in 0 .. Len(cache)
  BY <1>1, LeftSplits, RightSplits
<1>3. found = SubSeq(cache, from + 1, hi)
  BY DEF CacheList
<1> HIDE DEF lo, hi
<1>4. from \in Nat
  BY <1>2
<1> HIDE DEF from, Times
<1>5. found \in Seq(Times)
  BY <1>1, <1>2, <1>3, <1>4, PartOf
<1> HIDE DEF found
<1>6. found # << >> => found[1] \in Times
  BY <1>5
<1> QED BY <1>6 DEF Latest, found

\* Every step of the job, of the API and of anything else keeps the job's types and the
\* order of its repositories.
LEMMA StepJob ==
  ASSUME SyncInv, JobInv, [Next]_vars
  PROVE  JobInv'
<1> USE DEF JobInv
<1>1. ASSUME UNCHANGED <<row, job>>
      PROVE  JobInv'
  BY <1>1
<1>2. CASE Run
  <2> PICK start, end \in Times :
        job' = [NoJob EXCEPT !.pc = "filling", !.start = start, !.end = end]
    BY <1>2 DEF Run
  <2>1. job' \in Jobs
    BY NoJobTyped DEF Jobs
  <2> QED BY <1>2, <2>1 DEF Run
<1>3. CASE Load
  <2>1. Snapshots \in Caches /\ job.start \in 0 .. MaxTime + 1
    <3>1. job.end \in Times /\ job.start \in Times /\ MaxTime \in Nat
      BY SyncAssumption DEF Jobs
    <3>2. job.start \in 0 .. MaxTime + 1
      BY <3>1 DEF Times
    <3> QED BY <3>1, <3>2, SnapshotsRise
  <2>2. job' \in Jobs
    BY <1>3, <2>1 DEF Load, Jobs
  <2> QED BY <1>3, <2>2 DEF Load
<1>4. CASE Simulate
  <2>1. job.sim \in Times /\ job.sim + 1 \in 0 .. MaxTime + 1 /\ job.cache \in Caches
    BY <1>4, SyncAssumption DEF Simulate, Jobs, Times
  <2>2. Latest(job.cache, job.sim) \in Times \cup {-1}
    BY <2>1, LatestTyped
  <2>3. job' \in Jobs
    BY <1>4, <2>1, <2>2 DEF Simulate, Jobs
  <2> QED BY <1>4, <2>3 DEF Simulate
<1>5. CASE LoopEnds
  <2>1. job' \in Jobs
    BY <1>5 DEF LoopEnds, Jobs
  <2> QED BY <1>5, <2>1 DEF LoopEnds
<1>6. CASE Complete \/ Stale \/ Fail \/ Crash
  <2>1. job' = NoJob
    BY <1>6 DEF Complete, Stale, Fail, Crash
  <2>2. row' \in {row, "COMPLETED", "FAILED"}
    BY <1>6 DEF Complete, Stale, Fail, Crash
  <2> QED BY <2>1, <2>2, NoJobTyped
<1>7. CASE Cancel
  <2>1. job' \in Jobs
    BY <1>7 DEF Cancel, Jobs
  <2> QED BY <1>7, <2>1 DEF Cancel
<1>8. CASE Delete
  BY <1>8 DEF Delete
<1>9. CASE LiveTraffic \/ Backfill \/ Time \/ UNCHANGED vars
  BY <1>1, <1>9 DEF LiveTraffic, Backfill, Time, vars
<1> QED BY <1>2, <1>3, <1>4, <1>5, <1>6, <1>7, <1>8, <1>9 DEF Next, JobStep

\* So do all steps from the beginning on.
LEMMA JobInvCorrect == Spec => [](SyncInv /\ JobInv)
<1>1. Init => JobInv
  BY NoJobTyped DEF Init, JobInv
<1>2. SyncInv /\ JobInv /\ [Next]_vars => JobInv'
  BY StepJob
<1> QED BY <1>1, <1>2, SyncInvCorrect, PTL DEF Spec

\* Whatever a back-fill brought, fails or is stopped at, what the job has in memory and
\* in its row has its type.
THEOREM TypeCorrect == Spec => []TypeOK
<1>1. SyncInv /\ JobInv => TypeOK
  <2> SUFFICES ASSUME SyncInv, JobInv
               PROVE  TypeOK
    OBVIOUS
  <2>1. job.cache \in Seq(Times)
    BY DEF JobInv, Jobs, Caches
  <2>2. job \in [pc : {"none", "filling", "looping", "analysing"}, start : Times,
                 end : Times, sim : 0 .. MaxTime + 1,
                 cache : Seq(Times), read : Times \cup {-1}, cancel : BOOLEAN]
    BY <2>1 DEF JobInv, Jobs
  <2> QED BY <2>2, SyncInvTypes DEF JobInv, TypeOK
<1> QED BY <1>1, JobInvCorrect, PTL

\* For any candles and in whatever order they were inserted, the repositories in memory
\* answer list_by_symbol as the query of the database's repository does.
THEOREM MemoryAgreesCorrect == Spec => []MemoryAgrees
<1>1. JobInv => MemoryAgrees
  <2> SUFFICES ASSUME JobInv, NEW start \in Times, NEW end \in Times, NEW limit \in 1 .. 2
               PROVE  CacheList(job.cache, start, end, limit)
                        = QueryList({job.cache[i] : i \in DOMAIN job.cache}, start, end, limit)
    BY DEF MemoryAgrees
  <2>1. job.cache \in Caches /\ limit \in Nat
    BY DEF JobInv, Jobs
  <2> QED BY <2>1, ListsAgree
<1> QED BY <1>1, JobInvCorrect, PTL
=============================================================================
