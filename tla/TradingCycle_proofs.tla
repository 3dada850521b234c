------------------------ MODULE TradingCycle_proofs ------------------------
(***************************************************************************)
(* Theorems about TradingCycle for every number of cycles and symbols and  *)
(* whatever targets the cycles come up with: the type invariant, the limit *)
(* of positions for bots that are not scalping, however their cycles       *)
(* overlap, and the stop-loss cooldown when they do not. If targets keep   *)
(* what a cycle saw (KeepsRetained, shown of TargetEngine's at the end):   *)
(* such positions stay open until they are asked to be closed, and without *)
(* overlap scalping bots keep to the limit too and nothing but what is     *)
(* asked for is closed. Every task in the queue comes nearer to its turn   *)
(* with every step of the worker, and with no other is it held up.         *)
(*                                                                         *)
(* Then the two engines, for all decisions, open symbols and limits: the   *)
(* risk engine never rejects a target that the portfolio engine may build, *)
(* and what it approves keeps to the limits; the invariants of             *)
(* TargetPipeline, from what sorting, the replacement loop and the loop    *)
(* over the exposure that is left come to; and that bots which only go     *)
(* long get outcomes of which KeepsRetained holds, which closes the gap    *)
(* between the two modules.                                                *)
(***************************************************************************)
EXTENDS TradingCycle, TargetPipeline, Loops, FiniteSetTheorems, SequenceTheorems, TLAPS

-----------------------------------------------------------------------------
(* Types *)

\* The task of a worker that waits is none of the queue's tasks.
LEMMA NoTaskIsNone ==
  /\ NoTask \notin Tasks
  /\ NoTask.target.positions = << >>
  /\ Waiting \in [phase : Phases, task : Tasks \cup {NoTask},
                  left : Seq(Positions), blocked : SUBSET Symbols]
<1>1. NoTask.cycle = None /\ NoTask.target.positions = << >>
  BY DEF NoTask, Task, Nothing, Portfolio
<1>2. \A task \in Tasks : task.cycle \in Slots
  BY DEF Tasks
<1>3. << >> \in Seq(Positions)
  OBVIOUS
<1>4. Waiting \in [phase : Phases, task : Tasks \cup {NoTask},
                   left : Seq(Positions), blocked : SUBSET Symbols]
  BY <1>3 DEF Waiting, Phases
<1> QED BY <1>1, <1>2, <1>4, CycleAssumption

\* The typing holds in the beginning: an empty queue, the worker waiting.
LEMMA InitTyped == Init => TypeOK
<1> SUFFICES ASSUME Init PROVE TypeOK
  OBVIOUS
<1>1. queue \in Seq(Tasks)
  BY DEF Init
<1>2. worker.phase = "wait" <=> worker.task = NoTask
  BY DEF Init, Waiting
<1> QED BY <1>1, <1>2, NoTaskIsNone DEF Init, TypeOK, Cycles, Statuses


\* Every step of cycles, marks, worker and restarts keeps the typing.
LEMMA StepTyped == TypeOK /\ [Next]_vars => TypeOK'
<1> SUFFICES ASSUME TypeOK, [Next]_vars PROVE TypeOK'
  OBVIOUS
<1> USE DEF TypeOK
<1>1. ASSUME NEW c \in Slots, Begin(c) PROVE TypeOK'
  BY <1>1 DEF Begin, Cycles, InProgress, Statuses
<1>2. ASSUME NEW c \in Slots, Fetched(c) PROVE TypeOK'
  <2>1. PICK record \in Cycles : record = cycle[c]
    OBVIOUS
  <2>2. [record EXCEPT !.stage = "mark"] \in Cycles
    BY DEF Cycles, InProgress
  <2> QED BY <1>2, <2>1, <2>2 DEF Fetched
<1>3. ASSUME NEW c \in Slots, Look(c) PROVE TypeOK'
  <2>1. [cycle[c] EXCEPT !.stage = "decide", !.seen = OpenSymbols, !.cooled = cooling] \in Cycles
    BY DEF Cycles, InProgress, OpenSymbols
  <2> QED BY <1>3, <2>1 DEF Look
<1>4. ASSUME NEW c \in Slots, Enqueue(c) PROVE TypeOK'
  <2>1. PICK outcome \in Entries[cycle[c].mode][cycle[c].seen][cycle[c].cooled] :
          queue' = Append(queue, Task(c, cycle[c].mode, outcome))
    BY <1>4 DEF Enqueue
  <2>2. outcome \in Outcomes
    <3>1. /\ cycle[c].mode \in Modes
          /\ cycle[c].seen \in SUBSET Symbols /\ cycle[c].cooled \in SUBSET Symbols
      BY DEF Cycles
    <3>2. Entries[cycle[c].mode][cycle[c].seen][cycle[c].cooled] \subseteq Outcomes
      BY <3>1, CycleAssumption
    <3> QED BY <2>1, <3>2
  <2>3. Task(c, cycle[c].mode, outcome) \in Tasks
    BY <2>2 DEF Outcomes, Tasks, Task, Cycles
  <2>4. queue' \in Seq(Tasks)
    BY <2>1, <2>3, AppendProperties
  <2>5. PICK status \in {"COMPLETED", "FAILED"} :
          cycle' = [cycle EXCEPT ![c] = [@ EXCEPT !.stage = "ended", !.status = status]]
    BY <1>4 DEF Enqueue
  <2>6. [cycle[c] EXCEPT !.stage = "ended", !.status = status] \in Cycles
    <3>1. PICK record \in Cycles : record = cycle[c]
      OBVIOUS
    <3>2. [record EXCEPT !.stage = "ended", !.status = status] \in Cycles
      BY DEF Cycles, Statuses
    <3> QED BY <3>1, <3>2
  <2>7. cycle' \in [Slots -> Cycles]
    BY <2>5, <2>6
  <2> QED BY <1>4, <2>4, <2>7 DEF Enqueue
<1>5. ASSUME NEW c \in Slots, Fail(c) PROVE TypeOK'
  <2>1. [cycle[c] EXCEPT !.stage = "ended", !.status = "FAILED"] \in Cycles
    BY DEF Cycles, Statuses
  <2> QED BY <1>5, <2>1 DEF Fail
<1>6. ASSUME NEW sym \in Symbols, StopLoss(sym) \/ TakeProfit(sym) \/ CooldownEnds(sym)
      PROVE TypeOK'
  BY <1>6 DEF StopLoss, TakeProfit, CooldownEnds
<1>7. CASE Take
  <2>1. Head(queue) \in Tasks /\ Tail(queue) \in Seq(Tasks)
    BY <1>7, HeadTailProperties DEF Take
  <2> QED BY <1>7, <2>1, NoTaskIsNone DEF Take, Waiting, Phases
<1>8. CASE EndMark
  BY <1>8 DEF EndMark, Phases
<1>9. CASE BeginExecute
  <2>1. worker.task.target.positions \in Seq(Positions)
    BY <1>9, NoTaskIsNone DEF BeginExecute, Tasks, ApprovedTargets
  <2> QED BY <1>9, <2>1 DEF BeginExecute, Phases, Blocked
<1>10. CASE Open \/ Skip
  <2>1. worker.left # << >>
    BY <1>10 DEF Open, Skip
  <2>2. Head(worker.left) \in Positions /\ Tail(worker.left) \in Seq(Positions)
    BY <2>1, HeadTailProperties
  <2>3. worker' \in [phase : Phases, task : Tasks \cup {NoTask},
                     left : Seq(Positions), blocked : SUBSET Symbols]
    BY <1>10, <2>2 DEF Open, Skip
  <2> QED BY <1>10, <2>2, <2>3 DEF Open, Skip, Positions
<1>11. CASE Finish
  <2>1. worker.task.cycle \in Slots
    BY <1>11 DEF Finish, Tasks
  <2>2. PICK record \in Cycles : record = cycle[worker.task.cycle]
    BY <2>1
  <2>3. [record EXCEPT !.status = "COMPLETED"] \in Cycles
    BY DEF Cycles, Statuses
  <2> QED BY <1>11, <2>1, <2>2, <2>3, NoTaskIsNone DEF Finish, Waiting
<1>12. CASE WorkerFails
  BY <1>12, NoTaskIsNone DEF WorkerFails, Waiting
<1>13. ASSUME NEW sym \in Symbols, Close(sym) PROVE TypeOK'
  BY <1>13 DEF Close
<1>14. CASE Restart
  <2>1. queue' \in Seq(Tasks)
    BY <1>14 DEF Restart
  <2>2. \A c \in Slots : [cycle[c] EXCEPT !.stage = "ended"] \in Cycles
    BY DEF Cycles
  <2> QED BY <1>14, <2>1, <2>2, NoTaskIsNone DEF Restart, Waiting
<1>15. CASE UNCHANGED vars
  BY <1>15 DEF vars
<1> QED BY <1>1, <1>2, <1>3, <1>4, <1>5, <1>6, <1>7, <1>8, <1>9, <1>10, <1>11, <1>12,
           <1>13, <1>14, <1>15 DEF Next, WorkerStep

\* The type invariant, about what cycles and worker keep in memory and in the database.
THEOREM TypeCorrect == Spec => []TypeOK
<1>1. Init => TypeOK
  BY InitTyped
<1>2. TypeOK /\ [Next]_vars => TypeOK'
  BY StepTyped
<1> QED BY <1>1, <1>2, PTL DEF Spec

-----------------------------------------------------------------------------
(* The limit of positions *)

\* A target has no more symbols than positions.
LEMMA SymbolsOfSequence ==
  ASSUME NEW positions \in Seq(Positions)
  PROVE  /\ IsFiniteSet(SymbolsIn(positions))
         /\ Cardinality(SymbolsIn(positions)) <= Len(positions)
<1> DEFINE f == [i \in 1..Len(positions) |-> positions[i].sym]
<1>1. Len(positions) \in Nat /\ DOMAIN positions = 1..Len(positions)
  BY LenProperties
<1>2. f \in Surjection(1..Len(positions), SymbolsIn(positions))
  BY <1>1 DEF Surjection, SymbolsIn
<1>3. ExistsSurjection(1..Len(positions), SymbolsIn(positions))
  BY <1>2 DEF ExistsSurjection
<1> QED BY <1>1, <1>3, FS_SurjCardinalityBound, FS_NatSurjection

\* While the worker opens positions, only symbols of its target have one: the others
\* were closed before, and nobody else opens positions.
OpenedAreTargets ==
  worker.phase = "open" =>
    /\ OpenSymbols \subseteq SymbolsIn(worker.task.target.positions)
    /\ \A i \in DOMAIN worker.left :
         worker.left[i].sym \in SymbolsIn(worker.task.target.positions)

LimitInv == WithinPositionLimit /\ OpenedAreTargets

\* Closing positions does not make them more.
LEMMA FewerOpen ==
  ASSUME NEW S, NEW T, T \in SUBSET Symbols, S \subseteq T
  PROVE  Cardinality(S) <= Cardinality(T)
<1>1. IsFiniteSet(T)
  BY FS_Subset, CycleAssumption
<1> QED BY <1>1, FS_Subset

\* A worker that starts to open when only symbols of its target are open keeps the limit
\* and what it rests on.
LEMMA StepLimited ==
  ASSUME TypeOK, LimitInv, [Next]_vars,
         BeginExecute => OpenSymbols \subseteq SymbolsIn(worker.task.target.positions)
  PROVE  LimitInv'
<1>1. CASE OpenSymbols' \subseteq OpenSymbols
  <2>1. WithinPositionLimit'
    <3>1. Cardinality(OpenSymbols') <= Cardinality(OpenSymbols)
      BY <1>1, FewerOpen DEF OpenSymbols
    <3>2. Cardinality(OpenSymbols) \in Nat /\ Cardinality(OpenSymbols') \in Nat
      BY CycleAssumption, FS_Subset, FS_CardinalityType DEF OpenSymbols
    <3> QED BY <3>1, <3>2, CycleAssumption DEF LimitInv, WithinPositionLimit
  <2>2. OpenedAreTargets'
    <3>1. CASE BeginExecute
      <4>2. OpenSymbols \subseteq SymbolsIn(worker.task.target.positions)
        BY <3>1
      <4>3. /\ worker'.left = worker.task.target.positions
            /\ worker'.task = worker.task
        BY <3>1 DEF BeginExecute, TypeOK
      <4> QED BY <1>1, <4>2, <4>3 DEF OpenedAreTargets, SymbolsIn
    <3>2. CASE Open \/ Skip
      <4>1. worker.left \in Seq(Positions) /\ worker.left # << >>
        BY <3>2 DEF Open, Skip, TypeOK
      <4>2. /\ worker.phase = "open" /\ worker'.task = worker.task
            /\ worker'.left = Tail(worker.left)
        BY <3>2 DEF Open, Skip, TypeOK
      <4>3. \A i \in DOMAIN Tail(worker.left) : \E j \in DOMAIN worker.left :
              Tail(worker.left)[i] = worker.left[j]
        <5>1. Tail(worker.left) \in Seq(Positions) /\ Len(Tail(worker.left)) = Len(worker.left) - 1
          BY <4>1, HeadTailProperties
        <5>2. \A i \in 1..Len(Tail(worker.left)) :
                i + 1 \in 1..Len(worker.left) /\ Tail(worker.left)[i] = worker.left[i + 1]
          BY <4>1, <5>1, HeadTailProperties, LenProperties
        <5> QED BY <4>1, <5>1, <5>2, LenProperties
      <4> QED BY <1>1, <4>2, <4>3 DEF LimitInv, OpenedAreTargets
    <3>3. CASE ~ BeginExecute /\ ~ Open /\ ~ Skip
      <4>1. worker'.phase # "open" \/ UNCHANGED worker
        <5>1. CASE Take
          BY <5>1 DEF Take, Waiting
        <5>2. CASE EndMark
          BY <5>2 DEF EndMark, TypeOK
        <5>3. CASE Finish \/ WorkerFails \/ Restart
          BY <5>3 DEF Finish, WorkerFails, Restart, Waiting
        <5>4. UNCHANGED worker \/ Take \/ EndMark \/ Finish \/ WorkerFails \/ Restart
          BY <3>3 DEF Next, WorkerStep, vars, Begin, Fetched, Look, Enqueue, Fail,
                      StopLoss, TakeProfit, CooldownEnds, Close
        <5> QED BY <5>1, <5>2, <5>3, <5>4
      <4> QED BY <1>1, <4>1 DEF LimitInv, OpenedAreTargets
    <3> QED BY <3>1, <3>2, <3>3
  <2> QED BY <2>1, <2>2 DEF LimitInv
<1>2. CASE Open
  <2> DEFINE p == Head(worker.left)
             book == worker.task.target.positions
  <2>1. /\ worker.phase = "open" /\ worker'.task = worker.task
        /\ worker'.left = Tail(worker.left)
        /\ worker.left \in Seq(Positions) /\ worker.left # << >>
    BY <1>2 DEF Open, TypeOK
  <2>2. /\ Tail(worker.left) \in Seq(Positions)
        /\ Len(Tail(worker.left)) = Len(worker.left) - 1
        /\ \A i \in 1..Len(Tail(worker.left)) : Tail(worker.left)[i] = worker.left[i + 1]
    BY <2>1, HeadTailProperties
  <2>3. Len(worker.left) \in Nat \ {0} /\ DOMAIN worker.left = 1..Len(worker.left)
    BY <2>1, LenProperties, EmptySeq
  <2>4. DOMAIN Tail(worker.left) = 1..Len(Tail(worker.left))
    BY <2>2, LenProperties
  <2>5. p = worker.left[1]
    BY <2>1
  <2>6. p.sym \in SymbolsIn(book)
    BY <2>1, <2>3, <2>5 DEF LimitInv, OpenedAreTargets
  <2>7. OpenSymbols' \subseteq OpenSymbols \cup {p.sym}
    BY <1>2 DEF Open, OpenSymbols, TypeOK
  <2>8. OpenSymbols' \subseteq SymbolsIn(book)
    BY <2>1, <2>6, <2>7 DEF LimitInv, OpenedAreTargets
  <2>9. \A i \in DOMAIN Tail(worker.left) : Tail(worker.left)[i].sym \in SymbolsIn(book)
    <3>1. \A i \in 1..Len(Tail(worker.left)) : i + 1 \in 1..Len(worker.left)
      BY <2>2, <2>3
    <3> QED BY <2>1, <2>2, <2>3, <2>4, <3>1 DEF LimitInv, OpenedAreTargets
  <2>10. book \in Seq(Positions) /\ Len(book) <= MaxPositions
    <3>1. worker.task \in Tasks
      BY <2>1 DEF TypeOK
    <3> QED BY <3>1 DEF Tasks, ApprovedTargets
  <2>11. WithinPositionLimit'
    <3>1. Cardinality(OpenSymbols') <= Cardinality(SymbolsIn(book))
      BY <2>8, <2>10, SymbolsOfSequence, FS_Subset
    <3>2. Cardinality(SymbolsIn(book)) <= Len(book) /\ IsFiniteSet(SymbolsIn(book))
      BY <2>10, SymbolsOfSequence
    <3>3. /\ Cardinality(SymbolsIn(book)) \in Nat /\ Cardinality(OpenSymbols') \in Nat
          /\ Len(book) \in Nat
      BY <2>8, <2>10, <3>2, FS_Subset, FS_CardinalityType, LenProperties
    <3> QED BY <2>10, <3>1, <3>2, <3>3, CycleAssumption DEF WithinPositionLimit
  <2> QED BY <2>1, <2>8, <2>9, <2>11 DEF LimitInv, OpenedAreTargets
<1>3. Open \/ OpenSymbols' \subseteq OpenSymbols
  BY DEF Next, WorkerStep, vars, TypeOK, Begin, Fetched, Look, Enqueue, Fail,
         StopLoss, TakeProfit, CooldownEnds, Take, EndMark, BeginExecute, Skip, Finish,
         WorkerFails, Close, Restart, OpenSymbols
<1> QED BY <1>1, <1>2, <1>3

\* Once there is nothing else to close, only symbols of the target are open.
LEMMA ClosedIsCovered ==
  ASSUME worker.phase = "close", Others = {}
  PROVE  OpenSymbols \subseteq SymbolsIn(worker.task.target.positions)
BY DEF Others, InTarget, SymbolsIn

\* In the beginning nothing is open.
LEMMA InitLimited == Init => LimitInv
<1> SUFFICES ASSUME Init PROVE LimitInv
  OBVIOUS
<1>1. OpenSymbols = {}
  BY DEF Init, OpenSymbols
<1>2. Cardinality(OpenSymbols) = 0
  BY <1>1, FS_EmptySet
<1> QED BY <1>2, CycleAssumption DEF Init, Waiting, LimitInv, WithinPositionLimit, OpenedAreTargets

\* However its cycles overlap, fail and are lost in restarts, and whatever they decide, a
\* bot that is not scalping keeps to its mode's max_positions: it closes what is not in
\* the target before it opens what is.
THEOREM LimitCorrect ==
  ASSUME "scalping" \notin Modes
  PROVE  Spec => []WithinPositionLimit
<1>1. Init => LimitInv
  BY InitLimited
<1>2. TypeOK /\ LimitInv /\ [Next]_vars => LimitInv'
  <2>1. TypeOK /\ BeginExecute => worker.phase = "close" /\ Others = {}
    BY DEF BeginExecute, ClosesOthers, TypeOK, Tasks
  <2> QED BY <2>1, ClosedIsCovered, StepLimited
<1>3. LimitInv => WithinPositionLimit
  BY DEF LimitInv
<1> QED BY <1>1, <1>2, <1>3, TypeCorrect, PTL DEF Spec

-----------------------------------------------------------------------------
(* The cooldown *)

\* Without overlap, a cycle in progress is alone: nothing is queued, the worker waits and
\* no other cycle is under way.
OneAtATime ==
  \A c \in Slots :
    cycle[c].stage # "ended" =>
      /\ queue = << >>
      /\ worker.phase = "wait"
      /\ \A d \in Slots : cycle[d].stage # "ended" => d = c

\* So nothing is stopped out while the worker opens positions, and what it read of the
\* cooldowns covers those there are.
BlockedCovers == worker.phase = "open" => cooling \subseteq worker.blocked

\* Cycles that wait for all earlier work keep being alone.
LEMMA StepAlone ==
  ASSUME ~ Overlap, TypeOK, OneAtATime, [Next]_vars
  PROVE  OneAtATime'
<1>1. ASSUME NEW c \in Slots, Begin(c) PROVE OneAtATime'
  BY <1>1 DEF Begin, EverythingDone, OneAtATime, TypeOK
<1>2. ASSUME NEW c \in Slots, Fetched(c) PROVE OneAtATime'
  BY <1>2 DEF Fetched, OneAtATime, TypeOK
<1>3. ASSUME NEW c \in Slots, Look(c) PROVE OneAtATime'
  BY <1>3 DEF Look, OneAtATime, TypeOK, Cycles
<1>4. ASSUME NEW c \in Slots, Enqueue(c) PROVE OneAtATime'
  <2>1. cycle[c].stage # "ended"
    BY <1>4 DEF Enqueue
  <2>2. \A d \in Slots : d # c => cycle[d].stage = "ended" /\ cycle'[d] = cycle[d]
    BY <1>4, <2>1 DEF Enqueue, OneAtATime, TypeOK
  <2>3. cycle'[c].stage = "ended"
    BY <1>4 DEF Enqueue, TypeOK, Cycles
  <2> QED BY <2>2, <2>3 DEF OneAtATime
<1>5. ASSUME NEW c \in Slots, Fail(c) PROVE OneAtATime'
  BY <1>5 DEF Fail, OneAtATime, TypeOK, Cycles
<1>6. CASE Restart
  BY <1>6 DEF Restart, OneAtATime, TypeOK, Cycles
<1>7. CASE WorkerStep
  <2>1. queue # << >> \/ worker.phase # "wait"
    BY <1>7 DEF WorkerStep, Take, EndMark, BeginExecute, Open, Skip, Finish, WorkerFails, Close
  <2>2. \A c \in Slots : cycle[c].stage = "ended"
    BY <2>1 DEF OneAtATime
  <2>3. \A c \in Slots : cycle'[c].stage = cycle[c].stage
    BY <1>7 DEF WorkerStep, Take, EndMark, BeginExecute, Open, Skip, Finish, WorkerFails, Close,
                TypeOK, Cycles
  <2> QED BY <2>2, <2>3 DEF OneAtATime
<1>8. ASSUME NEW sym \in Symbols, StopLoss(sym) \/ TakeProfit(sym) \/ CooldownEnds(sym)
      PROVE OneAtATime'
  BY <1>8 DEF StopLoss, TakeProfit, CooldownEnds, OneAtATime
<1>9. CASE UNCHANGED vars
  BY <1>9 DEF vars, OneAtATime
<1> QED BY <1>1, <1>2, <1>3, <1>4, <1>5, <1>6, <1>7, <1>8, <1>9 DEF Next

\* As no mark runs beside the worker's execution, what it read of the cooldowns stays enough.
LEMMA StepCovers ==
  ASSUME TypeOK, OneAtATime, BlockedCovers, [Next]_vars
  PROVE  BlockedCovers'
<1>1. CASE BeginExecute
  BY <1>1 DEF BeginExecute, Blocked, BlockedCovers, TypeOK
<1>2. ASSUME NEW sym \in Symbols, StopLoss(sym) PROVE BlockedCovers'
  BY <1>2 DEF StopLoss, Marking, OneAtATime, BlockedCovers
<1>3. CASE Open \/ Skip
  BY <1>3 DEF Open, Skip, BlockedCovers, TypeOK
<1>4. CASE Take \/ EndMark \/ Finish \/ WorkerFails \/ Restart
  <2>1. CASE Take
    BY <2>1 DEF Take, Waiting, BlockedCovers
  <2>2. CASE EndMark
    BY <2>2 DEF EndMark, BlockedCovers, TypeOK
  <2>3. CASE Finish \/ WorkerFails \/ Restart
    BY <2>3 DEF Finish, WorkerFails, Restart, Waiting, BlockedCovers
  <2> QED BY <1>4, <2>1, <2>2, <2>3
<1>5. CASE UNCHANGED worker /\ cooling' \subseteq cooling
  BY <1>5 DEF BlockedCovers
<1>6. \/ BeginExecute \/ Open \/ Skip \/ Take \/ EndMark \/ Finish \/ WorkerFails \/ Restart
      \/ \E sym \in Symbols : StopLoss(sym)
      \/ UNCHANGED worker /\ cooling' \subseteq cooling
  BY DEF Next, WorkerStep, vars, Begin, Fetched, Look, Enqueue, Fail, TakeProfit,
         CooldownEnds, Close
<1> QED BY <1>1, <1>2, <1>3, <1>4, <1>5, <1>6

\* So no step opens a position on a symbol that cools down.
LEMMA StepLocks ==
  ASSUME TypeOK, BlockedCovers, [Next]_vars
  PROVE  [\A sym \in cooling : ~ (held[sym] = "FLAT" /\ held'[sym] # "FLAT")]_vars
<1>1. CASE Open
  <2>1. Head(worker.left).sym \notin cooling
    BY <1>1 DEF Open, BlockedCovers
  <2> QED BY <1>1, <2>1 DEF Open, TypeOK
<1>2. ASSUME NEW c \in Symbols, StopLoss(c) \/ TakeProfit(c) \/ Close(c)
      PROVE \A sym \in cooling : ~ (held[sym] = "FLAT" /\ held'[sym] # "FLAT")
  BY <1>2 DEF StopLoss, TakeProfit, Close, TypeOK
<1>3. CASE UNCHANGED held
  BY <1>3
<1>4. Open \/ UNCHANGED held \/ \E c \in Symbols : StopLoss(c) \/ TakeProfit(c) \/ Close(c)
  BY DEF Next, WorkerStep, vars, Begin, Fetched, Look, Enqueue, Fail, CooldownEnds, Take,
         EndMark, BeginExecute, Skip, Finish, WorkerFails, Restart
<1> QED BY <1>1, <1>2, <1>3, <1>4

\* A bot whose cycles wait for all earlier work never opens a position on a symbol that
\* cools down after a stop-loss, even if its target, made before the stop, has it.
THEOREM CooldownCorrect ==
  ASSUME ~ Overlap
  PROVE  Spec => StopLossLocks
<1>1. Init => OneAtATime /\ BlockedCovers
  BY DEF Init, OneAtATime, BlockedCovers, Waiting
<1>2. TypeOK /\ OneAtATime /\ [Next]_vars => OneAtATime'
  BY StepAlone
<1>3. TypeOK /\ OneAtATime /\ BlockedCovers /\ [Next]_vars => BlockedCovers'
  BY StepCovers
<1>4. TypeOK /\ BlockedCovers /\ [Next]_vars
        => [\A sym \in cooling : ~ (held[sym] = "FLAT" /\ held'[sym] # "FLAT")]_vars
  BY StepLocks
<1> QED BY <1>1, <1>2, <1>3, <1>4, TypeCorrect, PTL DEF Spec, StopLossLocks

-----------------------------------------------------------------------------
(* What a cycle saw *)

\* The target keeps what its cycle saw, unless that is asked to be closed; a scalping
\* bot's worker is told of it by a close reason.
Traced(task, seen) ==
  /\ seen \subseteq task.asked \cup SymbolsIn(task.target.positions)
  /\ \A i \in DOMAIN task.target.positions : task.target.positions[i].side = "LONG"
  /\ task.mode = "scalping" /\ task.target.reasons = {} => task.asked = {}

\* Until its target is executed a slot takes no other cycle, which would look again.
TasksTraced ==
  /\ \A c \in Slots : Pending(c) => cycle[c].stage = "ended"
  /\ \A c \in Slots : Cardinality(cycle[c].seen) <= MaxPositions
  /\ \A i \in DOMAIN queue : Traced(queue[i], cycle[queue[i].cycle].seen)
  /\ worker.phase # "wait" => Traced(worker.task, cycle[worker.task.cycle].seen)

\* The worker that waits is about no cycle, and works on a task of one.
LEMMA WorkerCycle ==
  ASSUME TypeOK
  PROVE  /\ worker.phase # "wait" => worker.task \in Tasks /\ worker.task.cycle \in Slots
         /\ worker.phase = "wait" => worker.task.cycle \notin Slots
         /\ Waiting.task.cycle \notin Slots
         /\ \A i \in DOMAIN queue : queue[i] \in Tasks /\ queue[i].cycle \in Slots
<1>1. NoTask.cycle = None /\ Waiting.task = NoTask
  BY DEF NoTask, Task, Waiting
<1>2. \A task \in Tasks : task.cycle \in Slots
  BY DEF Tasks
<1>3. \A i \in DOMAIN queue : queue[i] \in Tasks
  BY ElementOfSeq, LenProperties DEF TypeOK
<1> QED BY <1>1, <1>2, <1>3, CycleAssumption DEF TypeOK

\* Whatever a slot's next cycle sees, tasks stay traced to what theirs saw.
LEMMA StepTraced ==
  ASSUME KeepsRetained, TypeOK, WithinPositionLimit, TasksTraced, [Next]_vars
  PROVE  TasksTraced'
<1> DEFINE few(c) == Cardinality(c.seen) <= MaxPositions
<1>1. ASSUME UNCHANGED <<queue, worker>>, \A c \in Slots : few(cycle'[c]),
             \A c \in Slots : Pending(c) => /\ cycle'[c].stage = "ended"
                                            /\ cycle'[c].seen = cycle[c].seen
      PROVE  TasksTraced'
  <2>1. \A c \in Slots : Pending(c)' <=> Pending(c)
    BY <1>1 DEF Pending
  <2>2. \A i \in DOMAIN queue : Pending(queue[i].cycle)
    BY DEF Pending
  <2>3. Pending(worker.task.cycle)
    BY DEF Pending
  <2>4. \A c \in Slots : Pending(c)' => cycle'[c].stage = "ended"
    BY <1>1, <2>1
  <2>5. \A i \in DOMAIN queue : Traced(queue[i], cycle'[queue[i].cycle].seen)
    BY <1>1, <2>2, WorkerCycle DEF TasksTraced
  <2>6. worker.phase # "wait" => Traced(worker.task, cycle'[worker.task.cycle].seen)
    BY <1>1, <2>3, WorkerCycle DEF TasksTraced
  <2> QED BY <1>1, <2>4, <2>5, <2>6 DEF TasksTraced
<1>2. ASSUME \A c \in Slots : /\ cycle'[c].seen = cycle[c].seen
                              /\ Pending(c) => cycle'[c].stage = "ended",
             \A c \in Slots : Pending(c)' => Pending(c),
             \A i \in DOMAIN queue' : \E j \in DOMAIN queue : queue'[i] = queue[j],
             worker'.phase = "wait" \/ (worker.phase # "wait" /\ worker'.task = worker.task)
      PROVE  TasksTraced'
  <2>1. \A c \in Slots : Pending(c)' => cycle'[c].stage = "ended"
    BY <1>2
  <2>2. \A c \in Slots : Cardinality(cycle'[c].seen) <= MaxPositions
    BY <1>2 DEF TasksTraced
  <2>3. \A i \in DOMAIN queue' : Traced(queue'[i], cycle'[queue'[i].cycle].seen)
    <3> SUFFICES ASSUME NEW i \in DOMAIN queue'
                 PROVE  Traced(queue'[i], cycle'[queue'[i].cycle].seen)
      OBVIOUS
    <3>1. PICK j \in DOMAIN queue : queue'[i] = queue[j]
      BY <1>2
    <3>2. queue[j].cycle \in Slots
      BY WorkerCycle
    <3>3. cycle'[queue[j].cycle].seen = cycle[queue[j].cycle].seen
      BY <1>2, <3>2
    <3>4. Traced(queue[j], cycle[queue[j].cycle].seen)
      BY DEF TasksTraced
    <3> QED BY <3>1, <3>3, <3>4
  <2>4. worker'.phase # "wait" => Traced(worker'.task, cycle'[worker'.task.cycle].seen)
    <3> SUFFICES ASSUME worker'.phase # "wait"
                 PROVE  Traced(worker'.task, cycle'[worker'.task.cycle].seen)
      OBVIOUS
    <3>1. worker.phase # "wait" /\ worker'.task = worker.task
      BY <1>2
    <3>2. worker.task.cycle \in Slots
      BY <3>1, WorkerCycle
    <3>3. cycle'[worker.task.cycle].seen = cycle[worker.task.cycle].seen
      BY <1>2, <3>2
    <3>4. Traced(worker.task, cycle[worker.task.cycle].seen)
      BY <3>1 DEF TasksTraced
    <3> QED BY <3>1, <3>3, <3>4
  <2> QED BY <2>1, <2>2, <2>3, <2>4 DEF TasksTraced
<1>3. ASSUME NEW c \in Slots, Begin(c) PROVE TasksTraced'
  <2>1. Cardinality({}) = 0 /\ MaxPositions \in Nat
    BY FS_EmptySet, CycleAssumption
  <2>2. \A d \in Slots : cycle'[d] = IF d = c THEN [mode |-> cycle[c].mode, stage |-> "fetch",
                                          status |-> "RUNNING", seen |-> {}, cooled |-> {}]
                                     ELSE cycle[d]
    BY <1>3 DEF Begin, TypeOK
  <2>3. \A d \in Slots : few(cycle'[d])
    <3> SUFFICES ASSUME NEW d \in Slots
                 PROVE  few(cycle'[d])
      OBVIOUS
    <3>1. CASE d = c
      <4>1. cycle'[d].seen = {}
        BY <2>2, <3>1
      <4> QED BY <2>1, <4>1
    <3>2. CASE d # c
      <4>1. cycle'[d] = cycle[d]
        BY <2>2, <3>2
      <4> QED BY <4>1 DEF TasksTraced
    <3> QED BY <3>1, <3>2
  <2> QED BY <1>1, <1>3, <2>2, <2>3 DEF Begin, TasksTraced
<1>4. ASSUME NEW c \in Slots, Fetched(c) \/ Fail(c) PROVE TasksTraced'
  <2>1. ~ Pending(c)
    BY <1>4 DEF Fetched, Fail, InProgress, TasksTraced
  <2>2. \A d \in Slots : cycle'[d].seen = cycle[d].seen /\ (d # c => cycle'[d] = cycle[d])
    <3>1. CASE Fetched(c)
      BY <3>1 DEF Fetched, TypeOK, Cycles
    <3>2. CASE Fail(c)
      <4>1. [cycle[c] EXCEPT !.stage = "ended", !.status = "FAILED"].seen = cycle[c].seen
        BY DEF TypeOK, Cycles
      <4> QED BY <3>2, <4>1 DEF Fail, TypeOK
    <3> QED BY <1>4, <3>1, <3>2
  <2> QED BY <1>1, <1>4, <2>1, <2>2 DEF Fetched, Fail, TasksTraced
<1>5. ASSUME NEW c \in Slots, Look(c) PROVE TasksTraced'
  <2>1. ~ Pending(c)
    BY <1>5 DEF Look, TasksTraced
  <2>2. cycle'[c].seen = OpenSymbols /\ \A d \in Slots : d # c => cycle'[d] = cycle[d]
    BY <1>5 DEF Look, TypeOK, Cycles
  <2> QED BY <1>1, <1>5, <2>1, <2>2 DEF Look, TasksTraced, WithinPositionLimit
<1>6. ASSUME NEW c \in Slots, Enqueue(c) PROVE TasksTraced'
  <2> DEFINE now == cycle[c]
  <2>1. PICK outcome \in Entries[now.mode][now.seen][now.cooled] :
          queue' = Append(queue, Task(c, now.mode, outcome))
    BY <1>6 DEF Enqueue
  <2> DEFINE task == Task(c, now.mode, outcome)
  <2>2. Traced(task, now.seen)
    <3>1. /\ now.mode \in Modes /\ now.seen \in SUBSET Symbols /\ now.cooled \in SUBSET Symbols
          /\ Cardinality(now.seen) <= MaxPositions
      BY DEF TypeOK, Cycles, TasksTraced
    <3>2. /\ now.seen \subseteq outcome.asked \cup SymbolsIn(outcome.target.positions)
          /\ \A i \in DOMAIN outcome.target.positions : outcome.target.positions[i].side = "LONG"
          /\ now.mode = "scalping" /\ outcome.target.reasons = {} => outcome.asked = {}
      BY <3>1 DEF KeepsRetained
    <3>3. task.mode = now.mode /\ task.target = outcome.target /\ task.asked = outcome.asked
      BY DEF Task
    <3> QED BY <3>2, <3>3 DEF Traced
  <2>3. task.cycle = c
    BY DEF Task
  <2>4. /\ cycle'[c].stage = "ended" /\ \A d \in Slots : cycle'[d].seen = cycle[d].seen
        /\ \A d \in Slots : d # c => cycle'[d] = cycle[d]
    BY <1>6 DEF Enqueue, TypeOK, Cycles
  <2>5. \A i \in DOMAIN queue' : queue'[i] = task \/ (i \in DOMAIN queue /\ queue'[i] = queue[i])
    <3>1. Len(queue) \in Nat /\ DOMAIN queue = 1 .. Len(queue)
      BY LenProperties DEF TypeOK
    <3>2. /\ DOMAIN queue' = 1 .. Len(queue) + 1
          /\ \A i \in 1 .. Len(queue) + 1 :
               queue'[i] = IF i = Len(queue) + 1 THEN task ELSE queue[i]
      BY <2>1 DEF TypeOK
    <3> QED BY <3>1, <3>2
  <2>6. worker' = worker
    BY <1>6 DEF Enqueue
  <2>7. \A d \in Slots : d # c /\ Pending(d)' => Pending(d)
    BY <2>3, <2>5, <2>6 DEF Pending
  <2>8. \A d \in Slots : Pending(d)' => cycle'[d].stage = "ended"
    BY <2>4, <2>7 DEF TasksTraced
  <2>9. \A i \in DOMAIN queue' : Traced(queue'[i], cycle'[queue'[i].cycle].seen)
    <3> SUFFICES ASSUME NEW i \in DOMAIN queue'
                 PROVE Traced(queue'[i], cycle'[queue'[i].cycle].seen)
      OBVIOUS
    <3>1. CASE queue'[i] = task
      BY <2>2, <2>3, <2>4, <3>1
    <3>2. CASE i \in DOMAIN queue /\ queue'[i] = queue[i]
      BY <2>4, <3>2, WorkerCycle DEF TasksTraced
    <3> QED BY <2>5, <3>1, <3>2
  <2>10. worker'.phase # "wait" => Traced(worker'.task, cycle'[worker'.task.cycle].seen)
    BY <2>4, <2>6, WorkerCycle DEF TasksTraced
  <2> QED BY <2>4, <2>8, <2>9, <2>10 DEF TasksTraced
<1>7. CASE Take
  <2>1. queue \in Seq(Tasks) /\ queue # << >> /\ worker.phase = "wait"
    BY <1>7 DEF Take, TypeOK
  <2>2. /\ worker'.task = Head(queue) /\ queue' = Tail(queue) /\ cycle' = cycle
    BY <1>7 DEF Take, Waiting
  <2>3. 1 \in DOMAIN queue /\ Head(queue) = queue[1]
    BY <2>1, LenProperties, EmptySeq
  <2>4. \A i \in DOMAIN queue' : i + 1 \in DOMAIN queue /\ queue'[i] = queue[i + 1]
    <3>1. /\ Tail(queue) \in Seq(Tasks) /\ Len(Tail(queue)) = Len(queue) - 1
          /\ \A i \in 1 .. Len(Tail(queue)) : Tail(queue)[i] = queue[i + 1]
      BY <2>1, HeadTailProperties
    <3>2. Len(queue) \in Nat /\ DOMAIN queue = 1 .. Len(queue)
      BY <2>1, LenProperties
    <3>3. DOMAIN Tail(queue) = 1 .. Len(Tail(queue))
      BY <3>1, LenProperties
    <3> QED BY <2>2, <3>1, <3>2, <3>3
  <2>5. \A c \in Slots : Pending(c)' => Pending(c)
    BY <2>2, <2>3, <2>4 DEF Pending
  <2> QED BY <2>2, <2>3, <2>4, <2>5 DEF TasksTraced
<1>8. CASE EndMark \/ BeginExecute \/ Open \/ Skip \/ \E sym \in Symbols : Close(sym)
  <2>1. /\ worker.phase # "wait" /\ worker'.task = worker.task /\ queue' = queue /\ cycle' = cycle
    BY <1>8 DEF EndMark, BeginExecute, Open, Skip, Close, TypeOK
  <2>2. \A c \in Slots : Pending(c)' <=> Pending(c)
    BY <2>1 DEF Pending
  <2> QED BY <1>2, <2>1, <2>2 DEF TasksTraced
<1>9. CASE Finish \/ WorkerFails
  <2>1. queue' = queue /\ worker' = Waiting
    BY <1>9 DEF Finish, WorkerFails
  <2>2. \A c \in Slots : cycle'[c].seen = cycle[c].seen /\ cycle'[c].stage = cycle[c].stage
    BY <1>9 DEF Finish, WorkerFails, TypeOK, Cycles
  <2>3. \A c \in Slots : Pending(c)' => Pending(c)
    BY <2>1, WorkerCycle DEF Pending
  <2>4. worker'.phase = "wait"
    BY <2>1 DEF Waiting
  <2>5. \A c \in Slots : cycle'[c].seen = cycle[c].seen /\ (Pending(c) => cycle'[c].stage = "ended")
    BY <2>2 DEF TasksTraced
  <2>6. \A i \in DOMAIN queue' : \E j \in DOMAIN queue : queue'[i] = queue[j]
    BY <2>1
  <2> QED BY <1>2, <2>3, <2>4, <2>5, <2>6
<1>10. CASE Restart
  <2>1. queue' = << >> /\ worker' = Waiting
    BY <1>10 DEF Restart
  <2>2. \A c \in Slots : cycle'[c].seen = cycle[c].seen /\ cycle'[c].stage = "ended"
    BY <1>10 DEF Restart, TypeOK, Cycles
  <2>3. \A c \in Slots : ~ Pending(c)'
    BY <2>1, WorkerCycle DEF Pending
  <2>4. worker'.phase = "wait"
    BY <2>1 DEF Waiting
  <2> QED BY <2>1, <2>2, <2>3, <2>4 DEF TasksTraced
<1>11. ASSUME UNCHANGED <<cycle, queue, worker>> PROVE TasksTraced'
  BY <1>1, <1>11 DEF TasksTraced
<1>12. ASSUME NEW sym \in Symbols, StopLoss(sym) \/ TakeProfit(sym) \/ CooldownEnds(sym)
       PROVE TasksTraced'
  BY <1>11, <1>12 DEF StopLoss, TakeProfit, CooldownEnds
<1>13. CASE UNCHANGED vars
  BY <1>11, <1>13 DEF vars
<1> QED BY <1>3, <1>4, <1>5, <1>6, <1>7, <1>8, <1>9, <1>10, <1>12, <1>13 DEF Next, WorkerStep
\* What is opened are longs, and so is what is held.
OnlyLong ==
  /\ \A sym \in Symbols : held[sym] \in {"FLAT", "LONG"}
  /\ \A i \in DOMAIN worker.left : worker.left[i].side = "LONG"

\* The worker opens nothing but positions of traced targets.
LEMMA StepLong ==
  ASSUME TypeOK, TasksTraced, OnlyLong, [Next]_vars
  PROVE  OnlyLong'
<1>1. CASE BeginExecute
  <2>1. held' = held /\ worker'.left = worker.task.target.positions /\ worker.phase # "wait"
    BY <1>1 DEF BeginExecute, TypeOK
  <2> QED BY <2>1 DEF OnlyLong, TasksTraced, Traced
<1>2. CASE Open \/ Skip
  <2>1. worker.left \in Seq(Positions) /\ worker.left # << >> /\ worker'.left = Tail(worker.left)
    BY <1>2 DEF Open, Skip, TypeOK
  <2>2. /\ Tail(worker.left) \in Seq(Positions) /\ Len(Tail(worker.left)) = Len(worker.left) - 1
        /\ \A i \in 1 .. Len(Tail(worker.left)) : Tail(worker.left)[i] = worker.left[i + 1]
    BY <2>1, HeadTailProperties
  <2>3. Len(worker.left) \in Nat \ {0} /\ DOMAIN worker.left = 1 .. Len(worker.left)
    BY <2>1, LenProperties, EmptySeq
  <2>4. DOMAIN Tail(worker.left) = 1 .. Len(Tail(worker.left))
    BY <2>2, LenProperties
  <2>5. \A i \in DOMAIN worker'.left : worker'.left[i].side = "LONG"
    <3>1. \A i \in 1 .. Len(Tail(worker.left)) : i + 1 \in DOMAIN worker.left
      BY <2>2, <2>3
    <3> QED BY <2>1, <2>2, <2>4, <3>1 DEF OnlyLong
  <2>6. Head(worker.left) = worker.left[1] /\ 1 \in DOMAIN worker.left
    BY <2>1, <2>3
  <2>7. Head(worker.left).side = "LONG"
    BY <2>6 DEF OnlyLong
  <2>8. \A sym \in Symbols : held'[sym] \in {"FLAT", "LONG"}
    BY <1>2, <2>7 DEF Open, Skip, OnlyLong, TypeOK
  <2> QED BY <2>5, <2>8 DEF OnlyLong
<1>3. CASE Take \/ Finish \/ WorkerFails \/ Restart
  <2>1. /\ held' = held
        /\ \/ worker' = Waiting
           \/ worker' = [Waiting EXCEPT !.phase = "mark", !.task = Head(queue)]
    BY <1>3 DEF Take, Finish, WorkerFails, Restart
  <2>2. worker'.left = << >>
    <3>1. CASE worker' = Waiting
      BY <3>1 DEF Waiting
    <3>2. CASE worker' = [Waiting EXCEPT !.phase = "mark", !.task = Head(queue)]
      BY <3>2 DEF Waiting
    <3> QED BY <2>1, <3>1, <3>2
  <2> QED BY <2>1, <2>2 DEF OnlyLong
<1>4. CASE EndMark
  BY <1>4 DEF EndMark, OnlyLong, TypeOK
<1>5. ASSUME NEW sym \in Symbols, StopLoss(sym) \/ TakeProfit(sym) \/ Close(sym)
      PROVE OnlyLong'
  BY <1>5 DEF StopLoss, TakeProfit, Close, OnlyLong, TypeOK
<1>6. CASE UNCHANGED <<held, worker>>
  BY <1>6 DEF OnlyLong
<1>7. \/ BeginExecute \/ Open \/ Skip \/ Take \/ Finish \/ WorkerFails \/ Restart \/ EndMark
      \/ \E sym \in Symbols : StopLoss(sym) \/ TakeProfit(sym) \/ Close(sym)
      \/ UNCHANGED <<held, worker>>
  BY DEF Next, WorkerStep, vars, Begin, Fetched, Look, Enqueue, Fail, CooldownEnds
<1> QED BY <1>1, <1>2, <1>3, <1>4, <1>5, <1>6, <1>7

\* The worker closes nothing that the target keeps, so of what the cycle saw only what it
\* was asked to close.
LEMMA CloseIsAsked ==
  ASSUME TypeOK, TasksTraced, OnlyLong,
         NEW sym \in Symbols, Close(sym), sym \in cycle[worker.task.cycle].seen
  PROVE  sym \in worker.task.asked
<1> DEFINE book == worker.task.target.positions
<1>1. worker.phase # "wait" /\ sym \in OpenSymbols /\ ~ InTarget(sym, book)
  BY DEF Close, Others
<1>2. held[sym] = "LONG"
  BY <1>1 DEF OpenSymbols, OnlyLong
<1>3. Traced(worker.task, cycle[worker.task.cycle].seen)
  BY <1>1 DEF TasksTraced
<1>4. sym \notin SymbolsIn(book)
  BY <1>1, <1>2, <1>3 DEF Traced, SymbolsIn, InTarget
<1> QED BY <1>3, <1>4 DEF Traced

\* In the beginning no cycle has looked and nothing waits or is open.
LEMMA InitTraced == Init => TasksTraced /\ OnlyLong
<1> SUFFICES ASSUME Init PROVE TasksTraced /\ OnlyLong
  OBVIOUS
<1>1. \A c \in Slots : cycle[c].stage = "ended" /\ cycle[c].seen = {}
  BY DEF Init
<1>2. Cardinality({}) = 0 /\ MaxPositions \in Nat
  BY FS_EmptySet, CycleAssumption
<1>3. queue = << >> /\ worker.phase = "wait" /\ worker.left = << >>
  BY DEF Init, Waiting
<1>4. \A sym \in Symbols : held[sym] = "FLAT"
  BY DEF Init
<1>5. \A c \in Slots : Cardinality(cycle[c].seen) <= MaxPositions
  BY <1>1, <1>2
<1>6. TasksTraced
  BY <1>1, <1>3, <1>5 DEF TasksTraced
<1> QED BY <1>3, <1>4, <1>6 DEF OnlyLong

\* However cycles overlap, stop-losses strike and processes restart between a cycle's look
\* and the execution of its target: of the positions it saw, execute_target_portfolio's
\* caller closes only those that were decided to be closed or replaced.
THEOREM RetainedCorrect ==
  ASSUME "scalping" \notin Modes, KeepsRetained
  PROVE  Spec => RetainedStay
<1>1. TypeOK /\ WithinPositionLimit /\ TasksTraced /\ [Next]_vars => TasksTraced'
  BY StepTraced
<1>2. TypeOK /\ TasksTraced /\ OnlyLong /\ [Next]_vars => OnlyLong'
  BY StepLong
<1>3. TypeOK /\ TasksTraced /\ OnlyLong =>
        [\A sym \in Symbols : Close(sym) /\ sym \in cycle[worker.task.cycle].seen
                                => sym \in worker.task.asked]_vars
  BY CloseIsAsked
<1> QED BY <1>1, <1>2, <1>3, InitTraced, TypeCorrect, LimitCorrect, PTL DEF Spec, RetainedStay

-----------------------------------------------------------------------------
(* Cycles that do not overlap *)

\* What is open when the worker begins with a task was open when its cycle looked: there
\* is one task at a time, and only the worker opens positions.
SeenCovers ==
  /\ \A c \in Slots : cycle[c].stage = "decide" => OpenSymbols \subseteq cycle[c].seen
  /\ Len(queue) <= 1
  /\ worker.phase # "wait" => queue = << >>
  /\ \A i \in DOMAIN queue : OpenSymbols \subseteq cycle[queue[i].cycle].seen
  /\ worker.phase \in {"mark", "close"} => OpenSymbols \subseteq cycle[worker.task.cycle].seen

\* Every step of a bot whose cycles wait for all earlier work keeps that.
LEMMA StepSeen ==
  ASSUME ~ Overlap, TypeOK, OneAtATime, SeenCovers, [Next]_vars
  PROVE  SeenCovers'
<1> USE WorkerCycle
<1>1. CASE Open
  <2>1. /\ worker.phase = "open" /\ worker'.phase = "open" /\ queue' = queue /\ cycle' = cycle
    BY <1>1 DEF Open, TypeOK
  <2>2. queue = << >> /\ \A c \in Slots : cycle[c].stage = "ended"
    BY <2>1 DEF SeenCovers, OneAtATime
  <2> QED BY <2>1, <2>2 DEF SeenCovers
<1>2. OpenSymbols' \subseteq OpenSymbols \/ Open
  BY DEF Next, WorkerStep, vars, TypeOK, Begin, Fetched, Look, Enqueue, Fail,
         StopLoss, TakeProfit, CooldownEnds, Take, EndMark, BeginExecute, Skip, Finish,
         WorkerFails, Close, Restart, OpenSymbols
<1>3. ASSUME OpenSymbols' \subseteq OpenSymbols, UNCHANGED queue,
             \A c \in Slots : /\ cycle'[c].seen = cycle[c].seen
                              /\ cycle'[c].stage = "decide" => cycle[c].stage = "decide",
             worker'.phase = "wait" \/ (worker.phase # "wait" /\ worker'.task = worker.task),
             worker'.phase \in {"mark", "close"} => worker.phase \in {"mark", "close"}
      PROVE  SeenCovers'
  BY <1>3 DEF SeenCovers
<1>4. ASSUME queue = << >>, worker.phase = "wait", UNCHANGED <<queue, worker>>,
             \A c \in Slots : cycle'[c].stage = "decide" => OpenSymbols' \subseteq cycle'[c].seen
      PROVE  SeenCovers'
  BY <1>4 DEF SeenCovers
<1>5. ASSUME NEW c \in Slots, Begin(c) PROVE SeenCovers'
  <2>1. queue = << >> /\ worker.phase = "wait" /\ UNCHANGED <<queue, worker, held>>
    BY <1>5 DEF Begin, EverythingDone
  <2>2. \A d \in Slots : cycle'[d].stage # "decide"
    BY <1>5 DEF Begin, EverythingDone, TypeOK
  <2> QED BY <1>4, <2>1, <2>2
<1>6. ASSUME NEW c \in Slots, Fetched(c) \/ Look(c) \/ Fail(c) PROVE SeenCovers'
  <2>1. cycle[c].stage # "ended" /\ UNCHANGED <<queue, worker, held>>
    BY <1>6 DEF Fetched, Look, Fail, InProgress
  <2>2. queue = << >> /\ worker.phase = "wait" /\ \A d \in Slots : d # c => cycle[d].stage = "ended"
    BY <2>1 DEF OneAtATime
  <2>3. OpenSymbols' = OpenSymbols
    BY <2>1 DEF OpenSymbols
  <2>4. \A d \in Slots : d # c => cycle'[d] = cycle[d]
    BY <1>6 DEF Fetched, Look, Fail, TypeOK
  <2>5. cycle'[c].stage = "decide" => cycle'[c].seen = OpenSymbols
    <3>1. CASE Fetched(c)
      BY <3>1 DEF Fetched, TypeOK, Cycles
    <3>2. CASE Look(c)
      BY <3>2 DEF Look, TypeOK, Cycles
    <3>3. CASE Fail(c)
      <4>1. [cycle[c] EXCEPT !.stage = "ended", !.status = "FAILED"].stage = "ended"
        BY DEF TypeOK, Cycles
      <4> QED BY <3>3, <4>1 DEF Fail, TypeOK
    <3> QED BY <1>6, <3>1, <3>2, <3>3
  <2>6. \A d \in Slots : cycle'[d].stage = "decide" => OpenSymbols' \subseteq cycle'[d].seen
    BY <2>2, <2>3, <2>4, <2>5
  <2> QED BY <1>4, <2>1, <2>2, <2>6
<1>7. ASSUME NEW c \in Slots, Enqueue(c) PROVE SeenCovers'
  <2>1. cycle[c].stage = "decide" /\ UNCHANGED <<worker, held>>
    BY <1>7 DEF Enqueue
  <2>2. queue = << >> /\ worker.phase = "wait" /\ \A d \in Slots : d # c => cycle[d].stage = "ended"
    BY <2>1 DEF OneAtATime
  <2>3. PICK outcome \in Entries[cycle[c].mode][cycle[c].seen][cycle[c].cooled] :
          queue' = Append(queue, Task(c, cycle[c].mode, outcome))
    BY <1>7 DEF Enqueue
  <2>4. queue' = <<Task(c, cycle[c].mode, outcome)>>
    BY <2>2, <2>3
  <2>5. Len(queue') = 1 /\ \A i \in DOMAIN queue' : queue'[i].cycle = c
    BY <2>4 DEF Task
  <2>6. /\ cycle'[c].stage = "ended" /\ cycle'[c].seen = cycle[c].seen
        /\ \A d \in Slots : d # c => cycle'[d] = cycle[d]
    BY <1>7 DEF Enqueue, TypeOK, Cycles
  <2>7. OpenSymbols' = OpenSymbols
    BY <2>1 DEF OpenSymbols
  <2>8. \A d \in Slots : cycle'[d].stage # "decide"
    BY <2>2, <2>6
  <2>9. \A i \in DOMAIN queue' : OpenSymbols' \subseteq cycle'[queue'[i].cycle].seen
    BY <2>1, <2>5, <2>6, <2>7 DEF SeenCovers
  <2>10. worker'.phase = "wait"
    BY <2>1, <2>2
  <2> QED BY <2>5, <2>8, <2>9, <2>10 DEF SeenCovers
<1>8. CASE Take
  <2>1. queue \in Seq(Tasks) /\ queue # << >>
    BY <1>8 DEF Take, TypeOK
  <2>2. Len(queue) = 1 /\ DOMAIN queue = 1 .. Len(queue)
    <3>1. Len(queue) \in Nat /\ DOMAIN queue = 1 .. Len(queue)
      BY <2>1, LenProperties
    <3>2. Len(queue) # 0
      BY <2>1, EmptySeq
    <3> QED BY <3>1, <3>2 DEF SeenCovers
  <2>3. queue' = << >> /\ Head(queue) = queue[1]
    <3>1. Tail(queue) \in Seq(Tasks) /\ Len(Tail(queue)) = 0
      BY <2>1, <2>2, HeadTailProperties
    <3> QED BY <1>8, <2>1, <3>1, EmptySeq DEF Take
  <2>4. worker'.task = queue[1] /\ UNCHANGED <<held, cycle>>
    BY <1>8, <2>3 DEF Take, Waiting
  <2>5. OpenSymbols' = OpenSymbols
    BY <2>4 DEF OpenSymbols
  <2>6. OpenSymbols \subseteq cycle[queue[1].cycle].seen
    BY <2>2 DEF SeenCovers
  <2> QED BY <2>3, <2>4, <2>5, <2>6 DEF SeenCovers
<1>9. CASE EndMark \/ BeginExecute \/ Skip \/ \E sym \in Symbols : Close(sym)
  <2>1. /\ worker.phase # "wait" /\ worker'.task = worker.task
        /\ worker'.phase \in {"mark", "close"} => worker.phase \in {"mark", "close"}
        /\ UNCHANGED <<queue, cycle>>
    BY <1>9 DEF EndMark, BeginExecute, Skip, Close, TypeOK
  <2>2. OpenSymbols' \subseteq OpenSymbols
    BY <1>9 DEF EndMark, BeginExecute, Skip, Close, TypeOK, OpenSymbols
  <2> QED BY <1>3, <2>1, <2>2
<1>10. CASE Finish \/ WorkerFails
  <2>1. UNCHANGED <<queue, held>> /\ worker'.phase = "wait"
    BY <1>10 DEF Finish, WorkerFails, Waiting
  <2>2. \A c \in Slots : cycle'[c].seen = cycle[c].seen /\ cycle'[c].stage = cycle[c].stage
    BY <1>10 DEF Finish, WorkerFails, TypeOK, Cycles
  <2>3. OpenSymbols' = OpenSymbols
    BY <2>1 DEF OpenSymbols
  <2> QED BY <1>3, <2>1, <2>2, <2>3
<1>11. CASE Restart
  <2>1. queue' = << >> /\ worker'.phase = "wait"
    BY <1>11 DEF Restart, Waiting
  <2>2. \A c \in Slots : cycle'[c].stage = "ended"
    BY <1>11 DEF Restart, TypeOK, Cycles
  <2> QED BY <2>1, <2>2 DEF SeenCovers
<1>12. ASSUME UNCHANGED <<cycle, queue, worker>>, OpenSymbols' \subseteq OpenSymbols
       PROVE SeenCovers'
  BY <1>12 DEF SeenCovers
<1>13. ASSUME NEW sym \in Symbols, StopLoss(sym) \/ TakeProfit(sym) \/ CooldownEnds(sym)
       PROVE SeenCovers'
  <2>1. OpenSymbols' \subseteq OpenSymbols
    BY <1>13 DEF StopLoss, TakeProfit, CooldownEnds, OpenSymbols, TypeOK
  <2> QED BY <1>12, <1>13, <2>1 DEF StopLoss, TakeProfit, CooldownEnds
<1>14. CASE UNCHANGED vars
  <2>1. OpenSymbols' = OpenSymbols
    BY <1>14 DEF vars, OpenSymbols
  <2> QED BY <1>12, <1>14, <2>1 DEF vars
<1> QED BY <1>1, <1>5, <1>6, <1>7, <1>8, <1>9, <1>10, <1>11, <1>13, <1>14 DEF Next, WorkerStep

\* A scalping bot's worker closes nothing unless there is a close reason, and then its
\* target covers what is open as well.
LEMMA ExecutedIsCovered ==
  ASSUME TypeOK, TasksTraced, SeenCovers, BeginExecute
  PROVE  OpenSymbols \subseteq SymbolsIn(worker.task.target.positions)
<1>1. CASE worker.phase = "close" /\ Others = {}
  BY <1>1, ClosedIsCovered
<1>2. CASE worker.phase = "mark" /\ ~ ClosesOthers(worker.task)
  <2>1. Traced(worker.task, cycle[worker.task.cycle].seen)
    BY <1>2 DEF TasksTraced
  <2>2. worker.task.asked = {}
    BY <1>2, <2>1 DEF Traced, ClosesOthers
  <2>3. OpenSymbols \subseteq cycle[worker.task.cycle].seen
    BY <1>2 DEF SeenCovers
  <2> QED BY <2>1, <2>2, <2>3 DEF Traced
<1> QED BY <1>1, <1>2 DEF BeginExecute

SerialInv == TypeOK /\ OneAtATime /\ LimitInv /\ TasksTraced /\ OnlyLong /\ SeenCovers

\* The parts support each other, so they are kept together.
LEMMA SerialInvCorrect ==
  ASSUME ~ Overlap, KeepsRetained
  PROVE  Spec => []SerialInv
<1>1. Init => SerialInv
  <2>1. Init => OneAtATime /\ SeenCovers
    <3> SUFFICES ASSUME Init PROVE OneAtATime /\ SeenCovers
      OBVIOUS
    <3>1. queue = << >> /\ worker.phase = "wait" /\ \A c \in Slots : cycle[c].stage = "ended"
      BY DEF Init, Waiting
    <3> QED BY <3>1 DEF OneAtATime, SeenCovers
  <2> QED BY <2>1, InitTyped, InitLimited, InitTraced DEF SerialInv
<1>2. SerialInv /\ [Next]_vars => SerialInv'
  <2> SUFFICES ASSUME SerialInv, [Next]_vars PROVE SerialInv'
    OBVIOUS
  <2>1. TypeOK /\ OneAtATime /\ LimitInv /\ TasksTraced /\ OnlyLong /\ SeenCovers
    BY DEF SerialInv
  <2>2. TypeOK'
    BY <2>1, StepTyped
  <2>3. OneAtATime'
    BY <2>1, StepAlone
  <2>4. LimitInv'
    BY <2>1, ExecutedIsCovered, StepLimited
  <2>5. TasksTraced'
    BY <2>1, StepTraced DEF LimitInv
  <2>6. OnlyLong'
    BY <2>1, StepLong
  <2>7. SeenCovers'
    BY <2>1, StepSeen
  <2> QED BY <2>2, <2>3, <2>4, <2>5, <2>6, <2>7 DEF SerialInv
<1> QED BY <1>1, <1>2, PTL DEF Spec

\* If cycles do not overlap, scalping bots keep to max_positions as well, although their
\* worker closes nothing before it opens.
THEOREM SerialLimitCorrect ==
  ASSUME ~ Overlap, KeepsRetained
  PROVE  Spec => []WithinPositionLimit
<1>1. SerialInv => WithinPositionLimit
  BY DEF SerialInv, LimitInv
<1> QED BY <1>1, SerialInvCorrect, PTL

\* If cycles do not overlap, the worker closes nothing but what the strategy decided to
\* close or the engine to replace, whatever fails or is stopped out in between.
THEOREM AskedCorrect ==
  ASSUME ~ Overlap, KeepsRetained
  PROVE  Spec => OnlyAskedClosed
<1>1. SerialInv => [\A sym \in Symbols : Close(sym) => sym \in worker.task.asked]_vars
  <2> SUFFICES ASSUME SerialInv, NEW sym \in Symbols, Close(sym)
               PROVE  sym \in worker.task.asked
    OBVIOUS
  <2>1. sym \in cycle[worker.task.cycle].seen
    BY DEF SerialInv, SeenCovers, Close, Others
  <2> QED BY <2>1, CloseIsAsked DEF SerialInv
<1> QED BY <1>1, SerialInvCorrect, PTL DEF Spec, OnlyAskedClosed

-----------------------------------------------------------------------------
(* The queue moves on *)

\* The worker's steps on one task at most: to mark, to close, to open, to end.
Longest == 3 + MaxPositions + Cardinality(Symbols)

\* The steps that the worker has left on the task it has.
WorkLeft ==
  CASE worker.phase = "mark" -> Longest
    [] worker.phase = "close" -> 2 + MaxPositions + Cardinality(OpenSymbols)
    [] worker.phase = "open" -> 1 + Len(worker.left)
    [] OTHER -> 0

\* The steps of the worker until the i-th task in the queue is let go.
StepsBefore(i) == WorkLeft + i * (Longest + 1)

\* What the worker has left is a number.
LEMMA WorkTyped ==
  ASSUME TypeOK
  PROVE  /\ Longest \in Nat /\ MaxPositions \in Nat /\ WorkLeft \in Nat
         /\ Cardinality(Symbols) \in Nat /\ IsFiniteSet(OpenSymbols)
         /\ Cardinality(OpenSymbols) \in 0 .. Cardinality(Symbols)
         /\ Len(worker.left) \in Nat
<1>1. MaxPositions \in Nat /\ IsFiniteSet(Symbols)
  BY CycleAssumption
<1>2. Cardinality(Symbols) \in Nat
  BY <1>1, FS_CardinalityType
<1>3. IsFiniteSet(OpenSymbols) /\ Cardinality(OpenSymbols) <= Cardinality(Symbols)
  BY <1>1, FS_Subset DEF OpenSymbols
<1>4. Cardinality(OpenSymbols) \in Nat
  BY <1>3, FS_CardinalityType
<1>5. Len(worker.left) \in Nat
  BY LenProperties DEF TypeOK
<1> QED
  BY <1>1, <1>2, <1>3, <1>4, <1>5 DEF Longest, WorkLeft

\* The worker takes the first task that waits.
Takes ==
  /\ WorkLeft = 0
  /\ queue # << >>
  /\ queue' = Tail(queue)
  /\ worker'.task = Head(queue)
  /\ WorkLeft' = Longest

\* It goes on with the one it has.
GoesOn == WorkLeft' \in 0 .. WorkLeft - 1 /\ UNCHANGED queue

\* A position that is closed is one less to close (Close, StopLoss and TakeProfit).
LEMMA OneCloses ==
  ASSUME TypeOK, NEW sym \in Symbols, sym \in OpenSymbols, held' = [held EXCEPT ![sym] = "FLAT"]
  PROVE  Cardinality(OpenSymbols') = Cardinality(OpenSymbols) - 1
<1>1. OpenSymbols' = OpenSymbols \ {sym}
  BY DEF TypeOK, OpenSymbols, Sides
<1> QED
  BY <1>1, WorkTyped, FS_RemoveElement

\* Each step of the worker's loop and of the execution of a task leaves it less to do.
LEMMA WorkerGoes == TypeOK /\ WorkerStep => Takes \/ GoesOn
<1> SUFFICES ASSUME TypeOK, WorkerStep PROVE Takes \/ GoesOn
  OBVIOUS
<1>0. /\ Longest \in Nat /\ MaxPositions \in Nat /\ WorkLeft \in Nat
      /\ Cardinality(Symbols) \in Nat /\ IsFiniteSet(OpenSymbols)
      /\ Cardinality(OpenSymbols) \in 0 .. Cardinality(Symbols)
      /\ Len(worker.left) \in Nat
  BY WorkTyped
<1>1. CASE Take
  BY <1>1 DEF Take, Takes, WorkLeft, Waiting, Longest
<1>2. CASE EndMark
  <2>1. worker.phase = "mark" /\ worker'.phase = "close" /\ OpenSymbols' = OpenSymbols
    BY <1>2 DEF EndMark, TypeOK, OpenSymbols
  <2>2. WorkLeft = Longest /\ WorkLeft' = 2 + MaxPositions + Cardinality(OpenSymbols)
    BY <2>1 DEF WorkLeft
  <2> QED
    BY <1>0, <1>2, <2>2 DEF GoesOn, Longest, EndMark
<1>3. CASE BeginExecute
  <2>1. worker.phase \in {"close", "mark"} /\ worker.task \in Tasks
    BY <1>3 DEF BeginExecute, TypeOK
  <2>2. worker.task.target.positions \in Seq(Positions)
        /\ Len(worker.task.target.positions) <= MaxPositions
    BY <2>1 DEF Tasks, ApprovedTargets
  <2>3. worker'.phase = "open" /\ worker'.left = worker.task.target.positions
    BY <1>3 DEF BeginExecute, TypeOK
  <2>4. WorkLeft' = 1 + Len(worker.task.target.positions)
    BY <2>3 DEF WorkLeft
  <2>5. Len(worker.task.target.positions) \in Nat
    BY <2>2, LenProperties
  <2>6. WorkLeft = Longest \/ WorkLeft = 2 + MaxPositions + Cardinality(OpenSymbols)
    BY <2>1 DEF WorkLeft
  <2>7. UNCHANGED queue
    BY <1>3 DEF BeginExecute
  <2>8. WorkLeft' \in 0 .. WorkLeft - 1
    <3> DEFINE len == Len(worker.task.target.positions)
    <3>1. len \in 0 .. MaxPositions /\ WorkLeft' = 1 + len
      BY <1>0, <2>2, <2>4, <2>5
    <3> HIDE DEF len
    <3>2. WorkLeft >= 2 + MaxPositions
      BY <1>0, <2>6 DEF Longest
    <3> QED
      BY ONLY <1>0, <3>1, <3>2
  <2> QED
    BY <2>7, <2>8 DEF GoesOn
<1>4. CASE Open \/ Skip
  <2>1. worker.left # << >> /\ worker.left \in Seq(Positions)
    BY <1>4 DEF Open, Skip, TypeOK
  <2>2. worker.phase = "open" /\ worker'.phase = "open" /\ worker'.left = Tail(worker.left)
    BY <1>4 DEF Open, Skip, TypeOK
  <2>3. Len(Tail(worker.left)) = Len(worker.left) - 1
    BY <2>1, HeadTailProperties
  <2> QED
    BY <1>0, <1>4, <2>2, <2>3 DEF GoesOn, WorkLeft, Open, Skip
<1>5. CASE Finish \/ WorkerFails
  <2>1. worker.phase \in {"mark", "close", "open"} /\ worker'.phase = "wait" /\ queue' = queue
    BY <1>5 DEF Finish, WorkerFails, Waiting, TypeOK, Phases
  <2>2. WorkLeft > 0
    BY <1>0, <2>1 DEF WorkLeft, Longest
  <2>3. WorkLeft' = 0
    BY <2>1 DEF WorkLeft
  <2> QED
    BY <1>0, <2>1, <2>2, <2>3 DEF GoesOn
<1>6. ASSUME NEW sym \in Symbols, Close(sym) PROVE GoesOn
  <2>1. sym \in OpenSymbols
    BY <1>6 DEF Close, Others
  <2>2. Cardinality(OpenSymbols') = Cardinality(OpenSymbols) - 1
    BY <1>6, <2>1, OneCloses DEF Close
  <2>3. worker.phase = "close" /\ worker' = worker
    BY <1>6 DEF Close
  <2>4. WorkLeft = 2 + MaxPositions + Cardinality(OpenSymbols)
        /\ WorkLeft' = 2 + MaxPositions + Cardinality(OpenSymbols')
    BY <2>3 DEF WorkLeft
  <2> QED
    BY <1>0, <1>6, <2>2, <2>4 DEF GoesOn, Close
<1> QED
  BY <1>1, <1>2, <1>3, <1>4, <1>5, <1>6 DEF WorkerStep

\* Cycles, marks and cooldowns give the worker nothing more to do on the task it has, and
\* queue behind what waits.
HoldsNobodyUp ==
  /\ WorkLeft' \in 0 .. WorkLeft
  /\ worker' = worker
  /\ queue' = queue \/ \E task \in Tasks : queue' = Append(queue, task)

\* What the others do while the worker executes (run_cycle, mark_to_market, the queue's put).
LEMMA OthersHoldNobodyUp ==
  TypeOK /\ [Next]_vars => WorkerStep \/ Restart \/ HoldsNobodyUp
<1> SUFFICES ASSUME TypeOK, [Next]_vars, ~ WorkerStep, ~ Restart PROVE HoldsNobodyUp
  OBVIOUS
<1>0. /\ Longest \in Nat /\ MaxPositions \in Nat /\ WorkLeft \in Nat
      /\ Cardinality(OpenSymbols) \in Nat /\ Len(worker.left) \in Nat
  BY WorkTyped
<1>1. ASSUME UNCHANGED <<held, worker>> PROVE WorkLeft' = WorkLeft
  BY <1>1 DEF WorkLeft, OpenSymbols
<1>2. ASSUME NEW c \in Slots, Begin(c) \/ Fetched(c) \/ Look(c) \/ Fail(c) PROVE HoldsNobodyUp
  BY <1>0, <1>1, <1>2 DEF HoldsNobodyUp, Begin, Fetched, Look, Fail
<1>3. ASSUME NEW c \in Slots, Enqueue(c) PROVE HoldsNobodyUp
  <2>1. PICK outcome \in Entries[cycle[c].mode][cycle[c].seen][cycle[c].cooled] :
          queue' = Append(queue, Task(c, cycle[c].mode, outcome))
    BY <1>3 DEF Enqueue
  <2>2. /\ cycle[c].mode \in Modes
        /\ cycle[c].seen \in SUBSET Symbols /\ cycle[c].cooled \in SUBSET Symbols
    BY DEF TypeOK, Cycles
  <2>3. outcome \in Outcomes
    BY <2>1, <2>2, CycleAssumption
  <2>4. Task(c, cycle[c].mode, outcome) \in Tasks
    BY <2>2, <2>3 DEF Outcomes, Tasks, Task
  <2> QED
    BY <1>0, <1>1, <1>3, <2>1, <2>4 DEF HoldsNobodyUp, Enqueue
<1>4. ASSUME NEW sym \in Symbols, StopLoss(sym) \/ TakeProfit(sym) PROVE HoldsNobodyUp
  <2>1. sym \in OpenSymbols /\ held' = [held EXCEPT ![sym] = "FLAT"] /\ UNCHANGED <<worker, queue>>
    BY <1>4 DEF StopLoss, TakeProfit, OpenSymbols
  <2>2. Cardinality(OpenSymbols') = Cardinality(OpenSymbols) - 1
    BY <2>1, OneCloses
  <2>3. WorkLeft' \in 0 .. WorkLeft
    BY <1>0, <2>1, <2>2 DEF WorkLeft, Longest
  <2> QED
    BY <2>1, <2>3 DEF HoldsNobodyUp
<1>5. ASSUME NEW sym \in Symbols, CooldownEnds(sym) PROVE HoldsNobodyUp
  BY <1>0, <1>1, <1>5 DEF HoldsNobodyUp, CooldownEnds
<1>6. CASE UNCHANGED vars
  BY <1>0, <1>1, <1>6 DEF HoldsNobodyUp, vars
<1> QED
  BY <1>2, <1>3, <1>4, <1>5, <1>6 DEF Next

\* A step of the worker brings the i-th task that waits a step nearer to its end.
Approaches(i) ==
  \/ queue' = queue /\ StepsBefore(i)' < StepsBefore(i)
  \/ i > 1 /\ queue'[i - 1] = queue[i] /\ StepsBefore(i - 1)' < StepsBefore(i)
  \/ i = 1 /\ worker'.task = queue[i] /\ WorkLeft' < StepsBefore(i)

\* A place of the queue is Longest + 1 steps long.
LEMMA PlaceIs ==
  ASSUME NEW i \in Nat \ {0}, NEW n \in Nat
  PROVE  (i - 1) * n = i * n - n /\ i * n \in Nat /\ (i - 1) * n \in Nat /\ 1 * n = n
OBVIOUS

\* Of every task in the queue: it moves up when the worker takes the first one.
LEMMA QueueMoves ==
  ASSUME TypeOK, Takes \/ GoesOn, NEW i \in 1 .. Len(queue)
  PROVE  Approaches(i)
<1>1. Longest \in Nat /\ WorkLeft \in Nat /\ Longest' = Longest
  BY WorkTyped DEF Longest
<1>2. queue \in Seq(Tasks) /\ Len(queue) \in Nat /\ i \in Nat \ {0}
  BY LenProperties DEF TypeOK
<1> DEFINE n == Longest + 1
<1>3. /\ (i - 1) * n = i * n - n
      /\ i * n \in Nat /\ (i - 1) * n \in Nat /\ 1 * n = n
  <2>1. n \in Nat
    BY <1>1
  <2> HIDE DEF n
  <2> QED
    BY <1>2, <2>1, PlaceIs
<1>4. /\ StepsBefore(i) = WorkLeft + i * n
      /\ StepsBefore(i)' = WorkLeft' + i * n
      /\ StepsBefore(i - 1)' = WorkLeft' + (i - 1) * n
  BY <1>1 DEF StepsBefore
<1>5. n \in Nat /\ n = Longest + 1
  BY <1>1
<1> HIDE DEF n
<1>6. CASE GoesOn
  <2>1. WorkLeft' \in Nat /\ WorkLeft' < WorkLeft /\ queue' = queue
    BY <1>1, <1>6 DEF GoesOn
  <2> QED
    BY <1>1, <1>3, <1>4, <2>1 DEF Approaches
<1>7. CASE Takes /\ i = 1
  <2>1. StepsBefore(i) = WorkLeft + Longest + 1
    BY <1>1, <1>3, <1>4, <1>5, <1>7
  <2> QED
    BY <1>1, <1>7, <2>1 DEF Approaches, Takes
<1>8. CASE Takes /\ i > 1
  <2>1. queue'[i - 1] = queue[i]
    BY <1>2, <1>8, HeadTailProperties DEF Takes
  <2>2. StepsBefore(i - 1)' < StepsBefore(i)
    BY <1>1, <1>3, <1>4, <1>5, <1>8 DEF Takes
  <2> QED
    BY <1>8, <2>1, <2>2 DEF Approaches
<1> QED
  BY <1>2, <1>6, <1>7, <1>8

\* How far a task in the queue has to go is counted in steps of the worker alone: each of
\* them brings every one nearer to its turn, and the task in hand nearer to its end, and
\* no cycle, mark or cooldown holds them up (OrderExecutorQueue). That the worker steps
\* is fairness, and EveryTaskTaken.
THEOREM QueueMovesOn ==
  Spec => [][/\ WorkerStep => (Takes \/ GoesOn) /\ \A i \in 1 .. Len(queue) : Approaches(i)
             /\ WorkerStep \/ Restart \/ HoldsNobodyUp]_vars
<1>1. TypeOK /\ [Next]_vars =>
        [/\ WorkerStep => (Takes \/ GoesOn) /\ \A i \in 1 .. Len(queue) : Approaches(i)
         /\ WorkerStep \/ Restart \/ HoldsNobodyUp]_vars
  BY WorkerGoes, QueueMoves, OthersHoldNobodyUp
<1> QED
  BY <1>1, TypeCorrect, PTL DEF Spec

-----------------------------------------------------------------------------
(* What the risk engine approves *)

\* Whatever build_target_portfolio may hand to the risk engine.
Built == [positions : Seq(Positions), reasons : SUBSET Symbols]

\* Each of n positions is as before but for its weight, which is no larger, and its side,
\* which is still LONG if it was.
Lighter(after, before, n) ==
  \A i \in 1 .. n : /\ after[i].sym = before[i].sym
                    /\ after[i].weight <= before[i].weight
                    /\ before[i].side = "LONG" => after[i].side = "LONG"

\* A position's weight is a number.
LEMMA WeightTyped == \A p \in Positions : p.weight \in Int
BY DEF Positions

\* The weights that are added up, of positions 1 to n.
LEMMA WeightsTyped ==
  ASSUME NEW n \in Nat, NEW positions \in [1 .. n -> Positions]
  PROVE  /\ IsFiniteSet(DOMAIN positions)
         /\ [i \in DOMAIN positions |-> positions[i].weight] \in [DOMAIN positions -> 0..100]
         /\ [i \in DOMAIN positions |-> positions[i].weight] \in [DOMAIN positions -> Int]
<1>1. IsFiniteSet(1 .. n)
  BY FS_Interval
<1>2. \A i \in 1 .. n : positions[i].weight \in 0..100
  BY DEF Positions
<1> QED BY <1>1, <1>2

\* The gross exposure is not negative.
LEMMA WeighsTyped ==
  ASSUME NEW n \in Nat, NEW positions \in [1 .. n -> Positions]
  PROVE  Weighs(positions) \in Nat
<1> DEFINE S == DOMAIN positions
           w == [i \in S |-> positions[i].weight]
<1>1. IsFiniteSet(S) /\ w \in [S -> Int] /\ w \in [S -> 0..100]
  BY WeightsTyped
<1>2. SumFunction(w) = Weighs(positions)
  BY DEF Weighs
<1> HIDE DEF w, S
<1>3. SumFunction(w) \in Int
  BY <1>1, SumAll
<1>4. \A i \in S : w[i] * 0 <= w[i] * 1
  <2>1. \A x \in 0..100 : x * 0 <= x * 1
    OBVIOUS
  <2>2. \A i \in S : w[i] \in 0..100
    BY <1>1
  <2> QED BY <2>1, <2>2
<1>5. SumFunction(w) * 0 <= SumFunction(w) * 1
  BY <1>1, <1>4, SumScaled
<1> QED BY <1>2, <1>3, <1>5

\* A share that is scaled down stays a share, rounded down.
LEMMA ShareScaled ==
  ASSUME NEW w \in 0..100, NEW num \in Nat, NEW den \in Nat \ {0}, num <= den
  PROVE  /\ (w * num) \div den \in 0..100
         /\ (w * num) \div den <= w
         /\ ((w * num) \div den) * den <= w * num
<1>1. w * num \in Nat
  OBVIOUS
<1> DEFINE q == (w * num) \div den
<1>2. q \in Nat /\ q * den <= w * num
  BY <1>1
<1> HIDE DEF q
<1>3. q <= w
  BY <1>2
<1> QED BY <1>2, <1>3 DEF q

\* Positions that are scaled down stay what they are but for their weights.
LEMMA ScaledTyped ==
  ASSUME NEW n \in Nat, NEW positions \in [1 .. n -> Positions],
         NEW num \in Nat, NEW den \in Nat \ {0}, num <= den
  PROVE  /\ Scaled(positions, num, den) \in [1 .. n -> Positions]
         /\ \A i \in 1 .. n :
              /\ Scaled(positions, num, den)[i].sym = positions[i].sym
              /\ Scaled(positions, num, den)[i].side = positions[i].side
              /\ Scaled(positions, num, den)[i].weight = (positions[i].weight * num) \div den
<1> DEFINE scaled == Scaled(positions, num, den)
<1>1. scaled = [i \in 1 .. n |-> [positions[i] EXCEPT !.weight = (@ * num) \div den]]
  BY DEF Scaled, Each
<1>2. ASSUME NEW p \in Positions, NEW w \in 0..100
      PROVE  /\ [p EXCEPT !.weight = w] \in Positions
             /\ [p EXCEPT !.weight = w].sym = p.sym /\ [p EXCEPT !.weight = w].weight = w
             /\ [p EXCEPT !.weight = w].side = p.side
  BY DEF Positions
<1>3. \A i \in 1 .. n : (positions[i].weight * num) \div den \in 0..100
  <2>1. \A i \in 1 .. n : positions[i].weight \in 0..100
    BY DEF Positions
  <2> QED BY <2>1, ShareScaled
<1> HIDE DEF scaled
<1>4. \A i \in 1 .. n : /\ scaled[i] \in Positions
                        /\ scaled[i].sym = positions[i].sym
                        /\ scaled[i].side = positions[i].side
                        /\ scaled[i].weight = (positions[i].weight * num) \div den
  <2> SUFFICES ASSUME NEW i \in 1 .. n
               PROVE  /\ scaled[i] \in Positions
                      /\ scaled[i].sym = positions[i].sym
                      /\ scaled[i].side = positions[i].side
                      /\ scaled[i].weight = (positions[i].weight * num) \div den
    OBVIOUS
  <2> DEFINE p == positions[i]
             q == (p.weight * num) \div den
  <2>1. p \in Positions /\ q \in 0..100
    BY <1>3
  <2>2. scaled[i] = [p EXCEPT !.weight = q]
    BY <1>1
  <2> HIDE DEF p, q
  <2>3. /\ scaled[i] \in Positions /\ scaled[i].sym = p.sym
        /\ scaled[i].side = p.side /\ scaled[i].weight = q
    <3>1. [p EXCEPT !.weight = q] \in Positions
      BY <1>2, <2>1
    <3>2. /\ [p EXCEPT !.weight = q].sym = p.sym /\ [p EXCEPT !.weight = q].weight = q
          /\ [p EXCEPT !.weight = q].side = p.side
      BY <1>2, <2>1
    <3> QED BY <2>2, <3>1, <3>2
  <2> QED BY <2>3 DEF p, q
<1>5. scaled \in [1 .. n -> Positions]
  BY <1>1, <1>4
<1> QED BY <1>4, <1>5 DEF scaled

\* Scaled from their sum to another, positions weigh no more than that, and none of them
\* more than before: rounding each of them down does no harm.
LEMMA ScaledWeighs ==
  ASSUME NEW n \in Nat, NEW positions \in [1 .. n -> Positions],
         NEW num \in Nat, num <= Weighs(positions), Weighs(positions) > 0
  PROVE  LET scaled == Scaled(positions, num, Weighs(positions))
         IN  /\ scaled \in [1 .. n -> Positions]
             /\ Weighs(scaled) \in Nat /\ Weighs(scaled) <= num
             /\ Lighter(scaled, positions, n)
<1> DEFINE den == Weighs(positions)
           scaled == Scaled(positions, num, den)
           S == 1 .. n
           w == [i \in S |-> positions[i].weight]
           v == [i \in S |-> scaled[i].weight]
<1>1. den \in Nat \ {0} /\ num <= den
  BY WeighsTyped
<1> HIDE DEF den
<1>2. /\ scaled \in [S -> Positions]
      /\ \A i \in S : /\ scaled[i].sym = positions[i].sym
                      /\ scaled[i].side = positions[i].side
                      /\ scaled[i].weight = (positions[i].weight * num) \div den
  BY <1>1, ScaledTyped
<1> HIDE DEF scaled
<1>3. IsFiniteSet(S) /\ w \in [S -> Int] /\ w \in [S -> 0..100]
  BY WeightsTyped
<1>4. v \in [S -> Int] /\ v \in [S -> 0..100]
  BY <1>2, WeightsTyped
<1>5. SumFunction(w) = den /\ SumFunction(v) = Weighs(scaled)
  BY <1>2 DEF Weighs, den
<1>6. \A i \in S : v[i] = (w[i] * num) \div den
  BY <1>2
<1>7. \A i \in S : v[i] * den <= w[i] * num /\ v[i] <= w[i]
  <2> HIDE DEF v, w, S
  <2>1. \A x \in 0..100 : (x * num) \div den <= x /\ ((x * num) \div den) * den <= x * num
    BY <1>1, ShareScaled
  <2>2. \A i \in S : w[i] \in 0..100
    BY <1>3
  <2> QED BY <1>6, <2>1, <2>2
<1>8. Lighter(scaled, positions, n)
  <2>1. \A i \in 1 .. n : scaled[i].weight <= positions[i].weight
    BY <1>7
  <2> QED BY <1>2, <2>1 DEF Lighter
<1>9. SumFunction(v) * den <= SumFunction(w) * num
  <2> HIDE DEF v, w, S
  <2> QED BY <1>1, <1>3, <1>4, <1>7, SumScaled
<1>10. Weighs(scaled) \in Nat
  BY <1>2, WeighsTyped
<1>11. Weighs(scaled) <= num
  <2> HIDE DEF v, w
  <2> QED BY <1>1, <1>5, <1>9, <1>10
<1> QED BY <1>2, <1>8, <1>10, <1>11 DEF den, scaled

\* The reduction cuts off positions beyond the limit and caps the others.
LEMMA CutTyped ==
  ASSUME NEW portfolio \in Built
  PROVE  LET n == AtMost(MaxPositions, Len(portfolio.positions))
             Capped(p) == Position(p.sym, "LONG", AtMost(p.weight, MaxWeight))
             cut == Each(FirstOf(MaxPositions, portfolio.positions), Capped)
         IN  /\ n \in Nat /\ n <= MaxPositions /\ cut \in [1 .. n -> Positions]
             /\ Lighter(cut, portfolio.positions, n)
             /\ \A i \in 1 .. n : cut[i].side = "LONG" /\ cut[i].weight <= MaxWeight
<1> DEFINE book == portfolio.positions
           n == AtMost(MaxPositions, Len(book))
           Capped(p) == Position(p.sym, "LONG", AtMost(p.weight, MaxWeight))
           cut == Each(FirstOf(MaxPositions, book), Capped)
<1>1. book \in Seq(Positions) /\ Len(book) \in Nat /\ DOMAIN book = 1 .. Len(book)
  BY LenProperties DEF Built
<1>2. MaxPositions \in Nat \ {0} /\ MaxWeight \in 0..100
  BY EngineAssumption DEF Shares
<1>3. n \in Nat /\ n <= Len(book) /\ n <= MaxPositions
  BY <1>1, <1>2 DEF AtMost
<1> HIDE DEF n
<1>4. \A i \in 1 .. n : book[i] \in Positions
  BY <1>1, <1>3, ElementOfSeq
<1>5. /\ SubSeq(book, 1, n) \in Seq(Positions) /\ Len(SubSeq(book, 1, n)) = n
      /\ \A i \in 1 .. n : SubSeq(book, 1, n)[i] = book[i]
  <2>1. 1 \in Int /\ n \in Int
    BY <1>3
  <2> HIDE DEF book
  <2>2. /\ SubSeq(book, 1, n) \in Seq(Positions)
        /\ Len(SubSeq(book, 1, n)) = IF 1 <= n THEN (n - 1) + 1 ELSE 0
        /\ \A i \in 1 .. ((n - 1) + 1) : SubSeq(book, 1, n)[i] = book[(1 + i) - 1]
    BY <1>4, <2>1, SubSeqProperties
  <2> QED BY <1>3, <2>2
<1>6. DOMAIN SubSeq(book, 1, n) = 1 .. n
  BY <1>5, LenProperties
<1>7. cut = [i \in 1 .. n |-> Capped(book[i])]
  BY <1>5, <1>6 DEF Each, FirstOf, n
<1>8. ASSUME NEW p \in Positions
      PROVE  /\ Capped(p) \in Positions /\ Capped(p).sym = p.sym /\ Capped(p).side = "LONG"
             /\ Capped(p).weight <= MaxWeight /\ Capped(p).weight <= p.weight
  <2>1. /\ AtMost(p.weight, MaxWeight) \in 0..100 /\ AtMost(p.weight, MaxWeight) <= MaxWeight
        /\ AtMost(p.weight, MaxWeight) <= p.weight
    BY <1>2 DEF AtMost, Positions
  <2> QED BY <2>1 DEF Positions, Position, Sides
<1>9. \A i \in 1 .. n : /\ cut[i] \in Positions /\ cut[i].sym = book[i].sym /\ cut[i].side = "LONG"
                        /\ cut[i].weight <= MaxWeight /\ cut[i].weight <= book[i].weight
  <2> HIDE DEF Capped, book
  <2> QED BY <1>4, <1>7, <1>8
<1>10. cut \in [1 .. n -> Positions]
  BY <1>7, <1>9
<1>11. Lighter(cut, book, n)
  BY <1>9 DEF Lighter
<1> QED BY <1>3, <1>9, <1>10, <1>11 DEF n

\* Making positions lighter again makes them lighter than they were at first.
LEMMA LighterStill ==
  ASSUME NEW n \in Nat, NEW k, n <= k, NEW first \in [1 .. k -> Positions], k \in Nat,
         NEW second \in [1 .. n -> Positions], Lighter(second, first, n),
         NEW third \in [1 .. n -> Positions], Lighter(third, second, n)
  PROVE  Lighter(third, first, n)
<1> SUFFICES ASSUME NEW i \in 1 .. n
             PROVE  /\ third[i].sym = first[i].sym /\ third[i].weight <= first[i].weight
                    /\ first[i].side = "LONG" => third[i].side = "LONG"
  BY DEF Lighter
<1>1. /\ second[i].sym = first[i].sym /\ second[i].weight <= first[i].weight
      /\ first[i].side = "LONG" => second[i].side = "LONG"
  BY DEF Lighter
<1>2. /\ third[i].sym = second[i].sym /\ third[i].weight <= second[i].weight
      /\ second[i].side = "LONG" => third[i].side = "LONG"
  BY DEF Lighter
<1>3. i \in 1 .. k
  OBVIOUS
<1>4. first[i].weight \in Int /\ second[i].weight \in Int /\ third[i].weight \in Int
  <2>1. first[i] \in Positions /\ second[i] \in Positions /\ third[i] \in Positions
    BY <1>3
  <2> QED BY <2>1, WeightTyped
<1> QED BY <1>1, <1>2, <1>4

\* Scaling the reduction down, to the gross exposure and then to the cash reserve, brings
\* it within every limit and loses no position.
LEMMA ReductionFits ==
  ASSUME NEW portfolio \in Built
  PROVE  LET reduced == TryReduce(portfolio)
         IN  /\ reduced \in Built /\ WithinLimits(reduced.positions)
             /\ Len(reduced.positions) = AtMost(MaxPositions, Len(portfolio.positions))
             /\ Lighter(reduced.positions, portfolio.positions, Len(reduced.positions))
             /\ \A i \in DOMAIN reduced.positions : reduced.positions[i].side = "LONG"
<1> DEFINE book == portfolio.positions
           k == Len(book)
           n == AtMost(MaxPositions, Len(portfolio.positions))
           Capped(p) == Position(p.sym, "LONG", AtMost(p.weight, MaxWeight))
           cut == Each(FirstOf(MaxPositions, portfolio.positions), Capped)
           gross == ScaledToGross(cut)
           cash == ScaledToCash(gross)
           Like(seq) == /\ seq \in [1 .. n -> Positions] /\ Lighter(seq, book, n)
                        /\ \A i \in 1 .. n : seq[i].side = "LONG" /\ seq[i].weight <= MaxWeight
<1>1. MaxGross \in 0..100 /\ MinCash \in 0..100 /\ MaxWeight \in 0..100
  BY EngineAssumption DEF Shares
<1>2. n \in Nat /\ n <= MaxPositions /\ Like(cut)
  BY CutTyped
<1>0. book \in [1 .. k -> Positions] /\ k \in Nat /\ n <= k
  <2>1. MaxPositions \in Nat
    BY EngineAssumption
  <2>2. book \in Seq(Positions)
    BY DEF Built
  <2>3. book \in [1 .. k -> Positions] /\ k \in Nat
    BY <2>2, LenProperties
  <2> HIDE DEF book, k
  <2>4. AtMost(MaxPositions, k) <= k
    BY <2>1, <2>3 DEF AtMost
  <2> QED BY <2>3, <2>4 DEF book, k
<1>3. TryReduce(portfolio) = [positions |-> cash, reasons |-> {}]
  BY DEF TryReduce, Portfolio
<1> HIDE DEF book, k, n, cut
<1>4. ASSUME NEW seq, Like(seq), NEW num \in Nat, Weighs(seq) > 0, num <= Weighs(seq)
      PROVE  LET scaled == Scaled(seq, num, Weighs(seq))
             IN  Like(scaled) /\ Weighs(scaled) \in Nat /\ Weighs(scaled) <= num
  <2> DEFINE scaled == Scaled(seq, num, Weighs(seq))
  <2>1. /\ scaled \in [1 .. n -> Positions]
        /\ Weighs(scaled) \in Nat /\ Weighs(scaled) <= num
        /\ Lighter(scaled, seq, n)
    BY <1>2, <1>4, ScaledWeighs
  <2> HIDE DEF scaled
  <2>2. \A i \in 1 .. n : seq[i].weight \in 0..100 /\ scaled[i].weight \in 0..100
    BY <1>4, <2>1 DEF Positions
  <2>3. \A i \in 1 .. n : scaled[i].side = "LONG" /\ scaled[i].weight <= MaxWeight
    <3>1. \A x, y \in 0..100 : x <= y /\ y <= MaxWeight => x <= MaxWeight
      BY <1>1
    <3>2. \A i \in 1 .. n : /\ scaled[i].weight <= seq[i].weight
                            /\ seq[i].side = "LONG" => scaled[i].side = "LONG"
      BY <2>1 DEF Lighter
    <3> QED BY <1>4, <2>2, <3>1, <3>2
  <2>4. Lighter(scaled, book, n)
    BY <1>0, <1>2, <1>4, <2>1, LighterStill
  <2> QED BY <2>1, <2>3, <2>4 DEF scaled
<1>5. Like(gross) /\ Weighs(gross) \in Nat /\ Weighs(gross) <= MaxGross
  <2>1. Weighs(cut) \in Nat
    BY <1>2, WeighsTyped
  <2>2. CASE Weighs(cut) > MaxGross
    <3>1. Weighs(cut) > 0 /\ MaxGross <= Weighs(cut) /\ MaxGross \in Nat
      BY <1>1, <2>1, <2>2
    <3>2. gross = Scaled(cut, MaxGross, Weighs(cut))
      BY <2>2 DEF ScaledToGross
    <3> QED BY <1>2, <1>4, <3>1, <3>2
  <2>3. CASE ~ (Weighs(cut) > MaxGross)
    <3>1. gross = cut
      BY <2>3 DEF ScaledToGross
    <3>2. Weighs(cut) <= MaxGross
      BY <1>1, <2>1, <2>3
    <3> QED BY <1>2, <2>1, <3>1, <3>2
  <2> QED BY <2>2, <2>3
<1> HIDE DEF gross
<1>6. Like(cash) /\ Weighs(cash) \in Nat /\ Weighs(cash) <= MaxGross /\ CashWeight(cash) >= MinCash
  <2>1. CASE CashWeight(gross) < MinCash /\ Weighs(gross) > 0
    <3>1. 100 - MinCash \in Nat /\ 100 - MinCash <= Weighs(gross)
      BY <1>1, <1>5, <2>1 DEF CashWeight, AtLeast
    <3>2. cash = Scaled(gross, 100 - MinCash, Weighs(gross))
      BY <2>1 DEF ScaledToCash
    <3>3. Like(cash) /\ Weighs(cash) \in Nat /\ Weighs(cash) <= 100 - MinCash
      <4> DEFINE num == 100 - MinCash
      <4>1. num \in Nat /\ num <= Weighs(gross) /\ Weighs(gross) > 0 /\ Like(gross)
        BY <1>5, <2>1, <3>1
      <4>2. cash = Scaled(gross, num, Weighs(gross))
        BY <3>2
      <4> HIDE DEF num, cash, Like
      <4> QED BY <1>4, <4>1, <4>2 DEF num
    <3> HIDE DEF cash
    <3>4. Weighs(cash) <= MaxGross /\ CashWeight(cash) >= MinCash
      BY <1>1, <1>5, <3>1, <3>3 DEF CashWeight, AtLeast
    <3> QED BY <3>3, <3>4
  <2>2. CASE ~ (CashWeight(gross) < MinCash /\ Weighs(gross) > 0)
    <3>1. cash = gross
      BY <2>2 DEF ScaledToCash
    <3>2. CashWeight(gross) >= MinCash
      BY <1>1, <1>5, <2>2 DEF CashWeight, AtLeast
    <3> QED BY <1>5, <3>1, <3>2
  <2> QED BY <2>1, <2>2
<1> HIDE DEF cash
<1>7. cash \in Seq(Positions) /\ Len(cash) = n /\ DOMAIN cash = 1 .. n
  BY <1>2, <1>6, SeqDef
<1>8. WithinLimits(cash)
  BY <1>2, <1>6, <1>7 DEF WithinLimits
<1> QED BY <1>3, <1>6, <1>7, <1>8 DEF Built, n, book, k

\* RiskEngine.assess rejects nothing: for every target whatsoever, the limits' shares are
\* met by the reduction. So the fallback that replaces a rejected target by an empty one,
\* which would close every position, is never taken.
THEOREM NeverRejected ==
  ASSUME NEW portfolio \in Built
  PROVE  Status(portfolio) # "REJECTED"
BY ReductionFits DEF Status

\* What reaches the queue is within every limit of the mode and as many positions as were
\* built, up to the limit, on the same symbols in the same order, none of them heavier and
\* none turned from LONG to SHORT: that is what TradingCycle asks of the outcomes of its
\* cycles.
THEOREM ApprovedFits ==
  ASSUME NEW portfolio \in Built
  PROVE  LET passed == Approved(portfolio)
         IN  /\ passed \in ApprovedTargets /\ WithinLimits(passed.positions)
             /\ Len(passed.positions) = AtMost(MaxPositions, Len(portfolio.positions))
             /\ Lighter(passed.positions, portfolio.positions, Len(passed.positions))
<1> DEFINE reduced == TryReduce(portfolio)
<1>1. MaxPositions \in Nat /\ Len(portfolio.positions) \in Nat
  BY LenProperties, EngineAssumption DEF Built
<1>2. CASE WithinLimits(portfolio.positions)
  <2>1. Approved(portfolio) = portfolio
    BY <1>2 DEF Approved, Status
  <2>2. Len(portfolio.positions) <= MaxPositions
    BY <1>2 DEF WithinLimits
  <2>3. Len(portfolio.positions) = AtMost(MaxPositions, Len(portfolio.positions))
    BY <1>1, <2>2 DEF AtMost
  <2>4. Lighter(portfolio.positions, portfolio.positions, Len(portfolio.positions))
    <3>1. /\ portfolio.positions \in [1 .. Len(portfolio.positions) -> Positions]
          /\ Len(portfolio.positions) \in Nat
      BY LenProperties DEF Built
    <3>2. \A i \in 1 .. Len(portfolio.positions) : portfolio.positions[i].weight \in Int
      BY <3>1, WeightTyped
    <3>3. \A x \in Int : x <= x
      OBVIOUS
    <3> QED BY <3>2, <3>3 DEF Lighter
  <2> QED BY <1>2, <2>1, <2>2, <2>3, <2>4 DEF Built, ApprovedTargets
<1>3. CASE ~ WithinLimits(portfolio.positions)
  <2>1. /\ reduced \in Built /\ WithinLimits(reduced.positions)
        /\ Len(reduced.positions) = AtMost(MaxPositions, Len(portfolio.positions))
        /\ Lighter(reduced.positions, portfolio.positions, Len(reduced.positions))
    BY ReductionFits
  <2>2. Approved(portfolio) = reduced
    BY <1>3, <2>1 DEF Approved, Status
  <2>3. Len(reduced.positions) <= MaxPositions
    BY <2>1 DEF WithinLimits
  <2> HIDE DEF reduced
  <2> QED BY <2>1, <2>2, <2>3 DEF Built, ApprovedTargets
<1> QED BY <1>2, <1>3

-----------------------------------------------------------------------------
(* How the engine sorts *)

\* Some places of a list, whose entries are sorted by whole numbers.
Places(S, keys) == IsFiniteSet(S) /\ \A i \in S : i \in Nat /\ keys[i] \in Int

\* Some place comes last.
LEMMA LastPlace ==
  ASSUME NEW S, NEW keys, Places(S, keys), S # {}
  PROVE  \E i \in S : \A j \in S \ {i} : Sooner(keys, j, i)
<1> DEFINE Later(i) == {j \in S : Sooner(keys, i, j)}
           X == {Later(i) : i \in S}
<1>1. PICK T \in X : \A U \in X : U \subseteq T => U = T
  <2>1. X \subseteq SUBSET S /\ X # {}
    OBVIOUS
  <2>2. IsFiniteSet(S)
    BY DEF Places
  <2> HIDE DEF X
  <2> QED BY <2>1, <2>2, Smallest
<1>2. PICK i \in S : T = Later(i)
  OBVIOUS
<1>3. \A j \in S : j \notin Later(i)
  <2> SUFFICES ASSUME NEW j \in Later(i)
               PROVE  FALSE
    OBVIOUS
  <2>0. keys[i] \in Int /\ keys[j] \in Int /\ i \in Nat /\ j \in Nat
    BY DEF Places
  <2>1. Later(j) \subseteq Later(i)
    <3> SUFFICES ASSUME NEW k \in S, Sooner(keys, j, k)
                 PROVE  Sooner(keys, i, k)
      OBVIOUS
    <3>1. keys[k] \in Int /\ Sooner(keys, i, j) /\ k \in Nat
      BY DEF Places
    <3> QED BY <2>0, <3>1 DEF Sooner
  <2>2. j \notin Later(j)
    BY <2>0 DEF Sooner
  <2>3. Later(j) = Later(i)
    BY <1>1, <1>2, <2>1
  <2> QED BY <2>2, <2>3
<1> QED BY <1>3 DEF Sooner, Places

\* What a sort is to find: all places in S once, the sooner first.
InOrder(p, keys, S) ==
  /\ p \in SetToSeqs(S)
  /\ \A i, j \in 1 .. Cardinality(S) : i < j => Sooner(keys, p[i], p[j])

\* There is such an order of the places.
LEMMA OrderExists ==
  ASSUME NEW S, NEW keys, Places(S, keys)
  PROVE  \E p : InOrder(p, keys, S)
<1> DEFINE X == {T \in SUBSET S : ~ \E p : InOrder(p, keys, T)}
<1> SUFFICES ASSUME X # {}
             PROVE  FALSE
  OBVIOUS
<1>1. PICK T \in X : \A U \in X : U \subseteq T => U = T
  <2>1. X \subseteq SUBSET S
    OBVIOUS
  <2>2. IsFiniteSet(S)
    BY DEF Places
  <2> HIDE DEF X
  <2> QED BY <2>1, <2>2, Smallest
<1>2. T \in SUBSET S /\ IsFiniteSet(T) /\ Places(T, keys)
  <2>1. T \in SUBSET S
    OBVIOUS
  <2>2. IsFiniteSet(T)
    BY <2>1, FS_Subset DEF Places
  <2> QED BY <2>1, <2>2 DEF Places
<1>3. ~ \E p : InOrder(p, keys, T)
  OBVIOUS
<1>4. T # {}
  <2>1. InOrder(<< >>, keys, {})
    BY FS_EmptySet DEF InOrder, SetToSeqs
  <2> QED BY <1>3, <2>1
<1>5. PICK x \in T : \A y \in T \ {x} : Sooner(keys, y, x)
  BY <1>2, <1>4, LastPlace
<1> DEFINE R == T \ {x}
           n == Cardinality(R)
<1>6. n \in Nat /\ Cardinality(T) = n + 1
  <2>1. IsFiniteSet(R) /\ n = Cardinality(T) - 1
    BY <1>2, <1>5, FS_RemoveElement
  <2> QED BY <1>2, <2>1, FS_CardinalityType
<1>7. PICK p : InOrder(p, keys, R)
  <2>1. R \in SUBSET S /\ R \subseteq T /\ R # T
    BY <1>2
  <2> QED BY <1>1, <2>1
<1> HIDE DEF X, n
<1> DEFINE q == [i \in 1 .. n + 1 |-> IF i = n + 1 THEN x ELSE p[i]]
<1>8. p \in [1 .. n -> R] /\ \A i, j \in 1 .. n : i # j => p[i] # p[j]
  BY <1>7 DEF InOrder, SetToSeqs, n
<1>9. q \in [1 .. n + 1 -> T]
  BY <1>6, <1>8
<1>10. \A i, j \in 1 .. n + 1 : i # j => q[i] # q[j]
  BY <1>6, <1>8
<1>11. \A i, j \in 1 .. n + 1 : i < j => Sooner(keys, q[i], q[j])
  <2> SUFFICES ASSUME NEW i \in 1 .. n + 1, NEW j \in 1 .. n + 1, i < j
               PROVE  Sooner(keys, q[i], q[j])
    OBVIOUS
  <2>1. i \in 1 .. n /\ q[i] = p[i] /\ p[i] \in R
    BY <1>6, <1>8
  <2>2. CASE j = n + 1
    BY <1>5, <1>6, <2>1, <2>2
  <2>3. CASE j \in 1 .. n
    <3>1. q[j] = p[j]
      BY <1>6, <2>3
    <3> QED BY <1>7, <2>1, <2>3, <3>1 DEF InOrder, n
  <2> QED BY <1>6, <2>2, <2>3
<1>12. InOrder(q, keys, T)
  BY <1>6, <1>9, <1>10, <1>11 DEF InOrder, SetToSeqs
<1> QED BY <1>3, <1>12

\* The keys of n places.
Keyed(keys, n) == \A i \in 1 .. n : keys[i] \in Int

\* What sorting does: every entry once, at another place perhaps, in the order of the keys.
Arranged(result, list, keys, n) ==
  \E p \in [1 .. n -> 1 .. n] :
    /\ result = [i \in 1 .. n |-> list[p[i]]]
    /\ \A i, j \in 1 .. n : i # j => p[i] # p[j]
    /\ \A k \in 1 .. n : \E i \in 1 .. n : p[i] = k
    /\ \A i, j \in 1 .. n : i < j => Sooner(keys, p[i], p[j])

\* The sort of the model does so.
LEMMA SortedIs ==
  ASSUME NEW n \in Nat, NEW seq, DOMAIN seq = 1 .. n, NEW keys, Keyed(keys, n)
  PROVE  Arranged(Sorted(seq, keys), seq, keys, n)
<1> DEFINE order == CHOOSE p \in SetToSeqs(DOMAIN seq) :
                      \A i, j \in DOMAIN seq : i < j => Sooner(keys, p[i], p[j])
<1>1. IsFiniteSet(1 .. n) /\ Cardinality(1 .. n) = n
  BY FS_Interval
<1>2. PICK p : InOrder(p, keys, 1 .. n)
  BY <1>1, OrderExists DEF Places, Keyed
<1>3. /\ order \in SetToSeqs(1 .. n)
      /\ \A i, j \in 1 .. n : i < j => Sooner(keys, order[i], order[j])
  BY <1>1, <1>2 DEF InOrder
<1>4. Sorted(seq, keys) = [i \in 1 .. n |-> seq[order[i]]]
  BY DEF Sorted
<1> HIDE DEF order
<1>5. order \in [1 .. n -> 1 .. n] /\ \A i, j \in 1 .. n : i # j => order[i] # order[j]
  BY <1>1, <1>3 DEF SetToSeqs
<1>6. order \in Injection(1 .. n, 1 .. n)
  BY <1>5 DEF Injection, IsInjective
<1>7. order \in Surjection(1 .. n, 1 .. n)
  BY <1>1, <1>6, FS_Injection
<1>8. \A k \in 1 .. n : \E i \in 1 .. n : order[i] = k
  BY <1>7 DEF Surjection
<1> QED BY <1>3, <1>4, <1>5, <1>8 DEF Arranged

-----------------------------------------------------------------------------
(* Who stays and who is new *)

\* A strategy's decisions, as given or adjusted to the regime.
IsOpinion(opinion) ==
  /\ DOMAIN opinion \subseteq Symbols
  /\ \A sym \in DOMAIN opinion : opinion[sym] \in Decisions

\* A list of some symbols, each of them once.
Listed(list, some, n) ==
  /\ list \in [1 .. n -> some]
  /\ \A i, j \in 1 .. n : i # j => list[i] # list[j]

\* ... or of all of them.
ListsAll(list, some, n) == Listed(list, some, n) /\ \A x \in some : \E i \in 1 .. n : list[i] = x

\* The regime changes confidences only, within their range.
LEMMA AdjustedTyped ==
  ASSUME NEW given, IsOpinion(given)
  PROVE  LET opinion == [sym \in DOMAIN given |-> Adjusted(sym, given[sym])]
         IN  /\ IsOpinion(opinion)
             /\ \A sym \in DOMAIN given : opinion[sym].action = given[sym].action
<1> DEFINE opinion == [sym \in DOMAIN given |-> Adjusted(sym, given[sym])]
<1>1. ASSUME NEW d \in Decisions, NEW conf \in 0..100
      PROVE  [d EXCEPT !.conf = conf] \in Decisions /\ [d EXCEPT !.conf = conf].action = d.action
  BY DEF Decisions
<1>2. ASSUME NEW d \in Decisions
      PROVE  /\ d.conf \in 0..100
             /\ AtMost(99, d.conf + 15) \in 0..100 /\ AtMost(99, d.conf + 10) \in 0..100
  BY DEF Decisions, AtMost
<1>3. ASSUME NEW sym, NEW d \in Decisions
      PROVE  Adjusted(sym, d) \in Decisions /\ Adjusted(sym, d).action = d.action
  <2>1. \E conf \in 0..100 : Adjusted(sym, d) = [d EXCEPT !.conf = conf]
    <3>1. d = [d EXCEPT !.conf = d.conf]
      BY DEF Decisions
    <3>2. CASE d.regime = "BEAR" /\ d.action = "LONG" /\ sym \notin Top10
      BY <1>2, <3>2 DEF Adjusted
    <3>3. CASE d.regime = "BULL" /\ sym \in Memes
      <4>1. Adjusted(sym, d) = [d EXCEPT !.conf = AtMost(99, d.conf + 15)]
        BY <3>3 DEF Adjusted
      <4> QED BY <1>2, <4>1
    <3>4. CASE d.regime = "SIDEWAYS" /\ sym \in Alpha
      <4>1. Adjusted(sym, d) = [d EXCEPT !.conf = AtMost(99, d.conf + 10)]
        BY <3>4 DEF Adjusted
      <4> QED BY <1>2, <4>1
    <3>5. CASE ~ (\/ d.regime = "BEAR" /\ d.action = "LONG" /\ sym \notin Top10
                  \/ d.regime = "BULL" /\ sym \in Memes
                  \/ d.regime = "SIDEWAYS" /\ sym \in Alpha)
      <4>1. Adjusted(sym, d) = d
        BY <3>5 DEF Adjusted
      <4> QED BY <1>2, <3>1, <4>1
    <3> QED BY <3>2, <3>3, <3>4, <3>5
  <2> QED BY <1>1, <2>1
<1>4. \A sym \in DOMAIN given : /\ opinion[sym] \in Decisions
                                /\ opinion[sym].action = given[sym].action
  BY <1>3 DEF IsOpinion
<1> QED BY <1>4 DEF IsOpinion

\* A finite set of symbols or places can be made a list.
LEMMA ListExists ==
  ASSUME NEW some, IsFiniteSet(some)
  PROVE  /\ Cardinality(some) \in Nat
         /\ ListsAll(SetToSeq(some), some, Cardinality(some))
<1> DEFINE n == Cardinality(some)
<1>1. n \in Nat /\ ExistsBijection(1 .. n, some)
  BY FS_CardinalityType
<1>2. PICK f \in Bijection(1 .. n, some) : TRUE
  BY <1>1 DEF ExistsBijection
<1>3. f \in [1 .. n -> some] /\ IsInjective(f)
  BY <1>2 DEF Bijection, Injection
<1> DEFINE g == SetToSeq(some)
<1>4. g \in [1 .. n -> some] /\ IsInjective(g)
  BY <1>3 DEF SetToSeq
<1> HIDE DEF g
<1>5. g \in Injection(1 .. n, some)
  BY <1>4 DEF Injection
<1>6. g \in Surjection(1 .. n, some)
  <2>1. IsFiniteSet(1 .. n) /\ Cardinality(1 .. n) = n
    BY <1>1, FS_Interval
  <2> QED BY <1>5, <2>1, FS_Injection
<1>7. \A x \in some : \E i \in 1 .. n : g[i] = x
  BY <1>6 DEF Surjection
<1>8. \A i, j \in 1 .. n : i # j => g[i] # g[j]
  BY <1>4 DEF IsInjective
<1> QED BY <1>1, <1>4, <1>7, <1>8 DEF ListsAll, Listed, g

\* The entries of a list in an order in which their keys ascend.
Ascends(result, list, keys, n) ==
  \E p \in [1 .. n -> 1 .. n] :
    /\ \A i \in 1 .. n : result[i] = list[p[i]]
    /\ \A i, j \in 1 .. n : i < j => keys[p[i]] <= keys[p[j]]

\* Sorting a list keeps it a list of the same, by ascending keys.
LEMMA SortedLists ==
  ASSUME NEW n \in Nat, NEW some, NEW list, ListsAll(list, some, n),
         NEW keys, Keyed(keys, n)
  PROVE  ListsAll(Sorted(list, keys), some, n) /\ Ascends(Sorted(list, keys), list, keys, n)
<1>1. DOMAIN list = 1 .. n /\ \A i \in 1 .. n : list[i] \in some
  BY DEF ListsAll, Listed
<1>0. Arranged(Sorted(list, keys), list, keys, n)
  BY <1>1, SortedIs
<1>2. PICK p \in [1 .. n -> 1 .. n] :
        /\ Sorted(list, keys) = [i \in 1 .. n |-> list[p[i]]]
        /\ \A i, j \in 1 .. n : i # j => p[i] # p[j]
        /\ \A k \in 1 .. n : \E i \in 1 .. n : p[i] = k
        /\ \A i, j \in 1 .. n : i < j => Sooner(keys, p[i], p[j])
  BY <1>0 DEF Arranged
<1> DEFINE result == Sorted(list, keys)
<1>3. result \in [1 .. n -> some] /\ \A i \in 1 .. n : result[i] = list[p[i]]
  BY <1>1, <1>2
<1>4. \A i, j \in 1 .. n : i # j => result[i] # result[j]
  <2> HIDE DEF result
  <2> QED BY <1>2, <1>3 DEF ListsAll, Listed
<1>5. \A x \in some : \E i \in 1 .. n : result[i] = x
  <2> HIDE DEF result
  <2> SUFFICES ASSUME NEW x \in some
               PROVE  \E i \in 1 .. n : result[i] = x
    OBVIOUS
  <2>1. PICK k \in 1 .. n : list[k] = x
    BY DEF ListsAll
  <2>2. PICK i \in 1 .. n : p[i] = k
    BY <1>2
  <2> QED BY <1>3, <2>1, <2>2
<1>6. \A i, j \in 1 .. n : i < j => keys[p[i]] <= keys[p[j]]
  <2> SUFFICES ASSUME NEW i \in 1 .. n, NEW j \in 1 .. n, i < j
               PROVE  keys[p[i]] <= keys[p[j]]
    OBVIOUS
  <2>1. p[i] \in 1 .. n /\ p[j] \in 1 .. n /\ Sooner(keys, p[i], p[j])
    BY <1>2
  <2>2. keys[p[i]] \in Int /\ keys[p[j]] \in Int
    BY <2>1 DEF Keyed
  <2> QED BY <2>1, <2>2 DEF Sooner
<1> HIDE DEF result
<1>7. ListsAll(result, some, n)
  BY <1>3, <1>4, <1>5 DEF ListsAll, Listed
<1>8. Ascends(result, list, keys, n)
  BY <1>3, <1>6 DEF Ascends
<1> QED BY <1>7, <1>8 DEF result

\* As many symbols as a list of them is long.
LEMMA ListLength ==
  ASSUME NEW n \in Nat, NEW some, NEW list, ListsAll(list, some, n)
  PROVE  IsFiniteSet(some) /\ Cardinality(some) = n
<1>1. list \in Bijection(1 .. n, some)
  BY DEF ListsAll, Listed, Bijection, Injection, Surjection, IsInjective
<1>2. IsFiniteSet(1 .. n) /\ Cardinality(1 .. n) = n
  BY FS_Interval
<1>3. ExistsBijection(1 .. n, some)
  BY <1>1 DEF ExistsBijection
<1> QED BY <1>2, <1>3, FS_Bijection

\* Candidates and retained symbols have whole numbers to compare.
LEMMA KeysTyped ==
  ASSUME NEW opinion, IsOpinion(opinion)
  PROVE  /\ \A sym \in DOMAIN opinion : Rank(opinion, sym) \in Int
         /\ \A sym : Conviction(opinion, sym) \in Int
<1>1. \A sym \in DOMAIN opinion : opinion[sym].conf \in Int /\ opinion[sym].score \in Int
  BY DEF IsOpinion, Decisions
<1>2. \A sym \in DOMAIN opinion : Rank(opinion, sym) \in Int
  BY <1>1 DEF Rank
<1>3. ASSUME NEW sym
      PROVE  Conviction(opinion, sym) \in Int
  <2>1. CASE sym \in DOMAIN opinion
    <3>1. opinion[sym].score * opinion[sym].conf \in Int
      BY <1>1, <2>1
    <3> QED BY <2>1, <3>1 DEF Conviction
  <2>2. CASE sym \notin DOMAIN opinion
    BY <2>2 DEF Conviction
  <2> QED BY <2>1, <2>2
<1> QED BY <1>2, <1>3

\* The candidates in the order in which they get their chance.
LEMMA RankedIs ==
  ASSUME NEW opinion, IsOpinion(opinion), NEW holding
  PROVE  LET candidates == Entrants(opinion, ToSet(holding))
         IN  \E n \in Nat : ListsAll(Ranked(opinion, holding), candidates, n)
<1> DEFINE candidates == Entrants(opinion, ToSet(holding))
           list == SetToSeq(candidates)
           n == Cardinality(candidates)
           keys == [i \in DOMAIN list |-> -Rank(opinion, list[i])]
<1>1. candidates \subseteq DOMAIN opinion
  BY DEF Entrants
<1>2. IsFiniteSet(candidates)
  BY <1>1, FS_Subset, EngineAssumption DEF IsOpinion
<1>3. n \in Nat /\ ListsAll(list, candidates, n)
  BY <1>2, ListExists
<1>4. Ranked(opinion, holding) = Sorted(list, keys)
  BY DEF Ranked
<1> HIDE DEF list, candidates, n
<1>5. Keyed(keys, n)
  <2>1. \A i \in 1 .. n : list[i] \in DOMAIN opinion /\ i \in DOMAIN list
    BY <1>1, <1>3 DEF ListsAll, Listed
  <2>2. \A i \in 1 .. n : Rank(opinion, list[i]) \in Int
    BY <2>1, KeysTyped
  <2> QED BY <2>1, <2>2 DEF Keyed
<1> HIDE DEF keys
<1>6. ListsAll(Sorted(list, keys), candidates, n)
  BY <1>3, <1>5, SortedLists
<1> QED BY <1>3, <1>4, <1>6 DEF candidates

\* The symbols of a list, which names each of them once.
LEMMA ListsItsOwn ==
  ASSUME NEW m \in Nat, NEW some, NEW holding, Listed(holding, some, m)
  PROVE  ListsAll(holding, ToSet(holding), m) /\ ToSet(holding) \subseteq some
BY DEF Listed, ListsAll, ToSet

\* A list of all of some symbols has them as its set.
LEMMA ListsSet ==
  ASSUME NEW n \in Nat, NEW some, NEW list, ListsAll(list, some, n)
  PROVE  Listed(list, some, n) /\ ToSet(list) = some
<1>1. DOMAIN list = 1 .. n /\ Listed(list, some, n) /\ \A i \in 1 .. n : list[i] \in some
  BY DEF ListsAll, Listed
<1>2. \A x \in some : \E i \in 1 .. n : list[i] = x
  BY DEF ListsAll
<1> QED BY <1>1, <1>2 DEF ToSet

\* From the weakest retained position to the strongest.
Strengthens(opinion, weakest, m) ==
  \A i, j \in 1 .. m : i < j => Conviction(opinion, weakest[i]) <= Conviction(opinion, weakest[j])

\* The retained symbols in the order in which they may be replaced.
LEMMA WeakestIs ==
  ASSUME NEW opinion, IsOpinion(opinion),
         NEW m \in Nat, NEW holding, Listed(holding, Symbols, m)
  PROVE  LET weakest == Weakest(opinion, holding)
         IN  ListsAll(weakest, ToSet(holding), m) /\ Strengthens(opinion, weakest, m)
<1> DEFINE keys == [i \in DOMAIN holding |-> Conviction(opinion, holding[i])]
           weakest == Sorted(holding, keys)
<1>1. Weakest(opinion, holding) = weakest
  BY DEF Weakest
<1>2. DOMAIN holding = 1 .. m /\ ListsAll(holding, ToSet(holding), m)
  BY ListsItsOwn DEF Listed
<1>3. Keyed(keys, m)
  BY <1>2, KeysTyped DEF Keyed
<1>4. \A i \in 1 .. m : keys[i] = Conviction(opinion, holding[i])
  BY <1>2
<1> HIDE DEF keys
<1>5. ListsAll(weakest, ToSet(holding), m) /\ Ascends(weakest, holding, keys, m)
  BY <1>2, <1>3, SortedLists
<1> HIDE DEF weakest
<1>6. PICK p \in [1 .. m -> 1 .. m] :
        /\ \A i \in 1 .. m : weakest[i] = holding[p[i]]
        /\ \A i, j \in 1 .. m : i < j => keys[p[i]] <= keys[p[j]]
  BY <1>5 DEF Ascends
<1>7. \A i \in 1 .. m : keys[p[i]] = Conviction(opinion, weakest[i])
  BY <1>4, <1>6
<1>8. Strengthens(opinion, weakest, m)
  BY <1>6, <1>7 DEF Strengthens
<1> QED BY <1>1, <1>5, <1>8

\* What is left of a list when only some symbols stay.
LEMMA AmongIs ==
  ASSUME NEW m \in Nat, NEW of, NEW holding, ListsAll(holding, of, m), NEW some
  PROVE  \E k \in Nat : ListsAll(Among(holding, some), of \cap some, k)
<1> DEFINE at == {i \in DOMAIN holding : holding[i] \in some}
           places == SetToSeq(at)
           k == Cardinality(at)
           stay == Each(Sorted(places, places), LAMBDA i : holding[i])
<1>1. DOMAIN holding = 1 .. m
  BY DEF ListsAll, Listed
<1>2. IsFiniteSet(at)
  <2>1. IsFiniteSet(1 .. m)
    BY FS_Interval
  <2> QED BY <1>1, <2>1, FS_Subset
<1>3. k \in Nat /\ ListsAll(places, at, k)
  BY <1>2, ListExists
<1>4. Among(holding, some) = stay
  BY DEF Among
<1>5. \A i \in at : i \in 1 .. m /\ holding[i] \in of \cap some
  BY <1>1 DEF ListsAll, Listed
<1>6. \A x \in of \cap some : \E i \in at : holding[i] = x
  BY <1>1 DEF ListsAll, Listed
<1>7. Keyed(places, k)
  <2> HIDE DEF places, k, at
  <2>1. \A i \in 1 .. k : places[i] \in 1 .. m
    BY <1>3, <1>5 DEF ListsAll, Listed
  <2> QED BY <2>1 DEF Keyed
<1> HIDE DEF places, k, at
<1> DEFINE sorted == Sorted(places, places)
<1>8. ListsAll(sorted, at, k)
  BY <1>3, <1>7, SortedLists
<1>9. stay = [i \in DOMAIN sorted |-> holding[sorted[i]]]
  BY DEF Each
<1> HIDE DEF sorted, stay
<1>10. stay = [i \in 1 .. k |-> holding[sorted[i]]] /\ \A i \in 1 .. k : sorted[i] \in at
  BY <1>8, <1>9 DEF ListsAll, Listed
<1>11. stay \in [1 .. k -> of \cap some]
  BY <1>5, <1>10
<1>12. \A i, j \in 1 .. k : i # j => stay[i] # stay[j]
  <2> SUFFICES ASSUME NEW i \in 1 .. k, NEW j \in 1 .. k, i # j
               PROVE  stay[i] # stay[j]
    OBVIOUS
  <2>1. sorted[i] # sorted[j] /\ sorted[i] \in 1 .. m /\ sorted[j] \in 1 .. m
    BY <1>5, <1>8, <1>10 DEF ListsAll, Listed
  <2>2. holding[sorted[i]] # holding[sorted[j]]
    BY <2>1 DEF ListsAll, Listed
  <2> QED BY <1>10, <2>2
<1>13. \A x \in of \cap some : \E i \in 1 .. k : stay[i] = x
  <2> SUFFICES ASSUME NEW x \in of \cap some
               PROVE  \E i \in 1 .. k : stay[i] = x
    OBVIOUS
  <2>1. PICK a \in at : holding[a] = x
    BY <1>6
  <2>2. PICK i \in 1 .. k : sorted[i] = a
    BY <1>8 DEF ListsAll
  <2> QED BY <1>10, <2>1, <2>2
<1>14. ListsAll(stay, of \cap some, k)
  BY <1>11, <1>12, <1>13 DEF ListsAll, Listed
<1> QED BY <1>3, <1>4, <1>14

-----------------------------------------------------------------------------
(* Replacements *)

\* What the replacement loop carries.
SwapStates == [weak : Seq(Symbols), entered : Seq(Symbols)]

\* A candidate has entered, or beats none who is left by more than the margin.
Settled(acc, opinion, cand) ==
  \/ \E k \in 1 .. Len(acc.entered) : acc.entered[k] = cand
  \/ \A j \in 1 .. Len(acc.weak) :
       Conviction(opinion, cand) <= Conviction(opinion, acc.weak[j]) + 1000

\* After i candidates: those who entered have taken the places of the weakest, and all of
\* the candidates are settled.
Swapped(acc, opinion, weakest, ranked, m, i) ==
  /\ acc \in SwapStates
  /\ Len(acc.weak) + Len(acc.entered) = m
  /\ \A j \in 1 .. Len(acc.weak) : acc.weak[j] = weakest[j + Len(acc.entered)]
  /\ \A k \in 1 .. Len(acc.entered) : \E r \in 1 .. i : acc.entered[k] = ranked[r]
  /\ \A j, k \in 1 .. Len(acc.entered) : j # k => acc.entered[j] # acc.entered[k]
  /\ \A r \in 1 .. i : Settled(acc, opinion, ranked[r])

\* One candidate's turn.
LEMMA SwapKeeps ==
  ASSUME NEW opinion, IsOpinion(opinion), NEW m \in Nat, NEW n \in Nat,
         NEW weakest, Strengthens(opinion, weakest, m),
         NEW ranked, Listed(ranked, Symbols, n), NEW i \in 1 .. n,
         NEW acc, Swapped(acc, opinion, weakest, ranked, m, i - 1)
  PROVE  Swapped(Swap(opinion, acc, ranked[i]), opinion, weakest, ranked, m, i)
<1> DEFINE cand == ranked[i]
           a == Len(acc.weak)
           e == Len(acc.entered)
<1>1. /\ acc.weak \in Seq(Symbols) /\ a \in Nat /\ acc.entered \in Seq(Symbols) /\ e \in Nat
      /\ acc = [weak |-> acc.weak, entered |-> acc.entered] /\ cand \in Symbols
  BY DEF Swapped, SwapStates, Listed
<1>2. \A sym : Conviction(opinion, sym) \in Int
  BY KeysTyped
<1>3. CASE ~ (acc.weak # << >>
              /\ Conviction(opinion, cand) > Conviction(opinion, Head(acc.weak)) + 1000)
  <2>1. Swap(opinion, acc, cand) = acc
    BY <1>3 DEF Swap
  <2>2. \A j \in 1 .. a : Conviction(opinion, cand) <= Conviction(opinion, acc.weak[j]) + 1000
    <3> SUFFICES ASSUME NEW j \in 1 .. a
                 PROVE  Conviction(opinion, cand) <= Conviction(opinion, acc.weak[j]) + 1000
      OBVIOUS
    <3>1. acc.weak # << >> /\ Head(acc.weak) = acc.weak[1] /\ 1 \in 1 .. a
      BY <1>1
    <3>2. acc.weak[1] = weakest[1 + e] /\ acc.weak[j] = weakest[j + e]
      BY <3>1 DEF Swapped
    <3>3. Conviction(opinion, weakest[1 + e]) <= Conviction(opinion, weakest[j + e])
      <4>1. CASE j = 1
        BY <1>2, <4>1
      <4>2. CASE j # 1
        <5>1. 1 + e \in 1 .. m /\ j + e \in 1 .. m /\ 1 + e < j + e
          BY <1>1, <4>2 DEF Swapped
        <5> QED BY <5>1 DEF Strengthens
      <4> QED BY <4>1, <4>2
    <3>4. Conviction(opinion, cand) <= Conviction(opinion, acc.weak[1]) + 1000
      <4>1. ~ (Conviction(opinion, cand) > Conviction(opinion, acc.weak[1]) + 1000)
        BY <1>3, <3>1
      <4>2. Conviction(opinion, cand) \in Int /\ Conviction(opinion, acc.weak[1]) \in Int
        BY <1>2
      <4> QED BY <4>1, <4>2
    <3>5. /\ Conviction(opinion, cand) \in Int /\ Conviction(opinion, acc.weak[1]) \in Int
          /\ Conviction(opinion, acc.weak[j]) \in Int
      BY <1>2
    <3> QED BY <3>2, <3>3, <3>4, <3>5
  <2>3. \A r \in 1 .. i : r \in 1 .. i - 1 \/ r = i
    OBVIOUS
  <2>4. \A r \in 1 .. i - 1 : r \in 1 .. i
    OBVIOUS
  <2> HIDE DEF a, e
  <2>5. \A r \in 1 .. i : Settled(acc, opinion, ranked[r])
    <3>1. Settled(acc, opinion, ranked[i])
      BY <2>2 DEF Settled, a
    <3> QED BY <2>3, <3>1 DEF Swapped
  <2>6. \A k \in 1 .. e : \E r \in 1 .. i : acc.entered[k] = ranked[r]
    BY <2>4 DEF Swapped, e
  <2>7. Swapped(acc, opinion, weakest, ranked, m, i)
    <3>1. /\ acc \in SwapStates /\ Len(acc.weak) + Len(acc.entered) = m
          /\ \A j \in 1 .. Len(acc.weak) : acc.weak[j] = weakest[j + Len(acc.entered)]
          /\ \A j, k \in 1 .. Len(acc.entered) : j # k => acc.entered[j] # acc.entered[k]
      BY DEF Swapped
    <3> QED BY <2>5, <2>6, <3>1 DEF Swapped, e
  <2> QED BY <2>1, <2>7
<1>4. CASE /\ acc.weak # << >>
           /\ Conviction(opinion, cand) > Conviction(opinion, Head(acc.weak)) + 1000
  <2> DEFINE weak == Tail(acc.weak)
             entered == Append(acc.entered, cand)
  <2>1. Swap(opinion, acc, cand) = [weak |-> weak, entered |-> entered]
    BY <1>4 DEF Swap
  <2>2. /\ weak \in Seq(Symbols) /\ Len(weak) = a - 1 /\ a >= 1
        /\ \A j \in 1 .. a - 1 : weak[j] = acc.weak[j + 1]
    BY <1>1, <1>4, HeadTailProperties
  <2>3. /\ entered \in Seq(Symbols) /\ Len(entered) = e + 1 /\ entered[e + 1] = cand
        /\ \A k \in 1 .. e : entered[k] = acc.entered[k]
    BY <1>1, AppendProperties
  <2> HIDE DEF weak, entered, a, e
  <2>4. \A k \in 1 .. e + 1 : k = e + 1 \/ k \in 1 .. e
    BY <1>1
  <2>5. \A k \in 1 .. e + 1 : \E r \in 1 .. i : entered[k] = ranked[r]
    <3>1. \A r \in 1 .. i - 1 : r \in 1 .. i
      OBVIOUS
    <3>2. \A k \in 1 .. e : \E r \in 1 .. i : entered[k] = ranked[r]
      BY <2>3, <3>1 DEF Swapped, e
    <3>3. entered[e + 1] = ranked[i] /\ i \in 1 .. i
      BY <2>3
    <3> QED BY <2>4, <3>2, <3>3
  <2>6. \A k \in 1 .. e : acc.entered[k] # cand
    <3> SUFFICES ASSUME NEW k \in 1 .. e, acc.entered[k] = cand
                 PROVE  FALSE
      OBVIOUS
    <3>1. PICK r \in 1 .. i - 1 : acc.entered[k] = ranked[r]
      BY DEF Swapped, e
    <3>2. r \in 1 .. n /\ r # i
      OBVIOUS
    <3> QED BY <3>1, <3>2 DEF Listed
  <2>7. \A j, k \in 1 .. e + 1 : j # k => entered[j] # entered[k]
    <3>1. \A j, k \in 1 .. e : j # k => acc.entered[j] # acc.entered[k]
      BY DEF Swapped, e
    <3> QED BY <2>3, <2>4, <2>6, <3>1
  <2>8. \A j \in 1 .. a - 1 : weak[j] = weakest[j + (e + 1)]
    <3> SUFFICES ASSUME NEW j \in 1 .. a - 1
                 PROVE  weak[j] = weakest[j + (e + 1)]
      OBVIOUS
    <3>1. j + 1 \in 1 .. a /\ (j + 1) + e = j + (e + 1)
      BY <1>1
    <3>2. acc.weak[j + 1] = weakest[(j + 1) + e]
      BY <3>1 DEF Swapped, a, e
    <3> QED BY <2>2, <3>1, <3>2
  <2> DEFINE next == [weak |-> weak, entered |-> entered]
  <2>9. /\ next.weak = weak /\ Len(next.weak) = a - 1
        /\ next.entered = entered /\ Len(next.entered) = e + 1
        /\ next \in SwapStates
    BY <2>2, <2>3 DEF SwapStates
  <2> HIDE DEF next
  <2>11. \A r \in 1 .. i : Settled(next, opinion, ranked[r])
    <3> SUFFICES ASSUME NEW r \in 1 .. i
                 PROVE  Settled(next, opinion, ranked[r])
      OBVIOUS
    <3>1. CASE r = i
      <4>1. e + 1 \in 1 .. e + 1 /\ next.entered[e + 1] = ranked[r]
        BY <1>1, <2>3, <2>9, <3>1
      <4> QED BY <2>9, <4>1 DEF Settled
    <3>2. CASE r \in 1 .. i - 1
      <4>1. Settled(acc, opinion, ranked[r])
        BY <3>2 DEF Swapped
      <4>2. \A k \in 1 .. e : k \in 1 .. e + 1 /\ next.entered[k] = acc.entered[k]
        <5>1. \A k \in 1 .. e : k \in 1 .. e + 1
          BY <1>1
        <5> QED BY <2>3, <2>9, <5>1
      <4>3. \A j \in 1 .. a - 1 : j + 1 \in 1 .. a /\ next.weak[j] = acc.weak[j + 1]
        <5>1. \A j \in 1 .. a - 1 : j + 1 \in 1 .. a
          BY <1>1
        <5> QED BY <2>2, <2>9, <5>1
      <4>4. CASE \E k \in 1 .. e : acc.entered[k] = ranked[r]
        BY <2>9, <4>2, <4>4 DEF Settled
      <4>5. CASE \A j \in 1 .. a :
                   Conviction(opinion, ranked[r]) <= Conviction(opinion, acc.weak[j]) + 1000
        <5>1. \A j \in 1 .. a - 1 :
                Conviction(opinion, ranked[r]) <= Conviction(opinion, next.weak[j]) + 1000
          BY <4>3, <4>5
        <5> QED BY <2>9, <5>1 DEF Settled
      <4> QED BY <4>1, <4>4, <4>5 DEF Settled, a, e
    <3> QED BY <3>1, <3>2
  <2>10. (a - 1) + (e + 1) = m
    BY <1>1 DEF Swapped, a, e
  <2>12. Swapped(next, opinion, weakest, ranked, m, i)
    <3>1. Len(next.weak) + Len(next.entered) = m
      BY <2>9, <2>10
    <3>2. \A j \in 1 .. Len(next.weak) : next.weak[j] = weakest[j + Len(next.entered)]
      BY <2>8, <2>9
    <3>3. \A k \in 1 .. Len(next.entered) : \E r \in 1 .. i : next.entered[k] = ranked[r]
      BY <2>5, <2>9
    <3>4. \A j, k \in 1 .. Len(next.entered) : j # k => next.entered[j] # next.entered[k]
      BY <2>7, <2>9
    <3> QED BY <2>9, <2>11, <3>1, <3>2, <3>3, <3>4 DEF Swapped
  <2> QED BY <2>1, <2>12 DEF next
<1> QED BY <1>3, <1>4

\* All candidates have had their turn.
LEMMA SwapsEnd ==
  ASSUME NEW opinion, IsOpinion(opinion), NEW m \in Nat, NEW n \in Nat,
         NEW weakest, Listed(weakest, Symbols, m), Strengthens(opinion, weakest, m),
         NEW ranked, Listed(ranked, Symbols, n)
  PROVE  /\ Len(ranked) = n
         /\ Swapped(Swaps(opinion, weakest, ranked)[n], opinion, weakest, ranked, m, n)
<1>1. Len(ranked) = n /\ weakest \in Seq(Symbols) /\ Len(weakest) = m
  BY DEF Listed
<1> DEFINE base == [weak |-> weakest, entered |-> << >>]
           step == [i \in 1 .. n |-> [acc \in SwapStates |-> Swap(opinion, acc, ranked[i])]]
<1>2. base \in SwapStates
  BY <1>1 DEF SwapStates
<1>3. \A i \in 1 .. n : \A acc \in SwapStates : Swap(opinion, acc, ranked[i]) \in SwapStates
  <2> SUFFICES ASSUME NEW i \in 1 .. n, NEW acc \in SwapStates
               PROVE  Swap(opinion, acc, ranked[i]) \in SwapStates
    OBVIOUS
  <2>1. acc.weak \in Seq(Symbols) /\ acc.entered \in Seq(Symbols) /\ ranked[i] \in Symbols
    BY DEF SwapStates, Listed
  <2>2. acc.weak # << >> => Tail(acc.weak) \in Seq(Symbols)
    BY <2>1
  <2>3. Append(acc.entered, ranked[i]) \in Seq(Symbols)
    BY <2>1
  <2> QED BY <2>2, <2>3 DEF Swap, SwapStates
<1>4. step \in [1 .. n -> [SwapStates -> SwapStates]]
  BY <1>3
<1> DEFINE IsSwaps(f) == f = [i \in 0 .. n |-> IF i = 0 THEN base
                                             ELSE Swap(opinion, f[i - 1], ranked[i])]
<1>5. PICK f \in [0 .. n -> SwapStates] : Runs(f, n, base, step)
  <2> HIDE DEF base, step
  <2> QED BY <1>2, <1>4, LoopRuns
<1>6. IsSwaps(f)
  <2>1. \A i \in 0 .. n : i # 0 => i \in 1 .. n /\ i - 1 \in 0 .. n
    OBVIOUS
  <2>2. \A i \in 0 .. n : i # 0 => step[i][f[i - 1]] = Swap(opinion, f[i - 1], ranked[i])
    BY <1>5, <2>1
  <2> HIDE DEF step, base
  <2> QED BY <1>5, <2>2 DEF Runs
<1> DEFINE swaps == CHOOSE g : IsSwaps(g)
<1>7. Swaps(opinion, weakest, ranked) = swaps /\ IsSwaps(swaps)
  BY <1>1, <1>6 DEF Swaps
<1> HIDE DEF swaps
<1>8. swaps[0] = base /\ \A i \in 1 .. n : swaps[i] = Swap(opinion, swaps[i - 1], ranked[i])
  BY <1>7
<1> DEFINE good == {i \in 0 .. n : Swapped(swaps[i], opinion, weakest, ranked, m, i)}
<1>9. 0 \in good
  <2>1. /\ swaps[0].weak = weakest /\ Len(swaps[0].weak) = m
        /\ swaps[0].entered = << >> /\ Len(swaps[0].entered) = 0
        /\ swaps[0] \in SwapStates
    BY <1>1, <1>2, <1>8
  <2> HIDE DEF base, step
  <2> DEFINE acc == swaps[0]
  <2>2. Len(acc.weak) + Len(acc.entered) = m
    BY <2>1
  <2>3. \A j \in 1 .. Len(acc.weak) : acc.weak[j] = weakest[j + Len(acc.entered)]
    <3>1. \A j \in 1 .. m : j + 0 = j
      OBVIOUS
    <3> HIDE DEF acc
    <3> QED BY <2>1, <3>1 DEF acc
  <2>4. \A k \in 1 .. Len(acc.entered) : FALSE
    BY <2>1
  <2>5. \A r \in 1 .. 0 : FALSE
    OBVIOUS
  <2>6. acc \in SwapStates
    BY <2>1
  <2> HIDE DEF acc
  <2>7. Swapped(acc, opinion, weakest, ranked, m, 0)
    BY <2>2, <2>3, <2>4, <2>5, <2>6 DEF Swapped
  <2> QED BY <2>7 DEF acc
<1>10. \A i \in 1 .. n : i - 1 \in good => i \in good
  BY <1>8, SwapKeeps
<1>11. n \in good
  <2> HIDE DEF good
  <2>1. \A i \in 0 .. n : i \in good
    BY <1>9, <1>10, Rounds
  <2> QED BY <2>1
<1> QED BY <1>1, <1>7, <1>11

\* As many as there are slots are taken from the front of a list.
LEMMA FirstListed ==
  ASSUME NEW n \in Nat, NEW some, NEW list, ListsAll(list, some, n), NEW c \in Nat
  PROVE  LET k == AtMost(c, n)
         IN  /\ k \in Nat /\ k <= n /\ k <= c /\ (k = c \/ k = n)
             /\ Listed(FirstOf(c, list), some, k)
             /\ k = n => ToSet(FirstOf(c, list)) = some
<1> DEFINE k == AtMost(c, n)
           first == SubSeq(list, 1, k)
<1>1. k \in Nat /\ k <= n /\ k <= c /\ (k = c \/ k = n)
  BY DEF AtMost
<1>2. Len(list) = n /\ \A i \in 1 .. n : list[i] \in some
  BY DEF ListsAll, Listed
<1>3. FirstOf(c, list) = first
  BY <1>2 DEF FirstOf
<1> HIDE DEF k
<1>4. first \in [1 .. k -> some] /\ \A i \in 1 .. k : first[i] = list[i]
  <2>1. 1 \in Int /\ k \in Int /\ \A i \in 1 .. k : list[i] \in some
    BY <1>1, <1>2
  <2>2. /\ first \in Seq(some)
        /\ Len(first) = IF 1 <= k THEN (k - 1) + 1 ELSE 0
        /\ \A i \in 1 .. ((k - 1) + 1) : first[i] = list[(1 + i) - 1]
    BY <2>1, SubSeqProperties
  <2>3. Len(first) = k /\ \A i \in 1 .. k : first[i] = list[i]
    BY <1>1, <2>2
  <2> QED BY <2>2, <2>3, LenProperties
<1>5. \A i, j \in 1 .. k : i # j => first[i] # first[j]
  <2>1. \A i \in 1 .. k : i \in 1 .. n
    BY <1>1
  <2> QED BY <1>4, <2>1 DEF ListsAll, Listed
<1>7. k = n => \A x \in some : \E i \in 1 .. k : first[i] = x
  BY <1>4 DEF ListsAll
<1> HIDE DEF first
<1>6. Listed(first, some, k)
  BY <1>4, <1>5 DEF Listed
<1>8. k = n => ToSet(first) = some
  BY <1>1, <1>6, <1>7, ListsSet DEF ListsAll
<1> QED BY <1>1, <1>3, <1>6, <1>8 DEF k

\* What a selection is to be: with free slots the retained stay and the slots are filled
\* as far as there are candidates, and without any as many leave as enter, until nobody
\* who stays out beats one who stays by more than the margin.
Selected(sel, opinion, holding, candidates, m, a, b) ==
  /\ Listed(sel.kept, ToSet(holding), a) /\ Listed(sel.new, candidates, b)
  /\ m < EngineMax => /\ sel.kept = holding /\ a = m /\ b <= EngineMax - m
                      /\ b = EngineMax - m \/ ToSet(sel.new) = candidates
  /\ m >= EngineMax => /\ a + b = m
                       /\ \A x \in ToSet(sel.kept), y \in candidates \ ToSet(sel.new) :
                            Conviction(opinion, y) <= Conviction(opinion, x) + 1000

\* The engine selects so.
LEMMA SelectionIs ==
  ASSUME NEW opinion, IsOpinion(opinion),
         NEW m \in Nat, NEW holding, Listed(holding, Symbols, m)
  PROVE  \E a, b \in Nat :
           Selected(Selection(opinion, holding), opinion, holding,
                    Entrants(opinion, ToSet(holding)), m, a, b)
<1> DEFINE candidates == Entrants(opinion, ToSet(holding))
           ranked == Ranked(opinion, holding)
           weakest == Weakest(opinion, holding)
           sel == Selection(opinion, holding)
<1>1. PICK n \in Nat : ListsAll(ranked, candidates, n)
  BY RankedIs
<1>2. /\ ListsAll(holding, ToSet(holding), m) /\ ToSet(holding) \subseteq Symbols
      /\ Len(holding) = m
  BY ListsItsOwn DEF Listed
<1>3. ListsAll(weakest, ToSet(holding), m) /\ Strengthens(opinion, weakest, m)
  BY WeakestIs
<1>4. candidates \subseteq Symbols
  BY DEF Entrants, IsOpinion
<1> HIDE DEF candidates, ranked, weakest
<1>5. Listed(weakest, Symbols, m) /\ Listed(ranked, Symbols, n) /\ Listed(ranked, candidates, n)
  BY <1>1, <1>2, <1>3, <1>4 DEF ListsAll, Listed
<1>6. EngineMax \in Nat
  BY EngineAssumption
<1>7. CASE m < EngineMax
  <2> DEFINE c == EngineMax - m
             new == FirstOf(c, ranked)
             b == AtMost(c, n)
  <2>1. sel = [kept |-> holding, new |-> new]
    BY <1>2, <1>6, <1>7 DEF Selection, ranked
  <2>2. c \in Nat
    BY <1>6, <1>7
  <2> HIDE DEF c, b, new, sel
  <2>3. /\ b \in Nat /\ b <= n /\ b <= c /\ (b = c \/ b = n) /\ Listed(new, candidates, b)
        /\ b = n => ToSet(new) = candidates
    BY <1>1, <2>2, FirstListed DEF b, new
  <2>5. sel.kept = holding /\ sel.new = new
    BY <2>1
  <2>6. Listed(holding, ToSet(holding), m)
    BY <1>2 DEF ListsAll
  <2>7. Selected(sel, opinion, holding, candidates, m, m, b)
    BY <1>6, <1>7, <2>3, <2>5, <2>6 DEF Selected, c
  <2> QED BY <2>3, <2>7 DEF sel, candidates
<1>8. CASE ~ (m < EngineMax)
  <2> DEFINE acc == Swaps(opinion, weakest, ranked)[n]
             stay == Among(holding, ToSet(acc.weak))
             a == Len(acc.weak)
             b == Len(acc.entered)
  <2>1. Len(ranked) = n /\ Swapped(acc, opinion, weakest, ranked, m, n)
    BY <1>3, <1>5, SwapsEnd
  <2>2. sel = [kept |-> stay, new |-> acc.entered]
    BY <1>2, <1>6, <1>8, <2>1 DEF Selection, ranked, weakest
  <2> HIDE DEF acc, stay, sel
  <2>3. /\ acc.weak \in [1 .. a -> Symbols] /\ a \in Nat
        /\ acc.entered \in [1 .. b -> Symbols] /\ b \in Nat /\ a + b = m
    BY <2>1 DEF Swapped, SwapStates
  <2> HIDE DEF a, b
  <2>4. Listed(acc.weak, ToSet(holding), a)
    <3>0. \A j \in 1 .. a : j + b \in 1 .. m
      BY <2>3
    <3>1. \A j \in 1 .. a : acc.weak[j] = weakest[j + b] /\ j + b \in 1 .. m
      <4>1. \A j \in 1 .. a : acc.weak[j] = weakest[j + b]
        BY <2>1 DEF Swapped, a, b
      <4> QED BY <3>0, <4>1
    <3>2. \A j \in 1 .. a : acc.weak[j] \in ToSet(holding)
      BY <1>3, <3>1 DEF ListsAll, Listed
    <3>3. \A j, k \in 1 .. a : j # k => j + b # k + b
      BY <2>3
    <3>4. \A j, k \in 1 .. a : j # k => acc.weak[j] # acc.weak[k]
      BY <1>3, <3>1, <3>3 DEF ListsAll, Listed
    <3> QED BY <2>3, <3>2, <3>4 DEF Listed
  <2>5. ListsAll(acc.weak, ToSet(acc.weak), a) /\ ToSet(acc.weak) \subseteq ToSet(holding)
    BY <2>3, <2>4, ListsItsOwn
  <2>6. ListsAll(stay, ToSet(acc.weak), a)
    <3>1. PICK k \in Nat : ListsAll(stay, ToSet(holding) \cap ToSet(acc.weak), k)
      BY <1>2, AmongIs DEF stay
    <3>2. ToSet(holding) \cap ToSet(acc.weak) = ToSet(acc.weak)
      BY <2>5
    <3>3. Cardinality(ToSet(acc.weak)) = a
      BY <2>3, <2>5, ListLength
    <3>4. Cardinality(ToSet(acc.weak)) = k
      BY <3>1, <3>2, ListLength
    <3> QED BY <3>1, <3>2, <3>3, <3>4
  <2>7. Listed(stay, ToSet(holding), a) /\ ToSet(stay) = ToSet(acc.weak)
    <3>1. Listed(stay, ToSet(acc.weak), a) /\ ToSet(stay) = ToSet(acc.weak)
      BY <2>3, <2>6, ListsSet
    <3> QED BY <2>5, <3>1 DEF Listed
  <2>8. Listed(acc.entered, candidates, b)
    <3>1. \A k \in 1 .. b : acc.entered[k] \in candidates
      BY <1>5, <2>1 DEF Swapped, Listed, b
    <3>2. \A j, k \in 1 .. b : j # k => acc.entered[j] # acc.entered[k]
      BY <2>1 DEF Swapped, b
    <3> QED BY <2>3, <3>1, <3>2 DEF Listed
  <2>9. \A x \in ToSet(acc.weak), y \in candidates \ ToSet(acc.entered) :
          Conviction(opinion, y) <= Conviction(opinion, x) + 1000
    <3> SUFFICES ASSUME NEW x \in ToSet(acc.weak), NEW y \in candidates, y \notin ToSet(acc.entered)
                 PROVE  Conviction(opinion, y) <= Conviction(opinion, x) + 1000
      OBVIOUS
    <3>1. PICK r \in 1 .. n : ranked[r] = y
      BY <1>1 DEF ListsAll
    <3>2. PICK j \in 1 .. a : acc.weak[j] = x
      BY <2>3 DEF ToSet
    <3>3. Settled(acc, opinion, y)
      BY <2>1, <3>1 DEF Swapped
    <3>4. ~ \E k \in 1 .. b : acc.entered[k] = y
      BY <2>3 DEF ToSet
    <3> QED BY <3>2, <3>3, <3>4 DEF Settled, a, b
  <2>10. sel.kept = stay /\ sel.new = acc.entered
    BY <2>2
  <2>11. Selected(sel, opinion, holding, candidates, m, a, b)
    BY <1>8, <2>3, <2>7, <2>8, <2>9, <2>10 DEF Selected
  <2> QED BY <2>3, <2>11 DEF sel, candidates
<1> QED BY <1>7, <1>8

-----------------------------------------------------------------------------
(* Weights *)

\* A new position's grade is a share of the equity.
LEMMA GradeTyped ==
  ASSUME NEW conf
  PROVE  Grade(conf) \in 0..100
<1>1. BaseWeight \in 0..100
  BY EngineAssumption DEF BaseWeight
<1>2. \A w \in 0..100 : w \div 2 \in 0..100 /\ w \div 4 \in 0..100
  OBVIOUS
<1> QED BY <1>1, <1>2 DEF Grade

\* The exposure that is left is never negative.
LEMMA LeftTyped ==
  ASSUME NEW opinion, NEW b \in Nat, NEW new, DOMAIN new = 1 .. b, Len(new) = b,
         NEW exposure \in Nat
  PROVE  \A i \in 0 .. b : Left(opinion, new, exposure)[i] \in Nat
<1> DEFINE Rest(i, x) == AtLeast(0, x - Grade(opinion[new[i]].conf))
           step == [i \in 1 .. b |-> [x \in Nat |-> Rest(i, x)]]
           IsLeft(f) == f = [i \in 0 .. b |-> IF i = 0 THEN exposure ELSE Rest(i, f[i - 1])]
           left == CHOOSE f : IsLeft(f)
<1>1. \A i \in 1 .. b : \A x \in Nat : Rest(i, x) \in Nat
  <2>1. \A conf : Grade(conf) \in 0..100
    BY GradeTyped
  <2>2. \A g \in 0..100, x \in Nat : AtLeast(0, x - g) \in Nat
    BY DEF AtLeast
  <2> QED BY <2>1, <2>2
<1> HIDE DEF Rest
<1>2. step \in [1 .. b -> [Nat -> Nat]]
  BY <1>1
<1>3. PICK f \in [0 .. b -> Nat] : Runs(f, b, exposure, step)
  <2> HIDE DEF step
  <2> QED BY <1>2, LoopRuns
<1>4. IsLeft(f)
  <2>1. \A i \in 0 .. b : i # 0 => i \in 1 .. b /\ f[i - 1] \in Nat
    BY <1>3
  <2>2. \A i \in 0 .. b : i # 0 => step[i][f[i - 1]] = Rest(i, f[i - 1])
    BY <2>1
  <2> HIDE DEF step
  <2> QED BY <1>3, <2>2 DEF Runs
<1>5. Left(opinion, new, exposure) = left /\ IsLeft(left)
  BY <1>4 DEF Left, Rest
<1> HIDE DEF left
<1>6. left[0] = exposure /\ \A i \in 1 .. b : left[i] = Rest(i, left[i - 1])
  BY <1>5
<1> DEFINE good == {i \in 0 .. b : left[i] \in Nat}
<1>7. 0 \in good /\ \A i \in 1 .. b : i - 1 \in good => i \in good
  <2>1. 0 \in good
    BY <1>6
  <2>2. \A i \in 1 .. b : i \in 0 .. b
    OBVIOUS
  <2>3. \A i \in 1 .. b : left[i - 1] \in Nat => left[i] \in Nat
    BY <1>1, <1>6
  <2> QED BY <2>1, <2>2, <2>3
<1>8. \A i \in 0 .. b : i \in good
  <2> HIDE DEF good
  <2> QED BY <1>7, Rounds
<1> QED BY <1>5, <1>8

\* A list of positions on the symbols of a list.
On(positions, list, n) ==
  positions \in [1 .. n -> Positions] /\ \A i \in 1 .. n : positions[i].sym = list[i]

\* The new positions are on the symbols chosen, on the sides decided.
LEMMA SizedIs ==
  ASSUME NEW opinion, IsOpinion(opinion), NEW holding, NEW b \in Nat,
         NEW new, Listed(new, Entrants(opinion, ToSet(holding)), b), NEW exposure \in Nat
  PROVE  /\ On(Sized(opinion, new, exposure), new, b)
         /\ \A i \in 1 .. b : Sized(opinion, new, exposure)[i].side = opinion[new[i]].action
<1> DEFINE left == Left(opinion, new, exposure)
           weight(i) == AtMost(Grade(opinion[new[i]].conf), left[i - 1])
           sized == Sized(opinion, new, exposure)
<1>1. DOMAIN new = 1 .. b /\ Len(new) = b
  BY DEF Listed
<1>2. \A i \in 1 .. b : new[i] \in Symbols /\ opinion[new[i]].action \in Sides
  BY DEF Listed, Entrants, IsOpinion
<1>3. \A i \in 0 .. b : left[i] \in Nat
  BY <1>1, LeftTyped
<1>4. sized = [i \in 1 .. b |-> Position(new[i], opinion[new[i]].action, weight(i))]
  BY <1>1 DEF Sized
<1> HIDE DEF left
<1>5. \A i \in 1 .. b : weight(i) \in 0..100
  <2>1. \A i \in 1 .. b : i - 1 \in 0 .. b
    OBVIOUS
  <2>2. \A i \in 1 .. b : left[i - 1] \in Nat
    BY <1>3, <2>1
  <2> QED BY <2>2, GradeTyped DEF AtMost
<1> HIDE DEF weight
<1>6. \A i \in 1 .. b : /\ Position(new[i], opinion[new[i]].action, weight(i)) \in Positions
                        /\ Position(new[i], opinion[new[i]].action, weight(i)).sym = new[i]
                        /\ Position(new[i], opinion[new[i]].action, weight(i)).side
                             = opinion[new[i]].action
  BY <1>2, <1>5 DEF Position, Positions
<1> QED BY <1>4, <1>6 DEF On

\* Retained positions are on the symbols that stay, and LONG.
LEMMA RetainedIs ==
  ASSUME NEW a \in Nat, NEW stay, Listed(stay, Symbols, a)
  PROVE  /\ On(RetainedPositions(stay), stay, a)
         /\ \A i \in 1 .. a : RetainedPositions(stay)[i].side = "LONG"
<1>1. DOMAIN stay = 1 .. a /\ \A i \in 1 .. a : stay[i] \in Symbols
  BY DEF Listed
<1>2. RetainedPositions(stay) = [i \in 1 .. a |-> Position(stay[i], "LONG", 10)]
  BY <1>1 DEF RetainedPositions, Each
<1>3. ASSUME NEW sym \in Symbols
      PROVE  Position(sym, "LONG", 10) \in Positions
  BY DEF Position, Positions, Sides
<1>4. \A i \in 1 .. a : /\ Position(stay[i], "LONG", 10) \in Positions
                        /\ Position(stay[i], "LONG", 10).sym = stay[i]
                        /\ Position(stay[i], "LONG", 10).side = "LONG"
  BY <1>1, <1>3 DEF Position
<1> QED BY <1>2, <1>4 DEF On

\* The weights of the correlated group's members, and none for the others.
GroupShares(positions) ==
  [i \in DOMAIN positions |-> IF InGroup(positions[i]) THEN positions[i].weight ELSE 0]

\* They are added up to a whole number.
LEMMA GroupTyped ==
  ASSUME NEW n \in Nat, NEW positions \in [1 .. n -> Positions]
  PROVE  /\ GroupShares(positions) \in [1 .. n -> Nat]
         /\ GroupShares(positions) \in [1 .. n -> Int]
         /\ GroupWeight(positions) = SumFunction(GroupShares(positions))
         /\ GroupWeight(positions) \in Nat
<1> DEFINE w == GroupShares(positions)
<1>1. \A i \in 1 .. n : positions[i].weight \in 0..100
  BY DEF Positions
<1>2. w \in [1 .. n -> 0..100] /\ w \in [1 .. n -> Nat] /\ w \in [1 .. n -> Int]
  <2> DEFINE share(i) == IF InGroup(positions[i]) THEN positions[i].weight ELSE 0
  <2>1. \A i \in 1 .. n : share(i) = 0 \/ share(i) = positions[i].weight
    OBVIOUS
  <2>2. w = [i \in 1 .. n |-> share(i)]
    BY DEF GroupShares
  <2> DEFINE Percent == 0..100
  <2>3. 0 \in Percent /\ Percent \subseteq Nat /\ Percent \subseteq Int
    OBVIOUS
  <2>4. \A i \in 1 .. n : positions[i].weight \in Percent
    BY <1>1
  <2> HIDE DEF w, share, Percent
  <2>5. \A i \in 1 .. n : share(i) \in Percent
    BY <2>1, <2>3, <2>4, Zenon
  <2>6. \A i \in 1 .. n : share(i) \in Nat /\ share(i) \in Int
    BY <2>3, <2>5, Zenon
  <2> QED BY <2>2, <2>5, <2>6 DEF Percent
<1>3. GroupWeight(positions) = SumFunction(w)
  BY DEF GroupShares, GroupWeight
<1> HIDE DEF w
<1>4. IsFiniteSet(1 .. n)
  BY FS_Interval
<1>5. SumFunction(w) \in Int
  BY <1>2, <1>4, SumAll
<1>6. \A i \in 1 .. n : w[i] * 0 <= w[i] * 1
  <2>1. \A x \in 0..100 : x * 0 <= x * 1
    OBVIOUS
  <2> QED BY <1>2, <2>1
<1>7. SumFunction(w) * 0 <= SumFunction(w) * 1
  BY <1>2, <1>4, <1>6, SumScaled
<1> QED BY <1>2, <1>3, <1>5, <1>7 DEF w

\* Cutting positions off and making others lighter makes the group no heavier.
LEMMA GroupOfFewer ==
  ASSUME NEW n \in Nat, NEW k \in 0 .. n, NEW before \in [1 .. n -> Positions],
         NEW after \in [1 .. k -> Positions], Lighter(after, before, k)
  PROVE  GroupWeight(after) <= GroupWeight(before)
<1> DEFINE v == GroupShares(after)
           w == GroupShares(before)
<1>1. k \in Nat
  OBVIOUS
<1>2. v \in [1 .. k -> Int] /\ GroupWeight(after) = SumFunction(v)
  BY <1>1, GroupTyped
<1>3. w \in [1 .. n -> Nat] /\ GroupWeight(before) = SumFunction(w)
  BY GroupTyped
<1>4. NoLarger(v, w)
  <2> SUFFICES ASSUME NEW i \in 1 .. k
               PROVE  v[i] <= w[i]
    BY <1>2 DEF NoLarger
  <2>1. /\ after[i].sym = before[i].sym /\ after[i].weight <= before[i].weight
        /\ i \in 1 .. n
    BY DEF Lighter
  <2>2. v[i] = IF InGroup(after[i]) THEN after[i].weight ELSE 0
    BY DEF GroupShares
  <2>3. w[i] = IF InGroup(before[i]) THEN before[i].weight ELSE 0
    BY <2>1 DEF GroupShares
  <2> QED BY <2>1, <2>2, <2>3 DEF InGroup
<1> HIDE DEF v, w
<1>6. SumFunction(v) <= SumFunction(w)
  BY <1>2, <1>3, <1>4, SumOfFewer
<1> QED BY <1>2, <1>3, <1>6

\* The book lists the positions that are retained before the new ones.
LEMMA BookIs ==
  ASSUME NEW a \in Nat, NEW b \in Nat,
         NEW first \in [1 .. a -> Positions], NEW second \in [1 .. b -> Positions]
  PROVE  /\ Book(first, second) \in [1 .. a + b -> Positions]
         /\ \A i \in 1 .. a : Book(first, second)[i] = first[i]
         /\ \A i \in a + 1 .. a + b : Book(first, second)[i] = second[i - a]
<1>1. first \in Seq(Positions) /\ Len(first) = a /\ second \in Seq(Positions) /\ Len(second) = b
  OBVIOUS
<1>2. Book(first, second) = first \o second
  BY DEF Book
<1>3. /\ first \o second \in Seq(Positions) /\ Len(first \o second) = a + b
      /\ \A i \in 1 .. a + b : (first \o second)[i] = IF i <= a THEN first[i] ELSE second[i - a]
  BY <1>1, ConcatProperties
<1>4. first \o second \in [1 .. a + b -> Positions]
  BY <1>3, LenProperties
<1>5. \A i \in 1 .. a : i \in 1 .. a + b /\ i <= a
  OBVIOUS
<1>6. \A i \in a + 1 .. a + b : i \in 1 .. a + b /\ ~ (i <= a)
  OBVIOUS
<1> QED BY <1>2, <1>3, <1>4, <1>5, <1>6

\* The cap of the correlated group is a number.
LEMMA GroupCapTyped == GroupCap \in Nat
<1>1. GroupCap \in 0..100
  BY EngineAssumption DEF Shares
<1> QED BY <1>1

\* When the group weighs too much, its new members are scaled down, and nothing else.
LEMMA GroupScaledIs ==
  ASSUME NEW a \in Nat, NEW b \in Nat,
         NEW retained \in [1 .. a -> Positions], NEW new \in [1 .. b -> Positions]
  PROVE  LET total == GroupWeight(retained \o new)
             scaled == GroupScaled(retained, new)
         IN  /\ scaled \in [1 .. b -> Positions] /\ Lighter(scaled, new, b)
             /\ total \in Nat
             /\ total <= GroupCap => scaled = new
             /\ total > GroupCap =>
                  \A i \in 1 .. b : /\ ~ InGroup(new[i]) => ~ InGroup(scaled[i])
                                    /\ InGroup(new[i]) => InGroup(scaled[i])
                                    /\ InGroup(new[i]) =>
                                         scaled[i].weight * total <= new[i].weight * GroupCap
<1> DEFINE total == GroupWeight(retained \o new)
           scaled == GroupScaled(retained, new)
           Small(p) == IF InGroup(p) THEN [p EXCEPT !.weight = (@ * GroupCap) \div total] ELSE p
<1>1. a + b \in Nat /\ retained \o new \in [1 .. a + b -> Positions]
  <2>1. Book(retained, new) \in [1 .. a + b -> Positions]
    BY BookIs
  <2>2. a + b \in Nat
    OBVIOUS
  <2> QED BY <2>1, <2>2 DEF Book
<1>2. total \in Nat
  BY <1>1, GroupTyped
<1>3. GroupCap \in Nat
  BY GroupCapTyped
<1>4. scaled = IF total <= GroupCap THEN new ELSE Each(new, Small)
  BY DEF GroupScaled
<1>5. \A i \in 1 .. b : new[i] \in Positions
  OBVIOUS
<1> HIDE DEF scaled
<1>6. CASE total <= GroupCap
  <2>1. scaled = new /\ ~ (total > GroupCap)
    BY <1>2, <1>3, <1>4, <1>6
  <2>2. Lighter(new, new, b)
    <3>1. \A i \in 1 .. b : new[i].weight \in Int
      BY <1>5, WeightTyped
    <3> QED BY <3>1 DEF Lighter
  <2> QED BY <1>2, <2>1, <2>2 DEF scaled
<1>7. CASE ~ (total <= GroupCap)
  <2>1. GroupCap <= total /\ total \in Nat \ {0}
    BY <1>2, <1>3, <1>7
  <2> HIDE DEF total
  <2>2. ASSUME NEW p \in Positions, NEW w \in 0..100
        PROVE  /\ [p EXCEPT !.weight = w] \in Positions
               /\ [p EXCEPT !.weight = w].sym = p.sym /\ [p EXCEPT !.weight = w].side = p.side
               /\ [p EXCEPT !.weight = w].weight = w
    BY DEF Positions
  <2>3. ASSUME NEW p \in Positions
        PROVE  /\ Small(p) \in Positions /\ Small(p).sym = p.sym /\ Small(p).side = p.side
               /\ Small(p).weight <= p.weight
               /\ InGroup(p) => Small(p).weight * total <= p.weight * GroupCap
    <3>0. p.weight \in 0..100
      BY DEF Positions
    <3>1. p.weight \in 0..100 /\ p.weight <= p.weight
      <4>1. \A x \in 0..100 : x <= x
        OBVIOUS
      <4> QED BY <3>0, <4>1
    <3> DEFINE w == (p.weight * GroupCap) \div total
    <3>2. w \in 0..100 /\ w <= p.weight /\ w * total <= p.weight * GroupCap
      BY <1>3, <2>1, <3>1, ShareScaled
    <3>3. CASE InGroup(p)
      <4>1. Small(p) = [p EXCEPT !.weight = w]
        BY <3>3
      <4> HIDE DEF w, Small
      <4>3. /\ [p EXCEPT !.weight = w] \in Positions
            /\ [p EXCEPT !.weight = w].sym = p.sym /\ [p EXCEPT !.weight = w].side = p.side
            /\ [p EXCEPT !.weight = w].weight = w
        BY <2>2, <3>2
      <4>2. /\ Small(p) \in Positions /\ Small(p).sym = p.sym /\ Small(p).side = p.side
            /\ Small(p).weight = w
        BY <4>1, <4>3
      <4> QED BY <3>2, <4>2
    <3>4. CASE ~ InGroup(p)
      <4>1. Small(p) = p
        BY <3>4
      <4> HIDE DEF w, Small
      <4> QED BY <3>1, <3>4, <4>1
    <3> QED BY <3>3, <3>4
  <2>4. scaled = [i \in 1 .. b |-> Small(new[i])]
    BY <1>4, <1>7 DEF Each, total
  <2> HIDE DEF Small
  <2>5. \A i \in 1 .. b : /\ scaled[i] \in Positions
                          /\ scaled[i].sym = new[i].sym /\ scaled[i].side = new[i].side
                          /\ scaled[i].weight <= new[i].weight
                          /\ InGroup(new[i]) => scaled[i].weight * total <= new[i].weight * GroupCap
    BY <1>5, <2>3, <2>4
  <2>6. scaled \in [1 .. b -> Positions]
    BY <2>4, <2>5
  <2>7. Lighter(scaled, new, b)
    BY <2>5 DEF Lighter
  <2>8. \A i \in 1 .. b : InGroup(scaled[i]) <=> InGroup(new[i])
    BY <2>5 DEF InGroup
  <2> QED BY <1>2, <1>7, <2>5, <2>6, <2>7, <2>8 DEF scaled, total
<1> QED BY <1>6, <1>7

\* As long as no retained position is in the group, the book keeps to the group's cap.
LEMMA GroupFits ==
  ASSUME NEW a \in Nat, NEW b \in Nat,
         NEW retained \in [1 .. a -> Positions], NEW new \in [1 .. b -> Positions],
         \A i \in 1 .. a : ~ InGroup(retained[i])
  PROVE  GroupWeight(Book(retained, GroupScaled(retained, new))) <= GroupCap
<1> DEFINE total == GroupWeight(retained \o new)
           scaled == GroupScaled(retained, new)
           before == Book(retained, new)
           after == Book(retained, scaled)
           n == a + b
<1>1. /\ scaled \in [1 .. b -> Positions] /\ total \in Nat
      /\ total <= GroupCap => scaled = new
      /\ total > GroupCap =>
           \A i \in 1 .. b : /\ ~ InGroup(new[i]) => ~ InGroup(scaled[i])
                             /\ InGroup(new[i]) => InGroup(scaled[i])
                             /\ InGroup(new[i]) =>
                                  scaled[i].weight * total <= new[i].weight * GroupCap
  BY GroupScaledIs
<1>2. before = retained \o new
  BY DEF Book
<1>3. GroupCap \in Nat
  BY GroupCapTyped
<1> HIDE DEF scaled
<1>4. CASE total <= GroupCap
  <2>1. after = retained \o new
    BY <1>1, <1>4 DEF Book
  <2> QED BY <1>4, <2>1 DEF scaled
<1>5. CASE ~ (total <= GroupCap)
  <2>1. total > GroupCap
    BY <1>1, <1>3, <1>5
  <2>2. /\ n \in Nat /\ before \in [1 .. n -> Positions] /\ after \in [1 .. n -> Positions]
        /\ \A i \in 1 .. a : before[i] = retained[i] /\ after[i] = retained[i]
        /\ \A i \in a + 1 .. n : before[i] = new[i - a] /\ after[i] = scaled[i - a]
    <3>1. n \in Nat
      OBVIOUS
    <3>2. /\ before \in [1 .. n -> Positions] /\ \A i \in 1 .. a : before[i] = retained[i]
          /\ \A i \in a + 1 .. n : before[i] = new[i - a]
      BY BookIs
    <3>3. /\ after \in [1 .. n -> Positions] /\ \A i \in 1 .. a : after[i] = retained[i]
          /\ \A i \in a + 1 .. n : after[i] = scaled[i - a]
      BY <1>1, BookIs
    <3> HIDE DEF n, before, after
    <3> QED BY <3>1, <3>2, <3>3
  <2>3. total = GroupWeight(before)
    BY <1>2
  <2> HIDE DEF before, after, total, n
  <2> DEFINE w == GroupShares(before)
             v == GroupShares(after)
  <2>4. /\ w \in [1 .. n -> Int] /\ v \in [1 .. n -> Int]
        /\ total = SumFunction(w) /\ GroupWeight(after) = SumFunction(v)
        /\ GroupWeight(after) \in Nat
    BY <2>2, <2>3, GroupTyped
  <2>5. \A i \in 1 .. n : v[i] * total <= w[i] * GroupCap
    <3> SUFFICES ASSUME NEW i \in 1 .. n
                 PROVE  v[i] * total <= w[i] * GroupCap
      OBVIOUS
    <3>1. /\ w[i] = IF InGroup(before[i]) THEN before[i].weight ELSE 0
          /\ v[i] = IF InGroup(after[i]) THEN after[i].weight ELSE 0
      BY <2>2 DEF GroupShares
    <3> HIDE DEF v, w
    <3>2. 0 * total <= 0 * GroupCap
      BY <1>1, <1>3
    <3>3. CASE i \in 1 .. a
      <4>1. ~ InGroup(before[i]) /\ ~ InGroup(after[i])
        BY <2>2, <3>3
      <4> QED BY <3>1, <3>2, <4>1
    <3>4. CASE i \in a + 1 .. n
      <4>1. before[i] = new[i - a] /\ after[i] = scaled[i - a] /\ i - a \in 1 .. b
        BY <2>2, <3>4 DEF n
      <4> DEFINE j == i - a
      <4>2. before[i] = new[j] /\ after[i] = scaled[j] /\ j \in 1 .. b
        BY <4>1
      <4> HIDE DEF j
      <4>3. CASE InGroup(new[j])
        <5>1. InGroup(scaled[j]) /\ scaled[j].weight * total <= new[j].weight * GroupCap
          BY <1>1, <2>1, <4>2, <4>3
        <5>2. w[i] = new[j].weight /\ v[i] = scaled[j].weight
          BY <3>1, <4>2, <4>3, <5>1
        <5> QED BY <5>1, <5>2
      <4>4. CASE ~ InGroup(new[j])
        <5>1. ~ InGroup(scaled[j])
          BY <1>1, <2>1, <4>2, <4>4
        <5> QED BY <3>1, <3>2, <4>2, <4>4, <5>1
      <4> QED BY <4>3, <4>4
    <3>5. i \in 1 .. a \/ i \in a + 1 .. n
      BY DEF n
    <3> QED BY <3>3, <3>4, <3>5
  <2> HIDE DEF v, w
  <2>6. SumFunction(v) * total <= SumFunction(w) * GroupCap
    <3>1. IsFiniteSet(1 .. n)
      BY <2>2, FS_Interval
    <3> QED BY <1>1, <1>3, <2>4, <2>5, <3>1, SumScaled
  <2>7. GroupWeight(after) * total <= total * GroupCap
    BY <2>4, <2>6
  <2>8. GroupWeight(after) <= GroupCap
    <3> DEFINE g == GroupWeight(after)
    <3>1. g \in Nat /\ total \in Nat \ {0} /\ g * total <= total * GroupCap
      BY <1>1, <1>3, <2>1, <2>4, <2>7
    <3> HIDE DEF g
    <3>2. g <= GroupCap
      BY <1>3, <3>1
    <3> QED BY <3>2 DEF g
  <2> QED BY <2>8 DEF after, scaled
<1> QED BY <1>4, <1>5

-----------------------------------------------------------------------------
(* What the portfolio engine builds *)

\* The decisions with the confidences that the regime gives them.
Opinion(given) == [sym \in DOMAIN given |-> Adjusted(sym, given[sym])]

\* A target of a positions that stay and b new ones, in that order, as selected; LONG all
\* of them as long as nothing is decided to be SHORT.
Made(built, given, holding, m, a, b) ==
  LET sel == Selection(Opinion(given), holding)
  IN  /\ Selected(sel, Opinion(given), holding, Entrants(Opinion(given), ToSet(holding)), m, a, b)
      /\ built = Portfolio(built.positions, Reasons(given, holding, sel.kept))
      /\ built.positions \in [1 .. a + b -> Positions]
      /\ \A i \in 1 .. a : built.positions[i].sym = sel.kept[i] /\ built.positions[i].side = "LONG"
      /\ \A i \in a + 1 .. a + b : built.positions[i].sym = sel.new[i - a]
      /\ (\A sym \in DOMAIN given : given[sym].action # "SHORT") =>
           \A i \in a + 1 .. a + b : built.positions[i].side = "LONG"

\* The positions before they are scaled to a gross exposure of 100%, and after.
Unscaled(given, holding) ==
  LET sel == Selection(Opinion(given), holding)
      retained == RetainedPositions(sel.kept)
      exposure == AtLeast(0, EngineGross - 10 * Len(retained))
  IN  Book(retained, GroupScaled(retained, Sized(Opinion(given), sel.new, exposure)))

\* So does build_target_portfolio make targets, and if nothing held is in the correlated
\* group, the group is within its cap.
LEMMA BuildIs ==
  ASSUME NEW given, IsOpinion(given), NEW m \in Nat, NEW holding, Listed(holding, Symbols, m)
  PROVE  /\ \E a, b \in Nat : Made(Build(given, holding), given, holding, m, a, b)
         /\ ToSet(holding) \cap BtcGroup = {} =>
              GroupWeight(Build(given, holding).positions) <= GroupCap
<1> DEFINE opinion == Opinion(given)
           sel == Selection(opinion, holding)
           stay == sel.kept
           new == sel.new
           candidates == Entrants(opinion, ToSet(holding))
           retained == RetainedPositions(stay)
           exposure == AtLeast(0, EngineGross - 10 * Len(retained))
           sized == Sized(opinion, new, exposure)
           scaled == GroupScaled(retained, sized)
           book == Unscaled(given, holding)
           gross == Weighs(book)
           final == IF gross > 100 THEN Scaled(book, 100, gross) ELSE book
           built == Build(given, holding)
<1>1. built = Portfolio(final, Reasons(given, holding, stay))
  BY DEF Build, Unscaled, Opinion
<1>2. IsOpinion(opinion) /\ \A sym \in DOMAIN given : opinion[sym].action = given[sym].action
  BY AdjustedTyped DEF Opinion
<1>3. PICK a \in Nat, b \in Nat : Selected(sel, opinion, holding, candidates, m, a, b)
  <2> HIDE DEF opinion
  <2> QED BY <1>2, SelectionIs
<1>4. Listed(stay, Symbols, a) /\ Listed(stay, ToSet(holding), a) /\ Listed(new, candidates, b)
  <2>1. Listed(stay, ToSet(holding), a) /\ Listed(new, candidates, b)
    BY <1>3 DEF Selected
  <2>2. ToSet(holding) \subseteq Symbols
    BY ListsItsOwn
  <2> HIDE DEF stay, new
  <2> QED BY <2>1, <2>2 DEF Listed
<1> HIDE DEF built, final
<1> DEFINE n == a + b
<1>5. /\ On(retained, stay, a) /\ \A i \in 1 .. a : retained[i].side = "LONG"
      /\ Len(retained) = a /\ exposure \in Nat
  <2>1. On(retained, stay, a) /\ \A i \in 1 .. a : retained[i].side = "LONG"
    <3> HIDE DEF stay
    <3> QED BY <1>4, RetainedIs
  <2>2. Len(retained) = a
    <3> HIDE DEF retained
    <3> QED BY <2>1 DEF On
  <2>3. EngineGross \in 0..100
    BY EngineAssumption DEF Shares
  <2> HIDE DEF retained
  <2>4. exposure \in Nat
    BY <2>2, <2>3 DEF AtLeast
  <2> QED BY <2>1, <2>2, <2>4
<1> HIDE DEF exposure
<1>6. On(sized, new, b) /\ \A i \in 1 .. b : sized[i].side = opinion[new[i]].action
  <2> HIDE DEF opinion, new
  <2> QED BY <1>2, <1>4, <1>5, SizedIs
<1>7. \A i \in 1 .. b : new[i] \in DOMAIN given
  <2>1. candidates \subseteq DOMAIN given
    BY DEF Entrants, Opinion
  <2> HIDE DEF new, candidates
  <2> QED BY <1>4, <2>1 DEF Listed
<1>8. (\A sym \in DOMAIN given : given[sym].action # "SHORT") =>
        \A i \in 1 .. b : sized[i].side = "LONG"
  <2>1. \A i \in 1 .. b : sized[i].side = given[new[i]].action
    BY <1>2, <1>6, <1>7
  <2>2. \A i \in 1 .. b : sized[i].side \in Sides
    <3>1. \A p \in Positions : p.side \in Sides
      BY DEF Positions
    <3> HIDE DEF sized
    <3> QED BY <1>6, <3>1 DEF On
  <2> HIDE DEF sized, new
  <2> QED BY <1>7, <2>1, <2>2 DEF Sides
<1>9. book = Book(retained, scaled)
  BY DEF Unscaled, exposure
<1> HIDE DEF book, retained, sized, stay, new, candidates, opinion, sel
<1>10. retained \in [1 .. a -> Positions] /\ sized \in [1 .. b -> Positions]
  BY <1>5, <1>6 DEF On
<1>11. scaled \in [1 .. b -> Positions] /\ Lighter(scaled, sized, b)
  BY <1>10, GroupScaledIs
<1> HIDE DEF scaled
<1>12. /\ n \in Nat /\ book \in [1 .. n -> Positions]
       /\ \A i \in 1 .. a : book[i] = retained[i]
       /\ \A i \in a + 1 .. n : book[i] = scaled[i - a]
  <2>1. n \in Nat
    OBVIOUS
  <2>2. /\ Book(retained, scaled) \in [1 .. a + b -> Positions]
        /\ \A i \in 1 .. a : Book(retained, scaled)[i] = retained[i]
        /\ \A i \in a + 1 .. a + b : Book(retained, scaled)[i] = scaled[i - a]
    BY <1>10, <1>11, BookIs
  <2> QED BY <1>9, <2>1, <2>2
<1>13. final \in [1 .. n -> Positions] /\ Lighter(final, book, n)
  <2>1. gross \in Nat
    BY <1>12, WeighsTyped
  <2> HIDE DEF n
  <2>2. CASE gross > 100
    <3>1. final = Scaled(book, 100, Weighs(book)) /\ 100 <= Weighs(book) /\ Weighs(book) > 0
      BY <2>1, <2>2 DEF final
    <3> HIDE DEF gross
    <3> QED BY <1>12, <3>1, ScaledWeighs
  <2>3. CASE ~ (gross > 100)
    <3>1. final = book
      BY <2>3 DEF final
    <3>2. \A i \in 1 .. n : book[i].weight \in Int
      BY <1>12, WeightTyped
    <3>3. Lighter(book, book, n)
      BY <3>2 DEF Lighter
    <3> QED BY <1>12, <3>1, <3>3
  <2> QED BY <2>2, <2>3
<1>14. \A i \in 1 .. a : final[i].sym = stay[i] /\ final[i].side = "LONG"
  <2> SUFFICES ASSUME NEW i \in 1 .. a
               PROVE  final[i].sym = stay[i] /\ final[i].side = "LONG"
    OBVIOUS
  <2>1. i \in 1 .. n
    OBVIOUS
  <2>2. final[i].sym = book[i].sym /\ (book[i].side = "LONG" => final[i].side = "LONG")
    BY <1>13, <2>1 DEF Lighter
  <2>3. retained[i].sym = stay[i] /\ retained[i].side = "LONG"
    BY <1>5 DEF On
  <2> QED BY <1>12, <2>2, <2>3
<1>15. \A i \in a + 1 .. n :
         /\ final[i].sym = new[i - a]
         /\ sized[i - a].side = "LONG" => final[i].side = "LONG"
  <2> SUFFICES ASSUME NEW i \in a + 1 .. n
               PROVE  /\ final[i].sym = new[i - a]
                      /\ sized[i - a].side = "LONG" => final[i].side = "LONG"
    OBVIOUS
  <2>1. i \in 1 .. n /\ i - a \in 1 .. b
    OBVIOUS
  <2>2. final[i].sym = book[i].sym /\ (book[i].side = "LONG" => final[i].side = "LONG")
    BY <1>13, <2>1 DEF Lighter
  <2>3. /\ scaled[i - a].sym = sized[i - a].sym
        /\ sized[i - a].side = "LONG" => scaled[i - a].side = "LONG"
    BY <1>11, <2>1 DEF Lighter
  <2>4. sized[i - a].sym = new[i - a]
    BY <1>6, <2>1 DEF On
  <2> QED BY <1>12, <2>2, <2>3, <2>4
<1>16. built.positions = final /\ built = Portfolio(built.positions, Reasons(given, holding, stay))
  BY <1>1 DEF Portfolio
<1>17. Made(built, given, holding, m, a, b)
  <2>1. (\A sym \in DOMAIN given : given[sym].action # "SHORT") =>
          \A i \in a + 1 .. a + b : final[i].side = "LONG"
    <3>1. \A i \in a + 1 .. a + b : i - a \in 1 .. b
      OBVIOUS
    <3> QED BY <1>8, <1>15, <3>1
  <2> QED BY <1>3, <1>13, <1>14, <1>15, <1>16, <2>1 DEF Made, opinion, sel, stay, new, candidates
<1>18. ASSUME ToSet(holding) \cap BtcGroup = {}
       PROVE  GroupWeight(built.positions) <= GroupCap
  <2>1. \A i \in 1 .. a : ~ InGroup(retained[i])
    <3> SUFFICES ASSUME NEW i \in 1 .. a
                 PROVE  ~ InGroup(retained[i])
      OBVIOUS
    <3>1. retained[i].sym = stay[i]
      BY <1>5 DEF On
    <3>2. stay[i] \in ToSet(holding)
      BY <1>4 DEF Listed
    <3> QED BY <1>18, <3>1, <3>2 DEF InGroup
  <2>2. GroupWeight(book) <= GroupCap
    BY <1>9, <1>10, <2>1, GroupFits DEF scaled
  <2>3. GroupWeight(final) <= GroupWeight(book)
    <3>1. n \in 0 .. n
      BY <1>12
    <3> HIDE DEF n
    <3> QED BY <1>12, <1>13, <3>1, GroupOfFewer
  <2>4. GroupWeight(final) \in Nat /\ GroupWeight(book) \in Nat
    <3> HIDE DEF n
    <3> QED BY <1>12, <1>13, GroupTyped
  <2> QED BY <1>16, <2>2, <2>3, <2>4, GroupCapTyped
<1> QED BY <1>17, <1>18 DEF built

\* A target that is made so is one that the risk engine is to assess, and on the symbols
\* that were selected.
LEMMA MadeOf ==
  ASSUME NEW given, IsOpinion(given), NEW m \in Nat, NEW holding, Listed(holding, Symbols, m),
         NEW a \in Nat, NEW b \in Nat, NEW built, Made(built, given, holding, m, a, b)
  PROVE  LET sel == Selection(Opinion(given), holding)
         IN  /\ built \in Built /\ Len(built.positions) = a + b
             /\ built.reasons = Closers(given) \cup (ToSet(holding) \ ToSet(sel.kept))
             /\ SymbolsIn(built.positions) = ToSet(sel.kept) \cup ToSet(sel.new)
<1> DEFINE sel == Selection(Opinion(given), holding)
           positions == built.positions
           candidates == Entrants(Opinion(given), ToSet(holding))
<1>1. /\ Selected(sel, Opinion(given), holding, candidates, m, a, b)
      /\ built = Portfolio(positions, Reasons(given, holding, sel.kept))
      /\ positions \in [1 .. a + b -> Positions]
      /\ \A i \in 1 .. a : positions[i].sym = sel.kept[i]
      /\ \A i \in a + 1 .. a + b : positions[i].sym = sel.new[i - a]
  BY DEF Made
<1> HIDE DEF sel, positions, candidates
<1>2. built.reasons = Closers(given) \cup (ToSet(holding) \ ToSet(sel.kept))
  BY <1>1 DEF Portfolio, Reasons
<1>3. ToSet(holding) \subseteq Symbols /\ Closers(given) \subseteq Symbols
  BY ListsItsOwn DEF Closers, IsOpinion
<1>4. positions \in Seq(Positions) /\ Len(positions) = a + b
  <2> a + b \in Nat
    OBVIOUS
  <2> QED BY <1>1
<1>5. built \in Built
  <2>1. Reasons(given, holding, sel.kept) \in SUBSET Symbols
    BY <1>3 DEF Reasons
  <2> QED BY <1>1, <1>4, <2>1 DEF Portfolio, Built
<1>6. Listed(sel.kept, ToSet(holding), a) /\ Listed(sel.new, candidates, b)
  BY <1>1 DEF Selected
<1>7. DOMAIN sel.kept = 1 .. a /\ DOMAIN sel.new = 1 .. b /\ DOMAIN positions = 1 .. a + b
  BY <1>1, <1>6 DEF Listed
<1>8. SymbolsIn(positions) = ToSet(sel.kept) \cup ToSet(sel.new)
  <2>1. ASSUME NEW i \in 1 .. a + b
        PROVE  positions[i].sym \in ToSet(sel.kept) \cup ToSet(sel.new)
    <3>1. CASE i \in 1 .. a
      BY <1>1, <1>7, <3>1 DEF ToSet
    <3>2. CASE i \in a + 1 .. a + b
      <4>1. i - a \in 1 .. b
        BY <3>2
      <4> QED BY <1>1, <1>7, <3>2, <4>1 DEF ToSet
    <3> QED BY <3>1, <3>2
  <2>2. ASSUME NEW sym \in ToSet(sel.kept)
        PROVE  \E i \in 1 .. a + b : positions[i].sym = sym
    <3>1. PICK i \in 1 .. a : sel.kept[i] = sym
      BY <1>7 DEF ToSet
    <3>2. i \in 1 .. a + b
      OBVIOUS
    <3> QED BY <1>1, <3>1, <3>2
  <2>3. ASSUME NEW sym \in ToSet(sel.new)
        PROVE  \E i \in 1 .. a + b : positions[i].sym = sym
    <3>1. PICK j \in 1 .. b : sel.new[j] = sym
      BY <1>7 DEF ToSet
    <3> DEFINE i == j + a
    <3>2. i \in a + 1 .. a + b /\ i \in 1 .. a + b /\ i - a = j
      OBVIOUS
    <3> HIDE DEF i
    <3>3. positions[i].sym = sym
      BY <1>1, <3>1, <3>2
    <3> QED BY <3>2, <3>3
  <2> QED BY <1>7, <2>1, <2>2, <2>3 DEF SymbolsIn
<1> QED BY <1>2, <1>4, <1>5, <1>8 DEF positions, sel

\* The order in which a set of open symbols is gone through lists each of them once.
LEMMA HeldListed ==
  ASSUME NEW some \in SUBSET Symbols, NEW holding \in SetToSeqs(some)
  PROVE  /\ Cardinality(some) \in Nat
         /\ Listed(holding, Symbols, Cardinality(some)) /\ ToSet(holding) = some
<1> DEFINE m == Cardinality(some)
<1>1. IsFiniteSet(some) /\ m \in Nat
  <2>1. IsFiniteSet(some)
    BY FS_Subset, EngineAssumption
  <2> QED BY <2>1, FS_CardinalityType
<1>2. holding \in [1 .. m -> some] /\ \A i, j \in 1 .. m : i # j => holding[i] # holding[j]
  BY DEF SetToSeqs
<1> HIDE DEF m
<1>3. holding \in Injection(1 .. m, some)
  BY <1>2 DEF Injection, IsInjective
<1>4. holding \in Surjection(1 .. m, some)
  <2>1. IsFiniteSet(1 .. m) /\ Cardinality(1 .. m) = m
    BY <1>1, FS_Interval
  <2> QED BY <1>1, <1>3, <2>1, FS_Injection DEF m
<1>5. ListsAll(holding, some, m)
  BY <1>2, <1>4 DEF Surjection, ListsAll, Listed
<1>6. ToSet(holding) = some /\ Listed(holding, some, m)
  BY <1>1, <1>5, ListsSet
<1>7. Listed(holding, Symbols, m)
  BY <1>6 DEF Listed
<1> QED BY <1>1, <1>6, <1>7 DEF m

-----------------------------------------------------------------------------
(* The steps of a cycle *)

\* What a cycle carries at each stage: decisions of the strategy, the open symbols it
\* keeps, each once, and the target as far as it is made.
Staged ==
  /\ stage \in {"start", "decided", "built", "approved"}
  /\ IsOpinion(decisions)
  /\ \E m \in Nat : Listed(kept, Symbols, m)
  /\ stage \in {"start", "decided"} => target = Nothing
  /\ stage = "built" => target = Build(decisions, kept)
  /\ stage = "approved" => target = Approved(Build(decisions, kept))

\* A cycle without decisions and without open symbols.
LEMMA EmptyStaged == IsOpinion(<< >>) /\ Listed(<< >>, Symbols, 0)
BY DEF IsOpinion, Listed

\* Every step of a cycle hands over what the next one expects.
LEMMA StagedCorrect == PipelineSpec => []Staged
<1>1. PipelineInit => Staged
  BY EmptyStaged DEF PipelineInit, Staged
<1>2. Staged /\ [PipelineNext]_pipelineVars => Staged'
  <2> SUFFICES ASSUME Staged, [PipelineNext]_pipelineVars
               PROVE  Staged'
    OBVIOUS
  <2>1. CASE Decide
    <3>1. PICK open \in SUBSET Symbols, evaluated \in SUBSET Symbols :
            \E given \in [evaluated -> Signals] :
              decisions' = given /\ kept' \in SetToSeqs(Retained(open, given))
      BY <2>1 DEF Decide
    <3>2. PICK given \in [evaluated -> Signals] :
            decisions' = given /\ kept' \in SetToSeqs(Retained(open, given))
      BY <3>1
    <3>3. IsOpinion(given)
      BY EngineAssumption DEF IsOpinion
    <3>4. Retained(open, given) \in SUBSET Symbols
      BY DEF Retained
    <3>5. \E m \in Nat : Listed(kept', Symbols, m)
      BY <3>2, <3>4, HeldListed
    <3> QED BY <2>1, <3>2, <3>3, <3>5 DEF Decide, Staged
  <2>2. CASE BuildTarget
    BY <2>2 DEF BuildTarget, Staged
  <2>3. CASE AssessTarget
    BY <2>3 DEF AssessTarget, Staged
  <2>4. CASE NextCycle
    BY <2>4, EmptyStaged DEF NextCycle, Staged
  <2>5. CASE UNCHANGED pipelineVars
    BY <2>5 DEF pipelineVars, Staged
  <2> QED BY <2>1, <2>2, <2>3, <2>4, <2>5 DEF PipelineNext
<1> QED BY <1>1, <1>2, PTL DEF PipelineSpec

\* From the decisions on, the target is made as the selection says, and from the approval
\* on it is the approved one.
LEMMA StagedMade ==
  ASSUME Staged
  PROVE  \E m, a, b \in Nat :
           /\ Listed(kept, Symbols, m)
           /\ Made(Build(decisions, kept), decisions, kept, m, a, b)
BY BuildIs DEF Staged

\* Build and assessment give positions of known symbols with weights from 0 to 100%.
THEOREM TargetTypeCorrect == PipelineSpec => []TargetTypeOK
<1>1. Staged => TargetTypeOK
  <2> SUFFICES ASSUME Staged
               PROVE  TargetTypeOK
    OBVIOUS
  <2>1. PICK m \in Nat, a \in Nat, b \in Nat :
          Listed(kept, Symbols, m) /\ Made(Build(decisions, kept), decisions, kept, m, a, b)
    BY StagedMade
  <2>2. Build(decisions, kept) \in Built
    BY <2>1, MadeOf DEF Staged
  <2>3. Approved(Build(decisions, kept)) \in ApprovedTargets
    BY <2>2, ApprovedFits
  <2>4. Nothing.positions \in Seq(Positions) /\ Nothing.reasons \subseteq Symbols
    BY DEF Nothing, Portfolio
  <2>5. target.positions \in Seq(Positions) /\ target.reasons \subseteq Symbols
    BY <2>2, <2>3, <2>4 DEF Staged, Built, ApprovedTargets
  <2>6. kept \in Seq(Symbols)
    BY <2>1 DEF Listed
  <2> QED BY <2>5, <2>6 DEF Staged, TargetTypeOK
<1> QED BY <1>1, StagedCorrect, PTL

\* Execution gets targets within every limit of the mode, and an empty one only if there is
\* nothing to keep and nobody to enter: the fallback that would close everything is dead.
THEOREM WithinLimitsCorrect == PipelineSpec => []AlwaysWithinLimits
<1>1. Staged => AlwaysWithinLimits
  <2> SUFFICES ASSUME Staged, stage = "approved"
               PROVE  /\ WithinLimits(target.positions)
                      /\ target.positions = << >> => kept = << >> /\ LeftOut = {}
    BY DEF AlwaysWithinLimits
  <2>1. PICK m \in Nat, a \in Nat, b \in Nat :
          Listed(kept, Symbols, m) /\ Made(Build(decisions, kept), decisions, kept, m, a, b)
    BY StagedMade
  <2> DEFINE built == Build(decisions, kept)
             sel == Selection(Opinion(decisions), kept)
             candidates == Entrants(Opinion(decisions), ToSet(kept))
  <2>2. built \in Built /\ Len(built.positions) = a + b
    BY <2>1, MadeOf DEF Staged
  <2> HIDE DEF built
  <2>3. /\ WithinLimits(target.positions)
        /\ Len(target.positions) = AtMost(MaxPositions, a + b)
    BY <2>2, ApprovedFits DEF Staged, built
  <2>4. ASSUME target.positions = << >>
        PROVE  kept = << >> /\ LeftOut = {}
    <3>1. EngineMax \in Nat \ {0} /\ MaxPositions \in Nat \ {0}
      BY EngineAssumption
    <3>2. a + b = 0 /\ a = 0 /\ b = 0
      <4>1. AtMost(MaxPositions, a + b) = 0
        BY <2>3, <2>4
      <4> QED BY <3>1, <4>1 DEF AtMost
    <3>3. Selected(sel, Opinion(decisions), kept, candidates, m, a, b)
      BY <2>1 DEF Made, built
    <3> HIDE DEF sel, candidates
    <3>4. m = 0
      BY <3>1, <3>2, <3>3 DEF Selected
    <3>5. kept = << >>
      BY <2>1, <3>4 DEF Listed
    <3>6. ToSet(sel.new) = candidates /\ Listed(sel.new, candidates, 0)
      BY <3>1, <3>2, <3>3, <3>4 DEF Selected
    <3>7. candidates = {}
      BY <3>6 DEF Listed, ToSet
    <3> QED BY <3>5, <3>7 DEF LeftOut, AdjustedDecisions, Opinion, candidates
  <2> QED BY <2>3, <2>4
<1> QED BY <1>1, StagedCorrect, PTL

\* The book of the target, by who stays and who is new.
LEMMA ChosenAre ==
  ASSUME Staged, stage = "built"
  PROVE  \E m, a, b \in Nat :
           LET sel == Selection(AdjustedDecisions, kept)
               candidates == Entrants(AdjustedDecisions, ToSet(kept))
           IN  /\ Selected(sel, AdjustedDecisions, kept, candidates, m, a, b)
               /\ Listed(kept, Symbols, m) /\ Len(kept) = m
               /\ Chosen = ToSet(sel.kept) \cup ToSet(sel.new)
               /\ Len(target.positions) = a + b
               /\ target.reasons = Closers(decisions) \cup (ToSet(kept) \ ToSet(sel.kept))
               /\ ToSet(sel.kept) \subseteq ToSet(kept)
               /\ ToSet(sel.new) \subseteq candidates
<1>1. PICK m \in Nat, a \in Nat, b \in Nat :
        Listed(kept, Symbols, m) /\ Made(Build(decisions, kept), decisions, kept, m, a, b)
  BY StagedMade
<1> DEFINE sel == Selection(AdjustedDecisions, kept)
           candidates == Entrants(AdjustedDecisions, ToSet(kept))
<1>2. AdjustedDecisions = Opinion(decisions) /\ target = Build(decisions, kept)
  BY DEF AdjustedDecisions, Opinion, Staged
<1>3. /\ Len(target.positions) = a + b
      /\ target.reasons = Closers(decisions) \cup (ToSet(kept) \ ToSet(sel.kept))
      /\ Chosen = ToSet(sel.kept) \cup ToSet(sel.new)
  <2> DEFINE built == Build(decisions, kept)
             same == Selection(Opinion(decisions), kept)
  <2>1. IsOpinion(decisions) /\ Listed(kept, Symbols, m) /\ Made(built, decisions, kept, m, a, b)
    BY <1>1 DEF Staged
  <2> HIDE DEF built
  <2>2. /\ Len(built.positions) = a + b
        /\ built.reasons = Closers(decisions) \cup (ToSet(kept) \ ToSet(same.kept))
        /\ SymbolsIn(built.positions) = ToSet(same.kept) \cup ToSet(same.new)
    BY <2>1, MadeOf
  <2>3. same = sel
    BY <1>2
  <2> HIDE DEF same, sel
  <2> QED BY <1>2, <2>2, <2>3 DEF Chosen, built
<1>4. Selected(sel, AdjustedDecisions, kept, candidates, m, a, b)
  BY <1>1, <1>2 DEF Made
<1> HIDE DEF sel, candidates
<1>5. Listed(sel.kept, ToSet(kept), a) /\ Listed(sel.new, candidates, b)
  BY <1>4 DEF Selected
<1>6. ToSet(sel.kept) \subseteq ToSet(kept) /\ ToSet(sel.new) \subseteq candidates
  BY <1>5, ListsItsOwn
<1>7. Len(kept) = m
  BY <1>1 DEF Listed
<1> QED BY <1>1, <1>3, <1>4, <1>6, <1>7 DEF sel, candidates

\* Replacement goes on until nobody who stays out is convincing enough to replace anyone who
\* stays, and never begins while slots are free.
THEOREM NobodyStrongerCorrect == PipelineSpec => []NobodyStrongerLeftOut
<1>1. Staged => NobodyStrongerLeftOut
  <2> SUFFICES ASSUME Staged, stage = "built"
               PROVE  NobodyStrongerLeftOut
    BY DEF NobodyStrongerLeftOut
  <2> DEFINE sel == Selection(AdjustedDecisions, kept)
             candidates == Entrants(AdjustedDecisions, ToSet(kept))
  <2>1. PICK m \in Nat, a \in Nat, b \in Nat :
          /\ Selected(sel, AdjustedDecisions, kept, candidates, m, a, b)
          /\ Len(kept) = m /\ Len(target.positions) = a + b
          /\ Chosen = ToSet(sel.kept) \cup ToSet(sel.new)
          /\ ToSet(sel.kept) \subseteq ToSet(kept) /\ ToSet(sel.new) \subseteq candidates
    BY ChosenAre
  <2>2. EngineMax \in Nat
    BY EngineAssumption
  <2>3. LeftOut = candidates \ Chosen
    BY DEF LeftOut
  <2>4. candidates \cap ToSet(kept) = {}
    BY DEF Entrants
  <2> HIDE DEF sel, candidates
  <2>5. CASE m < EngineMax
    <3>1. /\ sel.kept = kept /\ a = m /\ b <= EngineMax - m
          /\ b = EngineMax - m \/ ToSet(sel.new) = candidates
      BY <2>1, <2>5 DEF Selected
    <3>2. Dropped = {}
      BY <2>1, <3>1 DEF Dropped
    <3>3. LeftOut # {} => Len(target.positions) = EngineMax
      <4> SUFFICES ASSUME LeftOut # {}
                   PROVE  Len(target.positions) = EngineMax
        OBVIOUS
      <4>1. ToSet(sel.new) # candidates
        BY <2>1, <2>3
      <4> QED BY <2>1, <2>2, <3>1, <4>1
    <3> QED BY <2>1, <2>5, <3>2, <3>3 DEF NobodyStrongerLeftOut
  <2>6. CASE ~ (m < EngineMax)
    <3>1. \A x \in ToSet(sel.kept), y \in candidates \ ToSet(sel.new) :
            Conviction(AdjustedDecisions, y) <= Conviction(AdjustedDecisions, x) + 1000
      BY <2>1, <2>2, <2>6 DEF Selected
    <3>2. \A y \in LeftOut : y \in candidates \ ToSet(sel.new)
      BY <2>1, <2>3
    <3>3. \A x \in ToSet(kept) \ Dropped : x \in ToSet(sel.kept)
      BY <2>1, <2>4 DEF Dropped
    <3>4. \A y \in LeftOut, x \in ToSet(kept) \ Dropped :
            Conviction(AdjustedDecisions, y) <= Conviction(AdjustedDecisions, x) + 1000
      BY <3>1, <3>2, <3>3
    <3> QED BY <2>1, <2>6, <3>4 DEF NobodyStrongerLeftOut
  <2> QED BY <2>5, <2>6
<1> QED BY <1>1, StagedCorrect, PTL

\* The book gets no larger by replacements, and whoever is replaced gets a close reason.
THEOREM ReplacementsCorrect == PipelineSpec => []ReplacementsAreExplained
<1>1. Staged => ReplacementsAreExplained
  <2> SUFFICES ASSUME Staged, stage = "built"
               PROVE  /\ Len(target.positions) <= AtLeast(EngineMax, Len(kept))
                      /\ Dropped \subseteq target.reasons
    BY DEF ReplacementsAreExplained
  <2> DEFINE sel == Selection(AdjustedDecisions, kept)
             candidates == Entrants(AdjustedDecisions, ToSet(kept))
  <2>1. PICK m \in Nat, a \in Nat, b \in Nat :
          /\ Selected(sel, AdjustedDecisions, kept, candidates, m, a, b)
          /\ Len(kept) = m /\ Len(target.positions) = a + b
          /\ Chosen = ToSet(sel.kept) \cup ToSet(sel.new)
          /\ target.reasons = Closers(decisions) \cup (ToSet(kept) \ ToSet(sel.kept))
    BY ChosenAre
  <2>2. EngineMax \in Nat
    BY EngineAssumption
  <2> HIDE DEF sel, candidates
  <2>3. IF m < EngineMax THEN a = m /\ b <= EngineMax - m ELSE a + b = m
    BY <2>1, <2>2 DEF Selected
  <2>4. a + b <= AtLeast(EngineMax, m)
    BY <2>2, <2>3 DEF AtLeast
  <2>5. Dropped \subseteq target.reasons
    BY <2>1 DEF Dropped
  <2> QED BY <2>1, <2>4, <2>5
<1> QED BY <1>1, StagedCorrect, PTL

\* While nothing held is correlated with bitcoin, neither the target nor what is approved
\* of it gives the correlated group more than its cap.
THEOREM GroupCappedCorrect == PipelineSpec => []NewGroupCapped
<1>1. Staged => NewGroupCapped
  <2> SUFFICES ASSUME Staged, ToSet(kept) \cap BtcGroup = {}
               PROVE  GroupWeight(target.positions) <= GroupCap
    BY DEF NewGroupCapped
  <2>1. PICK m \in Nat, a \in Nat, b \in Nat :
          Listed(kept, Symbols, m) /\ Made(Build(decisions, kept), decisions, kept, m, a, b)
    BY StagedMade
  <2> DEFINE built == Build(decisions, kept)
             passed == Approved(built)
             n == a + b
             k == Len(passed.positions)
  <2>2. GroupWeight(built.positions) <= GroupCap
    BY <2>1, BuildIs DEF Staged
  <2>3. /\ n \in Nat /\ built \in Built /\ Len(built.positions) = n
        /\ built.positions \in [1 .. n -> Positions]
    <3>1. built \in Built /\ Len(built.positions) = n
      BY <2>1, MadeOf DEF Staged
    <3> HIDE DEF built
    <3>2. built.positions \in Seq(Positions)
      BY <3>1 DEF Built
    <3> QED BY <3>1, <3>2, LenProperties
  <2> HIDE DEF built, n
  <2>4. /\ passed \in ApprovedTargets /\ k = AtMost(MaxPositions, n)
        /\ Lighter(passed.positions, built.positions, k)
    BY <2>3, ApprovedFits
  <2> HIDE DEF passed
  <2>5. passed.positions \in Seq(Positions)
    BY <2>4 DEF ApprovedTargets
  <2>6. passed.positions \in [1 .. k -> Positions]
    BY <2>5, LenProperties
  <2>7. k \in 0 .. n
    <3>1. MaxPositions \in Nat
      BY EngineAssumption
    <3> HIDE DEF k
    <3> QED BY <2>3, <2>4, <3>1 DEF AtMost
  <2> HIDE DEF k
  <2>8. GroupWeight(passed.positions) <= GroupWeight(built.positions)
    BY <2>3, <2>4, <2>6, <2>7, GroupOfFewer
  <2>9. GroupWeight(passed.positions) \in Nat /\ GroupWeight(built.positions) \in Nat
    <3>1. k \in Nat
      BY <2>3, <2>7
    <3> QED BY <2>3, <2>6, <3>1, GroupTyped
  <2>10. GroupWeight(passed.positions) <= GroupCap
    BY <2>2, <2>8, <2>9, GroupCapTyped
  <2>11. GroupWeight(Nothing.positions) <= GroupCap
    <3>1. Nothing.positions \in [1 .. 0 -> Positions]
      BY DEF Nothing, Portfolio
    <3>2. Lighter(Nothing.positions, built.positions, 0)
      BY DEF Lighter
    <3>3. 0 \in 0 .. n
      BY <2>3
    <3>4. GroupWeight(Nothing.positions) <= GroupWeight(built.positions)
      BY <2>3, <3>1, <3>2, <3>3, GroupOfFewer
    <3>5. GroupWeight(Nothing.positions) \in Nat
      BY <3>1, GroupTyped
    <3> QED BY <2>2, <2>9, <3>4, <3>5, GroupCapTyped
  <2> QED BY <2>2, <2>10, <2>11 DEF Staged, built, passed
<1> QED BY <1>1, StagedCorrect, PTL

-----------------------------------------------------------------------------
(* What trading cycles may rely on *)

\* What a bot that only goes long makes of what it sees open: the decisions of its strategy
\* are handed to the engine, the target to the risk engine.
LongOutcome(outcome, given, open) ==
  /\ IsOpinion(given)
  /\ \A sym \in DOMAIN given : given[sym].action # "SHORT"
  /\ \E holding \in SetToSeqs(Retained(open, given)) :
       outcome = [target |-> Approved(Build(given, holding)),
                  asked |-> Build(given, holding).reasons]

\* Such an outcome drops nothing without saying so: what the cycle saw open stays in the
\* target, whatever the limits cut off, or is asked to be closed; and nothing turns SHORT.
\* With free slots and no decision to close, nothing is asked to be closed.
LEMMA LongOutcomeKeeps ==
  ASSUME NEW open \in SUBSET Symbols, Cardinality(open) <= MaxPositions,
         NEW given, NEW outcome, LongOutcome(outcome, given, open)
  PROVE  /\ open \subseteq outcome.asked \cup SymbolsIn(outcome.target.positions)
         /\ \A i \in DOMAIN outcome.target.positions : outcome.target.positions[i].side = "LONG"
         /\ MaxPositions < EngineMax /\ Closers(given) = {} => outcome.asked = {}
<1>1. PICK holding \in SetToSeqs(Retained(open, given)) :
        outcome = [target |-> Approved(Build(given, holding)),
                  asked |-> Build(given, holding).reasons]
  BY DEF LongOutcome
<1>2. IsOpinion(given) /\ \A sym \in DOMAIN given : given[sym].action # "SHORT"
  BY DEF LongOutcome
<1> DEFINE some == Retained(open, given)
           m == Cardinality(some)
           sel == Selection(Opinion(given), holding)
           candidates == Entrants(Opinion(given), ToSet(holding))
           built == Build(given, holding)
           passed == Approved(built)
           k == Len(passed.positions)
<1>3. some \in SUBSET Symbols /\ some \subseteq open
  BY DEF Retained
<1>4. m \in Nat /\ Listed(holding, Symbols, m) /\ ToSet(holding) = some
  <2> HIDE DEF some
  <2> QED BY <1>1, <1>3, HeldListed DEF some
<1>5. m <= MaxPositions /\ MaxPositions \in Nat /\ EngineMax \in Nat
  <2>1. IsFiniteSet(open)
    BY FS_Subset, EngineAssumption
  <2> HIDE DEF some
  <2>2. m <= Cardinality(open) /\ Cardinality(open) \in Nat
    BY <1>3, <2>1, FS_Subset, FS_CardinalityType
  <2>3. MaxPositions \in Nat /\ EngineMax \in Nat
    BY EngineAssumption
  <2> QED BY <1>4, <2>2, <2>3
<1> HIDE DEF m
<1>6. PICK a \in Nat, b \in Nat : Made(built, given, holding, m, a, b)
  <2> HIDE DEF Made
  <2> QED BY <1>2, <1>4, BuildIs
<1>7. /\ built \in Built /\ Len(built.positions) = a + b
      /\ built.reasons = Closers(given) \cup (ToSet(holding) \ ToSet(sel.kept))
  <2> HIDE DEF built
  <2> QED BY <1>2, <1>4, <1>6, MadeOf
<1>8. /\ Selected(sel, Opinion(given), holding, candidates, m, a, b)
      /\ \A i \in 1 .. a : built.positions[i].sym = sel.kept[i] /\ built.positions[i].side = "LONG"
      /\ \A i \in a + 1 .. a + b : built.positions[i].side = "LONG"
  <2> HIDE DEF built
  <2> QED BY <1>2, <1>6 DEF Made
<1>9. outcome.asked = built.reasons /\ outcome.target = passed
  BY <1>1
<1> HIDE DEF built, candidates, sel
<1>10. /\ passed \in ApprovedTargets /\ k = AtMost(MaxPositions, a + b)
       /\ Lighter(passed.positions, built.positions, k)
  BY <1>7, ApprovedFits
<1>11. k \in Nat /\ DOMAIN passed.positions = 1 .. k
  <2>1. passed.positions \in Seq(Positions)
    BY <1>10 DEF ApprovedTargets
  <2> HIDE DEF passed
  <2> QED BY <2>1, LenProperties
<1> HIDE DEF passed, k
<1>12. IF m < EngineMax THEN a = m /\ sel.kept = holding ELSE a + b = m
  <2>1. /\ m < EngineMax => a = m /\ sel.kept = holding
        /\ m >= EngineMax => a + b = m
    BY <1>8 DEF Selected
  <2>2. m < EngineMax \/ m >= EngineMax
    BY <1>4, <1>5
  <2> QED BY <2>1, <2>2
<1>13. a <= k /\ k <= a + b
  BY <1>4, <1>5, <1>10, <1>12 DEF AtMost
<1>14. \A i \in 1 .. k : passed.positions[i].side = "LONG"
  <2> SUFFICES ASSUME NEW i \in 1 .. k
               PROVE  passed.positions[i].side = "LONG"
    OBVIOUS
  <2>1. i \in 1 .. a \/ i \in a + 1 .. a + b
    BY <1>11, <1>13
  <2>2. built.positions[i].side = "LONG"
    BY <1>8, <2>1
  <2> QED BY <1>10, <2>2 DEF Lighter
<1>15. ToSet(sel.kept) \subseteq SymbolsIn(passed.positions)
  <2> SUFFICES ASSUME NEW sym \in ToSet(sel.kept)
               PROVE  sym \in SymbolsIn(passed.positions)
    OBVIOUS
  <2>1. DOMAIN sel.kept = 1 .. a
    BY <1>8 DEF Selected, Listed
  <2>2. PICK i \in 1 .. a : sel.kept[i] = sym
    BY <2>1 DEF ToSet
  <2>3. i \in 1 .. k
    BY <1>11, <1>13
  <2>4. passed.positions[i].sym = built.positions[i].sym
    BY <1>10, <2>3 DEF Lighter
  <2>5. passed.positions[i].sym = sym
    BY <1>8, <2>2, <2>4
  <2> QED BY <1>11, <2>3, <2>5 DEF SymbolsIn
<1>16. \A sym \in open : sym \in Closers(given) \/ sym \in ToSet(holding)
  BY <1>4 DEF Retained
<1>17. open \subseteq built.reasons \cup SymbolsIn(passed.positions)
  BY <1>7, <1>15, <1>16
<1>18. MaxPositions < EngineMax /\ Closers(given) = {} => built.reasons = {}
  <2>1. MaxPositions < EngineMax => m < EngineMax
    BY <1>4, <1>5
  <2> QED BY <1>7, <1>12, <2>1
<1> QED BY <1>9, <1>11, <1>14, <1>17, <1>18

\* What TradingCycle's theorems suppose of the outcomes of cycles is what the two engines
\* give to bots that only go long, if a scalping bot has a limit below the engine's and a
\* strategy that never decides to close, as hft_momentum.
THEOREM EnginesKeepRetained ==
  ASSUME \A mode \in Modes, seen, cooled \in SUBSET Symbols :
           \A outcome \in Entries[mode][seen][cooled] :
             \E given : /\ LongOutcome(outcome, given, seen)
                        /\ mode = "scalping" => MaxPositions < EngineMax /\ Closers(given) = {}
  PROVE  KeepsRetained
<1> SUFFICES ASSUME NEW mode \in Modes, NEW seen \in SUBSET Symbols, NEW cooled \in SUBSET Symbols,
                    Cardinality(seen) <= MaxPositions,
                    NEW outcome \in Entries[mode][seen][cooled]
             PROVE  /\ seen \subseteq outcome.asked \cup SymbolsIn(outcome.target.positions)
                    /\ \A i \in DOMAIN outcome.target.positions :
                         outcome.target.positions[i].side = "LONG"
                    /\ mode = "scalping" /\ outcome.target.reasons = {} => outcome.asked = {}
  BY DEF KeepsRetained
<1>1. PICK given : /\ LongOutcome(outcome, given, seen)
                   /\ mode = "scalping" => MaxPositions < EngineMax /\ Closers(given) = {}
  OBVIOUS
<1> QED BY <1>1, LongOutcomeKeeps
=============================================================================
