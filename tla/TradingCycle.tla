---------------------------- MODULE TradingCycle ----------------------------
(***************************************************************************)
(* A bot's cycles (TradingCycleService.run_cycle), the queue they hand     *)
(* their targets to, and the worker that executes them one by one          *)
(* (OrderExecutorQueue). Cycles run in the event loop and give way at      *)
(* every await; the worker executes in a thread. Both work on the bot's    *)
(* positions in the database: what a cycle saw may be gone when its target *)
(* is executed. Money is left to PaperBroker, where the targets come from  *)
(* to TargetEngine.                                                        *)
(***************************************************************************)
EXTENDS Portfolios, FiniteSets

CONSTANTS
  Slots,      \* cycles that may be under way at a time; a slot takes one after another
  Modes,      \* what strategy_mode the bot may have
  Overlap,    \* a cycle may begin before all earlier work is done
  MayRestart, \* the process may go down and be started again
  Entries,    \* outcomes of a cycle: Entries[mode][seen][cooled] is the set of [target, asked]
              \* one may come up with that saw these symbols open and cooling down
  None        \* no cycle

\* What the risk engine approves is within the mode's number of positions.
ApprovedTargets ==
  {target \in [positions : Seq(Positions), reasons : SUBSET Symbols] :
     Len(target.positions) <= MaxPositions}

Outcomes == [target : ApprovedTargets, asked : SUBSET Symbols]

ASSUME CycleAssumption ==
  /\ {Overlap, MayRestart} \subseteq BOOLEAN
  /\ Modes \subseteq {"scalping", "swing"}
  /\ MaxPositions \in Nat
  /\ None \notin Slots
  /\ IsFiniteSet(Symbols)
  /\ \A mode \in Modes, seen, cooled \in SUBSET Symbols :
       Entries[mode][seen][cooled] \subseteq Outcomes

VARIABLES
  held,     \* the side of each symbol's open position, or FLAT
  cooling,  \* symbols with a stop-loss in the last 120 minutes
  cycle,    \* the cycles: mode, stage, status of the row, what was read from the database
  queue,    \* the execution tasks
  worker    \* what the worker does: phase, task, positions left, cooldowns it read

vars == <<held, cooling, cycle, queue, worker>>

InProgress == {"fetch", "mark", "decide"}

Statuses == {"RUNNING", "COMPLETED", "FAILED"}

Task(c, mode, outcome) ==
  [cycle |-> c, mode |-> mode, target |-> outcome.target, asked |-> outcome.asked]

NoTask == Task(None, None, [target |-> Nothing, asked |-> {}])

Waiting == [phase |-> "wait", task |-> NoTask, left |-> << >>, blocked |-> {}]

OpenSymbols == {sym \in Symbols : held[sym] # "FLAT"}

\* The cycle's target waits for its execution or is executed.
Pending(c) == worker.task.cycle = c \/ \E i \in DOMAIN queue : queue[i].cycle = c

Init ==
  /\ held = [sym \in Symbols |-> "FLAT"]
  /\ cooling = {}
  /\ \E mode \in Modes :
       cycle = [c \in Slots |-> [mode |-> mode, stage |-> "ended", status |-> "COMPLETED",
                                 seen |-> {}, cooled |-> {}]]
  /\ queue = << >>
  /\ worker = Waiting

-----------------------------------------------------------------------------
(* Cycles *)

EverythingDone ==
  /\ queue = << >>
  /\ worker.phase = "wait"
  /\ \A c \in Slots : cycle[c].stage = "ended"

Begin(c) ==
  /\ cycle[c].stage = "ended"
  /\ ~ Pending(c)
  /\ Overlap \/ EverythingDone
  /\ cycle' = [cycle EXCEPT ![c] = [mode |-> cycle[c].mode, stage |-> "fetch",
                                    status |-> "RUNNING", seen |-> {}, cooled |-> {}]]
  /\ UNCHANGED <<held, cooling, queue, worker>>

\* The cycle has its data and marks the positions to market.
Fetched(c) ==
  /\ cycle[c].stage = "fetch"
  /\ cycle' = [cycle EXCEPT ![c].stage = "mark"]
  /\ UNCHANGED <<held, cooling, queue, worker>>

\* The mark ends, or fails, which is caught; open positions and cooldowns are read.
Look(c) ==
  /\ cycle[c].stage = "mark"
  /\ cycle' = [cycle EXCEPT ![c] = [@ EXCEPT !.stage = "decide", !.seen = OpenSymbols,
                                                         !.cooled = cooling]]
  /\ UNCHANGED <<held, cooling, queue, worker>>

\* The approved target is put into the queue. The row says COMPLETED before anything
\* is executed, or FAILED when that commit fails, and the task is queued all the same.
Enqueue(c) ==
  /\ cycle[c].stage = "decide"
  /\ \E outcome \in Entries[cycle[c].mode][cycle[c].seen][cycle[c].cooled] :
       queue' = Append(queue, Task(c, cycle[c].mode, outcome))
  /\ \E status \in {"COMPLETED", "FAILED"} :
       cycle' = [cycle EXCEPT ![c] = [@ EXCEPT !.stage = "ended", !.status = status]]
  /\ UNCHANGED <<held, cooling, worker>>

Fail(c) ==
  /\ cycle[c].stage \in InProgress
  /\ cycle' = [cycle EXCEPT ![c] = [@ EXCEPT !.stage = "ended", !.status = "FAILED"]]
  /\ UNCHANGED <<held, cooling, queue, worker>>

-----------------------------------------------------------------------------
(* Marks, by a cycle or by the worker *)

Marking == worker.phase = "mark" \/ \E c \in Slots : cycle[c].stage = "mark"

StopLoss(sym) ==
  /\ Marking
  /\ held[sym] # "FLAT"
  /\ held' = [held EXCEPT ![sym] = "FLAT"]
  /\ cooling' = cooling \cup {sym}
  /\ UNCHANGED <<cycle, queue, worker>>

TakeProfit(sym) ==
  /\ Marking
  /\ held[sym] # "FLAT"
  /\ held' = [held EXCEPT ![sym] = "FLAT"]
  /\ UNCHANGED <<cooling, cycle, queue, worker>>

\* Two hours have passed.
CooldownEnds(sym) ==
  /\ cooling' = cooling \ {sym}
  /\ UNCHANGED <<held, cycle, queue, worker>>

-----------------------------------------------------------------------------
(* The worker *)

Take ==
  /\ worker.phase = "wait"
  /\ queue # << >>
  /\ worker' = [Waiting EXCEPT !.phase = "mark", !.task = Head(queue)]
  /\ queue' = Tail(queue)
  /\ UNCHANGED <<held, cooling, cycle>>

\* Mutant: the cooldowns that the cycle read.
BlockedByCycle(c) == cycle[c].cooled

\* The cooldowns that keep a position from being opened, read as execution begins.
Blocked(c) == cooling

\* Mutant: any bot's positions are closed like those of a scalping bot.
ClosesNever(task) == task.mode = "scalping" /\ task.target.reasons # {}

ClosesOthers(task) == task.mode # "scalping" \/ task.target.reasons # {}

EndMark ==
  /\ worker.phase = "mark"
  /\ ClosesOthers(worker.task)
  /\ worker' = [worker EXCEPT !.phase = "close"]
  /\ UNCHANGED <<held, cooling, cycle, queue>>

\* Mutant: the sides are compared the wrong way round.
InTargetReversed(sym, positions) ==
  \E i \in DOMAIN positions : positions[i].sym = sym /\ positions[i].side # held[sym]

InTarget(sym, positions) ==
  \E i \in DOMAIN positions : positions[i].sym = sym /\ positions[i].side = held[sym]

Others == {sym \in OpenSymbols : ~ InTarget(sym, worker.task.target.positions)}

Close(sym) ==
  /\ worker.phase = "close"
  /\ sym \in Others
  /\ held' = [held EXCEPT ![sym] = "FLAT"]
  /\ UNCHANGED <<cooling, cycle, queue, worker>>

BeginExecute ==
  /\ \/ worker.phase = "close" /\ Others = {}
     \/ worker.phase = "mark" /\ ~ ClosesOthers(worker.task)
  /\ worker' = [worker EXCEPT !.phase = "open", !.left = worker.task.target.positions,
                              !.blocked = Blocked(worker.task.cycle)]
  /\ UNCHANGED <<held, cooling, cycle, queue>>

\* The next target is opened unless its symbol has a position or cooled down.
Open ==
  /\ worker.phase = "open"
  /\ worker.left # << >>
  /\ LET p == Head(worker.left) IN
       /\ held[p.sym] = "FLAT"
       /\ p.sym \notin worker.blocked
       /\ p.weight > 0
       /\ held' = [held EXCEPT ![p.sym] = p.side]
  /\ worker' = [worker EXCEPT !.left = Tail(@)]
  /\ UNCHANGED <<cooling, cycle, queue>>

\* It is skipped then, and for the broker's other reasons.
Skip ==
  /\ worker.phase = "open"
  /\ worker.left # << >>
  /\ worker' = [worker EXCEPT !.left = Tail(@)]
  /\ UNCHANGED <<held, cooling, cycle, queue>>

\* Mutant: the task is not let go.
FinishKeepingTask ==
  /\ worker.phase = "open"
  /\ worker.left = << >>
  /\ cycle' = [cycle EXCEPT ![worker.task.cycle].status = "COMPLETED"]
  /\ worker' = [worker EXCEPT !.phase = "wait"]
  /\ UNCHANGED <<held, cooling, queue>>

Finish ==
  /\ worker.phase = "open"
  /\ worker.left = << >>
  /\ cycle' = [cycle EXCEPT ![worker.task.cycle].status = "COMPLETED"]
  /\ worker' = Waiting
  /\ UNCHANGED <<held, cooling, queue>>

\* Mutant: the error ends the worker's loop.
WorkerEnds ==
  /\ worker.phase \notin {"wait", "end"}
  /\ worker' = [Waiting EXCEPT !.phase = "end"]
  /\ UNCHANGED <<held, cooling, cycle, queue>>

\* An error leaves the task where it is, and the worker waits for the next one.
WorkerFails ==
  /\ worker.phase # "wait"
  /\ worker' = Waiting
  /\ UNCHANGED <<held, cooling, cycle, queue>>

-----------------------------------------------------------------------------
\* The queue and what is in progress are lost; the rows stay as they are.
Restart ==
  /\ MayRestart
  /\ queue' = << >>
  /\ worker' = Waiting
  /\ cycle' = [c \in Slots |-> [cycle[c] EXCEPT !.stage = "ended"]]
  /\ UNCHANGED <<held, cooling>>

WorkerStep ==
  \/ Take \/ EndMark \/ BeginExecute \/ Open \/ Skip \/ Finish \/ WorkerFails
  \/ \E sym \in Symbols : Close(sym)

Next ==
  \/ \E c \in Slots : Begin(c) \/ Fetched(c) \/ Look(c) \/ Enqueue(c) \/ Fail(c)
  \/ \E sym \in Symbols : StopLoss(sym) \/ TakeProfit(sym) \/ CooldownEnds(sym)
  \/ WorkerStep
  \/ Restart

Spec == Init /\ [][Next]_vars

\* The worker's thread goes on; nothing else has to.
FairSpec == Spec /\ WF_vars(WorkerStep)

-----------------------------------------------------------------------------
(* Properties *)

Phases == {"wait", "mark", "close", "open"}

Cycles == [mode : Modes, stage : InProgress \cup {"ended"}, status : Statuses,
           seen : SUBSET Symbols, cooled : SUBSET Symbols]

Tasks == [cycle : Slots, mode : Modes, target : ApprovedTargets, asked : SUBSET Symbols]

\* Positions, rows and tasks are what they should be, and the worker has a task exactly
\* when it does not wait for one.
TypeOK ==
  /\ held \in [Symbols -> Sides \cup {"FLAT"}]
  /\ cooling \in SUBSET Symbols
  /\ cycle \in [Slots -> Cycles]
  /\ queue \in Seq(Tasks)
  /\ worker \in [phase : Phases, task : Tasks \cup {NoTask},
                 left : Seq(Positions), blocked : SUBSET Symbols]
  /\ worker.phase = "wait" <=> worker.task = NoTask

\* A bot never holds more positions than its mode's max_positions, however targets that
\* were made from outdated positions are queued and executed. (It fails for scalping
\* bots with cycles that overlap: their positions are not closed before others open.)
WithinPositionLimit == Cardinality(OpenSymbols) <= MaxPositions

\* What cycles come up with for a bot that only goes long: the target keeps what the cycle
\* saw open, unless it is asked to be closed, and a scalping bot's says when it is.
KeepsRetained ==
  \A mode \in Modes, seen, cooled \in SUBSET Symbols :
    Cardinality(seen) <= MaxPositions =>
      \A outcome \in Entries[mode][seen][cooled] :
        /\ seen \subseteq outcome.asked \cup SymbolsIn(outcome.target.positions)
        /\ \A i \in DOMAIN outcome.target.positions : outcome.target.positions[i].side = "LONG"
        /\ mode = "scalping" /\ outcome.target.reasons = {} => outcome.asked = {}

\* The worker closes positions only on symbols that the strategy decided to close or the
\* engine to replace. (It fails for a short position, which a retained LONG does not
\* cover, and for what was opened after the cycle looked.)
OnlyAskedClosed ==
  [][\A sym \in Symbols : Close(sym) => sym \in worker.task.asked]_vars

\* What a cycle saw open and had not decided to close, its target keeps open, no matter
\* what happens between the two. (Short positions aside, as above.)
RetainedStay ==
  [][\A sym \in Symbols :
       Close(sym) /\ sym \in cycle[worker.task.cycle].seen => sym \in worker.task.asked]_vars

\* While a stop-loss cools down, its symbol gets no new position, even if the target has
\* it as a retained one. (It fails when a cycle's mark stops it out while the worker,
\* which has read the cooldowns, executes.)
StopLossLocks ==
  [][\A sym \in cooling : ~ (held[sym] = "FLAT" /\ held'[sym] # "FLAT")]_vars

\* Every target that is queued is executed in the end, or its execution fails: an error
\* in one task does not keep the later ones waiting.
EveryTaskTaken == \A c \in Slots : Pending(c) ~> ~ Pending(c)
=============================================================================
