-------------------------- MODULE EntryGates_proofs --------------------------
(***************************************************************************)
(* For any snapshots of a market, any risk level and any passing of time:  *)
(* no entry of a strategy that trades with the trend goes against it, no   *)
(* live entry comes too soon or too often after stop-losses, and the two   *)
(* repositories agree on them. Every decision carries a regime, so that    *)
(* what is delivered has its type.                                         *)
(***************************************************************************)
EXTENDS EntryGates, FiniteSetTheorems, TLAPS

-----------------------------------------------------------------------------
(* What strategies decide *)

\* An entry goes with the trend.
Follows(decision, s) ==
  /\ decision.action = "LONG" => Trend(s) >= 0
  /\ decision.action = "SHORT" => Trend(s) <= 0

\* A decision that is labelled BULL_TREND does not meet a downtrend.
Labelled(decision, s) == decision.regime = "BULL_TREND" => Trend(s) # -1

\* The regime follows the averages.
LEMMA RegimeTrend ==
  ASSUME NEW s
  PROVE  /\ Regime(s) = "BULL_TREND" => Trend(s) = 1
         /\ Regime(s) = "BEAR_TREND" => Trend(s) = -1
         /\ Regime(s) = "SIDEWAYS" => Trend(s) = 0
BY DEF Regime, Trend

\* RegimeAdaptiveStrategy: the tactic of the regime enters to its side.
LEMMA AdaptiveFollows ==
  ASSUME NEW s, NEW open \in BOOLEAN
  PROVE  Follows(RegimeAdaptive(s, open), s) /\ Labelled(RegimeAdaptive(s, open), s)
<1>1. RegimeAdaptive(s, open).action = Tactic(s, open) /\ RegimeAdaptive(s, open).regime = Regime(s)
  BY DEF RegimeAdaptive, Decision
<1>2. Tactic(s, open) = "LONG" => Regime(s) \in {"BULL_TREND", "SIDEWAYS"}
  BY DEF Tactic
<1>3. Tactic(s, open) = "SHORT" => Regime(s) \in {"BEAR_TREND", "SIDEWAYS"}
  BY DEF Tactic
<1> QED
  BY <1>1, <1>2, <1>3, RegimeTrend DEF Follows, Labelled

\* MultiAgentStrategy: the signal needs both averages in its order.
LEMMA MultiFollows ==
  ASSUME NEW s \in Snapshots, NEW shield \in BOOLEAN
  PROVE  Follows(MultiAgent(s, shield), s) /\ Labelled(MultiAgent(s, shield), s)
<1>1. MultiAgent(s, shield).regime = Regime(s)
  BY DEF MultiAgent, Decision
<1>2. MultiAgent(s, shield).action \in {"AVOID", "HOLD", Direction(s)}
  BY DEF MultiAgent, Decision
<1>3. Direction(s) = "LONG" => Trend(s) = 1
  BY DEF Direction, Trend
<1>4. Direction(s) = "SHORT" => Trend(s) = -1
  BY StrategyAssumption DEF Direction, Trend, Ema20
<1> QED
  BY <1>1, <1>2, <1>3, <1>4, RegimeTrend DEF Follows, Labelled

\* HFTMomentumStrategy takes its side from the averages.
LEMMA HftFollows == ASSUME NEW s PROVE Follows(HftMomentum(s), s)
BY DEF HftMomentum, Follows, Trend, Decision, None

\* EMAGoldenCrossStrategy only goes long, above EMA50.
LEMMA GoldenFollows == ASSUME NEW s \in Snapshots PROVE Follows(EmaGoldenCross(s), s)
<1>1. EmaGoldenCross(s).action \in {"NONE", "HOLD", "LONG"}
  BY DEF EmaGoldenCross, Decision, None
<1>2. EmaGoldenCross(s).action = "LONG" => ~ (Ema20 <= s.ema50)
  BY DEF EmaGoldenCross, Decision, None
<1>3. ~ (Ema20 <= s.ema50) => Trend(s) \in {0, 1}
  BY StrategyAssumption DEF Trend, Ema20
<1> QED
  BY <1>1, <1>2, <1>3 DEF Follows

\* Every strategy names a regime with its decision: the one it detects, or one it states.
LEMMA RegimeNamed ==
  ASSUME NEW strategy \in Strategies, NEW s \in Snapshots,
         NEW open \in BOOLEAN, NEW shield \in BOOLEAN
  PROVE  Decide(strategy, s, open, shield).regime \in Regimes
<1>1. Regime(s) \in Regimes
  BY DEF Regime, Regimes
<1>2. RegimeAdaptive(s, open).regime \in Regimes
  BY <1>1 DEF RegimeAdaptive, Decision
<1>3. MultiAgent(s, shield).regime \in Regimes
  BY <1>1 DEF MultiAgent, Decision
<1>4. HftMomentum(s).regime \in Regimes
  BY DEF HftMomentum, None, Decision, Regimes
<1>5. RsiOversold(s).regime \in Regimes
  BY DEF RsiOversold, None, Decision, Regimes
<1>6. MacdCross(s).regime \in Regimes
  BY DEF MacdCross, None, Decision, Regimes
<1>7. EmaGoldenCross(s).regime \in Regimes
  BY DEF EmaGoldenCross, None, Decision, Regimes
<1> QED
  BY <1>2, <1>3, <1>4, <1>5, <1>6, <1>7 DEF Strategies, Decide

-----------------------------------------------------------------------------
(* What passes the gates *)

\* The database's stop-losses and what the backtest's repository makes of them.
InStep ==
  /\ bot \in Bots
  /\ stops \subseteq 0 .. Horizon
  /\ memory \in [left : 0 .. 1, history : SUBSET (0 .. Horizon)]
  /\ memory.history = stops
  /\ memory.left = 1 => 0 \in stops

Inv == InStep /\ WithTheTrend /\ EntriesSpaced

\* A delivered entry goes back to a snapshot.
LEMMA SignalOrigin ==
  ASSUME bot \in Bots, NEW signal \in SignalsNow
  PROVE  \E s \in Snapshots, open, shield \in BOOLEAN :
           signal = Signal(bot.strategy, s, open, shield)
<1>1. bot.strategy \in Strategies /\ (side # "FLAT") \in BOOLEAN /\ ("regime" \in bot.shields) \in BOOLEAN
  BY DEF Bots
<1>2. SignalsNow = {x \in {Signal(bot.strategy, s, side # "FLAT", "regime" \in bot.shields) : s \in Snapshots} :
                      x.decision.action # "NONE"}
  BY <1>1 DEF SignalsNow, Signals
<1> QED
  BY <1>1, <1>2

\* What is delivered goes with the trend.
LEMMA EnterFollows == ASSUME InStep, Enter PROVE WithTheTrend'
<1> PICK signal \in SignalsNow :
      entry' = [action |-> signal.decision.action, regime |-> signal.decision.regime,
                trend |-> signal.trend]
  BY DEF Enter
<1> PICK s \in Snapshots, open, shield \in BOOLEAN :
      signal = Signal(bot.strategy, s, open, shield)
  BY SignalOrigin DEF InStep
<1>1. signal.decision = Decide(bot.strategy, s, open, shield) /\ signal.trend = Trend(s)
  BY DEF Signal
<1>2. bot.strategy \in Strategies /\ bot' = bot
  BY DEF InStep, Bots, Enter
<1>3. bot.strategy \notin {"rsi_oversold", "macd_cross"} => Follows(signal.decision, s)
  BY <1>1, <1>2, AdaptiveFollows, MultiFollows, HftFollows, GoldenFollows
     DEF Strategies, Decide
<1> QED
  BY <1>1, <1>2, <1>3 DEF Follows, WithTheTrend

\* What is delivered to a live bot keeps its distance to stop-losses.
LEMMA EnterSpaced == ASSUME InStep, Enter PROVE EntriesSpaced'
<1> PICK signal \in SignalsNow, context \in Contexts :
      /\ Passes(signal, context)
      /\ entry' = [action |-> signal.decision.action, regime |-> signal.decision.regime,
                   trend |-> signal.trend]
  BY DEF Enter
<1> SUFFICES ASSUME ~ bot.backtest
             PROVE  /\ \A age \in stops : age > Hours(2)
                    /\ Cardinality({age \in stops : age <= Hours(12)}) <= 2
                    /\ bot.strategy \in {"regime_adaptive", "multi_agent"} /\ entry'.trend = -1
                         => Cardinality({age \in stops : age <= Hours(24)}) <= 1
  BY DEF Enter, EntriesSpaced
<1> DEFINE within(h) == {age \in stops : age <= Hours(h)}
<1>1. \A h \in Nat : IsFiniteSet(within(h)) /\ Cardinality(within(h)) \in Nat
  <2>0. 0 \in Int /\ Horizon \in Int
    BY DEF Horizon, Hours
  <2>1. IsFiniteSet(0 .. Horizon)
    BY <2>0, FS_Interval
  <2> QED
    BY <2>1, FS_Subset, FS_CardinalityType DEF InStep
<1>2. \A age \in stops : age > Hours(2)
  BY DEF Passes, Cooling, DbCooling, InStep, Horizon, Hours
<1>3. /\ signal.decision.regime = "BULL_TREND" => Cardinality(within(12)) < 3
      /\ signal.decision.regime = "BEAR_TREND" => Cardinality(within(24)) < 2
      /\ signal.decision.regime \notin {"BULL_TREND", "BEAR_TREND"} => Cardinality(within(48)) < 2
  BY <1>1 DEF Passes, LockedOut, Whipsaw, DbWhipsaw
<1>4. Cardinality(within(12)) <= Cardinality(within(24)) /\ Cardinality(within(24)) <= Cardinality(within(48))
  <2>1. within(12) \in SUBSET within(24) /\ within(24) \in SUBSET within(48)
    BY DEF InStep, Horizon, Hours
  <2> QED
    BY <1>1, <2>1, FS_Subset
<1>5. bot.strategy \in {"regime_adaptive", "multi_agent"} /\ entry'.trend = -1
        => signal.decision.regime # "BULL_TREND"
  <2> PICK s \in Snapshots, open, shield \in BOOLEAN :
        signal = Signal(bot.strategy, s, open, shield)
    BY SignalOrigin DEF InStep
  <2>1. signal.decision = Decide(bot.strategy, s, open, shield) /\ signal.trend = Trend(s)
    BY DEF Signal
  <2> QED
    BY <2>1, AdaptiveFollows, MultiFollows DEF Decide, Labelled
<1> QED
  BY <1>1, <1>2, <1>3, <1>4, <1>5

-----------------------------------------------------------------------------
\* The invariant is inductive.
LEMMA InvInductive == Inv /\ [Next]_vars => Inv'
<1> SUFFICES ASSUME Inv, [Next]_vars PROVE Inv'
  OBVIOUS
<1>1. ASSUME UNCHANGED <<bot, stops, memory>> PROVE InStep'
  BY <1>1 DEF Inv, InStep
<1>2. ASSUME entry' = NoEntry PROVE WithTheTrend' /\ EntriesSpaced'
  BY <1>2 DEF NoEntry, WithTheTrend, EntriesSpaced
<1>3. CASE Enter
  BY <1>1, <1>3, EnterFollows, EnterSpaced DEF Inv, Enter
<1>4. CASE Exit \/ TakeProfit
  BY <1>1, <1>2, <1>4 DEF Inv, Exit, TakeProfit
<1>5. CASE StopLoss
  <2>1. InStep'
    BY <1>5 DEF Inv, InStep, StopLoss, Horizon
  <2> QED
    BY <1>2, <1>5, <2>1 DEF Inv, StopLoss
<1>6. ASSUME NEW step \in Steps, Pass(step) PROVE Inv'
  <2>1. step \in Nat /\ step >= 1
    BY GateAssumption
  <2>2. Aged(stops, step) \subseteq 0 .. Horizon
    BY <2>1 DEF Inv, InStep, Aged, Horizon
  <2>3. memory' = [left |-> 0, history |-> Aged(stops, step)]
    BY <1>6, <2>1 DEF Inv, InStep, Pass
  <2>4. InStep'
    BY <1>6, <2>2, <2>3 DEF Inv, InStep, Pass
  <2> QED
    BY <1>2, <1>6, <2>4 DEF Inv, Pass
<1>7. CASE UNCHANGED vars
  BY <1>1, <1>7 DEF Inv, vars, WithTheTrend, EntriesSpaced
<1> QED
  BY <1>3, <1>4, <1>5, <1>6, <1>7 DEF Next

\* The invariant holds throughout.
LEMMA InvCorrect == Spec => []Inv
<1>1. Init => Inv
  BY DEF Init, Inv, InStep, NoEntry, WithTheTrend, EntriesSpaced
<1> QED
  BY <1>1, InvInductive, PTL DEF Spec

\* The open position's side and the last entry have their types.
Delivered ==
  /\ side \in {"FLAT", "LONG", "SHORT"}
  /\ entry \in [action : {"NONE", "LONG", "SHORT"}, regime : Regimes, trend : -1 .. 1]

\* Whatever is delivered is a long or a short, with a regime.
LEMMA EnterDelivers == ASSUME InStep, Delivered, Enter PROVE Delivered'
<1> PICK signal \in SignalsNow, context \in Contexts :
      /\ Passes(signal, context)
      /\ entry' = [action |-> signal.decision.action, regime |-> signal.decision.regime,
                   trend |-> signal.trend]
      /\ side' \in {"FLAT", signal.decision.action}
  BY DEF Enter
<1> PICK s \in Snapshots, open, shield \in BOOLEAN :
      signal = Signal(bot.strategy, s, open, shield)
  BY SignalOrigin DEF InStep
<1>1. signal.decision = Decide(bot.strategy, s, open, shield) /\ signal.trend = Trend(s)
  BY DEF Signal
<1>2. bot.strategy \in Strategies
  BY DEF InStep, Bots
<1>3. signal.decision.regime \in Regimes
  BY <1>1, <1>2, RegimeNamed
<1>4. signal.trend \in -1 .. 1
  BY <1>1 DEF Trend
<1>5. signal.decision.action \in {"LONG", "SHORT"}
  BY DEF Passes
<1> QED
  BY <1>3, <1>4, <1>5 DEF Delivered

\* The bot's choices, its position, both repositories and the entry that was delivered last
\* keep their types: StrategyOrchestrator delivers nothing without a side and a regime.
THEOREM TypeCorrect == Spec => []TypeOK
<1>1. Init => Delivered
  BY DEF Init, Delivered, NoEntry, Regimes
<1>2. Inv /\ Delivered /\ [Next]_vars => Delivered'
  <2> SUFFICES ASSUME Inv, Delivered, [Next]_vars PROVE Delivered'
    OBVIOUS
  <2>1. NoEntry \in [action : {"NONE", "LONG", "SHORT"}, regime : Regimes, trend : -1 .. 1]
    BY DEF NoEntry, Regimes
  <2>2. CASE Enter
    BY <2>2, EnterDelivers DEF Inv
  <2>3. CASE Exit \/ StopLoss \/ TakeProfit \/ \E step \in Steps : Pass(step)
    BY <2>1, <2>3 DEF Delivered, Exit, StopLoss, TakeProfit, Pass
  <2>4. CASE UNCHANGED vars
    BY <2>4 DEF Delivered, vars
  <2> QED
    BY <2>2, <2>3, <2>4 DEF Next
<1>3. Inv /\ Delivered => TypeOK
  BY DEF Inv, InStep, Delivered, TypeOK
<1> QED
  BY <1>1, <1>2, <1>3, InvCorrect, PTL DEF Spec

\* The strategies that trade with the trend deliver no entry against EMA20 and EMA50
\* (StrategyFactory's strategies through StrategyOrchestrator).
THEOREM TrendCorrect == Spec => []WithTheTrend
<1>1. Inv => WithTheTrend
  BY DEF Inv
<1> QED
  BY <1>1, InvCorrect, PTL

\* A live bot's entries keep their distance to its stop-losses, whatever the regimes in
\* between (get_recent_stop_loss_symbols and the whipsaw lockout).
THEOREM SpacedCorrect == Spec => []EntriesSpaced
<1>1. Inv => EntriesSpaced
  BY DEF Inv
<1> QED
  BY <1>1, InvCorrect, PTL

\* The backtest's repository answers like the database about repeated stop-losses, and
\* refuses nothing for a recent one that the database would allow.
THEOREM RepositoriesCorrect == Spec => []RepositoriesAgree
<1>1. Inv => RepositoriesAgree
  <2> SUFFICES ASSUME Inv PROVE RepositoriesAgree
    OBVIOUS
  <2>1. MemoryCooling(120) => DbCooling(120)
    BY DEF Inv, InStep, MemoryCooling, DbCooling, Horizon
  <2> QED
    BY <2>1 DEF Inv, InStep, RepositoriesAgree, MemoryWhipsaw, DbWhipsaw
<1> QED
  BY <1>1, InvCorrect, PTL
=============================================================================
