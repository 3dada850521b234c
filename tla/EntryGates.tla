----------------------------- MODULE EntryGates -----------------------------
(***************************************************************************)
(* How a symbol's decisions pass StrategyOrchestrator: what the strategy   *)
(* says, the open position, the cooldowns after stop-losses, the filters   *)
(* of long entries and the risk models. The stop-losses are read from the  *)
(* database, or, in a backtest, from InMemoryPositionRepository, which is  *)
(* told of every closing. Both are kept here side by side. Times are ages, *)
(* in units of 30 minutes; one symbol of one account.                      *)
(***************************************************************************)
EXTENDS Strategies, FiniteSets

CONSTANTS
  Steps,   \* the time that may pass between two steps
  MaxStops \* bound: stop-losses within 48 hours

ASSUME GateAssumption == Steps \subseteq Nat \ {0} /\ MaxStops \in Nat

Shields == {"btc", "htf", "regime"}

VARIABLES
  bot,     \* its strategy, shields, timeframe, and whether it is a backtest
  side,    \* the side of the open position, or FLAT
  stops,   \* the database: ages of the positions closed by STOP_LOSS in the last 48 hours
  memory,  \* the backtest's repository: what is left of the cooldown, ages of stop-losses
  entry    \* the entry that was just decided: action, regime, sign of the EMA trend

vars == <<bot, side, stops, memory, entry>>

NoEntry == [action |-> "NONE", regime |-> "UNKNOWN", trend |-> 0]

Bots == [strategy : Strategies, shields : {{}, Shields}, noisy : BOOLEAN, backtest : BOOLEAN]

-----------------------------------------------------------------------------
(* The two repositories *)

\* No query looks back further.
Horizon == 96

Hours(n) == 2 * n

DbCooling(minutes) == \E age \in stops : 30 * age <= minutes

DbWhipsaw(count, hours) == Cardinality({age \in stops : age <= Hours(hours)}) >= count

\* The minutes that are asked for do not matter: the expiry was set by the closing.
MemoryCooling(minutes) == memory.left > 0

\* MemoryWhipsaw, had it left out the stop-loss at the cutoff.
MemoryWhipsawStrict(count, hours) ==
  Cardinality({age \in memory.history : age < Hours(hours)}) >= count

MemoryWhipsaw(count, hours) ==
  Cardinality({age \in memory.history : age <= Hours(hours)}) >= count

Cooling == IF bot.backtest THEN MemoryCooling(120) ELSE DbCooling(120)

Whipsaw(count, hours) ==
  IF bot.backtest THEN MemoryWhipsaw(count, hours) ELSE DbWhipsaw(count, hours)

\* LockedOut, had it taken every regime for a bull market.
LockedOutAsBull(regime) == Whipsaw(3, 12)

\* A trending market is given more stops and less time; the regime is the decision's.
LockedOut(regime) ==
  CASE regime = "BULL_TREND" -> Whipsaw(3, 12)
    [] regime = "BEAR_TREND" -> Whipsaw(2, 24)
    [] OTHER -> Whipsaw(2, 48)

-----------------------------------------------------------------------------
(* What the gates ask of a decision. The many snapshots come down to few   *)
(* such signals.                                                           *)

Trend(s) == IF Ema20 > s.ema50 THEN 1 ELSE IF Ema20 < s.ema50 THEN -1 ELSE 0

Signal(strategy, s, open, shield) ==
  [decision |-> Decide(strategy, s, open, shield), trend |-> Trend(s),
   overbought |-> s.rsi > 75, deep |-> Dist(s) < -35]

Signals ==
  [strategy \in Strategies |-> [open \in BOOLEAN |-> [shield \in BOOLEAN |->
     {signal \in {Signal(strategy, s, open, shield) : s \in Snapshots} :
        signal.decision.action # "NONE"}]]]

\* The market around the symbol: BTC crashes, the higher timeframe's trend (0 as well
\* when nothing is known of it).
Contexts == [crash : BOOLEAN, htf : {-1, 0, 1}]

LongFilter(signal) ==
  \/ signal.overbought
  \/ bot.strategy # "rsi_oversold" /\ signal.deep

BtcCrash(action, context) == "btc" \in bot.shields /\ context.crash /\ action = "LONG"

HtfAgainst(action, context) ==
  /\ "htf" \in bot.shields
  /\ \/ action = "LONG" /\ context.htf = -1
     \/ action = "SHORT" /\ context.htf = 1

RegimeHostile(regime) ==
  /\ "regime" \in bot.shields
  /\ \/ regime = "HIGH_VOLATILITY"
     \/ regime \in {"BEAR_TREND", "SIDEWAYS"} /\ bot.noisy

Passes(signal, context) ==
  LET action == signal.decision.action
      regime == signal.decision.regime
  IN  /\ action \in {"LONG", "SHORT"}
      /\ side = "FLAT"
      /\ ~ Cooling
      /\ ~ LockedOut(regime)
      /\ action = "LONG" => ~ LongFilter(signal)
      /\ ~ BtcCrash(action, context)
      /\ ~ HtfAgainst(action, context)
      /\ ~ RegimeHostile(regime)

-----------------------------------------------------------------------------
Init ==
  /\ bot \in Bots
  /\ side = "FLAT"
  /\ stops = {}
  /\ memory = [left |-> 0, history |-> {}]
  /\ entry = NoEntry

SignalsNow == Signals[bot.strategy][side # "FLAT"]["regime" \in bot.shields]

\* The entry goes to the portfolio engine, which opens a position or finds no room.
Enter ==
  \E signal \in SignalsNow, context \in Contexts :
    /\ Passes(signal, context)
    /\ entry' = [action |-> signal.decision.action, regime |-> signal.decision.regime,
                 trend |-> signal.trend]
    /\ side' \in {"FLAT", signal.decision.action}
    /\ UNCHANGED <<bot, stops, memory>>

\* A CLOSE decision passes no gate. A position closed by a signal leaves no cooldown.
Exit ==
  /\ side # "FLAT"
  /\ \E signal \in SignalsNow : signal.decision.action = "CLOSE"
  /\ side' = "FLAT"
  /\ entry' = NoEntry
  /\ UNCHANGED <<bot, stops, memory>>

\* Closed by its stop-loss, which may have trailed into profit.
StopLoss ==
  /\ side # "FLAT"
  /\ Cardinality(stops) < MaxStops
  /\ side' = "FLAT"
  /\ stops' = stops \cup {0}
  /\ memory' = [left |-> 1, history |-> memory.history \cup {0}]
  /\ entry' = NoEntry
  /\ UNCHANGED bot

TakeProfit ==
  /\ side # "FLAT"
  /\ side' = "FLAT"
  /\ entry' = NoEntry
  /\ UNCHANGED <<bot, stops, memory>>

\* Aged, had it kept what no query sees any more.
AgedForever(ages, step) == {age + step : age \in ages}

Aged(ages, step) == {age + step : age \in {a \in ages : a + step <= Horizon}}

Pass(step) ==
  /\ stops' = Aged(stops, step)
  /\ memory' = [left |-> IF memory.left > step THEN memory.left - step ELSE 0,
                history |-> Aged(memory.history, step)]
  /\ entry' = NoEntry
  /\ UNCHANGED <<bot, side>>

Next ==
  \/ Enter
  \/ Exit
  \/ StopLoss
  \/ TakeProfit
  \/ \E step \in Steps : Pass(step)

Spec == Init /\ [][Next]_vars

-----------------------------------------------------------------------------
(* Type correctness of the bot's choices, the position, both repositories and the last *)
(* entry that StrategyOrchestrator delivered.                                          *)
TypeOK ==
  /\ bot \in Bots
  /\ side \in {"FLAT", "LONG", "SHORT"}
  /\ stops \subseteq 0 .. Horizon
  /\ memory.left \in 0 .. 1 /\ memory.history \subseteq 0 .. Horizon
  /\ entry \in [action : {"NONE", "LONG", "SHORT"}, regime : Regimes, trend : -1 .. 1]

(* The strategies that trade with the trend deliver no long entry while EMA20 is below *)
(* EMA50 and no short entry while it is above, through the regime, the tactic it calls *)
(* for, the signal and the filters.                                                    *)
WithTheTrend ==
  bot.strategy \notin {"rsi_oversold", "macd_cross"} =>
    /\ entry.action = "LONG" => entry.trend >= 0
    /\ entry.action = "SHORT" => entry.trend <= 0

(* Whatever regimes came in between: a live bot enters a symbol at least two hours     *)
(* after its last stop-loss and with at most two in twelve hours; one that detects the *)
(* regime enters a symbol that trends down with at most one in 24 hours.               *)
EntriesSpaced ==
  entry.action # "NONE" /\ ~ bot.backtest =>
    /\ \A age \in stops : age > Hours(2)
    /\ Cardinality({age \in stops : age <= Hours(12)}) <= 2
    /\ bot.strategy \in {"regime_adaptive", "multi_agent"} /\ entry.trend = -1
         => Cardinality({age \in stops : age <= Hours(24)}) <= 1

(* A backtest's repository answers like the database when it is asked for repeated     *)
(* stop-losses, and refuses nothing for a recent one that the database would allow.    *)
RepositoriesAgree ==
  /\ \A window \in {<<3, 12>>, <<2, 24>>, <<2, 48>>} :
       MemoryWhipsaw(window[1], window[2]) = DbWhipsaw(window[1], window[2])
  /\ MemoryCooling(120) => DbCooling(120)
=============================================================================
