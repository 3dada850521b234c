----------------------------- MODULE Strategies -----------------------------
(***************************************************************************)
(* What the strategies make of a symbol's latest feature snapshots: the    *)
(* market regime (RegimeEngine), the tactic a regime calls for, the trend  *)
(* signal and the simple crossing strategies, with their default           *)
(* parameters. Prices are in thousandths of EMA20, oscillators in points,  *)
(* RVOL in tenths, the MACD histogram in ten-thousandths of the price. A   *)
(* snapshot comes with what is asked of the one before it: its RSI and     *)
(* histogram, its close less EMA50 and its EMA20 less EMA50. A confidence  *)
(* is kept only where a decision depends on it.                            *)
(***************************************************************************)
EXTENDS Integers

CONSTANTS
  Snapshots, \* the snapshots that may be met
  RiskLevel  \* of the bot

ASSUME StrategyAssumption ==
  /\ RiskLevel \in 0 .. 100
  /\ \A s \in Snapshots : s.ema50 \in Int

Regimes == {"BULL_TREND", "BEAR_TREND", "SIDEWAYS", "HIGH_VOLATILITY", "UNKNOWN"}

Ema20 == 1000

Dist(s) == s.close - Ema20

None(regime) == [action |-> "NONE", regime |-> regime]

Decision(action, regime) == [action |-> action, regime |-> regime]

\* Regime, had it compared the close instead of EMA20 with EMA50.
RegimeOfClose(s) ==
  IF ~ s.known THEN "UNKNOWN"
  ELSE IF s.close > s.ema50 THEN "BULL_TREND"
  ELSE IF s.close < s.ema50 THEN "BEAR_TREND"
  ELSE "SIDEWAYS"

\* A snapshot of the warm-up lacks features.
Regime(s) ==
  IF ~ s.known THEN "UNKNOWN"
  ELSE IF 100 * s.atr > 8 * s.close \/ 8 * (s.upper - s.lower) > s.upper + s.lower
    THEN "HIGH_VOLATILITY"
  ELSE IF Ema20 > s.ema50 THEN "BULL_TREND"
  ELSE IF Ema20 < s.ema50 THEN "BEAR_TREND"
  ELSE "SIDEWAYS"

HasBefore(s) == s.history > 1

-----------------------------------------------------------------------------
(* BullTactic *)

BullExit(s) ==
  \/ s.rsi > 86 /\ Dist(s) > 30
  \/ 100 * s.close < 98 * s.ema50
  \/ HasBefore(s) /\ s.before.close < 0 /\ 100 * s.close < 99 * s.ema50
  \/ HasBefore(s) /\ s.rsi > 80 /\ s.hist < s.before.hist

BullPullback(s) == Dist(s) \in -12 .. 5 /\ s.rsi < 65

BullContinuation(s) ==
  /\ s.close > Ema20 /\ s.close > s.ema50
  /\ Dist(s) <= 28
  /\ s.rsi \in 50 .. 78
  /\ s.hist > 0
  /\ HasBefore(s) => s.hist >= s.before.hist

\* Every trigger reaches the minimal confidence, the further factors only add to it.
BullEntry(s) ==
  /\ s.adx >= 21
  /\ \/ BullPullback(s) /\ s.rvol <= 13 /\ (s.rsi < 50 \/ s.stoch < 20)
     \/ ~ BullPullback(s) /\ BullContinuation(s)

-----------------------------------------------------------------------------
(* BearTactic *)

BearExit(s) ==
  \/ s.rsi < 36 /\ Dist(s) < -7
  \/ 100 * s.close > 102 * s.ema50
  \/ HasBefore(s) /\ s.before.close > 0 /\ 100 * s.close > 101 * s.ema50
  \/ HasBefore(s) /\ s.hist > 0 /\ s.before.hist <= 0

BearPullback(s) == Dist(s) \in 14 .. 30

BearBreakdown(s) ==
  /\ Dist(s) < 0
  /\ HasBefore(s) /\ s.hist < 0 /\ s.hist < s.before.hist
  /\ s.rsi \in 25 .. 44

BearEntry(s) ==
  /\ s.adx >= 24
  /\ \/ /\ BearPullback(s)
        /\ s.rvol <= 15
        /\ ~ (HasBefore(s) /\ s.hist > 0 /\ s.hist > s.before.hist)
        /\ s.rsi > 50 \/ s.stoch > 80
     \/ ~ BearPullback(s) /\ BearBreakdown(s)

-----------------------------------------------------------------------------
(* SidewaysTactic. It does not know the side of the open position: any     *)
(* reason to close either side is sent as CLOSE_LONG.                      *)

SidewaysExit(s) == s.close >= s.upper \/ s.close <= s.lower \/ s.rsi > 65 \/ s.rsi < 35

WideBand(s) == 1000 * (s.upper - s.lower) >= 30 * s.close

SidewaysLong(s) == WideBand(s) /\ s.close <= s.lower /\ s.rsi < 33

SidewaysShort(s) == WideBand(s) /\ s.close >= s.upper /\ s.rsi > 67

-----------------------------------------------------------------------------
(* The tactic of the regime. It is asked for an exit by a position of any  *)
(* side, whatever the regime was when that position was opened.            *)

Tactic(s, open) ==
  LET exit(closes) == IF closes THEN "CLOSE" ELSE "HOLD"
      enter(goes, action) == IF goes THEN action ELSE "NONE"
  IN  CASE Regime(s) = "BULL_TREND" -> IF open THEN exit(BullExit(s)) ELSE enter(BullEntry(s), "LONG")
        [] Regime(s) = "BEAR_TREND" -> IF open THEN exit(BearExit(s)) ELSE enter(BearEntry(s), "SHORT")
        [] Regime(s) = "SIDEWAYS" /\ open -> exit(SidewaysExit(s))
        [] Regime(s) = "SIDEWAYS" /\ ~ open ->
             IF SidewaysLong(s) THEN "LONG" ELSE enter(SidewaysShort(s), "SHORT")
        [] OTHER -> "NONE"

RegimeAdaptive(s, open) == Decision(Tactic(s, open), Regime(s))

-----------------------------------------------------------------------------
(* MultiAgentStrategy: a trend signal, its score (which is taken as given) *)
(* and a threshold                                                         *)

Direction(s) ==
  CASE s.known /\ s.close > Ema20 /\ Ema20 > s.ema50 /\ s.rsi > 50 /\ s.roc > 0 /\ s.hist > 0
         -> "LONG"
    [] s.known /\ s.close < Ema20 /\ Ema20 < s.ema50 /\ s.rsi < 50 /\ s.roc < 0 /\ s.hist < 0
         -> "SHORT"
    [] OTHER -> "NEUTRAL"

\* In quarters of a percent.
Threshold(direction, regime, shield) ==
  LET against == \/ direction = "LONG" /\ regime = "BEAR_TREND"
                 \/ direction = "SHORT" /\ regime = "BULL_TREND"
  IN  200 - RiskLevel + (IF shield /\ against THEN 60 ELSE 0)

MultiAgent(s, shield) ==
  LET regime == Regime(s)
      direction == Direction(s)
  IN  IF shield /\ regime = "HIGH_VOLATILITY" THEN Decision("AVOID", regime)
      ELSE IF direction # "NEUTRAL" /\ 4 * s.score >= Threshold(direction, regime, shield)
        THEN Decision(direction, regime)
      ELSE Decision("HOLD", regime)

-----------------------------------------------------------------------------
(* The other strategies do not detect the regime: they state one.          *)

\* Its price is the last trade's, in a backtest the last close.
HftTrigger(s) ==
  IF Ema20 > s.ema50
    THEN Dist(s) \in -12 .. 6 /\ (s.rsi < 42 \/ s.stoch < 20)
    ELSE Dist(s) \in -6 .. 12 /\ (s.rsi > 58 \/ s.stoch > 80)

\* In tenths of a percent.
HftConfidence(s) ==
  LET up == Ema20 > s.ema50
      rsi == IF up THEN 42 - s.rsi ELSE s.rsi - 58
      stoch == IF up THEN 20 - s.stoch ELSE s.stoch - 80
      deep == 15 * (IF rsi > 0 THEN rsi ELSE stoch)
      flow == IF s.flow = (IF up THEN "buy" ELSE "sell") THEN 250 ELSE 0
  IN  650 + (IF deep > 250 THEN 250 ELSE deep) + flow

HftMomentum(s) ==
  IF ~ s.known \/ s.adx < 25 \/ ~ HftTrigger(s) THEN None("BULL_TREND")
  ELSE IF HftConfidence(s) >= 780 - RiskLevel
    THEN Decision(IF Ema20 > s.ema50 THEN "LONG" ELSE "SHORT", "BULL_TREND")
  ELSE Decision("HOLD", "BULL_TREND")

RsiOversold(s) ==
  LET oversold == 100 * (30 - s.rsi)
      recovering == IF s.rsi > s.before.rsi THEN 20 ELSE 0
      low == IF 100 * s.close <= 101 * s.lower THEN 15 ELSE 0
  IN  IF ~ s.known \/ s.history < 3 THEN None("SIDEWAYS")
      ELSE IF s.rsi < 30 /\ oversold + 30 * (recovering + low) >= 1500
        THEN Decision("LONG", "BULL_TREND")
      ELSE Decision("HOLD", "SIDEWAYS")

\* It does not go short.
MacdCross(s) ==
  IF ~ s.known \/ ~ HasBefore(s) THEN None("BULL_TREND")
  ELSE IF s.hist > 0 /\ 200 * s.hist >= 1000 - 9 * RiskLevel THEN Decision("LONG", "BULL_TREND")
  ELSE Decision("HOLD", "BULL_TREND")

EmaGoldenCross(s) ==
  LET spread == 40 + (1000 * (Ema20 - s.ema50)) \div s.close
      confidence == (IF spread > 70 THEN 70 ELSE spread) + (IF s.rsi > 55 THEN 15 ELSE 0)
                    + (IF s.before.spread <= 0 THEN 20 ELSE 0) + (IF s.roc > 0 THEN 5 ELSE 0)
  IN  IF ~ s.known \/ s.history < 5 THEN None("BEAR_TREND")
      ELSE IF Ema20 <= s.ema50 THEN Decision("HOLD", "BEAR_TREND")
      ELSE Decision(IF confidence >= 50 THEN "LONG" ELSE "HOLD", "BULL_TREND")

Strategies == {"regime_adaptive", "multi_agent", "hft_momentum", "rsi_oversold",
               "macd_cross", "ema_golden_cross"}

Decide(strategy, s, open, shield) ==
  CASE strategy = "regime_adaptive" -> RegimeAdaptive(s, open)
    [] strategy = "multi_agent" -> MultiAgent(s, shield)
    [] strategy = "hft_momentum" -> HftMomentum(s)
    [] strategy = "rsi_oversold" -> RsiOversold(s)
    [] strategy = "macd_cross" -> MacdCross(s)
    [] strategy = "ema_golden_cross" -> EmaGoldenCross(s)
=============================================================================
