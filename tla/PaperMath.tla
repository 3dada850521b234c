------------------------------ MODULE PaperMath ------------------------------
(***************************************************************************)
(* The arithmetic of the paper account: what                               *)
(* services/paper_trading/risk_calculator.py computes for a position that  *)
(* is opened, marked and closed.  Money is counted in whole ticks: the     *)
(* program quantizes every amount to 8 decimals, here one tick stands for  *)
(* the smallest amount.  Rates are fractions, rounded down to a tick.      *)
(*                                                                         *)
(* A holding is the part of a positions row that money depends on: its     *)
(* side, its quantity and the market price it was entered at.              *)
(***************************************************************************)
EXTENDS Integers

CONSTANTS
  Prices,             \* market prices a feature snapshot can carry, in ticks
  Qtys,               \* quantities a target weight can turn into
  FeeNum, FeeDen,     \* commission_rate as a fraction
  SlipNum, SlipDen    \* slippage_rate as a fraction

ASSUME RatesAssumption ==
  /\ FeeNum \in Nat  /\ FeeDen \in Nat \ {0}
  /\ SlipNum \in Nat /\ SlipDen \in Nat \ {0} /\ SlipNum < SlipDen

ASSUME MarketAssumption ==
  /\ \A p \in Prices : p \in Nat \ {0}
  /\ \A q \in Qtys : q \in Nat \ {0}

Sides == {"LONG", "SHORT"}

Holdings == [side : Sides, qty : Qtys, entry : Prices]

\* +1 for a position that gains when the price rises, -1 for one that loses.
Sign(side) == IF side = "LONG" THEN 1 ELSE -1

Fee(notional) == (notional * FeeNum) \div FeeDen

Slippage(price) == (price * SlipNum) \div SlipDen

\* The price a new position pays, the market moved against it by the slippage.
ExecutionPrice(price, side) == price + Sign(side) * Slippage(price)

\* The price a position is left at.
ExitPrice(price, side) == price - Sign(side) * Slippage(price)

RawPnl(h, exit) == Sign(h.side) * (exit - h.entry) * h.qty

\* The code derives the quantity from the notional; the model picks the
\* quantity and derives the notional, so that the two match to the tick.
Notional(h) == h.qty * ExecutionPrice(h.entry, h.side)

\* What opening h takes out of the cash: notional plus commission.
TotalCost(h) == Notional(h) + Fee(Notional(h))

\* What closing h at the executed price `exit` puts back into the cash.
NetRecovered(h, exit) == h.qty * h.entry + RawPnl(h, exit) - Fee(h.qty * exit)

\* What h contributes to the equity while its last mark is `mark`.
MarkValue(h, mark) == h.qty * h.entry + RawPnl(h, mark)
==============================================================================
