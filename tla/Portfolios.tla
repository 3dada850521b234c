----------------------------- MODULE Portfolios -----------------------------
(***************************************************************************)
(* Target portfolios, as the target engine makes them and execution gets   *)
(* them: positions in order, with a percentage of the equity each, and the *)
(* symbols that the metadata gives a close reason for. Gross exposure and  *)
(* cash weight follow from the positions.                                  *)
(***************************************************************************)
EXTENDS Integers, Sequences

CONSTANTS
  Symbols,
  MaxPositions  \* max_positions of the mode's RiskLimits

Sides == {"LONG", "SHORT"}

Positions == [sym : Symbols, side : Sides, weight : 0..100]

Position(sym, side, weight) == [sym |-> sym, side |-> side, weight |-> weight]

Portfolio(positions, reasons) == [positions |-> positions, reasons |-> reasons]

Nothing == Portfolio(<< >>, {})

SymbolsIn(positions) == {positions[i].sym : i \in DOMAIN positions}
=============================================================================
