------------------------------ MODULE MCBacktest ------------------------------
(* Instances of Backtest for TLC. *)
EXTENDS Backtest

Sound == [open |-> 2, high |-> 3, low |-> 1, close |-> 2, volume |-> 0, quote |-> 0,
          lasts |-> 1]

SoundBars == {Sound}

\* A sound candle, and one whose high lies below its close.
MCBars == {Sound, [Sound EXCEPT !.high = 1]}

MCOutages == {{}, {1}}
=============================================================================
