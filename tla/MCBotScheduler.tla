-------------------------- MODULE MCBotScheduler --------------------------
(* Instances of BotScheduler for TLC. *)
EXTENDS BotScheduler

CONSTANTS b1, b2, x, y, auto

Lot(symbols, mode, risk) == [symbols |-> symbols, mode |-> mode, risk |-> risk]

\* The first bot has a symbol of its own, and one that both may trade; it may
\* take the market's list.
MCAsked ==
  [bot \in Bots |->
     IF bot = b1
     THEN {Lot({x}, "scalping", 1), Lot({x, y}, "swing", 2), Lot({auto}, "scalping", 1)}
     ELSE {Lot({y}, "scalping", 1), Lot({y}, "swing", 1)}]

MCFailures == {{"start"}, {"write", "start"}, {}}
===========================================================================
