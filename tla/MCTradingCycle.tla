--------------------------- MODULE MCTradingCycle ---------------------------
(* Instances of TradingCycle for TLC, with the outcomes that TargetEngine gives. *)
EXTENDS TradingCycle, TargetEngine

Signal(action, conf) == [action |-> action, conf |-> conf, score |-> 60, regime |-> "BULL"]

\* hft_momentum, the scalping strategy, never decides to close.
ScalpingSignals == {Signal("LONG", 90), Signal("HOLD", 60)}

SwingSignals == ScalpingSignals \cup {Signal("LONG", 72), Signal("CLOSE", 90)}

\* Scalping bots have a limit below the engine's.
Wide == INSTANCE TargetEngine WITH EngineMax <- MaxPositions + 1

Outcome(built) == [target |-> Approved(built), asked |-> built.reasons]

\* Cycles over any symbols, of which some bring a decision.
MCEntries ==
  [mode \in Modes |-> [seen \in SUBSET Symbols |-> [cooled \in SUBSET Symbols |->
     LET signals == IF mode = "scalping" THEN ScalpingSignals ELSE Signals
         allGiven == {g \in UNION {[some -> signals] : some \in SUBSET Symbols} :
                        Fits(seen, cooled, g)}
         built(given, kept) == IF mode = "scalping" THEN Wide!Build(given, kept)
                               ELSE Build(given, kept)
     IN  UNION {{Outcome(built(given, kept)) : kept \in SetToSeqs(Retained(seen, given))} :
                  given \in allGiven}]]]

\* What the proofs suppose of the outcomes: TargetEngine and the risk engine drop none of
\* what is retained.
ASSUME RetainedAssumption == KeepsRetained
=============================================================================
