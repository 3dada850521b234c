--------------------------- MODULE TargetPipeline ---------------------------
(***************************************************************************)
(* One cycle's way from decisions to an approved target, step by step:     *)
(* StrategyOrchestrator.run_strategies_and_score hands over decisions and  *)
(* open symbols, then TradingCycleService._apply_risk_and_execute has the  *)
(* target built and assessed. Nothing is kept from one cycle to the next.  *)
(***************************************************************************)
EXTENDS TargetEngine

VARIABLES
  stage,      \* how far the cycle has come
  decisions,  \* what the strategy decided, for the symbols it said something of
  kept,       \* the open symbols without a CLOSE, in the order the set yields them
  target      \* the target portfolio, once approved the approved one

pipelineVars == <<stage, decisions, kept, target>>

PipelineInit ==
  /\ stage = "start"
  /\ decisions = << >>
  /\ kept = << >>
  /\ target = Nothing

Decide ==
  /\ stage = "start"
  /\ \E open \in SUBSET Symbols, evaluated \in SUBSET Symbols :
       \E given \in [evaluated -> Signals] :
         /\ Fits(open, {}, given)
         /\ decisions' = given
         /\ kept' \in SetToSeqs(Retained(open, given))
  /\ stage' = "decided"
  /\ UNCHANGED target

BuildTarget ==
  /\ stage = "decided"
  /\ target' = Build(decisions, kept)
  /\ stage' = "built"
  /\ UNCHANGED <<decisions, kept>>

AssessTarget ==
  /\ stage = "built"
  /\ target' = Approved(target)
  /\ stage' = "approved"
  /\ UNCHANGED <<decisions, kept>>

NextCycle ==
  /\ stage = "approved"
  /\ stage' = "start"
  /\ decisions' = << >>
  /\ kept' = << >>
  /\ target' = Nothing

PipelineNext == Decide \/ BuildTarget \/ AssessTarget \/ NextCycle

PipelineSpec == PipelineInit /\ [][PipelineNext]_pipelineVars

-----------------------------------------------------------------------------
(* Properties *)

Chosen == SymbolsIn(target.positions)

Dropped == ToSet(kept) \ Chosen

AdjustedDecisions == [sym \in DOMAIN decisions |-> Adjusted(sym, decisions[sym])]

LeftOut == Entrants(AdjustedDecisions, ToSet(kept)) \ Chosen

\* Targets are positions of known symbols with weights between 0 and 100%.
TargetTypeOK ==
  /\ stage \in {"start", "decided", "built", "approved"}
  /\ kept \in Seq(Symbols)
  /\ target.reasons \subseteq Symbols
  /\ target.positions \in Seq(Positions)

\* What reaches execution is within every limit of the mode, and is the target or
\* its reduction: the branch that replaces a rejected target by an empty one, and
\* so closes everything while it logs "Holding current positions", is never taken.
AlwaysWithinLimits ==
  stage = "approved" =>
    /\ WithinLimits(target.positions)
    /\ target.positions = << >> => kept = << >> /\ LeftOut = {}

\* Replacement ends only when no candidate that stays out beats a position that
\* stays by more than the margin, and it never runs while a slot is free.
NobodyStrongerLeftOut ==
  stage = "built" =>
    IF Len(kept) < EngineMax
    THEN Dropped = {} /\ (LeftOut # {} => Len(target.positions) = EngineMax)
    ELSE \A sym \in LeftOut, held \in ToSet(kept) \ Dropped :
           Conviction(AdjustedDecisions, sym) <= Conviction(AdjustedDecisions, held) + 1000

\* The book gets no larger by replacements: as many leave as enter, and each that
\* leaves is given a close reason, which is what makes a scalping bot close it.
ReplacementsAreExplained ==
  stage = "built" =>
    /\ Len(target.positions) <= AtLeast(EngineMax, Len(kept))
    /\ Dropped \subseteq target.reasons

\* As long as none of them is held already, the symbols correlated with bitcoin
\* weigh no more than their cap, before the assessment and after it.
NewGroupCapped ==
  ToSet(kept) \cap BtcGroup = {} =>
    GroupWeight(target.positions) <= GroupCap
=============================================================================
