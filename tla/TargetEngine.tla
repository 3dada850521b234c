---------------------------- MODULE TargetEngine ----------------------------
(***************************************************************************)
(* From a cycle's decisions to the portfolio that is handed to execution:  *)
(*                                                                         *)
(*   Build     PortfolioEngine.build_target_portfolio                      *)
(*   Assess    RiskEngine.assess                                           *)
(*   Approved  the fallback of TradingCycleService._apply_risk_and_execute *)
(*                                                                         *)
(* Weights, confidences and scores are percentages, rounded down where the *)
(* code rounds to six or ten decimals.                                     *)
(***************************************************************************)
EXTENDS Portfolios, SequencesExt

CONSTANTS
  Top10, Memes, Alpha,  \* coin_groups: TOP10, MEMES, and AI_HYPE with L1
  BtcGroup,             \* btc_correlated_symbols
  EngineMax,            \* max_positions of the portfolio engine
  EngineGross,          \* its max_gross_exposure
  MinConfidence,        \* its min_confidence
  GroupCap,             \* its max_correlated_group_weight
  RiskLevel,            \* the bot's risk_level
  Signals,              \* the decisions a strategy may return for a symbol
  MaxGross, MaxWeight, MinCash  \* the rest of the mode's RiskLimits

Groups == {Top10, Memes, Alpha, BtcGroup}
Shares == {EngineGross, MinConfidence, GroupCap, MaxGross, MaxWeight, MinCash}

\* A cycle's decisions are a function from some of the symbols to these records;
\* CLOSE is CLOSE_LONG or CLOSE_SHORT, which the engine does not tell apart.
Actions == {"LONG", "SHORT", "CLOSE", "HOLD"}

Decisions == [action : Actions, conf : 0..100, score : -100..100,
              regime : {"BULL", "BEAR", "SIDEWAYS"}]

ASSUME EngineAssumption ==
  /\ IsFiniteSet(Symbols) /\ \A group \in Groups : group \subseteq Symbols
  /\ Shares \subseteq 0..100
  /\ {EngineMax, MaxPositions} \subseteq Nat \ {0}
  /\ RiskLevel \in 0..200
  /\ Signals \subseteq Decisions

AtMost(a, b) == IF a <= b THEN a ELSE b

AtLeast(a, b) == IF a >= b THEN a ELSE b

FirstOf(n, seq) == SubSeq(seq, 1, AtMost(n, Len(seq)))

Each(seq, Change(_)) == [i \in DOMAIN seq |-> Change(seq[i])]

\* What a sort puts first: the smaller key, and of equal keys the earlier place.
Sooner(keys, i, j) == keys[i] < keys[j] \/ (keys[i] = keys[j] /\ i < j)

\* sorted() and list.sort, by the keys of the places in seq.
Sorted(seq, keys) ==
  LET order == CHOOSE p \in SetToSeqs(DOMAIN seq) :
                 \A i, j \in DOMAIN seq : i < j => Sooner(keys, p[i], p[j])
  IN  [i \in DOMAIN seq |-> seq[order[i]]]

Weighs(positions) == SumFunction([i \in DOMAIN positions |-> positions[i].weight])

Scaled(positions, num, den) ==
  Each(positions, LAMBDA p : [p EXCEPT !.weight = (@ * num) \div den])

-----------------------------------------------------------------------------
(* The gates of run_strategies_and_score *)

\* An open symbol is closed or held; another one can be entered unless it cools
\* down after stop-losses.
Fits(open, cooling, given) ==
  \A sym \in DOMAIN given :
    given[sym].action \in IF sym \in open THEN {"CLOSE", "HOLD"}
                         ELSE IF sym \in cooling THEN {} ELSE Sides

-----------------------------------------------------------------------------
(* build_target_portfolio *)

Closers(decisions) == {sym \in DOMAIN decisions : decisions[sym].action = "CLOSE"}

Adjusted(sym, d) ==
  CASE d.regime = "BEAR" /\ d.action = "LONG" /\ sym \notin Top10 -> [d EXCEPT !.conf = 0]
    [] d.regime = "BULL" /\ sym \in Memes -> [d EXCEPT !.conf = AtMost(99, @ + 15)]
    [] d.regime = "SIDEWAYS" /\ sym \in Alpha -> [d EXCEPT !.conf = AtMost(99, @ + 10)]
    [] OTHER -> d

\* Mutant: the filter on the action is dropped.
AnyEntrant(decisions, kept) ==
  {sym \in DOMAIN decisions \ kept :
     decisions[sym].conf >= MinConfidence /\ decisions[sym].score > 0}

Entrants(decisions, kept) ==
  {sym \in DOMAIN decisions \ kept :
     /\ decisions[sym].action \in Sides
     /\ decisions[sym].conf >= MinConfidence
     /\ decisions[sym].score > 0}

\* Candidates are taken by confidence, and by score where that is equal.
Rank(decisions, sym) == 1000 * decisions[sym].conf + decisions[sym].score

\* What replacements are decided by: score times confidence, and 0.15 for a held
\* symbol without a decision.
Conviction(decisions, sym) ==
  IF sym \in DOMAIN decisions THEN decisions[sym].score * decisions[sym].conf ELSE 1500

\* Mutant: the strongest retained position is replaced first.
SwapStrongest(decisions, acc, cand) ==
  IF /\ acc.weak # << >>
     /\ Conviction(decisions, cand) > Conviction(decisions, Last(acc.weak)) + 1000
  THEN [weak |-> Front(acc.weak), entered |-> Append(acc.entered, cand)]
  ELSE acc

\* A strong candidate takes the place of the weakest retained position.
Swap(decisions, acc, cand) ==
  IF /\ acc.weak # << >>
     /\ Conviction(decisions, cand) > Conviction(decisions, Head(acc.weak)) + 1000
  THEN [weak |-> Tail(acc.weak), entered |-> Append(acc.entered, cand)]
  ELSE acc

\* The strongest candidate first, and the weakest retained position.
Ranked(decisions, kept) ==
  LET candidates == SetToSeq(Entrants(decisions, ToSet(kept)))
  IN  Sorted(candidates, [i \in DOMAIN candidates |-> -Rank(decisions, candidates[i])])

Weakest(decisions, kept) ==
  Sorted(kept, [i \in DOMAIN kept |-> Conviction(decisions, kept[i])])

\* After each of the candidates: who may be replaced still, and who has entered.
Swaps(decisions, weakest, ranked) ==
  LET swaps[n \in 0 .. Len(ranked)] ==
        IF n = 0 THEN [weak |-> weakest, entered |-> << >>]
        ELSE Swap(decisions, swaps[n - 1], ranked[n])
  IN  swaps

\* Those of seq that are in some set, in their order.
Among(seq, some) ==
  LET places == SetToSeq({i \in DOMAIN seq : seq[i] \in some})
  IN  Each(Sorted(places, places), LAMBDA i : seq[i])

\* The retained symbols that stay, in their order, and the new ones.
Selection(decisions, kept) ==
  LET ranked == Ranked(decisions, kept)
      swapped == Swaps(decisions, Weakest(decisions, kept), ranked)[Len(ranked)]
  IN  IF Len(kept) >= EngineMax
      THEN [kept |-> Among(kept, ToSet(swapped.weak)), new |-> swapped.entered]
      ELSE [kept |-> kept, new |-> FirstOf(EngineMax - Len(kept), ranked)]

BaseWeight ==
  IF RiskLevel <= 100 THEN 5 + (15 * RiskLevel) \div 100
  ELSE 20 + (30 * (RiskLevel - 100)) \div 100

Grade(conf) ==
  IF conf >= 85 THEN BaseWeight ELSE IF conf >= 70 THEN BaseWeight \div 2 ELSE BaseWeight \div 4

\* The exposure that is left after each of the new ones.
Left(decisions, new, exposure) ==
  LET left[n \in 0 .. Len(new)] ==
        IF n = 0 THEN exposure ELSE AtLeast(0, left[n - 1] - Grade(decisions[new[n]].conf))
  IN  left

\* Every new position gets its grade's weight as far as the exposure suffices.
Sized(decisions, new, exposure) ==
  LET left == Left(decisions, new, exposure)
  IN  [n \in DOMAIN new |->
         Position(new[n], decisions[new[n]].action,
                  AtMost(Grade(decisions[new[n]].conf), left[n - 1]))]

\* Retained positions weigh 10% and are LONG, whatever they are.
RetainedPositions(kept) == Each(kept, LAMBDA sym : Position(sym, "LONG", 10))

InGroup(p) == p.sym \in BtcGroup

GroupWeight(positions) ==
  SumFunction([i \in DOMAIN positions |-> IF InGroup(positions[i]) THEN positions[i].weight ELSE 0])

\* Mutant: the group is left as it is.
GroupUnscaled(retained, new) == new

\* Only new positions give way when the correlated group weighs too much.
GroupScaled(retained, new) ==
  LET total == GroupWeight(retained \o new)
  IN  IF total <= GroupCap THEN new
      ELSE Each(new, LAMBDA p : IF InGroup(p) THEN [p EXCEPT !.weight = (@ * GroupCap) \div total]
                                ELSE p)

Book(retained, new) == retained \o new

\* Mutant: replaced positions get no close reason.
ReasonsOfClosers(given, kept, stay) == Closers(given)

Reasons(given, kept, stay) == Closers(given) \cup (ToSet(kept) \ ToSet(stay))

\* Decisions as given, and the held symbols without a CLOSE in some order.
Build(given, kept) ==
  LET decisions == [sym \in DOMAIN given |-> Adjusted(sym, given[sym])]
      chosen == Selection(decisions, kept)
      retained == RetainedPositions(chosen.kept)
      exposure == AtLeast(0, EngineGross - 10 * Len(retained))
      positions == Book(retained, GroupScaled(retained, Sized(decisions, chosen.new, exposure)))
      gross == Weighs(positions)
  IN  Portfolio(IF gross > 100 THEN Scaled(positions, 100, gross) ELSE positions,
                Reasons(given, kept, chosen.kept))

Retained(open, decisions) == open \ Closers(decisions)

-----------------------------------------------------------------------------
(* assess *)

CashWeight(positions) == AtLeast(0, 100 - Weighs(positions))

\* No issue: count, gross exposure, cash and every weight are within the limits.
WithinLimits(positions) ==
  /\ Len(positions) <= MaxPositions
  /\ Weighs(positions) <= MaxGross
  /\ CashWeight(positions) >= MinCash
  /\ \A i \in DOMAIN positions : positions[i].weight <= MaxWeight

ScaledToGross(positions) ==
  LET gross == Weighs(positions)
  IN  IF gross > MaxGross THEN Scaled(positions, MaxGross, gross) ELSE positions

\* Mutant: the cash reserve is forgotten.
NoCashScaling(positions) == positions

ScaledToCash(positions) ==
  LET gross == Weighs(positions)
  IN  IF CashWeight(positions) < MinCash /\ gross > 0
      THEN Scaled(positions, 100 - MinCash, gross) ELSE positions

\* Reduced positions are built without a side, which defaults to LONG, and the
\* reduced portfolio without the metadata.
TryReduce(portfolio) ==
  LET Capped(p) == Position(p.sym, "LONG", AtMost(p.weight, MaxWeight))
      cut == Each(FirstOf(MaxPositions, portfolio.positions), Capped)
  IN  Portfolio(ScaledToCash(ScaledToGross(cut)), {})

Status(portfolio) ==
  IF WithinLimits(portfolio.positions) THEN "APPROVED"
  ELSE IF WithinLimits(TryReduce(portfolio).positions) THEN "REDUCED" ELSE "REJECTED"

\* A rejected target is replaced by an empty one.
Approved(portfolio) ==
  CASE Status(portfolio) = "APPROVED" -> portfolio
    [] Status(portfolio) = "REDUCED" -> TryReduce(portfolio)
    [] Status(portfolio) = "REJECTED" -> Nothing
=============================================================================
