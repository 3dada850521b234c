-------------------------- MODULE Committee_proofs --------------------------
(***************************************************************************)
(* For any number of concurrent consultations, any votes and any limit:    *)
(* what a day's audit rows add up to passes the limit by no more than the  *)
(* consultations that were under way. The invariant counts a consultation  *)
(* that passed the check as if its votes were on record already. The side  *)
(* that is decided for is one that no stronger votes oppose.               *)
(***************************************************************************)
EXTENDS Committee, Loops, FiniteSetTheorems, TLAPS

\* Votes of all agents are not the absence of votes.
LEMMA SomeVotes == NoVotes \notin [Agents -> Votes]
<1>1. Agents # {}
  BY FS_EmptySet, CommitteeAssumption
<1> QED
  BY <1>1 DEF NoVotes

\* The chair decides for a side or passes.
LEMMA ConsensusSides == \A votes : Consensus(votes) \in Sides
BY DEF Consensus, Sides

\* Each step of a consultation in terms of what it leaves of it.
Moved(c, new) == consult' = [consult EXCEPT ![c] = new]

\* Stages without votes and stages with votes.
LEMMA TypeStep ==
  ASSUME TypeOK, NEW c \in Slots, NEW new, Moved(c, new), recorded' \in Nat,
         new \in [stage : Stages, votes : [Agents -> Votes] \cup {NoVotes}, final : Sides],
         new.stage \in {"deciding", "auditing"} <=> new.votes # NoVotes
  PROVE  TypeOK'
BY DEF TypeOK, Moved

\* The type invariant is inductive.
LEMMA TypeInductive == TypeOK /\ [Next]_vars => TypeOK'
<1> SUFFICES ASSUME TypeOK, [Next]_vars PROVE TypeOK'
  OBVIOUS
<1>0. Idle \in [stage : Stages, votes : [Agents -> Votes] \cup {NoVotes}, final : Sides]
  BY DEF Idle, Stages, Sides
<1>1. ASSUME NEW c \in Slots, NEW stage \in Stages \ {"deciding", "auditing"},
             consult[c].votes = NoVotes, UNCHANGED recorded,
             consult' = [consult EXCEPT ![c].stage = stage]
      PROVE  TypeOK'
  BY <1>1 DEF TypeOK
<1>2. ASSUME NEW c \in Slots, Check(c) PROVE TypeOK'
  BY <1>1, <1>2 DEF TypeOK, Check, Stages
<1>3. ASSUME NEW c \in Slots, Alerted(c) PROVE TypeOK'
  <2>1. CASE consult' = [consult EXCEPT ![c] = Idle]
    BY <1>0, <1>3, <2>1, TypeStep DEF Alerted, Moved, Idle, TypeOK
  <2>2. CASE consult[c].stage = "warning" /\ consult' = [consult EXCEPT ![c].stage = "voting"]
    BY <1>1, <1>3, <2>2 DEF TypeOK, Alerted, Stages
  <2> QED
    BY <1>3, <2>1, <2>2 DEF Alerted
<1>4. ASSUME NEW c \in Slots, Voted(c) PROVE TypeOK'
  <2> PICK votes \in [Agents -> Votes] :
        Moved(c, [stage |-> "deciding", votes |-> votes, final |-> Consensus(votes)])
    BY <1>4 DEF Voted, Moved
  <2>1. Consensus(votes) \in Sides
    BY ConsensusSides
  <2> QED
    BY <1>4, <2>1, SomeVotes, TypeStep DEF Voted, TypeOK, Stages
<1>5. ASSUME NEW c \in Slots, VotesFail(c) PROVE TypeOK'
  BY <1>1, <1>5 DEF TypeOK, VotesFail, Stages
<1>6. ASSUME NEW c \in Slots, CommitDecision(c) PROVE TypeOK'
  BY <1>6 DEF TypeOK, CommitDecision, Stages
<1>7. ASSUME NEW c \in Slots, CommitAudit(c) PROVE TypeOK'
  <2>1. recorded' \in Nat
    BY <1>7, CommitteeAssumption DEF CommitAudit, TypeOK
  <2> QED
    BY <1>0, <1>7, <2>1, TypeStep DEF CommitAudit, Moved, Idle
<1>8. ASSUME NEW c \in Slots, CommitFails(c) PROVE TypeOK'
  <2>1. [Idle EXCEPT !.stage = "failing"]
          \in [stage : Stages, votes : [Agents -> Votes] \cup {NoVotes}, final : Sides]
    BY DEF Idle, Stages, Sides
  <2> QED
    BY <1>8, <2>1, TypeStep DEF CommitFails, Moved, Idle, TypeOK
<1>9. ASSUME NEW c \in Slots, Fallback(c) PROVE TypeOK'
  BY <1>0, <1>9, TypeStep DEF Fallback, Moved, Idle, TypeOK
<1>10. CASE NewDay
  BY <1>10 DEF NewDay, TypeOK
<1>11. CASE Crash
  BY <1>0, <1>11 DEF Crash, TypeOK, Idle
<1>12. CASE UNCHANGED vars
  BY <1>12 DEF vars, TypeOK
<1> QED
  BY <1>2, <1>3, <1>4, <1>5, <1>6, <1>7, <1>8, <1>9, <1>10, <1>11, <1>12 DEF Next, Advance

\* The record and the consultations have their types (evaluate_decision keeps votes
\* only from their arrival to the second commit).
THEOREM TypeCorrect == Spec => []TypeOK
<1>1. Init => TypeOK
  BY DEF Init, TypeOK, Idle, Stages, Sides
<1> QED
  BY <1>1, TypeInductive, PTL DEF Spec

-----------------------------------------------------------------------------
\* Consultations that passed the check, and have not yet put their costs on record.
UnderWay == {c \in Slots : consult[c].stage \in {"warning", "voting", "deciding", "auditing"}}

\* Their votes counted in, the record keeps to the bound.
Booked == recorded + 3 * Cardinality(UnderWay) <= Cap - 1 + 3 * Cardinality(Slots)

\* Consultations under way are some of the slots.
LEMMA FewUnderWay ==
  /\ IsFiniteSet(UnderWay)
  /\ Cardinality(UnderWay) \in Nat
  /\ Cardinality(Slots) \in Nat
  /\ Cardinality(UnderWay) <= Cardinality(Slots)
BY FS_Subset, FS_CardinalityType, CommitteeAssumption DEF UnderWay

\* As FewUnderWay, of the next state.
LEMMA FewUnderWayNext ==
  /\ IsFiniteSet(UnderWay')
  /\ Cardinality(UnderWay') \in Nat
  /\ Cardinality(Slots) \in Nat
  /\ Cardinality(UnderWay') <= Cardinality(Slots)
BY FS_Subset, FS_CardinalityType, CommitteeAssumption DEF UnderWay

\* A step that records nothing and lets none in keeps to the bound.
LEMMA NoneBooked ==
  ASSUME TypeOK, Booked, UNCHANGED recorded, UnderWay' \subseteq UnderWay
  PROVE  Booked'
<1>1. Cardinality(UnderWay') <= Cardinality(UnderWay)
  BY FewUnderWay, FS_Subset
<1> QED
  BY <1>1, FewUnderWay, FewUnderWayNext, CommitteeAssumption DEF Booked, TypeOK

\* The bound is inductive, given the types.
LEMMA BookedInductive == TypeOK /\ Booked /\ [Next]_vars => Booked'
<1> SUFFICES ASSUME TypeOK, Booked, [Next]_vars PROVE Booked'
  OBVIOUS
<1>1. ASSUME NEW c \in Slots, Check(c) PROVE Booked'
  <2>1. CASE recorded >= Cap
    <3>1. UnderWay' \subseteq UnderWay
      BY <1>1, <2>1 DEF Check, UnderWay, TypeOK
    <3> QED
      BY <1>1, <3>1, NoneBooked DEF Check
  <2>2. CASE ~ (recorded >= Cap)
    BY <1>1, <2>2, FewUnderWayNext, CommitteeAssumption DEF Check, Booked, TypeOK
  <2> QED
    BY <2>1, <2>2
<1>2. ASSUME NEW c \in Slots, CommitAudit(c) PROVE Booked'
  <2>1. c \in UnderWay
    BY <1>2 DEF CommitAudit, UnderWay
  <2>2. UnderWay' = UnderWay \ {c}
    BY <1>2 DEF CommitAudit, UnderWay, TypeOK, Idle
  <2>3. Cardinality(UnderWay') = Cardinality(UnderWay) - 1
    BY <2>1, <2>2, FewUnderWay, FS_RemoveElement
  <2> QED
    BY <1>2, <2>3, FewUnderWay, CommitteeAssumption DEF CommitAudit, Booked, TypeOK
<1>3. ASSUME NEW c \in Slots,
             Alerted(c) \/ Voted(c) \/ VotesFail(c) \/ CommitDecision(c) \/ CommitFails(c)
               \/ Fallback(c)
      PROVE  Booked'
  <2>1. UnderWay' \subseteq UnderWay /\ UNCHANGED recorded
    BY <1>3 DEF Alerted, Voted, VotesFail, CommitDecision, CommitFails, Fallback, UnderWay,
                TypeOK, Idle
  <2> QED
    BY <2>1, NoneBooked
<1>4. CASE NewDay
  BY <1>4, FewUnderWayNext, CommitteeAssumption DEF NewDay, Booked
<1>5. CASE Crash
  <2>1. UnderWay' \subseteq UnderWay
    BY <1>5 DEF Crash, UnderWay, Idle
  <2> QED
    BY <1>5, <2>1, NoneBooked DEF Crash
<1>6. CASE UNCHANGED vars
  BY <1>6 DEF vars, Booked, UnderWay
<1> QED
  BY <1>1, <1>2, <1>3, <1>4, <1>5, <1>6 DEF Next, Advance

\* The day's record passes the limit by at most three votes for each consultation that
\* may be under way (check_daily_limit answers before evaluate_decision records).
THEOREM SpendCorrect == Spec => []SpendBounded
<1>1. Init => Booked
  BY FewUnderWay, CommitteeAssumption DEF Init, Booked
<1>2. TypeOK /\ Booked => SpendBounded
  BY FewUnderWay, CommitteeAssumption DEF Booked, SpendBounded, TypeOK
<1> QED
  BY <1>1, <1>2, TypeCorrect, BookedInductive, PTL DEF Spec

-----------------------------------------------------------------------------
(* The two thresholds of the chair. *)

\* Somebody is opposed with 45 or more: if the others outweigh that by the score,
\* the three are so far apart that they disagree.
LEMMA OpposedIsDisagreeing ==
  ASSUME NEW x \in Int, NEW y \in Int, NEW z \in Int, NEW sure \in Int,
         z <= -45, x + y - z <= sure, 3 * sure <= 10 * (x + y + z)
  PROVE  3 * (x * x + y * y + z * z) - (x + y + z) * (x + y + z) > 6 * 50 * 50
<1> DEFINE apart == (x + y) - 2 * z
           spread == 3 * (x * x + y * y + z * z) - (x + y + z) * (x + y + z)
<1>1. 3 * (x + y - z) <= 10 * (x + y + z)
  OBVIOUS
<1>2. 7 * (x + y) >= -13 * z
  BY <1>1
<1>3. apart >= 174 /\ apart \in Int
  BY <1>2
<1>4. 2 * spread = apart * apart + 3 * ((x - y) * (x - y))
  OBVIOUS
<1>5. (x - y) * (x - y) >= 0
  <2>1. x - y \in Int
    OBVIOUS
  <2>2. \A d \in Int : d * d >= 0
    OBVIOUS
  <2> QED BY <2>1, <2>2
<1>6. \A d \in Int : d >= 174 => d * d >= 174 * 174
  OBVIOUS
<1>7. apart * apart >= 30276
  BY <1>3, <1>6
<1>8. spread \in Int /\ apart * apart \in Int /\ (x - y) * (x - y) \in Int
  BY <1>3
<1> HIDE DEF apart, spread
<1>9. spread > 15000
  BY <1>4, <1>5, <1>7, <1>8
<1> QED BY <1>9 DEF spread

\* Three weights that are at most 86 apart do not disagree.
LEMMA CloseIsAgreeing ==
  ASSUME NEW x \in Int, NEW y \in Int, NEW z \in Int,
         x - y <= 86, y - x <= 86, y - z <= 86, z - y <= 86, x - z <= 86, z - x <= 86
  PROVE  3 * (x * x + y * y + z * z) - (x + y + z) * (x + y + z) <= 6 * 50 * 50
<1>1. ASSUME NEW p \in Int, NEW q \in Int, p >= -86, p <= 86, q >= -86, q <= 86,
             p + q >= -86, p + q <= 86
      PROVE  p * p + q * q + (p + q) * (p + q) <= 14792
  <2>1. \A d \in Int : d >= -86 /\ d <= 86 => d * d <= 86 * 86
    <3> SUFFICES ASSUME NEW d \in Int, d >= -86, d <= 86
                 PROVE  d * d <= 7396
      OBVIOUS
    <3>1. (86 - d) * (86 + d) >= 0
      <4>1. 86 - d \in Nat /\ 86 + d \in Nat
        OBVIOUS
      <4>2. \A m, n \in Nat : m * n >= 0
        OBVIOUS
      <4> QED BY <4>1, <4>2
    <3>2. (86 - d) * (86 + d) = 7396 - d * d
      OBVIOUS
    <3>3. d * d \in Int
      OBVIOUS
    <3> QED BY <3>1, <3>2, <3>3
  <2> DEFINE r == p + q
  <2>2. p * p <= 7396 /\ q * q <= 7396 /\ r * r <= 7396
    BY <1>1, <2>1
  <2>3. r * r = p * p + 2 * (p * q) + q * q
    OBVIOUS
  <2>4. p * q >= 0 \/ p * p + p * q <= 0 \/ q * q + p * q <= 0
    <3>1. CASE p >= 0 /\ q >= 0
      <4>1. p * q >= 0
        BY <3>1
      <4> QED BY <4>1
    <3>2. CASE p <= 0 /\ q <= 0
      <4>1. p * q >= 0
        BY <3>2
      <4> QED BY <4>1
    <3>3. ASSUME NEW a \in Int, NEW b \in Int, a >= 0, b <= 0, a + b >= 0
          PROVE  b * b + a * b <= 0
      <4>1. b * b + a * b = - ((- b) * (a + b))
        OBVIOUS
      <4>2. (- b) * (a + b) >= 0
        BY <3>3
      <4>3. (- b) * (a + b) \in Int
        OBVIOUS
      <4> QED BY <4>1, <4>2, <4>3
    <3>4. ASSUME NEW a \in Int, NEW b \in Int, a >= 0, b <= 0, a + b <= 0
          PROVE  a * a + a * b <= 0
      <4>1. a * a + a * b = - (a * (- (a + b)))
        OBVIOUS
      <4>2. a * (- (a + b)) >= 0
        BY <3>4
      <4>3. a * (- (a + b)) \in Int
        OBVIOUS
      <4> QED BY <4>1, <4>2, <4>3
    <3>5. q * p = p * q /\ q + p = p + q
      OBVIOUS
    <3>6. CASE p >= 0 /\ q <= 0
      <4>1. CASE p + q >= 0
        BY <3>3, <3>6, <4>1
      <4>2. CASE p + q <= 0
        BY <3>4, <3>6, <4>2
      <4> QED BY <4>1, <4>2
    <3>7. CASE q >= 0 /\ p <= 0
      <4>1. CASE p + q >= 0
        BY <3>3, <3>5, <3>7, <4>1
      <4>2. CASE p + q <= 0
        BY <3>4, <3>5, <3>7, <4>2
      <4> QED BY <4>1, <4>2
    <3> QED BY <3>1, <3>2, <3>6, <3>7
  <2>5. p * p \in Int /\ q * q \in Int /\ p * q \in Int /\ r * r \in Int
    OBVIOUS
  <2> QED BY <2>2, <2>3, <2>4, <2>5
<1>2. 3 * (x * x + y * y + z * z) - (x + y + z) * (x + y + z)
        = (x - y) * (x - y) + (y - z) * (y - z) + ((x - y) + (y - z)) * ((x - y) + (y - z))
  OBVIOUS
<1>3. (x - y) * (x - y) + (y - z) * (y - z) + ((x - y) + (y - z)) * ((x - y) + (y - z)) <= 14792
  <2> DEFINE p == x - y
             q == y - z
  <2>1. p \in Int /\ q \in Int /\ p >= -86 /\ p <= 86 /\ q >= -86 /\ q <= 86
    OBVIOUS
  <2>2. p + q >= -86 /\ p + q <= 86
    OBVIOUS
  <2> HIDE DEF p, q
  <2>3. p * p + q * q + (p + q) * (p + q) <= 14792
    BY <1>1, <2>1, <2>2
  <2> QED BY <2>3 DEF p, q
<1>4. 3 * (x * x + y * y + z * z) - (x + y + z) * (x + y + z) \in Int
  OBVIOUS
<1> QED BY <1>2, <1>3, <1>4

-----------------------------------------------------------------------------
(* What the chair decides for three agents. *)

\* The committee consists of three.
LEMMA ThreeAgents ==
  \E x, y, z : x # y /\ x # z /\ y # z /\ Agents = {x, y, z}
<1>1. PICK x \in Agents : TRUE
  BY FS_EmptySet, CommitteeAssumption
<1> DEFINE rest == Agents \ {x}
<1>2. IsFiniteSet(rest) /\ Cardinality(rest) = 2
  BY <1>1, FS_RemoveElement, CommitteeAssumption
<1>3. PICK y \in rest : TRUE
  BY <1>2, FS_EmptySet
<1> DEFINE last == rest \ {y}
<1>4. IsFiniteSet(last) /\ Cardinality(last) = 1
  BY <1>2, <1>3, FS_RemoveElement
<1>5. PICK z : last = {z}
  BY <1>4, FS_Singleton
<1>6. y \in Agents /\ y # x
  BY <1>3
<1>7. z \in Agents /\ z # x /\ z # y
  BY <1>5
<1>8. Agents = {x, y, z}
  BY <1>1, <1>5, <1>6, <1>7
<1> QED BY <1>6, <1>7, <1>8

\* A vote weighs at most its confidence, for either side.
LEMMA WeightType ==
  ASSUME NEW v \in Votes
  PROVE  /\ v.conf \in Int /\ v.conf >= 0 /\ v.conf <= 100 /\ v.side \in Sides
         /\ Weight(v) \in Int /\ Weight(v) <= v.conf /\ - Weight(v) <= v.conf
<1>1. v \in [side : Sides, conf : 0 .. 100]
  BY CommitteeAssumption
<1>2. v.conf \in 0 .. 100 /\ v.side \in Sides
  BY <1>1
<1> QED BY <1>2 DEF Weight, Sides

\* The chair's sums are those over the three.
LEMMA SumsOfVotes ==
  ASSUME NEW votes \in [Agents -> Votes],
         NEW x, NEW y, NEW z, x # y, x # z, y # z, Agents = {x, y, z}
  PROVE  /\ Certainty(votes) = votes[x].conf + votes[y].conf + votes[z].conf
         /\ Balance(votes) = Weight(votes[x]) + Weight(votes[y]) + Weight(votes[z])
         /\ Squares(votes) = Weight(votes[x]) * Weight(votes[x])
                              + Weight(votes[y]) * Weight(votes[y])
                              + Weight(votes[z]) * Weight(votes[z])
<1> DEFINE conf == [a \in Agents |-> votes[a].conf]
           weight == [a \in Agents |-> Weight(votes[a])]
           square == [a \in Agents |-> Weight(votes[a]) * Weight(votes[a])]
<1>1. \A a \in Agents : votes[a].conf \in Int /\ Weight(votes[a]) \in Int
  BY WeightType
<1>2. \A a \in Agents : Weight(votes[a]) * Weight(votes[a]) \in Int
  BY <1>1
<1>3. conf \in [Agents -> Int] /\ weight \in [Agents -> Int] /\ square \in [Agents -> Int]
  BY <1>1, <1>2
<1>4. /\ conf[x] = votes[x].conf /\ conf[y] = votes[y].conf /\ conf[z] = votes[z].conf
      /\ weight[x] = Weight(votes[x]) /\ weight[y] = Weight(votes[y])
      /\ weight[z] = Weight(votes[z])
      /\ square[x] = Weight(votes[x]) * Weight(votes[x])
      /\ square[y] = Weight(votes[y]) * Weight(votes[y])
      /\ square[z] = Weight(votes[z]) * Weight(votes[z])
  OBVIOUS
<1>5. /\ Certainty(votes) = SumFunction(conf)
      /\ Balance(votes) = SumFunction(weight)
      /\ Squares(votes) = SumFunction(square)
  BY DEF Certainty, Balance, Squares
<1> HIDE DEF conf, weight, square
<1>6. \A w \in [Agents -> Int] : SumFunction(w) = w[x] + w[y] + w[z]
  <2>1. x \in Agents /\ y \in Agents /\ z \in Agents /\ \A a \in Agents : a = x \/ a = y \/ a = z
    OBVIOUS
  <2> QED BY <2>1, SumOfThree
<1>7. /\ SumFunction(conf) = conf[x] + conf[y] + conf[z]
      /\ SumFunction(weight) = weight[x] + weight[y] + weight[z]
      /\ SumFunction(square) = square[x] + square[y] + square[z]
  BY <1>3, <1>6
<1> QED BY <1>4, <1>5, <1>7

\* Whoever is decided against has voted with less than 45.
LEMMA OutvotedIsWeak ==
  ASSUME NEW votes \in [Agents -> Votes], NEW side \in {"LONG", "SHORT"},
         Consensus(votes) = side, NEW z \in Agents, votes[z].side = Opposite(side)
  PROVE  votes[z].conf < 45
<1>1. PICK x, y : x # y /\ x # z /\ y # z /\ Agents = {x, y, z}
  <2>1. PICK a, b, c : a # b /\ a # c /\ b # c /\ Agents = {a, b, c}
    BY ThreeAgents
  <2>2. CASE z = a
    BY <2>1, <2>2
  <2>3. CASE z = b
    BY <2>1, <2>3
  <2>4. CASE z = c
    BY <2>1, <2>4
  <2> QED BY <2>1, <2>2, <2>3, <2>4
<1> SUFFICES ASSUME votes[z].conf >= 45
             PROVE  FALSE
  BY WeightType
<1> DEFINE X == Weight(votes[x])
           Y == Weight(votes[y])
           Z == Weight(votes[z])
           sure == votes[x].conf + votes[y].conf + votes[z].conf
           total == X + Y + Z
           squares == X * X + Y * Y + Z * Z
<1>2. Certainty(votes) = sure /\ Balance(votes) = total /\ Squares(votes) = squares
  BY <1>1, SumsOfVotes
<1>3. /\ X \in Int /\ Y \in Int /\ Z \in Int
      /\ votes[x].conf \in Int /\ votes[y].conf \in Int /\ votes[z].conf \in Int
      /\ X <= votes[x].conf /\ Y <= votes[y].conf /\ Z <= votes[z].conf
      /\ - X <= votes[x].conf /\ - Y <= votes[y].conf /\ - Z <= votes[z].conf
  BY <1>1, WeightType
<1>4. ~ Undecided(votes) /\ ~ Disagreeing(votes) /\ (Balance(votes) > 0 <=> side = "LONG")
  BY DEF Consensus
<1>5. CASE side = "LONG"
  <2>1. Z <= -45
    BY <1>3, <1>5 DEF Opposite, Weight
  <2>2. total > 0 /\ 3 * sure <= 10 * total
    <3>1. Balance(votes) > 0
      BY <1>4, <1>5
    <3>2. total \in Int /\ sure \in Int
      BY <1>3
    <3> HIDE DEF total, sure
    <3> QED BY <1>2, <1>4, <3>1, <3>2 DEF Undecided
  <2>3. X + Y - Z <= sure /\ sure \in Int
    BY <1>3
  <2> HIDE DEF X, Y, Z, sure
  <2>4. 3 * squares - total * total > 6 * 50 * 50
    BY <1>3, <2>1, <2>2, <2>3, OpposedIsDisagreeing
  <2> HIDE DEF squares, total
  <2> QED BY <1>2, <1>4, <2>4 DEF Disagreeing
<1>6. CASE side = "SHORT"
  <2>1. - Z <= -45
    BY <1>3, <1>6 DEF Opposite, Weight
  <2>2. total <= 0 /\ 3 * sure <= 10 * (- total)
    <3>1. ~(Balance(votes) > 0)
      BY <1>4, <1>6
    <3>2. total \in Int /\ sure \in Int
      BY <1>3
    <3> HIDE DEF total, sure
    <3> QED BY <1>2, <1>4, <3>1, <3>2 DEF Undecided
  <2>3. (- X) + (- Y) - (- Z) <= sure /\ sure \in Int
    BY <1>3
  <2> HIDE DEF X, Y, Z, sure
  <2>4. 3 * sure <= 10 * ((- X) + (- Y) + (- Z))
    BY <1>3, <2>2, <2>3
  <2>5. - X \in Int /\ - Y \in Int /\ - Z \in Int
    BY <1>3
  <2>6. 3 * ((- X) * (- X) + (- Y) * (- Y) + (- Z) * (- Z))
          - ((- X) + (- Y) + (- Z)) * ((- X) + (- Y) + (- Z)) > 6 * 50 * 50
    BY <2>1, <2>3, <2>4, <2>5, OpposedIsDisagreeing
  <2>7. 3 * squares - total * total > 6 * 50 * 50
    BY <1>3, <2>6
  <2> HIDE DEF squares, total
  <2> QED BY <1>2, <1>4, <2>7 DEF Disagreeing
<1> QED BY <1>5, <1>6

\* Votes for one side that are not more than 86 apart are decided for it.
LEMMA UnanimousIsDecided ==
  ASSUME NEW votes \in [Agents -> Votes], NEW side \in {"LONG", "SHORT"},
         Certainty(votes) > 0, \A a \in Agents : votes[a].side = side,
         \A a, b \in Agents : votes[a].conf - votes[b].conf <= 86
  PROVE  Consensus(votes) = side
<1>1. PICK x, y, z : x # y /\ x # z /\ y # z /\ Agents = {x, y, z}
  BY ThreeAgents
<1> DEFINE X == Weight(votes[x])
           Y == Weight(votes[y])
           Z == Weight(votes[z])
           cx == votes[x].conf
           cy == votes[y].conf
           cz == votes[z].conf
           sure == cx + cy + cz
           total == X + Y + Z
           squares == X * X + Y * Y + Z * Z
<1>2. Certainty(votes) = sure /\ Balance(votes) = total /\ Squares(votes) = squares
  BY <1>1, SumsOfVotes
<1>3. cx \in Int /\ cy \in Int /\ cz \in Int
  BY <1>1, WeightType
<1>4. /\ cx - cy <= 86 /\ cy - cx <= 86 /\ cy - cz <= 86 /\ cz - cy <= 86
      /\ cx - cz <= 86 /\ cz - cx <= 86
  BY <1>1
<1>5. \/ side = "LONG" /\ X = cx /\ Y = cy /\ Z = cz
      \/ side = "SHORT" /\ X = - cx /\ Y = - cy /\ Z = - cz
  BY <1>1 DEF Weight
<1> HIDE DEF X, Y, Z, cx, cy, cz
<1>6. squares = cx * cx + cy * cy + cz * cz
  <2>1. (- cx) * (- cx) = cx * cx /\ (- cy) * (- cy) = cy * cy /\ (- cz) * (- cz) = cz * cz
    BY <1>3
  <2> QED BY <1>5, <2>1
<1>7. total = (IF side = "LONG" THEN sure ELSE - sure)
  BY <1>3, <1>5
<1>8. total * total = sure * sure
  <2>1. sure \in Int
    BY <1>3
  <2> HIDE DEF total, sure
  <2>2. (- sure) * (- sure) = sure * sure
    BY <2>1
  <2> QED BY <1>7, <2>2
<1>9. 3 * squares - total * total <= 6 * 50 * 50
  <2>1. 3 * (cx * cx + cy * cy + cz * cz) - (cx + cy + cz) * (cx + cy + cz) <= 6 * 50 * 50
    BY <1>3, <1>4, CloseIsAgreeing
  <2> QED BY <1>6, <1>8, <2>1
<1>10. sure > 0 /\ sure \in Int
  BY <1>2, <1>3
<1>11. squares \in Int /\ total * total \in Int /\ total \in Int
  BY <1>3, <1>6, <1>7, <1>8
<1> HIDE DEF squares, total, sure
<1>12. ~ Disagreeing(votes)
  BY <1>2, <1>9, <1>11 DEF Disagreeing
<1>13. ~ Undecided(votes) /\ Certainty(votes) # 0 /\ (Balance(votes) > 0 <=> side = "LONG")
  <2>1. CASE side = "LONG"
    BY <1>2, <1>7, <1>10, <2>1 DEF Undecided
  <2>2. CASE side = "SHORT"
    BY <1>2, <1>7, <1>10, <2>2 DEF Undecided
  <2> QED BY <2>1, <2>2
<1> QED BY <1>12, <1>13 DEF Consensus

\* A consultation keeps the decision with the votes that it was made from.
Decided == \A c \in Slots : consult[c].votes # NoVotes => consult[c].final = Consensus(consult[c].votes)

\* No commit, failure or restart parts a decision from its votes.
LEMMA DecidedInductive == TypeOK /\ Decided /\ [Next]_vars => Decided'
<1> SUFFICES ASSUME TypeOK, Decided, [Next]_vars PROVE Decided'
  OBVIOUS
<1>1. ASSUME NEW c \in Slots, NEW new, Moved(c, new),
             new.votes = NoVotes \/ new.final = Consensus(new.votes)
      PROVE  Decided'
  BY <1>1 DEF Decided, Moved, TypeOK
<1>2. ASSUME NEW c \in Slots, NEW stage, consult' = [consult EXCEPT ![c].stage = stage]
      PROVE  Decided'
  BY <1>2 DEF Decided, TypeOK
<1>3. Idle.votes = NoVotes /\ [Idle EXCEPT !.stage = "failing"].votes = NoVotes
  BY DEF Idle
<1>4. ASSUME NEW c \in Slots, Voted(c) PROVE Decided'
  <2>1. PICK votes \in [Agents -> Votes] :
          Moved(c, [stage |-> "deciding", votes |-> votes, final |-> Consensus(votes)])
    BY <1>4 DEF Voted, Moved
  <2> QED BY <1>1, <2>1
<1>5. ASSUME NEW c \in Slots, Check(c) \/ VotesFail(c) \/ CommitDecision(c)
      PROVE  Decided'
  BY <1>2, <1>5 DEF Check, VotesFail, CommitDecision
<1>6. ASSUME NEW c \in Slots, Alerted(c) \/ CommitAudit(c) \/ CommitFails(c) \/ Fallback(c)
      PROVE  Decided'
  <2>1. CASE consult' = [consult EXCEPT ![c].stage = "voting"]
    BY <1>2, <2>1
  <2>2. CASE Moved(c, Idle)
    BY <1>1, <1>3, <2>2
  <2>3. CASE Moved(c, [Idle EXCEPT !.stage = "failing"])
    BY <1>1, <1>3, <2>3
  <2> QED BY <1>6, <2>1, <2>2, <2>3 DEF Alerted, CommitAudit, CommitFails, Fallback, Moved
<1>7. CASE NewDay \/ UNCHANGED vars
  BY <1>7 DEF NewDay, vars, Decided
<1>8. CASE Crash
  BY <1>3, <1>8 DEF Crash, Decided
<1> QED BY <1>4, <1>5, <1>6, <1>7, <1>8 DEF Next, Advance

\* The chair never decides against a vote of 45 or more, and always for the side that
\* all three vote for with confidences that are not more than 86 apart, whatever they are.
THEOREM VotesDecideCorrect == Spec => []VotesDecide
<1>1. Init => Decided
  BY DEF Init, Decided, Idle
<1>2. TypeOK /\ Decided => VotesDecide
  <2> SUFFICES ASSUME TypeOK, Decided, NEW c \in Slots, consult[c].votes # NoVotes,
                      NEW side \in {"LONG", "SHORT"}
               PROVE  LET votes == consult[c].votes IN
                        /\ consult[c].final = side =>
                             \A a \in Agents : votes[a].side = Opposite(side) => votes[a].conf < 45
                        /\ /\ Certainty(votes) > 0
                           /\ \A a \in Agents : votes[a].side = side
                           /\ \A a, b \in Agents : votes[a].conf - votes[b].conf <= 86
                           => consult[c].final = side
    BY DEF VotesDecide
  <2>1. consult[c].votes \in [Agents -> Votes] /\ consult[c].final = Consensus(consult[c].votes)
    BY DEF TypeOK, Decided
  <2> QED BY <2>1, OutvotedIsWeak, UnanimousIsDecided
<1> QED
  BY <1>1, <1>2, TypeCorrect, DecidedInductive, PTL DEF Spec

-----------------------------------------------------------------------------
(* Consultations come to an end *)

\* The stages on the way back to idle, from the last.
StagesLeft(c) ==
  CASE consult[c].stage = "warning" -> 5
    [] consult[c].stage = "voting" -> 4
    [] consult[c].stage = "deciding" -> 3
    [] consult[c].stage = "auditing" -> 2
    [] consult[c].stage \in {"failing", "refusing"} -> 1
    [] OTHER -> 0

\* No step takes a consultation that has begun back, or keeps it where it is and changes
\* its votes or what is decided.
ComesNearer(c) ==
  consult'[c] # consult[c] /\ consult[c].stage # "idle" =>
    StagesLeft(c)' \in 0 .. StagesLeft(c) - 1

\* Whatever one consultation or the day does, the others are where they were.
LEMMA StepNearer == TypeOK /\ [Next]_vars => \A c \in Slots : ComesNearer(c)
<1> SUFFICES ASSUME TypeOK, [Next]_vars, NEW c \in Slots,
                    consult'[c] # consult[c], consult[c].stage # "idle"
             PROVE  StagesLeft(c)' \in 0 .. StagesLeft(c) - 1
  BY DEF ComesNearer
<1>1. consult[c].stage \in Stages
  BY DEF TypeOK
<1>2. CASE Crash
  <2>1. consult'[c].stage = "idle"
    BY <1>2 DEF Crash, Idle
  <2> QED
    BY <1>1, <2>1 DEF StagesLeft, Stages
<1>3. CASE NewDay
  BY <1>3 DEF NewDay
<1>4. ASSUME NEW d \in Slots, Check(d) \/ Voted(d) \/ CommitFails(d) \/ Advance(d)
      PROVE  d = c
  <2> SUFFICES ASSUME d # c PROVE consult'[c] = consult[c]
    OBVIOUS
  <2> QED
    BY <1>4 DEF TypeOK, Check, Voted, CommitFails, Advance, Alerted, VotesFail, CommitDecision,
                CommitAudit, Fallback
<1>5. CASE Check(c)
  BY <1>5 DEF Check
<1>6. CASE Voted(c)
  <2>1. consult[c].stage = "voting" /\ consult'[c].stage = "deciding"
    BY <1>6 DEF Voted, TypeOK
  <2> QED
    BY <2>1 DEF StagesLeft
<1>7. CASE CommitFails(c)
  <2>1. consult[c].stage \in {"deciding", "auditing"} /\ consult'[c].stage = "failing"
    BY <1>7 DEF CommitFails, TypeOK, Idle
  <2> QED
    BY <2>1 DEF StagesLeft
<1>8. CASE Alerted(c)
  <2>1. \/ consult[c].stage = "refusing" /\ consult'[c].stage = "idle"
        \/ consult[c].stage = "warning" /\ consult'[c].stage = "voting"
    BY <1>8 DEF Alerted, TypeOK, Idle
  <2> QED
    BY <2>1 DEF StagesLeft
<1>9. CASE VotesFail(c)
  <2>1. consult[c].stage = "voting" /\ consult'[c].stage = "failing"
    BY <1>9 DEF VotesFail, TypeOK
  <2> QED
    BY <2>1 DEF StagesLeft
<1>10. CASE CommitDecision(c)
  <2>1. consult[c].stage = "deciding" /\ consult'[c].stage = "auditing"
    BY <1>10 DEF CommitDecision, TypeOK
  <2> QED
    BY <2>1 DEF StagesLeft
<1>11. CASE CommitAudit(c) \/ Fallback(c)
  <2>1. consult[c].stage \in {"auditing", "failing"} /\ consult'[c].stage = "idle"
    BY <1>11 DEF CommitAudit, Fallback, TypeOK, Idle
  <2> QED
    BY <2>1 DEF StagesLeft
<1>12. CASE UNCHANGED vars
  BY <1>12 DEF vars
<1> QED
  BY <1>2, <1>3, <1>4, <1>5, <1>6, <1>7, <1>8, <1>9, <1>10, <1>11, <1>12 DEF Next, Advance

\* A consultation that has begun is over after five steps at most, whatever fails and
\* whatever the others do (evaluate_decision). That it steps at all is fairness, and
\* ConsultEnds.
THEOREM NoConsultGoesBack == Spec => [][\A c \in Slots : ComesNearer(c)]_vars
BY StepNearer, TypeCorrect, PTL DEF Spec
=============================================================================
