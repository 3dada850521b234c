------------------------------ MODULE Committee ------------------------------
(***************************************************************************)
(* The committee of language models that comments on entries               *)
(* (LLMCommitteeOrchestrator.evaluate_decision). Cycles of several bots    *)
(* consult it at the same time, each within a session of its own. Three    *)
(* agents vote within 20 seconds, the chair weighs their votes, and the    *)
(* decision is put on record, then what the votes cost: the record that    *)
(* the daily limit is checked against. Whatever comes out, the cycle goes  *)
(* on with the decision it had. Costs are counted in votes, for the        *)
(* provider books the same for each.                                       *)
(***************************************************************************)
EXTENDS Integers, FiniteSets, Functions

CONSTANTS
  Slots,   \* consultations that may be under way at a time, one after another in each
  Agents,  \* the technical, the sentiment and the risk agent
  Votes,   \* what an agent may answer: a side, and a confidence from 0 to 100
  Cap      \* daily_cap_usd

Sides == {"LONG", "SHORT", "PASS"}

ASSUME CommitteeAssumption ==
  /\ IsFiniteSet(Slots)
  /\ IsFiniteSet(Agents) /\ Cardinality(Agents) = 3
  /\ Votes \subseteq [side : Sides, conf : 0 .. 100]
  /\ Cap \in Nat \ {0}

VARIABLES
  recorded,  \* what today's rows of the audit log add up to
  consult    \* the consultations: stage, votes and final decision

vars == <<recorded, consult>>

Stages == {"idle", "refusing", "warning", "voting", "deciding", "auditing", "failing"}

NoVotes == [agent \in {} |-> {}]

Idle == [stage |-> "idle", votes |-> NoVotes, final |-> "PASS"]

Init == recorded = 0 /\ consult = [c \in Slots |-> Idle]

-----------------------------------------------------------------------------
(* ChairAgent.calculate_consensus, in integers *)

Weight(vote) ==
  IF vote.side = "LONG" THEN vote.conf ELSE IF vote.side = "SHORT" THEN - vote.conf ELSE 0

\* Sums over the votes.
Certainty(votes) == SumFunction([a \in Agents |-> votes[a].conf])

Balance(votes) == SumFunction([a \in Agents |-> Weight(votes[a])])

Squares(votes) == SumFunction([a \in Agents |-> Weight(votes[a]) * Weight(votes[a])])

\* The score, from -100 to 100, is below 30.
Undecided(votes) ==
  LET b == Balance(votes) IN 10 * (IF b < 0 THEN - b ELSE b) < 3 * Certainty(votes)

\* The standard deviation of the weighted votes, a sample of three, is above 50.
Disagreeing(votes) == 3 * Squares(votes) - Balance(votes) * Balance(votes) > 6 * 50 * 50

\* Consensus, had it not looked at the disagreement.
ConsensusByScore(votes) ==
  IF Certainty(votes) = 0 \/ Undecided(votes) THEN "PASS"
  ELSE IF Balance(votes) > 0 THEN "LONG" ELSE "SHORT"

Consensus(votes) ==
  IF Certainty(votes) = 0 \/ Undecided(votes) \/ Disagreeing(votes) THEN "PASS"
  ELSE IF Balance(votes) > 0 THEN "LONG" ELSE "SHORT"

-----------------------------------------------------------------------------
(* CostTracker.check_daily_limit: the alert is awaited before the answer counts *)

NearLimit == 10 * recorded >= 8 * Cap

\* Check, had the limit only led to an alert.
CheckToWarn(c) ==
  /\ consult[c].stage = "idle"
  /\ consult' = [consult EXCEPT ![c].stage = IF NearLimit THEN "warning" ELSE "voting"]
  /\ UNCHANGED recorded

Check(c) ==
  /\ consult[c].stage = "idle"
  /\ consult' = [consult EXCEPT ![c].stage =
       IF recorded >= Cap THEN "refusing" ELSE IF NearLimit THEN "warning" ELSE "voting"]
  /\ UNCHANGED recorded

Alerted(c) ==
  \/ /\ consult[c].stage = "refusing"
     /\ consult' = [consult EXCEPT ![c] = Idle]
     /\ UNCHANGED recorded
  \/ /\ consult[c].stage = "warning"
     /\ consult' = [consult EXCEPT ![c].stage = "voting"]
     /\ UNCHANGED recorded

-----------------------------------------------------------------------------
(* LLMCommitteeOrchestrator.evaluate_decision *)

\* All three have voted in time.
Voted(c) ==
  /\ consult[c].stage = "voting"
  /\ \E votes \in [Agents -> Votes] :
       consult' = [consult EXCEPT ![c] =
         [stage |-> "deciding", votes |-> votes, final |-> Consensus(votes)]]
  /\ UNCHANGED recorded

\* VotesFail, had the votes been awaited without a limit of time.
VotesNeverFail(c) == FALSE /\ UNCHANGED vars

\* An agent has failed twice, or the 20 seconds are over. What was paid is not recorded.
VotesFail(c) ==
  /\ consult[c].stage = "voting"
  /\ consult' = [consult EXCEPT ![c].stage = "failing"]
  /\ UNCHANGED recorded

\* The decision and its shadow trade are committed.
CommitDecision(c) ==
  /\ consult[c].stage = "deciding"
  /\ consult' = [consult EXCEPT ![c].stage = "auditing"]
  /\ UNCHANGED recorded

\* CommitAudit, had it kept the votes for the next one.
CommitAuditKeeping(c) ==
  /\ consult[c].stage = "auditing"
  /\ recorded' = recorded + Cardinality(Agents)
  /\ consult' = [consult EXCEPT ![c].stage = "idle"]

\* The audit rows are committed, one for each vote.
CommitAudit(c) ==
  /\ consult[c].stage = "auditing"
  /\ recorded' = recorded + Cardinality(Agents)
  /\ consult' = [consult EXCEPT ![c] = Idle]

CommitFails(c) ==
  /\ consult[c].stage \in {"deciding", "auditing"}
  /\ consult' = [consult EXCEPT ![c] = [Idle EXCEPT !.stage = "failing"]]
  /\ UNCHANGED recorded

\* A row that costs nothing tells of the failure; if the session takes none, the cycle fails.
Fallback(c) ==
  /\ consult[c].stage = "failing"
  /\ consult' = [consult EXCEPT ![c] = Idle]
  /\ UNCHANGED recorded

-----------------------------------------------------------------------------
\* The limit is that of the day the check falls on.
NewDay == recorded' = 0 /\ UNCHANGED consult

Crash == consult' = [c \in Slots |-> Idle] /\ UNCHANGED recorded

Advance(c) == Alerted(c) \/ VotesFail(c) \/ CommitDecision(c) \/ CommitAudit(c) \/ Fallback(c)

Next ==
  \/ \E c \in Slots : Check(c) \/ Voted(c) \/ CommitFails(c) \/ Advance(c)
  \/ NewDay
  \/ Crash

\* Alerts and votes have their timeouts, and commits return.
Spec == Init /\ [][Next]_vars /\ \A c \in Slots : WF_vars(Advance(c))

-----------------------------------------------------------------------------
(* Properties *)

\* The record and the consultations are what they should be, and there are votes
\* exactly from their arrival to the commit of what they cost.
TypeOK ==
  /\ recorded \in Nat
  /\ consult \in [Slots -> [stage : Stages, votes : [Agents -> Votes] \cup {NoVotes},
                            final : Sides]]
  /\ \A c \in Slots : consult[c].stage \in {"deciding", "auditing"} <=> consult[c].votes # NoVotes

\* The record of a day goes past the limit by no more than the consultations that were
\* under way when it was reached, how late they may commit (check_daily_limit reads the
\* log, and much is awaited before the votes that it allows are in the log).
SpendBounded == recorded <= Cap - 1 + 3 * Cardinality(Slots)

Opposite(side) == IF side = "LONG" THEN "SHORT" ELSE "LONG"

\* Nothing is decided against a vote of 45 or more, and votes for one side that are not
\* more than 86 apart are decided for it (the two thresholds of the chair are on
\* different scales: a ratio of confidences, and a deviation of confidences).
VotesDecide ==
  \A c \in Slots : consult[c].votes # NoVotes =>
    LET votes == consult[c].votes IN
      \A side \in {"LONG", "SHORT"} :
        /\ consult[c].final = side =>
             \A a \in Agents : votes[a].side = Opposite(side) => votes[a].conf < 45
        /\ /\ Certainty(votes) > 0
           /\ \A a \in Agents : votes[a].side = side
           /\ \A a, b \in Agents : votes[a].conf - votes[b].conf <= 86
           => consult[c].final = side

\* Every consultation ends, though the agents may never answer.
ConsultEnds == \A c \in Slots : consult[c].stage # "idle" ~> consult[c].stage = "idle"
=============================================================================
