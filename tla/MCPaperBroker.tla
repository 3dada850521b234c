---------------------------- MODULE MCPaperBroker ----------------------------
(* Instances of PaperBroker for TLC. *)
EXTENDS PaperBroker, TLC

Interchangeable == Permutations(Sessions)

\* What the theorems on solvent accounts suppose of rates and prices.
ASSUME DebtAssumption == NoDebt /\ NoDebtHoweverOften
==============================================================================
