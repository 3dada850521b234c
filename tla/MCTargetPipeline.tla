-------------------------- MODULE MCTargetPipeline --------------------------
(* Instances of TargetPipeline for TLC. *)
EXTENDS TargetPipeline

Signal(action, conf, score, regime) ==
  [action |-> action, conf |-> conf, score |-> score, regime |-> regime]

\* Every grade, every group adjustment, and candidates on both sides of the margin
\* by which a replacement must beat a held position.
MCSignals ==
  {Signal("LONG", 90, 60, "BULL"), Signal("LONG", 60, 30, "SIDEWAYS"),
   Signal("SHORT", 75, 90, "BEAR"), Signal("LONG", 80, 40, "BEAR"),
   Signal("HOLD", 70, 20, "BULL"), Signal("HOLD", 90, 80, "SIDEWAYS"),
   Signal("CLOSE", 90, 50, "BULL")}
=============================================================================
