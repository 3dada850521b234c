----------------------------- MODULE MCCommittee -----------------------------
(* An instance of Committee for TLC. *)
EXTENDS Committee

CONSTANTS c1, c2, a1, a2, a3

Vote(side, conf) == [side |-> side, conf |-> conf]

\* Around the confidences at which the chair changes its mind: 42 twice against 45, 86 apart.
MCVotes ==
  {Vote("LONG", 0), Vote("LONG", 42), Vote("LONG", 86), Vote("SHORT", 45), Vote("PASS", 60)}
=============================================================================
