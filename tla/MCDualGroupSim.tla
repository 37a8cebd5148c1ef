--------------------------- MODULE MCDualGroupSim ---------------------------
(* Small scenarios: three clients on one replica, two of which join and one of
   which leaves; two clients on two replicas. *)
EXTENDS DualGroupSim, TLC

CONSTANTS c0, c1, c2

Join(c) == [join |-> TRUE, client |-> c]
Leave(c) == [join |-> FALSE, client |-> c]

MCScenarios ==
  {[clients |-> {c0, c1, c2}, replicas |-> 1, W |-> 1, rekeys |-> 1,
    churn |-> <<Join(c1), Join(c2)>>],
   [clients |-> {c0, c1, c2}, replicas |-> 1, W |-> 1, rekeys |-> 0,
    churn |-> <<Join(c1), Join(c2), Leave(c1)>>],
   [clients |-> {c0, c1}, replicas |-> 2, W |-> 1, rekeys |-> 1,
    churn |-> <<Join(c1)>>]}

(* Two clients on two replicas, the founder of which rekeys twice. *)
TwoRekeys ==
  {[clients |-> {c0, c1}, replicas |-> 2, W |-> 1, rekeys |-> 2, churn |-> <<Join(c1)>>]}
=============================================================================
