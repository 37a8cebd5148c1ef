---------------------------- MODULE MCMLSMembers ----------------------------
(* Small instances of MLSMembers.  The nodes other than the founder are
   interchangeable.  Groups grow to three members step by step, to five at
   once, which needs a tree of eight leaves, or to nine at once, which needs
   one of sixteen; of the nine, three are ever online. *)
EXTENDS MLSMembers, TLC

CONSTANTS a, b, c, d, e, z1, z2, z3, z4, z5, z6

Online == {a, b, c, d, e}
Sleepers == <<z1, z2, z3, z4, z5, z6>>
MCAbsent == Range(Sleepers)
MCNodes == Online \cup MCAbsent
Symmetry == Permutations(Online \ {a})

Evicting(k) == kSubset(k, 0 .. 4)
Admitting(k) == {f \in [1 .. k -> Online] : IsInjective(f)}

(* Eight newcomers, of which those on leaves 1 and 8 come online. *)
Nine == {<<js[1]>> \o Sleepers \o <<js[2]>> : js \in Admitting(2)}

Plan(evicts, admits, further, sizes, late) ==
  [evicts |-> evicts, admits |-> admits, further |-> further, sizes |-> sizes, late |-> late]

MCPlans ==
  {Plan(Evicting(0), Admitting(0), "none", {1, 2, 3, 5, 7}, TRUE),
   Plan(Evicting(0), Admitting(1), "none", 1 .. 2, FALSE),
   Plan(Evicting(0), Admitting(1), "none", {4}, FALSE),
   Plan(Evicting(0), Admitting(1), "resumption", {2}, FALSE),
   Plan(Evicting(0), Admitting(2), "none", {1}, FALSE),
   Plan(Evicting(0), Admitting(4), "none", {1}, FALSE),
   Plan(Evicting(0), Nine, "none", {1}, FALSE),
   Plan(Evicting(1), Admitting(0), "none", {2, 3, 5}, FALSE),
   Plan(Evicting(2), Admitting(0), "none", {5}, FALSE),
   Plan({2 .. 3}, Admitting(0), "none", {9}, FALSE),
   Plan({1 .. 3}, Admitting(1), "none", {9}, FALSE),
   Plan(Evicting(1), Admitting(1), "gce", {2}, FALSE),
   Plan(Evicting(0), Admitting(0), "external", 2 .. 3, FALSE),
   Plan(Evicting(0), Admitting(1), "external", {2}, FALSE)}
=============================================================================
