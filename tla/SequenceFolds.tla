--------------------------- MODULE SequenceFolds ---------------------------
(***************************************************************************)
(* Loops over slices.  SequencesExt has such operators too; it extends     *)
(* Bags, and every proof step in a module that sees Bags takes the proof   *)
(* system several times as long, so the few that the models need are       *)
(* defined here from Folds and Functions.                                  *)
(***************************************************************************)
EXTENDS Integers, Sequences, FiniteSetsExt, Functions

(* for _, x := range seq { acc = op(acc, x) }, from acc = base. *)
FoldLeft(op(_, _), base, seq) ==
  MapThenFoldSet(LAMBDA x, acc : op(acc, x), base, LAMBDA i : seq[i], Max, DOMAIN seq)

(* The numbers of S as a sorted slice. *)
Ascending(S) ==
  CHOOSE f \in [1 .. Cardinality(S) -> S] : \A i, j \in DOMAIN f : i < j => f[i] < f[j]
============================================================================
