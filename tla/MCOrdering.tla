------------------------------ MODULE MCOrdering ------------------------------
(* The ordering contract and the registry on two epochs, three commits and  *)
(* three members, one of them astray, up to renaming of commits.            *)
EXTENDS ForkRegistry, TLC

RefSymmetry == Permutations(Refs)
=============================================================================
