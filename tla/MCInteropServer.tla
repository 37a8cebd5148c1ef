--------------------------- MODULE MCInteropServer ---------------------------
(* A small instance of InteropServer: three clients at most, of two
   identities, and few messages of each kind. *)
EXTENDS InteropServer, TLC

CONSTANTS alice, bob

MCIdentities == {alice, bob}

Symmetry == Permutations(MCIdentities)

MCMessages ==
  [k \in Kinds |-> CASE k = "key_package" -> 1
                     [] k = "proposal"    -> 1
                     [] k = "commit"      -> 2
                     [] k = "welcome"     -> 2
                     [] k = "application" -> 2
                     [] k = "group_info"  -> 1]
=============================================================================
