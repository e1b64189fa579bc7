--------------------------- MODULE MCEdgeDelivery ---------------------------
(* Instances of EdgeDelivery for TLC.                                      *)
EXTENDS EdgeDelivery, TLC

CONSTANT s1

OneServer == [r \in Requests |-> s1]

Symmetry ==
  Permutations(Pushes) \union Permutations(Bundles) \union Permutations(Requests)
=============================================================================
