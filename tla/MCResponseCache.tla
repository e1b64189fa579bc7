-------------------------- MODULE MCResponseCache ---------------------------
(* ResponseCache with settings that cache for one and two seconds, one of  *)
(* a closed logic, and ones that keep nothing.                             *)
EXTENDS ResponseCache, TLC

CONSTANTS q1, q2, q3

MCRequests == {q1, q2, q3}
Symmetry == Permutations(MCRequests)

MCConfigs ==
  {[access |-> "public", cache |-> 1], [access |-> "public", cache |-> 2],
   [access |-> "public", cache |-> Malformed], [access |-> "authenticated", cache |-> 2],
   [access |-> "public", cache |-> NoCache]}
=============================================================================
