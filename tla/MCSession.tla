----------------------------- MODULE MCSession ------------------------------
(* Instances of Session for TLC: two users, the second of which the Bridge *)
(* cannot decode, and three operations: two that race and one that is the  *)
(* reason, or the witness, of the race.                                    *)
EXTENDS Session
=============================================================================
