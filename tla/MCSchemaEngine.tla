--------------------------- MODULE MCSchemaEngine ---------------------------
(* Instances of SchemaEngine for TLC: two runs with different files and a  *)
(* third schema in the database are enough for a plan of one run to meet   *)
(* every step of another.                                                  *)
EXTENDS SchemaEngine
=============================================================================
