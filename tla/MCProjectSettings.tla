-------------------------- MODULE MCProjectSettings ---------------------------
(* ProjectSettings with two runs; one key has a question mark after the    *)
(* other one's name, and a third cannot be in a path.                      *)
EXTENDS ProjectSettings, TLC

CONSTANTS x, y, v1, v2

MCKeys == {"k", "k?", "k/"}
MCPathKey == [k \in MCKeys |-> IF k = "k/" THEN None ELSE "k"]
MCTree == [databases |-> x, auth |-> Blank, storage |-> x]
MCEdits == {<<"databases", y>>, <<"storage", None>>}
Symmetry == Permutations(Runs)

MCOffered ==
  {[kind |-> "apply", only |-> Files],
   [kind |-> "apply", only |-> {"auth"}],
   [kind |-> "apply", only |-> {"databases"}],
   [kind |-> "apply", only |-> {"unknown"}],
   [kind |-> "set", key |-> "k", value |-> v1],
   [kind |-> "set", key |-> "k", value |-> Blank],
   [kind |-> "delete", key |-> "k"],
   [kind |-> "delete", key |-> "k?"],
   [kind |-> "delete", key |-> "k/"]}
===============================================================================
