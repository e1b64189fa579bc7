----------------------------- MODULE MCAutoCrud -----------------------------
(* AutoCrud on a small table: an owner column, a critical one and a system *)
(* one, the first with another spelling, and two permission configurations. *)
(* A condition or an assignment is of one name, and of a user id where the *)
(* name is the owner column's.                                             *)
EXTENDS AutoCrud, TLC

CONSTANTS u1, u2, r1, r2, v

MCColumns == {"user_id", "c_note", "_version"}
MCSpelling == [n \in {"another user_id"} |-> "user_id"]
MCPrefix == [n \in Names |->
               CASE n = "c_note" -> "c_" [] n = "_version" -> "_" [] OTHER -> "none"]
MCInitially == [c \in MCColumns |-> Null]
MCUsers == {u1, u2}
MCIds == {r1, r2}
Symmetry == Permutations(MCUsers) \union Permutations(MCIds)
MCValues == MCUsers \union {v}
Owned(n) == {[m \in {n} |-> u] : u \in MCUsers}
With(n) == [m \in {n} |-> v]
MCWheres == Owned("user_id") \union Owned("another user_id") \union {NoClause, With("text")}
MCData == Owned("user_id")
            \union {NoClause, With("c_note"), With("_version"), With("all"), With("text")}
MCLists ==
  {Unset, {"user_id", "_version"}, {"c_note"}, {"all"}, {"text"}}
TableView == <<config, rows, sent>>
MCRoleSets == {{}, {"admin"}}

AllUnset == [op \in Operations |-> Unset]
NoColumns == [c \in {} |-> Unset]

(* No configuration; and one with every kind of override: an open insert,  *)
(* a delete that falls back to the defaults, a column nobody may change,   *)
(* and a column whose lists are all left out.                              *)
MCConfigs ==
  {[table |-> AllUnset, default |-> AllUnset, columns |-> NoColumns],
   [table |-> [op \in Operations |->
                 CASE op = "insert" -> {"public"}
                   [] op = "delete" -> Unset
                   [] OTHER         -> {"owner", "admin"}],
    default |-> [op \in Operations |-> {"owner"}],
    columns |-> [c \in {"c_note", "user_id"} |->
                   IF c = "c_note"
                     THEN [select |-> {"authenticated"}, update |-> {}, insert |-> Unset]
                     ELSE [select |-> Unset, update |-> Unset, insert |-> Unset]]]}
=============================================================================
