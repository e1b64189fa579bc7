--------------------------- MODULE MCLogicPipeline ---------------------------
(***************************************************************************)
(* Two runs, three entries: users/get, users/_aux, which is private, and   *)
(* root, which is not in a directory.                                      *)
(***************************************************************************)
EXTENDS LogicPipeline, Sequences, TLC

CONSTANTS get, aux, root, r1, r2

Symmetry == Permutations(Runs)

File(e, ext) == [entry |-> e, ext |-> ext]
walk ==
  <<File(root, "sql"), File(aux, "hcl"), File(aux, "js"), File(get, "js"), File(get, "md"),
    File(get, "sql"), File(get, "yaml"), File(get, "yml")>>

MCFiles == {walk[i] : i \in 1 .. Len(walk)}
MCRank == [f \in MCFiles |-> CHOOSE i \in 1 .. Len(walk) : walk[i] = f]

Typed(p, q) == [p |-> p, q |-> q]
Param(type, required) == [type |-> type, required |-> required]
Meta(access, params) == [access |-> access, params |-> params]

Plain == [block |-> None, fence |-> None, body |-> "select"]
Fronted ==
  [block |-> Meta("admin", Typed(Param("int", TRUE), None)),
   fence |-> Meta(None, Typed(Param("bool", FALSE), Param("json", FALSE))),
   body |-> "select"]
Refused ==
  {[Plain EXCEPT !.fence = Malformed], [Plain EXCEPT !.body = "blank"],
   [Plain EXCEPT !.block = Meta(None, Typed(Param("float", TRUE), None))]}

MetaAccess == Meta("public", None)
MetaParams == Meta(None, Typed(None, Param("string", TRUE)))
MetaTexts == {MetaAccess, MetaParams, Meta("blank", None)}

Directory(sql, yaml, yml, js, auxJs, rest) ==
  [f \in Files |->
     CASE f = File(get, "sql") -> sql
       [] f = File(get, "yaml") -> yaml
       [] f = File(get, "yml") -> yml
       [] f = File(get, "js") -> js
       [] f = File(aux, "js") -> auxJs
       [] f = File(get, "md") -> Malformed
       [] OTHER -> IF f = rest THEN Plain ELSE None]

(* Any two texts of users/get; any files of it and of users/_aux; one that *)
(* is misplaced or has no source.                                          *)
MCTrees ==
  {Directory(sql, yaml, None, None, None, None) :
     sql \in {Plain, Fronted, None} \union Refused, yaml \in MetaTexts \union {Malformed, None}}
  \union
  {Directory(Fronted, yaml, yml, js, auxJs, None) :
     yaml \in {MetaAccess, None}, yml \in {MetaParams, None},
     js \in {Plain, None}, auxJs \in {Plain, None}}
  \union
  {Directory(Plain, None, None, None, None, f) : f \in {File(root, "sql"), File(aux, "hcl")}}

MCEarlier == {Directory(Fronted, None, None, None, Plain, None)}

MCEdits ==
  {<<File(get, "sql"), Fronted>>, <<File(get, "sql"), None>>,
   <<File(get, "js"), Plain>>, <<File(get, "yaml"), MetaAccess>>}
===============================================================================
