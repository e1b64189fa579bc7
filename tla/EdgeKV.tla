------------------------------- MODULE EdgeKV -------------------------------
(***************************************************************************)
(* The Edge key-value store of one project: what the Hub's registry writes *)
(* and a Bridge server reads.  Two kinds of key exist,                     *)
(*                                                                         *)
(*   project:<id>:latest             the whole newest manifest             *)
(*   <id>:logic:<namespace>:<name>   one bundle                            *)
(*                                                                         *)
(* and both hold JSON derived from one manifest, so an entry is            *)
(* represented by the push that the manifest came from.  The store itself, *)
(* Redis, is external: a Set or a Get of one key is atomic, and a key is   *)
(* only removed by a command nobody sends.  (Without Redis the Hub writes  *)
(* files instead, which no adapter of the Bridge reads.)                   *)
(***************************************************************************)
CONSTANTS
  Pushes,   \* the manifest uploads of a behaviour, each with its own content
  Bundles,  \* the namespace/name pairs of the project's logic
  None      \* no push, no bundle: the value of a key that does not exist

ASSUME NoneAssumption == None \notin Pushes /\ None \notin Bundles

VARIABLES
  content,  \* content[p]: the bundles of the manifest uploaded by p
  kvLatest, \* the value of project:<id>:latest
  kvBundle  \* kvBundle[b]: the value of <id>:logic:<b>

kvVars == <<kvLatest, kvBundle>>

Entry == Pushes \union {None}

KVTypeOK ==
  /\ content \in [Pushes -> SUBSET Bundles]
  /\ kvLatest \in Entry
  /\ kvBundle \in [Bundles -> Entry]

KVInit ==
  /\ content = [p \in Pushes |-> {}]
  /\ kvLatest = None
  /\ kvBundle = [b \in Bundles |-> None]

(* Redis SET / os.WriteFile of the two kinds of key.                       *)
SetLatest(p)    == kvLatest' = p /\ UNCHANGED kvBundle
SetBundle(p, b) == kvBundle' = [kvBundle EXCEPT ![b] = p] /\ UNCHANGED kvLatest
=============================================================================
