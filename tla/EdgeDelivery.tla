---------------------------- MODULE EdgeDelivery ----------------------------
(***************************************************************************)
(* The path of a logic bundle from `stk logic apply` to an answer of       *)
(* POST /call: ManifestRegistry writes the Edge KV, BridgeServer reads it. *)
(* The two share nothing else.                                             *)
(***************************************************************************)
EXTENDS ManifestRegistry, BridgeServer

VARIABLES
  sure,   \* history: sure[r], the bundle had its own key when r arrived
  expect  \* history: expect[r], the push that r has to see, or None

deliveryVars == <<registryVars, bridgeVars, sure, expect>>

historyVars == <<sure, expect>>
registryOnly == <<now, rows, version, createdAt, pc, todo, newest, clean>>

TypeOK ==
  /\ RegistryTypeOK
  /\ BridgeTypeOK
  /\ sure \in [Requests -> BOOLEAN]
  /\ expect \in [Requests -> Entry]

Init ==
  /\ RegistryInit
  /\ BridgeInit
  /\ sure = [r \in Requests |-> FALSE]
  /\ expect = [r \in Requests |-> None]

(* The push whose bundle b everyone may count on: the last one that        *)
(* started, if it ran alone, lost no Set and has returned.                 *)
Settled(b) ==
  IF \E p \in Pushes : /\ p = newest /\ clean[p] /\ pc[p] = "returned"
                       /\ b \in content[p]
  THEN newest ELSE None

(* The history of requests that are over.                                  *)
Forget(gone) ==
  /\ sure' = [r \in Requests |-> sure[r] /\ r \notin gone]
  /\ expect' = [r \in Requests |-> IF r \in gone THEN None ELSE expect[r]]

RequestArrives(r, b) ==
  /\ Arrive(r, b)
  /\ sure' = [sure EXCEPT ![r] = kvBundle[b] # None]
  /\ expect' = [expect EXCEPT ![r] =
                  IF cache[ServerOf[r]][b] = None THEN Settled(b) ELSE None]
  /\ UNCHANGED <<kvVars, content, registryOnly>>

RequestMoves(r) ==
  /\ RequestStep(r)
  /\ IF at'[r] = "idle" THEN Forget({r}) ELSE UNCHANGED historyVars
  /\ UNCHANGED <<kvVars, content, registryOnly>>

ServerRestarts(s) ==
  /\ Restart(s)
  /\ Forget({r \in Requests : ServerOf[r] = s})
  /\ UNCHANGED <<kvVars, content, registryOnly>>

(* An upload that starts lifts what the requests in progress may expect.   *)
RegistryMoves ==
  /\ RegistryNext
  /\ expect' = IF newest' = newest THEN expect
               ELSE [r \in Requests |-> None]
  /\ UNCHANGED <<bridgeVars, sure>>

Next ==
  \/ \E r \in Requests, b \in Bundles : RequestArrives(r, b)
  \/ \E r \in Requests : RequestMoves(r)
  \/ \E s \in Servers : ServerRestarts(s)
  \/ RegistryMoves

(* The event loop runs every continuation whose Get has resolved, and the  *)
(* store resolves every Get: the steps of a request are weakly fair, as    *)
(* those of an upload are in RegistrySpec.                                 *)
Fairness ==
  /\ \A r \in Requests : WF_deliveryVars(RequestMoves(r))
  /\ \A p \in Pushes : WF_deliveryVars(RegistryMoves /\ PushStep(p))

Spec == Init /\ [][Next]_deliveryVars /\ Fairness

-----------------------------------------------------------------------------
(* Properties *)

FromSavedManifest(e, b) == e # None => e \in rows /\ b \in content[e]

(* Every bundle a server holds or executes is a bundle of a manifest the   *)
(* registry stored, whatever the Hub's crashes, the failed inserts and the *)
(* order of the two sides' steps.                                          *)
OnlySavedBundlesRun ==
  /\ \A s \in Servers, b \in Bundles : FromSavedManifest(cache[s][b], b)
  /\ \A r \in Requests :
       /\ FromSavedManifest(bundle[r], want[r])
       /\ at[r] \in {"executing", "answered"} => bundle[r] # None

(* A bundle whose own key was there when the request arrived is found: no  *)
(* later upload, of whatever bundles, makes the request miss it.           *)
PublishedIsFound == \A r \in Requests : sure[r] => at[r] # "notFound"

(* A request that misses the cache after an upload settled, with no other  *)
(* upload started since, gets the bundle of this upload, also when slower  *)
(* requests of the same server write older bundles into the cache.  And    *)
(* what its handler reaches by context.invoke is of the same upload.       *)
MissSeesSettledPush ==
  \A r \in Requests :
    at[r] \in {"loaded", "executing", "answered"} /\ expect[r] # None =>
      /\ bundle[r] = expect[r]
      /\ \A c \in content[expect[r]] : kvBundle[c] = expect[r]

(* The promise of EdgePromise, kept through the two components: what is    *)
(* published is a row, what is announced is a bundle's own key, and a call *)
(* has a bundle from the end of loadBundle on.                             *)
Published == {e \in Pushes \X Bundles : e[1] \in rows /\ e[2] \in content[e[1]]}
Announced == {b \in Bundles : kvBundle[b] # None}
HasBundle == {"loaded", "executing", "answered"}
Phase(place) ==
  CASE place \in Loading -> "waiting"
    [] place \in HasBundle -> "has"
    [] place = "notFound" -> "missing"
    [] OTHER -> place

Promise == INSTANCE EdgePromise WITH
  published <- Published,
  announced <- Announced,
  asked <- want,
  must <- sure,
  phase <- [r \in Requests |-> Phase(at[r])],
  holds <- [r \in Requests |-> IF at[r] \in HasBundle THEN bundle[r] ELSE None]

KeepsPromise == Promise!Spec

(* Every load ends: no request waits on another one.                       *)
LoadEnds == \A r \in Requests : at[r] = "askBundle" ~> at[r] \notin Loading
=============================================================================
