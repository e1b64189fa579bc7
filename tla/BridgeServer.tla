---------------------------- MODULE BridgeServer ----------------------------
(***************************************************************************)
(* Bridge servers answering POST /call: SantokitServer.fetch up to the     *)
(* execution of the logic, with loadBundle, its bundle cache and           *)
(* context.invoke.  JavaScript runs a request until its next await, so a   *)
(* Get of the Edge KV is two steps, the store's answer and the             *)
(* continuation, and other requests of the same server run between them.   *)
(*                                                                         *)
(* loadBundle keeps every bundle it has seen until the process ends.  When *)
(* a bundle has no key of its own it takes all the bundles of the latest   *)
(* manifest into the cache, over what the cache held.                      *)
(*                                                                         *)
(* The module declares no initial state or specification of the Edge KV:   *)
(* EdgeDelivery composes it with ManifestRegistry, its writer.             *)
(***************************************************************************)
EXTENDS EdgeKV

CONSTANTS
  Servers,  \* Bridge processes (SantokitServer objects)
  Requests, \* slots for requests in progress, each of one server
  ServerOf  \* ServerOf[r]: the server whose slot r is

ASSUME SlotAssumption == ServerOf \in [Requests -> Servers]

VARIABLES
  cache,   \* cache[s][b]: SantokitServer.bundleCache, by the push it is from
  want,    \* want[r]: the bundle requested in slot r
  at,      \* at[r]: where the request in slot r is
  got,     \* got[r]: what the last Get resolved to, until it is used
  bundle   \* bundle[r]: what loadBundle returned, None for null

bridgeVars == <<cache, want, at, got, bundle>>

(* A request is loading until loadBundle returned, then "loaded" and       *)
(* "executing"; it ends "answered", "notFound" or "failed" (4xx or 500).   *)
Loading == {"askBundle", "gotBundle", "askLatest", "gotLatest"}
Ended   == {"answered", "notFound", "failed"}
Place   == Loading \union Ended \union {"idle", "loaded", "executing"}

BridgeTypeOK ==
  /\ cache \in [Servers -> [Bundles -> Entry]]
  /\ want \in [Requests -> Bundles \union {None}]
  /\ at \in [Requests -> Place]
  /\ \A r \in Requests : at[r] # "idle" => want[r] \in Bundles
  /\ got \in [Requests -> Entry]
  /\ bundle \in [Requests -> Entry]

EmptyCache == [b \in Bundles |-> None]

BridgeInit ==
  /\ cache = [s \in Servers |-> EmptyCache]
  /\ want = [r \in Requests |-> None]
  /\ at = [r \in Requests |-> "idle"]
  /\ got = [r \in Requests |-> None]
  /\ bundle = [r \in Requests |-> None]

Goto(r, place) == at' = [at EXCEPT ![r] = place]

(* Mutant: every key of the cache is set from the manifest.                *)
RefilledBlindly(s, p) == [b \in Bundles |-> p]

(* bundleCache after all bundles of the manifest of p were put in.         *)
Refilled(s, p) ==
  [b \in Bundles |-> IF b \in content[p] THEN p ELSE cache[s][b]]

-----------------------------------------------------------------------------
(* A request arrives; loadBundle looks into the cache before any await.    *)
Arrive(r, b) ==
  LET cached == cache[ServerOf[r]][b]
  IN  /\ at[r] = "idle"
      /\ want' = [want EXCEPT ![r] = b]
      /\ bundle' = [bundle EXCEPT ![r] = cached]
      /\ Goto(r, IF cached # None THEN "loaded" ELSE "askBundle")
      /\ UNCHANGED <<cache, got>>

(* The store resolves the Get of the bundle's own key.                     *)
ReadBundleKey(r) ==
  /\ at[r] = "askBundle"
  /\ got' = [got EXCEPT ![r] = kvBundle[want[r]]]
  /\ Goto(r, "gotBundle")
  /\ UNCHANGED <<cache, want, bundle>>

(* Mutant: loadBundle prefers what another request has cached meanwhile.   *)
UseBundleKeyIfAbsent(r) ==
  LET cached == cache[ServerOf[r]][want[r]]
      chosen == IF cached # None THEN cached ELSE got[r]
  IN  /\ at[r] = "gotBundle"
      /\ got' = [got EXCEPT ![r] = None]
      /\ cache' = [cache EXCEPT ![ServerOf[r]][want[r]] = chosen]
      /\ bundle' = [bundle EXCEPT ![r] = chosen]
      /\ Goto(r, IF chosen # None THEN "loaded" ELSE "askLatest")
      /\ UNCHANGED want

(* loadBundle continues after that Get, with a bundle or without.          *)
UseBundleKey(r) ==
  /\ at[r] = "gotBundle"
  /\ got' = [got EXCEPT ![r] = None]
  /\ \/ /\ got[r] # None
        /\ cache' = [cache EXCEPT ![ServerOf[r]][want[r]] = got[r]]
        /\ bundle' = [bundle EXCEPT ![r] = got[r]]
        /\ Goto(r, "loaded")
     \/ /\ got[r] = None
        /\ Goto(r, "askLatest")
        /\ UNCHANGED <<cache, bundle>>
  /\ UNCHANGED want

(* The store resolves the Get of the latest key.                           *)
ReadLatestKey(r) ==
  /\ at[r] = "askLatest"
  /\ got' = [got EXCEPT ![r] = kvLatest]
  /\ Goto(r, "gotLatest")
  /\ UNCHANGED <<cache, want, bundle>>

(* Mutant: a bundle the latest manifest lacks is looked for again.         *)
UseLatestKeyRetry(r) ==
  /\ at[r] = "gotLatest"
  /\ got' = [got EXCEPT ![r] = None]
  /\ Goto(r, "askBundle")
  /\ UNCHANGED <<cache, want, bundle>>

(* loadBundle continues after that Get and returns what the cache then     *)
(* holds for the requested bundle.                                         *)
UseLatestKey(r) ==
  /\ at[r] = "gotLatest"
  /\ got' = [got EXCEPT ![r] = None]
  /\ \/ /\ got[r] = None
        /\ Goto(r, "notFound")
        /\ UNCHANGED <<cache, bundle>>
     \/ LET filled == Refilled(ServerOf[r], got[r])
        IN  /\ got[r] # None
            /\ cache' = [cache EXCEPT ![ServerOf[r]] = filled]
            /\ bundle' = [bundle EXCEPT ![r] = filled[want[r]]]
            /\ Goto(r, IF filled[want[r]] # None THEN "loaded" ELSE "notFound")
  /\ UNCHANGED want

(* kv.get rejects: fetch answers 500.                                      *)
ReadFails(r) ==
  /\ at[r] \in {"askBundle", "askLatest"}
  /\ Goto(r, "failed")
  /\ UNCHANGED <<cache, want, got, bundle>>

(* The private-name check, authenticateRequest, checkAccess, parseParams:  *)
(* all look at the bundle and the request only, and let it go on or not.   *)
Authorize(r) ==
  /\ at[r] = "loaded"
  /\ \E next \in {"executing", "failed"} : Goto(r, next)
  /\ UNCHANGED <<cache, want, got, bundle>>

(* The handler calls context.invoke for a bundle without a key of its own: *)
(* invoke throws, and with it the request.  (An invoke that finds the key  *)
(* runs the bundle of the key, past the cache, and changes nothing here.)  *)
InvokeFails(r) ==
  /\ at[r] = "executing"
  /\ \E c \in Bundles : kvBundle[c] = None
  /\ Goto(r, "failed")
  /\ UNCHANGED <<cache, want, got, bundle>>

(* The handler (or the SQL) ends, and fetch builds the response; or the    *)
(* response cache had one.                                                 *)
Respond(r) ==
  /\ at[r] = "executing"
  /\ \E end \in {"answered", "failed"} : Goto(r, end)
  /\ UNCHANGED <<cache, want, got, bundle>>

(* The response is on its way; the slot is free for another request.       *)
Release(r) ==
  /\ at[r] \in Ended
  /\ Goto(r, "idle")
  /\ want' = [want EXCEPT ![r] = None]
  /\ bundle' = [bundle EXCEPT ![r] = None]
  /\ UNCHANGED <<cache, got>>

(* Mutant: requests of the old process are left where they are.            *)
RestartKeepsPlaces(s) ==
  LET Without(f, v) == [r \in Requests |-> IF ServerOf[r] = s THEN v ELSE f[r]]
  IN  /\ cache' = [cache EXCEPT ![s] = EmptyCache]
      /\ want' = Without(want, None)
      /\ got' = Without(got, None)
      /\ bundle' = Without(bundle, None)
      /\ UNCHANGED at

(* The server process is replaced: its cache and its requests are gone.    *)
(* A Cloudflare Worker builds a new SantokitServer for every request.      *)
Restart(s) ==
  LET Without(f, v) == [r \in Requests |-> IF ServerOf[r] = s THEN v ELSE f[r]]
  IN  /\ cache' = [cache EXCEPT ![s] = EmptyCache]
      /\ want' = Without(want, None)
      /\ at' = Without(at, "idle")
      /\ got' = Without(got, None)
      /\ bundle' = Without(bundle, None)

(* What the event loop does for a request without its client.              *)
RequestStep(r) ==
  \/ ReadBundleKey(r) \/ UseBundleKey(r)
  \/ ReadLatestKey(r) \/ UseLatestKey(r) \/ ReadFails(r)
  \/ Authorize(r) \/ InvokeFails(r) \/ Respond(r) \/ Release(r)
=============================================================================
