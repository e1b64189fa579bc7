--------------------------- MODULE ResponseCache ----------------------------
(***************************************************************************)
(* The rest of a POST /call once its bundle is loaded (BridgeServer, which *)
(* leaves all this to its action Respond): access control, the two caches  *)
(* of finished responses, the execution of the logic, and the storing of   *)
(* its response.                                                           *)
(*                                                                         *)
(* Requests for one path with the same parameters share a cache key, and   *)
(* the entries of different keys do not meet, so there is one key here.    *)
(* Different requests may hold different versions of the bundle: its       *)
(* access and cache settings are inputs.  What a logic returns is the      *)
(* number of writes the database had seen when the logic read it.          *)
(*                                                                         *)
(* The Cache API of the Workers runtime is external: it keeps what is put  *)
(* for the max-age of its Cache-Control header, nothing under no-store,    *)
(* may drop an entry at any time, and outlives the server.                 *)
(***************************************************************************)
EXTENDS Naturals

CONSTANTS
  Requests,  \* requests, each made once
  Configs,   \* the settings a bundle may have: [access, cache]
  NoCache,   \* no cache setting
  Malformed, \* a cache setting that is not a number and a unit
  None,      \* no entry in a cache
  MaxTTL,    \* the longest cache setting
  MaxNow,    \* bound: the clock
  MaxData    \* bound: writes to the database

ASSUME CacheAssumption ==
  /\ MaxTTL \in Nat
  /\ NoCache \notin 0 .. MaxTTL /\ Malformed \notin 0 .. MaxTTL
  /\ \A c \in Configs : c.cache \in (0 .. MaxTTL) \union {NoCache, Malformed}
  /\ None \notin [value : 0 .. MaxData, by : Requests, expiresAt : Nat]
  /\ None \notin Configs
  /\ MaxNow \in Nat /\ MaxData \in Nat

VARIABLES
  now,           \* Date.now, in seconds
  data,          \* how many writes the database has seen
  cacheAPI,      \* typeof caches !== 'undefined'
  responseCache, \* SantokitServer.responseCache at the key
  edgeCache,     \* caches.default at the key
  at,            \* at[q]: where request q is
  config,        \* config[q]: the settings in the bundle q loaded
  reply,         \* reply[q]: what the logic, or a cache, gave q
  by,            \* by[q]: whose execution made reply[q]
  lastHeld       \* history: when a running execution last held each value

vars == <<now, data, cacheAPI, responseCache, edgeCache, at, config, reply,
          by, lastHeld>>

Ended == {"hit", "miss", "error"}
Under == {"lookup", "match", "execute", "store", "put"}
Entry == [value : 0 .. MaxData, by : Requests, expiresAt : Nat]

TypeOK ==
  /\ now \in Nat /\ data \in 0 .. MaxData
  /\ cacheAPI \in BOOLEAN
  /\ responseCache \in Entry \union {None}
  /\ edgeCache \in Entry \union {None}
  /\ at \in [Requests -> Ended \union Under \union {"idle"}]
  /\ config \in [Requests -> Configs \union {None}]
  /\ \A q \in Requests : at[q] \in Under \union {"hit", "miss"} => config[q] \in Configs
  /\ reply \in [Requests -> 0 .. MaxData]
  /\ by \in [Requests -> Requests]
  /\ lastHeld \in [0 .. MaxData -> Nat]

(* Mutant: the access of the logic is not asked for.                       *)
canCacheAnyAccess(c) == c.cache # NoCache

canCache(c) == c.access = "public" /\ c.cache # NoCache

getCacheSeconds(cache) == IF cache \in {NoCache, Malformed} THEN 0 ELSE cache

Init ==
  /\ now = 0 /\ data = 0
  /\ cacheAPI \in BOOLEAN
  /\ responseCache = None /\ edgeCache = None
  /\ at = [q \in Requests |-> "idle"]
  /\ config = [q \in Requests |-> None]
  /\ reply = [q \in Requests |-> 0]
  /\ by = [q \in Requests |-> q]
  /\ lastHeld = [v \in 0 .. MaxData |-> 0]

Goto(q, place) == at' = [at EXCEPT ![q] = place]
Answer(q, entry) ==
  /\ reply' = [reply EXCEPT ![q] = entry.value]
  /\ by' = [by EXCEPT ![q] = entry.by]
Holds(q) == lastHeld' = [lastHeld EXCEPT ![reply[q]] = now]
Fresh(entry) == entry # None /\ now < entry.expiresAt
NewEntry(q) ==
  [value |-> reply[q], by |-> q, expiresAt |-> now + getCacheSeconds(config[q].cache)]

caches == <<responseCache, edgeCache>>
world == <<now, data, cacheAPI>>

-----------------------------------------------------------------------------
(* A request *)

(* The caller is admitted and its parameters are complete.                 *)
Arrive(q, c) ==
  /\ at[q] = "idle"
  /\ config' = [config EXCEPT ![q] = c]
  /\ Goto(q, IF canCache(c) THEN "lookup" ELSE "execute")
  /\ UNCHANGED <<world, caches, reply, by, lastHeld>>

(* Mutant: that there is no bundle is not noticed.                         *)
RefusedNot(q) ==
  /\ at[q] = "idle"
  /\ Goto(q, "execute")
  /\ UNCHANGED <<world, caches, config, reply, by, lastHeld>>

(* No bundle, a private name, a caller without access, or a parameter that *)
(* is required and missing.                                                *)
Refused(q) ==
  /\ at[q] = "idle"
  /\ Goto(q, "error")
  /\ UNCHANGED <<world, caches, config, reply, by, lastHeld>>

HitResponse(q) ==
  /\ at[q] = "lookup"
  /\ Fresh(responseCache)
  /\ Answer(q, responseCache)
  /\ Goto(q, "hit")
  /\ UNCHANGED <<world, caches, config, lastHeld>>

(* An expired entry is deleted by the request that meets it.               *)
MissResponse(q) ==
  /\ at[q] = "lookup"
  /\ ~Fresh(responseCache)
  /\ responseCache' = None
  /\ Goto(q, IF cacheAPI THEN "match" ELSE "execute")
  /\ UNCHANGED <<world, edgeCache, config, reply, by, lastHeld>>

(* Mutant: a hit of the Cache API is kept in the server's cache, for the   *)
(* time a new response is kept.                                            *)
HitEdgeRefilling(q) ==
  /\ at[q] = "match"
  /\ Fresh(edgeCache)
  /\ Answer(q, edgeCache)
  /\ responseCache' = [edgeCache EXCEPT
       !.expiresAt = now + getCacheSeconds(config[q].cache)]
  /\ Goto(q, "hit")
  /\ UNCHANGED <<world, edgeCache, config, lastHeld>>

(* A hit of the Cache API is not kept in the server's own cache.           *)
HitEdge(q) ==
  /\ at[q] = "match"
  /\ Fresh(edgeCache)
  /\ Answer(q, edgeCache)
  /\ Goto(q, "hit")
  /\ UNCHANGED <<world, caches, config, lastHeld>>

MissEdge(q) ==
  /\ at[q] = "match"
  /\ ~Fresh(edgeCache)
  /\ Goto(q, "execute")
  /\ UNCHANGED <<world, caches, config, reply, by, lastHeld>>

(* The logic reads the database; other requests may run until its response *)
(* is complete.                                                            *)
executeLogic(q) ==
  /\ at[q] = "execute"
  /\ reply' = [reply EXCEPT ![q] = data]
  /\ by' = [by EXCEPT ![q] = q]
  /\ lastHeld' = [lastHeld EXCEPT ![data] = now]
  /\ Goto(q, IF canCache(config[q]) THEN "store" ELSE "miss")
  /\ UNCHANGED <<world, caches, config>>

(* The body has been read: the response replaces what the cache holds.     *)
StoreResponse(q) ==
  /\ at[q] = "store"
  /\ responseCache' =
       IF getCacheSeconds(config[q].cache) > 0 THEN NewEntry(q) ELSE responseCache
  /\ Holds(q)
  /\ Goto(q, IF cacheAPI THEN "put" ELSE "miss")
  /\ UNCHANGED <<world, edgeCache, config, reply, by>>

(* Cache-Control is max-age, or no-store when there are no seconds.        *)
PutEdge(q) ==
  /\ at[q] = "put"
  /\ edgeCache' = IF getCacheSeconds(config[q].cache) > 0 THEN NewEntry(q) ELSE edgeCache
  /\ Holds(q)
  /\ Goto(q, "miss")
  /\ UNCHANGED <<world, responseCache, config, reply, by>>

(* The Cache API or the logic throws.  A response that is in the server's  *)
(* cache already stays there.                                              *)
Fails(q) ==
  /\ at[q] \in {"match", "execute", "put"}
  /\ Goto(q, "error")
  /\ UNCHANGED <<world, caches, config, reply, by, lastHeld>>

-----------------------------------------------------------------------------
(* The server and its surroundings *)

Restart ==
  /\ responseCache' = None
  /\ at' = [q \in Requests |-> IF at[q] \in Under THEN "error" ELSE at[q]]
  /\ UNCHANGED <<world, edgeCache, config, reply, by, lastHeld>>

DropEdge ==
  /\ edgeCache' = None
  /\ UNCHANGED <<world, responseCache, at, config, reply, by, lastHeld>>

Tick ==
  /\ now < MaxNow
  /\ now' = now + 1
  /\ UNCHANGED <<data, cacheAPI, caches, at, config, reply, by, lastHeld>>

Write ==
  /\ data < MaxData
  /\ data' = data + 1
  /\ UNCHANGED <<now, cacheAPI, caches, at, config, reply, by, lastHeld>>

RequestStep(q) ==
  \/ HitResponse(q) \/ MissResponse(q)
  \/ HitEdge(q) \/ MissEdge(q)
  \/ executeLogic(q) \/ StoreResponse(q) \/ PutEdge(q)
  \/ Fails(q)

Next ==
  \/ \E q \in Requests :
       \/ \E c \in Configs : Arrive(q, c)
       \/ Refused(q)
       \/ RequestStep(q)
  \/ Restart \/ DropEdge \/ Tick \/ Write

Spec == Init /\ [][Next]_vars

-----------------------------------------------------------------------------
(* Properties *)

(* A cached response is served less than the longest cache setting after   *)
(* the last moment an execution that had read the same data was running,   *)
(* also when slow executions overwrite the entries of faster ones, through *)
(* both caches, restarts and changes of the setting.                       *)
HitsAgeOut ==
  [][\A q \in Requests : at[q] # "hit" /\ at'[q] = "hit" =>
       now < lastHeld[reply'[q]] + MaxTTL]_vars

(* A request is answered with what another one's execution returned only   *)
(* when the bundles of both are public: what a logic returned to a caller  *)
(* it had to authenticate goes to nobody else, also while uploads change   *)
(* the logic's access.                                                     *)
SharedRepliesArePublic ==
  \A q \in Requests : at[q] \in {"hit", "miss"} /\ by[q] # q =>
    config[q].access = "public" /\ config[by[q]].access = "public"
=============================================================================
