------------------------- MODULE ResponseCacheProofs -------------------------
(***************************************************************************)
(* Proofs about ResponseCache, for any number of requests and any settings *)
(* up to MaxTTL.                                                           *)
(*                                                                         *)
(* EntryInv says what an entry of either cache is: the response of a       *)
(* request that has arrived and whose bundle was public, with no more time *)
(* than a setting gives it since an execution held its data.  AnswerInv    *)
(* follows the entries into the answers.                                   *)
(***************************************************************************)
EXTENDS ResponseCache, TLAPS

LEMMA Seconds ==
  ASSUME NEW c \in Configs
  PROVE  getCacheSeconds(c.cache) \in 0 .. MaxTTL
BY CacheAssumption DEF getCacheSeconds

-----------------------------------------------------------------------------
(* Types *)

LEMMA NewEntryType ==
  ASSUME TypeOK, NEW q \in Requests, at[q] \in Under
  PROVE  NewEntry(q) \in Entry
<1>1. getCacheSeconds(config[q].cache) \in Nat
  BY Seconds, CacheAssumption DEF TypeOK
<1> QED BY <1>1 DEF NewEntry, Entry, TypeOK

LEMMA StepType == ASSUME TypeOK, NEW q \in Requests, RequestStep(q) PROVE TypeOK'
<1> USE DEF TypeOK, Goto, world, caches, Ended, Under
<1>1. CASE HitResponse(q)
  <2>1. responseCache \in Entry
    BY <1>1 DEF HitResponse, Fresh
  <2> QED BY <1>1, <2>1 DEF HitResponse, Answer, Entry
<1>2. CASE HitEdge(q)
  <2>1. edgeCache \in Entry
    BY <1>2 DEF HitEdge, Fresh
  <2> QED BY <1>2, <2>1 DEF HitEdge, Answer, Entry
<1>3. CASE MissResponse(q) \/ MissEdge(q) \/ Fails(q)
  BY <1>3 DEF MissResponse, MissEdge, Fails
<1>4. CASE executeLogic(q)
  BY <1>4 DEF executeLogic
<1>5. CASE StoreResponse(q)
  <2>1. NewEntry(q) \in Entry
    BY <1>5, NewEntryType DEF StoreResponse
  <2> QED BY <1>5, <2>1 DEF StoreResponse, Holds
<1>6. CASE PutEdge(q)
  <2>1. NewEntry(q) \in Entry
    BY <1>6, NewEntryType DEF PutEdge
  <2> QED BY <1>6, <2>1 DEF PutEdge, Holds
<1> QED BY <1>1, <1>2, <1>3, <1>4, <1>5, <1>6 DEF RequestStep

LEMMA TypeInductive == TypeOK /\ [Next]_vars => TypeOK'
<1> SUFFICES ASSUME TypeOK, [Next]_vars PROVE TypeOK'
  OBVIOUS
<1>1. ASSUME NEW q \in Requests, NEW c \in Configs, Arrive(q, c) PROVE TypeOK'
  BY <1>1 DEF Arrive, TypeOK, Goto, world, caches, Under, Ended
<1>2. ASSUME NEW q \in Requests, Refused(q) PROVE TypeOK'
  BY <1>2 DEF Refused, TypeOK, Goto, world, caches, Under, Ended
<1>3. CASE Restart \/ DropEdge
  BY <1>3 DEF Restart, DropEdge, TypeOK, world, caches, Under, Ended
<1>4. CASE Tick \/ Write
  BY <1>4, CacheAssumption DEF Tick, Write, TypeOK, caches
<1>5. CASE UNCHANGED vars
  BY <1>5 DEF vars, TypeOK
<1> QED BY <1>1, <1>2, <1>3, <1>4, <1>5, StepType DEF Next

(* The variables keep their types.                                         *)
THEOREM TypeCorrect == Spec => []TypeOK
<1>1. Init => TypeOK
  BY CacheAssumption DEF Init, TypeOK, Under, Ended
<1> QED BY <1>1, TypeInductive, PTL DEF Spec

-----------------------------------------------------------------------------
(* Entries and answers *)

HeldInv == \A v \in 0 .. MaxData : lastHeld[v] <= now

(* The request has arrived, and with a public bundle.                      *)
Public(q) == at[q] # "idle" /\ config[q].access = "public"

EntryOK(e) ==
  e # None => e.expiresAt <= lastHeld[e.value] + MaxTTL /\ Public(e.by)

EntryInv == EntryOK(responseCache) /\ EntryOK(edgeCache)

AnswerInv ==
  \A q \in Requests :
    /\ at[q] \in {"lookup", "match", "store", "put", "hit"} => Public(q)
    /\ at[q] = "hit" => Public(by[q])
    /\ at[q] # "hit" => by[q] = q

CacheInv == HeldInv /\ EntryInv /\ AnswerInv

(* A request that has arrived keeps its bundle.                            *)
LEMMA PublicStays ==
  ASSUME TypeOK, [Next]_vars, NEW q \in Requests, Public(q)
  PROVE  Public(q)'
BY DEF Next, RequestStep, Arrive, Refused, HitResponse, MissResponse, HitEdge, MissEdge,
   executeLogic, StoreResponse, PutEdge, Fails, Restart, DropEdge, Tick, Write, vars,
   Goto, Public, TypeOK, world, caches

LEMMA HeldStep ==
  ASSUME TypeOK, HeldInv, [Next]_vars
  PROVE  /\ HeldInv'
         /\ \A v \in 0 .. MaxData : lastHeld[v] <= lastHeld'[v]
<1>1. CASE UNCHANGED <<now, lastHeld>>
  BY <1>1, CacheAssumption DEF HeldInv, TypeOK
<1>2. CASE now' = now /\ \E v \in 0 .. MaxData : lastHeld' = [lastHeld EXCEPT ![v] = now]
  BY <1>2, CacheAssumption DEF HeldInv, TypeOK
<1>3. CASE Tick
  BY <1>3, CacheAssumption DEF Tick, HeldInv, TypeOK
<1>4. ASSUME NEW q \in Requests,
             executeLogic(q) \/ StoreResponse(q) \/ PutEdge(q)
      PROVE  now' = now /\ \E v \in 0 .. MaxData : lastHeld' = [lastHeld EXCEPT ![v] = now]
  BY <1>4 DEF executeLogic, StoreResponse, PutEdge, Holds, TypeOK, world
<1> QED BY <1>1, <1>2, <1>3, <1>4 DEF Next, RequestStep, Arrive, Refused, HitResponse,
     MissResponse, HitEdge, MissEdge, Fails, Restart, DropEdge, Write, vars, world

(* An entry that was there before a step is as good after it.              *)
LEMMA EntryStays ==
  ASSUME TypeOK, HeldInv, [Next]_vars, NEW e \in Entry \union {None}, EntryOK(e)
  PROVE  e # None => e.expiresAt <= lastHeld'[e.value] + MaxTTL /\ Public(e.by)'
<1> SUFFICES ASSUME e # None
             PROVE  e.expiresAt <= lastHeld'[e.value] + MaxTTL /\ Public(e.by)'
  OBVIOUS
<1>1. e.value \in 0 .. MaxData /\ e.by \in Requests /\ e.expiresAt \in Nat
  BY DEF Entry
<1>2. Public(e.by)'
  BY <1>1, PublicStays DEF EntryOK
<1>3. TypeOK' /\ lastHeld[e.value] <= lastHeld'[e.value]
  BY <1>1, HeldStep, TypeInductive
<1>4. lastHeld[e.value] \in Nat /\ lastHeld'[e.value] \in Nat /\ MaxTTL \in Nat
  BY <1>1, <1>3, CacheAssumption DEF TypeOK
<1> QED BY <1>1, <1>2, <1>3, <1>4 DEF EntryOK

(* What a request puts into a cache is an entry of the invariant.          *)
LEMMA NewEntryGood ==
  ASSUME TypeOK, HeldInv, AnswerInv, [Next]_vars, NEW q \in Requests,
         StoreResponse(q) \/ PutEdge(q)
  PROVE  LET e == NewEntry(q)
         IN  e.expiresAt <= lastHeld'[e.value] + MaxTTL /\ Public(e.by)'
<1>1. at[q] \in Under /\ Public(q)
  BY DEF StoreResponse, PutEdge, AnswerInv, Under
<1>2. getCacheSeconds(config[q].cache) \in 0 .. MaxTTL
  BY <1>1, Seconds DEF TypeOK
<1>3. lastHeld'[reply[q]] = now
  BY DEF StoreResponse, PutEdge, Holds, TypeOK
<1>4. Public(q)'
  BY <1>1, PublicStays
<1> QED BY <1>2, <1>3, <1>4, CacheAssumption DEF NewEntry, TypeOK

LEMMA EntryStep ==
  ASSUME TypeOK, CacheInv, [Next]_vars
  PROVE  EntryInv'
<1> USE DEF CacheInv
<1>1. EntryOK(responseCache) /\ EntryOK(edgeCache)
  BY DEF EntryInv
<1>2. responseCache \in Entry \union {None} /\ edgeCache \in Entry \union {None}
  BY DEF TypeOK
<1>3. responseCache' \in {responseCache, None} => EntryOK(responseCache)'
  <2>1. PICK e \in Entry \union {None} : e = responseCache
    BY <1>2
  <2>2. e # None => e.expiresAt <= lastHeld'[e.value] + MaxTTL /\ Public(e.by)'
    BY <1>1, <2>1, EntryStays
  <2> QED BY <2>1, <2>2 DEF EntryOK, Public
<1>4. edgeCache' \in {edgeCache, None} => EntryOK(edgeCache)'
  <2>1. PICK e \in Entry \union {None} : e = edgeCache
    BY <1>2
  <2>2. e # None => e.expiresAt <= lastHeld'[e.value] + MaxTTL /\ Public(e.by)'
    BY <1>1, <2>1, EntryStays
  <2> QED BY <2>1, <2>2 DEF EntryOK, Public
<1>5. ASSUME NEW q \in Requests, StoreResponse(q), responseCache' = NewEntry(q)
      PROVE  EntryOK(responseCache)'
  <2>1. PICK e : e = NewEntry(q)
    OBVIOUS
  <2>2. e.expiresAt <= lastHeld'[e.value] + MaxTTL /\ Public(e.by)'
    BY <1>5, <2>1, NewEntryGood DEF NewEntry, Public
  <2> QED BY <1>5, <2>1, <2>2 DEF EntryOK, Public
<1>6. ASSUME NEW q \in Requests, PutEdge(q), edgeCache' = NewEntry(q)
      PROVE  EntryOK(edgeCache)'
  <2>1. PICK e : e = NewEntry(q)
    OBVIOUS
  <2>2. e.expiresAt <= lastHeld'[e.value] + MaxTTL /\ Public(e.by)'
    BY <1>6, <2>1, NewEntryGood DEF NewEntry, Public
  <2> QED BY <1>6, <2>1, <2>2 DEF EntryOK, Public
<1>7. ASSUME NEW q \in Requests, StoreResponse(q) PROVE EntryInv'
  BY <1>3, <1>4, <1>5, <1>7 DEF EntryInv, StoreResponse
<1>8. ASSUME NEW q \in Requests, PutEdge(q) PROVE EntryInv'
  BY <1>3, <1>4, <1>6, <1>8 DEF EntryInv, PutEdge
<1>9. CASE responseCache' \in {responseCache, None} /\ edgeCache' \in {edgeCache, None}
  BY <1>3, <1>4, <1>9 DEF EntryInv
<1> QED BY <1>7, <1>8, <1>9 DEF Next, RequestStep, Arrive, Refused, HitResponse,
     MissResponse, HitEdge, MissEdge, executeLogic, Fails, Restart, DropEdge, Tick, Write,
     vars, caches

LEMMA AnswerStep ==
  ASSUME TypeOK, CacheInv, [Next]_vars, NEW p \in Requests
  PROVE  /\ at'[p] \in {"lookup", "match", "store", "put", "hit"} => Public(p)'
         /\ at'[p] = "hit" => Public(by[p])'
         /\ at'[p] # "hit" => by'[p] = p
<1> USE DEF CacheInv
<1>1. Public(p) => Public(p)'
  BY PublicStays
<1>2. PICK r \in Requests : r = by[p]
  BY DEF TypeOK
<1>3. CASE at'[p] = at[p] /\ by'[p] = by[p]
  <2>1. at[p] = "hit" => Public(r)'
    BY <1>2, PublicStays DEF AnswerInv
  <2> QED BY <1>1, <1>2, <1>3, <2>1 DEF AnswerInv, Public
<1>4. ASSUME NEW c \in Configs, Arrive(p, c)
      PROVE  /\ at'[p] \in {"lookup", "execute"} /\ by'[p] = p
             /\ at'[p] = "lookup" => Public(p)'
  BY <1>4 DEF Arrive, Goto, canCache, Public, TypeOK, AnswerInv
<1>5. ASSUME HitResponse(p) \/ HitEdge(p)
      PROVE  Public(p)' /\ at'[p] = "hit" /\ Public(by[p])'
  <2>1. Public(p)'
    BY <1>1, <1>5 DEF HitResponse, HitEdge, AnswerInv
  <2>2. at'[p] = "hit"
    BY <1>5 DEF HitResponse, HitEdge, Goto, TypeOK
  <2>3. PICK e \in Entry : EntryOK(e) /\ e # None /\ by'[p] = e.by
    BY <1>5 DEF HitResponse, HitEdge, Fresh, Answer, TypeOK, EntryInv
  <2>4. e.by \in Requests /\ Public(e.by)
    BY <2>3 DEF EntryOK, Entry
  <2>5. Public(e.by)'
    BY <2>4, PublicStays
  <2> QED BY <2>1, <2>2, <2>3, <2>5 DEF Public
<1>6. ASSUME MissResponse(p) \/ MissEdge(p) \/ StoreResponse(p) \/ PutEdge(p) \/ Fails(p)
               \/ Refused(p)
      PROVE  /\ at'[p] # "hit" /\ by'[p] = p
             /\ at'[p] \in {"match", "put"} => Public(p)'
  BY <1>1, <1>6 DEF MissResponse, MissEdge, StoreResponse, PutEdge, Fails, Refused, Goto,
     TypeOK, AnswerInv
<1>7. ASSUME executeLogic(p)
      PROVE  /\ at'[p] \in {"store", "miss"} /\ by'[p] = p
             /\ at'[p] = "store" => Public(p)'
  <2>1. /\ at'[p] = IF canCache(config[p]) THEN "store" ELSE "miss"
        /\ by'[p] = p /\ config' = config
    BY <1>7 DEF executeLogic, Goto, TypeOK
  <2> QED BY <2>1 DEF canCache, Public
<1>8. CASE Restart
  <2>1. at'[p] = at[p] \/ (at'[p] = "error" /\ at[p] # "hit")
    BY <1>8 DEF Restart, Under
  <2>2. by' = by
    BY <1>8 DEF Restart
  <2> QED BY <1>3, <2>1, <2>2 DEF AnswerInv
<1>9. ASSUME NEW q \in Requests \ {p},
             RequestStep(q) \/ Refused(q) \/ \E c \in Configs : Arrive(q, c)
      PROVE  at'[p] = at[p] /\ by'[p] = by[p]
  BY <1>9 DEF RequestStep, Refused, Arrive, HitResponse, MissResponse, HitEdge, MissEdge,
     executeLogic, StoreResponse, PutEdge, Fails, Goto, Answer, TypeOK
<1>10. CASE DropEdge \/ Tick \/ Write \/ UNCHANGED vars
  BY <1>3, <1>10 DEF DropEdge, Tick, Write, vars
<1>11. ASSUME RequestStep(p) \/ Refused(p)
       PROVE  \/ HitResponse(p) \/ HitEdge(p) \/ executeLogic(p)
              \/ MissResponse(p) \/ MissEdge(p) \/ StoreResponse(p) \/ PutEdge(p)
              \/ Fails(p) \/ Refused(p)
  BY <1>11 DEF RequestStep
<1>12. CASE RequestStep(p) \/ Refused(p)
  <2>1. CASE HitResponse(p) \/ HitEdge(p)
    BY <1>5, <2>1
  <2>2. CASE executeLogic(p)
    BY <1>7, <2>2
  <2>3. CASE ~(HitResponse(p) \/ HitEdge(p) \/ executeLogic(p))
    <3>1. /\ at'[p] # "hit" /\ by'[p] = p
          /\ at'[p] \in {"match", "put"} => Public(p)'
      BY <1>6, <1>11, <1>12, <2>3
    <3>2. at'[p] \notin {"lookup", "store"}
      BY <1>11, <1>12, <2>3 DEF MissResponse, MissEdge, StoreResponse, PutEdge, Fails,
         Refused, Goto, TypeOK
    <3> QED BY <3>1, <3>2
  <2> QED BY <2>1, <2>2, <2>3
<1>13. CASE \E c \in Configs : Arrive(p, c)
  BY <1>4, <1>13
<1> QED BY <1>3, <1>8, <1>9, <1>10, <1>12, <1>13 DEF Next

LEMMA CacheInductive == TypeOK /\ CacheInv /\ [Next]_vars => CacheInv'
<1> SUFFICES ASSUME TypeOK, CacheInv, [Next]_vars PROVE CacheInv'
  OBVIOUS
<1>1. HeldInv'
  BY HeldStep DEF CacheInv
<1>2. AnswerInv'
  BY AnswerStep DEF AnswerInv
<1> QED BY <1>1, <1>2, EntryStep DEF CacheInv

THEOREM CacheInvariant == Spec => [](TypeOK /\ CacheInv)
<1>1. Init => CacheInv
  BY DEF Init, CacheInv, HeldInv, EntryInv, EntryOK, AnswerInv, Public
<1> QED BY <1>1, CacheInductive, TypeCorrect, PTL DEF Spec

(* A reply made for another request comes from a public logic and goes to  *)
(* a caller of a public one.                                               *)
THEOREM SharedArePublic == Spec => []SharedRepliesArePublic
<1>1. CacheInv => SharedRepliesArePublic
  BY DEF CacheInv, AnswerInv, SharedRepliesArePublic, Public
<1> QED BY <1>1, CacheInvariant, PTL

LEMMA HitStep ==
  ASSUME TypeOK, CacheInv, [Next]_vars, NEW p \in Requests, at[p] # "hit", at'[p] = "hit"
  PROVE  now < lastHeld[reply'[p]] + MaxTTL
<1>1. HitResponse(p) \/ HitEdge(p)
  BY DEF Next, RequestStep, Refused, Arrive, MissResponse, MissEdge, HitResponse, HitEdge,
     executeLogic, StoreResponse, PutEdge, Fails, Goto, TypeOK, Restart, DropEdge, Tick,
     Write, vars
<1>2. PICK e \in Entry : EntryOK(e) /\ e # None /\ now < e.expiresAt /\ reply'[p] = e.value
  BY <1>1 DEF HitResponse, HitEdge, Fresh, Answer, TypeOK, EntryInv, CacheInv
<1>3. e.value \in 0 .. MaxData /\ e.expiresAt \in Nat /\ lastHeld[e.value] \in Nat
  BY DEF Entry, TypeOK
<1>4. e.expiresAt <= lastHeld[e.value] + MaxTTL
  BY <1>2 DEF EntryOK
<1> QED BY <1>2, <1>3, <1>4, CacheAssumption DEF TypeOK

(* Cached data is served less than MaxTTL after a running execution last   *)
(* held it.                                                                *)
THEOREM HitsAge == Spec => HitsAgeOut
<1>1. TypeOK /\ CacheInv /\ [Next]_vars =>
        [\A q \in Requests : at[q] # "hit" /\ at'[q] = "hit" =>
           now < lastHeld[reply'[q]] + MaxTTL]_vars
  BY HitStep
<1> QED BY <1>1, CacheInvariant, PTL DEF Spec, HitsAgeOut
=============================================================================
