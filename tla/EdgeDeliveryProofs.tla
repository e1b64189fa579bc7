------------------------- MODULE EdgeDeliveryProofs -------------------------
(***************************************************************************)
(* Proofs about ManifestRegistry and EdgeDelivery, for any numbers of      *)
(* uploads, bundles, servers and requests, any clock and any failures:     *)
(* first the registry on its own, then the requests that load from the     *)
(* Edge KV beside it, and that both together implement EdgePromise.        *)
(***************************************************************************)
EXTENDS EdgeDelivery, TLAPS

-----------------------------------------------------------------------------
(* Type correctness *)

LEMMA RegistryTypeInit == RegistryInit => RegistryTypeOK
BY ClockAssumption
   DEF RegistryInit, RegistryTypeOK, KVInit, KVTypeOK, Entry, PushState, Active

LEMMA VersionIsNat == ASSUME now \in 0 .. MaxNow PROVE generateVersion \in Nat
BY ClockAssumption DEF generateVersion

LEMMA RegistryTypeStep ==
  RegistryTypeOK /\ [RegistryNext]_registryVars => RegistryTypeOK'
<1> SUFFICES ASSUME RegistryTypeOK, [RegistryNext]_registryVars
             PROVE  RegistryTypeOK'
  OBVIOUS
<1> USE ClockAssumption
    DEF RegistryTypeOK, KVTypeOK, Entry, PushState, Active, kvVars
<1>1. CASE Tick
  BY <1>1 DEF Tick
<1>2. ASSUME NEW p \in Pushes, NEW bs \in SUBSET Bundles, BeginPush(p, bs)
      PROVE  RegistryTypeOK'
  <2>1. clean' \in [Pushes -> BOOLEAN]
    BY <1>2, Zenon DEF BeginPush
  <2>2. version' \in [Pushes -> Nat] /\ createdAt' \in [Pushes -> Nat]
    BY <1>2, VersionIsNat DEF BeginPush
  <2> QED
    BY <1>2, <2>1, <2>2 DEF BeginPush
<1>3. ASSUME NEW p \in Pushes, Save(p) PROVE RegistryTypeOK'
  BY <1>3 DEF Save
<1>4. ASSUME NEW p \in Pushes, SaveFails(p) PROVE RegistryTypeOK'
  BY <1>4 DEF SaveFails
<1>5. ASSUME NEW p \in Pushes, PropagateLatest(p) PROVE RegistryTypeOK'
  BY <1>5 DEF PropagateLatest, SetLatest
<1>6. ASSUME NEW p \in Pushes, NEW b \in Bundles, PropagateBundle(p, b)
      PROVE  RegistryTypeOK'
  BY <1>6 DEF PropagateBundle, SetBundle
<1>7. ASSUME NEW p \in Pushes, PropagateFails(p) PROVE RegistryTypeOK'
  BY <1>7 DEF PropagateFails
<1>8. ASSUME NEW p \in Pushes, ReturnManifest(p) PROVE RegistryTypeOK'
  BY <1>8 DEF ReturnManifest
<1>9. CASE HubCrash
  BY <1>9 DEF HubCrash, InFlight
<1>10. CASE UNCHANGED registryVars
  BY <1>10 DEF registryVars
<1> QED
  BY <1>1, <1>2, <1>3, <1>4, <1>5, <1>6, <1>7, <1>8, <1>9, <1>10
     DEF RegistryNext, PushStep

(* The registry's variables keep their types.                              *)
THEOREM RegistryTypeCorrect == RegistrySpec => []RegistryTypeOK
BY RegistryTypeInit, RegistryTypeStep, PTL DEF RegistrySpec

(* Every step of an upload takes it nearer to its end: it reaches a later  *)
(* place, or has one key less to set.  No step of anybody else takes it    *)
(* back, so an upload of n bundles makes at most n + 3 of them.            *)
PushRank(place) ==
  CASE place = "stamped" -> 1
    [] place = "latest" -> 2
    [] place = "bundles" -> 3
    [] OTHER -> 4
Nearer(p) ==
  \/ PushRank(pc'[p]) > PushRank(pc[p])
  \/ pc'[p] = pc[p] /\ \E b \in todo[p] : todo'[p] = todo[p] \ {b}
PushesMoveOn ==
  \A p \in Pushes : pc[p] \in Active =>
    /\ PushStep(p) => Nearer(p)
    /\ Nearer(p) \/ UNCHANGED <<pc[p], todo[p]>>

(* No upload goes on for ever.                                             *)
THEOREM UploadsMoveOn == RegistrySpec => [][PushesMoveOn]_registryVars
<1>1. RegistryTypeOK /\ [RegistryNext]_registryVars => [PushesMoveOn]_registryVars
  <2> SUFFICES ASSUME RegistryTypeOK, RegistryNext, NEW p \in Pushes, pc[p] \in Active
               PROVE  /\ PushStep(p) => Nearer(p)
                      /\ Nearer(p) \/ UNCHANGED <<pc[p], todo[p]>>
    BY DEF PushesMoveOn
  <2> USE DEF RegistryTypeOK, Active
  <2>1. PushStep(p) => Nearer(p)
    <3>1. Save(p) \/ SaveFails(p) \/ PropagateLatest(p) \/ ReturnManifest(p) =>
            PushRank(pc'[p]) > PushRank(pc[p])
      BY DEF Save, SaveFails, PropagateLatest, ReturnManifest, PushRank
    <3>2. ASSUME NEW b \in Bundles, PropagateBundle(p, b) PROVE Nearer(p)
      BY <3>2 DEF PropagateBundle, Nearer
    <3>3. PropagateFails(p) => Nearer(p)
      <4>1. ASSUME pc[p] = "latest", pc' = [pc EXCEPT ![p] = "bundles"] PROVE Nearer(p)
        BY <4>1 DEF Nearer, PushRank
      <4>2. ASSUME NEW b \in todo[p], todo' = [todo EXCEPT ![p] = @ \ {b}], UNCHANGED pc
            PROVE  Nearer(p)
        BY <4>2 DEF Nearer
      <4> QED
        BY <4>1, <4>2 DEF PropagateFails
    <3> QED
      BY <3>1, <3>2, <3>3 DEF PushStep, Nearer
  <2>2. CASE Tick
    BY <2>1, <2>2 DEF Tick
  <2>3. CASE HubCrash
    <3>1. pc'[p] = "killed"
      BY <2>3 DEF HubCrash, InFlight
    <3> QED
      BY <2>1, <3>1 DEF Nearer, PushRank
  <2>4. ASSUME NEW q \in Pushes, NEW bs, BeginPush(q, bs)
        PROVE  UNCHANGED <<pc[p], todo[p]>>
    BY <2>4 DEF BeginPush
  <2>5. ASSUME NEW q \in Pushes \ {p}, PushStep(q)
        PROVE  UNCHANGED <<pc[p], todo[p]>>
    BY <2>5 DEF PushStep, Save, SaveFails, PropagateLatest, PropagateBundle,
       PropagateFails, ReturnManifest
  <2> QED
    BY <2>1, <2>2, <2>3, <2>4, <2>5 DEF RegistryNext
<1> QED
  BY <1>1, RegistryTypeCorrect, PTL DEF RegistrySpec

-----------------------------------------------------------------------------
(* The Edge KV and the table *)

(* What makes KVHoldsSavedManifests inductive: a row is stored before any  *)
(* key is set, its manifest does not change any more, and the loop only    *)
(* goes over the manifest's own bundles.                                   *)
KVInv ==
  /\ \A p \in rows : pc[p] \notin {"idle", "stamped"}
  /\ \A p \in Pushes : pc[p] \in {"latest", "bundles", "returned"} => p \in rows
  /\ \A p \in Pushes : pc[p] \in {"latest", "bundles"} => todo[p] \subseteq content[p]
  /\ KVHoldsSavedManifests
  /\ RefusedPushIsInvisible
  /\ \A p \in Pushes : pc[p] \in {"idle", "stamped"} =>
       kvLatest # p /\ \A b \in Bundles : kvBundle[b] # p

LEMMA KVInvInit == RegistryInit => KVInv
BY NoneAssumption DEF RegistryInit, KVInv, KVInit, KVHoldsSavedManifests, RefusedPushIsInvisible

LEMMA KVInvStep ==
  RegistryTypeOK /\ KVInv /\ [RegistryNext]_registryVars => KVInv'
<1> SUFFICES ASSUME RegistryTypeOK, KVInv, [RegistryNext]_registryVars
             PROVE  KVInv'
  OBVIOUS
<1> USE NoneAssumption
    DEF RegistryTypeOK, KVTypeOK, Entry, kvVars, KVInv,
        KVHoldsSavedManifests, RefusedPushIsInvisible
<1>1. CASE Tick
  BY <1>1 DEF Tick
<1>2. ASSUME NEW p \in Pushes, NEW bs \in SUBSET Bundles, BeginPush(p, bs)
      PROVE  KVInv'
  BY <1>2 DEF BeginPush
<1>3. ASSUME NEW p \in Pushes, Save(p) PROVE KVInv'
  BY <1>3 DEF Save
<1>4. ASSUME NEW p \in Pushes, SaveFails(p) PROVE KVInv'
  BY <1>4 DEF SaveFails
<1>5. ASSUME NEW p \in Pushes, PropagateLatest(p) PROVE KVInv'
  BY <1>5 DEF PropagateLatest, SetLatest
<1>6. ASSUME NEW p \in Pushes, NEW b \in Bundles, PropagateBundle(p, b)
      PROVE  KVInv'
  BY <1>6 DEF PropagateBundle, SetBundle
<1>7. ASSUME NEW p \in Pushes, PropagateFails(p) PROVE KVInv'
  BY <1>7 DEF PropagateFails
<1>8. ASSUME NEW p \in Pushes, ReturnManifest(p) PROVE KVInv'
  BY <1>8 DEF ReturnManifest
<1>9. CASE HubCrash
  BY <1>9 DEF HubCrash, InFlight, Active
<1>10. CASE UNCHANGED registryVars
  BY <1>10 DEF registryVars
<1> QED
  BY <1>1, <1>2, <1>3, <1>4, <1>5, <1>6, <1>7, <1>8, <1>9, <1>10
     DEF RegistryNext, PushStep

LEMMA KVInvariant == RegistrySpec => [](RegistryTypeOK /\ KVInv)
<1>1. RegistryInit => RegistryTypeOK /\ KVInv
  BY RegistryTypeInit, KVInvInit
<1>2. RegistryTypeOK /\ KVInv /\ [RegistryNext]_registryVars
        => (RegistryTypeOK /\ KVInv)'
  BY RegistryTypeStep, KVInvStep
<1> QED
  BY <1>1, <1>2, PTL DEF RegistrySpec

(* Every entry of the Edge KV comes from a stored row.                     *)
THEOREM KVHoldsSaved == RegistrySpec => []KVHoldsSavedManifests
<1>1. RegistryTypeOK /\ KVInv => KVHoldsSavedManifests
  BY DEF KVInv
<1> QED
  BY <1>1, KVInvariant, PTL

(* A refused upload leaves no trace in the Edge KV.                        *)
THEOREM RefusedInvisible == RegistrySpec => []RefusedPushIsInvisible
<1>1. RegistryTypeOK /\ KVInv => RefusedPushIsInvisible
  BY DEF KVInv
<1> QED
  BY <1>1, KVInvariant, PTL
-----------------------------------------------------------------------------
(* The last upload to start, when it ran alone and lost no Set *)

(* Versions are the seconds of the creation times, no two rows share one,  *)
(* and nothing was created after the upload that started last.             *)
ClockInv ==
  /\ \A p \in Pushes : version[p] = createdAt[p] \div SecondLength
  /\ \A p \in Pushes : createdAt[p] <= now
  /\ \A p, q \in rows : version[p] = version[q] => p = q
  /\ \A p \in Pushes : pc[p] # "idle" =>
       newest \in Pushes /\ createdAt[p] <= createdAt[newest]
  /\ newest # None => pc[newest] # "idle"

(* While the newest upload is clean nobody else is in flight, so the keys  *)
(* it has set stay as it set them.                                         *)
CleanInv ==
  \A p \in Pushes : p = newest /\ clean[p] =>
    /\ \A q \in Pushes : q # p => pc[q] \notin Active
    /\ pc[p] = "latest" => todo[p] = content[p]
    /\ pc[p] \in {"bundles", "returned"} =>
         /\ kvLatest = p
         /\ \A b \in content[p] : b \notin todo[p] => kvBundle[b] = p
    /\ pc[p] = "returned" => todo[p] = {}

LEMMA ClockInvInit == RegistryInit => ClockInv
<1> SUFFICES ASSUME RegistryInit PROVE ClockInv
  OBVIOUS
<1>1. 0 \div SecondLength = 0
  BY ClockAssumption
<1> QED
  BY <1>1, NoneAssumption DEF RegistryInit, ClockInv, KVInit

LEMMA ClockInvStep ==
  RegistryTypeOK /\ KVInv /\ ClockInv /\ [RegistryNext]_registryVars => ClockInv'
<1> SUFFICES ASSUME RegistryTypeOK, KVInv, ClockInv, [RegistryNext]_registryVars
             PROVE  ClockInv'
  OBVIOUS
<1> USE NoneAssumption DEF ClockInv
<1>1. CASE Tick
  BY <1>1, ClockAssumption DEF Tick, RegistryTypeOK
<1>2. ASSUME NEW p \in Pushes, NEW bs \in SUBSET Bundles, BeginPush(p, bs)
      PROVE  ClockInv'
  <2>1. /\ version' = [version EXCEPT ![p] = now \div SecondLength]
        /\ createdAt' = [createdAt EXCEPT ![p] = now]
        /\ pc' = [pc EXCEPT ![p] = "stamped"]
        /\ newest' = p /\ rows' = rows /\ now' = now /\ p \notin rows
    BY <1>2 DEF BeginPush, generateVersion, KVInv
  <2>2. \A q \in Pushes : q # p => version'[q] = version[q] /\ createdAt'[q] = createdAt[q]
    BY <2>1 DEF RegistryTypeOK
  <2>3. version'[p] = now \div SecondLength /\ createdAt'[p] = now /\ pc'[p] = "stamped"
    BY <2>1 DEF RegistryTypeOK
  <2>4. \A q \in Pushes : createdAt'[q] <= now
    BY <2>2, <2>3, ClockAssumption DEF RegistryTypeOK
  <2>5. \A q, r \in rows : version'[q] = version'[r] => q = r
    BY <2>1, <2>2 DEF RegistryTypeOK
  <2> QED
    BY <2>1, <2>2, <2>3, <2>4, <2>5
<1>3. ASSUME NEW p \in Pushes, Save(p) PROVE ClockInv'
  BY <1>3 DEF Save, VersionTaken, RegistryTypeOK
<1>4. ASSUME NEW p \in Pushes, SaveFails(p) PROVE ClockInv'
  BY <1>4 DEF SaveFails, VersionTaken, RegistryTypeOK
<1>5. ASSUME NEW p \in Pushes, PropagateLatest(p) PROVE ClockInv'
  BY <1>5 DEF PropagateLatest, RegistryTypeOK
<1>6. ASSUME NEW p \in Pushes, NEW b \in Bundles, PropagateBundle(p, b)
      PROVE  ClockInv'
  BY <1>6 DEF PropagateBundle
<1>7. ASSUME NEW p \in Pushes, PropagateFails(p) PROVE ClockInv'
  BY <1>7 DEF PropagateFails, RegistryTypeOK
<1>8. ASSUME NEW p \in Pushes, ReturnManifest(p) PROVE ClockInv'
  BY <1>8 DEF ReturnManifest, RegistryTypeOK
<1>9. CASE HubCrash
  BY <1>9 DEF HubCrash, InFlight, Active, RegistryTypeOK, Entry
<1>10. CASE UNCHANGED registryVars
  BY <1>10 DEF registryVars
<1> QED
  BY <1>1, <1>2, <1>3, <1>4, <1>5, <1>6, <1>7, <1>8, <1>9, <1>10
     DEF RegistryNext, PushStep

LEMMA CleanInvInit == RegistryInit => CleanInv
BY NoneAssumption DEF RegistryInit, CleanInv

LEMMA CleanInvStep ==
  RegistryTypeOK /\ KVInv /\ CleanInv /\ [RegistryNext]_registryVars => CleanInv'
<1> SUFFICES ASSUME RegistryTypeOK, KVInv, CleanInv, [RegistryNext]_registryVars
             PROVE  CleanInv'
  OBVIOUS
<1> USE NoneAssumption DEF CleanInv, Active, kvVars
<1>1. CASE Tick
  BY <1>1 DEF Tick
<1>2. ASSUME NEW p \in Pushes, NEW bs \in SUBSET Bundles, BeginPush(p, bs)
      PROVE  CleanInv'
  <2>1. newest' = p /\ pc'[p] = "stamped"
    BY <1>2 DEF BeginPush, RegistryTypeOK
  <2>2. clean'[p] => \A q \in Pushes : pc[q] \notin Active
    BY <1>2 DEF BeginPush, InFlight, RegistryTypeOK
  <2>3. \A q \in Pushes : q # p => pc'[q] = pc[q]
    BY <1>2 DEF BeginPush, RegistryTypeOK
  <2> QED
    BY <2>1, <2>2, <2>3
<1>3. ASSUME NEW p \in Pushes, Save(p) PROVE CleanInv'
  BY <1>3 DEF Save, RegistryTypeOK
<1>4. ASSUME NEW p \in Pushes, SaveFails(p) PROVE CleanInv'
  BY <1>4 DEF SaveFails, RegistryTypeOK
<1>5. ASSUME NEW p \in Pushes, PropagateLatest(p) PROVE CleanInv'
  BY <1>5 DEF PropagateLatest, SetLatest, RegistryTypeOK, KVTypeOK
<1>6. ASSUME NEW p \in Pushes, NEW b \in Bundles, PropagateBundle(p, b)
      PROVE  CleanInv'
  BY <1>6 DEF PropagateBundle, SetBundle, RegistryTypeOK, KVTypeOK
<1>7. ASSUME NEW p \in Pushes, PropagateFails(p) PROVE CleanInv'
  BY <1>7 DEF PropagateFails, RegistryTypeOK
<1>8. ASSUME NEW p \in Pushes, ReturnManifest(p) PROVE CleanInv'
  BY <1>8 DEF ReturnManifest, RegistryTypeOK
<1>9. CASE HubCrash
  <2>1. \A p \in Pushes : clean'[p] => clean[p] /\ pc[p] \notin Active
    BY <1>9 DEF HubCrash, InFlight
  <2>2. \A p \in Pushes : pc'[p] = IF pc[p] \in Active THEN "killed" ELSE pc[p]
    BY <1>9 DEF HubCrash, InFlight
  <2>3. /\ newest' = newest /\ kvLatest' = kvLatest /\ kvBundle' = kvBundle
        /\ todo' = todo /\ content' = content
    BY <1>9 DEF HubCrash
  <2> QED
    BY <2>1, <2>2, <2>3
<1>10. CASE UNCHANGED registryVars
  BY <1>10 DEF registryVars
<1> QED
  BY <1>1, <1>2, <1>3, <1>4, <1>5, <1>6, <1>7, <1>8, <1>9, <1>10
     DEF RegistryNext, PushStep

(* The inductive invariant of the registry.                                *)
RegistryInv == RegistryTypeOK /\ KVInv /\ ClockInv /\ CleanInv

LEMMA RegistryInvInit == RegistryInit => RegistryInv
BY RegistryTypeInit, KVInvInit, ClockInvInit, CleanInvInit DEF RegistryInv

LEMMA RegistryInvStep == RegistryInv /\ [RegistryNext]_registryVars => RegistryInv'
BY RegistryTypeStep, KVInvStep, ClockInvStep, CleanInvStep DEF RegistryInv

LEMMA RegistryInvGivesCleanPushWins == RegistryInv => CleanPushWins
<1> SUFFICES ASSUME RegistryInv,
                    NEW p \in Pushes, p = newest, clean[p], pc[p] = "returned"
             PROVE  /\ kvLatest = p
                    /\ \A b \in content[p] : kvBundle[b] = p
                    /\ NewestRows = {p}
  BY DEF CleanPushWins
<1>1. kvLatest = p /\ \A b \in content[p] : kvBundle[b] = p
  BY DEF RegistryInv, CleanInv
<1>2. p \in rows
  BY DEF RegistryInv, KVInv
<1>3. ASSUME NEW q \in rows PROVE createdAt[q] <= createdAt[p]
  BY <1>3 DEF RegistryInv, KVInv, ClockInv, RegistryTypeOK
<1>4. ASSUME NEW q \in rows, createdAt[p] <= createdAt[q] PROVE q = p
  <2>1. createdAt[q] = createdAt[p]
    BY <1>3, <1>4, <1>2 DEF RegistryInv, RegistryTypeOK
  <2>2. version[q] = version[p]
    BY <2>1, <1>2 DEF RegistryInv, ClockInv, RegistryTypeOK
  <2> QED
    BY <2>2, <1>2 DEF RegistryInv, ClockInv
<1>5. NewestRows = {p}
  BY <1>2, <1>3, <1>4 DEF NewestRows
<1> QED
  BY <1>1, <1>5

(* The last upload, if it was clean, is what the Edge KV and the registry  *)
(* both show as the newest.                                                *)
THEOREM CleanPushIsNewest == RegistrySpec => []CleanPushWins
BY RegistryInvInit, RegistryInvStep, RegistryInvGivesCleanPushWins, PTL DEF RegistrySpec

-----------------------------------------------------------------------------
(* What GetLatest returns *)

(* A step leaves the rows alone or adds one, with a creation time of its   *)
(* own.                                                                    *)
LEMMA RowsStep ==
  ASSUME RegistryInv, [RegistryNext]_registryVars
  PROVE  \/ rows' = rows /\ \A q \in rows : createdAt'[q] = createdAt[q]
         \/ \E p \in Pushes :
              /\ PushStep(p) /\ rows' = rows \union {p} /\ createdAt' = createdAt
              /\ \A q \in rows : createdAt[q] # createdAt[p]
<1> USE DEF RegistryInv, RegistryTypeOK
<1>1. ASSUME NEW p \in Pushes, PushStep(p), rows' # rows
      PROVE  /\ rows' = rows \union {p} /\ createdAt' = createdAt
             /\ \A q \in rows : createdAt[q] # createdAt[p]
  <2>1. rows' = rows \union {p} /\ createdAt' = createdAt /\ ~VersionTaken(p)
    BY <1>1 DEF PushStep, Save, SaveFails, PropagateLatest, PropagateBundle,
       PropagateFails, ReturnManifest
  <2>2. \A q \in rows : createdAt[q] # createdAt[p]
    BY <2>1 DEF VersionTaken, ClockInv
  <2> QED
    BY <2>1, <2>2
<1>2. ASSUME NEW p \in Pushes, PushStep(p) PROVE createdAt' = createdAt
  BY <1>2 DEF PushStep, Save, SaveFails, PropagateLatest, PropagateBundle,
     PropagateFails, ReturnManifest
<1>3. ASSUME NEW p \in Pushes, NEW bs, BeginPush(p, bs)
      PROVE  rows' = rows /\ \A q \in rows : createdAt'[q] = createdAt[q]
  BY <1>3 DEF BeginPush, KVInv
<1>4. CASE Tick \/ HubCrash \/ UNCHANGED registryVars
  BY <1>4 DEF Tick, HubCrash, registryVars
<1> QED
  BY <1>1, <1>2, <1>3, <1>4 DEF RegistryNext

(* One row is the newest, though created_at is a time: two rows never have *)
(* the same one.                                                           *)
LatestIsOne == rows # {} => \E p \in rows : NewestRows = {p}

(* Only a new row changes what GetLatest returns, to this row, and this    *)
(* upload started after all that were stored: a reader of the Hub never    *)
(* gets an older manifest than before, as one of the Edge KV may.          *)
LatestMovesOn ==
  NewestRows' # NewestRows =>
    \E p \in Pushes :
      /\ PushStep(p) /\ rows' = rows \union {p} /\ NewestRows' = {p}
      /\ \A q \in rows : createdAt[q] < createdAt[p]

LEMMA LatestStep ==
  ASSUME RegistryInv, LatestIsOne, [RegistryNext]_registryVars
  PROVE  LatestIsOne' /\ LatestMovesOn
<1> USE DEF RegistryInv, RegistryTypeOK
<1>1. CASE rows' = rows /\ \A q \in rows : createdAt'[q] = createdAt[q]
  <2>1. NewestRows' = NewestRows
    BY <1>1 DEF NewestRows
  <2> QED
    BY <1>1, <2>1 DEF LatestIsOne, LatestMovesOn
<1>2. ASSUME NEW p \in Pushes, PushStep(p), rows' = rows \union {p},
             createdAt' = createdAt, \A q \in rows : createdAt[q] # createdAt[p]
      PROVE  LatestIsOne' /\ LatestMovesOn
  <2>1. CASE \A q \in rows : createdAt[q] < createdAt[p]
    <3>1. NewestRows' = {p}
      BY <1>2, <2>1 DEF NewestRows
    <3> QED
      BY <1>2, <2>1, <3>1 DEF LatestIsOne, LatestMovesOn
  <2>2. CASE \E q \in rows : ~(createdAt[q] < createdAt[p])
    <3>1. PICK m \in rows : NewestRows = {m}
      BY <2>2 DEF LatestIsOne
    <3>2. \A q \in rows : createdAt[q] <= createdAt[m]
      BY <3>1 DEF NewestRows
    <3>3. createdAt[p] < createdAt[m]
      <4>1. PICK q \in rows : ~(createdAt[q] < createdAt[p])
        BY <2>2
      <4> QED
        BY <1>2, <3>2, <4>1
    <3>4. NewestRows' = NewestRows
      BY <1>2, <3>2, <3>3 DEF NewestRows
    <3> QED
      BY <1>2, <3>1, <3>4 DEF LatestIsOne, LatestMovesOn
  <2> QED
    BY <2>1, <2>2
<1> QED
  BY <1>1, <1>2, RowsStep

(* GetLatest has one answer at a time, and goes from older to newer ones.  *)
THEOREM LatestNeverGoesBack ==
  RegistrySpec => []LatestIsOne /\ [][LatestMovesOn]_registryVars
<1>1. RegistryInit => LatestIsOne
  BY DEF RegistryInit, LatestIsOne
<1>2. RegistryInv /\ LatestIsOne /\ [RegistryNext]_registryVars => LatestIsOne'
  BY LatestStep
<1>3. RegistryInv /\ LatestIsOne /\ [RegistryNext]_registryVars =>
        [LatestMovesOn]_registryVars
  BY LatestStep
<1> QED
  BY <1>1, <1>2, <1>3, RegistryInvInit, RegistryInvStep, PTL DEF RegistrySpec

-----------------------------------------------------------------------------
(* What a step of the registry leaves true for the readers of the Edge KV: *)
(* rows stay, with their contents; a key that is set stays set; and the    *)
(* newest upload, once it has returned clean, stays so until another one   *)
(* starts.                                                                 *)
LEMMA RegistryStepKeeps ==
  ASSUME RegistryTypeOK, KVInv, [RegistryNext]_registryVars
  PROVE  /\ rows \subseteq rows'
         /\ \A p \in rows : content'[p] = content[p]
         /\ \A b \in Bundles : kvBundle[b] # None => kvBundle'[b] # None
         /\ \A p \in Pushes : pc[p] = "returned" =>
              /\ pc'[p] = "returned"
              /\ content'[p] = content[p]
              /\ clean[p] => (newest' = newest => clean'[p])
<1> DEFINE Kept ==
      /\ rows \subseteq rows'
      /\ \A p \in rows : content'[p] = content[p]
      /\ \A b \in Bundles : kvBundle[b] # None => kvBundle'[b] # None
      /\ \A p \in Pushes : pc[p] = "returned" =>
           /\ pc'[p] = "returned"
           /\ content'[p] = content[p]
           /\ clean[p] => (newest' = newest => clean'[p])
<1> USE NoneAssumption DEF RegistryTypeOK, KVTypeOK, kvVars, Active
<1>1. CASE Tick
  BY <1>1 DEF Tick
<1>2. ASSUME NEW p \in Pushes, NEW bs \in SUBSET Bundles, BeginPush(p, bs)
      PROVE  Kept
  <2>1. p \notin rows /\ pc[p] = "idle"
    BY <1>2 DEF BeginPush, KVInv
  <2>2. ASSUME NEW q \in Pushes, pc[q] = "returned", clean[q] PROVE clean'[q]
    BY <1>2, <2>1, <2>2 DEF BeginPush, InFlight
  <2>3. /\ rows' = rows /\ kvBundle' = kvBundle
        /\ \A q \in Pushes : q # p => content'[q] = content[q] /\ pc'[q] = pc[q]
    BY <1>2 DEF BeginPush
  <2> QED
    BY <2>1, <2>2, <2>3
<1>3. ASSUME NEW p \in Pushes, Save(p) PROVE Kept
  BY <1>3 DEF Save
<1>4. ASSUME NEW p \in Pushes, SaveFails(p) PROVE Kept
  BY <1>4 DEF SaveFails
<1>5. ASSUME NEW p \in Pushes, PropagateLatest(p) PROVE Kept
  BY <1>5 DEF PropagateLatest, SetLatest
<1>6. ASSUME NEW p \in Pushes, NEW b \in Bundles, PropagateBundle(p, b)
      PROVE  Kept
  BY <1>6 DEF PropagateBundle, SetBundle
<1>7. ASSUME NEW p \in Pushes, PropagateFails(p) PROVE Kept
  BY <1>7 DEF PropagateFails
<1>8. ASSUME NEW p \in Pushes, ReturnManifest(p) PROVE Kept
  BY <1>8 DEF ReturnManifest
<1>9. CASE HubCrash
  <2>1. \A p \in Pushes : pc[p] = "returned" => p \notin InFlight
    BY DEF InFlight
  <2>2. \A p \in Pushes : pc[p] = "returned" /\ clean[p] => clean'[p]
    BY <1>9, <2>1 DEF HubCrash
  <2>3. \A p \in Pushes : pc[p] = "returned" => pc'[p] = "returned"
    BY <1>9, <2>1 DEF HubCrash
  <2> QED
    BY <1>9, <2>2, <2>3 DEF HubCrash
<1>10. CASE UNCHANGED registryVars
  BY <1>10 DEF registryVars
<1> QED
  BY <1>1, <1>2, <1>3, <1>4, <1>5, <1>6, <1>7, <1>8, <1>9, <1>10
     DEF RegistryNext, PushStep

(* The Bridge's steps leave the registry alone.                            *)
LEMMA StepOfRegistry ==
  ASSUME [Next]_deliveryVars PROVE [RegistryNext]_registryVars
BY DEF Next, deliveryVars, registryVars, RequestArrives, RequestMoves, ServerRestarts,
       RegistryMoves, registryOnly, kvVars

-----------------------------------------------------------------------------
(* Type correctness *)

LEMMA TypeInit == Init => TypeOK
BY RegistryTypeInit, SlotAssumption
   DEF Init, TypeOK, BridgeInit, BridgeTypeOK, EmptyCache, Entry, Place, Loading, Ended

LEMMA ForgetType ==
  ASSUME TypeOK, NEW gone, Forget(gone)
  PROVE  sure' \in [Requests -> BOOLEAN] /\ expect' \in [Requests -> Entry]
<1>1. sure' \in [Requests -> BOOLEAN]
  BY Zenon DEF Forget
<1>2. expect' \in [Requests -> Entry]
  BY DEF Forget, TypeOK, Entry
<1> QED
  BY <1>1, <1>2

LEMMA RequestStepType ==
  ASSUME TypeOK, NEW r \in Requests, RequestStep(r)
  PROVE  BridgeTypeOK'
<1> USE SlotAssumption
    DEF TypeOK, RegistryTypeOK, KVTypeOK, BridgeTypeOK, Entry, Place, Loading, Ended, Goto
<1>1. CASE ReadBundleKey(r)
  BY <1>1 DEF ReadBundleKey
<1>2. CASE UseBundleKey(r)
  <2>1. want[r] \in Bundles /\ got[r] \in Entry
    BY <1>2 DEF UseBundleKey
  <2>2. cache' \in [Servers -> [Bundles -> Entry]]
    <3> DEFINE c == [cache[ServerOf[r]] EXCEPT ![want[r]] = got[r]]
    <3>1. cache' = cache \/ cache' = [cache EXCEPT ![ServerOf[r]] = c]
      BY <1>2 DEF UseBundleKey
    <3>2. c \in [Bundles -> Entry]
      BY <2>1
    <3> QED
      BY <3>1, <3>2
  <2>3. bundle' \in [Requests -> Entry] /\ got' \in [Requests -> Entry] /\ want' = want
    BY <1>2, <2>1 DEF UseBundleKey
  <2>4. \E place \in {"loaded", "askLatest"} : at' = [at EXCEPT ![r] = place]
    BY <1>2 DEF UseBundleKey
  <2>5. at' \in [Requests -> Place] /\ \A q \in Requests : at'[q] # "idle" => want[q] \in Bundles
    BY <2>1, <2>4
  <2> QED
    BY <2>2, <2>3, <2>5
<1>3. CASE ReadLatestKey(r)
  BY <1>3 DEF ReadLatestKey
<1>4. CASE UseLatestKey(r)
  <2> DEFINE filled == Refilled(ServerOf[r], got[r])
  <2>1. want[r] \in Bundles /\ got[r] \in Entry
    BY <1>4 DEF UseLatestKey
  <2>2. filled \in [Bundles -> Entry]
    BY <2>1 DEF Refilled
  <2>3. /\ cache' = cache \/ cache' = [cache EXCEPT ![ServerOf[r]] = filled]
        /\ bundle' = bundle \/ bundle' = [bundle EXCEPT ![r] = filled[want[r]]]
        /\ got' = [got EXCEPT ![r] = None] /\ want' = want
    BY <1>4 DEF UseLatestKey
  <2>4. \E place \in {"loaded", "notFound"} : at' = [at EXCEPT ![r] = place]
    BY <1>4 DEF UseLatestKey
  <2>5. at' \in [Requests -> Place] /\ \A q \in Requests : at'[q] # "idle" => want[q] \in Bundles
    BY <2>1, <2>4
  <2> HIDE DEF filled
  <2>6. cache' \in [Servers -> [Bundles -> Entry]]
    BY <2>2, <2>3
  <2>7. filled[want[r]] \in Entry
    BY <2>1, <2>2
  <2>8. bundle' \in [Requests -> Entry]
    BY <2>3, <2>7
  <2>9. got' \in [Requests -> Entry]
    BY <2>3
  <2> QED
    BY <2>3, <2>5, <2>6, <2>8, <2>9
<1>5. CASE ReadFails(r)
  BY <1>5 DEF ReadFails
<1>6. CASE Authorize(r)
  BY <1>6 DEF Authorize
<1>7. CASE InvokeFails(r)
  BY <1>7 DEF InvokeFails
<1>8. CASE Respond(r)
  BY <1>8 DEF Respond
<1>9. CASE Release(r)
  BY <1>9 DEF Release
<1> QED
  BY <1>1, <1>2, <1>3, <1>4, <1>5, <1>6, <1>7, <1>8, <1>9 DEF RequestStep

LEMMA TypeStep == TypeOK /\ [Next]_deliveryVars => TypeOK'
<1> SUFFICES ASSUME TypeOK, [Next]_deliveryVars PROVE TypeOK'
  OBVIOUS
<1>1. RegistryTypeOK'
  BY StepOfRegistry, RegistryTypeStep DEF TypeOK
<1>2. ASSUME NEW r \in Requests, NEW b \in Bundles, RequestArrives(r, b)
      PROVE  TypeOK'
  <2>1. cache[ServerOf[r]][b] \in Entry /\ Settled(b) \in Entry
    BY SlotAssumption DEF TypeOK, BridgeTypeOK, Settled, Entry, RegistryTypeOK
  <2> QED
    BY <1>1, <1>2, <2>1
       DEF RequestArrives, Arrive, TypeOK, BridgeTypeOK, Goto, Place, Loading, Ended, Entry
<1>3. ASSUME NEW r \in Requests, RequestMoves(r) PROVE TypeOK'
  BY <1>1, <1>3, RequestStepType, ForgetType DEF RequestMoves, TypeOK, historyVars
<1>4. ASSUME NEW s \in Servers, ServerRestarts(s) PROVE TypeOK'
  <2>1. BridgeTypeOK'
    BY <1>4 DEF ServerRestarts, Restart, TypeOK, BridgeTypeOK, EmptyCache, Entry, Place
  <2> QED
    BY <1>1, <1>4, <2>1, ForgetType DEF ServerRestarts, TypeOK
<1>5. CASE RegistryMoves
  BY <1>1, <1>5 DEF RegistryMoves, TypeOK, BridgeTypeOK, bridgeVars, Entry
<1>6. CASE UNCHANGED deliveryVars
  BY <1>1, <1>6 DEF deliveryVars, bridgeVars, TypeOK, BridgeTypeOK
<1> QED
  BY <1>2, <1>3, <1>4, <1>5, <1>6 DEF Next

(* The variables of the composed system keep their types.                  *)
THEOREM TypeCorrect == Spec => []TypeOK
BY TypeInit, TypeStep, PTL DEF Spec

(* Every step of a request takes it nearer to its answer, through at most  *)
(* two Gets, and no other request, upload or Hub takes it back: a restart  *)
(* of the server is the only thing else that moves it, and ends it.        *)
RequestRank(place) ==
  CASE place = "askBundle" -> 1
    [] place = "gotBundle" -> 2
    [] place = "askLatest" -> 3
    [] place = "gotLatest" -> 4
    [] place = "loaded" -> 5
    [] place = "executing" -> 6
    [] OTHER -> 7
LoadsMoveOn ==
  \A r \in Requests : at[r] \notin Ended \union {"idle"} =>
    /\ RequestMoves(r) => RequestRank(at'[r]) > RequestRank(at[r])
    /\ at'[r] \in {at[r], "idle"} \/ RequestRank(at'[r]) > RequestRank(at[r])

(* No load and no call goes round in circles.                              *)
THEOREM RequestsMoveOn == Spec => [][LoadsMoveOn]_deliveryVars
<1>1. TypeOK /\ [Next]_deliveryVars => [LoadsMoveOn]_deliveryVars
  <2> SUFFICES ASSUME TypeOK, Next, NEW r \in Requests, at[r] \notin Ended \union {"idle"}
               PROVE  /\ RequestMoves(r) => RequestRank(at'[r]) > RequestRank(at[r])
                      /\ \/ at'[r] \in {at[r], "idle"}
                         \/ RequestRank(at'[r]) > RequestRank(at[r])
    BY DEF LoadsMoveOn
  <2> USE DEF TypeOK, BridgeTypeOK, Goto
  <2>1. RequestMoves(r) => RequestRank(at'[r]) > RequestRank(at[r])
    <3>1. \A p, q : at' = [at EXCEPT ![r] = q] => at'[r] = q
      OBVIOUS
    <3> QED
      BY <3>1 DEF RequestMoves, RequestStep, ReadBundleKey, UseBundleKey, ReadLatestKey,
         UseLatestKey, ReadFails, Authorize, InvokeFails, Respond, Release, Ended,
         RequestRank
  <2>2. ASSUME NEW q \in Requests, NEW b \in Bundles, RequestArrives(q, b)
        PROVE  at'[r] = at[r]
    BY <2>2 DEF RequestArrives, Arrive
  <2>3. ASSUME NEW q \in Requests \ {r}, RequestMoves(q) PROVE at'[r] = at[r]
    BY <2>3 DEF RequestMoves, RequestStep, ReadBundleKey, UseBundleKey, ReadLatestKey,
       UseLatestKey, ReadFails, Authorize, InvokeFails, Respond, Release
  <2>4. ASSUME NEW s \in Servers, ServerRestarts(s) PROVE at'[r] \in {at[r], "idle"}
    BY <2>4 DEF ServerRestarts, Restart
  <2>5. CASE RegistryMoves
    BY <2>1, <2>5 DEF RegistryMoves, bridgeVars
  <2> QED
    BY <2>1, <2>2, <2>3, <2>4, <2>5 DEF Next
<1> QED
  BY <1>1, TypeCorrect, PTL DEF Spec
-----------------------------------------------------------------------------
(* Safety *)

(* What a request carries between two awaits is as good as what the cache  *)
(* holds, and it has a bundle exactly from the end of loadBundle on.       *)
SavedInv ==
  /\ \A s \in Servers, b \in Bundles : FromSavedManifest(cache[s][b], b)
  /\ \A r \in Requests :
       /\ FromSavedManifest(bundle[r], want[r])
       /\ at[r] = "gotBundle" => FromSavedManifest(got[r], want[r])
       /\ at[r] = "gotLatest" /\ got[r] # None => got[r] \in rows
       /\ at[r] \in HasBundle => bundle[r] # None
       /\ at[r] \in Loading \union {"idle"} => bundle[r] = None

(* A request that is sure to find its bundle does not get as far as the    *)
(* latest key.                                                             *)
FoundInv ==
  \A r \in Requests : sure[r] =>
    /\ at[r] \notin {"idle", "askLatest", "gotLatest", "notFound"}
    /\ kvBundle[want[r]] # None
    /\ at[r] = "gotBundle" => got[r] # None

(* A request that expects the newest upload has read nothing else.         *)
ExpectInv ==
  \A r \in Requests : expect[r] # None =>
    /\ expect[r] = newest /\ clean[newest] /\ pc[newest] = "returned"
    /\ want[r] \in content[newest]
    /\ at[r] \notin {"idle", "askLatest", "gotLatest"}
    /\ at[r] = "gotBundle" => got[r] = newest
    /\ at[r] \in HasBundle => bundle[r] = newest

(* The inductive invariant of the composed system.                         *)
DeliveryInv == TypeOK /\ RegistryInv /\ SavedInv /\ FoundInv /\ ExpectInv

LEMMA DeliveryInvInit == Init => DeliveryInv
<1> SUFFICES ASSUME Init PROVE DeliveryInv
  OBVIOUS
<1>1. TypeOK /\ RegistryInv
  BY TypeInit, RegistryInvInit DEF Init
<1>2. SavedInv
  BY NoneAssumption DEF Init, BridgeInit, SavedInv, FromSavedManifest, EmptyCache, HasBundle
<1>3. FoundInv /\ ExpectInv
  BY DEF Init, FoundInv, ExpectInv
<1> QED
  BY <1>1, <1>2, <1>3 DEF DeliveryInv

LEMMA SavedInvRegistry ==
  ASSUME DeliveryInv, RegistryMoves PROVE SavedInv'
<1>1. rows \subseteq rows' /\ \A p \in rows : content'[p] = content[p]
  BY RegistryStepKeeps DEF RegistryMoves, DeliveryInv, RegistryInv
<1> QED
  BY <1>1 DEF RegistryMoves, bridgeVars, DeliveryInv, SavedInv, FromSavedManifest

LEMMA SavedInvArrive ==
  ASSUME DeliveryInv, NEW r \in Requests, NEW b \in Bundles, RequestArrives(r, b)
  PROVE  SavedInv'
<1>1. FromSavedManifest(cache[ServerOf[r]][b], b)
  BY SlotAssumption DEF DeliveryInv, SavedInv
<1> QED
  BY <1>1, SlotAssumption
     DEF RequestArrives, Arrive, DeliveryInv, SavedInv, FromSavedManifest, Goto, TypeOK,
         BridgeTypeOK, HasBundle, Loading, registryOnly, Ended, Place

LEMMA SavedInvRequest ==
  ASSUME DeliveryInv, NEW r \in Requests, RequestMoves(r)
  PROVE  SavedInv'
<1> USE DEF FromSavedManifest, Goto, HasBundle, Loading, Ended
<1>1. rows' = rows /\ content' = content
  BY DEF RequestMoves, registryOnly
<1>2. /\ cache \in [Servers -> [Bundles -> Entry]] /\ at \in [Requests -> Place]
      /\ got \in [Requests -> Entry] /\ bundle \in [Requests -> Entry]
      /\ want \in [Requests -> Bundles \union {None}]
      /\ \A q \in Requests : at[q] # "idle" => want[q] \in Bundles
      /\ ServerOf[r] \in Servers
  BY SlotAssumption DEF DeliveryInv, TypeOK, BridgeTypeOK
<1>3. SavedInv
  BY DEF DeliveryInv
<1>4. CASE ReadBundleKey(r)
  <2>1. FromSavedManifest(kvBundle[want[r]], want[r])
    BY <1>2, <1>4 DEF ReadBundleKey, DeliveryInv, RegistryInv, KVInv, KVHoldsSavedManifests
  <2> QED
    BY <1>1, <1>2, <1>3, <1>4, <2>1 DEF ReadBundleKey, SavedInv
<1>5. CASE UseBundleKey(r)
  <2>1. want[r] \in Bundles /\ FromSavedManifest(got[r], want[r]) /\ bundle[r] = None
    BY <1>2, <1>3, <1>5 DEF UseBundleKey, SavedInv
  <2>2. CASE got[r] = None
    BY <1>1, <1>2, <1>3, <1>5, <2>1, <2>2 DEF UseBundleKey, SavedInv
  <2>3. CASE got[r] # None
    <3>1. cache' = [cache EXCEPT ![ServerOf[r]][want[r]] = got[r]]
      BY <1>5, <2>3 DEF UseBundleKey
    <3>2. \A s \in Servers, b \in Bundles : FromSavedManifest(cache'[s][b], b)
      BY <1>2, <1>3, <2>1, <3>1 DEF SavedInv
    <3> QED
      BY <1>1, <1>2, <1>3, <1>5, <2>1, <2>3, <3>2 DEF UseBundleKey, SavedInv
  <2> QED
    BY <2>2, <2>3
<1>6. CASE ReadLatestKey(r)
  <2>1. kvLatest # None => kvLatest \in rows
    BY DEF DeliveryInv, RegistryInv, KVInv, KVHoldsSavedManifests
  <2> QED
    BY <1>1, <1>2, <1>3, <1>6, <2>1 DEF ReadLatestKey, SavedInv
<1>7. CASE UseLatestKey(r)
  <2> DEFINE filled == Refilled(ServerOf[r], got[r])
  <2>1. want[r] \in Bundles /\ bundle[r] = None /\ (got[r] # None => got[r] \in rows)
    BY <1>2, <1>3, <1>7 DEF UseLatestKey, SavedInv
  <2>2. CASE got[r] = None
    BY <1>1, <1>2, <1>3, <1>7, <2>1, <2>2 DEF UseLatestKey, SavedInv
  <2>3. CASE got[r] # None
    <3>1. \A b \in Bundles : FromSavedManifest(filled[b], b)
      BY <1>2, <1>3, <2>1, <2>3 DEF Refilled, SavedInv
    <3>2. /\ cache' = [cache EXCEPT ![ServerOf[r]] = filled]
          /\ bundle' = [bundle EXCEPT ![r] = filled[want[r]]]
          /\ at' = [at EXCEPT ![r] = IF filled[want[r]] # None THEN "loaded" ELSE "notFound"]
          /\ got' = [got EXCEPT ![r] = None]
          /\ want' = want
      BY <1>7, <2>3 DEF UseLatestKey
    <3> HIDE DEF filled
    <3>3. \A s \in Servers, b \in Bundles : FromSavedManifest(cache'[s][b], b)
      BY <1>2, <1>3, <3>1, <3>2 DEF SavedInv
    <3> QED
      BY <1>1, <1>2, <1>3, <2>1, <3>1, <3>2, <3>3 DEF SavedInv
  <2> QED
    BY <2>2, <2>3
<1>8. CASE ReadFails(r)
  BY <1>1, <1>2, <1>3, <1>8 DEF ReadFails, SavedInv
<1>9. CASE Authorize(r)
  BY <1>1, <1>2, <1>3, <1>9 DEF Authorize, SavedInv
<1>10. CASE InvokeFails(r)
  BY <1>1, <1>2, <1>3, <1>10 DEF InvokeFails, SavedInv
<1>11. CASE Respond(r)
  BY <1>1, <1>2, <1>3, <1>11 DEF Respond, SavedInv
<1>12. CASE Release(r)
  BY <1>1, <1>2, <1>3, <1>12 DEF Release, SavedInv
<1> QED
  BY <1>4, <1>5, <1>6, <1>7, <1>8, <1>9, <1>10, <1>11, <1>12 DEF RequestMoves, RequestStep

LEMMA SavedInvRestart ==
  ASSUME DeliveryInv, NEW s \in Servers, ServerRestarts(s)
  PROVE  SavedInv'
BY NoneAssumption
   DEF ServerRestarts, Restart, EmptyCache, DeliveryInv, SavedInv, FromSavedManifest,
       TypeOK, BridgeTypeOK, HasBundle, Loading, registryOnly

(* The steps of a request touch neither the histories nor the KV.          *)
LEMMA FoundInvRequest ==
  ASSUME DeliveryInv, NEW r \in Requests, RequestMoves(r)
  PROVE  FoundInv'
<1> USE DEF Goto, FoundInv
<1>1. kvBundle' = kvBundle
  BY DEF RequestMoves, kvVars
<1>2. /\ at \in [Requests -> Place] /\ got \in [Requests -> Entry]
      /\ want \in [Requests -> Bundles \union {None}]
  BY DEF DeliveryInv, TypeOK, BridgeTypeOK
<1>3. FoundInv
  BY DEF DeliveryInv
<1>4. sure' = sure \/ (at'[r] = "idle" /\ Forget({r}))
  BY DEF RequestMoves, historyVars
<1>5. \A q \in Requests : sure'[q] => sure[q]
  BY <1>4, Zenon DEF Forget
<1>6. at'[r] = "idle" => ~sure'[r]
  <2>1. CASE at'[r] = "idle"
    BY <2>1 DEF RequestMoves, Forget
  <2> QED
    BY <2>1
<1>7. CASE ReadBundleKey(r)
  BY <1>1, <1>2, <1>3, <1>5, <1>7 DEF ReadBundleKey
<1>8. CASE UseBundleKey(r)
  BY <1>1, <1>2, <1>3, <1>5, <1>8 DEF UseBundleKey
<1>9. CASE ReadLatestKey(r)
  BY <1>1, <1>2, <1>3, <1>5, <1>9 DEF ReadLatestKey
<1>10. CASE UseLatestKey(r)
  BY <1>1, <1>2, <1>3, <1>5, <1>10 DEF UseLatestKey
<1>11. CASE ReadFails(r)
  BY <1>1, <1>2, <1>3, <1>5, <1>11 DEF ReadFails
<1>12. CASE Authorize(r)
  BY <1>1, <1>2, <1>3, <1>5, <1>12 DEF Authorize
<1>13. CASE InvokeFails(r)
  BY <1>1, <1>2, <1>3, <1>5, <1>13 DEF InvokeFails
<1>14. CASE Respond(r)
  BY <1>1, <1>2, <1>3, <1>5, <1>14 DEF Respond
<1>15. CASE Release(r)
  BY <1>1, <1>2, <1>3, <1>5, <1>6, <1>15 DEF Release
<1> QED
  BY <1>7, <1>8, <1>9, <1>10, <1>11, <1>12, <1>13, <1>14, <1>15 DEF RequestMoves, RequestStep

LEMMA ExpectInvRequest ==
  ASSUME DeliveryInv, NEW r \in Requests, RequestMoves(r)
  PROVE  ExpectInv'
<1> USE DEF Goto, ExpectInv, HasBundle
<1>1. newest' = newest /\ clean' = clean /\ pc' = pc /\ content' = content
  BY DEF RequestMoves, registryOnly
<1>2. /\ at \in [Requests -> Place] /\ got \in [Requests -> Entry]
      /\ want \in [Requests -> Bundles \union {None}]
      /\ bundle \in [Requests -> Entry] /\ newest \in Entry
  BY DEF DeliveryInv, TypeOK, BridgeTypeOK, RegistryTypeOK
<1>3. ExpectInv
  BY DEF DeliveryInv
<1>4. \A q \in Requests : expect'[q] # None => expect'[q] = expect[q]
  BY DEF RequestMoves, historyVars, Forget
<1>5. at'[r] = "idle" => expect'[r] = None
  BY DEF RequestMoves, Forget
<1>6. ASSUME NEW q \in Requests, expect[q] # None
      PROVE  kvBundle[want[q]] = newest /\ newest # None
  <2>1. newest \in Pushes /\ clean[newest] /\ pc[newest] = "returned" /\ newest # None
        /\ want[q] \in content[newest]
    BY <1>2, <1>3, <1>6 DEF Entry
  <2> QED
    BY <2>1, RegistryInvGivesCleanPushWins DEF CleanPushWins, DeliveryInv
<1>7. CASE ReadBundleKey(r)
  BY <1>1, <1>2, <1>3, <1>4, <1>6, <1>7 DEF ReadBundleKey
<1>8. CASE UseBundleKey(r)
  BY <1>1, <1>2, <1>3, <1>4, <1>6, <1>8 DEF UseBundleKey
<1>9. CASE ReadLatestKey(r)
  BY <1>1, <1>2, <1>3, <1>4, <1>9 DEF ReadLatestKey
<1>10. CASE UseLatestKey(r)
  BY <1>1, <1>2, <1>3, <1>4, <1>10 DEF UseLatestKey
<1>11. CASE ReadFails(r)
  BY <1>1, <1>2, <1>3, <1>4, <1>11 DEF ReadFails
<1>12. CASE Authorize(r)
  BY <1>1, <1>2, <1>3, <1>4, <1>12 DEF Authorize
<1>13. CASE InvokeFails(r)
  BY <1>1, <1>2, <1>3, <1>4, <1>13 DEF InvokeFails
<1>14. CASE Respond(r)
  BY <1>1, <1>2, <1>3, <1>4, <1>14 DEF Respond
<1>15. CASE Release(r)
  BY <1>1, <1>2, <1>3, <1>4, <1>5, <1>15 DEF Release
<1> QED
  BY <1>7, <1>8, <1>9, <1>10, <1>11, <1>12, <1>13, <1>14, <1>15 DEF RequestMoves, RequestStep

LEMMA HistoryArrive ==
  ASSUME DeliveryInv, NEW r \in Requests, NEW b \in Bundles, RequestArrives(r, b)
  PROVE  FoundInv' /\ ExpectInv'
<1> DEFINE cached == cache[ServerOf[r]][b]
<1>1. /\ at' = [at EXCEPT ![r] = IF cached # None THEN "loaded" ELSE "askBundle"]
      /\ want' = [want EXCEPT ![r] = b] /\ bundle' = [bundle EXCEPT ![r] = cached]
      /\ got' = got /\ sure' = [sure EXCEPT ![r] = kvBundle[b] # None]
      /\ expect' = [expect EXCEPT ![r] = IF cached = None THEN Settled(b) ELSE None]
      /\ kvBundle' = kvBundle /\ newest' = newest /\ clean' = clean /\ pc' = pc
      /\ content' = content
  BY DEF RequestArrives, Arrive, Goto, registryOnly, kvVars
<1>2. /\ at \in [Requests -> Place] /\ want \in [Requests -> Bundles \union {None}]
      /\ bundle \in [Requests -> Entry] /\ sure \in [Requests -> BOOLEAN]
      /\ expect \in [Requests -> Entry]
  BY DEF DeliveryInv, TypeOK, BridgeTypeOK
<1>3. Settled(b) # None => /\ Settled(b) = newest /\ clean[newest]
                           /\ pc[newest] = "returned" /\ b \in content[newest]
  BY DEF Settled
<1>4. FoundInv /\ ExpectInv
  BY DEF DeliveryInv
<1> HIDE DEF cached
<1>5. \A q \in Requests : q # r =>
        /\ at'[q] = at[q] /\ want'[q] = want[q] /\ bundle'[q] = bundle[q]
        /\ expect'[q] = expect[q]
  BY <1>1, <1>2
<1>6. \A q \in Requests : q # r => sure'[q] = sure[q]
  BY <1>1, <1>2, Zenon
<1>7. /\ at'[r] = IF cached # None THEN "loaded" ELSE "askBundle"
      /\ want'[r] = b /\ expect'[r] = (IF cached = None THEN Settled(b) ELSE None)
  BY <1>1, <1>2
<1>8. sure'[r] => kvBundle[b] # None
  BY <1>1, <1>2
<1>9. FoundInv'
  BY <1>1, <1>4, <1>5, <1>6, <1>7, <1>8 DEF FoundInv
<1>10. ExpectInv'
  BY <1>1, <1>3, <1>4, <1>5, <1>7 DEF ExpectInv, HasBundle
<1> QED
  BY <1>9, <1>10

LEMMA HistoryRestart ==
  ASSUME DeliveryInv, NEW s \in Servers, ServerRestarts(s)
  PROVE  FoundInv' /\ ExpectInv'
<1> DEFINE gone == {r \in Requests : ServerOf[r] = s}
<1>1. \A r \in Requests : r \in gone => ~sure'[r] /\ expect'[r] = None
  BY DEF ServerRestarts, Forget
<1>2. \A r \in Requests : sure'[r] => sure[r]
  BY Zenon DEF ServerRestarts, Forget
<1>3. \A r \in Requests : r \notin gone =>
        /\ at'[r] = at[r] /\ want'[r] = want[r] /\ got'[r] = got[r]
        /\ bundle'[r] = bundle[r] /\ expect'[r] = expect[r]
  BY DEF ServerRestarts, Restart, Forget
<1>4. kvBundle' = kvBundle /\ newest' = newest /\ clean' = clean /\ pc' = pc
      /\ content' = content
  BY DEF ServerRestarts, registryOnly, kvVars
<1> QED
  BY <1>1, <1>2, <1>3, <1>4 DEF DeliveryInv, FoundInv, ExpectInv

LEMMA HistoryRegistry ==
  ASSUME DeliveryInv, RegistryMoves
  PROVE  FoundInv' /\ ExpectInv'
<1>1. /\ \A b \in Bundles : kvBundle[b] # None => kvBundle'[b] # None
      /\ \A p \in Pushes : pc[p] = "returned" =>
           /\ pc'[p] = "returned" /\ content'[p] = content[p]
           /\ clean[p] => (newest' = newest => clean'[p])
  BY RegistryStepKeeps DEF RegistryMoves, DeliveryInv, RegistryInv
<1>2. at' = at /\ want' = want /\ got' = got /\ bundle' = bundle /\ sure' = sure
  BY DEF RegistryMoves, bridgeVars
<1>3. FoundInv'
  BY <1>1, <1>2 DEF DeliveryInv, FoundInv, TypeOK, BridgeTypeOK
<1>4. ASSUME NEW r \in Requests, expect'[r] # None
      PROVE  /\ expect'[r] = expect[r] /\ newest' = newest /\ newest \in Pushes
             /\ clean'[newest] /\ pc'[newest] = "returned" /\ content'[newest] = content[newest]
  <2>1. expect'[r] = expect[r] /\ newest' = newest
    BY <1>4 DEF RegistryMoves
  <2>2. newest \in Pushes /\ clean[newest] /\ pc[newest] = "returned"
    BY <1>4, <2>1 DEF DeliveryInv, ExpectInv, TypeOK, RegistryTypeOK, Entry
  <2> QED
    BY <1>1, <2>1, <2>2
<1>5. ExpectInv'
  BY <1>2, <1>4 DEF DeliveryInv, ExpectInv
<1> QED
  BY <1>3, <1>5

LEMMA DeliveryInvStep == DeliveryInv /\ [Next]_deliveryVars => DeliveryInv'
<1> SUFFICES ASSUME DeliveryInv, [Next]_deliveryVars PROVE DeliveryInv'
  OBVIOUS
<1>1. TypeOK' /\ RegistryInv'
  BY TypeStep, StepOfRegistry, RegistryInvStep DEF DeliveryInv
<1>2. ASSUME NEW r \in Requests, NEW b \in Bundles, RequestArrives(r, b)
      PROVE  SavedInv' /\ FoundInv' /\ ExpectInv'
  BY <1>2, SavedInvArrive, HistoryArrive
<1>3. ASSUME NEW r \in Requests, RequestMoves(r)
      PROVE  SavedInv' /\ FoundInv' /\ ExpectInv'
  BY <1>3, SavedInvRequest, FoundInvRequest, ExpectInvRequest
<1>4. ASSUME NEW s \in Servers, ServerRestarts(s)
      PROVE  SavedInv' /\ FoundInv' /\ ExpectInv'
  BY <1>4, SavedInvRestart, HistoryRestart
<1>5. CASE RegistryMoves
  BY <1>1, <1>5, SavedInvRegistry, HistoryRegistry DEF DeliveryInv
<1>6. CASE UNCHANGED deliveryVars
  BY <1>1, <1>6
     DEF deliveryVars, registryVars, bridgeVars, kvVars, DeliveryInv, SavedInv, FoundInv,
         ExpectInv, FromSavedManifest
<1> QED
  BY <1>1, <1>2, <1>3, <1>4, <1>5, <1>6 DEF Next, DeliveryInv

LEMMA DeliveryInvariant == Spec => []DeliveryInv
BY DeliveryInvInit, DeliveryInvStep, PTL DEF Spec

(* Every bundle in a cache or in use comes from a stored manifest.         *)
THEOREM OnlySaved == Spec => []OnlySavedBundlesRun
<1>1. DeliveryInv => OnlySavedBundlesRun
  BY DEF DeliveryInv, SavedInv, OnlySavedBundlesRun, HasBundle
<1> QED
  BY <1>1, DeliveryInvariant, PTL

(* A bundle that has its key is found by every later request.              *)
THEOREM PublishedFound == Spec => []PublishedIsFound
<1>1. DeliveryInv => PublishedIsFound
  BY DEF DeliveryInv, FoundInv, PublishedIsFound
<1> QED
  BY <1>1, DeliveryInvariant, PTL

(* A cache miss after a settled upload gets this upload's bundle.          *)
THEOREM MissSeesSettled == Spec => []MissSeesSettledPush
<1>1. DeliveryInv => MissSeesSettledPush
  BY RegistryInvGivesCleanPushWins
     DEF DeliveryInv, ExpectInv, MissSeesSettledPush, CleanPushWins, HasBundle, TypeOK,
         RegistryTypeOK, Entry
<1> QED
  BY <1>1, DeliveryInvariant, PTL
-----------------------------------------------------------------------------
(* Refinement: the composed system implements EdgePromise *)

(* The mapped phase and holding, as functions on the requests.             *)
PhaseBar == [r \in Requests |-> Phase(at[r])]
HoldsBar == [r \in Requests |-> IF at[r] \in HasBundle THEN bundle[r] ELSE None]

LEMMA PromiseInit == Init => Promise!Init
BY DEF Init, RegistryInit, KVInit, BridgeInit, Promise!Init, Published, Announced, Phase,
       Loading, HasBundle

(* The registry's steps publish, announce or stutter.                      *)
LEMMA RegistryKeepsPromise ==
  ASSUME DeliveryInv, RegistryMoves
  PROVE  Promise!Next \/ UNCHANGED Promise!vars
<1>1. /\ want' = want /\ sure' = sure /\ PhaseBar' = PhaseBar /\ HoldsBar' = HoldsBar
  BY DEF RegistryMoves, bridgeVars, PhaseBar, HoldsBar
<1>2. CASE rows' = rows /\ kvBundle' = kvBundle
  <2>1. Published' = Published
    BY <1>2, RegistryStepKeeps DEF RegistryMoves, DeliveryInv, RegistryInv, Published
  <2> QED
    BY <1>1, <1>2, <2>1 DEF Promise!vars, PhaseBar, HoldsBar, Announced
<1>3. ASSUME NEW p \in Pushes, rows' = rows \union {p}, p \notin rows,
             content' = content, kvBundle' = kvBundle
      PROVE  Promise!Next
  <2>1. Published' = Published \union ({p} \X content[p])
    BY <1>3 DEF Published, DeliveryInv, TypeOK, RegistryTypeOK, KVTypeOK
  <2>3. content[p] \in SUBSET Bundles
    BY DEF DeliveryInv, TypeOK, RegistryTypeOK, KVTypeOK
  <2>4. Announced' = Announced
    BY <1>3 DEF Announced
  <2>5. Published \intersect ({p} \X Bundles) = {}
    BY <1>3 DEF Published
  <2>6. Promise!Publish(p, content[p])
    BY <1>1, <2>1, <2>4, <2>5 DEF Promise!Publish, PhaseBar, HoldsBar
  <2> QED
    BY <2>3, <2>6 DEF Promise!Next
<1>4. ASSUME NEW p \in Pushes, NEW b \in Bundles, PropagateBundle(p, b)
      PROVE  Promise!Next
  <2>1. p \in rows /\ b \in content[p] /\ p # None
    BY <1>4, NoneAssumption DEF PropagateBundle, DeliveryInv, RegistryInv, KVInv
  <2>2. <<p, b>> \in Published
    BY <2>1 DEF Published
  <2>3. Announced' = Announced \union {b}
    BY <1>4, <2>1 DEF PropagateBundle, SetBundle, Announced, DeliveryInv, TypeOK,
                      RegistryTypeOK, KVTypeOK
  <2>4. Published' = Published
    BY <1>4 DEF PropagateBundle, Published
  <2>5. Promise!Announce(b)
    BY <1>1, <2>2, <2>3, <2>4 DEF Promise!Announce, PhaseBar, HoldsBar
  <2> QED
    BY <2>5 DEF Promise!Next
<1>5. ASSUME NEW p \in Pushes, PushStep(p) PROVE Promise!Next \/ UNCHANGED Promise!vars
  <2>1. CASE Save(p) \/ SaveFails(p)
    BY <1>2, <1>3, <2>1
       DEF Save, SaveFails, VersionTaken, kvVars, DeliveryInv, RegistryInv, KVInv
  <2>2. CASE PropagateLatest(p) \/ PropagateFails(p) \/ ReturnManifest(p)
    BY <1>2, <2>2 DEF PropagateLatest, SetLatest, PropagateFails, ReturnManifest, kvVars
  <2>3. CASE \E b \in Bundles : PropagateBundle(p, b)
    BY <1>4, <2>3
  <2> QED
    BY <1>5, <2>1, <2>2, <2>3 DEF PushStep
<1>6. CASE Tick \/ HubCrash \/ \E p \in Pushes, bs \in SUBSET Bundles : BeginPush(p, bs)
  BY <1>2, <1>6 DEF Tick, HubCrash, BeginPush, kvVars
<1> QED
  BY <1>5, <1>6 DEF RegistryMoves, RegistryNext

(* What the promise sees of the KV and the table does not change when the  *)
(* Bridge moves.                                                           *)
LEMMA BridgeKeepsRegistry ==
  ASSUME UNCHANGED <<kvVars, content, registryOnly>>
  PROVE  Published' = Published /\ Announced' = Announced
BY DEF kvVars, registryOnly, Published, Announced

LEMMA ArriveKeepsPromise ==
  ASSUME DeliveryInv, NEW r \in Requests, NEW b \in Bundles, RequestArrives(r, b)
  PROVE  Promise!Next
<1> DEFINE cached == cache[ServerOf[r]][b]
<1>1. /\ at[r] = "idle" /\ want' = [want EXCEPT ![r] = b]
      /\ at' = [at EXCEPT ![r] = IF cached # None THEN "loaded" ELSE "askBundle"]
      /\ bundle' = [bundle EXCEPT ![r] = cached]
      /\ sure' = [sure EXCEPT ![r] = kvBundle[b] # None]
  BY DEF RequestArrives, Arrive, Goto
<1>2. /\ at \in [Requests -> Place] /\ bundle \in [Requests -> Entry]
      /\ cached \in Entry /\ FromSavedManifest(cached, b)
  BY SlotAssumption DEF DeliveryInv, TypeOK, BridgeTypeOK, SavedInv
<1>3. Published' = Published /\ Announced' = Announced
  BY BridgeKeepsRegistry DEF RequestArrives
<1>4. (kvBundle[b] # None) = (b \in Announced)
  BY DEF Announced
<1> HIDE DEF cached
<1>5. PhaseBar[r] = "idle"
  BY <1>1 DEF PhaseBar, Phase, Loading, HasBundle
<1>6. CASE cached = None
  <2>1. PhaseBar' = [PhaseBar EXCEPT ![r] = "waiting"] /\ HoldsBar' = HoldsBar
    BY <1>1, <1>2, <1>6 DEF PhaseBar, HoldsBar, Phase, Loading, HasBundle
  <2>2. Promise!Ask(r, b)
    BY <1>1, <1>3, <1>4, <1>5, <2>1 DEF Promise!Ask, PhaseBar, HoldsBar
  <2> QED
    BY <2>2 DEF Promise!Next
<1>7. CASE cached # None
  <2>1. /\ PhaseBar' = [PhaseBar EXCEPT ![r] = "has"]
        /\ HoldsBar' = [HoldsBar EXCEPT ![r] = cached]
    BY <1>1, <1>2, <1>7 DEF PhaseBar, HoldsBar, Phase, Loading, HasBundle
  <2>2. cached \in Pushes /\ <<cached, b>> \in Published
    BY <1>2, <1>7 DEF Entry, Published, FromSavedManifest
  <2>3. Promise!Ask(r, b)
    BY <1>1, <1>3, <1>4, <1>5, <2>1, <2>2 DEF Promise!Ask, PhaseBar, HoldsBar
  <2> QED
    BY <2>3 DEF Promise!Next
<1> QED
  BY <1>6, <1>7

(* Some calls are over.                                                    *)
LEMMA EndKeepsPromise ==
  ASSUME DeliveryInv, NEW over \in SUBSET Requests, Forget(over),
         UNCHANGED <<kvVars, content, registryOnly>>,
         want' = [r \in Requests |-> IF r \in over THEN None ELSE want[r]],
         at' = [r \in Requests |-> IF r \in over THEN "idle" ELSE at[r]],
         bundle' = [r \in Requests |-> IF r \in over THEN None ELSE bundle[r]]
  PROVE  Promise!Next
<1>1. Published' = Published /\ Announced' = Announced
  BY BridgeKeepsRegistry
<1>2. PhaseBar' = [r \in Requests |-> IF r \in over THEN "idle" ELSE PhaseBar[r]]
  BY DEF PhaseBar, Phase, Loading, HasBundle
<1>3. HoldsBar' = [r \in Requests |-> IF r \in over THEN None ELSE HoldsBar[r]]
  BY DEF HoldsBar, HasBundle
<1>4. \A r \in Requests : sure[r] \in BOOLEAN
  BY DEF DeliveryInv, TypeOK
<1>5. \A r \in Requests : (sure[r] /\ r \notin over) = (IF r \in over THEN FALSE ELSE sure[r])
  BY <1>4, Zenon
<1>6. sure' = [r \in Requests |-> IF r \in over THEN FALSE ELSE sure[r]]
  BY <1>5, Zenon DEF Forget
<1>7. Promise!End(over)
  BY <1>1, <1>2, <1>3, <1>6 DEF Promise!End, PhaseBar, HoldsBar
<1> QED
  BY <1>7 DEF Promise!Next

LEMMA RequestKeepsPromise ==
  ASSUME DeliveryInv, DeliveryInv', NEW r \in Requests, RequestMoves(r)
  PROVE  Promise!Next \/ UNCHANGED Promise!vars
<1>1. Published' = Published /\ Announced' = Announced
  BY BridgeKeepsRegistry DEF RequestMoves
<1>2. /\ at \in [Requests -> Place] /\ bundle \in [Requests -> Entry]
      /\ want \in [Requests -> Bundles \union {None}]
  BY DEF DeliveryInv, TypeOK, BridgeTypeOK
<1>3. at'[r] # "idle" => sure' = sure
  BY DEF RequestMoves, historyVars
<1> USE DEF Goto
(* Three kinds of step: within a phase, to a bundle, to a failure.         *)
<1>4. ASSUME want' = want, bundle' = bundle, NEW place \in Place,
             at' = [at EXCEPT ![r] = place], place # "idle",
             Phase(place) = Phase(at[r])
      PROVE  UNCHANGED Promise!vars
  <2>1. (place \in HasBundle) = (at[r] \in HasBundle)
    BY <1>2, <1>4 DEF Phase, Loading, HasBundle, Place, Ended
  <2>2. PhaseBar' = PhaseBar /\ HoldsBar' = HoldsBar
    BY <1>2, <1>4, <2>1 DEF PhaseBar, HoldsBar
  <2>3. sure' = sure
    BY <1>2, <1>3, <1>4
  <2> QED
    BY <1>1, <1>4, <2>2, <2>3 DEF Promise!vars, PhaseBar, HoldsBar
<1>5. ASSUME want' = want, at[r] \in Loading, at' = [at EXCEPT ![r] = "loaded"],
             NEW e \in Entry, bundle' = [bundle EXCEPT ![r] = e]
      PROVE  Promise!Next
  <2>1. e # None
    BY <1>2, <1>5 DEF DeliveryInv, SavedInv, HasBundle
  <2>2. e \in Pushes /\ <<e, want[r]>> \in Published
    <3>1. FromSavedManifest(e, want[r])'
      BY <1>2, <1>5 DEF DeliveryInv, SavedInv
    <3>2. e \in rows /\ want[r] \in content[e]
      BY <1>5, <2>1, <3>1 DEF FromSavedManifest, RequestMoves, registryOnly
    <3>3. want[r] \in Bundles
      BY <1>5 DEF DeliveryInv, TypeOK, BridgeTypeOK, Loading
    <3> QED
      BY <2>1, <3>2, <3>3 DEF Published, Entry
  <2>3. PhaseBar[r] = "waiting" /\ PhaseBar' = [PhaseBar EXCEPT ![r] = "has"]
    BY <1>2, <1>5 DEF PhaseBar, Phase, Loading, HasBundle
  <2>4. HoldsBar' = [HoldsBar EXCEPT ![r] = e]
    BY <1>2, <1>5 DEF HoldsBar, HasBundle
  <2>5. sure' = sure
    BY <1>2, <1>3, <1>5
  <2>6. Promise!Get(r)
    BY <1>1, <1>5, <2>2, <2>3, <2>4, <2>5 DEF Promise!Get, PhaseBar, HoldsBar
  <2> QED
    BY <2>6 DEF Promise!Next
<1>6. ASSUME want' = want, bundle' = bundle, at[r] \in Loading \union HasBundle,
             at' = [at EXCEPT ![r] = "failed"]
      PROVE  Promise!Next
  <2>1. PhaseBar[r] \in {"waiting", "has"} /\ PhaseBar' = [PhaseBar EXCEPT ![r] = "failed"]
    BY <1>2, <1>6 DEF PhaseBar, Phase, Loading, HasBundle
  <2>2. HoldsBar' = [HoldsBar EXCEPT ![r] = None]
    BY <1>2, <1>6 DEF HoldsBar, HasBundle
  <2>3. sure' = sure
    BY <1>2, <1>3, <1>6
  <2>4. Promise!Fail(r)
    BY <1>1, <1>6, <2>1, <2>2, <2>3 DEF Promise!Fail, PhaseBar, HoldsBar
  <2> QED
    BY <2>4 DEF Promise!Next
<1>7. ASSUME want' = want, at[r] = "gotLatest", at' = [at EXCEPT ![r] = "notFound"],
             bundle'[r] = None, \A q \in Requests : q # r => bundle'[q] = bundle[q]
      PROVE  Promise!Next
  <2>1. ~sure[r]
    BY <1>7 DEF DeliveryInv, FoundInv
  <2>2. PhaseBar[r] = "waiting" /\ PhaseBar' = [PhaseBar EXCEPT ![r] = "missing"]
    BY <1>2, <1>7 DEF PhaseBar, Phase, Loading, HasBundle
  <2>3. HoldsBar' = HoldsBar
    BY <1>2, <1>7 DEF HoldsBar, HasBundle
  <2>4. sure' = sure
    BY <1>2, <1>3, <1>7
  <2>5. Promise!Miss(r)
    BY <1>1, <1>7, <2>1, <2>2, <2>3, <2>4 DEF Promise!Miss, PhaseBar, HoldsBar
  <2> QED
    BY <2>5 DEF Promise!Next
<1>8. CASE ReadBundleKey(r) \/ ReadLatestKey(r)
  <2>1. Phase("askBundle") = Phase("gotBundle") /\ Phase("askLatest") = Phase("gotLatest")
    BY DEF Phase, Loading, HasBundle
  <2>2. {"gotBundle", "gotLatest"} \subseteq Place
    BY DEF Place, Loading
  <2> QED
    BY <1>4, <1>8, <2>1, <2>2 DEF ReadBundleKey, ReadLatestKey
<1>9. CASE UseBundleKey(r)
  <2>1. CASE got[r] = None
    <3>1. Phase("askLatest") = Phase("gotBundle") /\ "askLatest" \in Place
      BY DEF Phase, Loading, HasBundle, Place
    <3> QED
      BY <1>4, <1>9, <2>1, <3>1 DEF UseBundleKey
  <2>2. CASE got[r] # None
    BY <1>5, <1>9, <2>2 DEF UseBundleKey, Loading, DeliveryInv, TypeOK, BridgeTypeOK
  <2> QED
    BY <2>1, <2>2
<1>10. CASE UseLatestKey(r)
  <2> DEFINE filled == Refilled(ServerOf[r], got[r])
  <2>1. CASE got[r] = None
    BY <1>2, <1>7, <1>10, <2>1 DEF UseLatestKey, DeliveryInv, SavedInv, Loading
  <2>2. CASE got[r] # None
    <3>1. /\ bundle' = [bundle EXCEPT ![r] = filled[want[r]]] /\ want' = want
          /\ at' = [at EXCEPT ![r] = IF filled[want[r]] # None THEN "loaded" ELSE "notFound"]
          /\ at[r] = "gotLatest"
      BY <1>10, <2>2 DEF UseLatestKey
    <3>2. bundle'[r] = filled[want[r]] /\ bundle'[r] \in Entry
      BY <1>2, <3>1 DEF DeliveryInv, TypeOK, BridgeTypeOK
    <3> HIDE DEF filled
    <3>3. CASE filled[want[r]] = None
      BY <1>2, <1>7, <3>1, <3>2, <3>3
    <3>4. CASE filled[want[r]] # None
      BY <1>5, <3>1, <3>2, <3>4 DEF Loading
    <3> QED
      BY <3>3, <3>4
  <2> QED
    BY <2>1, <2>2
<1>11. CASE ReadFails(r)
  BY <1>6, <1>11 DEF ReadFails, Loading
<1>12. CASE Authorize(r)
  BY <1>4, <1>6, <1>12 DEF Authorize, Phase, Loading, HasBundle, Place
<1>13. CASE InvokeFails(r)
  BY <1>6, <1>13 DEF InvokeFails, HasBundle
<1>14. CASE Respond(r)
  BY <1>4, <1>6, <1>14 DEF Respond, Phase, Loading, HasBundle, Place, Ended
<1>15. CASE Release(r)
  <2>1. at' = [q \in Requests |-> IF q \in {r} THEN "idle" ELSE at[q]]
    BY <1>2, <1>15 DEF Release
  <2>2. /\ want' = [q \in Requests |-> IF q \in {r} THEN None ELSE want[q]]
        /\ bundle' = [q \in Requests |-> IF q \in {r} THEN None ELSE bundle[q]]
    BY <1>2, <1>15 DEF Release
  <2>3. Forget({r}) /\ UNCHANGED <<kvVars, content, registryOnly>>
    BY <1>2, <2>1 DEF RequestMoves
  <2> QED
    BY <2>1, <2>2, <2>3, EndKeepsPromise
<1> QED
  BY <1>8, <1>9, <1>10, <1>11, <1>12, <1>13, <1>14, <1>15 DEF RequestMoves, RequestStep

LEMMA PromiseStep ==
  DeliveryInv /\ DeliveryInv' /\ [Next]_deliveryVars => [Promise!Next]_Promise!vars
<1> SUFFICES ASSUME DeliveryInv, DeliveryInv', [Next]_deliveryVars
             PROVE  Promise!Next \/ UNCHANGED Promise!vars
  OBVIOUS
<1>1. ASSUME NEW s \in Servers, ServerRestarts(s) PROVE Promise!Next
  <2> DEFINE over == {r \in Requests : ServerOf[r] = s}
  <2>1. /\ want' = [r \in Requests |-> IF r \in over THEN None ELSE want[r]]
        /\ at' = [r \in Requests |-> IF r \in over THEN "idle" ELSE at[r]]
        /\ bundle' = [r \in Requests |-> IF r \in over THEN None ELSE bundle[r]]
    BY <1>1 DEF ServerRestarts, Restart
  <2> QED
    BY <1>1, <2>1, EndKeepsPromise DEF ServerRestarts
<1>2. CASE UNCHANGED deliveryVars
  BY <1>2 DEF deliveryVars, registryVars, bridgeVars, Promise!vars, Published, Announced
<1> QED
  BY <1>1, <1>2, ArriveKeepsPromise, RequestKeepsPromise, RegistryKeepsPromise DEF Next

(* The Hub and the Bridge keep the promise of EdgePromise.                 *)
THEOREM PromiseKept == Spec => KeepsPromise
BY PromiseInit, PromiseStep, DeliveryInvariant, PTL DEF Spec, KeepsPromise, Promise!Spec
=============================================================================
