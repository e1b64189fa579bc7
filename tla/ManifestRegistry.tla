-------------------------- MODULE ManifestRegistry --------------------------
(***************************************************************************)
(* The Hub's manifest registry: registry.Service.Push on top of the SQL    *)
(* repository, with any number of uploads in flight.  One upload           *)
(*                                                                         *)
(*   1. stamps the manifest with a version (a clock of one second) and a   *)
(*      creation time (a much finer clock),                                *)
(*   2. inserts the row <project>:<version>, a primary key,                *)
(*   3. sets project:<id>:latest in the Edge KV, and then                  *)
(*   4. sets one key per bundle.                                           *)
(*                                                                         *)
(* A failed insert ends the upload with an error.  A failed Set is only    *)
(* logged, and the upload still returns the manifest to the CLI.  Nothing  *)
(* orders the steps of two uploads, and nothing resumes the steps of an    *)
(* upload whose Hub process died.                                          *)
(***************************************************************************)
EXTENDS Integers, EdgeKV

CONSTANTS
  SecondLength, \* ticks of the fine clock in one second of the version clock
  MaxNow,       \* bound on the clock
  KVMayFail     \* whether a Set of the Edge KV may fail

ASSUME ClockAssumption ==
  SecondLength \in Nat \ {0} /\ MaxNow \in Nat /\ KVMayFail \in BOOLEAN

VARIABLES
  now,       \* the Hub's clock, in ticks
  rows,      \* table registry_manifests: the uploads whose row is stored
  version,   \* version[p]: Manifest.Version
  createdAt, \* createdAt[p]: Manifest.CreatedAt
  pc,        \* pc[p]: where the goroutine of upload p is
  todo,      \* todo[p]: the bundles whose key the loop has still to set
  newest,    \* history: the upload that started last
  clean      \* history: clean[p], p ran alone and no Set of it failed

registryVars ==
  <<content, kvLatest, kvBundle, now, rows, version, createdAt, pc, todo,
    newest, clean>>

Active == {"stamped", "latest", "bundles"}
PushState == Active \union {"idle", "returned", "failed", "killed"}

InFlight == {p \in Pushes : pc[p] \in Active}

RegistryTypeOK ==
  /\ KVTypeOK
  /\ now \in 0 .. MaxNow
  /\ rows \in SUBSET Pushes
  /\ version \in [Pushes -> Nat]
  /\ createdAt \in [Pushes -> Nat]
  /\ pc \in [Pushes -> PushState]
  /\ todo \in [Pushes -> SUBSET Bundles]
  /\ newest \in Entry
  /\ clean \in [Pushes -> BOOLEAN]

RegistryInit ==
  /\ KVInit
  /\ now = 0
  /\ rows = {}
  /\ version = [p \in Pushes |-> 0]
  /\ createdAt = [p \in Pushes |-> 0]
  /\ pc = [p \in Pushes |-> "idle"]
  /\ todo = [p \in Pushes |-> {}]
  /\ newest = None
  /\ clean = [p \in Pushes |-> FALSE]

-----------------------------------------------------------------------------
(* The row that GetLatest (ORDER BY created_at DESC LIMIT 1) may return;   *)
(* rows with equal created_at come in any order.                           *)
NewestRows == {p \in rows : \A q \in rows : createdAt[q] <= createdAt[p]}

(* Mutant: versions are counted from the second before.                    *)
generateVersionBefore == now \div SecondLength - 1

(* The second of the clock; the clock does not run backwards.              *)
generateVersion == now \div SecondLength

(* The INSERT of p violates the primary key <project>:<version>.           *)
VersionTaken(p) == \E q \in rows : version[q] = version[p]

-----------------------------------------------------------------------------
Tick ==
  /\ now < MaxNow
  /\ now' = now + 1
  /\ UNCHANGED <<content, kvVars, rows, version, createdAt, pc, todo, newest, clean>>

(* Mutant: the Edge KV is written before the row is stored.                *)
BeginPushPublishing(p, bs) ==
  /\ pc[p] = "idle"
  /\ pc' = [pc EXCEPT ![p] = "stamped"]
  /\ content' = [content EXCEPT ![p] = bs]
  /\ version' = [version EXCEPT ![p] = generateVersion]
  /\ createdAt' = [createdAt EXCEPT ![p] = now]
  /\ newest' = p
  /\ clean' = [q \in Pushes |-> IF q = p THEN InFlight = {}
                                ELSE clean[q] /\ q \notin InFlight]
  /\ SetLatest(p)
  /\ UNCHANGED <<now, rows, todo>>

(* handlePushManifest decodes the upload and Push builds the manifest; its *)
(* two readings of the clock are one.                                      *)
BeginPush(p, bs) ==
  /\ pc[p] = "idle"
  /\ pc' = [pc EXCEPT ![p] = "stamped"]
  /\ content' = [content EXCEPT ![p] = bs]
  /\ version' = [version EXCEPT ![p] = generateVersion]
  /\ createdAt' = [createdAt EXCEPT ![p] = now]
  /\ newest' = p
  /\ clean' = [q \in Pushes |-> IF q = p THEN InFlight = {}
                                ELSE clean[q] /\ q \notin InFlight]
  /\ UNCHANGED <<kvVars, now, rows, todo>>

(* repo.Save succeeds.                                                     *)
Save(p) ==
  /\ pc[p] = "stamped"
  /\ ~VersionTaken(p)
  /\ rows' = rows \union {p}
  /\ pc' = [pc EXCEPT ![p] = "latest"]
  /\ todo' = [todo EXCEPT ![p] = content[p]]
  /\ UNCHANGED <<content, kvVars, now, version, createdAt, newest, clean>>

(* Mutant: the error of repo.Save is logged like those of the Sets.        *)
SaveErrorIgnored(p) ==
  /\ pc[p] = "stamped"
  /\ pc' = [pc EXCEPT ![p] = "latest"]
  /\ todo' = [todo EXCEPT ![p] = content[p]]
  /\ UNCHANGED <<content, kvVars, now, rows, version, createdAt, newest, clean>>

(* Mutant: a refused insert is tried again with the same version.          *)
SaveRetried(p) ==
  /\ pc[p] = "stamped"
  /\ clean' = [clean EXCEPT ![p] = FALSE]
  /\ UNCHANGED <<content, kvVars, now, rows, version, createdAt, pc, todo, newest>>

(* repo.Save returns an error: the key is taken, the database refuses the  *)
(* statement, or the reply is lost after the row was committed.            *)
SaveFails(p) ==
  /\ pc[p] = "stamped"
  /\ \/ rows' = rows
     \/ ~VersionTaken(p) /\ rows' = rows \union {p}
  /\ pc' = [pc EXCEPT ![p] = "failed"]
  /\ clean' = [clean EXCEPT ![p] = FALSE]
  /\ UNCHANGED <<content, kvVars, now, version, createdAt, todo, newest>>

(* Mutant: the keys of bundles that left the manifest are deleted.         *)
PropagateLatestPruning(p) ==
  /\ pc[p] = "latest"
  /\ kvLatest' = p
  /\ kvBundle' = [b \in Bundles |-> IF b \in content[p] THEN kvBundle[b] ELSE None]
  /\ pc' = [pc EXCEPT ![p] = "bundles"]
  /\ UNCHANGED <<content, now, rows, version, createdAt, todo, newest, clean>>

PropagateLatest(p) ==
  /\ pc[p] = "latest"
  /\ SetLatest(p)
  /\ pc' = [pc EXCEPT ![p] = "bundles"]
  /\ UNCHANGED <<content, now, rows, version, createdAt, todo, newest, clean>>

(* The manifest lists its bundles in the order of the upload, which is an  *)
(* input: any bundle left may be the next one.                             *)
PropagateBundle(p, b) ==
  /\ pc[p] = "bundles"
  /\ b \in todo[p]
  /\ SetBundle(p, b)
  /\ todo' = [todo EXCEPT ![p] = @ \ {b}]
  /\ UNCHANGED <<content, now, rows, version, createdAt, pc, newest, clean>>

(* A Set fails (the store is down, the request's context is cancelled):    *)
(* the error is printed and the next key is tried.                         *)
PropagateFails(p) ==
  /\ KVMayFail
  /\ \/ /\ pc[p] = "latest"
        /\ pc' = [pc EXCEPT ![p] = "bundles"]
        /\ UNCHANGED todo
     \/ /\ pc[p] = "bundles"
        /\ \E b \in todo[p] : todo' = [todo EXCEPT ![p] = @ \ {b}]
        /\ UNCHANGED pc
  /\ clean' = [clean EXCEPT ![p] = FALSE]
  /\ UNCHANGED <<content, kvVars, now, rows, version, createdAt, newest>>

(* Mutant: Push returns while keys are still to be set.                    *)
ReturnManifestEarly(p) ==
  /\ pc[p] = "bundles"
  /\ pc' = [pc EXCEPT ![p] = "returned"]
  /\ UNCHANGED <<content, kvVars, now, rows, version, createdAt, todo, newest, clean>>

(* Push returns the manifest, whatever became of the Sets.                 *)
ReturnManifest(p) ==
  /\ pc[p] = "bundles"
  /\ todo[p] = {}
  /\ pc' = [pc EXCEPT ![p] = "returned"]
  /\ UNCHANGED <<content, kvVars, now, rows, version, createdAt, todo, newest, clean>>

(* Mutant: the manifests live in the process, as in store/memory.          *)
HubCrashForgets ==
  /\ InFlight # {}
  /\ pc' = [p \in Pushes |-> IF p \in InFlight THEN "killed" ELSE pc[p]]
  /\ clean' = [p \in Pushes |-> clean[p] /\ p \notin InFlight]
  /\ rows' = {}
  /\ UNCHANGED <<content, kvVars, now, version, createdAt, todo, newest>>

(* The Hub process dies, or its shutdown timeout ends the requests: the    *)
(* database and the Edge KV keep what they have, no upload is resumed.     *)
HubCrash ==
  /\ InFlight # {}
  /\ pc' = [p \in Pushes |-> IF p \in InFlight THEN "killed" ELSE pc[p]]
  /\ clean' = [p \in Pushes |-> clean[p] /\ p \notin InFlight]
  /\ UNCHANGED <<content, kvVars, now, rows, version, createdAt, todo, newest>>

-----------------------------------------------------------------------------
PushStep(p) ==
  \/ Save(p) \/ SaveFails(p)
  \/ PropagateLatest(p) \/ \E b \in Bundles : PropagateBundle(p, b)
  \/ PropagateFails(p)
  \/ ReturnManifest(p)

RegistryNext ==
  \/ Tick
  \/ \E p \in Pushes : \/ \E bs \in SUBSET Bundles : BeginPush(p, bs)
                       \/ PushStep(p)
  \/ HubCrash

(* The Go scheduler runs every goroutine, and each step of an upload ends  *)
(* (the driver's and the client's timeouts): PushStep is weakly fair.      *)
RegistrySpec ==
  /\ RegistryInit
  /\ [][RegistryNext]_registryVars
  /\ \A p \in Pushes : WF_registryVars(PushStep(p))

-----------------------------------------------------------------------------
(* Properties *)

(* Whatever the Edge KV holds comes from a stored manifest that contains   *)
(* the bundle: Push writes the row before the first key.                   *)
KVHoldsSavedManifests ==
  /\ kvLatest # None => kvLatest \in rows
  /\ \A b \in Bundles : kvBundle[b] # None =>
       kvBundle[b] \in rows /\ b \in content[kvBundle[b]]

(* An upload that was refused (registry.Push returned an error) leaves no  *)
(* trace in the Edge KV, even when its row was committed.                  *)
RefusedPushIsInvisible ==
  \A p \in Pushes : pc[p] = "failed" =>
    kvLatest # p /\ \A b \in Bundles : kvBundle[b] # p

(* An upload that ran alone, had no failed Set and is the last one to have *)
(* started has replaced the latest key and every key of its bundles, and   *)
(* it is the one manifest GetLatest can return (stk sync, GET /manifest):  *)
(* the three views of "the newest manifest" agree.                         *)
CleanPushWins ==
  \A p \in Pushes : p = newest /\ clean[p] /\ pc[p] = "returned" =>
    /\ kvLatest = p
    /\ \A b \in content[p] : kvBundle[b] = p
    /\ NewestRows = {p}

(* Every upload ends, with a manifest, an error or the end of its Hub.     *)
PushEnds == \A p \in Pushes : pc[p] = "stamped" ~> pc[p] \notin Active
=============================================================================
