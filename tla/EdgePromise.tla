---------------------------- MODULE EdgePromise -----------------------------
(***************************************************************************)
(* What the Hub and the Bridge promise together to those who upload logic  *)
(* and those who call it, without clocks, tables, keys, caches or crashes: *)
(*                                                                         *)
(*   - what is published is never unpublished;                             *)
(*   - a caller gets a published bundle of the name it asked for, one and  *)
(*     the same to the end of its call, or learns that there is none;      *)
(*   - once a bundle is announced, every later call finds it, though the   *)
(*     call may fail.                                                      *)
(*                                                                         *)
(* Freshness is not promised: a caller may get any published version.      *)
(* EdgeDelivery implements this specification.                             *)
(***************************************************************************)
CONSTANTS Pushes, Bundles, Requests, None

VARIABLES
  published, \* the <<push, bundle>> pairs the registry has accepted
  announced, \* the bundles every call finds from now on
  asked,     \* asked[r]: the bundle that call r is for, None if there is no call
  must,      \* must[r]: the bundle was announced before the call
  phase,     \* phase[r]: "idle", "waiting", "has", "missing" or "failed"
  holds      \* holds[r]: the push whose bundle the call has got

vars == <<published, announced, asked, must, phase, holds>>

Init ==
  /\ published = {}
  /\ announced = {}
  /\ asked = [r \in Requests |-> None]
  /\ must = [r \in Requests |-> FALSE]
  /\ phase = [r \in Requests |-> "idle"]
  /\ holds = [r \in Requests |-> None]

Publish(p, bs) ==
  /\ published \intersect ({p} \X Bundles) = {}
  /\ published' = published \union ({p} \X bs)
  /\ UNCHANGED <<announced, asked, must, phase, holds>>

Announce(b) ==
  /\ \E p \in Pushes : <<p, b>> \in published
  /\ announced' = announced \union {b}
  /\ UNCHANGED <<published, asked, must, phase, holds>>

(* A call comes in; it may be served at once.                              *)
Ask(r, b) ==
  /\ phase[r] = "idle"
  /\ asked' = [asked EXCEPT ![r] = b]
  /\ must' = [must EXCEPT ![r] = b \in announced]
  /\ \/ phase' = [phase EXCEPT ![r] = "waiting"] /\ UNCHANGED holds
     \/ \E p \in Pushes :
          /\ <<p, b>> \in published
          /\ phase' = [phase EXCEPT ![r] = "has"]
          /\ holds' = [holds EXCEPT ![r] = p]
  /\ UNCHANGED <<published, announced>>

Get(r) ==
  /\ phase[r] = "waiting"
  /\ \E p \in Pushes : /\ <<p, asked[r]>> \in published
                       /\ holds' = [holds EXCEPT ![r] = p]
  /\ phase' = [phase EXCEPT ![r] = "has"]
  /\ UNCHANGED <<published, announced, asked, must>>

Miss(r) ==
  /\ phase[r] = "waiting"
  /\ ~must[r]
  /\ phase' = [phase EXCEPT ![r] = "missing"]
  /\ UNCHANGED <<published, announced, asked, must, holds>>

Fail(r) ==
  /\ phase[r] \in {"waiting", "has"}
  /\ phase' = [phase EXCEPT ![r] = "failed"]
  /\ holds' = [holds EXCEPT ![r] = None]
  /\ UNCHANGED <<published, announced, asked, must>>

(* Calls are over, in whatever phase.                                      *)
End(over) ==
  /\ asked' = [r \in Requests |-> IF r \in over THEN None ELSE asked[r]]
  /\ must' = [r \in Requests |-> IF r \in over THEN FALSE ELSE must[r]]
  /\ phase' = [r \in Requests |-> IF r \in over THEN "idle" ELSE phase[r]]
  /\ holds' = [r \in Requests |-> IF r \in over THEN None ELSE holds[r]]
  /\ UNCHANGED <<published, announced>>

Next ==
  \/ \E p \in Pushes, bs \in SUBSET Bundles : Publish(p, bs)
  \/ \E b \in Bundles : Announce(b)
  \/ \E r \in Requests : \/ \E b \in Bundles : Ask(r, b)
                         \/ Get(r) \/ Miss(r) \/ Fail(r)
  \/ \E over \in SUBSET Requests : End(over)

Spec == Init /\ [][Next]_vars
=============================================================================
