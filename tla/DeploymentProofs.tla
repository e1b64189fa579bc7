-------------------------- MODULE DeploymentProofs --------------------------
(***************************************************************************)
(* Proofs about what is deployed to a project with stk: its schema         *)
(* (SchemaEngine) and its logic (LogicPipeline), for any number of runs,   *)
(* schemas, entries, files and edits.                                      *)
(***************************************************************************)
EXTENDS SchemaEngine, LogicPipeline, TLAPS

-----------------------------------------------------------------------------
(* The schema engine: type correctness *)

LEMMA TypeInit == Init => TypeOK
BY DEF Init, TypeOK, Place, Slot

LEMMA DiffersIsBoolean ==
  ASSUME NEW s \in Schemas, NEW native \in BOOLEAN, NEW d \in Differs(s, native)
  PROVE  d \in BOOLEAN
BY DEF Differs

LEMMA TypeStep == TypeOK /\ [Next]_vars => TypeOK'
<1> SUFFICES ASSUME TypeOK, [Next]_vars PROVE TypeOK'
  OBVIOUS
<1> USE DEF TypeOK, Place, Ended, InHub, Slot, Goto, NotSolo, serviceVars, runVars
<1>1. ASSUME NEW c \in Callers, NEW s \in Schemas, PlanInspect(c, s) PROVE TypeOK'
  <2>1. PICK native \in BOOLEAN : \E d \in Differs(s, native) :
          changes' = [changes EXCEPT ![c] = d] /\ solo' = SoloSince(c, native)
    BY <1>1 DEF PlanInspect
  <2>2. changes' \in [Callers -> BOOLEAN]
    BY <2>1, DiffersIsBoolean
  <2>3. solo' \in [Callers -> BOOLEAN]
    BY <2>1, Zenon DEF SoloSince
  <2> QED
    BY <1>1, <2>2, <2>3 DEF PlanInspect
<1>2. ASSUME NEW c \in Callers, PlanRecord(c) PROVE TypeOK'
  <2>1. want[c] \in Schemas
    BY <1>2 DEF PlanRecord
  <2> QED
    BY <1>2, <2>1 DEF PlanRecord
<1>3. ASSUME NEW c \in Callers, PlanFails(c) \/ Abort(c) \/ Confirm(c)
      PROVE  TypeOK'
  BY <1>3 DEF PlanFails, Abort, Confirm
<1>4. ASSUME NEW c \in Callers, ApplyMock(c) PROVE TypeOK'
  BY <1>4 DEF ApplyMock
<1>5. ASSUME NEW c \in Callers, ReadPlan(c) \/ ApplyInspect(c) PROVE TypeOK'
  BY <1>5 DEF ReadPlan, ApplyInspect
<1>6. ASSUME NEW c \in Callers, ApplyNothing(c) \/ ApplyChanges(c) \/ ApplyFails(c)
      PROVE  TypeOK'
  BY <1>6 DEF ApplyNothing, ApplyChanges, ApplyFails
<1>7. ASSUME NEW c \in Callers, ForgetPlan(c) PROVE TypeOK'
  BY <1>7 DEF ForgetPlan
<1>8. CASE ChangeURL
  <2>1. solo' \in [Callers -> BOOLEAN]
    BY <1>8, Zenon DEF ChangeURL
  <2> QED
    BY <1>8, <2>1 DEF ChangeURL
<1>9. CASE HubCrash
  <2>1. solo' \in [Callers -> BOOLEAN]
    BY <1>9, Zenon DEF HubCrash
  <2> QED
    BY <1>9, <2>1 DEF HubCrash
<1>10. CASE UNCHANGED vars
  BY <1>10 DEF vars
<1> QED
  BY <1>1, <1>2, <1>3, <1>4, <1>5, <1>6, <1>7, <1>8, <1>9, <1>10
     DEF Next, HubStep

(* The variables of the schema service and its callers keep their types.   *)
THEOREM TypeCorrect == Spec => []TypeOK
BY TypeInit, TypeStep, PTL DEF Spec

-----------------------------------------------------------------------------
(* The schema engine: what an apply takes from the slot *)

(* What makes ExecutesOnlyPlans inductive: the slot itself only holds      *)
(* recorded plans, a run has taken nothing from it before its apply, and   *)
(* an apply that goes on has taken a plan.                                 *)
PlannedInv ==
  /\ lastPlanned # Empty => lastPlanned \in planned
  /\ \A c \in Callers : at[c] \in {"idle", "planning", "prompt"} => target[c] = Empty
  /\ \A c \in Callers : at[c] \in {"reading", "diffed", "ran"} => target[c] # Empty
  /\ ExecutesOnlyPlans

LEMMA PlannedInvInit == Init => PlannedInv
BY DEF Init, PlannedInv, ExecutesOnlyPlans

LEMMA PlannedInvStep == TypeOK /\ PlannedInv /\ [Next]_vars => PlannedInv'
<1> SUFFICES ASSUME TypeOK, PlannedInv, [Next]_vars PROVE PlannedInv'
  OBVIOUS
<1> USE SchemaAssumption
    DEF TypeOK, Place, Ended, InHub, Slot, Live, Goto, NotSolo, serviceVars,
        runVars, PlannedInv, ExecutesOnlyPlans
<1>1. ASSUME NEW c \in Callers, NEW s \in Schemas, PlanInspect(c, s)
      PROVE  PlannedInv'
  BY <1>1 DEF PlanInspect
<1>2. ASSUME NEW c \in Callers, PlanRecord(c) PROVE PlannedInv'
  BY <1>2 DEF PlanRecord
<1>3. ASSUME NEW c \in Callers, PlanFails(c) \/ Abort(c) \/ Confirm(c)
      PROVE  PlannedInv'
  BY <1>3 DEF PlanFails, Abort, Confirm
<1>4. ASSUME NEW c \in Callers, ApplyMock(c) PROVE PlannedInv'
  BY <1>4 DEF ApplyMock
<1>5. ASSUME NEW c \in Callers, ReadPlan(c) \/ ApplyInspect(c) PROVE PlannedInv'
  BY <1>5 DEF ReadPlan, ApplyInspect
<1>6. ASSUME NEW c \in Callers, ApplyNothing(c) \/ ApplyChanges(c) \/ ApplyFails(c)
      PROVE  PlannedInv'
  BY <1>6 DEF ApplyNothing, ApplyChanges, ApplyFails
<1>7. ASSUME NEW c \in Callers, ForgetPlan(c) PROVE PlannedInv'
  BY <1>7 DEF ForgetPlan
<1>8. CASE ChangeURL
  BY <1>8 DEF ChangeURL
<1>9. CASE HubCrash
  BY <1>9 DEF HubCrash
<1>10. CASE UNCHANGED vars
  BY <1>10 DEF vars
<1> QED
  BY <1>1, <1>2, <1>3, <1>4, <1>5, <1>6, <1>7, <1>8, <1>9, <1>10
     DEF Next, HubStep

(* An apply executes only schemas whose plan this Hub process recorded.    *)
THEOREM OnlyPlansExecuted == Spec => []ExecutesOnlyPlans
<1>1. PlannedInv => ExecutesOnlyPlans
  BY DEF PlannedInv
<1> QED
  BY <1>1, PlannedInvInit, PlannedInvStep, TypeCorrect, PTL DEF Spec

(* The database gets a schema only by an apply of one whose plan this Hub  *)
(* process recorded; or, when statements fail or two applies meet in it,   *)
(* something in between.                                                   *)
PlannedOrMixed == db' # db => db' \in planned \union {Mixed}

(* Whatever the slot holds, the database gets nothing that was not planned. *)
THEOREM DatabaseGetsPlans == Spec => [][PlannedOrMixed]_vars
<1>1. TypeOK /\ PlannedInv /\ [Next]_vars => [PlannedOrMixed]_vars
  <2> SUFFICES ASSUME TypeOK, PlannedInv, Next, db' # db, db' # Mixed
               PROVE  db' \in planned
    BY DEF PlannedOrMixed
  <2>1. PICK c \in Callers : ApplyChanges(c)
    <3>1. ~ChangeURL /\ ~HubCrash
      BY DEF ChangeURL, HubCrash
    <3>2. \A c \in Callers, s \in Schemas : ~PlanInspect(c, s)
      BY DEF PlanInspect
    <3>3. \A c \in Callers : ~(Abort(c) \/ Confirm(c) \/ PlanFails(c) \/ PlanRecord(c))
      BY DEF Abort, Confirm, PlanFails, PlanRecord
    <3>4. \A c \in Callers : ~(ApplyMock(c) \/ ReadPlan(c) \/ ApplyInspect(c))
      BY DEF ApplyMock, ReadPlan, ApplyInspect
    <3>5. \A c \in Callers : ~(ApplyNothing(c) \/ ApplyFails(c) \/ ForgetPlan(c))
      BY DEF ApplyNothing, ApplyFails, ForgetPlan
    <3> QED
      BY <3>1, <3>2, <3>3, <3>4, <3>5 DEF Next, HubStep
  <2>2. at[c] = "diffed" /\ db' = target[c]
    BY <2>1 DEF ApplyChanges
  <2> QED
    BY <2>2 DEF PlannedInv, ExecutesOnlyPlans, Live, Ended
<1> QED
  BY <1>1, PlannedInvInit, PlannedInvStep, TypeCorrect, PTL DEF Spec

(* Every step of the Hub for a plan or an apply takes it nearer to its     *)
(* answer, by one of at most four, and no step of anybody else takes it    *)
(* back: whatever the slot and the database have become.                   *)
HubRank(place) ==
  CASE place \in {"planning", "mocking"} -> 1
    [] place = "applying" -> 2
    [] place = "reading" -> 3
    [] place = "diffed" -> 4
    [] place = "ran" -> 5
    [] OTHER -> 6
RunsMoveOn ==
  \A c \in Callers : at[c] \in InHub =>
    /\ HubStep(c) => HubRank(at'[c]) > HubRank(at[c])
    /\ at'[c] # at[c] => HubRank(at'[c]) > HubRank(at[c])

(* No plan and no apply goes round in circles.                             *)
THEOREM HubMovesOn == Spec => [][RunsMoveOn]_vars
<1>1. TypeOK /\ [Next]_vars => [RunsMoveOn]_vars
  <2> SUFFICES ASSUME TypeOK, Next, NEW c \in Callers, at[c] \in InHub
               PROVE  /\ HubStep(c) => HubRank(at'[c]) > HubRank(at[c])
                      /\ at'[c] # at[c] => HubRank(at'[c]) > HubRank(at[c])
    BY DEF RunsMoveOn
  <2> USE DEF TypeOK, InHub, Goto, HubRank
  <2>1. HubStep(c) => HubRank(at'[c]) > HubRank(at[c])
    BY DEF HubStep, PlanFails, PlanRecord, ApplyMock, ReadPlan, ApplyInspect,
       ApplyNothing, ApplyChanges, ApplyFails, ForgetPlan
  <2>2. ASSUME at'[c] # at[c] PROVE HubStep(c) \/ at'[c] = "failed"
    <3>1. ~ChangeURL /\ (HubCrash => at'[c] = "failed")
      BY <2>2 DEF ChangeURL, HubCrash
    <3>2. \A d \in Callers, s \in Schemas : ~PlanInspect(d, s)
      BY <2>2 DEF PlanInspect
    <3>3. \A d \in Callers : ~Abort(d) /\ ~Confirm(d)
      BY <2>2 DEF Abort, Confirm
    <3>4. \A d \in Callers \ {c} : ~HubStep(d)
      BY <2>2 DEF HubStep, PlanFails, PlanRecord, ApplyMock, ReadPlan, ApplyInspect,
         ApplyNothing, ApplyChanges, ApplyFails, ForgetPlan
    <3> QED
      BY <3>1, <3>2, <3>3, <3>4 DEF Next
  <2> QED
    BY <2>1, <2>2
<1> QED
  BY <1>1, TypeCorrect, PTL DEF Spec

-----------------------------------------------------------------------------
(* The schema engine: a run that is alone *)

(* What run c knows when no other run is in progress.                      *)
Knows(c) ==
  CASE at[c] = "planning"                 -> changes[c] = (db # want[c])
    [] at[c] \in {"prompt", "applying"}   -> lastPlanned = want[c]
    [] at[c] = "reading"                  -> target[c] = want[c]
    [] at[c] = "diffed"                   -> target[c] = want[c] /\ base[c] = db
    [] at[c] \in {"ran", "applied"}       -> target[c] = want[c] /\ db = want[c]
    [] at[c] = "unchanged"                -> db = want[c]
    [] OTHER                              -> TRUE

(* What makes SoloRunTakesEffect inductive: nobody else moves the slot or  *)
(* the database, from the plan of a solo run until another run begins.     *)
SoloInv ==
  \A c \in Callers : solo[c] =>
    /\ Knows(c)
    /\ \A r \in Callers \ {c} : ~Live(r)

LEMMA SoloInvInit == Init => SoloInv
BY DEF Init, SoloInv

LEMMA SoloInvStep == TypeOK /\ SoloInv /\ [Next]_vars => SoloInv'
<1> SUFFICES ASSUME TypeOK, SoloInv, [Next]_vars,
                    NEW q \in Callers, solo'[q]
             PROVE  Knows(q)' /\ \A r \in Callers \ {q} : ~Live(r)'
  BY DEF SoloInv
<1> USE SchemaAssumption
    DEF TypeOK, Place, Ended, InHub, Slot, Live, Goto, NotSolo, serviceVars,
        runVars, SoloInv, Knows
<1>1. ASSUME NEW c \in Callers, NEW s \in Schemas, PlanInspect(c, s)
      PROVE  Knows(q)' /\ \A r \in Callers \ {q} : ~Live(r)'
  <2>1. PICK native \in BOOLEAN : \E d \in Differs(s, native) :
          changes' = [changes EXCEPT ![c] = d] /\ solo' = SoloSince(c, native)
    BY <1>1 DEF PlanInspect
  <2>2. q = c /\ native /\ \A r \in Callers \ {c} : ~Live(r)
    BY <2>1 DEF SoloSince
  <2>3. changes'[c] = (db # s)
    BY <2>1, <2>2 DEF Differs
  <2> QED
    BY <1>1, <2>2, <2>3 DEF PlanInspect
<1>2. ASSUME NEW c \in Callers, PlanRecord(c)
      PROVE  Knows(q)' /\ \A r \in Callers \ {q} : ~Live(r)'
  BY <1>2 DEF PlanRecord
<1>3. ASSUME NEW c \in Callers, PlanFails(c) \/ Abort(c) \/ Confirm(c)
      PROVE  Knows(q)' /\ \A r \in Callers \ {q} : ~Live(r)'
  BY <1>3 DEF PlanFails, Abort, Confirm
<1>4. ASSUME NEW c \in Callers, ApplyMock(c)
      PROVE  Knows(q)' /\ \A r \in Callers \ {q} : ~Live(r)'
  BY <1>4 DEF ApplyMock
<1>5. ASSUME NEW c \in Callers, ReadPlan(c) \/ ApplyInspect(c)
      PROVE  Knows(q)' /\ \A r \in Callers \ {q} : ~Live(r)'
  BY <1>5 DEF ReadPlan, ApplyInspect
<1>6. ASSUME NEW c \in Callers, ApplyNothing(c) \/ ApplyChanges(c) \/ ApplyFails(c)
      PROVE  Knows(q)' /\ \A r \in Callers \ {q} : ~Live(r)'
  BY <1>6 DEF ApplyNothing, ApplyChanges, ApplyFails
<1>7. ASSUME NEW c \in Callers, ForgetPlan(c)
      PROVE  Knows(q)' /\ \A r \in Callers \ {q} : ~Live(r)'
  BY <1>7 DEF ForgetPlan
<1>8. CASE ChangeURL
  BY <1>8 DEF ChangeURL
<1>9. CASE HubCrash
  BY <1>9 DEF HubCrash
<1>10. CASE UNCHANGED vars
  BY <1>10 DEF vars
<1> QED
  BY <1>1, <1>2, <1>3, <1>4, <1>5, <1>6, <1>7, <1>8, <1>9, <1>10
     DEF Next, HubStep

(* A run without company, restart or fallback that reports success leaves  *)
(* the database with its own schema.                                       *)
THEOREM SoloRunsTakeEffect == Spec => []SoloRunTakesEffect
<1>1. SoloInv => SoloRunTakesEffect
  BY DEF SoloInv, Knows, SoloRunTakesEffect
<1> QED
  BY <1>1, SoloInvInit, SoloInvStep, TypeCorrect, PTL DEF Spec

(* The sentence that AppliesItsPlan quotes and that other runs refute, for *)
(* a run that meets none: it applies the schema its user confirmed.        *)
THEOREM SoloRunsApplyTheirPlan ==
  Spec => [](\A c \in Callers : solo[c] /\ at[c] = "applied" => target[c] = want[c])
<1>1. SoloInv => \A c \in Callers : solo[c] /\ at[c] = "applied" => target[c] = want[c]
  BY DEF SoloInv, Knows
<1> QED
  BY <1>1, SoloInvInit, SoloInvStep, TypeCorrect, PTL DEF Spec

-----------------------------------------------------------------------------
(* The logic pipeline: lemmas about directories *)

(* A directory of some texts has for each file one of its texts.           *)
LEMMA DirsWithMember ==
  ASSUME NEW texts, \A f \in Files : texts[f] # {}, NEW d
  PROVE  d \in DirsWith(texts) <=>
           d = [f \in Files |-> d[f]] /\ \A f \in Files : d[f] \in texts[f]
<1> DEFINE open == {f \in Files : \E t, u \in texts[f] : t # u}
           choices == {c \in [open -> UNION {texts[f] : f \in open}] :
                         \A f \in open : c[f] \in texts[f]}
           dir(c) == [f \in Files |-> IF f \in open THEN c[f]
                                      ELSE CHOOSE t \in texts[f] : TRUE]
<1>1. DirsWith(texts) = {dir(c) : c \in choices}
  BY Zenon DEF DirsWith
<1>2. ASSUME NEW c \in choices, d = dir(c)
      PROVE  d = [f \in Files |-> d[f]] /\ \A f \in Files : d[f] \in texts[f]
  BY <1>2
<1>3. ASSUME d = [f \in Files |-> d[f]], \A f \in Files : d[f] \in texts[f]
      PROVE  \E c \in choices : d = dir(c)
  <2> DEFINE c == [f \in open |-> d[f]]
  <2>1. c \in choices
    BY <1>3
  <2>2. \A f \in Files : dir(c)[f] = d[f]
    <3> SUFFICES ASSUME NEW f \in Files PROVE dir(c)[f] = d[f]
      OBVIOUS
    <3>1. CASE f \in open
      BY <3>1
    <3>2. CASE f \notin open
      BY <3>2, <1>3
    <3> QED
      BY <3>1, <3>2
  <2>3. dir(c) = [f \in Files |-> d[f]]
    BY <2>2
  <2> HIDE DEF c, dir, choices
  <2> QED
    BY <2>1, <2>3, <1>3
<1> QED
  BY <1>1, <1>2, <1>3

(* More texts, more directories.                                           *)
LEMMA DirsWithMonotone ==
  ASSUME NEW texts, NEW more,
         \A f \in Files : texts[f] # {} /\ texts[f] \subseteq more[f]
  PROVE  DirsWith(texts) \subseteq DirsWith(more)
<1> SUFFICES ASSUME NEW d \in DirsWith(texts) PROVE d \in DirsWith(more)
  OBVIOUS
<1>1. d = [f \in Files |-> d[f]] /\ \A f \in Files : d[f] \in texts[f]
  BY DirsWithMember
<1>2. \A f \in Files : more[f] # {} /\ d[f] \in more[f]
  BY <1>1
<1> QED
  BY <1>1, <1>2, DirsWithMember

(* The settings of an entry: what the parser, and then the metadata file,  *)
(* make of its front matters is what Access and Params say.                *)
LEMMA ConfigOfDirectory ==
  ASSUME NEW d, NEW e, NEW meta, NEW ext,
         \/ meta = None /\ Of(d, e, MetaExt) = {}
         \/ meta # None /\ Of(d, e, MetaExt) # {} /\ meta = d[Metadata(d, e)]
  PROVE  applyLogicMetadata(ParseLogicFile(d[Source(d, e)], ext).config, meta)
           = [access |-> Access(d, e), params |-> Params(d, e)]
<1> DEFINE text == d[Source(d, e)]
           first == IF Of(d, e, MetaExt) = {} THEN Unset ELSE d[Metadata(d, e)]
           fence == IF text.fence = None THEN Unset ELSE text.fence
           block == IF text.block = None THEN Unset ELSE text.block
           config == Unmarshal(Unmarshal(Unset, text.block), text.fence)
           accessSet == {i \in 1 .. 3 : Said(d, e)[i].access # None}
           paramsSet == {i \in 1 .. 3 : Said(d, e)[i].params # None}
<1>1. Said(d, e)[1] = first /\ Said(d, e)[2] = fence /\ Said(d, e)[3] = block
  BY Zenon DEF Said
<1>2. Unset.access = None /\ Unset.params = None
  BY DEF Unset
<1>3. config.access = IF fence.access # None THEN fence.access ELSE block.access
  BY <1>2 DEF Unmarshal
<1>4. config.params = IF fence.params = None THEN block.params
                      ELSE IF block.params = None THEN fence.params
                      ELSE [p \in DOMAIN fence.params |->
                              IF fence.params[p] # None THEN fence.params[p]
                              ELSE block.params[p]]
  BY <1>2 DEF Unmarshal
<1>5. config = [access |-> config.access, params |-> config.params]
  BY <1>2 DEF Unmarshal, Unset
<1> HIDE DEF text, first, fence, block, config
<1>6. Access(d, e) = IF first.access # None THEN first.access
                     ELSE IF fence.access # None THEN fence.access ELSE block.access
  BY <1>1 DEF Access
<1>7. Params(d, e) = IF first.params # None THEN first.params
                     ELSE config.params
  BY <1>1, <1>4 DEF Params
<1>8. ParseLogicFile(text, ext).config = config
  BY DEF ParseLogicFile, config
<1>9. applyLogicMetadata(config, meta) =
        [access |-> IF first.access # None THEN first.access ELSE config.access,
         params |-> IF first.params # None THEN first.params ELSE config.params]
  BY <1>2, <1>5 DEF applyLogicMetadata, first
<1> QED
  BY <1>3, <1>6, <1>7, <1>8, <1>9 DEF text

(* The bundle of an entry with one source is the one of Deployment.        *)
LEMMA BundleOfDirectory ==
  ASSUME NEW d, NEW e, NEW entry, NEW f,
         Of(d, e, LogicExt) = {f},
         entry.contents = {ParseLogicFile(d[f], f.ext)},
         \/ entry.meta = None /\ Of(d, e, MetaExt) = {}
         \/ entry.meta # None /\ Of(d, e, MetaExt) # {} /\ entry.meta = d[Metadata(d, e)]
  PROVE  BundleLogic(e, entry) =
           [entry |-> e, type |-> Source(d, e).ext, content |-> d[Source(d, e)].body,
            config |-> [access |-> Access(d, e), params |-> Params(d, e)]]
<1>1. Source(d, e) = f
  BY DEF Source
<1>2. (CHOOSE c \in entry.contents : TRUE) = ParseLogicFile(d[f], f.ext)
  OBVIOUS
<1> DEFINE content == ParseLogicFile(d[f], f.ext)
<1>3. content.type = f.ext /\ content.body = d[f].body
  BY DEF ParseLogicFile
<1>4. applyLogicMetadata(content.config, entry.meta)
        = [access |-> Access(d, e), params |-> Params(d, e)]
  BY <1>1, ConfigOfDirectory
<1> QED
  BY <1>1, <1>2, <1>3, <1>4 DEF BundleLogic

(* Of several metadata files of an entry, Metadata is the .yml.            *)
LEMMA MetadataIsOfTheEntry ==
  ASSUME NEW d, NEW e, Of(d, e, MetaExt) # {}
  PROVE  /\ Metadata(d, e) \in Of(d, e, MetaExt)
         /\ \A g \in Of(d, e, {"yml"}) : g = Metadata(d, e)
<1> USE DEF Of, MetaExt
<1> DEFINE wanted(f) == Of(d, e, {"yml"}) # {} => f.ext = "yml"
<1>1. \E f \in Of(d, e, MetaExt) : wanted(f)
  OBVIOUS
<1>2. Metadata(d, e) \in Of(d, e, MetaExt) /\ wanted(Metadata(d, e))
  BY <1>1 DEF Metadata
<1>3. \A f, g \in Files : f.entry = g.entry /\ f.ext = g.ext => f = g
  BY PipelineAssumption
<1> QED
  BY <1>2, <1>3

(* The types made of a deployment are the SDK of its directory.            *)
LEMMA TypesOfDeployment ==
  ASSUME NEW d PROVE GenerateTypes(Deployment(d)) = Sdk(d)
<1> DEFINE bundle(e) ==
             [entry |-> e, type |-> Source(d, e).ext, content |-> d[Source(d, e)].body,
              config |-> [access |-> Access(d, e), params |-> Params(d, e)]]
           type(b) == Signature(b.entry, b.config.params)
<1>1. \A e : bundle(e).entry = e /\ type(bundle(e)) = Signature(e, Params(d, e))
  OBVIOUS
<1>2. Deployment(d) = {bundle(e) : e \in EntriesOf(d)}
  BY Zenon DEF Deployment
<1>3. GenerateTypes(Deployment(d)) =
        {type(b) : b \in {b \in Deployment(d) : b.entry \notin Private}}
  BY Zenon DEF GenerateTypes
<1> HIDE DEF bundle, type
<1>4. GenerateTypes(Deployment(d)) =
        {Signature(e, Params(d, e)) : e \in EntriesOf(d) \ Private}
  BY <1>1, <1>2, <1>3
<1> QED
  BY <1>4 DEF Sdk

-----------------------------------------------------------------------------
(* The logic pipeline: type correctness *)

LEMMA DeploymentIsManifest ==
  ASSUME NEW d, Valid(d) PROVE IsManifest(Deployment(d))
<1> DEFINE bundle(e) ==
             [entry |-> e, type |-> Source(d, e).ext, content |-> d[Source(d, e)].body,
              config |-> [access |-> Access(d, e), params |-> Params(d, e)]]
<1>1. \A e : bundle(e).entry = e /\ bundle(e).type = Source(d, e).ext
  OBVIOUS
<1>2. Deployment(d) = {bundle(e) : e \in EntriesOf(d)}
  BY Zenon DEF Deployment
<1> HIDE DEF bundle
<1>3. ASSUME NEW e \in EntriesOf(d)
      PROVE  e \in Entries \ Misplaced /\ Source(d, e).ext \in LogicExt
  <2>1. PICK f \in Files : Of(d, e, LogicExt) = {f}
    BY DEF Valid
  <2>2. Source(d, e) = f /\ f.ext \in LogicExt
    BY <2>1 DEF Source, Of
  <2> QED
    BY <2>2 DEF Valid, EntriesOf
<1> QED
  BY <1>1, <1>2, <1>3 DEF IsManifest

LEMMA PipelineTypeInit == PipelineInit => PipelineTypeOK
<1> SUFFICES ASSUME PipelineInit PROVE PipelineTypeOK
  OBVIOUS
<1> USE PipelineAssumption DEF PipelineInit
<1>1. IsManifest(hub)
  BY DeploymentIsManifest, EarlierAssumption DEF IsManifest
<1>2. \A r \in Runs : IsManifest(mem[r])
  BY DEF IsManifest
<1>3. IsDirectory(tree)
  OBVIOUS
<1>4. \A r \in Runs : DOMAIN entries[r] = {}
  <2>1. DOMAIN <<>> = {}
    OBVIOUS
  <2> QED
    BY <2>1
<1> QED
  BY <1>1, <1>2, <1>3, <1>4 DEF PipelineTypeOK, Stages, Building

LEMMA PipelineTypeStep == PipelineTypeOK /\ [PipelineNext]_pipelineVars => PipelineTypeOK'
<1> SUFFICES ASSUME PipelineTypeOK, [PipelineNext]_pipelineVars PROVE PipelineTypeOK'
  OBVIOUS
<1> USE PipelineAssumption DEF Enter, Stages, Building, InSync, Outputs, Writing, run
<1>1. /\ IsManifest(hub) /\ \A r \in Runs : IsManifest(mem[r])
      /\ \A r \in Runs : \A e \in DOMAIN entries[r] : IsEntry(entries[r][e])
  BY DEF PipelineTypeOK
<1> DEFINE Rest ==
      /\ IsDirectory(tree)
      /\ edits \in 0 .. MaxEdits
      /\ DOMAIN out = Outputs /\ mixed \subseteq Outputs
      /\ stage \in [Runs -> Stages]
      /\ op \in [Runs -> Offered \union {None}]
      /\ list \in [Runs -> SUBSET {f \in Files : f.ext \in KnownExt}]
      /\ DOMAIN entries = Runs /\ DOMAIN mem = Runs
      /\ \A r \in Runs : DOMAIN entries[r] \subseteq Entries
      /\ DOMAIN had = Runs /\ \A r \in Runs : DOMAIN had[r] = Files
      /\ quiet \subseteq Runs
<1>2. Rest
  BY DEF PipelineTypeOK
<1> SUFFICES /\ Rest' /\ IsManifest(hub)' /\ \A r \in Runs : IsManifest(mem[r])'
             /\ \A r \in Runs : \A e \in DOMAIN entries'[r] : IsEntry(entries'[r][e])
  BY DEF PipelineTypeOK
<1>3. ASSUME NEW r \in Runs, NEW o \in Offered, Start(r, o)
      PROVE  /\ Rest' /\ UNCHANGED <<hub, mem, entries>>
  BY <1>3, <1>2 DEF Start
<1>4. ASSUME NEW r \in Runs, ScanLogic(r)
      PROVE  /\ Rest' /\ UNCHANGED <<hub, mem, entries>>
  <2>1. PICK place \in Stages, read \in SUBSET {f \in Files : f.ext \in KnownExt} :
          Enter(r, place) /\ list' = [list EXCEPT ![r] = read]
    BY <1>4 DEF ScanLogic
  <2> QED
    BY <1>4, <2>1, <1>2 DEF ScanLogic
<1>5. ASSUME NEW r \in Runs, ReadFile(r)
      PROVE  /\ Rest' /\ UNCHANGED <<hub, mem>>
             /\ \A q \in Runs : \A e \in DOMAIN entries'[q] : IsEntry(entries'[q][e])
  <2>1. PICK f \in list[r] :
          IF tree[f] = None \/ Rejected(EntryOf(r, f.entry), f, tree[f])
          THEN UNCHANGED <<list, entries>>
          ELSE /\ entries' = [entries EXCEPT ![r] =
                    [e \in DOMAIN entries[r] \union {f.entry} |->
                       IF e = f.entry THEN WithFile(EntryOf(r, e), f, tree[f])
                       ELSE entries[r][e]]]
               /\ list' = [list EXCEPT ![r] = @ \ {f}]
    BY <1>5, Zenon DEF ReadFile
  <2>2. list[r] \in SUBSET {g \in Files : g.ext \in KnownExt}
    BY <1>2
  <2>3. f \in Files /\ f.ext \in KnownExt /\ f.entry \in Entries
    BY <2>2
  <2>4. UNCHANGED <<tree, edits, hub, out, mixed, op, mem, had, quiet>>
    BY <1>5 DEF ReadFile
  <2>5. stage' \in [Runs -> Stages]
    BY <1>5, <1>2 DEF ReadFile
  <2>6. CASE UNCHANGED <<list, entries>>
    BY <2>4, <2>5, <2>6, <1>1, <1>2
  <2>7. CASE ~UNCHANGED <<list, entries>>
    <3> DEFINE new == WithFile(EntryOf(r, f.entry), f, tree[f])
    <3>1. tree[f] # None /\ ~Rejected(EntryOf(r, f.entry), f, tree[f])
      BY <2>1, <2>7, Zenon
    <3>2. IsEntry(EntryOf(r, f.entry))
      BY <1>1 DEF EntryOf, IsEntry
    <3>3. f.ext \in MetaExt => IsMeta(tree[f])
      BY <3>1, <2>3, <1>2
         DEF IsDirectory, IsText, Rejected, IsMalformed, MetaExt, LogicExt
    <3>4. IsMeta(ParseLogicFile(tree[f], f.ext).config)
          /\ ParseLogicFile(tree[f], f.ext).type = f.ext
      BY DEF ParseLogicFile, Unmarshal, Unset, IsMeta
    <3>5. IsEntry(new)
      BY <3>2, <3>3, <3>4 DEF WithFile, IsEntry
    <3> HIDE DEF new
    <3>6. /\ DOMAIN entries' = Runs
          /\ DOMAIN entries'[r] = DOMAIN entries[r] \union {f.entry}
          /\ \A e \in DOMAIN entries'[r] :
               entries'[r][e] = IF e = f.entry THEN new ELSE entries[r][e]
          /\ \A q \in Runs \ {r} : entries'[q] = entries[q]
      <4>1. entries' = [entries EXCEPT ![r] =
                          [e \in DOMAIN entries[r] \union {f.entry} |->
                             IF e = f.entry THEN WithFile(EntryOf(r, e), f, tree[f])
                             ELSE entries[r][e]]]
        BY <2>1, <3>1, Zenon
      <4> QED
        BY <4>1, <1>2 DEF new
    <3>7. list' \in [Runs -> SUBSET {g \in Files : g.ext \in KnownExt}]
      <4>1. list' = [list EXCEPT ![r] = list[r] \ {f}]
        BY <2>1, <3>1, Zenon
      <4>2. list[r] \ {f} \in SUBSET {g \in Files : g.ext \in KnownExt}
        BY <2>2
      <4> QED
        BY <4>1, <4>2, <1>2
    <3>8. \A q \in Runs : \A e \in DOMAIN entries'[q] : IsEntry(entries'[q][e])
      BY <3>5, <3>6, <1>1
    <3>9. ASSUME NEW q \in Runs PROVE DOMAIN entries'[q] \subseteq Entries
      <4>1. DOMAIN entries[q] \subseteq Entries
        BY <1>2
      <4>2. CASE q = r
        BY <4>1, <4>2, <3>6, <2>3
      <4>3. CASE q # r
        BY <4>1, <4>3, <3>6
      <4> QED
        BY <4>2, <4>3
    <3> QED
      BY <3>6, <3>7, <3>8, <3>9, <2>4, <2>5, <1>2
  <2> QED
    BY <2>6, <2>7
<1>6. ASSUME NEW r \in Runs, Build(r)
      PROVE  /\ Rest' /\ UNCHANGED <<hub, entries>>
             /\ \A q \in Runs : IsManifest(mem'[q])
  <2> DEFINE Bundle(e) == BundleLogic(e, entries[r][e])
  <2>1. CASE ~UNCHANGED mem
    <3>1. /\ \A e \in DOMAIN entries[r] :
               /\ entries[r][e].contents # {}
               /\ ValidateLogicConfig(e, Bundle(e).content, Bundle(e).config)
          /\ mem' = [mem EXCEPT ![r] = {Bundle(e) : e \in DOMAIN entries[r]}]
      BY <1>6, <2>1, Zenon DEF Build
    <3>2. ASSUME NEW e \in DOMAIN entries[r]
          PROVE  /\ Bundle(e).entry = e /\ e \in Entries \ Misplaced
                 /\ Bundle(e).type \in LogicExt
      <4>1. (CHOOSE c \in entries[r][e].contents : TRUE).type \in LogicExt
        BY <3>1, <1>1 DEF IsEntry
      <4>2. Bundle(e).entry = e /\ Bundle(e).type \in LogicExt
        BY <4>1 DEF BundleLogic
      <4> QED
        BY <4>2, <3>1, <1>2 DEF ValidateLogicConfig
    <3> HIDE DEF Bundle
    <3>3. IsManifest({Bundle(e) : e \in DOMAIN entries[r]})
      BY <3>2 DEF IsManifest
    <3>4. \A q \in Runs : IsManifest(mem'[q])
      BY <3>1, <3>3, <1>1, <1>2
    <3>5. DOMAIN mem' = Runs
      BY <3>1, <1>2
    <3>6. stage' \in [Runs -> Stages]
      BY <1>6, <1>2 DEF Build
    <3> QED
      BY <1>6, <3>4, <3>5, <3>6, <1>2 DEF Build
  <2>2. CASE UNCHANGED mem
    <3>1. stage' \in [Runs -> Stages]
      BY <1>6, <1>2 DEF Build
    <3> QED
      BY <1>6, <2>2, <3>1, <1>1, <1>2 DEF Build
  <2> QED
    BY <2>1, <2>2
<1>7. ASSUME NEW r \in Runs, Send(r) \/ RequestFails(r) \/ Interrupt(r)
      PROVE  Rest' /\ UNCHANGED <<hub, mem, entries>>
  BY <1>7, <1>2 DEF Send, RequestFails, Interrupt
<1>8. ASSUME NEW r \in Runs, handlePushManifest(r)
      PROVE  Rest' /\ UNCHANGED <<mem, entries>> /\ hub' = mem[r]
  BY <1>8, <1>2 DEF handlePushManifest
<1>9. ASSUME NEW r \in Runs, FetchManifest(r)
      PROVE  /\ Rest' /\ UNCHANGED <<hub, entries>>
             /\ \A q \in Runs : IsManifest(mem'[q])
  BY <1>9, <1>1, <1>2 DEF FetchManifest
<1>10. ASSUME NEW r \in Runs, NEW f \in Outputs, BeginWrite(r, f) \/ EndWrite(r, f)
      PROVE  Rest' /\ UNCHANGED <<hub, mem, entries>>
  BY <1>10, <1>2 DEF BeginWrite, EndWrite
<1>11. ASSUME NEW edit \in Edits, Edit(edit[1], edit[2])
      PROVE  Rest' /\ UNCHANGED <<hub, mem, entries>>
  <2> DEFINE f == edit[1]
             t == edit[2]
  <2>1. f \in Files /\ IsText(t, f)
    OBVIOUS
  <2>2. IsDirectory(tree')
    BY <1>11, <2>1, <1>2 DEF Edit, IsDirectory
  <2>3. edits' \in 0 .. MaxEdits
    <3>1. edits \in 0 .. MaxEdits /\ edits < MaxEdits /\ edits' = edits + 1
      BY <1>11, <1>2 DEF Edit
    <3>2. MaxEdits \in Nat
      OBVIOUS
    <3> QED
      BY <3>1, <3>2
  <2>4. DOMAIN had' = Runs /\ \A r \in Runs : DOMAIN had'[r] = Files
    BY <1>11, <1>2 DEF Edit
  <2> QED
    BY <1>11, <2>2, <2>3, <2>4, <1>2 DEF Edit
<1>12. CASE UNCHANGED pipelineVars
  BY <1>12, <1>1, <1>2 DEF pipelineVars
<1> HIDE DEF Rest
<1> QED
  BY <1>1, <1>3, <1>4, <1>5, <1>6, <1>7, <1>8, <1>9, <1>10, <1>11, <1>12
     DEF PipelineNext, RunStep

(* Runs, the directory, the Hub and the written files keep their types; so *)
(* no manifest has a misplaced entry or two bundles of one entry.          *)
THEOREM PipelineTypeCorrect == PipelineSpec => []PipelineTypeOK
BY PipelineTypeInit, PipelineTypeStep, PTL DEF PipelineSpec

-----------------------------------------------------------------------------
(* The logic pipeline: the verdict of a run *)

(* A run knows its command, and from its begin the texts of the files.     *)
CommandInv(r) ==
  /\ stage[r] = "idle" => op[r] = None
  /\ stage[r] \in InSync => op[r] = "sync"
  /\ stage[r] \in Building \union {"refused", "nothing"} => op[r] \in {"apply", "validate"}
  /\ stage[r] \in {"send", "request", "abandoned"} => op[r] = "apply"
  /\ stage[r] \in {"idle", "scan"} => DOMAIN entries[r] = {}

HadInv(r) ==
  /\ op[r] \in {"apply", "validate"} => \A f \in Files : had[r][f] # {}
  /\ stage[r] \in Building => \A f \in Files : tree[f] \in had[r][f]

(* The files a run has read, when it takes them for those of d, and what   *)
(* the loop over them has made of each.                                    *)
Got(r, d) == {f \in Files : f.ext \in KnownExt /\ f \notin list[r] /\ d[f] # None}

IsRead(r, d, f) ==
  /\ f.entry \in DOMAIN entries[r]
  /\ f.ext # "hcl" => ~IsMalformed(d[f])
  /\ f.ext \in LogicExt =>
       /\ entries[r][f.entry].contents = {ParseLogicFile(d[f], f.ext)}
       /\ \A g \in Got(r, d) : g.entry = f.entry /\ g.ext \in LogicExt => g = f
  /\ /\ f.ext \in MetaExt
     /\ \A g \in Got(r, d) : g.entry = f.entry /\ g.ext = "yml" => g = f
     => entries[r][f.entry].meta = d[f]

Agrees(r, d) ==
  /\ list[r] \union Got(r, d) # {}
  /\ \A f \in list[r], g \in Got(r, d) : Rank[g] < Rank[f]
  /\ \A f \in Got(r, d) : IsRead(r, d, f)
  /\ \A e \in DOMAIN entries[r] :
       /\ \E f \in Got(r, d) : f.entry = e
       /\ \/ entries[r][e].contents = {}
          \/ \E f \in Got(r, d) : f.entry = e /\ f.ext \in LogicExt
       /\ \/ entries[r][e].meta = None
          \/ \E f \in Got(r, d) : f.entry = e /\ f.ext \in MetaExt

ReadInv(r) == stage[r] = "read" => \E d \in DirsOf(r) : Agrees(r, d)

(* VerdictIsOfADirectory, of one run.                                      *)
Judged(r) ==
  op[r] \in {"apply", "validate"} /\ stage[r] \notin Building \union {"idle", "stopped"}
VerdictOn(r, d) ==
  /\ stage[r] = "refused" <=> ~Valid(d)
  /\ stage[r] = "nothing" <=> EntriesOf(d) = {}
  /\ stage[r] \notin {"refused", "nothing"} => mem[r] = Deployment(d)
VerdictInv(r) == Judged(r) => \E d \in DirsOf(r) : VerdictOn(r, d)

RunInv(r) == CommandInv(r) /\ HadInv(r) /\ ReadInv(r) /\ VerdictInv(r)
PipelineInv == \A r \in Runs : RunInv(r)

LEMMA PipelineInvInit == PipelineTypeOK /\ PipelineInit => PipelineInv
<1> SUFFICES ASSUME PipelineInit, NEW r \in Runs PROVE RunInv(r)
  BY DEF PipelineInv
<1>1. DOMAIN <<>> = {}
  OBVIOUS
<1>2. stage[r] = "idle" /\ op[r] = None /\ DOMAIN entries[r] = {}
  BY <1>1 DEF PipelineInit
<1>3. None \notin {"apply", "validate"}
  BY PipelineAssumption DEF Commands
<1> QED
  BY <1>2, <1>3
     DEF RunInv, CommandInv, HadInv, ReadInv, VerdictInv, Judged, Building, InSync, Outputs

(* A run that takes no step knows what it knew, whatever the others do.    *)
LEMMA RunFrame ==
  ASSUME NEW q \in Runs, RunInv(q),
         stage'[q] = stage[q], op'[q] = op[q], list'[q] = list[q],
         entries'[q] = entries[q], mem'[q] = mem[q], had'[q] = had[q],
         stage[q] \in Building => tree' = tree
  PROVE  RunInv(q)'
<1>1. CommandInv(q)'
  BY DEF RunInv, CommandInv
<1>2. HadInv(q)'
  BY DEF RunInv, HadInv
<1>3. DirsOf(q)' = DirsOf(q)
  BY DEF DirsOf, DirsWith
<1>4. ReadInv(q)'
  <2> SUFFICES ASSUME stage[q] = "read" PROVE \E d \in DirsOf(q) : Agrees(q, d)'
    BY <1>3 DEF ReadInv
  <2>1. PICK d \in DirsOf(q) : Agrees(q, d)
    BY DEF RunInv, ReadInv
  <2>2. Got(q, d)' = Got(q, d)
    BY DEF Got
  <2>3. Agrees(q, d)'
    BY <2>1, <2>2 DEF Agrees, IsRead
  <2> QED
    BY <2>3
<1>5. VerdictInv(q)'
  <2> SUFFICES ASSUME Judged(q) PROVE \E d \in DirsOf(q) : VerdictOn(q, d)'
    BY <1>3 DEF VerdictInv, Judged
  <2>1. PICK d \in DirsOf(q) : VerdictOn(q, d)
    BY DEF RunInv, VerdictInv
  <2>2. VerdictOn(q, d)'
    BY <2>1 DEF VerdictOn
  <2> QED
    BY <2>2
<1> QED
  BY <1>1, <1>2, <1>4, <1>5 DEF RunInv

(* What is judged stays judged: later steps change no directory and no     *)
(* manifest of the run.                                                    *)
LEMMA VerdictStays ==
  ASSUME NEW r \in Runs, VerdictInv(r),
         Judged(r), stage[r] \notin {"refused", "nothing"},
         stage'[r] \notin {"refused", "nothing"},
         mem'[r] = mem[r], had'[r] = had[r]
  PROVE  VerdictInv(r)'
<1>1. PICK d \in DirsOf(r) : VerdictOn(r, d)
  BY DEF VerdictInv
<1>2. DirsOf(r)' = DirsOf(r)
  BY DEF DirsOf
<1>3. VerdictOn(r, d)'
  BY <1>1 DEF VerdictOn
<1> QED
  BY <1>2, <1>3 DEF VerdictInv

(* What is found and what is not: the files that are left to read, and a   *)
(* directory that has no other file of a known extension.                  *)
LEMMA ScanLogicStep ==
  ASSUME PipelineTypeOK, NEW r \in Runs, RunInv(r), ScanLogic(r)
  PROVE  RunInv(r)'
<1> USE DEF Enter
<1>1. PICK found \in SUBSET {f \in Files : had[r][f] # {None}} :
        /\ \A f \in Files : None \notin had[r][f] => f \in found
        /\ list' = [list EXCEPT ![r] = {f \in found : f.ext \in KnownExt}]
        /\ Enter(r, IF list'[r] = {} THEN "nothing" ELSE "read")
  BY Zenon DEF ScanLogic
<1>2. /\ stage[r] = "scan" /\ op[r] \in {"apply", "validate"}
      /\ UNCHANGED <<tree, op, entries, mem, had>>
  BY DEF ScanLogic, RunInv, CommandInv, Building
<1>3. /\ list'[r] = {f \in found : f.ext \in KnownExt}
      /\ stage'[r] = IF list'[r] = {} THEN "nothing" ELSE "read"
  BY <1>1 DEF PipelineTypeOK
<1>4. DOMAIN entries[r] = {} /\ \A f \in Files : had[r][f] # {} /\ tree[f] \in had[r][f]
  BY <1>2 DEF RunInv, CommandInv, HadInv, Building
<1>5. PICK d \in DirsOf(r) : \A f \in Files : f \notin found => d[f] = None
  <2> DEFINE e == [f \in Files |-> IF f \in found THEN CHOOSE t \in had[r][f] : t # None
                                   ELSE None]
  <2>1. ASSUME NEW f \in Files
        PROVE  e[f] \in had[r][f] /\ (f \notin found => e[f] = None)
    <3>1. CASE f \in found
      <4>1. \E t \in had[r][f] : t # None
        BY <3>1, <1>4
      <4> QED
        BY <3>1, <4>1
    <3>2. CASE f \notin found
      BY <3>2, <1>1
    <3> QED
      BY <3>1, <3>2
  <2>2. e = [f \in Files |-> e[f]]
    OBVIOUS
  <2> HIDE DEF e
  <2>3. e \in DirsOf(r)
    BY <1>4, <2>1, <2>2, DirsWithMember DEF DirsOf
  <2> QED
    BY <2>1, <2>3
<1>6. d \in DirsOf(r)'
  BY <1>2, <1>5 DEF DirsOf
<1>7. CommandInv(r)' /\ HadInv(r)'
  BY <1>2, <1>3, <1>4 DEF CommandInv, HadInv, InSync, Outputs, Building
<1>8. CASE list'[r] = {}
  <2>1. EntriesOf(d) = {}
    BY <1>3, <1>5, <1>8 DEF EntriesOf, Of
  <2>2. Valid(d)
    BY <2>1 DEF Valid
  <2>3. VerdictOn(r, d)'
    BY <1>3, <1>8, <2>1, <2>2 DEF VerdictOn
  <2> QED
    BY <1>3, <1>6, <1>7, <1>8, <2>3 DEF RunInv, ReadInv, VerdictInv
<1>9. CASE list'[r] # {}
  <2>1. Got(r, d)' = {}
    BY <1>3, <1>5 DEF Got
  <2>2. Agrees(r, d)'
    BY <1>2, <1>4, <1>9, <2>1 DEF Agrees
  <2>3. ~Judged(r)'
    BY <1>3, <1>9 DEF Judged, Building
  <2> QED
    BY <1>6, <1>7, <2>2, <2>3 DEF RunInv, ReadInv, VerdictInv
<1> QED
  BY <1>8, <1>9

(* One more file: the directory has the text that was read.                *)
LEMMA ReadFileStep ==
  ASSUME PipelineTypeOK, NEW r \in Runs, RunInv(r), ReadFile(r)
  PROVE  RunInv(r)'
<1> USE DEF Enter
<1>1. PICK f \in list[r] :
        /\ \A g \in list[r] : Rank[f] <= Rank[g]
        /\ IF tree[f] = None \/ Rejected(EntryOf(r, f.entry), f, tree[f])
           THEN /\ Enter(r, IF tree[f] = None THEN "stopped" ELSE "refused")
                /\ UNCHANGED <<list, entries>>
           ELSE /\ entries' = [entries EXCEPT ![r] =
                     [e \in DOMAIN entries[r] \union {f.entry} |->
                        IF e = f.entry THEN WithFile(EntryOf(r, e), f, tree[f])
                        ELSE entries[r][e]]]
                /\ list' = [list EXCEPT ![r] = @ \ {f}]
                /\ UNCHANGED stage
  BY Zenon DEF ReadFile
<1>2. /\ stage[r] = "read" /\ op[r] \in {"apply", "validate"}
      /\ UNCHANGED <<tree, op, mem, had>>
  BY DEF ReadFile, RunInv, CommandInv, Building
<1>3. /\ list[r] \in SUBSET {g \in Files : g.ext \in KnownExt}
      /\ stage \in [Runs -> Stages]
      /\ DOMAIN list = Runs /\ DOMAIN entries = Runs /\ DOMAIN entries[r] \subseteq Entries
  BY DEF PipelineTypeOK
<1>4. \A g \in Files : had[r][g] # {} /\ tree[g] \in had[r][g]
  BY <1>2 DEF RunInv, HadInv, Building
<1>5. /\ f \in Files /\ f.ext \in KnownExt
      /\ \A g \in Files : Rank[g] \in Nat
      /\ \A g, h \in Files : Rank[g] = Rank[h] => g = h
      /\ \A g \in Files : g.entry \in Entries
      /\ \A g \in Files : f.entry = g.entry /\ f.ext = "yaml" /\ g.ext = "yml" => Rank[f] < Rank[g]
  <2>1. f \in Files /\ f.ext \in KnownExt
    BY <1>3
  <2> QED
    BY <2>1, PipelineAssumption
<1>6. PICK c \in DirsOf(r) : Agrees(r, c)
  BY <1>2 DEF RunInv, ReadInv
<1>7. c = [g \in Files |-> c[g]] /\ \A g \in Files : c[g] \in had[r][g]
  BY <1>4, <1>6, DirsWithMember DEF DirsOf
<1>8. PICK d \in DirsOf(r) : /\ d[f] = tree[f]
                             /\ \A g \in Files \ {f} : d[g] = c[g]
  <2> DEFINE e == [g \in Files |-> IF g = f THEN tree[f] ELSE c[g]]
  <2>1. \A g \in Files : e[g] = IF g = f THEN tree[f] ELSE c[g]
    OBVIOUS
  <2>2. e = [g \in Files |-> e[g]]
    OBVIOUS
  <2> HIDE DEF e
  <2>3. \A g \in Files : e[g] \in had[r][g]
    BY <2>1, <1>4, <1>7
  <2>4. e \in DirsOf(r)
    BY <1>4, <2>2, <2>3, DirsWithMember DEF DirsOf
  <2> QED
    BY <2>1, <2>4, <1>5
<1>9. DirsOf(r)' = DirsOf(r)
  BY <1>2 DEF DirsOf
<1>10. CASE tree[f] = None
  <2>1. stage'[r] = "stopped"
    BY <1>1, <1>3, <1>10
  <2> QED
    BY <1>2, <2>1 DEF RunInv, CommandInv, HadInv, ReadInv, VerdictInv, Judged, InSync,
                      Outputs, Building
<1>11. CASE tree[f] # None /\ Rejected(EntryOf(r, f.entry), f, tree[f])
  <2> DEFINE e == f.entry
  <2>1. stage'[r] = "refused"
    BY <1>1, <1>3, <1>11
  <2>2. f \in Of(d, e, KnownExt) /\ e \in EntriesOf(d)
    BY <1>5, <1>8, <1>11 DEF Of, EntriesOf
  <2>3. ASSUME f.ext # "hcl" /\ IsMalformed(tree[f]) PROVE ~Valid(d)
    <3>1. f \in Of(d, e, MetaExt \union LogicExt)
      BY <2>2, <2>3 DEF Of, KnownExt
    <3> QED
      BY <3>1, <2>2, <2>3, <1>8 DEF Valid
  <2>4. ASSUME f.ext \in LogicExt /\ EntryOf(r, e).contents # {} PROVE ~Valid(d)
    <3>1. PICK g \in Got(r, c) : g.entry = e /\ g.ext \in LogicExt
      BY <2>4, <1>6 DEF EntryOf, Agrees
    <3>2. g \in Files /\ g # f /\ d[g] # None
      BY <3>1, <1>8 DEF Got
    <3>3. f \in Of(d, e, LogicExt) /\ g \in Of(d, e, LogicExt)
      BY <3>1, <3>2, <2>2, <2>4 DEF Of
    <3> QED
      BY <3>2, <3>3, <2>2 DEF Valid
  <2>5. ~Valid(d)
    BY <2>3, <2>4, <1>11 DEF Rejected
  <2>6. VerdictOn(r, d)'
    BY <2>1, <2>2, <2>5 DEF VerdictOn
  <2> QED
    BY <1>2, <1>9, <2>1, <2>6 DEF RunInv, CommandInv, HadInv, ReadInv, VerdictInv, Judged,
                                   InSync, Outputs, Building
<1>12. CASE tree[f] # None /\ ~Rejected(EntryOf(r, f.entry), f, tree[f])
  <2> DEFINE new == WithFile(EntryOf(r, f.entry), f, tree[f])
  <2>1. /\ entries' = [entries EXCEPT ![r] =
                        [e \in DOMAIN entries[r] \union {f.entry} |->
                           IF e = f.entry THEN WithFile(EntryOf(r, e), f, tree[f])
                           ELSE entries[r][e]]]
        /\ list' = [list EXCEPT ![r] = list[r] \ {f}]
        /\ UNCHANGED stage
    BY <1>1, <1>12, Zenon
  <2>2. /\ DOMAIN entries'[r] = DOMAIN entries[r] \union {f.entry}
        /\ \A e \in DOMAIN entries'[r] :
             entries'[r][e] = IF e = f.entry THEN new ELSE entries[r][e]
        /\ list'[r] = list[r] \ {f}
    BY <2>1, <1>3
  <2>3. /\ new.meta = IF f.ext \in MetaExt THEN tree[f] ELSE EntryOf(r, f.entry).meta
        /\ new.contents = IF f.ext \in LogicExt THEN {ParseLogicFile(tree[f], f.ext)}
                          ELSE EntryOf(r, f.entry).contents
    BY DEF WithFile
  <2> HIDE DEF new
  <2>4. f \notin Got(r, c) /\ Got(r, d)' = Got(r, c) \union {f}
    BY <1>5, <1>8, <1>12, <2>2 DEF Got
  <2>5. \A g \in Got(r, c) : g \in Files /\ g.ext \in KnownExt /\ d[g] = c[g]
    BY <1>8, <2>4 DEF Got
  <2>6. \A g \in Got(r, d)', h \in list'[r] : Rank[g] < Rank[h]
    <3> SUFFICES ASSUME NEW g \in Got(r, c) \union {f}, NEW h \in list[r] \ {f}
                 PROVE  Rank[g] < Rank[h]
      BY <2>2, <2>4
    <3>1. CASE g = f
      BY <3>1, <1>1, <1>3, <1>5
    <3>2. CASE g # f
      BY <3>2, <1>6 DEF Agrees
    <3> QED
      BY <3>1, <3>2
  <2>7. IsRead(r, d, f)'
    <3>1. f.ext # "hcl" => ~IsMalformed(d[f])
      BY <1>8, <1>12 DEF Rejected
    <3>2. ASSUME f.ext \in LogicExt
          PROVE  /\ new.contents = {ParseLogicFile(d[f], f.ext)}
                 /\ \A g \in Got(r, c) \union {f} :
                      g.entry = f.entry /\ g.ext \in LogicExt => g = f
      <4>1. EntryOf(r, f.entry).contents = {}
        BY <3>2, <1>12 DEF Rejected
      <4>2. ASSUME NEW g \in Got(r, c), g.entry = f.entry PROVE g.ext \notin LogicExt
        <5>1. IsRead(r, c, g)
          BY <1>6 DEF Agrees
        <5>2. f.entry \in DOMAIN entries[r] /\ entries[r][f.entry].contents = {}
          BY <4>1, <4>2, <5>1 DEF IsRead, EntryOf
        <5> QED
          BY <4>2, <5>1, <5>2 DEF IsRead
      <4>3. new.contents = {ParseLogicFile(d[f], f.ext)}
        BY <3>2, <2>3, <1>8
      <4>4. ASSUME NEW g \in Got(r, c) \union {f}, g.entry = f.entry, g.ext \in LogicExt
            PROVE  g = f
        BY <4>2, <4>4
      <4> QED
        BY <4>3, <4>4
    <3>3. f.ext \in MetaExt => new.meta = d[f]
      BY <2>3, <1>8
    <3> QED
      BY <2>2, <2>4, <3>1, <3>2, <3>3 DEF IsRead
  <2>8. ASSUME NEW g \in Got(r, c) PROVE IsRead(r, d, g)'
    <3>1. IsRead(r, c, g) /\ g.entry \in DOMAIN entries[r] /\ g \in Files
      BY <1>6 DEF Agrees, IsRead, Got
    <3>2. CASE g.entry # f.entry
      <4>1. entries'[r][g.entry] = entries[r][g.entry]
        BY <2>2, <3>1, <3>2
      <4> QED
        BY <2>2, <2>4, <2>5, <3>1, <3>2, <4>1 DEF IsRead
    <3>3. CASE g.entry = f.entry
      <4>1. entries'[r][g.entry] = new /\ EntryOf(r, f.entry) = entries[r][g.entry]
        BY <2>2, <3>1, <3>3 DEF EntryOf
      <4>2. g.ext \in LogicExt =>
              /\ f.ext \notin LogicExt
              /\ new.contents = {ParseLogicFile(d[g], g.ext)}
        BY <1>12, <2>3, <2>5, <3>1, <3>3, <4>1 DEF IsRead, Rejected
      <4>3. ASSUME g.ext \in MetaExt,
                   \A h \in Got(r, c) \union {f} : h.entry = g.entry /\ h.ext = "yml" => h = g
            PROVE  new.meta = d[g]
        <5>1. entries[r][g.entry].meta = c[g]
          BY <3>1, <4>3 DEF IsRead
        <5>2. CASE f.ext \in MetaExt
          <6>1. f.ext = "yaml"
            BY <5>2, <4>3, <3>3, <2>4 DEF MetaExt
          <6>2. g.ext = "yml"
            <7>1. \A h, k \in Files : h.entry = k.entry /\ h.ext = k.ext => h = k
              BY PipelineAssumption
            <7> QED
              BY <7>1, <6>1, <4>3, <3>1, <3>3, <2>4, <1>5 DEF MetaExt
          <6>3. Rank[f] < Rank[g] /\ Rank[g] < Rank[f]
            BY <6>1, <6>2, <3>1, <3>3, <1>5, <1>6 DEF Agrees
          <6> QED
            BY <6>3, <3>1, <1>5
        <5>3. CASE f.ext \notin MetaExt
          BY <5>1, <5>3, <4>1, <2>3, <2>5
        <5> QED
          BY <5>2, <5>3
      <4> QED
        BY <2>2, <2>4, <2>5, <3>1, <3>3, <4>1, <4>2, <4>3 DEF IsRead
    <3> QED
      BY <3>2, <3>3
  <2>9. ASSUME NEW e \in DOMAIN entries'[r]
         PROVE  /\ \E g \in Got(r, c) \union {f} : g.entry = e
                /\ \/ entries'[r][e].contents = {}
                   \/ \E g \in Got(r, c) \union {f} : g.entry = e /\ g.ext \in LogicExt
                /\ \/ entries'[r][e].meta = None
                   \/ \E g \in Got(r, c) \union {f} : g.entry = e /\ g.ext \in MetaExt
    <3>1. CASE e # f.entry
      BY <3>1, <2>2, <1>6 DEF Agrees
    <3>2. CASE e = f.entry
      BY <3>2, <2>2, <2>3, <1>6 DEF Agrees, EntryOf
    <3> QED
      BY <3>1, <3>2
  <2>10. Agrees(r, d)'
    BY <2>4, <2>6, <2>7, <2>8, <2>9 DEF Agrees
  <2>11. stage'[r] = "read"
    BY <1>2, <2>1
  <2> QED
    BY <1>2, <1>4, <1>9, <2>10, <2>11 DEF RunInv, CommandInv, HadInv, ReadInv, VerdictInv,
                                   Judged, InSync, Outputs, Building
<1> QED
  BY <1>10, <1>11, <1>12

(* The end: what the loop has made of the files is what the directory      *)
(* says, and it is accepted when the directory is valid.                   *)
LEMMA BuildStep ==
  ASSUME PipelineTypeOK, NEW r \in Runs, RunInv(r), Build(r)
  PROVE  RunInv(r)'
<1> USE DEF Enter
<1> DEFINE Bundle(e) == BundleLogic(e, entries[r][e])
           Accepted(e) == /\ entries[r][e].contents # {}
                          /\ ValidateLogicConfig(e, Bundle(e).content, Bundle(e).config)
<1>1. /\ stage[r] = "read" /\ list[r] = {} /\ op[r] \in {"apply", "validate"}
      /\ UNCHANGED <<tree, op, list, entries, had>>
      /\ stage \in [Runs -> Stages] /\ DOMAIN mem = Runs
  BY DEF Build, RunInv, CommandInv, Building, PipelineTypeOK
<1>2. \/ /\ \A e \in DOMAIN entries[r] : Accepted(e)
         /\ mem'[r] = {Bundle(e) : e \in DOMAIN entries[r]}
         /\ stage'[r] = IF op[r] = "apply" THEN "send" ELSE "done"
      \/ /\ ~\A e \in DOMAIN entries[r] : Accepted(e)
         /\ stage'[r] = "refused"
  <2>1. \/ /\ \A e \in DOMAIN entries[r] : Accepted(e)
           /\ mem' = [mem EXCEPT ![r] = {Bundle(e) : e \in DOMAIN entries[r]}]
           /\ stage' = [stage EXCEPT ![r] = IF op[r] = "apply" THEN "send" ELSE "done"]
        \/ /\ ~\A e \in DOMAIN entries[r] : Accepted(e)
           /\ stage' = [stage EXCEPT ![r] = "refused"]
    BY Zenon DEF Build
  <2> HIDE DEF Accepted, Bundle
  <2> QED
    BY <2>1, <1>1
<1>3. PICK d \in DirsOf(r) : Agrees(r, d)
  BY <1>1 DEF RunInv, ReadInv
<1>4. Got(r, d) = {f \in Files : f.ext \in KnownExt /\ d[f] # None}
  BY <1>1 DEF Got
<1>5. \A e : Of(d, e, KnownExt) = {f \in Got(r, d) : f.entry = e}
  BY <1>4 DEF Of
<1>6. EntriesOf(d) = DOMAIN entries[r] /\ EntriesOf(d) # {}
  <2>1. \A f \in Files : f.entry \in Entries
    BY PipelineAssumption
  <2>2. DOMAIN entries[r] \subseteq EntriesOf(d)
    BY <1>3, <1>4, <1>5, <2>1 DEF Agrees, EntriesOf
  <2>3. EntriesOf(d) \subseteq DOMAIN entries[r]
    BY <1>3, <1>5 DEF Agrees, IsRead, EntriesOf
  <2>4. EntriesOf(d) # {}
    BY <1>1, <1>3, <1>4, <1>5, <2>1 DEF Agrees, EntriesOf
  <2> QED
    BY <2>2, <2>3, <2>4
<1>7. ASSUME NEW e \in EntriesOf(d)
      PROVE  /\ \A f \in Of(d, e, MetaExt \union LogicExt) : ~IsMalformed(d[f])
             /\ entries[r][e].contents = {} => Of(d, e, LogicExt) = {}
             /\ entries[r][e].contents # {} =>
                  /\ \E f \in Files : Of(d, e, LogicExt) = {f}
                  /\ Bundle(e) = [entry |-> e, type |-> Source(d, e).ext,
                                  content |-> d[Source(d, e)].body,
                                  config |-> [access |-> Access(d, e),
                                              params |-> Params(d, e)]]
  <2>1. \A f \in Of(d, e, MetaExt \union LogicExt) :
          f \in Got(r, d) /\ f.entry = e /\ f.ext # "hcl" /\ IsRead(r, d, f)
    BY <1>3, <1>4 DEF Of, KnownExt, MetaExt, LogicExt, Agrees
  <2>2. \A f \in Of(d, e, MetaExt \union LogicExt) : ~IsMalformed(d[f])
    BY <2>1 DEF IsRead
  <2>3. ASSUME entries[r][e].contents = {} PROVE Of(d, e, LogicExt) = {}
    <3> SUFFICES ASSUME NEW f \in Of(d, e, LogicExt) PROVE FALSE
      OBVIOUS
    <3>1. f \in Of(d, e, MetaExt \union LogicExt) /\ f.ext \in LogicExt
      BY DEF Of
    <3> QED
      BY <2>1, <2>3, <3>1 DEF IsRead
  <2>4. \/ entries[r][e].meta = None /\ Of(d, e, MetaExt) = {}
        \/ /\ entries[r][e].meta # None
           /\ Of(d, e, MetaExt) # {} /\ entries[r][e].meta = d[Metadata(d, e)]
    <3>1. CASE Of(d, e, MetaExt) = {}
      <4>1. ~\E f \in Got(r, d) : f.entry = e /\ f.ext \in MetaExt
        BY <3>1, <1>4 DEF Of
      <4> QED
        BY <3>1, <4>1, <1>3, <1>6 DEF Agrees
    <3>2. CASE Of(d, e, MetaExt) # {}
      <4> DEFINE f == Metadata(d, e)
      <4>1. f \in Of(d, e, MetaExt) /\ \A g \in Of(d, e, {"yml"}) : g = f
        BY <3>2, MetadataIsOfTheEntry
      <4> HIDE DEF f
      <4>2. IsRead(r, d, f) /\ f.entry = e /\ f.ext \in MetaExt /\ d[f] # None
        BY <4>1, <2>1 DEF Of
      <4>3. \A g \in Got(r, d) : g.entry = e /\ g.ext = "yml" => g = f
        BY <4>1, <1>4 DEF Of
      <4>4. entries[r][e].meta = d[f]
        BY <4>2, <4>3 DEF IsRead
      <4> QED
        BY <3>2, <4>2, <4>4 DEF f
    <3> QED
      BY <3>1, <3>2
  <2>5. ASSUME entries[r][e].contents # {}
        PROVE  \E f \in Files : /\ Of(d, e, LogicExt) = {f}
                                /\ entries[r][e].contents = {ParseLogicFile(d[f], f.ext)}
    <3>1. PICK f \in Got(r, d) : f.entry = e /\ f.ext \in LogicExt
      BY <2>5, <1>3, <1>6 DEF Agrees
    <3>2. IsRead(r, d, f) /\ f \in Files /\ d[f] # None
      BY <3>1, <1>3, <1>4 DEF Agrees
    <3>3. \A g \in Of(d, e, LogicExt) : g \in Got(r, d) /\ g.entry = e /\ g.ext \in LogicExt
      BY <1>4 DEF Of, KnownExt
    <3>4. Of(d, e, LogicExt) = {f}
      BY <3>1, <3>2, <3>3 DEF Of, IsRead
    <3> QED
      BY <3>1, <3>2, <3>4 DEF IsRead
  <2> QED
    BY <2>2, <2>3, <2>4, <2>5, BundleOfDirectory
<1>8. ASSUME NEW e \in EntriesOf(d)
      PROVE  Accepted(e) <=>
               /\ \E f \in Files : Of(d, e, LogicExt) = {f}
               /\ e \notin Misplaced /\ d[Source(d, e)].body # "blank"
               /\ Access(d, e) # "blank"
               /\ \/ Params(d, e) = None
                  \/ \A p \in DOMAIN Params(d, e) :
                       Params(d, e)[p] # None => Params(d, e)[p].type \in AllowedTypes
  <2>1. CASE entries[r][e].contents = {}
    BY <2>1, <1>7
  <2>2. CASE entries[r][e].contents # {}
    <3>1. /\ Bundle(e).content = d[Source(d, e)].body
          /\ Bundle(e).config.access = Access(d, e)
          /\ Bundle(e).config.params = Params(d, e)
      <4> HIDE DEF Bundle
      <4> QED
        BY <2>2, <1>7
    <3> HIDE DEF Bundle
    <3> QED
      BY <2>2, <3>1, <1>7 DEF ValidateLogicConfig
  <2> QED
    BY <2>1, <2>2
<1>9. Valid(d) <=> \A e \in DOMAIN entries[r] : Accepted(e)
  <2> HIDE DEF Accepted
  <2> QED
    BY <1>6, <1>7, <1>8 DEF Valid
<1>10. Valid(d) => {Bundle(e) : e \in DOMAIN entries[r]} = Deployment(d)
  <2> DEFINE bundle(e) ==
        [entry |-> e, type |-> Source(d, e).ext, content |-> d[Source(d, e)].body,
         config |-> [access |-> Access(d, e), params |-> Params(d, e)]]
  <2>1. Valid(d) => \A e \in EntriesOf(d) : Bundle(e) = bundle(e)
    BY <1>6, <1>7, <1>9
  <2>2. Deployment(d) = {bundle(e) : e \in EntriesOf(d)}
    BY Zenon DEF Deployment
  <2> HIDE DEF Bundle, bundle
  <2> QED
    BY <2>1, <2>2, <1>6
<1> HIDE DEF Accepted, Bundle
<1>11. VerdictOn(r, d)'
  BY <1>2, <1>6, <1>9, <1>10 DEF VerdictOn
<1>12. DirsOf(r)' = DirsOf(r)
  BY <1>1 DEF DirsOf
<1> QED
  BY <1>1, <1>2, <1>11, <1>12 DEF RunInv, CommandInv, HadInv, ReadInv, VerdictInv,
                                  InSync, Outputs, Building

(* A step of a sync, and whatever a run does once its verdict is known.    *)
LEMMA RestOfRunStep ==
  ASSUME PipelineTypeOK, NEW r \in Runs, RunInv(r),
         \/ \E o \in Offered : Start(r, o)
         \/ Send(r) \/ handlePushManifest(r) \/ RequestFails(r) \/ Interrupt(r)
         \/ FetchManifest(r)
         \/ \E f \in Outputs : BeginWrite(r, f) \/ EndWrite(r, f)
  PROVE  RunInv(r)'
<1> USE DEF Enter
<1>1. /\ stage \in [Runs -> Stages] /\ op \in [Runs -> Offered \union {None}]
      /\ DOMAIN had = Runs /\ DOMAIN mem = Runs
  BY DEF PipelineTypeOK
<1>2. None \notin Commands /\ Offered \subseteq Commands
  BY PipelineAssumption
<1>3. CommandInv(r) /\ HadInv(r) /\ VerdictInv(r)
  BY DEF RunInv
<1>4. ASSUME NEW o \in Offered, Start(r, o) PROVE RunInv(r)'
  <2>1. CASE o = "sync"
    BY <1>1, <1>3, <1>4, <2>1
       DEF Start, RunInv, CommandInv, HadInv, ReadInv, VerdictInv, Judged, InSync, Outputs,
           Building
  <2>2. CASE o # "sync"
    <3>1. o \in {"apply", "validate"}
      BY <1>2, <2>2 DEF Commands
    <3>2. \A f \in Files : had'[r][f] = {tree[f]}
      BY <1>1, <1>4, <2>2 DEF Start
    <3> QED
      BY <1>1, <1>3, <1>4, <2>2, <3>1, <3>2
         DEF Start, RunInv, CommandInv, HadInv, ReadInv, VerdictInv, Judged, InSync,
             Outputs, Building
  <2> QED
    BY <2>1, <2>2
<1>5. ASSUME Send(r) \/ handlePushManifest(r) \/ (RequestFails(r) /\ stage[r] # "fetch")
             \/ (Interrupt(r) /\ stage[r] = "request")
      PROVE  RunInv(r)'
  <2>1. /\ stage[r] \in {"send", "request", "abandoned"}
        /\ stage'[r] \in {"request", "done", "failed", "abandoned"}
        /\ UNCHANGED <<tree, op, list, entries, mem, had>>
    BY <1>1, <1>5 DEF Send, handlePushManifest, RequestFails, Interrupt
  <2>2. op[r] = "apply" /\ Judged(r)
    BY <1>3, <2>1 DEF CommandInv, Judged, Building
  <2>3. VerdictInv(r)'
    BY <1>3, <2>1, <2>2, VerdictStays
  <2> QED
    BY <1>3, <2>1, <2>2, <2>3 DEF RunInv, CommandInv, HadInv, ReadInv, InSync, Outputs, Building
<1>6. ASSUME \/ FetchManifest(r) \/ (RequestFails(r) /\ stage[r] = "fetch")
             \/ (Interrupt(r) /\ stage[r] \in InSync)
             \/ \E f \in Outputs : BeginWrite(r, f) \/ EndWrite(r, f)
      PROVE  RunInv(r)'
  <2>1. /\ stage[r] \in InSync
        /\ stage'[r] \in InSync \union {"done", "failed", "stopped"}
        /\ UNCHANGED <<tree, op, list, entries, had>>
    BY <1>1, <1>6
       DEF FetchManifest, RequestFails, Interrupt, BeginWrite, EndWrite, InSync, Outputs,
           Writing
  <2>2. op[r] = "sync"
    BY <1>3, <2>1 DEF CommandInv
  <2> QED
    BY <2>1, <2>2
       DEF RunInv, CommandInv, HadInv, ReadInv, VerdictInv, Judged, InSync, Outputs, Building
<1>7. ASSUME Interrupt(r), stage[r] \in Building \union {"send"} PROVE RunInv(r)'
  <2>1. /\ stage'[r] = "stopped"
        /\ UNCHANGED <<tree, op, list, entries, mem, had>>
    BY <1>1, <1>7 DEF Interrupt, Building
  <2> QED
    BY <1>3, <2>1
       DEF RunInv, CommandInv, HadInv, ReadInv, VerdictInv, Judged, InSync, Outputs, Building
<1>8. Interrupt(r) => stage[r] \in Building \union InSync \union {"send", "request"}
  BY DEF Interrupt
<1> QED
  BY <1>4, <1>5, <1>6, <1>7, <1>8

(* An edit only adds to what the runs that are reading may have met.       *)
LEMMA EditStep ==
  ASSUME PipelineTypeOK, NEW q \in Runs, RunInv(q), NEW f, NEW t, Edit(f, t)
  PROVE  RunInv(q)'
<1>1. UNCHANGED <<stage, op, list, entries, mem>>
  BY DEF Edit, run
<1>2. CASE stage[q] \notin Building
  <2>1. had'[q] = had[q]
    BY <1>2 DEF Edit
  <2> QED
    BY <1>1, <1>2, <2>1, RunFrame
<1>3. CASE stage[q] \in Building
  <2>1. DOMAIN had[q] = Files /\ DOMAIN tree = Files
    BY DEF PipelineTypeOK, IsDirectory
  <2>2. had'[q] = [had[q] EXCEPT ![f] = @ \union {t}] /\ tree' = [tree EXCEPT ![f] = t]
    BY <1>3 DEF Edit
  <2>3. \A g \in Files : had[q][g] # {} /\ tree[g] \in had[q][g]
    BY <1>3 DEF RunInv, HadInv, CommandInv
  <2>4. \A g \in Files : had[q][g] \subseteq had'[q][g] /\ tree'[g] \in had'[q][g]
    BY <2>1, <2>2, <2>3
  <2>5. DirsOf(q) \subseteq DirsOf(q)'
    BY <2>3, <2>4, DirsWithMonotone DEF DirsOf
  <2>6. \A d : Got(q, d)' = Got(q, d)
    BY <1>1 DEF Got
  <2>7. \A d : Agrees(q, d) => Agrees(q, d)'
    BY <1>1, <2>6 DEF Agrees, IsRead
  <2>8. CommandInv(q)' /\ HadInv(q)' /\ ~Judged(q)'
    BY <1>1, <1>3, <2>3, <2>4 DEF RunInv, CommandInv, HadInv, Judged
  <2> QED
    BY <1>1, <2>5, <2>7, <2>8 DEF RunInv, ReadInv, VerdictInv
<1> QED
  BY <1>2, <1>3

(* What a run does is nothing to another.                                  *)
LEMMA OtherRuns ==
  ASSUME PipelineTypeOK, NEW r \in Runs, RunStep(r) \/ \E o \in Offered : Start(r, o),
         NEW q \in Runs \ {r}
  PROVE  /\ stage'[q] = stage[q] /\ op'[q] = op[q] /\ list'[q] = list[q]
         /\ entries'[q] = entries[q] /\ mem'[q] = mem[q] /\ had'[q] = had[q]
         /\ tree' = tree
<1> USE DEF Enter
<1>1. /\ DOMAIN stage = Runs /\ DOMAIN op = Runs /\ DOMAIN list = Runs
      /\ DOMAIN entries = Runs /\ DOMAIN mem = Runs /\ DOMAIN had = Runs
  BY DEF PipelineTypeOK
<1>2. CASE \E o \in Offered : Start(r, o)
  BY <1>1, <1>2 DEF Start
<1>3. CASE ScanLogic(r)
  BY <1>1, <1>3 DEF ScanLogic
<1>4. CASE ReadFile(r)
  BY <1>1, <1>4 DEF ReadFile
<1>5. CASE Build(r)
  BY <1>1, <1>5 DEF Build
<1>6. CASE \/ Send(r) \/ handlePushManifest(r) \/ RequestFails(r) \/ FetchManifest(r)
           \/ Interrupt(r)
  BY <1>1, <1>6 DEF Send, handlePushManifest, RequestFails, FetchManifest, Interrupt
<1>7. CASE \E f \in Outputs : BeginWrite(r, f) \/ EndWrite(r, f)
  BY <1>1, <1>7 DEF BeginWrite, EndWrite
<1> QED
  BY <1>2, <1>3, <1>4, <1>5, <1>6, <1>7 DEF RunStep

LEMMA PipelineInvStep ==
  PipelineTypeOK /\ PipelineInv /\ [PipelineNext]_pipelineVars => PipelineInv'
<1> SUFFICES ASSUME PipelineTypeOK, \A q \in Runs : RunInv(q),
                    [PipelineNext]_pipelineVars, NEW q \in Runs
             PROVE  RunInv(q)'
  BY DEF PipelineInv
<1>1. ASSUME NEW r \in Runs, RunStep(r) \/ \E o \in Offered : Start(r, o)
      PROVE  RunInv(q)'
  <2>1. CASE q # r
    BY <1>1, <2>1, OtherRuns, RunFrame
  <2>2. CASE q = r
    BY <1>1, <2>2, ScanLogicStep, ReadFileStep, BuildStep, RestOfRunStep DEF RunStep
  <2> QED
    BY <2>1, <2>2
<1>2. ASSUME NEW edit \in Edits, Edit(edit[1], edit[2]) PROVE RunInv(q)'
  BY <1>2, EditStep
<1>3. CASE UNCHANGED pipelineVars
  BY <1>3, RunFrame DEF pipelineVars, run
<1> QED
  BY <1>1, <1>2, <1>3 DEF PipelineNext

(* What a run knows of the directory it reads is an invariant.             *)
THEOREM PipelineInvariant == PipelineSpec => []PipelineInv
BY PipelineTypeInit, PipelineInvInit, PipelineInvStep, PipelineTypeCorrect, PTL
   DEF PipelineSpec

(* The verdict of every run that has one is that of a directory whose      *)
(* files had the texts they had while the run listed and read them.        *)
THEOREM VerdictsAreSound == PipelineSpec => []VerdictIsOfADirectory
<1>1. PipelineInv => VerdictIsOfADirectory
  BY DEF PipelineInv, RunInv, VerdictInv, Judged, VerdictOn, VerdictIsOfADirectory
<1> QED
  BY <1>1, PipelineInvariant, PTL

(* A run for whose files there is only the text they have now judges the   *)
(* directory as it is: nothing of what it read was stale.                  *)
UndisturbedVerdict ==
  \A r \in Runs :
    Judged(r) /\ (\A f \in Files : had[r][f] = {tree[f]}) => VerdictOn(r, tree)

(* Undisturbed, the verdict is exact.                                      *)
THEOREM UndisturbedAreExact == PipelineSpec => []UndisturbedVerdict
<1>1. PipelineTypeOK /\ PipelineInv => UndisturbedVerdict
  <2> SUFFICES ASSUME PipelineTypeOK, PipelineInv, NEW r \in Runs, Judged(r),
                      \A f \in Files : had[r][f] = {tree[f]}
               PROVE  VerdictOn(r, tree)
    BY DEF UndisturbedVerdict
  <2>1. PICK d \in DirsOf(r) : VerdictOn(r, d)
    BY DEF PipelineInv, RunInv, VerdictInv
  <2>2. d = [f \in Files |-> d[f]] /\ \A f \in Files : d[f] \in had[r][f]
    BY DirsWithMember DEF DirsOf
  <2>3. tree = [f \in Files |-> tree[f]]
    BY DEF PipelineTypeOK, IsDirectory
  <2>4. d = tree
    BY <2>2, <2>3
  <2> QED
    BY <2>1, <2>4
<1> QED
  BY <1>1, PipelineInvariant, PipelineTypeCorrect, PTL

-----------------------------------------------------------------------------
(* The logic pipeline: what a sync shows *)

(* The directories that may have been deployed.                            *)
Deployable ==
  {d \in Earlier \union UNION {DirsOf(a) : a \in {a \in Runs : op[a] = "apply"}} : Valid(d)}

HubInv == hub = None \/ \E d \in Deployable : hub = Deployment(d)

(* A quiet sync is the only one and meets no push, so what it fetched is   *)
(* still the manifest of the Hub, and nobody else writes its files.        *)
QuietInv(r) ==
  /\ stage[r] \in InSync \union {"stopped", "failed", "done"}
  /\ op[r] = "sync"
  /\ \A q \in Runs \ {r} : stage[q] \notin InSync \union {"request", "abandoned"}
  /\ \A f \in Outputs : stage[r] = Writing(f) => f \notin mixed
  /\ stage[r] \in Outputs \union {"writing manifest.json", "writing types", "done"} =>
       hub # None /\ mem[r] = hub
  /\ stage[r] \in {"types", "writing types", "done"} => out["manifest.json"] = hub
  /\ stage[r] = "done" => out["types"] = GenerateTypes(hub)

SyncInv == HubInv /\ \A r \in quiet : QuietInv(r)

LEMMA SyncInvInit == PipelineInit => SyncInv
BY EarlierAssumption DEF PipelineInit, SyncInv, HubInv, Deployable

(* A directory that may have been deployed stays one.                      *)
LEMMA DeployableGrows ==
  ASSUME PipelineTypeOK, PipelineInv, [PipelineNext]_pipelineVars
  PROVE  Deployable \subseteq Deployable'
<1> SUFFICES ASSUME NEW a \in Runs, op[a] = "apply"
             PROVE  op'[a] = "apply" /\ DirsOf(a) \subseteq DirsOf(a)'
  BY DEF Deployable
<1>1. /\ stage[a] # "idle"
      /\ \A f \in Files : had[a][f] # {}
  <2>1. None # "apply"
    BY PipelineAssumption DEF Commands
  <2> QED
    BY <2>1 DEF PipelineInv, RunInv, CommandInv, HadInv
<1>2. ASSUME op'[a] = "apply", \A f \in Files : had[a][f] \subseteq had'[a][f]
      PROVE  op'[a] = "apply" /\ DirsOf(a) \subseteq DirsOf(a)'
  BY <1>1, <1>2, DirsWithMonotone DEF DirsOf
<1>3. ASSUME NEW r \in Runs, NEW o \in Offered, Start(r, o)
      PROVE  op'[a] = "apply" /\ had'[a] = had[a]
  BY <1>1, <1>3 DEF Start, PipelineTypeOK
<1>4. ASSUME NEW r \in Runs, RunStep(r) PROVE op'[a] = "apply" /\ had'[a] = had[a]
  BY <1>4 DEF RunStep, ScanLogic, ReadFile, Build, Send, handlePushManifest, RequestFails,
              FetchManifest, Interrupt, BeginWrite, EndWrite
<1>5. ASSUME NEW edit \in Edits, Edit(edit[1], edit[2])
      PROVE  op'[a] = "apply" /\ \A f \in Files : had[a][f] \subseteq had'[a][f]
  <2>1. op' = op
    BY <1>5 DEF Edit, run
  <2>2. had'[a] = IF stage[a] \in Building
                  THEN [had[a] EXCEPT ![edit[1]] = @ \union {edit[2]}] ELSE had[a]
    BY <1>5 DEF Edit
  <2> QED
    BY <2>1, <2>2 DEF PipelineTypeOK
<1>6. CASE UNCHANGED pipelineVars
  BY <1>2, <1>6 DEF pipelineVars, run
<1> QED
  BY <1>2, <1>3, <1>4, <1>5, <1>6 DEF PipelineNext

(* Only a push changes the Hub, and what it pushes has been found valid.   *)
LEMMA HubInvStep ==
  PipelineTypeOK /\ PipelineInv /\ HubInv /\ [PipelineNext]_pipelineVars => HubInv'
<1> SUFFICES ASSUME PipelineTypeOK, PipelineInv, HubInv, [PipelineNext]_pipelineVars
             PROVE  HubInv'
  OBVIOUS
<1>1. Deployable \subseteq Deployable'
  BY DeployableGrows
<1>2. ASSUME hub' = hub PROVE HubInv'
  BY <1>1, <1>2 DEF HubInv
<1>3. ASSUME NEW r \in Runs, handlePushManifest(r) PROVE HubInv'
  <2>1. stage[r] \in {"request", "abandoned"} /\ hub' = mem[r]
    BY <1>3 DEF handlePushManifest
  <2>2. op[r] = "apply" /\ Judged(r) /\ VerdictInv(r)
    BY <2>1 DEF PipelineInv, RunInv, CommandInv, Judged, Building
  <2>3. PICK d \in DirsOf(r) : VerdictOn(r, d)
    BY <2>2 DEF VerdictInv
  <2>4. d \in Deployable /\ mem[r] = Deployment(d)
    BY <2>1, <2>2, <2>3 DEF VerdictOn, Deployable
  <2> QED
    BY <1>1, <2>1, <2>4 DEF HubInv
<1>4. ASSUME NEW r \in Runs, RunStep(r), ~handlePushManifest(r) PROVE hub' = hub
  BY <1>4 DEF RunStep, ScanLogic, ReadFile, Build, Send, RequestFails, FetchManifest,
              Interrupt, BeginWrite, EndWrite
<1>5. ASSUME NEW r \in Runs, NEW o \in Offered, Start(r, o) PROVE hub' = hub
  BY <1>5 DEF Start
<1>6. ASSUME NEW edit \in Edits, Edit(edit[1], edit[2]) PROVE hub' = hub
  BY <1>6 DEF Edit
<1>7. CASE UNCHANGED pipelineVars
  BY <1>2, <1>7 DEF pipelineVars
<1> QED
  BY <1>2, <1>3, <1>4, <1>5, <1>6, <1>7 DEF PipelineNext

LEMMA QuietInvStep ==
  ASSUME PipelineTypeOK, PipelineInv, \A q \in quiet : QuietInv(q),
         [PipelineNext]_pipelineVars, NEW q \in quiet'
  PROVE  QuietInv(q)'
<1> USE DEF Enter, Writing, Outputs, InSync, run
<1>1. /\ stage \in [Runs -> Stages] /\ DOMAIN op = Runs /\ DOMAIN mem = Runs
      /\ DOMAIN out = Outputs /\ quiet \subseteq Runs
  BY DEF PipelineTypeOK
<1>2. ASSUME NEW r \in Runs, NEW o \in Offered, Start(r, o) PROVE QuietInv(q)'
  <2>1. CASE o = "sync"
    <3>1. /\ \A p \in Runs : stage[p] \notin InSync \union {"request", "abandoned"}
          /\ q = r
      BY <1>2, <2>1 DEF Start
    <3> QED
      BY <1>1, <1>2, <2>1, <3>1 DEF Start, QuietInv
  <2>2. CASE o # "sync"
    <3>1. q \in quiet /\ QuietInv(q) /\ q # r
      BY <1>2, <2>2 DEF Start, QuietInv
    <3> QED
      BY <1>1, <1>2, <2>2, <3>1 DEF Start, QuietInv, Building
  <2> QED
    BY <2>1, <2>2
<1>3. ASSUME q \in quiet, NEW r \in Runs,
             ScanLogic(r) \/ ReadFile(r) \/ Build(r)
      PROVE  QuietInv(q)'
  <2>1. /\ r # q
        /\ stage'[r] \notin InSync \union {"request", "abandoned"}
        /\ \A p \in Runs \ {r} : stage'[p] = stage[p] /\ mem'[p] = mem[p]
        /\ UNCHANGED <<hub, out, mixed, op>>
    <3>1. CASE ScanLogic(r)
      BY <1>1, <1>3, <3>1 DEF ScanLogic, QuietInv
    <3>2. CASE ReadFile(r)
      BY <1>1, <1>3, <3>2 DEF ReadFile, QuietInv
    <3>3. CASE Build(r)
      BY <1>1, <1>3, <3>3 DEF Build, QuietInv
    <3> QED
      BY <1>3, <3>1, <3>2, <3>3
  <2> QED
    BY <1>1, <1>3, <2>1 DEF QuietInv
<1>4. ASSUME NEW r \in Runs, Send(r) PROVE QuietInv(q)'
  BY <1>4 DEF Send
<1>5. ASSUME q \in quiet, NEW r \in Runs, handlePushManifest(r) PROVE QuietInv(q)'
  BY <1>3, <1>5 DEF handlePushManifest, QuietInv
<1>6. ASSUME q \in quiet, NEW r \in Runs, RequestFails(r) \/ Interrupt(r)
      PROVE  QuietInv(q)'
  <2>1. /\ stage'[r] \in {"failed", "stopped", "abandoned"}
        /\ stage'[r] = "abandoned" => stage[r] = "request"
        /\ \A p \in Runs \ {r} : stage'[p] = stage[p]
        /\ UNCHANGED <<hub, out, mixed, op, mem>>
    <3>1. CASE RequestFails(r)
      BY <1>1, <3>1 DEF RequestFails
    <3>2. CASE Interrupt(r)
      BY <1>1, <3>2 DEF Interrupt
    <3> QED
      BY <1>6, <3>1, <3>2
  <2>2. CASE q = r
    <3>1. stage[r] # "request"
      BY <1>6, <2>2 DEF QuietInv
    <3> QED
      BY <1>1, <1>6, <2>1, <2>2, <3>1 DEF QuietInv
  <2>3. CASE q # r
    <3>1. stage[r] \notin InSync \union {"request", "abandoned"}
      BY <1>6, <2>3 DEF QuietInv
    <3> QED
      BY <1>1, <1>6, <2>1, <2>3, <3>1 DEF QuietInv
  <2> QED
    BY <2>2, <2>3
<1>7. ASSUME q \in quiet, NEW r \in Runs, FetchManifest(r) PROVE QuietInv(q)'
  BY <1>1, <1>7 DEF FetchManifest, QuietInv
<1>8. ASSUME q \in quiet, NEW r \in Runs, NEW f \in Outputs, BeginWrite(r, f)
      PROVE  QuietInv(q)'
  BY <1>1, <1>8 DEF BeginWrite, QuietInv
<1>9. ASSUME q \in quiet, NEW r \in Runs, NEW f \in Outputs, EndWrite(r, f)
      PROVE  QuietInv(q)'
  <2>1. /\ stage[r] = Writing(f) /\ stage[r] \in InSync
        /\ stage'[r] = (IF f = "types" THEN "done" ELSE "types")
        /\ \A p \in Runs \ {r} : stage'[p] = stage[p]
        /\ UNCHANGED <<hub, mixed, op, mem>>
    BY <1>1, <1>9 DEF EndWrite
  <2>2. q = r
    BY <1>9, <2>1 DEF QuietInv
  <2>3. /\ f \notin mixed
        /\ hub # None /\ mem[r] = hub
        /\ f = "types" => out["manifest.json"] = hub
        /\ \A p \in Runs \ {r} : stage[p] \notin InSync \union {"request", "abandoned"}
        /\ op[r] = "sync"
    BY <1>9, <2>1, <2>2 DEF QuietInv
  <2>4. out' = [out EXCEPT ![f] = Content(r, f)]
    BY <1>9, <2>3 DEF EndWrite
  <2>5. out'[f] = Content(r, f) /\ \A g \in Outputs \ {f} : out'[g] = out[g]
    BY <1>1, <2>4
  <2>6. CASE f = "types"
    <3>1. /\ stage'[r] = "done"
          /\ out'["types"] = GenerateTypes(hub') /\ out'["manifest.json"] = hub'
      BY <2>1, <2>3, <2>5, <2>6 DEF Content
    <3> QED
      BY <2>1, <2>2, <2>3, <3>1 DEF QuietInv
  <2>7. CASE f # "types"
    <3>1. f = "manifest.json" /\ stage'[r] = "types" /\ out'["manifest.json"] = hub'
      BY <2>1, <2>3, <2>5, <2>7 DEF Content
    <3> QED
      BY <2>1, <2>2, <2>3, <3>1 DEF QuietInv
  <2> QED
    BY <2>6, <2>7
<1>10. ASSUME NEW edit \in Edits, Edit(edit[1], edit[2]) PROVE QuietInv(q)'
  BY <1>10 DEF Edit, QuietInv
<1>11. CASE UNCHANGED pipelineVars
  BY <1>11 DEF pipelineVars, QuietInv
<1>12. ASSUME NEW r \in Runs, RunStep(r), ~Send(r) PROVE quiet' = quiet
  BY <1>12 DEF RunStep, ScanLogic, ReadFile, Build, handlePushManifest, RequestFails,
               FetchManifest, Interrupt, BeginWrite, EndWrite
<1> QED
  BY <1>2, <1>3, <1>4, <1>5, <1>6, <1>7, <1>8, <1>9, <1>10, <1>11, <1>12
     DEF PipelineNext, RunStep

LEMMA SyncInvStep ==
  PipelineTypeOK /\ PipelineInv /\ SyncInv /\ [PipelineNext]_pipelineVars => SyncInv'
BY HubInvStep, QuietInvStep DEF SyncInv

(* The manifest of the Hub is, whole, that of a directory that is valid    *)
(* and was there for a run of apply: no push mixes or truncates.           *)
THEOREM HubHasADirectory == PipelineSpec => []HubInv
<1>1. SyncInv => HubInv
  BY DEF SyncInv
<1> QED
  BY <1>1, SyncInvInit, SyncInvStep, PipelineTypeCorrect, PipelineInvariant, PTL
     DEF PipelineSpec

(* The manifest of the Hub changes only when an apply is pushed, to all    *)
(* that a valid directory says, which that apply may have met; never by a  *)
(* validate, an edit or a run that found nothing.                          *)
PushesADirectory ==
  \E r \in Runs :
    /\ op[r] = "apply" /\ stage[r] \in {"request", "abandoned"}
    /\ \E d \in DirsOf(r) : Valid(d) /\ EntriesOf(d) # {} /\ hub' = Deployment(d)

(* Nothing invalid or incomplete ever replaces a manifest.                 *)
THEOREM OnlyValidIsPushed == PipelineSpec => [][hub' # hub => PushesADirectory]_pipelineVars
<1>1. ASSUME PipelineTypeOK, PipelineInv, PipelineNext, hub' # hub
      PROVE  PushesADirectory
  <2>1. PICK r \in Runs : handlePushManifest(r)
    <3>1. \A f, t : ~Edit(f, t)
      BY <1>1 DEF Edit
    <3>2. \A r \in Runs, o \in Offered : ~Start(r, o)
      BY <1>1 DEF Start
    <3>3. \A r \in Runs : ~(ScanLogic(r) \/ ReadFile(r) \/ Build(r) \/ Send(r))
      BY <1>1 DEF ScanLogic, ReadFile, Build, Send
    <3>4. \A r \in Runs : ~(RequestFails(r) \/ FetchManifest(r) \/ Interrupt(r))
      BY <1>1 DEF RequestFails, FetchManifest, Interrupt
    <3>5. \A r \in Runs, f \in Outputs : ~(BeginWrite(r, f) \/ EndWrite(r, f))
      BY <1>1 DEF BeginWrite, EndWrite
    <3> QED
      BY <1>1, <3>1, <3>2, <3>3, <3>4, <3>5 DEF PipelineNext, RunStep
  <2>2. stage[r] \in {"request", "abandoned"} /\ hub' = mem[r]
    BY <2>1 DEF handlePushManifest
  <2>3. op[r] = "apply"
    BY <1>1, <2>2 DEF PipelineInv, RunInv, CommandInv
  <2>4. PICK d \in DirsOf(r) : VerdictOn(r, d)
    BY <1>1, <2>2, <2>3 DEF PipelineInv, RunInv, VerdictInv, Judged, Building
  <2>5. Valid(d) /\ EntriesOf(d) # {} /\ mem[r] = Deployment(d)
    BY <2>2, <2>4 DEF VerdictOn
  <2> QED
    BY <2>2, <2>3, <2>5 DEF PushesADirectory
<1>2. PipelineTypeOK /\ PipelineInv /\ [PipelineNext]_pipelineVars =>
        [hub' # hub => PushesADirectory]_pipelineVars
  BY <1>1
<1> QED
  BY <1>2, PipelineInvariant, PipelineTypeCorrect, PTL DEF PipelineSpec

(* A quiet sync that ends well leaves the manifest of the Hub, and the     *)
(* types of a directory that was deployed.                                 *)
THEOREM SyncsShowTheDeployed == PipelineSpec => []SyncShowsTheDeployed
<1>1. SyncInv => SyncShowsTheDeployed
  <2> SUFFICES ASSUME SyncInv, NEW r \in quiet, stage[r] = "done"
               PROVE  /\ out["manifest.json"] = hub
                      /\ \E d \in Deployable :
                           hub = Deployment(d) /\ out["types"] = Sdk(d)
    BY DEF SyncShowsTheDeployed, Deployable
  <2>1. /\ hub # None /\ out["manifest.json"] = hub
        /\ out["types"] = GenerateTypes(hub)
    BY DEF SyncInv, QuietInv
  <2>2. PICK d \in Deployable : hub = Deployment(d)
    BY <2>1 DEF SyncInv, HubInv
  <2> QED
    BY <2>1, <2>2, TypesOfDeployment
<1> QED
  BY <1>1, SyncInvInit, SyncInvStep, PipelineTypeCorrect, PipelineInvariant, PTL
     DEF PipelineSpec
=============================================================================
