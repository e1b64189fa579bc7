---------------------------- MODULE SchemaEngine ----------------------------
(***************************************************************************)
(* Schema changes: `stk schema plan` and `stk schema apply` of several     *)
(* developers against one project, and the Hub's schema.Service.           *)
(*                                                                         *)
(* A CLI asks the Hub for a plan, shows it, and on confirmation asks the   *)
(* Hub to apply.  The Hub does not apply the migrations it is sent: it     *)
(* keeps one slot per project, lastPlanned, with the schema files of the   *)
(* plan recorded last, and an apply inspects the database again and        *)
(* executes the difference to whatever the slot holds.  Without a database *)
(* URL in the vault, or when the database cannot be opened, both calls     *)
(* fall back to a mock that only compares and copies maps in memory.       *)
(*                                                                         *)
(* The schema files of one developer are one value, and the difference of  *)
(* two schemas is empty or not.  Changes executed on a database other than *)
(* the inspected one, or interrupted, leave a schema nobody wrote: Mixed.  *)
(***************************************************************************)
EXTENDS Naturals

CONSTANTS
  Callers,  \* runs of the CLI
  Schemas,  \* what the schema/*.hcl files of a run may say
  Empty,    \* no schema: an empty database, an empty slot
  Mixed     \* a database left between schemas

ASSUME SchemaAssumption ==
  Empty \notin Schemas /\ Mixed \notin Schemas /\ Empty # Mixed

VARIABLES
  hasURL,      \* the vault holds database_url for the project
  db,          \* the schema of the project's database
  state,       \* Service.state: what the mock believes to be the schema
  lastPlanned, \* Service.lastPlanned
  at,          \* at[c]: where run c is
  want,        \* want[c]: the schema files of c
  changes,     \* changes[c]: PlanResult.HasChanges of c
  target,      \* target[c]: the slot as the apply of c read it
  base,        \* base[c]: the schema the apply of c inspected
  planned,     \* history: the schemas whose plan this Hub process recorded
  solo         \* history: solo[c], c met no other run, no crash, no fallback

vars == <<hasURL, db, state, lastPlanned, at, want, changes, target, base,
          planned, solo>>

Ended == {"unchanged", "applied", "failed", "aborted"}
InHub == {"planning", "applying", "reading", "diffed", "ran", "mocking"}
Place == Ended \union InHub \union {"idle", "prompt"}

Slot == Schemas \union {Empty}
Live(c) == at[c] \notin Ended \union {"idle"}

TypeOK ==
  /\ hasURL \in BOOLEAN
  /\ db \in Schemas \union {Empty, Mixed}
  /\ state \in Slot
  /\ lastPlanned \in Slot
  /\ at \in [Callers -> Place]
  /\ want \in [Callers -> Slot]
  /\ \A c \in Callers : at[c] # "idle" => want[c] \in Schemas
  /\ changes \in [Callers -> BOOLEAN]
  /\ target \in [Callers -> Slot]
  /\ base \in [Callers -> Schemas \union {Empty, Mixed}]
  /\ planned \in SUBSET Schemas
  /\ solo \in [Callers -> BOOLEAN]

Init ==
  /\ hasURL \in BOOLEAN
  /\ db \in Schemas \union {Empty}
  /\ state = Empty
  /\ lastPlanned = Empty
  /\ at = [c \in Callers |-> "idle"]
  /\ want = [c \in Callers |-> Empty]
  /\ changes = [c \in Callers |-> FALSE]
  /\ target = [c \in Callers |-> Empty]
  /\ base = [c \in Callers |-> Empty]
  /\ planned = {}
  /\ solo = [c \in Callers |-> FALSE]

Goto(c, place) == at' = [at EXCEPT ![c] = place]
NotSolo(c) == solo' = [solo EXCEPT ![c] = FALSE]
serviceVars == <<state, lastPlanned, planned>>
runVars == <<want, changes, target, base>>

-----------------------------------------------------------------------------
(* Plan *)

(* A run meets the others that are in progress.                            *)
SoloSince(c, native) ==
  [q \in Callers |-> q = c /\ native /\ \A r \in Callers \ {c} : ~Live(r)]

(* What the comparison can answer.  The mock compares file by file and     *)
(* does not notice that files of the remembered state are gone.            *)
Differs(s, native) ==
  CASE native                     -> {db # s}
    [] ~native /\ state \in {s, Empty} -> {state # s}
    [] OTHER                      -> BOOLEAN

(* Mutant: the slot is filled when the plan begins.                        *)
PlanInspectRecording(c, s) ==
  /\ at[c] = "idle"
  /\ Goto(c, "planning")
  /\ want' = [want EXCEPT ![c] = s]
  /\ lastPlanned' = s
  /\ \E native \in BOOLEAN :
       /\ native => hasURL
       /\ \E d \in Differs(s, native) : changes' = [changes EXCEPT ![c] = d]
       /\ solo' = SoloSince(c, native)
  /\ UNCHANGED <<hasURL, db, state, planned, target, base>>

(* The plan request arrives; the database, or in the mock the remembered   *)
(* state, is compared with the files.  The secret may be unreadable or the *)
(* database not open, and then the mock answers as it does without a URL.  *)
PlanInspect(c, s) ==
  /\ at[c] = "idle"
  /\ Goto(c, "planning")
  /\ want' = [want EXCEPT ![c] = s]
  /\ \E native \in BOOLEAN :
       /\ native => hasURL
       /\ \E d \in Differs(s, native) : changes' = [changes EXCEPT ![c] = d]
       /\ solo' = SoloSince(c, native)
  /\ UNCHANGED <<hasURL, db, serviceVars, target, base>>

(* Inspection, the evaluation of the files, the diff or the SQL fails.     *)
PlanFails(c) ==
  /\ at[c] = "planning"
  /\ Goto(c, "failed")
  /\ UNCHANGED <<hasURL, db, serviceVars, runVars, solo>>

(* Mutant: a plan that waits in the slot is kept.                          *)
PlanRecordKeeping(c) ==
  /\ at[c] = "planning"
  /\ lastPlanned' = IF lastPlanned = Empty THEN want[c] ELSE lastPlanned
  /\ planned' = planned \union {want[c]}
  /\ Goto(c, IF changes[c] THEN "prompt" ELSE "unchanged")
  /\ UNCHANGED <<hasURL, db, state, runVars, solo>>

(* The slot is overwritten under the lock, also when nothing has changed;  *)
(* the CLI ends there or prompts.                                          *)
PlanRecord(c) ==
  /\ at[c] = "planning"
  /\ lastPlanned' = want[c]
  /\ planned' = planned \union {want[c]}
  /\ Goto(c, IF changes[c] THEN "prompt" ELSE "unchanged")
  /\ UNCHANGED <<hasURL, db, state, runVars, solo>>

(* `stk schema plan`, an answer other than y, or a reply that never came.  *)
Abort(c) ==
  /\ at[c] = "prompt"
  /\ Goto(c, "aborted")
  /\ UNCHANGED <<hasURL, db, serviceVars, runVars, solo>>

-----------------------------------------------------------------------------
(* Apply *)

(* The user confirms, and Apply reads the secret: without one it goes to   *)
(* the mock.                                                               *)
Confirm(c) ==
  /\ at[c] = "prompt"
  /\ \/ hasURL /\ Goto(c, "applying")
     \/ Goto(c, "mocking")
  /\ UNCHANGED <<hasURL, db, serviceVars, runVars, solo>>

(* applyMock, under the lock, without a URL or when the database cannot be *)
(* opened: the slot becomes the remembered state.  The migrations of a     *)
(* confirmed plan are never empty.                                         *)
ApplyMock(c) ==
  /\ at[c] \in {"mocking", "reading"}
  /\ \/ /\ lastPlanned = Empty
        /\ Goto(c, "failed")
        /\ UNCHANGED <<state, lastPlanned, target>>
     \/ /\ lastPlanned # Empty
        /\ Goto(c, "applied")
        /\ state' = lastPlanned
        /\ lastPlanned' = Empty
        /\ target' = [target EXCEPT ![c] = lastPlanned]
  /\ NotSolo(c)
  /\ UNCHANGED <<hasURL, db, want, changes, base, planned>>

(* Apply reads the slot.                                                   *)
ReadPlan(c) ==
  /\ at[c] = "applying"
  /\ target' = [target EXCEPT ![c] = lastPlanned]
  /\ Goto(c, IF lastPlanned = Empty THEN "failed" ELSE "reading")
  /\ UNCHANGED <<hasURL, db, serviceVars, want, changes, base, solo>>

(* Mutant: the inspected schema is taken for the planned one.              *)
ApplyInspectSwapped(c) ==
  /\ at[c] = "reading"
  /\ target' = [target EXCEPT ![c] = db]
  /\ base' = [base EXCEPT ![c] = target[c]]
  /\ Goto(c, "diffed")
  /\ UNCHANGED <<hasURL, db, serviceVars, want, changes, solo>>

(* The database is opened and inspected, and the difference is taken.      *)
ApplyInspect(c) ==
  /\ at[c] = "reading"
  /\ base' = [base EXCEPT ![c] = db]
  /\ Goto(c, "diffed")
  /\ UNCHANGED <<hasURL, db, serviceVars, want, changes, target, solo>>

(* Mutant: an apply waits for the database to differ from its plan.        *)
ApplyNothingYet(c) ==
  /\ at[c] = "diffed"
  /\ base[c] = target[c]
  /\ Goto(c, "reading")
  /\ UNCHANGED <<hasURL, db, serviceVars, runVars, solo>>

(* Nothing to do: Apply returns, and the slot keeps its plan.              *)
ApplyNothing(c) ==
  /\ at[c] = "diffed"
  /\ base[c] = target[c]
  /\ Goto(c, "applied")
  /\ UNCHANGED <<hasURL, db, serviceVars, runVars, solo>>

(* The changes are executed as they were computed.                         *)
ApplyChanges(c) ==
  /\ at[c] = "diffed"
  /\ base[c] # target[c]
  /\ db' = IF db = base[c] THEN target[c] ELSE Mixed
  /\ Goto(c, "ran")
  /\ UNCHANGED <<hasURL, serviceVars, runVars, solo>>

(* The inspection or the diff fails, or a statement does, after none or    *)
(* some of the others.                                                     *)
ApplyFails(c) ==
  /\ \/ at[c] = "reading" /\ UNCHANGED db
     \/ at[c] = "diffed" /\ base[c] # target[c] /\ db' \in {db, Mixed}
  /\ Goto(c, "failed")
  /\ UNCHANGED <<hasURL, serviceVars, runVars, solo>>

(* The slot is emptied, whoever has filled it since.                       *)
ForgetPlan(c) ==
  /\ at[c] = "ran"
  /\ lastPlanned' = Empty
  /\ Goto(c, "applied")
  /\ UNCHANGED <<hasURL, db, state, planned, runVars, solo>>

-----------------------------------------------------------------------------
(* The surroundings *)

(* stk secret set / delete of database_url.                                *)
ChangeURL ==
  /\ hasURL' = ~hasURL
  /\ solo' = [c \in Callers |-> solo[c] /\ ~Live(c)]
  /\ UNCHANGED <<db, serviceVars, at, runVars>>

(* The Hub process ends: both maps live in its memory.  Runs that wait for *)
(* it fail, runs at their prompt do not notice.                            *)
HubCrash ==
  /\ state' = Empty
  /\ lastPlanned' = Empty
  /\ planned' = {}
  /\ at' = [c \in Callers |-> IF at[c] \in InHub THEN "failed" ELSE at[c]]
  /\ target' = [c \in Callers |-> IF Live(c) THEN Empty ELSE target[c]]
  /\ solo' = [c \in Callers |-> solo[c] /\ ~Live(c)]
  /\ UNCHANGED <<hasURL, db, want, changes, base>>

-----------------------------------------------------------------------------
(* What the Hub does for a run without its user.                           *)
HubStep(c) ==
  \/ PlanFails(c) \/ PlanRecord(c)
  \/ ApplyMock(c) \/ ReadPlan(c) \/ ApplyInspect(c) \/ ApplyNothing(c)
  \/ ApplyChanges(c) \/ ApplyFails(c) \/ ForgetPlan(c)

Next ==
  \/ \E c \in Callers : \/ \E s \in Schemas : PlanInspect(c, s)
                        \/ Abort(c) \/ Confirm(c) \/ HubStep(c)
  \/ ChangeURL
  \/ HubCrash

(* A handler of the Hub runs until it answers.                             *)
Spec == Init /\ [][Next]_vars /\ \A c \in Callers : WF_vars(HubStep(c))

-----------------------------------------------------------------------------
(* Properties *)

(* Whatever an apply takes from the slot, some run has got a plan for it   *)
(* from this Hub process: not a plan that failed, nor one from before a    *)
(* restart.                                                                *)
ExecutesOnlyPlans ==
  \A c \in Callers : target[c] # Empty /\ Live(c) => target[c] \in planned

(* A run that met no other run, no restart, no change of the secret and no *)
(* fallback, and reports success, leaves the database with its own schema: *)
(* whatever other runs have left in the slot before.                       *)
SoloRunTakesEffect ==
  \A c \in Callers : solo[c] /\ at[c] \in {"applied", "unchanged"} => db = want[c]

(* A run the Hub works for gets its answer.                                *)
HubAnswers == \A c \in Callers : at[c] \in InHub ~> at[c] \notin InHub

(* docs/architecture/03_cli_specification.md:45: `stk schema apply`        *)
(* applies the result of its plan.  So what an apply takes from the slot   *)
(* is the schema its run planned and its user confirmed.                   *)
AppliesItsPlan == \A c \in Callers : at[c] = "applied" => target[c] = want[c]
=============================================================================
