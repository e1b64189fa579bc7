--------------------------- MODULE ProjectSettings ----------------------------
(***************************************************************************)
(* The configuration and the secrets of one project: runs of `stk config   *)
(* apply`, `stk secret set` and `stk secret delete`, any number at once,   *)
(* and the Hub's table of configurations and its vault.                    *)
(*                                                                         *)
(* An apply reads databases.yaml, auth.yaml and storage.yaml one after the *)
(* other, or those that --only names, while the developer may edit them,   *)
(* and sends what it has read in one request.  The Hub stores all three    *)
(* columns of the project's row.  A secret is stored encrypted with the    *)
(* key the Hub was started with.                                           *)
(*                                                                         *)
(* A request, or its answer, may be lost.  The CLI has no timeout and does *)
(* not retry; when it is interrupted its request may still be handled.     *)
(***************************************************************************)
EXTENDS FiniteSets

CONSTANTS
  Runs,    \* runs of the CLI, each made once
  Texts,   \* texts of files
  Keys,    \* secret keys
  Values,  \* values of secrets
  PathKey, \* the key that the route of DELETE gets for a key in its path, or
           \* None: a slash misses the route, a question mark ends the path
  HubKeys, \* values of the Hub's encryption key
  Tree,    \* the files at the beginning
  Edits,   \* the <<file, text>> the developer may write
  Offered, \* the commands that are made
  Blank,   \* a text, or value, of white space
  None     \* an empty or missing file, no row

Files == {"databases", "auth", "storage"}
Text == Texts \union {Blank, None}
Config == [Files -> Text]

(* --only may name something that is no configuration.                     *)
Operations ==
  [kind : {"apply"}, only : SUBSET (Files \union {"unknown"})]
    \union [kind : {"set"}, key : Keys, value : Values \union {Blank}]
    \union [kind : {"delete"}, key : Keys]

ASSUME SettingsAssumption ==
  /\ PathKey \in [Keys -> Keys \union {None}]
  /\ Tree \in Config
  /\ Edits \subseteq Files \X Text
  /\ Offered \subseteq Operations
  /\ Blank \notin Texts \union Values \union {None}
  /\ None \notin Texts \union Keys \union Runs \union Operations
  /\ None \notin Config /\ "config" \notin Keys \union {None}
  /\ None \notin [value : Values, sealed : HubKeys]

VARIABLES
  tree,    \* tree[f]: the text of the file on the developer's disk
  row,     \* the project's row of project_configs, or None
  vault,   \* vault[k]: the row of vault_secrets, or None
  hubKey,  \* the encryption key of the Hub that runs
  at,      \* at[r]: where run r is
  op,      \* op[r]: its command
  mem,     \* mem[r]: what it has read so far
  had,     \* history: had[r][f], the texts file f had while r read
  last,    \* history: the last run to have sent a request for a slot
  alone    \* history: the runs that met no other request for their slot

disk == <<tree, had>>
store == <<row, vault, hubKey>>
sendVars == <<last, alone>>
vars == <<disk, store, at, op, mem, sendVars>>

(* "stopped": ended without having sent anything; "abandoned": the CLI is  *)
(* gone and its request is not.                                            *)
InFlightPlaces == {"request", "abandoned"}
Place == Files \union InFlightPlaces \union {"idle", "send", "stopped", "failed", "done"}
Sent(r) == at[r] \in InFlightPlaces \union {"failed", "done"}

Slots == Keys \union {"config"}

TypeOK ==
  /\ tree \in Config
  /\ row \in Config \union {None}
  /\ vault \in [Keys -> [value : Values, sealed : HubKeys] \union {None}]
  /\ hubKey \in HubKeys
  /\ at \in [Runs -> Place]
  /\ op \in [Runs -> Offered \union {None}]
  /\ mem \in [Runs -> Config]
  /\ had \in [Runs -> [Files -> SUBSET Text]]
  /\ last \in [Slots -> Runs \union {None}]
  /\ alone \in SUBSET Runs
  /\ \A r \in Runs : at[r] # "idle" => op[r] \in Offered
  /\ \A r \in Runs : at[r] \in Files => op[r].kind = "apply"

Init ==
  /\ tree = Tree
  /\ row = None
  /\ vault = [k \in Keys |-> None]
  /\ hubKey \in HubKeys
  /\ at = [r \in Runs |-> "idle"]
  /\ op = [r \in Runs |-> None]
  /\ mem = [r \in Runs |-> [f \in Files |-> None]]
  /\ had = [r \in Runs |-> [f \in Files |-> {}]]
  /\ last = [s \in Slots |-> None]
  /\ alone = {}

Goto(r, place) == at' = [at EXCEPT ![r] = place]

-----------------------------------------------------------------------------
(* The CLI *)

(* A run without a project id ends, and so does one whose --only names     *)
(* something unknown.                                                      *)
Start(r, o) ==
  /\ at[r] = "idle"
  /\ op' = [op EXCEPT ![r] = o]
  /\ \/ o.kind = "apply" /\ o.only \subseteq Files /\ Goto(r, "databases")
     \/ o.kind # "apply" /\ Goto(r, "send")
     \/ Goto(r, "stopped")
  /\ had' = [had EXCEPT ![r] = [f \in Files |-> {tree[f]}]]
  /\ UNCHANGED <<tree, store, mem, sendVars>>

After(f) ==
  CASE f = "databases" -> "auth" [] f = "auth" -> "storage" [] f = "storage" -> "send"

(* Mutant: the file of the place before is read.                           *)
ReadFileShifted(r) ==
  \E f \in Files :
    /\ at[r] = f
    /\ \/ /\ mem' = [mem EXCEPT ![r][f] =
                      IF f \in op[r].only
                      THEN tree[IF f = "storage" THEN "auth" ELSE f] ELSE None]
          /\ Goto(r, After(f))
       \/ f \in op[r].only /\ Goto(r, "stopped") /\ UNCHANGED mem
    /\ UNCHANGED <<disk, store, op, sendVars>>

(* readOptionalFile: a file that is not there is empty, another error ends *)
(* the run.                                                                *)
ReadFile(r) ==
  \E f \in Files :
    /\ at[r] = f
    /\ \/ /\ mem' = [mem EXCEPT ![r][f] = IF f \in op[r].only THEN tree[f] ELSE None]
          /\ Goto(r, After(f))
       \/ f \in op[r].only /\ Goto(r, "stopped") /\ UNCHANGED mem
    /\ UNCHANGED <<disk, store, op, sendVars>>

(* The developer writes a file, between any two reads.                     *)
Edit(f, t) ==
  /\ <<f, t>> \in Edits
  /\ tree' = [tree EXCEPT ![f] = t]
  /\ had' = [r \in Runs |->
               IF at[r] \in Files THEN [had[r] EXCEPT ![f] = @ \union {t}] ELSE had[r]]
  /\ UNCHANGED <<store, at, op, mem, sendVars>>

(* What a request is about.                                                *)
SlotOf(o) ==
  IF o.kind = "apply" THEN {"config"}
  ELSE IF o.kind = "set" THEN {o.key} ELSE {PathKey[o.key]} \ {None}

InFlight(s) == {r \in Runs : at[r] \in InFlightPlaces /\ s \in SlotOf(op[r])}

(* An apply that has found no text sends nothing.                          *)
Send(r) ==
  /\ at[r] = "send"
  /\ IF op[r].kind = "apply" /\ mem[r] = [f \in Files |-> None]
     THEN Goto(r, "stopped") /\ UNCHANGED sendVars
     ELSE /\ Goto(r, "request")
          /\ last' = [s \in Slots |-> IF s \in SlotOf(op[r]) THEN r ELSE last[s]]
          /\ alone' = IF \A s \in SlotOf(op[r]) : InFlight(s) = {}
                      THEN alone \union {r} ELSE alone
  /\ UNCHANGED <<disk, store, op, mem>>

(* Ctrl-C.                                                                 *)
Interrupt(r) ==
  /\ at[r] \in Files \union {"send", "request"}
  /\ Goto(r, IF at[r] = "request" THEN "abandoned" ELSE "stopped")
  /\ UNCHANGED <<disk, store, op, mem, sendVars>>

-----------------------------------------------------------------------------
(* The Hub *)

(* AES-256-GCM: only the key that has sealed a value opens it.             *)
encrypt(value) == [value |-> value, sealed |-> hubKey]
decrypt(secret) == IF secret.sealed = hubKey THEN secret.value ELSE None

(* vault.Get: what the schema engine and context.secrets read.             *)
ReadSecret(k) == IF vault[k] = None THEN None ELSE decrypt(vault[k])

(* The statements of the two repositories.                                 *)
UpsertConfig(cfg) == row' = cfg /\ UNCHANGED <<vault, hubKey>>
UpsertSecret(k, secret) == vault' = [vault EXCEPT ![k] = secret] /\ UNCHANGED <<row, hubKey>>
DeleteSecret(k) == vault' = [vault EXCEPT ![k] = None] /\ UNCHANGED <<row, hubKey>>

(* The handler has succeeded; the CLI hears of it, or not.                 *)
Answer(r) ==
  \/ at[r] = "request" /\ Goto(r, "done")
  \/ Goto(r, "failed")

Asks(r, kind) == at[r] \in InFlightPlaces /\ op[r].kind = kind
IsBlank(cfg) == \A f \in Files : cfg[f] \in {Blank, None}

(* The upsert replaces the three columns, with "" what was not sent.       *)
handleConfigApply(r) ==
  /\ Asks(r, "apply") /\ ~IsBlank(mem[r])
  /\ UpsertConfig(mem[r])
  /\ Answer(r)
  /\ UNCHANGED <<disk, op, mem, sendVars>>

(* Mutant: the value is not looked at.                                     *)
handleSetSecretBlank(r) ==
  /\ Asks(r, "set")
  /\ UpsertSecret(op[r].key, encrypt(op[r].value))
  /\ Answer(r)
  /\ UNCHANGED <<disk, op, mem, sendVars>>

(* vault.Set encrypts the value, the repository inserts or replaces it.    *)
handleSetSecret(r) ==
  /\ Asks(r, "set") /\ op[r].value # Blank
  /\ UpsertSecret(op[r].key, encrypt(op[r].value))
  /\ Answer(r)
  /\ UNCHANGED <<disk, op, mem, sendVars>>

(* The key is the one of the path; a row that is not there is deleted too. *)
handleDeleteSecret(r) ==
  /\ Asks(r, "delete")
  /\ PathKey[op[r].key] # None
  /\ DeleteSecret(PathKey[op[r].key])
  /\ Answer(r)
  /\ UNCHANGED <<disk, op, mem, sendVars>>

(* The handler refuses the request, the statement fails, or the request is *)
(* lost with its connection.                                               *)
RequestFails(r) ==
  /\ at[r] \in InFlightPlaces
  /\ Goto(r, "failed")
  /\ UNCHANGED <<disk, store, op, mem, sendVars>>

(* The Hub's process ends and another one starts, maybe with another       *)
(* STK_ENCRYPTION_KEY; what it was handling is over.                       *)
HubRestart(key) ==
  /\ key # hubKey \/ \E r \in Runs : at[r] \in InFlightPlaces
  /\ hubKey' = key
  /\ at' = [r \in Runs |-> IF at[r] \in InFlightPlaces THEN "failed" ELSE at[r]]
  /\ UNCHANGED <<disk, row, vault, op, mem, sendVars>>

-----------------------------------------------------------------------------
RunStep(r) ==
  \/ ReadFile(r) \/ Send(r)
  \/ handleConfigApply(r) \/ handleSetSecret(r) \/ handleDeleteSecret(r)
  \/ RequestFails(r)

Next ==
  \/ \E r \in Runs : RunStep(r) \/ Interrupt(r) \/ \E o \in Offered : Start(r, o)
  \/ \E f \in Files, t \in Text : Edit(f, t)
  \/ \E key \in HubKeys : HubRestart(key)

Spec == Init /\ [][Next]_vars

-----------------------------------------------------------------------------
(* Properties *)

(* What the run was asked to do is done, unless it is not the last one to  *)
(* have sent a request for the row: the columns are texts its files had    *)
(* while it read them, the secret is the value it was given and the Hub    *)
(* reads it unless its key has changed, the deleted secret, if the path    *)
(* can name it, is gone.                                                   *)
Stored(r) ==
  /\ op[r].kind = "apply" /\ last["config"] = r =>
       row # None /\ \A f \in Files : f \in op[r].only => row[f] \in had[r][f]
  /\ op[r].kind = "set" /\ last[op[r].key] = r =>
       /\ vault[op[r].key] # None
       /\ vault[op[r].key].value = op[r].value
       /\ ReadSecret(op[r].key) \in {op[r].value, None}
  /\ op[r].kind = "delete" /\ PathKey[op[r].key] = op[r].key /\ last[op[r].key] = r =>
       vault[op[r].key] = None

(* A run that was told of its success, met no other request for the same   *)
(* row when it sent its own and is the last one to have sent any has done  *)
(* what it was asked.                                                      *)
DoneIsStored == \A r \in alone : at[r] = "done" => Stored(r)
===============================================================================
