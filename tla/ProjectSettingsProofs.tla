------------------------ MODULE ProjectSettingsProofs -------------------------
(***************************************************************************)
(* That the Hub's configuration and secrets are what the runs have sent,   *)
(* for any number of runs, files' texts, keys and values.                  *)
(*                                                                         *)
(* A run that met no other request for its row when it sent its own, and   *)
(* is the last one to have sent, is the only one in flight for the row     *)
(* (AloneInv): what it has stored stays.  What an apply has read of a file *)
(* is one of the texts the file had (ReadInv), and the row is what one     *)
(* apply has read (RowInv).                                                *)
(***************************************************************************)
EXTENDS ProjectSettings, TLAPS

(* The places of a run that has read file f.                               *)
HasRead(place, f) ==
  \/ place \in InFlightPlaces \union {"send", "failed", "done"}
  \/ place = "auth" /\ f = "databases"
  \/ place = "storage" /\ f \in {"databases", "auth"}

ReadInv ==
  \A r \in Runs, f \in Files :
    /\ at[r] \in Files => tree[f] \in had[r][f]
    /\ HasRead(at[r], f) /\ op[r].kind = "apply" /\ f \in op[r].only
         => mem[r][f] \in had[r][f]

RowInv ==
  row # None =>
    \E r \in Runs : /\ Sent(r) /\ op[r].kind = "apply"
                    /\ row = mem[r] /\ ~IsBlank(row)

AloneInv ==
  \A r \in alone :
    /\ Sent(r)
    /\ \A s \in SlotOf(op[r]) : last[s] = r => InFlight(s) \subseteq {r}

SettingsInv == TypeOK /\ ReadInv /\ RowInv /\ AloneInv /\ DoneIsStored

-----------------------------------------------------------------------------
(* The operations *)

LEMMA OperationFields ==
  ASSUME NEW o \in Operations
  PROVE  /\ o.kind \in {"apply", "set", "delete"}
         /\ o.kind = "set" => o.key \in Keys /\ o.value \in Values \union {Blank}
         /\ o.kind = "delete" => o.key \in Keys /\ PathKey[o.key] \in Keys \union {None}
BY SettingsAssumption DEF Operations

LEMMA SlotsAreSlots ==
  ASSUME NEW o \in Operations
  PROVE  SlotOf(o) \subseteq Slots
BY OperationFields DEF SlotOf, Slots

LEMMA RunningOperation ==
  ASSUME TypeOK, NEW r \in Runs, at[r] # "idle"
  PROVE  op[r] \in Operations
BY SettingsAssumption DEF TypeOK

-----------------------------------------------------------------------------
(* The steps of the CLI *)

LEMMA StartKeeps ==
  ASSUME SettingsInv, NEW r \in Runs, NEW o \in Offered, Start(r, o)
  PROVE  SettingsInv'
<1> USE SettingsAssumption DEF SettingsInv, Start, store, sendVars
<1>1. /\ at[r] = "idle" /\ at' \in [Runs -> Place]
      /\ at'[r] \in {"databases", "send", "stopped"}
      /\ at'[r] = "send" => o.kind # "apply"
      /\ at'[r] = "databases" => o.kind = "apply"
      /\ \A q \in Runs \ {r} : at'[q] = at[q] /\ op'[q] = op[q] /\ had'[q] = had[q]
      /\ op'[r] = o /\ \A f \in Files : tree[f] \in had'[r][f]
  BY DEF TypeOK, Goto, Place, Files
<1>2. TypeOK'
  <2>1. op' \in [Runs -> Offered \union {None}]
    BY DEF TypeOK
  <2>2. [f \in Files |-> {tree[f]}] \in [Files -> SUBSET Text]
    BY DEF TypeOK, Config
  <2>3. had' \in [Runs -> [Files -> SUBSET Text]]
    BY <2>2 DEF TypeOK
  <2>4. /\ \A q \in Runs : at'[q] # "idle" => op'[q] \in Offered
        /\ \A q \in Runs : at'[q] \in Files => op'[q].kind = "apply"
    BY <1>1 DEF TypeOK, Files
  <2> QED BY <1>1, <2>1, <2>3, <2>4 DEF TypeOK
<1>3. ReadInv'
  BY <1>1 DEF ReadInv, HasRead, Files, InFlightPlaces
<1>4. RowInv'
  BY <1>1 DEF RowInv, Sent, InFlightPlaces
<1>5. r \notin alone /\ \A s : InFlight(s)' = InFlight(s)
  BY <1>1 DEF AloneInv, Sent, InFlight, InFlightPlaces
<1>6. AloneInv'
  BY <1>1, <1>5 DEF AloneInv, Sent, TypeOK
<1>7. DoneIsStored'
  BY <1>1, <1>5 DEF DoneIsStored, Stored, ReadSecret, decrypt, TypeOK
<1> QED BY <1>2, <1>3, <1>4, <1>6, <1>7

LEMMA ReadFileKeeps ==
  ASSUME SettingsInv, NEW r \in Runs, ReadFile(r)
  PROVE  SettingsInv'
<1> USE SettingsAssumption DEF SettingsInv, disk, store, sendVars
<1>1. PICK f \in Files :
        /\ at[r] = f
        /\ \/ /\ mem' = [mem EXCEPT ![r][f] = IF f \in op[r].only THEN tree[f] ELSE None]
              /\ Goto(r, After(f))
           \/ f \in op[r].only /\ Goto(r, "stopped") /\ UNCHANGED mem
        /\ UNCHANGED <<disk, store, op, sendVars>>
  BY DEF ReadFile
<1>2. /\ at' \in [Runs -> Place] /\ at'[r] \in {"auth", "storage", "send", "stopped"}
      /\ \A q \in Runs \ {r} : at'[q] = at[q] /\ mem'[q] = mem[q]
      /\ mem' \in [Runs -> Config]
      /\ \A g \in Files \ {f} : mem'[r][g] = mem[r][g]
      /\ at'[r] # "stopped" => at'[r] = After(f) /\ (f \in op[r].only => mem'[r][f] = tree[f])
  <2>1. CASE f \in op[r].only /\ Goto(r, "stopped") /\ UNCHANGED mem
    BY <1>1, <2>1 DEF TypeOK, Goto, Place, Files
  <2>2. CASE /\ mem' = [mem EXCEPT ![r][f] = IF f \in op[r].only THEN tree[f] ELSE None]
             /\ Goto(r, After(f))
    <3>1. After(f) \in {"auth", "storage", "send"}
      BY DEF After, Files
    <3>2. /\ at' \in [Runs -> Place] /\ at'[r] = After(f)
          /\ \A q \in Runs \ {r} : at'[q] = at[q]
      BY <2>2, <3>1 DEF TypeOK, Goto, Place, Files
    <3> DEFINE text == IF f \in op[r].only THEN tree[f] ELSE None
    <3>3. text \in Text
      BY DEF TypeOK, Config, Text
    <3>4. mem' = [mem EXCEPT ![r] = [mem[r] EXCEPT ![f] = text]]
      BY <2>2
    <3>5. [mem[r] EXCEPT ![f] = text] \in Config
      BY <3>3 DEF TypeOK, Config
    <3>6. mem'[r] = [mem[r] EXCEPT ![f] = text] /\ mem[r] \in [Files -> Text]
      BY <3>4 DEF TypeOK, Config
    <3>7. mem' \in [Runs -> Config] /\ \A q \in Runs \ {r} : mem'[q] = mem[q]
      BY <3>4, <3>5 DEF TypeOK
    <3> HIDE DEF text
    <3>8. mem'[r][f] = text /\ \A g \in Files \ {f} : mem'[r][g] = mem[r][g]
      BY <3>6
    <3> QED BY <3>1, <3>2, <3>7, <3>8 DEF text
  <2> QED BY <1>1, <2>1, <2>2
<1>3. TypeOK'
  BY <1>1, <1>2 DEF TypeOK, Files
<1>4. ReadInv'
  <2>1. ASSUME NEW q \in Runs, q # r, NEW g \in Files
        PROVE  /\ at'[q] \in Files => tree'[g] \in had'[q][g]
               /\ HasRead(at'[q], g) /\ op'[q].kind = "apply" /\ g \in op'[q].only
                    => mem'[q][g] \in had'[q][g]
    BY <1>1, <1>2, <2>1 DEF ReadInv
  <2>2. ASSUME NEW g \in Files
        PROVE  /\ at'[r] \in Files => tree'[g] \in had'[r][g]
               /\ HasRead(at'[r], g) /\ op'[r].kind = "apply" /\ g \in op'[r].only
                    => mem'[r][g] \in had'[r][g]
    <3>1. tree[g] \in had[r][g] /\ tree'[g] \in had'[r][g]
      BY <1>1 DEF ReadInv
    <3>2. CASE g = f
      BY <1>1, <1>2, <3>1, <3>2 DEF HasRead, Files, InFlightPlaces
    <3>3. CASE g # f
      <4>1. HasRead(at'[r], g) => HasRead(at[r], g)
        BY <1>1, <1>2, <3>3 DEF HasRead, After, Files, InFlightPlaces
      <4> QED BY <1>1, <1>2, <3>1, <3>3, <4>1 DEF ReadInv
    <3> QED BY <3>2, <3>3
  <2> QED BY <2>1, <2>2 DEF ReadInv
<1>5. ~Sent(r) /\ ~Sent(r)'
  BY <1>1, <1>2 DEF Sent, InFlightPlaces, Files
<1>6. RowInv'
  BY <1>1, <1>2, <1>5 DEF RowInv, Sent, IsBlank
<1>7. r \notin alone /\ \A s : InFlight(s)' = InFlight(s)
  BY <1>1, <1>2, <1>5 DEF AloneInv, Sent, InFlight
<1>8. AloneInv'
  BY <1>1, <1>2, <1>7 DEF AloneInv, Sent, TypeOK
<1>9. DoneIsStored'
  BY <1>1, <1>2, <1>7 DEF DoneIsStored, Stored, ReadSecret, decrypt, TypeOK
<1> QED BY <1>3, <1>4, <1>6, <1>8, <1>9

LEMMA EditKeeps ==
  ASSUME SettingsInv, NEW f \in Files, NEW t \in Text, Edit(f, t)
  PROVE  SettingsInv'
<1> USE SettingsAssumption DEF SettingsInv, Edit, store, sendVars
<1>1. \A r \in Runs, g \in Files :
        /\ had[r][g] \subseteq had'[r][g]
        /\ at[r] \in Files => tree'[g] \in had'[r][g]
        /\ had'[r][g] \in SUBSET Text
  BY DEF TypeOK, ReadInv, Config
<1>2. TypeOK'
  <2>1. tree' \in Config
    BY DEF TypeOK, Config
  <2>2. had' \in [Runs -> [Files -> SUBSET Text]]
    BY DEF TypeOK
  <2> QED BY <2>1, <2>2 DEF TypeOK
<1>3. ReadInv'
  BY <1>1 DEF ReadInv
<1>4. RowInv'
  BY DEF RowInv, Sent
<1>5. AloneInv'
  BY DEF AloneInv, Sent, InFlight
<1>6. DoneIsStored'
  <2> SUFFICES ASSUME NEW r \in alone, at[r] = "done" PROVE Stored(r)'
    BY DEF DoneIsStored
  <2>1. Stored(r)
    BY DEF DoneIsStored
  <2> QED BY <1>1, <2>1 DEF Stored, ReadSecret, decrypt, TypeOK
<1> QED BY <1>2, <1>3, <1>4, <1>5, <1>6

(* A request that is sent is the last one of its slots; the requests that  *)
(* were last there no longer are.                                          *)
LEMMA SendKeeps ==
  ASSUME SettingsInv, NEW r \in Runs, Send(r)
  PROVE  SettingsInv'
<1> USE SettingsAssumption DEF SettingsInv, Send, disk, store
<1>1. op[r] \in Operations /\ at[r] = "send" /\ r \notin alone
  BY RunningOperation DEF AloneInv, Sent, InFlightPlaces
<1>2. CASE at'[r] = "stopped"
  <2>1. UNCHANGED sendVars /\ at' = [at EXCEPT ![r] = "stopped"]
    BY <1>1, <1>2 DEF TypeOK, Goto
  <2>2. \A s : InFlight(s)' = InFlight(s)
    BY <1>1, <2>1 DEF InFlight, InFlightPlaces, TypeOK
  <2>3. TypeOK' /\ ReadInv'
    BY <1>1, <2>1 DEF TypeOK, ReadInv, HasRead, Place, Files, InFlightPlaces, sendVars
  <2>4. RowInv'
    BY <1>1, <2>1 DEF TypeOK, RowInv, Sent, InFlightPlaces
  <2>5. AloneInv' /\ DoneIsStored'
    BY <1>1, <2>1, <2>2
    DEF TypeOK, AloneInv, DoneIsStored, Stored, ReadSecret, decrypt, Sent, sendVars
  <2> QED BY <2>3, <2>4, <2>5
<1>3. CASE at'[r] # "stopped"
  <2>1. /\ at' = [at EXCEPT ![r] = "request"]
        /\ last' = [s \in Slots |-> IF s \in SlotOf(op[r]) THEN r ELSE last[s]]
        /\ alone' = IF \A s \in SlotOf(op[r]) : InFlight(s) = {}
                    THEN alone \union {r} ELSE alone
    BY <1>1, <1>3 DEF TypeOK, Goto
  <2>2. \A s : InFlight(s)' = IF s \in SlotOf(op[r]) THEN InFlight(s) \union {r}
                              ELSE InFlight(s)
    BY <1>1, <2>1 DEF InFlight, InFlightPlaces, TypeOK
  <2>3. TypeOK'
    BY <1>1, <2>1 DEF TypeOK, Place, InFlightPlaces, Files
  <2>4. ReadInv'
    BY <1>1, <2>1 DEF TypeOK, ReadInv, HasRead, Files, InFlightPlaces
  <2>5. RowInv'
    BY <1>1, <2>1 DEF TypeOK, RowInv, Sent, InFlightPlaces
  <2>6. AloneInv'
    <3> SUFFICES ASSUME NEW q \in alone'
                 PROVE  /\ Sent(q)'
                        /\ \A s \in SlotOf(op[q]) : last'[s] = q => InFlight(s)' \subseteq {q}
      BY DEF AloneInv
    <3>1. CASE q = r
      BY <1>1, <2>1, <2>2, <3>1 DEF TypeOK, Sent, InFlightPlaces
    <3>2. CASE q # r
      <4>1. q \in alone /\ q \in Runs /\ Sent(q) /\ op[q] \in Operations
        BY <2>1, <3>2, RunningOperation DEF AloneInv, TypeOK, Sent, InFlightPlaces
      <4>2. \A s \in SlotOf(op[q]) :
              s \in Slots /\ (last[s] = q => InFlight(s) \subseteq {q})
        BY <4>1, SlotsAreSlots DEF AloneInv
      <4> QED BY <2>1, <2>2, <3>2, <4>1, <4>2 DEF Sent, TypeOK
    <3> QED BY <3>1, <3>2
  <2>7. DoneIsStored'
    <3> SUFFICES ASSUME NEW q \in alone', at'[q] = "done" PROVE Stored(q)'
      BY DEF DoneIsStored
    <3>1. q # r /\ q \in alone /\ q \in Runs /\ at[q] = "done"
      BY <2>1 DEF TypeOK
    <3>2. op[q] \in Operations
      BY <3>1, RunningOperation
    <3>3. Stored(q)
      BY <3>1 DEF DoneIsStored
    <3>4. \A s \in Slots : last'[s] = q => last[s] = q
      BY <2>1, <3>1
    <3> QED BY <3>1, <3>2, <3>3, <3>4, OperationFields DEF Stored, ReadSecret, decrypt, Slots
  <2> QED BY <2>3, <2>4, <2>5, <2>6, <2>7
<1> QED BY <1>2, <1>3

-----------------------------------------------------------------------------
(* The steps that end a request or a run *)

(* What is common to them: a run moves on, and no run begins to be in      *)
(* flight.                                                                 *)
LEMMA EndKeeps ==
  ASSUME SettingsInv,
         at' \in [Runs -> Place],
         \A q \in Runs : \/ at'[q] = at[q]
                         \/ /\ at[q] \in InFlightPlaces
                            /\ at'[q] \in {"abandoned", "failed", "done"}
                         \/ /\ at[q] \in Files \union {"send"}
                            /\ at'[q] = "stopped",
         UNCHANGED <<disk, op, mem, sendVars>>
  PROVE  /\ ReadInv' /\ AloneInv'
         /\ RowInv /\ UNCHANGED row => RowInv'
         /\ \A q \in Runs : at'[q] # "idle" => op[q] \in Offered
         /\ \A q \in Runs : at'[q] \in Files => op[q].kind = "apply"
<1> USE DEF SettingsInv, disk, sendVars
<1>1. ReadInv'
  <2> SUFFICES ASSUME NEW r \in Runs, NEW f \in Files
               PROVE  /\ at'[r] \in Files => tree[f] \in had[r][f]
                      /\ HasRead(at'[r], f) /\ op[r].kind = "apply" /\ f \in op[r].only
                           => mem[r][f] \in had[r][f]
    BY DEF ReadInv
  <2>1. at'[r] \in Files => at[r] \in Files
    BY DEF Files, InFlightPlaces
  <2>2. HasRead(at'[r], f) => HasRead(at[r], f)
    BY DEF HasRead, Files, InFlightPlaces
  <2> QED BY <2>1, <2>2 DEF ReadInv
<1>2. \A q \in Runs : Sent(q) => Sent(q)'
  BY DEF Sent, Files, InFlightPlaces
<1>3. \A s : InFlight(s)' \subseteq InFlight(s)
  BY DEF InFlight, Files, InFlightPlaces
<1>4. AloneInv'
  BY <1>2, <1>3 DEF AloneInv, TypeOK
<1>5. RowInv /\ UNCHANGED row => RowInv'
  BY <1>2 DEF RowInv, IsBlank
<1>6. /\ \A q \in Runs : at'[q] # "idle" => op[q] \in Offered
      /\ \A q \in Runs : at'[q] \in Files => op[q].kind = "apply"
  BY DEF TypeOK, Files, InFlightPlaces
<1> QED BY <1>1, <1>4, <1>5, <1>6

(* Interruptions, failures and restarts of the Hub leave the rows alone.   *)
LEMMA FailureKeeps ==
  ASSUME SettingsInv,
         \/ \E r \in Runs : Interrupt(r) \/ RequestFails(r)
         \/ \E key \in HubKeys : HubRestart(key)
  PROVE  SettingsInv'
<1> USE SettingsAssumption DEF SettingsInv
<1>1. /\ at' \in [Runs -> Place]
      /\ \A q \in Runs : \/ at'[q] = at[q]
                         \/ /\ at[q] \in InFlightPlaces
                            /\ at'[q] \in {"abandoned", "failed"}
                         \/ /\ at[q] \in Files \union {"send"}
                            /\ at'[q] = "stopped"
      /\ UNCHANGED <<disk, op, mem, sendVars, row, vault>> /\ hubKey' \in HubKeys
  BY DEF TypeOK, Interrupt, RequestFails, HubRestart, Goto, Place, InFlightPlaces, Files,
     store
<1>2. ReadInv' /\ AloneInv' /\ RowInv'
  BY <1>1, EndKeeps
<1>3. TypeOK'
  <2>1. /\ \A q \in Runs : at'[q] # "idle" => op[q] \in Offered
        /\ \A q \in Runs : at'[q] \in Files => op[q].kind = "apply"
    BY <1>1, EndKeeps
  <2> QED BY <1>1, <2>1 DEF TypeOK, disk, sendVars
<1>4. DoneIsStored'
  <2>1. \A r \in Runs : at'[r] = "done" => at[r] = "done"
    BY <1>1
  <2> QED BY <1>1, <2>1 DEF DoneIsStored, Stored, ReadSecret, decrypt, TypeOK, disk, sendVars
<1> QED BY <1>2, <1>3, <1>4

(* A request that is handled while another run has the last word on its    *)
(* slot: that one was not alone.                                           *)
LEMMA HandledIsLast ==
  ASSUME SettingsInv, NEW r \in Runs, at[r] \in InFlightPlaces,
         NEW s \in SlotOf(op[r]),
         NEW q \in alone, last[s] = q, s \in SlotOf(op[q])
  PROVE  q = r
BY DEF SettingsInv, AloneInv, InFlight

(* What the three handlers have in common.                                 *)
LEMMA AnswerMoves ==
  ASSUME SettingsInv, NEW r \in Runs, at[r] \in InFlightPlaces, Answer(r)
  PROVE  /\ at' \in [Runs -> Place]
         /\ at'[r] \in {"failed", "done"}
         /\ \A q \in Runs \ {r} : at'[q] = at[q]
         /\ op[r] \in Operations
BY RunningOperation DEF SettingsInv, Answer, Goto, TypeOK, Place, InFlightPlaces

LEMMA ApplyKeeps ==
  ASSUME SettingsInv, NEW r \in Runs, handleConfigApply(r)
  PROVE  SettingsInv'
<1> USE SettingsAssumption DEF SettingsInv, handleConfigApply, UpsertConfig, Asks
<1>1. /\ at' \in [Runs -> Place] /\ at'[r] \in {"failed", "done"}
      /\ \A q \in Runs \ {r} : at'[q] = at[q]
      /\ op[r] \in Operations
  BY AnswerMoves
<1>2. ReadInv' /\ AloneInv'
  BY <1>1, EndKeeps
<1>3. TypeOK'
  <2>1. /\ \A q \in Runs : at'[q] # "idle" => op[q] \in Offered
        /\ \A q \in Runs : at'[q] \in Files => op[q].kind = "apply"
    BY <1>1, EndKeeps
  <2> QED BY <1>1, <2>1 DEF TypeOK, disk, sendVars
<1>4. RowInv'
  <2>1. Sent(r)'
    BY <1>1 DEF Sent
  <2> QED BY <2>1 DEF RowInv, IsBlank
<1>5. DoneIsStored'
  <2> SUFFICES ASSUME NEW q \in alone, at'[q] = "done" PROVE Stored(q)'
    BY DEF DoneIsStored, sendVars
  <2>0. q \in Runs /\ UNCHANGED <<op, had, vault, hubKey, last>>
    BY DEF TypeOK, disk, sendVars
  <2>1. CASE q = r
    <3>1. row' # None /\ \A f \in Files : f \in op[r].only => row'[f] \in had[r][f]
      BY SettingsAssumption DEF ReadInv, HasRead, TypeOK
    <3> QED BY <2>0, <2>1, <3>1 DEF Stored
  <2>2. CASE q # r
    <3>1. at[q] = "done" /\ Stored(q)
      BY <1>1, <2>0, <2>2 DEF DoneIsStored
    <3>2. op[q].kind = "apply" => last["config"] # q
      BY <2>2, HandledIsLast DEF SlotOf
    <3> QED BY <2>0, <3>1, <3>2 DEF Stored, ReadSecret, decrypt
  <2> QED BY <2>1, <2>2
<1> QED BY <1>2, <1>3, <1>4, <1>5

LEMMA SecretKeeps ==
  ASSUME SettingsInv, NEW r \in Runs, handleSetSecret(r) \/ handleDeleteSecret(r)
  PROVE  SettingsInv'
<1> USE SettingsAssumption DEF SettingsInv, Asks
<1>1. /\ at' \in [Runs -> Place] /\ at'[r] \in {"failed", "done"}
      /\ \A q \in Runs \ {r} : at'[q] = at[q]
      /\ op[r] \in Operations /\ at[r] \in InFlightPlaces
      /\ UNCHANGED <<disk, op, mem, sendVars, row, hubKey>>
  BY AnswerMoves DEF handleSetSecret, handleDeleteSecret, UpsertSecret, DeleteSecret
<1>2. PICK k \in Keys, new \in [value : Values, sealed : HubKeys] \union {None} :
        /\ vault' = [vault EXCEPT ![k] = new]
        /\ k \in SlotOf(op[r])
        /\ \/ /\ op[r].kind = "set" /\ k = op[r].key
              /\ new = [value |-> op[r].value, sealed |-> hubKey] /\ new # None
           \/ op[r].kind = "delete" /\ k = PathKey[op[r].key] /\ new = None
  <2>1. CASE handleSetSecret(r)
    <3>1. op[r].key \in Keys /\ op[r].value \in Values /\ hubKey \in HubKeys
      BY <1>1, <2>1, OperationFields DEF handleSetSecret, TypeOK
    <3>2. PICK new : new = [value |-> op[r].value, sealed |-> hubKey]
      OBVIOUS
    <3>3. new \in [value : Values, sealed : HubKeys] /\ new # None
      BY <3>1, <3>2
    <3>4. vault' = [vault EXCEPT ![op[r].key] = new]
      BY <2>1, <3>2 DEF handleSetSecret, UpsertSecret, encrypt
    <3>5. op[r].kind = "set" /\ op[r].key \in SlotOf(op[r])
      BY <2>1 DEF handleSetSecret, SlotOf
    <3> QED BY <3>1, <3>2, <3>3, <3>4, <3>5
  <2>2. CASE handleDeleteSecret(r)
    BY <1>1, <2>2, OperationFields DEF handleDeleteSecret, DeleteSecret, SlotOf
  <2> QED BY <2>1, <2>2
<1>3. ReadInv' /\ AloneInv' /\ RowInv'
  BY <1>1, EndKeeps
<1>4. TypeOK'
  <2>1. /\ \A q \in Runs : at'[q] # "idle" => op[q] \in Offered
        /\ \A q \in Runs : at'[q] \in Files => op[q].kind = "apply"
    BY <1>1, EndKeeps
  <2>2. vault' \in [Keys -> [value : Values, sealed : HubKeys] \union {None}]
    BY <1>2 DEF TypeOK
  <2> QED BY <1>1, <2>1, <2>2 DEF TypeOK, disk, sendVars
<1>5. DoneIsStored'
  <2> SUFFICES ASSUME NEW q \in alone, at'[q] = "done" PROVE Stored(q)'
    BY <1>1 DEF DoneIsStored, sendVars
  <2>0. q \in Runs /\ UNCHANGED <<op, had, row, hubKey, last>>
    BY <1>1 DEF TypeOK, disk, sendVars
  <2>1. CASE q = r
    <3>1. vault'[k] = new
      BY <1>2 DEF TypeOK
    <3>2. CASE op[r].kind = "set"
      <4>1. k = op[r].key /\ new = [value |-> op[r].value, sealed |-> hubKey] /\ new # None
        BY <1>2, <3>2
      <4>2. vault'[k].value = op[r].value /\ vault'[k].sealed = hubKey /\ vault'[k] # None
        <5>1. new.value = op[r].value /\ new.sealed = hubKey
          BY <4>1
        <5> QED BY <3>1, <4>1, <5>1
      <4>3. ReadSecret(k)' = op[r].value
        BY <2>0, <4>2 DEF ReadSecret, decrypt
      <4> QED BY <2>0, <2>1, <3>2, <4>1, <4>2, <4>3 DEF Stored
    <3>3. CASE op[r].kind = "delete"
      BY <1>2, <2>0, <2>1, <3>1, <3>3 DEF Stored
    <3> QED BY <1>2, <3>2, <3>3
  <2>2. CASE q # r
    <3>1. at[q] = "done" /\ Stored(q) /\ op[q] \in Operations
      BY <1>1, <2>0, <2>2, RunningOperation DEF DoneIsStored
    <3>2. k \in SlotOf(op[q]) => last[k] # q
      BY <1>1, <1>2, <2>2, HandledIsLast
    <3>3. ASSUME NEW j \in Keys, j # k PROVE vault'[j] = vault[j]
      BY <1>2, <3>3 DEF TypeOK
    <3>4. CASE op[q].kind = "apply"
      BY <2>0, <3>1, <3>4 DEF Stored
    <3>5. CASE op[q].kind = "set"
      <4>1. op[q].key \in Keys /\ (last[op[q].key] = q => op[q].key # k)
        BY <3>1, <3>2, <3>5, OperationFields DEF SlotOf
      <4> QED BY <2>0, <3>1, <3>3, <3>5, <4>1 DEF Stored, ReadSecret, decrypt
    <3>6. CASE op[q].kind = "delete"
      <4>1. PathKey[op[q].key] = op[q].key /\ last[op[q].key] = q =>
              op[q].key \in Keys /\ op[q].key # k
        BY <3>1, <3>2, <3>6, OperationFields, SettingsAssumption DEF SlotOf
      <4> QED BY <2>0, <3>1, <3>3, <3>6, <4>1 DEF Stored
    <3> QED BY <3>1, <3>4, <3>5, <3>6, OperationFields
  <2> QED BY <2>1, <2>2
<1> QED BY <1>3, <1>4, <1>5

LEMMA Inductive == SettingsInv /\ [Next]_vars => SettingsInv'
<1> SUFFICES ASSUME SettingsInv, [Next]_vars PROVE SettingsInv'
  OBVIOUS
<1>1. CASE UNCHANGED vars
  <2> USE <1>1 DEF vars, disk, store, sendVars
  <2>1. TypeOK' /\ ReadInv' /\ RowInv'
    BY DEF SettingsInv, TypeOK, ReadInv, RowInv, Sent, IsBlank
  <2>2. AloneInv' /\ DoneIsStored'
    BY DEF SettingsInv, AloneInv, DoneIsStored, Stored, ReadSecret, decrypt, Sent, InFlight
  <2> QED BY <2>1, <2>2 DEF SettingsInv
<1>2. CASE Next
  BY <1>2, StartKeeps, ReadFileKeeps, EditKeeps, SendKeeps, ApplyKeeps, SecretKeeps,
     FailureKeeps DEF Next, RunStep
<1> QED BY <1>1, <1>2

LEMMA Initial == Init => SettingsInv
<1> SUFFICES ASSUME Init PROVE SettingsInv
  OBVIOUS
<1> USE SettingsAssumption DEF Init
<1>1. TypeOK
  BY DEF TypeOK, Config, Text, Files, Place, Slots
<1>2. ReadInv /\ RowInv /\ AloneInv /\ DoneIsStored
  BY DEF ReadInv, HasRead, Files, InFlightPlaces, RowInv, AloneInv, DoneIsStored
<1> QED BY <1>1, <1>2 DEF SettingsInv

-----------------------------------------------------------------------------
(* The theorems *)

(* The tables, the vault and the runs keep their types: no blank secret is *)
(* ever stored.                                                            *)
THEOREM TypeCorrect == Spec => []TypeOK
<1>1. SettingsInv => TypeOK
  BY DEF SettingsInv
<1> QED BY <1>1, Initial, Inductive, PTL DEF Spec

(* The row of the project is never a mix: it is what one apply has sent,   *)
(* whichever of them overlapped, failed or were interrupted.               *)
THEOREM RowIsOneUpload == Spec => []RowInv
<1>1. SettingsInv => RowInv
  BY DEF SettingsInv
<1> QED BY <1>1, Initial, Inductive, PTL DEF Spec

(* What a run was told it has done is done, until another one is sent.     *)
THEOREM DoneStays == Spec => []DoneIsStored
<1>1. SettingsInv => DoneIsStored
  BY DEF SettingsInv
<1> QED BY <1>1, Initial, Inductive, PTL DEF Spec
===============================================================================
