---------------------------- MODULE LogicPipeline ----------------------------
(***************************************************************************)
(* From the developer's logic/ directory to the types of the project: runs *)
(* of `stk logic validate`, `stk logic apply` and `stk sync`, any number   *)
(* at once, while files are written and deleted.                           *)
(*                                                                         *)
(* An apply lists the files, reads and parses them one after the other,    *)
(* pairs each .sql or .js with the .yaml of its name, validates the pairs  *)
(* and sends all their bundles in one manifest, or sends nothing.  A sync  *)
(* fetches the manifest and writes manifest.json and then the types.       *)
(*                                                                         *)
(* Here the Hub has one project and a manifest that is replaced at once:   *)
(* ManifestRegistry has the details.                                       *)
(***************************************************************************)
EXTENDS Naturals

CONSTANTS
  Runs,      \* runs of the CLI, each made once
  Offered,   \* the commands that are made
  Entries,   \* a directory below logic/ with a file name without extension
  Private,   \* the entries whose name begins with _
  Misplaced, \* the entries directly in logic/, or without a name
  Files,     \* the files of interest: the name without, and the extension
  Rank,      \* Rank[f]: when filepath.Walk comes to file f
  Trees,     \* the states the directory may be in at the beginning
  Earlier,   \* directories one of which may have been deployed before
  Edits,     \* the <<file, text>> the developer may write
  MaxEdits,  \* a bound on the number of edits
  Malformed, \* a text that is no YAML
  None       \* no file, no front matter, no manifest, nothing set

MetaExt == {"yaml", "yml"}
LogicExt == {"js", "sql"}
KnownExt == MetaExt \union LogicExt \union {"hcl"}
Commands == {"apply", "validate", "sync"}

(* A text is Malformed or what the parser makes of it.  Of the fields      *)
(* access stands for target and cache too; "" is not told from a missing   *)
(* field.  Params, if there are any, has for each name None or the type    *)
(* and whether it is required.                                             *)
AllowedTypes == {"string", "int", "bool", "json"}
Unset == [access |-> None, params |-> None]
IsMeta(text) == DOMAIN text = {"access", "params"}
IsLogic(text) == DOMAIN text = {"block", "fence", "body"}
IsText(text, f) ==
  \/ text \in {None, Malformed}
  \/ IF f.ext \in LogicExt THEN IsLogic(text) ELSE f.ext \in MetaExt => IsMeta(text)
IsDirectory(d) == d = [f \in Files |-> d[f]] /\ \A f \in Files : IsText(d[f], f)

(* filepath.Walk goes by the names, and so it comes to x.yaml before x.yml. *)
ASSUME PipelineAssumption ==
  /\ Private \union Misplaced \subseteq Entries
  /\ Files \subseteq [entry : Entries, ext : KnownExt \union {"md"}]
  /\ Rank \in [Files -> Nat]
  /\ \A f, g \in Files :
       /\ Rank[f] = Rank[g] => f = g
       /\ f.entry = g.entry /\ f.ext = "yaml" /\ g.ext = "yml" => Rank[f] < Rank[g]
  /\ Offered \subseteq Commands /\ None \notin Commands
  /\ MaxEdits \in Nat
  /\ \A d \in Trees \union Earlier : IsDirectory(d)
  /\ \A edit \in Edits : edit[1] \in Files /\ IsText(edit[2], edit[1])

VARIABLES
  tree,    \* tree[f]: the text of the file, or None
  edits,   \* the number of edits so far
  hub,     \* the manifest of the Hub: a set of bundles, or None
  out,     \* what the files say that a sync writes; None: missing, or torn
  mixed,   \* the files that several syncs are writing
  stage,   \* stage[r]: where run r is
  op,      \* op[r]: its command
  list,    \* list[r]: the files it has still to read
  entries, \* entries[r]: its map from entries to the logicEntry of each
  mem,     \* mem[r]: the manifest it has made, or fetched
  had,     \* history: had[r][f], the texts file f had while r listed and read
  quiet    \* history: the last sync, if it met no other sync and no push

run == <<stage, op, list, entries, mem>>
pipelineVars == <<tree, edits, hub, out, mixed, run, had, quiet>>

Outputs == {"manifest.json", "types"}

(* "refused": the run found the files invalid; "stopped", "failed": it was *)
(* cut short or the Hub was; "abandoned": the CLI is gone and its request  *)
(* is not.                                                                 *)
Building == {"scan", "read"}
Stages == Building \union Outputs \union
  {"idle", "send", "request", "abandoned", "fetch", "writing manifest.json",
   "writing types", "refused", "stopped", "failed", "nothing", "done"}
Writing(f) == IF f = "types" THEN "writing types" ELSE "writing manifest.json"
InSync == Outputs \union {"fetch", "writing manifest.json", "writing types"}

IsEntry(entry) ==
  /\ entry.meta = None \/ IsMeta(entry.meta)
  /\ \A c \in entry.contents : c.type \in LogicExt /\ IsMeta(c.config)
IsManifest(m) ==
  m = None \/ \A b \in m : /\ b.entry \in Entries \ Misplaced
                           /\ b.type \in LogicExt
                           /\ \A c \in m : c.entry = b.entry => c = b

PipelineTypeOK ==
  /\ IsDirectory(tree)
  /\ edits \in 0 .. MaxEdits
  /\ DOMAIN out = Outputs /\ mixed \subseteq Outputs
  /\ stage \in [Runs -> Stages]
  /\ op \in [Runs -> Offered \union {None}]
  /\ list \in [Runs -> SUBSET {f \in Files : f.ext \in KnownExt}]
  /\ DOMAIN entries = Runs /\ DOMAIN mem = Runs
  /\ \A r \in Runs : DOMAIN entries[r] \subseteq Entries
  /\ \A r \in Runs : \A e \in DOMAIN entries[r] : IsEntry(entries[r][e])
  /\ IsManifest(hub) /\ \A r \in Runs : IsManifest(mem[r])
  /\ DOMAIN had = Runs /\ \A r \in Runs : DOMAIN had[r] = Files
  /\ quiet \subseteq Runs

Enter(r, place) == stage' = [stage EXCEPT ![r] = place]

-----------------------------------------------------------------------------
(* The parser *)

(* yaml.Unmarshal into a config: a field that is not there keeps its       *)
(* value, and the names of a map are added to those it has.                *)
Unmarshal(config, front) ==
  IF front = None THEN config
  ELSE [access |-> IF front.access = None THEN config.access ELSE front.access,
        params |-> IF front.params = None THEN config.params
                   ELSE IF config.params = None THEN front.params
                   ELSE [p \in DOMAIN front.params |->
                           IF front.params[p] = None THEN config.params[p]
                           ELSE front.params[p]]]

(* ParseLogicFile: first the front matter in a block comment, then the one *)
(* between lines of ---; what follows is the body.                         *)
IsMalformed(text) ==
  \/ text = Malformed
  \/ IsLogic(text) /\ Malformed \in {text.block, text.fence}
ParseLogicFile(text, ext) ==
  [config |-> Unmarshal(Unmarshal(Unset, text.block), text.fence),
   body |-> text.body, type |-> ext]

(* Mutant: a metadata file replaces the front matter as a whole.           *)
applyLogicMetadataWhole(config, meta) == IF meta = None THEN config ELSE meta

(* The metadata file wins, field by field, but for params as a whole.      *)
applyLogicMetadata(config, meta) ==
  IF meta = None THEN config
  ELSE [access |-> IF meta.access = None THEN config.access ELSE meta.access,
        params |-> IF meta.params = None THEN config.params ELSE meta.params]

(* Mutant: where the entry is does not matter.                             *)
ValidateLogicConfigAnywhere(e, body, config) ==
  /\ body # "blank"
  /\ config.access # "blank"
  /\ config.params # None =>
       \A p \in DOMAIN config.params :
         config.params[p] = None \/ config.params[p].type \in AllowedTypes

ValidateLogicConfig(e, body, config) ==
  /\ e \notin Misplaced
  /\ body # "blank"
  /\ config.access # "blank"
  /\ config.params # None =>
       \A p \in DOMAIN config.params :
         config.params[p] = None \/ config.params[p].type \in AllowedTypes

-----------------------------------------------------------------------------
(* What a directory says, whatever the order in which its files are read *)

Of(d, e, exts) == {f \in Files : f.entry = e /\ f.ext \in exts /\ d[f] # None}
EntriesOf(d) == {e \in Entries : Of(d, e, KnownExt) # {}}

(* The one source of an entry, and its metadata file: .yml before .yaml.   *)
Source(d, e) == CHOOSE f \in Of(d, e, LogicExt) : TRUE
Metadata(d, e) == CHOOSE f \in Of(d, e, MetaExt) : Of(d, e, {"yml"}) # {} => f.ext = "yml"

(* What speaks for an entry, the strongest first: the metadata file, the   *)
(* front matter between lines of ---, the one in a block comment.          *)
Said(d, e) ==
  LET text == d[Source(d, e)]
  IN  <<IF Of(d, e, MetaExt) = {} THEN Unset ELSE d[Metadata(d, e)],
        IF text.fence = None THEN Unset ELSE text.fence,
        IF text.block = None THEN Unset ELSE text.block>>

(* The strongest wins; for params the metadata file as a whole, the front  *)
(* matters name by name.                                                   *)
Access(d, e) ==
  LET set == {i \in 1 .. 3 : Said(d, e)[i].access # None}
  IN  IF set = {} THEN None
      ELSE Said(d, e)[CHOOSE i \in set : \A j \in set : i <= j].access

Params(d, e) ==
  LET set == {i \in 1 .. 3 : Said(d, e)[i].params # None}
      fence == Said(d, e)[2].params
  IN  IF set = {} THEN None
      ELSE IF set = {2, 3}
           THEN [p \in DOMAIN fence |->
                   IF fence[p] # None THEN fence[p] ELSE Said(d, e)[3].params[p]]
           ELSE Said(d, e)[CHOOSE i \in set : \A j \in set : i <= j].params

Valid(d) ==
  \A e \in EntriesOf(d) :
    /\ \E f \in Files : Of(d, e, LogicExt) = {f}
    /\ \A f \in Of(d, e, MetaExt \union LogicExt) : ~IsMalformed(d[f])
    /\ e \notin Misplaced /\ d[Source(d, e)].body # "blank" /\ Access(d, e) # "blank"
    /\ \/ Params(d, e) = None
       \/ \A p \in DOMAIN Params(d, e) :
            Params(d, e)[p] # None => Params(d, e)[p].type \in AllowedTypes

Deployment(d) ==
  {[entry |-> e, type |-> Source(d, e).ext, content |-> d[Source(d, e)].body,
    config |-> [access |-> Access(d, e), params |-> Params(d, e)]] : e \in EntriesOf(d)}

ASSUME EarlierAssumption == \A d \in Earlier : Valid(d)

PipelineInit ==
  /\ tree \in Trees
  /\ edits = 0
  /\ hub \in {None} \union {Deployment(d) : d \in Earlier}
  /\ out = [f \in Outputs |-> None]
  /\ mixed = {}
  /\ stage = [r \in Runs |-> "idle"]
  /\ op = [r \in Runs |-> None]
  /\ list = [r \in Runs |-> {}]
  /\ entries = [r \in Runs |-> <<>>]
  /\ mem = [r \in Runs |-> None]
  /\ had = [r \in Runs |-> [f \in Files |-> {}]]
  /\ quiet = {}

-----------------------------------------------------------------------------
(* stk logic apply, stk logic validate *)

Start(r, o) ==
  /\ stage[r] = "idle"
  /\ op' = [op EXCEPT ![r] = o]
  /\ IF o = "sync"
     THEN /\ Enter(r, "fetch")
          /\ quiet' = IF \E q \in Runs : stage[q] \in InSync \union {"request", "abandoned"}
                      THEN {} ELSE {r}
          /\ UNCHANGED had
     ELSE /\ Enter(r, "scan")
          /\ had' = [had EXCEPT ![r] = [f \in Files |-> {tree[f]}]]
          /\ UNCHANGED quiet
  /\ UNCHANGED <<tree, edits, hub, out, mixed, list, entries, mem>>

(* filepath.Walk finds the files that are there from its beginning to its  *)
(* end, and maybe others that were there for some time.                    *)
ScanLogic(r) ==
  /\ stage[r] = "scan"
  /\ \E found \in SUBSET {f \in Files : had[r][f] # {None}} :
       /\ \A f \in Files : None \notin had[r][f] => f \in found
       /\ list' = [list EXCEPT ![r] = {f \in found : f.ext \in KnownExt}]
       /\ Enter(r, IF list'[r] = {} THEN "nothing" ELSE "read")
  /\ UNCHANGED <<tree, edits, hub, out, mixed, op, entries, mem, had, quiet>>

(* What the loop over the files makes of an entry: a second source is an   *)
(* error, a later metadata file replaces an earlier one.                   *)
EntryOf(r, e) ==
  IF e \in DOMAIN entries[r] THEN entries[r][e] ELSE [meta |-> None, contents |-> {}]

Rejected(entry, f, text) ==
  \/ f.ext \in LogicExt /\ entry.contents # {}
  \/ f.ext # "hcl" /\ IsMalformed(text)

WithFile(entry, f, text) ==
  [meta |-> IF f.ext \in MetaExt THEN text ELSE entry.meta,
   contents |-> IF f.ext \in LogicExt THEN {ParseLogicFile(text, f.ext)}
                ELSE entry.contents]

(* The next file is read; one that has gone ends the run.                  *)
ReadFile(r) ==
  /\ stage[r] = "read"
  /\ \E f \in list[r] :
       /\ \A g \in list[r] : Rank[f] <= Rank[g]
       /\ IF tree[f] = None \/ Rejected(EntryOf(r, f.entry), f, tree[f])
          THEN /\ Enter(r, IF tree[f] = None THEN "stopped" ELSE "refused")
               /\ UNCHANGED <<list, entries>>
          ELSE /\ entries' = [entries EXCEPT ![r] =
                    [e \in DOMAIN entries[r] \union {f.entry} |->
                       IF e = f.entry THEN WithFile(EntryOf(r, e), f, tree[f])
                       ELSE entries[r][e]]]
               /\ list' = [list EXCEPT ![r] = @ \ {f}]
               /\ UNCHANGED stage
  /\ UNCHANGED <<tree, edits, hub, out, mixed, op, mem, had, quiet>>

BundleLogic(e, entry) ==
  LET content == CHOOSE c \in entry.contents : TRUE
  IN  [entry |-> e, type |-> content.type, content |-> content.body,
       config |-> applyLogicMetadata(content.config, entry.meta)]

(* The loop over the entries, BundleLogic and CreateManifest.  The loop is *)
(* over a map: which of several errors is reported is left to chance.      *)
Build(r) ==
  /\ stage[r] = "read" /\ list[r] = {}
  /\ LET Bundle(e) == BundleLogic(e, entries[r][e])
     IN  IF \A e \in DOMAIN entries[r] :
              /\ entries[r][e].contents # {}
              /\ ValidateLogicConfig(e, Bundle(e).content, Bundle(e).config)
         THEN /\ mem' = [mem EXCEPT ![r] = {Bundle(e) : e \in DOMAIN entries[r]}]
              /\ Enter(r, IF op[r] = "apply" THEN "send" ELSE "done")
         ELSE Enter(r, "refused") /\ UNCHANGED mem
  /\ UNCHANGED <<tree, edits, hub, out, mixed, op, list, entries, had, quiet>>

(* PushManifest, with a project id.                                        *)
Send(r) ==
  /\ stage[r] = "send"
  /\ Enter(r, "request")
  /\ quiet' = {}
  /\ UNCHANGED <<tree, edits, hub, out, mixed, op, list, entries, mem, had>>

(* The Hub stores the manifest; the CLI may not hear of it.                *)
handlePushManifest(r) ==
  /\ stage[r] \in {"request", "abandoned"}
  /\ hub' = mem[r]
  /\ \/ stage[r] = "request" /\ Enter(r, "done")
     \/ Enter(r, "failed")
  /\ UNCHANGED <<tree, edits, out, mixed, op, list, entries, mem, had, quiet>>

(* The Hub refuses or cannot store it, or the request is lost.             *)
RequestFails(r) ==
  /\ stage[r] \in {"request", "abandoned", "fetch"}
  /\ Enter(r, "failed")
  /\ UNCHANGED <<tree, edits, hub, out, mixed, op, list, entries, mem, had, quiet>>

-----------------------------------------------------------------------------
(* stk sync *)

(* handleGetManifest and its answer: the Hub has a manifest, or answers    *)
(* 404 with a text that the CLI cannot decode.                             *)
FetchManifest(r) ==
  /\ stage[r] = "fetch"
  /\ IF hub = None THEN Enter(r, "failed") /\ UNCHANGED mem
     ELSE Enter(r, "manifest.json") /\ mem' = [mem EXCEPT ![r] = hub]
  /\ UNCHANGED <<tree, edits, hub, out, mixed, op, list, entries, had, quiet>>

TsType(type) ==
  IF type = "int" THEN "number" ELSE IF type = "bool" THEN "boolean"
  ELSE IF type = "string" THEN "string" ELSE "any"

(* The functions of the SDK, with the types of their params.               *)
Signature(e, params) ==
  [entry |-> e,
   params |-> IF params = None THEN {}
              ELSE {[name |-> p, type |-> TsType(params[p].type),
                     optional |-> ~params[p].required] :
                      p \in {p \in DOMAIN params : params[p] # None}}]

(* Mutant: nothing is left out.                                            *)
GenerateTypesOfAll(bundles) == {Signature(b.entry, b.config.params) : b \in bundles}

GenerateTypes(bundles) ==
  {Signature(b.entry, b.config.params) : b \in {b \in bundles : b.entry \notin Private}}

Content(r, f) == IF f = "types" THEN GenerateTypes(mem[r]) ELSE mem[r]

(* os.WriteFile empties the file before it writes; two that write the same *)
(* file at once may leave the tail of the longer one.                      *)
BeginWrite(r, f) ==
  /\ stage[r] = f
  /\ out' = [out EXCEPT ![f] = None]
  /\ mixed' = IF \E q \in Runs : stage[q] = Writing(f) THEN mixed \union {f} ELSE mixed \ {f}
  /\ Enter(r, Writing(f))
  /\ UNCHANGED <<tree, edits, hub, op, list, entries, mem, had, quiet>>

EndWrite(r, f) ==
  /\ stage[r] = Writing(f)
  /\ \/ out' = [out EXCEPT ![f] = Content(r, f)]
     \/ f \in mixed /\ out' = [out EXCEPT ![f] = None]
  /\ Enter(r, IF f = "types" THEN "done" ELSE "types")
  /\ UNCHANGED <<tree, edits, hub, mixed, op, list, entries, mem, had, quiet>>

-----------------------------------------------------------------------------
(* Ctrl-C, a missing project id or an error of the file system.            *)
Interrupt(r) ==
  /\ stage[r] \in Building \union InSync \union {"send", "request"}
  /\ Enter(r, IF stage[r] = "request" THEN "abandoned" ELSE "stopped")
  /\ UNCHANGED <<tree, edits, hub, out, mixed, op, list, entries, mem, had, quiet>>

(* The developer writes, or with None deletes, a file.                     *)
Edit(f, t) ==
  /\ <<f, t>> \in Edits /\ t # tree[f]
  /\ edits < MaxEdits /\ edits' = edits + 1
  /\ tree' = [tree EXCEPT ![f] = t]
  /\ had' = [r \in Runs |->
               IF stage[r] \in Building THEN [had[r] EXCEPT ![f] = @ \union {t}] ELSE had[r]]
  /\ UNCHANGED <<hub, out, mixed, run, quiet>>

RunStep(r) ==
  \/ ScanLogic(r) \/ ReadFile(r) \/ Build(r) \/ Send(r)
  \/ handlePushManifest(r) \/ RequestFails(r)
  \/ FetchManifest(r) \/ Interrupt(r)
  \/ \E f \in Outputs : BeginWrite(r, f) \/ EndWrite(r, f)

PipelineNext ==
  \/ \E r \in Runs : RunStep(r) \/ \E o \in Offered : Start(r, o)
  \/ \E edit \in Edits : Edit(edit[1], edit[2])

PipelineSpec == PipelineInit /\ [][PipelineNext]_pipelineVars

-----------------------------------------------------------------------------
(* Properties *)

(* The SDK of a directory.                                                *)
Sdk(d) == {Signature(e, Params(d, e)) : e \in EntriesOf(d) \ Private}

(* The directories in which each file has one of some texts.               *)
DirsWith(texts) ==
  LET open == {f \in Files : \E t, u \in texts[f] : t # u}
      choices == {c \in [open -> UNION {texts[f] : f \in open}] :
                    \A f \in open : c[f] \in texts[f]}
  IN  {[f \in Files |-> IF f \in open THEN c[f] ELSE CHOOSE t \in texts[f] : TRUE] :
         c \in choices}

(* The directories that a run may take the files it meets for: each file   *)
(* has one of the texts it had meanwhile, or was not there.                *)
DirsOf(r) == DirsWith(had[r])

(* Whatever is written or deleted while it reads, the verdict of a run is  *)
(* that of a directory whose files had these texts: what is sent is all    *)
(* that directory says and nothing else, a refusal is due to something     *)
(* invalid.  Undisturbed that is the directory itself.                     *)
VerdictIsOfADirectory ==
  \A r \in Runs :
    op[r] \in {"apply", "validate"} /\ stage[r] \notin Building \union {"idle", "stopped"} =>
      \E d \in DirsOf(r) :
        /\ stage[r] = "refused" <=> ~Valid(d)
        /\ stage[r] = "nothing" <=> EntriesOf(d) = {}
        /\ stage[r] \notin {"refused", "nothing"} => mem[r] = Deployment(d)

(* A sync that ends well, and has met no other sync and no push, leaves    *)
(* the manifest of the Hub and the types of a directory that was deployed, *)
(* without its private logic; whatever syncs were cut short before it.     *)
SyncShowsTheDeployed ==
  \A r \in quiet : stage[r] = "done" =>
    /\ out["manifest.json"] = hub
    /\ \E d \in Earlier \union UNION {DirsOf(a) : a \in {a \in Runs : op[a] = "apply"}} :
         Valid(d) /\ hub = Deployment(d) /\ out["types"] = Sdk(d)
===============================================================================
