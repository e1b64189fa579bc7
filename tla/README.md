# Santokit: a TLA+ verification development

Santokit is a serverless backend: developers write *logic* (SQL or JavaScript) and
*schema* files, the `stk` command line tool uploads them to the **Hub** (Go), the Hub
stores them and publishes the logic in an **Edge KV** (Redis), and **Bridge** servers
(TypeScript, on Workers or Node) answer the calls of the applications' client SDK. This
directory holds TLA+ models of its parts, the TLC configurations that check them and
proofs that TLAPS checks. All paths below are under `src/packages/` unless they say `docs/`.

Checking everything from this directory:

    tlc -config MCEdgeDelivery.cfg MCEdgeDelivery     # a run: see "Runs"
    tlapm EdgeDeliveryProofs.tla                      # a proof module: see "Proofs"

## 1. Inventory

| Component | State it keeps | Operations | Talks to | What makes it hard | What makes it correct |
|---|---|---|---|---|---|
| Manifest registry (`hub/internal/registry`, `store/sqlstore/registry.go`) | table `registry_manifests`; the Edge KV's keys | `Push`, `GetLatest` | CLI (HTTP), Redis, SQL | concurrent uploads; failure and death between insert and Sets; a version of one second | the KV holds stored manifests only; a refused upload shows nowhere; the views of the newest manifest agree |
| Bundle loading (`bridge/src/runtime/server.ts`, `context/index.ts`) | `bundleCache` per process | `loadBundle`, `context.invoke` | Edge KV | awaits between two Gets; a cache nothing invalidates | what runs was published; what is published is found; a miss sees a settled upload |
| Schema engine (`hub/internal/schema`, CLI `schema.go`) | `lastPlanned`, `state`; the project's database | `Plan`, `Apply`, mocks | CLI, vault, Atlas | one slot per project; plan and apply are two calls; fallbacks | an apply executes a plan; an undisturbed run has its effect |
| Response cache (`server.ts`) | `responseCache`, the Workers' Cache API | the part of `fetch` after `loadBundle` | database | overlapping executions; two caches in a row; uploads that change a setting | only public responses are shared; answers age out |
| Auto CRUD and permissions (`bridge/src/runtime/crud.ts`, `permission*.ts`) | the permission configuration; the rows | select, insert, update, delete | database | three levels of defaults; a select is two statements; names of a request are judged as texts and read by the database | as far as names are columns': owners reach their own rows, closed columns keep |
| CLI configuration and login (`cli/internal/userconfig`, `commands/login.go`, `profile.go`, `project.go`) | `~/.santokit/config.json`; port 8765 | login, profile set / use, project set, project auth set | browser, Hub | whole-file read-modify-write without a lock; truncate, then write; one port | the current profile exists; a login saves a token of its Hub |
| Hub authentication (`hub/api/router.go`) | none but the signing key | login, refresh, logout, verify | client SDK | tokens outlive a logout | a refresh needs a live token; the Hub and the Bridge agree on who a token is |
| Client SDK (`client/src`) | token storage, the user | login, refresh, logout, call | Hub, Bridge | answers that resolve after a logout, errors, answers that never complete; calls executed after their timeout | after a quiet logout nobody returns without a login; nobody acts beyond the life of a token; calls end |
| Project settings, vault (`hub/internal/projectconfig`, `vault`, CLI `config.go`, `secret.go`) | rows per project and key; the encryption key of the process | config apply, secret set, secret delete; reads | CLI, SQL | files that change while they are read; lost requests that are handled later; upserts of whole rows; a restart with another key | who was told of a success, and was last, has done what was asked |
| Projects and teams (`hub/internal/projects`) | `projects`, `teams`, `team_members`, `personal_teams` | create project, create team, invite; listings | SQL | the personal team is made on demand, by two requests at once, in another transaction than the project | one personal team per user; owners see what they made; only the race for the first team is lost |
| CLI logic pipeline (`cli/internal/engine`, `commands/logic.go`) | what a run has listed and read | logic apply, logic validate | file system, registry | the directory changes while it is read; settings from four places; two files of one name | what is deployed or refused is what some directory says |
| CLI sync and type generator (`commands/sync.go`, `engine/generator`) | `manifest.json` and the type definitions | sync | Hub, file system | two files, each truncated and then written, by several syncs | a quiet sync leaves both of the deployed directory |

Not modelled: the in-memory stores (only tests build them), the provisioner and the console
(no caller, routes not mounted), `stk init` and the command tree (text),
presigned URLs and encryption of the logic context, the adapters' request conversion and
connection pools, the integration tests. `PROJECT.json` has the reason of each. The shared
pieces, the CLI's communicator, the Hub's start-up and the SQL migration, are modelled where
a component depends on them.

Interactions: the CLI talks HTTP to the Hub and never to a Bridge. The Hub and the Bridge
share the Edge KV and nothing else. The Bridge's requests of one process share `bundleCache`,
`responseCache` and the permission configuration, and interleave at every `await`. The Hub's
handlers are goroutines over one service object and one database.

## 2. Modules

    EdgeKV ---- ManifestRegistry --+
        \                          +-- EdgeDelivery --(refines)--> EdgePromise
         \----- BridgeServer ------+
    SchemaEngine    ResponseCache    AutoCrud    UserConfig    Session
    Projects --(refines)--> ProjectsPromise
    ProjectSettings    LogicPipeline

| Module | Models | State and actions against the code |
|---|---|---|
| `EdgeKV` | the two kinds of key of a project | `kvLatest`, `kvBundle`: an entry is the push its JSON came from |
| `ManifestRegistry` | `registry.Service.Push` with any number in flight | `BeginPush` (handler, version and creation time), `Save` / `SaveFails` (the INSERT; a lost reply leaves the row), `PropagateLatest`, `PropagateBundle`, `PropagateFails` (a Set that fails is printed), `ReturnManifest`, `HubCrash`, `Tick` |
| `BridgeServer` | `loadBundle` and `context.invoke` per request, several servers | one action per stretch between two awaits: `Arrive` (cache), `ReadBundleKey` / `UseBundleKey`, `ReadLatestKey` / `UseLatestKey` (which refills the whole cache), `ReadFails`, `Authorize`, `InvokeFails`, `Respond`, `Restart` |
| `EdgeDelivery` | both over one KV | the components' actions, with two history variables |
| `EdgePromise` | what both promise to callers | no clock, table, key, cache or crash; implemented by `EdgeDelivery` |
| `SchemaEngine` | `schema.Service` and `stk schema plan` / `apply` | the CLI's prompt, both services split at their database calls, the mocks, `ChangeURL`, `HubCrash` |
| `ResponseCache` | a call after its bundle is loaded | admission (`Refused`), the lookups, `executeLogic` (which may take time while the database changes), `StoreResponse`, `PutEdge`, `Fails`, `Restart`, `DropEdge` |
| `AutoCrud` | the CRUD API over one table | the permission functions as operators on *names*: a column, another spelling of one, `*`, or a text that names none; `buildWhereClause`, `Assignments` and `Assigned` say what the database reads in them. `ListColumns` and `handleCRUDSelect` are a select's two statements; one action for each write, with the rows its `RETURNING *` answers in the history `wrote`; `Restart` loads a configuration |
| `UserConfig` | the CLI's file and login | per command: `Load` (or `LoadFails`), `Truncate` and `Write` of `os.WriteFile`; a login before that: `StartLogin`, `Callback`, `TakeToken`, `GiveUp`, `getUserInfo`; `Interrupted` |
| `Session` | the client SDK's operations, the Hub's `/auth` handlers, the Bridge's check of a token | client: `Send` (reads the storage), `Headers` (clears a call's timer), `Settle`, `FetchFails`, `TimeOut`, `Abort`; servers: one action per handler and answer. The client's side of an operation (`at`) and its request (`net`) are separate, so a server may execute what the client has given up |
| `Projects` | `projects.Service` over its SQL tables | `Request` (checks of the service), `SelectPersonal`, `InsertPersonal` (waits at the primary key of `personal_teams`), `CommitPersonal`, `InsertProject`; `createTeamDB`, `inviteMemberDB` as one transaction each; `StatementFails`, `HubCrash`; a lost answer is part of each statement (`Answered`). `Moves` are the steps that do not fail. The listings are operators |
| `ProjectsPromise` | what the service promises | no statement, transaction, key or crash: a request takes effect whole, at one moment before its answer, or not at all; a user has one home; members stay. Implemented by `Projects` |
| `ProjectSettings` | `stk config apply`, `stk secret set` / `delete`, the two services and their repositories | CLI: `Start`, `ReadFile` for one file after the other, `Send`, `Interrupt`; Hub: `handleConfigApply`, `handleSetSecret`, `handleDeleteSecret`, `RequestFails`, `HubRestart`; the developer: `Edit` |
| `LogicPipeline` | `stk logic apply` / `validate`, `stk sync` | `ScanLogic`, `ReadFile` (parse and pair), `Build` (merge, validate, bundle), `Send`, `handlePushManifest`; `FetchManifest`, `BeginWrite` and `EndWrite` of `os.WriteFile`; `Interrupt`, `RequestFails`, `Edit` |

Each `MC*` module instantiates one of them for TLC and each `*Proofs` module holds its
theorems. History variables and abstractions of data are named in the modules. Definitions
with a comment "Mutant" are plausible bugs: put in the place of the definition next to them
they break the property `PROJECT.json` names, which shows that the property watches the code.

Data is abstracted to what the properties tell apart: a manifest is the push that uploaded
it (in `LogicPipeline`, where its content matters, a set of bundles), a schema is a value that equals another or not, what a logic returns is the number of
writes its database had seen, a role list is a set.

## 3. Runs

| Run | Question | Instance, distinct states |
|---|---|---|
| `edge_faults` | what the KV and the table hold with every failure; refinement of `EdgePromise`; every upload and every load ends | 2 uploads, 1 bundle, 1 request, failing Sets, 2 ticks a second, clock to 2; 120 000 |
| `edge_delivery` | which bundle a request gets or misses | 2 uploads, 2 bundles, 2 requests of one server, symmetry; 2.2 million |
| `schema` | what an apply executes and when it has its effect; the Hub answers | 2 runs, 2 schemas; 24 000 |
| `response_cache` | who gets whose response, and how old | 3 requests (symmetry), 5 settings up to 2 s, clock to 3, 1 write; 1.2 million |
| `auto_crud` | whose rows and which columns are reached | 2 rows, 3 columns, one other spelling, `*` and one other text, 2 users, 2 configurations, 1 waiting select, symmetry; 55 000 |
| `user_config` | what the file holds; every command ends | 3 commands of 6 kinds, 2 profiles, 2 Hubs; 84 000 |
| `session` | who is logged in and acted for; calls do not wait for an answer to begin | 3 operations of 5 kinds, 2 users (one the Bridge cannot decode), tokens of 1 s, clock to 2; 840 000 |
| `projects` | refinement of `ProjectsPromise`, listings, who is refused; every request ends | 3 requests that create projects or teams or invite, 2 users, 1 address; 159 000 |
| `project_settings` | what a run that reports success leaves | 2 runs (symmetry) of 9 commands, 2 texts, 3 keys (two of which a path cannot name), 2 encryption keys; 263 000 |
| `logic_pipeline` | what is deployed or refused; what a sync leaves | 2 runs (symmetry), 3 entries with 46 directories, one edit; 585 000 |
| `schema_swap`, `session_timeout` | two sentences of docs and comments, refuted | the smallest instances |

Why the bounds are enough. The actors of a component meet through one key, slot, cache entry
or file at a time, so every order of two actors' steps on it occurs with two of them; a third
appears where a property speaks of three roles (the response cache: an execution that
overwrites, one that is overwritten, and the caller of the result; the configuration: two
saves that overlap and a load; the session: a login, a logout, and a refresh or call of either
side of it). Two bundles are what a mix of two manifests needs (`edge_delivery`), `MaxNow` 2
with a second of two ticks has uploads in one and in different seconds, and lifetimes of 1 and
2 within a clock of 3 expire. `edge_delivery` leaves failing Sets out, which
`edge_faults` has, and takes one server, as servers share only the KV. The third request of
`projects` comes to a race of two, or after it. The directories of `logic_pipeline` put each
setting in each of its places, alone and against another one, twin sources and metadata files,
malformed and invalid ones, and pairs of entries, of which one is invalid. The where clauses
and the data of `auto_crud` have one name each: every kind of name, and the owner column in
both spellings with either user, so that a clause meets the row filter (which adds a second
condition) on the same column and beside it. A text in the data of an update leaves everything
open, so it is combined with the empty clause only (`Updates`). The run identifies states
without the history `wrote` (`VIEW TableView`): it is set anew by every step and read by none, and TLC
checks the two action properties that speak of it on every step, not only on those to new states. The
theorems have none of these bounds, with the exception of those on clocks.

`Permutations` of uploads, bundles, requests, users, rows and CLI runs are used as symmetry in runs
without liveness only; no definition treats two of them differently.

**Deadlock.** Uploads, commands and the like are made once in a behaviour, so an instance
stops when all of them have ended: the runs with such bounds say `CHECK_DEADLOCK FALSE`, and
the liveness properties say that nobody stops before its end.

**Fairness.** Weak fairness of the steps of an upload (`PushStep`), of a request of the Bridge
(`RequestMoves`), of a call inside the Hub (`HubStep`), of a request of the projects service (`Moves`), of a
CLI command (`CommandStep`) and of the client SDK (`ClientStep`: sending, noticing an answer, timers; `Session` assumes nothing of servers).
Goroutines and the event loop run whoever can run, every one of these steps is either local
or an I/O call that returns or fails, and the CLI's waits have timeouts. The INSERT of a personal
team may wait for another transaction's key, without a timeout (`projects/service.go:621`): its
step is possible only when the holder has ended, and its failing, which is always possible
(`StatementFails`), is not among the fair steps, so `CallsEnd` holds because holders end.
Nothing is assumed of users, of arrivals, of crashes, of the clock or of a Set succeeding. `ProjectSettings` and
`LogicPipeline` state no fairness: their CLI has no timeout, so it may wait for ever.

### What the runs show

* `KVHoldsSavedManifests`, `RefusedPushIsInvisible`: whatever fails, the KV speaks only of
  stored and accepted uploads. `CleanPushWins`: once the newest upload ran alone and lost no
  Set, the latest key, its bundles' keys and `GetLatest` agree.
* `OnlySavedBundlesRun`, `PublishedIsFound`, `MissSeesSettledPush`: for callers. The last one
  also says that a slow request which refills the cache from an old manifest cannot push an
  expected bundle out. `KeepsPromise` sums them up without any of the machinery.
* `ExecutesOnlyPlans`, `SoloRunTakesEffect`: the slot, however stale, is never executed without
  a plan of this process, and a run nobody interfered with has its effect.
* `SharedRepliesArePublic`, `HitsAgeOut`: caching across uploads that change access or
  lifetime, slow executions, restarts and two caches.
* `OwnersWriteOwnRows`, `SelectsReadWhatIsPermitted`, `ClosedColumnsKeep`: row filter, column
  lists and prefix defaults together, with rows that change owners under a waiting select.
  `runtime/crud.ts` puts the names of a request into its statements as they are (lines 70,
  131, 173, 213), so the properties say how far the checks carry. The row filter
  holds against every condition on a column, however it is spelled; the column lists, which
  look at how a name is written, hold for names written like the catalog's. For a request with
  another spelling in its data or its list nothing is said of columns, and for one with a text
  that names no column nothing at all: the model lets it do anything its operation can
  do to the table.
* `CurrentIsAProfile`, `UnreadableOnlyWhenSpoiled`, `LoginSavesItsHubsToken`: the file
  loses changes when commands overlap, but stays consistent; only an overlap or an
  interruption makes it unreadable.
* `LoggedOutStaysOut`, `ExpiredIsOver`: tokens cannot be revoked, so what a logout can promise
  depends on what is under way; once nothing is, only a login brings anybody back.
* `KeepsItsPromise`, `CreatedIsListed`, `LosesOnlyTheFirstRace`: two first projects of a user at
  once cost one of them an error, and nothing else: no second team (`OnePersonalTeam`, which
  the refinement contains and a theorem states), no half of one, no project out of its
  owner's sight, and a retry succeeds. A request whose answer was lost has taken effect whole
  or not at all, and nothing of it comes later. The owner stays a member through every invitation, as
  an invitation replaces a row of the same team, user *and* address.
* `DoneIsStored`: a success that met no other request for its row, and is the last one sent,
  has done what was asked. Without the first condition an abandoned request may be handled
  later; a secret sealed with another key reads as an error and never as another value; a key
  the path cannot name is the exception the property states.
* `VerdictIsOfADirectory`, `SyncShowsTheDeployed`: the loop over the files and the merge of the
  settings against a definition of what a directory says, which knows no order; and from there
  through the Hub to the types on another developer's disk.
* Liveness: `PushEnds`, `LoadEnds`, `HubAnswers`, `CommandsEnd`, `CallsEnd`, `HeadersOrTimeOut`.
  `CallsEnd` includes that a request which waits for another one's personal team is not left
  waiting: there is one key to wait for, and who holds it commits or fails and waits for nothing.
  Its mutant, a failed transaction that is not rolled back, leaves the waiter there for ever.

### Where documents and code disagree

* `schema_swap`: `docs/architecture/03_cli_specification.md:45` has `stk schema apply` apply
  the result of its plan. It applies the slot, which another plan may have replaced
  (`AppliesItsPlan`).
* `session_timeout`: `client/src/types/config.ts:8` and `:34` give requests a timeout.
  `client/src/proxy/client.ts:92` returns the promise of the body without awaiting it, so the
  timer is cleared first, and a body that stalls is waited for without end (`CallsTimeOut`).

Others show in the models and have no run of their own:

* `docs/architecture/04_hub_and_vault.md:54` has an upload provision the newest bundle set as
  `project:{id}:latest`. Nothing orders the Sets of two overlapping uploads
  (`registry/registry.go:88`), so both may succeed and leave the older one there: this is why
  `CleanPushWins` speaks of uploads that ran alone.
* `docs/architecture/05_server_and_edge.md:23` has every call load its bundle from the KV. A
  server with the bundle in its cache never looks (`runtime/server.ts:330`): this is why
  `MissSeesSettledPush` speaks of misses.
* The help of `stk config apply --only` (`commands/config.go:89`) offers to apply one kind of
  configuration. The upsert (`sqlstore/projectconfig.go:22`) replaces the other two columns with
  empty strings: `RowIsOneUpload` proves that the row is what one apply has sent, and so
  never the combination of two.
* `docs/architecture/02_directory_structure.md:26` shows a logic file directly in `logic/`. The
  validation refuses it for want of a namespace (`parser/parser.go:115`), and with it the whole
  upload (`Misplaced` in `LogicPipeline`).

* `docs/architecture/08_auto_crud_and_permissions.md:273` defines `owner` as access to one's own
  data, and its example (`:297`) has an `s_` column in an answer because the caller owns the row.
  For rows the code does this (`ByOwnership`); in a column's list it takes `owner` for a role of
  the token (`permission-checker.ts:33`), so by the defaults of `s_` columns an owner without such
  a role does not read or change them in its own row, nor, by those of a name without a prefix, change any.
* The same document reserves `c_` and `p_` columns for admins (`:88`, `:98`). Every write answers
  its rows with `RETURNING *` (`crud.ts:180`, `:225`, `:256`), all columns included, which no column
  list is applied to; and the lists are found by the name as the request writes it. This is why
  `SelectsReadWhatIsPermitted` speaks of selects, and of the catalog's names.

## 4. Proofs

| Module | Theorems | Argument |
|---|---|---|
| `EdgeDeliveryProofs`, the registry | `RegistryTypeCorrect`, `KVHoldsSaved`, `RefusedInvisible`, `CleanPushIsNewest`, `LatestNeverGoesBack`, `UploadsMoveOn` | `RegistryInv`: `KVInv` (only stored uploads reach the KV steps, and they set keys of their content), `ClockInv` (versions are the creation times' seconds, rows differ in them, the newest started last: hence its row is the newest), `CleanInv` (a clean upload is alone, and the keys it has set so far are its own). As rows differ in their creation times, `GetLatest` has one answer, and only a newer one replaces it: what a reader of the Hub sees never goes back, while the latest key of the Edge KV may |
| `EdgeDeliveryProofs`, both | `TypeCorrect`, `OnlySaved`, `PublishedFound`, `MissSeesSettled`, `PromiseKept`, `RequestsMoveOn` | the registry's steps are known to the readers by one lemma, `RegistryStepKeeps`; `SavedInv` follows values from the KV through `got` into cache and bundle, `FoundInv` and `ExpectInv` say at each place of a request what a key present, or an upload settled, at its arrival still implies; the refinement has one step lemma per component |
| `DeploymentProofs`, the schema | `TypeCorrect`, `OnlyPlansExecuted`, `DatabaseGetsPlans`, `SoloRunsTakeEffect`, `SoloRunsApplyTheirPlan`, `HubMovesOn` | `PlannedInv` (the slot is a recorded plan or empty, and an apply that goes on has taken a plan), from which also what the database may become; `SoloInv` with `Knows`, what an undisturbed run knows of slot, target and database at each place: for such a run the sentence that `schema_swap` refutes is a theorem |
| `DeploymentProofs`, the logic | `PipelineTypeCorrect`, `VerdictsAreSound`, `UndisturbedAreExact`, `OnlyValidIsPushed`, `HubHasADirectory`, `SyncsShowTheDeployed` | lemma `BundleOfDirectory`: what parser, metadata and integrator make of one entry is what the reference definitions (`Said`, `Access`, `Params`) say of it. `ReadInv`: at each point of the loop there is a directory, made of texts the files had meanwhile, that agrees with all that was read (`Agrees`); reading a file gives it the text just read (`ReadFileStep`), the end compares the loop's entries with the directory's (`BuildStep`), and an edit only adds directories (`EditStep`). Without an edit there is one such directory, the one on the disk; and what is pushed is the verdict of an apply. `SyncInv`: the Hub has one of those directories, and a quiet sync is alone with its files |
| `AutoCrudProofs` | `TypeCorrect`, `OwnersOnly`, `ClosedColumns`, `SelectsPermitted` | lemma `FilterWins`: through any where clause of conditions on columns, in any spelling, an owner finds its own rows only; `AssignmentType`: data that names columns like the catalog assigns no others; `SentInv` carries the filter and the columns from the listing to the statement. Names, spellings, texts and what is made of their prefixes are arbitrary |
| `ResponseCacheProofs` | `TypeCorrect`, `SharedArePublic`, `HitsAge` | `EntryInv` (an entry is a public request's, and expires within a setting of when its data was last held), `AnswerInv` follows the entries into the answers |
| `UserConfigProofs` | `TypeCorrect`, `CurrentIsThere`, `Readable`, `LoginsMatch`, `CommandsMoveOn` | `WriteInv` (unless spoiled, one save writes, over an empty file), `CurrentInv`, `TokenInv` |
| `SessionProofs` | `TypeCorrect`, `LogoutHolds`, `ExpiryHolds`, `OperationsMoveOn` | `UserInv` (a token that may still be stored is held by an operation that keeps a logout from being quiet; who acts is the token's user), `LifeInv` (no token outlives the last one issued to its user) |
| `ProjectsProofs` | `TypeCorrect`, `PersonalTeamIsOne`, `CreatedStaysListed`, `OnlyFirstRaceLoses`, `PromiseKept`, `RequestsMoveOn` | `KeyInv` (one open transaction at most has a user's key, and only while there is no row: so a commit never replaces one), `TeamInv` (the team of a row keeps its user as a member, as an invitation deletes a member's row only to insert it again), `ProjectInv` (projects without a team follow the row), `RaceInv` (who found a row at its start inserts none, unless its SELECT failed). The refinement maps each commit and the INSERT of a project to a step of `ProjectsPromise` and every other statement to a stutter or an error |
| `ProjectSettingsProofs` | `TypeCorrect`, `RowIsOneUpload`, `DoneStays` | `ReadInv` (what a run has read its files had meanwhile), `RowInv` (the row is what one run has sent), `AloneInv` (while a run that met no other request is the last one sent, no other request for its row is under way) |

The invariants the runs check are not inductive alone: each of the strengthenings above says
what the code knows between two steps, for example that a bundle held by a paused request is
still of a stored manifest. Assumptions: `NoneAssumption`, `ClockAssumption`,
`SlotAssumption`, `SchemaAssumption`, `CrudAssumption`, `CacheAssumption`,
`ConfigAssumption`, `SessionAssumption`, `ProjectsAssumption`, `SettingsAssumption`,
`PipelineAssumption` and `EarlierAssumption`. Each says that the markers for "nothing" are not
values, that the parameters have their types, and no more, except for two of the pipeline's:
`filepath.Walk` comes to `x.yaml` before `x.yml`, and what was deployed earlier was valid,
as nothing else is sent. TLC evaluates them on every run.

Only model-checked: the six liveness properties (fairness and `ENABLED` are out of the
prover's reach) and the two violations. What of the liveness is safety is proved: the
theorems named `...MoveOn` (and `HubMovesOn`) give each actor a rank that every step of its own improves and no
step of anybody else worsens, so that no number of uploads, requests or retries makes one of
them go round in circles. What is left to the runs is that an actor which has not ended has a
step to take. `LogicPipeline` is written without sequences and
folds for its proofs: a run's list is the set of the files left, of which the next has the
smallest `Rank`, and the strongest setting is the first of three, so nothing needs an
induction over data. `EdgePromise` and `ProjectsPromise` have only a safety part, and all of
it is proved to be implemented.

## 5. Limits

* A Set or Get of one key, a SQL statement and a Cache API call are atomic.
* One project, one environment, one table, one cache key: the code keys all of its state by
  them, so instances do not meet; the key's text, where it could collide, is not modelled.
* `AutoCrud` has no other writers to its table, and no orderBy, limit or offset. What the database
  makes of a text that names no column is left open within the operation, the table and the
  values of the request.
* `LogicPipeline` takes a setting that is there but empty or null for one that is not there; in a
  later front matter yaml.v3 lets it clear an earlier one.
* `Session` takes the Hub's `STK_JWT_SECRET` and the Bridge's `encryptionKey` to be the same
  key, as the Bridge verifies the Hub's signatures with it.
* `LogicPipeline` has a manifest that is replaced at once, `ManifestRegistry` one whose content
  is the name of its push: between them lies `handlePushManifest`, an action of both.
* `Projects` has rows of an open transaction visible to nobody, as in PostgreSQL; with SQLite,
  which locks the database, fewer interleavings happen, and an error for a locked database is a
  statement that fails.
* No document says what was meant where the code does one of these, so no property states it: a
  removed bundle keeps its own key for ever; nested names are reachable by call and not by
  `invoke` (`context/index.ts:191`); `atob` refuses the - and _ of base64url, and with them the
  tokens of some users (`runtime/server.ts:389`); expired responses stay in the
  cache until their key is asked for again (`server.ts:214`); a project created with the id of
  no team is in nobody's list (`projects/service.go:366`, refused without a database at :87).

## 6. Not modelled

* The in-memory stores, the provisioner, the console, `ReEncryptForEdge` and the audit
  helpers have no caller in the program.
* `stk init`, the command tree, the console's pages, the headers of requests, hashes and
  presigned URLs are text and formatting: they keep no state and meet nobody.
* The Worker's database adapter (`adapters/cloudflare.ts:67`): two queries at once may connect
  the same client twice, and what that does is up to the PostgreSQL driver, which is not in
  the repository.
* `loginWithOAuth` leaves the page, and its handler answers that it is not implemented.
* A composition of `BridgeServer` with `ResponseCache`, so that the age of a response counts
  from the upload: both are checked against any bundle and any database, so the composition
  adds states and no interaction beyond the bundle that one hands to the other.
