# Verification of qlerify-live

TLA+ specifications of the core of this repository, TLC configurations that
check them on small instances, and TLAPS proofs of what matters most for every
instance. Paths below are relative to `src/` of the repository unless they
start with `src/`.

qlerify-live keeps a *digital twin* of a business process. A model (bounded
contexts, aggregates, commands, events) is applied to a workflow and becomes
projection tables (`gen_*`); rows get into them by commands, by connectors that
pull from source systems, and by the simulator; an append-only event log says
what happened; *deriving* fills the log with the events that pulled rows are
evidence of; dashboards read both. Everything runs in one Node process over one
database. Nothing is multi-threaded, but every `await` lets every other request
run, most multi-statement operations are not transactions, and in-memory queues,
guards and caches do not survive a restart. That is where the hard behaviour is.

## 1. Inventory

### Components, their state and their operations

| Component (source) | State | Operations | Correct when |
|---|---|---|---|
| Derivation (`twin/derive.ts`) | `deriveChains`, a promise chain per workflow; per pass: rows read, log read, `seen`, batch | `deriveFromData`, `previewDerive`, `rebuildFromData` | no event of a row is derived twice; after a successful pull or rebuild its events are in the log; one pass per workflow; passes never strand each other |
| Event bus and log (`events/bus.ts`) | event rows; `scopeOverride`, one module variable | `emit`, `emitMany`, `withScope`, deletes | an event is filed under the case of the run or aggregate that caused it |
| Command execution (`commands/base.ts`) | projection rows, log | `genericApply`: write the row, then emit | a row without its event is only transient |
| Connector pulls (`packs/ingest.ts`) | `inFlight` guard, rows, pull stamp, watermark | `ingestPull`, `reingestAll` | one pull per connector; rows that landed are derived |
| Purge and reset (`twin/purge.ts`, `twin/sim.ts`) | rows, log | `purgeEntityData`, `genericDeleteAll` | rows and their events go together |
| Simulator (`twin/sim.ts`) | runs (read back from the log), skip markers | new instance, step, run-all, delete | every step advances exactly one event; coupled events fire with theirs |
| Audit log (`platform/audit/index.ts`) | per-organization promise queue; hash chain | `recordAudit`, `verifyAuditChain` | the application never breaks or forks a chain; tampering is found |
| Read cache (`platform/read-cache.ts`) | Map of entries with expiry | `cachedRead`, `cachedOrgRead`, `invalidateReads` | bounded size, bounded staleness, no forgotten invalidation |
| Connector scheduler (`packs/scheduler.ts`) | `ticking` flag; schedules in sidecar files | tick, run one connector, set schedule | exclusive pulls, spacing, backoff, giving up, ticks end |
| Projection tables (`twin/projection-store.ts`) | `gen_*` tables, version column | DDL, find, insert, guarded update, clear | a stale write is refused; a changed table keeps or drops its rows as intended |
| Model application (`twin/apply.ts`) | active model, tables, log | apply, re-ingest, derive | an undisturbed apply ends with tables, log and bound model agreeing, whatever earlier failures left; the record of performed actions survives |
| Case correlation (`twin/correlate.ts`, `twin/period.ts`) | none of its own; it reads the log | decide a case id, live or in a batch | both paths decide alike; an instance does not change its case unless a decision missed it |
| Ontology store (`platform/ontology-store/`) | versions, content-addressed blobs, two heads | create version, ensure resource | the head that is bound is the version that was applied |
| Authentication (`platform/authn/`) | users, credentials, sessions, attempt counters | resolve a tenant, issue a credential, log in | a member can sign in; an expired session is refused; limits hold |
| Authorization (`platform/pdp/`) | grants | decide | no grant, no access; a request touches its own organization only |
| Provisioning (`platform/provisioning/`) | accounts, organizations, registry, workspaces, memberships, workflows | create, delete, invite, grant | a created organization stays whole; a deletion leaves nothing |
| Connector files (`packs/connector/`, `packs/generated/`, `http/connector-routes.ts`) | sidecar, module and rule files per connector; the registry in memory | create, build, save, discover, re-point, rules, import, reset, remove, boot | the registry follows the sidecars; no write but an authored body's loses a pull stamp, none a built connector; a checked rule is about the table the connector fills |
| Next actions (`twin/next-actions.ts`, `twin/next-actions-ai.ts`) | one stored ranking per workflow | plan, rank, read | a case that can go on has an action; a ranking shown as fresh is one of the present log |
| Chat, code generation, HTTP, dashboards, support, front ends | little or none | | |

### How they interact

* A pull writes rows, then calls `deriveFromData`, which queues a pass on the
  workflow's promise chain; the pull awaits *its own* pass and keeps its guard
  until then. Rebuilds clear the log first and then do the same.
* Commands, purges, resets and rebuild's clear write rows and log directly, beside
  the chain. The schema has no uniqueness on (event, aggregate), so the only
  thing between two writers and a duplicate is ordering.
* The simulator and commands share `emit`, and through it `scopeOverride`.
* Emits, deletes and applied models invalidate the read cache after they commit.
* The scheduler calls the same `ingestPull` as the HTTP routes and the chat, and
  shares the sidecar files with adapter authoring and the pull stamps.
* Applying a model clears and re-creates the tables, re-ingests every connector
  and derives, all outside one transaction; the hook of every request binds the
  model it finds as current.
* Boot, the routes, the assistant's tools and the scheduler read and edit sidecars, and
  most edits register the adapter again afterwards; several wait for a language model,
  npm or a source between reading a sidecar and writing it.
* A request resolves its organization once, before its handler; memberships and
  grants have no foreign key to the organization, which may go in the meantime.
* A derive pass and a command decide cases on different reads of the same log;
  next actions are planned from the cases it shows, and their ranking is stored
  with a watermark of the log it was read from.
* Every control-plane operation calls `recordAudit`, whose queue is the same
  promise-chain idiom as the derive chain, without pruning.

### What is hard

Interleavings at `await`s (two passes, a pass and a command, two simulator
requests); state read before an `await` and used after it (`seen`, the current
step, the audit chain's end, the sidecar, a cached value); several statements
without a transaction (chunks of `emitMany`, rows then event, log then rows);
failures and restarts between them; promise chains that must not strand or
overtake; a timer whose tick outlasts its period; backoff, slot and limit
arithmetic; two handlers that edit one file, or create and delete one
organization, at a time; back-dated batches, which change what the earliest event
of an instance is after others have followed it. `PROJECT.json` lists each at its line under "hazards", with the
properties that would catch it.

## 2. Modules

| Module | Models | Extends / instantiates |
|---|---|---|
| `SerialChain` | the promise chain of `deriveChains` | |
| `DeriveLog` | rows, log, passes, pulls, commands, rebuild, purge, reset, restart | EXTENDS `SerialChain` and conjoins its actions |
| `SimRun` | simulator requests, `withScope`, `emit`'s choice of case | |
| `AuditChain` | the audit append queue and the hash chain | INSTANCEs `SerialChain` as its queue |
| `ReadCache` | the read-through cache against hooked and unhooked writes | |
| `Scheduler` | ticks, due times, attempts, manual pulls, authoring, sidecars | |
| `RowStore` | one projection row: the optimistic lock, pull upserts, provisional merges, commands, deletes | |
| `ModelApply` | a workflow and its model: creation, apply, re-ingest, pulls, deletion, ontology versions | |
| `ConnectorFiles` | sidecars, rules and registry under the handlers that create, build, author, edit, pull, import and remove connectors, and under a model that moves events | |
| `Tenancy` | organizations, memberships, grants, credentials, workflows | |
| `Cases` | the case of every event, on the live and the derive path | |
| `NextActions` | the planner over the cases, and the stored ranking | EXTENDS `Cases` |
| `SerialChainProofs`, `DeriveLogProofs`, `ConnectorFilesProofs`, `TenancyProofs`, `SchedulerProofs` | theorems | EXTEND the module they are about |
| `LogProofs` | theorems about the two logs, audit entries and cases, and the planner | EXTENDS `AuditChain` and `NextActions` |
| `StoreProofs` | theorems about what writers find stored | EXTENDS `RowStore` and `ReadCache` |
| `WorkflowProofs` | theorems about the requests on one workflow | EXTENDS `SimRun` and `ModelApply` |
| `MC*` | TLC instances | EXTEND the module they are about |

Definitions whose name ends in `_Something` next to an operator of the same base
name (`Begin_Uncaught` beside `Begin`) are *mutants*: what the operator would be
with a plausible bug. They occur in no specification; each shows that a property
is able to fail.

### The step of a model

A step is what the process does between two awaits: it is atomic because
JavaScript is. A database call takes effect at one instant, at which the step
that awaits it happens; it may also throw, which is an action or a disjunct of
its own. A restart drops every in-memory variable and keeps tables and files.

### SerialChain

`tip` is the Map `deriveChains`, `prior`/`phase` the promise a call queued
behind and the state of its own, `pruned` the passes whose `finally` callback
ran. `Call` is the whole synchronous body of `deriveFromData`
(`twin/derive.ts:678-688`); `Begin`, `Settle` and `Prune` are the three
callbacks, in separate steps because they are separate microtasks.

### DeriveLog

The twin's core. Rows are abstracted to the pairs (event, row) they are evidence
of (`rows`): `planDerivation` is a function from a row's columns to such pairs. A
pull or an update changes a row to any evidence at all (`RowShapes`), also one without
its create event, whose required fields may be missing or whose trigger rule may say
no. A row that is evidence of nothing is not in `rows`, so it is also no template from
which a pass would open a cycle row. The log counts rows per pair, separately for derive
passes (`derived`) and commands (`commanded`). A pass reads tables one by one
(`ReadTable`), whole, or a window of their rows if it was asked for with a limit; the log once (`ReadLog`: seeding `seen`, planning and batching
happen in the same synchronous stretch), opens missing cycle rows one by one
(`OpenCycle`, `ensureCycleRow`), and inserts its batch in chunks (`EmitMany`).
`client[c]` is a request in flight; its actions are pulls (`PullStart`,
`PullRow`, `PullDerive`, `PullThrows`, `DeriveReturns`), commands
(`CommandWrite`, `CommandEmit`, `CommandThrows`), `POST /sim/derive` with or without a
limit (`DeriveBegins`), rebuilds (`RebuildClear`, `RebuildDerive`), purges and resets,
each statement a step.
`owed` is a ghost: what a pull or a rebuild without a limit is entitled to find in the
log when its pass succeeds, less whatever another request rewrote or erased. A derive
and a windowed rebuild promise nothing.

Abstracted: column values, business dates, provenance, actors; case ids
(`Cases`); previews, which change nothing.

### SimRun

`scopeOverride` is the module variable of `events/bus.ts`; `req[q]` is a request
with the place it is at (`read`: progress was read; `apply`: inside `withScope`;
`emitted`/`failed`: before its `finally`; `skip`: before the marker). Skip
markers are counted per run and event. `Order` and `Coupled` are the model's
steppable order and satellites, `First` the event that `rootCreateEvent` picks, which
need not be the first of the order. A step is also that of a run nothing fired in yet. Run-all is a sequence of steps of one request.

### AuditChain

The queue is `SerialChain` with organizations for workflows and its `Prune`
left out, because `serialize()` never deletes from its map. `read[n]` is what
`findFirst` returned to append n; `Create` inserts under the schema's unique
(organization, stream, seq). sha256 is taken to be injective: a hash is the
material it covers. `TamperEdit` and `TamperDelete` are external: somebody with
access to the database.

### ReadCache

`store` is the Map as a function of its keys. Its insertion order is the order in
which its entries expire, the TTL being fixed, so the oldest key, which `Put` evicts,
is one of those that expire first. `Miss` reads the data, `Fill` stores it, with
anything in between. A hooked write is two steps, the commit and `invalidateReads`;
for the deletion of an organization both are of all its workflows. Ghosts on an entry say when its data was read, whether an
invalidation of its slice overlapped its compute, and whether an unhooked write
(rows landing without an event) touched its data.

### Scheduler

`side[c]` is the schedule in the connector's sidecar, `due` what is left of the
tick's list, `stage` how far `runOne` is with `running`. `NextRunAt` is
`nextRunAt` with its grid slots and backoff. `AuthorReads`/`AuthorWrites` are
the two halves of `authorAdapterBody` around the LLM call. Ghosts: `prev[c]`,
the last scheduled attempt since the schedule was set, and `streak[c]`, the
failures in a row. Removing a connector is in `ConnectorFiles`.

### RowStore

One row of a `gen_` table and everybody who writes it. `DeriveLog` sees a row as
what it is evidence of; here it is a cell per column, and who may overwrite which
cell is the question. A writer reads (`PullFinds`; `CommandClassifies`, then
`CommandReads`, because `classify` and `doUpdate` each look the row up), and
writes in a later step: `PullInserts`, `PullMerges` (the row was opened by a
derive pass), `PullUpdates` (`upsertChanges` found a difference), `PullSkips`,
`CommandInserts`, `CommandUpdates`. Each write is one statement that the primary
key or the version may refuse (`Refused`). `Extras` are the columns the model does
not declare, folded into `_raw`, which a pull merges key by key. A column holds a value in
the form its SQLite affinity gives it (`Affine`, `Stored`): "1500.00" becomes 1500 in a
column of numbers, while the pull compares what it was given as text. `None` is a null
or empty value, `Absent` a column the source did not return, `Wall` a time taken
from the process's clock. Ghosts: `births` and a row's `born` tell the insertions
of one id apart; `by` is the record the last pull wrote, if nothing else wrote since.

Abstracted: field mapping and coercion (a record is what `flattenValues` gives, a
patch what `coerce` gives, seeded defaults included), `_provenance`, organization,
and cycle ids.

### ModelApply

One workflow from its creation to its deletion. A model is a value with a set of
entities; a table is the model it was shaped for and the ids of its rows, of which
0 is what a sync connector re-creates and the others are actions an actuator
performed, whose rows are their only record. `tables`, `events` (the log), the ontology's
`versions` with their two heads `current` and `main` are on disk, `live` is the
model bound in memory. A request is at one of the statements of `createWorkflow`,
`createVersion`, `applyModelTables` (list, carry, drop, make, restore), the re-ingest
of every sync connector, the derive (one read, then an insert per chunk of `emitMany`, of
which a failure leaves those already committed), or the four deletes of `deleteWorkflow`; any
statement may throw, and a restart ends every request. `verdict` is a ghost: the
request that has just ended if nothing overlapped it. `torn` says that a rebuild of
an evidence table was cut short or crossed.

### ConnectorFiles

`side[i]` is the sidecar of connector i, `ruleFile[i]` and `code[i]` its other files,
`reg[i]` what the in-memory registry holds, `root[e]` the table on which the model roots
event e. The handlers that wait (`codegen`, `roles`, `install`, `author`, `sample`,
`compile`, `pull`, `purge`, `import`) are split at the wait, and the second half reads the
sidecar again exactly where the code does: `AuthorLands` (`authorAdapterBody`, which the
assistant can call on a connector) does not, and turns the connector into an authored
adapter. A rule is the table it was checked against when it was saved, or `Imported`,
since `importEntry` scans the rules of a file and asks nothing of their events.
`ModelMoves` is what an applied model does to an event whose rules exist already.
`Restart` rebuilds the registry from the files as `loadPacks` does, with its preference
among several connectors of one table. `revived` is a ghost: connectors that were written
back after their removal or reset, retyped from an authored adapter, or imported after
another took their table.

Abstracted: a sidecar's other fields. Schedule, limits, credentials, instructions,
field map and summary are set by handlers that read and write in one piece and that
nothing modelled here reads; what the long handlers do to them is what they do to the
modelled ones.

### Tenancy

The rows of the control plane that say who belongs where: `accounts`, `orgs`,
`registry`, `workspaces`, `members`, `owners`, `flows`, `pw`. `Request` and `Resolve` are
`resolveTenantContext`, once per request; the later steps of the request use the
organization it resolved. `createOrganization` and the invitation are one action
per statement; the two cascades are one step because they are transactions, and the
workflows that `deleteOrganization` drops first are read before. Ghosts: `made`,
organizations whose creation has returned; `late`, memberships inserted after their
organization was gone; `alone`, a request nothing overlapped.

### Cases

The log as the sequence every reader sorts it into, each row with the case it got and
with the rows its decision had seen (`saw`, a ghost). `DecideCaseId` is `decideCaseId`:
an explicit id, itself for a root, the case of the instance's own earliest event
(`CaseAmong`), that of the first reference that has one (`FirstKnown`), the cycle row's
case or the cycle row itself (`ViaCycle`), or a new case. A command reads the log
restricted to its candidates and emits in a later step; a pass reads its tables, reads
the log once, decides the whole batch with the map it keeps itself, and inserts it
back-dated, among or before the events of the last milliseconds (`Merged`).
`Derivation` is the pass's loop as a function of the planned event it has reached,
`Derive` its end; `EnsureCycleRow` is the row the pass opens on the way, in a case of its
own. Which fields are references and which period a date falls in are data (`Refs`,
`CycleOf`, `Siblings`), and so is the order of the plan. A cycle entity without a create
event, whose rows a pass opens without logging anything, is left out. The second module adds the
model and a ranking to the same state.

### NextActions

`Kahn` is the loop of `topologicalOrder` (`ontology/model.ts`) turn by turn, with its
in-degrees and its queue; `InKeyOrder` is the order in which the `successors` lists were
filled. `Sweep` is the one pass over an order that finds the bypassed steps, `Anchors` the
walk along `coupledTo`. `Frontier` gives, of the steps that have not fired in a case and
are not bypassed because a successor has (`DescendantFired`), those with an anchoring
predecessor (`PredSatisfied`). `Reach` is no code: the transitive successors by
definition, against which the sweep is held. A ranking is generated in steps (take the
model, mark the log, read it, wait for the language model, store), and `blob` is what is
stored; the log changes and models are applied in between.

## 3. Runs

Type correctness is a theorem where a module has proofs, so no run repeats it.

| Run | Instance | What it shows |
|---|---|---|
| `derive_cycles` | 2 tables, a child naming a cycle, template and cycle rows, 2 clients, pulls, derives and restarts, 3 operations, chunks of 2 | nothing is derived twice, also across cycle rows opened by the pass |
| `derive_all` | 1 table, 2 events, 2 clients, all seven kinds of operation, 3 operations, chunks of 1 | call order, promised events logged, also beside derives of a window; every request ends, behind failed or lost passes too |
| `sim_alone` | 2 runs, 1 outside aggregate, 4 events of which one is coupled, 6 requests one at a time | own case, each event once, every step advances |
| `sim_scope` (violated) | the same, 2 requests at a time | overlapping `withScope` calls leave a scope pinned for good |
| `audit_chain` | 2 organizations, 4 appends, 1 tampering | chains verify, a read chain end stays the end until the insert, entries in call order, tampering stays visible |
| `read_cache` | 2 workflows and the organization slice, 2 readers, 2 entries, 2 writes | one entry per key and the limit; staleness below TTL + one compute; the only three reasons for a stale entry |
| `scheduler` | 2 connectors, intervals 0 (refused), 1 and 2, a grid start, 2 failures, backoff up to 2, 3 disturbances | exclusive pulls, spacing, giving up, ticks end |
| `row_store` | 1 declared column that stores a value in another form and 1 extra one, 2 connectors with 3 records, 1 caller, 6 operations | no stale overwrite; pulls never empty a cell or move a creation date; a repeated pull changes no cell |
| `model_apply` | 2 models, one without the actuated entity, 2 clients, 3 operations, 1 performed action | an undisturbed apply leaves tables, log and bound model agreeing, a failed derivation aside; a version made current is its request's own; an undisturbed deletion leaves nothing; performed actions are lost only to a torn rebuild |
| `connector_files` | 2 connector ids, 2 tables, 1 event, 2 waiting handlers, 4 operations, 1 pull stamp, date roles unset or proposed | the registry follows the sidecars; a checked rule is bound to the table; two connectors of one table only by a late write; a stamp is lost only to an authored body, and no step down the ladder |
| `tenancy` | a platform admin, an owner, a guest, 2 organizations, 2 workflows, 2 requests, 4 operations | members can sign in; organizations stay whole; the only way to a dangling membership; a lone deletion cascades; requests stay in their organization |
| `cases` | an order, its task, a note on the task, 2 quarters of one subject, 2 commands at a time, 3 operations, 2 models | a case is kept; cases are anchored; both paths agree; the bypass sweep is exact; no case is wedged; a fresh ranking is current |

### Bounds and why they are enough

* `DeriveLog`: two clients give every two-operation race; 3 operations give a
  third one that finds what the race left behind (a restart, or a pass after a
  failed one). Three passes are as many as 3 operations can call, so one runs, one
  queues behind it and one is called after a prune; `derive_cycles`
  calls 2 passes, the number a duplicate needs, over more rows. One table with two events has a
  create and a later event; the cycle instance adds the only cross-table behaviour
  there is, with two rows of one subject so that a template exists. Chunks of 1
  and 2 make a batch need more than one insert. `NoDuplicateDerived` and
  `CallOrder` are proved without bounds.
* `SimRun`: e4 is coupled to e2, so a satellite fires ahead of the linear order,
  fails alone, or is left to a later step; 6 requests are enough to start two
  runs, walk one past its satellite, delete it and start again.
* `AuditChain`: 4 appends over 2 organizations give three in one and an unrelated
  one; an edit or deletion can hit the first, an inner or the last entry before
  or after more appends.
* `ReadCache`: two entries for three slices force evictions; the clock runs past
  TTL + MaxCompute; two writes give a second write between a compute and the
  first one's invalidation.
* `Scheduler`: minimum interval 1, clock to 3: attempts at 1 and 3 with the backoff
  in between, which is also when the second failure disables the schedule; a grid
  of width 2 has a slot boundary at 1 and at 3 and a late attempt at 2. Three
  disturbances (edit, manual pull, authoring, restart) let both connectors be
  scheduled and one more thing happen.
* `RowStore`: the three records share or move the last-modified date, return, omit or
  empty each kind of column; the sidecar's last-modified column is absent, a
  timestamp or a declared column; the second record's status is stored in another form. Six operations let both connectors and the
  caller overlap, the row be opened as a cycle, deleted and inserted again.
  All its properties are proved without bounds.
* `ModelApply`: with two models an apply adds and drops an entity; one entity has a
  sync connector and one an actuator, the two ways a table gets its rows. Two
  clients give every race of two requests, and the third operation is the undisturbed
  apply or deletion that must cope with what the race, a failure or a restart left.
  One performed action is enough to be lost.
* `ConnectorFiles`: two ids and two tables make the smallest conflict over a table;
  two handlers may wait while others run in one piece; four operations are a
  creation, two that overlap, and one that meets the outcome. The initial states have no
  connector or a built one with chosen roles, with the event rooted on either table. An operator's choice of roles
  and the AI's proposal are the same value there, since no property tells them apart.
* `Tenancy`: the second organization is created while the first exists; two workflows
  let a deletion stop between them; three identities give one of each standing; two
  requests overlap and two more come before or after them. Its invariants are proved
  without bounds.
* `Cases`: the note reaches a root over two references and a cycle beside; two
  quarters give a cycle row whose sibling exists; a batch holds up to six events and
  is inserted at every place among the earlier ones. The chain has a satellite in
  its middle, the fork two branches that join and end in a marker. Three operations
  are a landing row, a pass or command, and what comes between them.

`CHECK_DEADLOCK FALSE` stands in every configuration: with the bounded
operations used up and nothing in flight the system rests, as the real one does
when no request comes.

### Fairness

* `SerialChain`, `DeriveLog`: weak fairness of every pass and of every *started*
  request. Promise reactions always run, and database calls return or throw; no
  fairness makes anybody start a request, and none chooses between return and
  throw.
* `Scheduler`: weak fairness of the tick's loop only. A pull cannot go on for ever:
  the sandbox kills a connector that exceeds its run budget
  (`packs/connector/runtime.ts`), an authored adapter's fetches are aborted.
  Time, edits and manual pulls have no fairness.
* The other modules claim no liveness: what could fail to end in them is a wait for a
  language model, a source or npm, whose outcome they leave open.

## 4. Proofs

Every theorem holds for all values of the constants that satisfy the named
assumptions of its module (`PassesAssumption`, `NoWorkflowAssumption`,
`ModelAssumption`, `AuditAssumption`, `RowAssumption`, `NoRowAssumption`,
`CacheAssumption`, `FilesAssumption`, `NoneAssumption`, `TenancyAssumption`,
`SchedulerAssumption`, `SimAssumption`, `ApplyAssumption`, `NoTableAssumption`,
`CasesAssumption`, `GraphsAssumption`), which say what kind of value a constant is and that
placeholder values are not real ones. Two say more. `CasesAssumption`: rows of one
subject have the same rows for siblings; references, cycle rows and the order of the plan
are arbitrary. `GraphsAssumption`: what `buildOntology` ensures of a model it accepts, that
keys are unique, an event without a root has a predecessor to inherit one from, and the
`follows` graph has no cycle (of any set of events, one follows none of the set); and that
every create event that opens a cycle row is in the model. The bounds are constants too, so the
theorems hold for any number of calls, operations or appends. Four groups of theorems
assume more, and say so in their statements:

* those about `SimRun` assume `OneRequest`, one requester, since `sim_scope` shows that
  two can leave the scope pinned; and the two about steps assume `CoupledInOrder`. Part
  of it is how the code couples: an event is coupled to one event, its closest
  predecessor with a root, and `coupledSatellites` lists each satellite once and behind
  its nearer anchors. The other part, that the linear order puts an anchor before its
  satellites, holds of the topological order of a model without cycles; an author's
  explicit `order` goes before that and may place a satellite first, which is then
  recorded twice. Nor is the event that begins a run (`First`) a satellite: a coupled
  event has a predecessor of its own root, so it creates nothing;
* `AuditTamperingVisible` assumes at most one tampering, because a second edit could
  undo the first;
* `AttemptsSpaced` assumes that the backoff is capped above 1 (the code's cap is 16):
  capped at 1 an attempt on a grid would wait for the next slot after a failure as well,
  and a slot may come before an interval has passed.

**SerialChainProofs.** `ChainMutualExclusion`, `ChainCallOrder`, `ChainMapPruned`.
None of the three is inductive: that a pass may begin only looks at the one promise
it queued behind. The inductive invariant `ChainInv` says that this promise stands
for all earlier passes of the workflow: nothing unsettled is hidden between it and
the pass (`Queued`), the map's tip covers every unsettled pass (`TipCovers`), and
a pass past waiting has only settled passes before it (`Ordered`), also across a
`Prune`. The lemma that
each action preserves it is reused by two other proof modules.

**DeriveLogProofs.** Every step is a step of `SerialChain` or leaves the chain alone
(`DeriveStepFollowsChain`), so chain facts carry over. `DeriveTypeCorrect`, and the main result,
`NeverDerivedTwice`: no interleaving of any number of pulls, commands, rebuilds,
purges, resets, failures and restarts makes a pass log an event of a row that a
pass has logged. `NoDuplicateDerived` alone is not inductive, because a pass
inserts from a read of the log made many steps earlier. `DeriveInv` adds that
a pass is in its body exactly while its promise runs (`RunningAt`), so by mutual
exclusion no other pass of the workflow inserts in between; and that from its
log read on, what a pass still has to emit is not in the derived part of the log,
while everything that is there is in `seen` (`SeenCovers`). Everything the
passes do not control only ever removes log rows, which keeps both.
`PromisesKept` is about the other direction, that nothing is missing. What a request
is owed is something the rows evidence until the request calls its pass
(`OwedInRows`), and from then on the pass it waits for covers it (`CallsCover`):
wherever that pass has got, each event owed is in a table it has still to read, in
what it has read, in its batch, or in the log (`Covers`). A call that joined a pass
already under way would start with nothing of the sort.

**LogProofs, the audit chain.** `AuditChainVerifies` and `AuditReadStaysCurrent` from
`AuditInv`: the chain's rows are numbered and linked, and the append whose turn
it is is the only one that can move the end it has read. The queue's mutual
exclusion is `SerialChain`'s, instantiated. `AuditCallOrder` needs no untouched chain
and has its own invariant, `OrderInv`: whatever rows are stored were written by appends
of their organization that are over, and by the queue's `Ordered` the append that
inserts was called after all of these; edits keep every row's place and deletions the
order of the rest. `AuditTamperingVisible` rests on both: in a chain that verified, an
edit or the loss of an inner row leaves a scar (`Scarred`), a row whose number is not
its place or whose hash is not its material's, which no append moves or mends
(`VisibleInv`). That both invariants are needed shows in the deletion: only in a
numbered chain is the row behind the gap out of place.

**LogProofs, the cases.** `CasesTyped`, `CasesAreKept`, `CasesStayAnchored`,
`BothPathsAgree`: for any references, cycle rows and plan, any number of commands and
any interleaving with passes, wipes and failures.

Neither `CaseKept` nor `CasesAnchored` is inductive, because a decision is inserted many
steps after it was made, by then beside rows it has not seen, and a back-dated batch
changes which event of an instance is the earliest. `CasesInv` therefore says of every
decision what is true for good, whether it is in the log, with a command or in a pass's
batch, relative to the rows it saw (`DecisionHolds`): if these show events of its instance,
it keeps the case of one of them (`Keeps`), and its case is founded (`Founded`), which
means inherited from an event it saw in that case, of the instance itself unless the
instance refers to others, or opened, as its own or its cycle row's, of which it saw
nothing. Rows are seen by their numbers, which are never used again, and a decision some
of whose rows were wiped need no longer be founded, so the fact survives insertions,
back-dating and wipes (`LogGrows`, `DecisionWiped`). `DerivationKeeps` carries it through
the pass's loop, whose map holds what the log read and the batch so far say
(`MapKnown`). `CasesAreKept` then takes the earliest-inserted event of an instance, and of those in another case the earliest: that
one kept the case of an event before it, which is in the first one's case (`EarliestRow`,
`OneCase`). For `CasesStayAnchored` the earliest event of a case opened it: it is of the
instance the case is named after, or of one that leads to that cycle row (`CaseOpens`).

`BothPathsAgree` runs the pass's loop beside commands that emit the same events one by
one. Loop and log stay in step (`Agrees`): the case the map names for an instance is that
of its first event in the log the commands have written so far. That what the pass has
found stored at one event is no less at the next (`Extends`), and that an instance is
opened at most once, is what lets the commands look at the final rows.

**LogProofs, the next actions.** `RankingsReadFresh`: a log is marked with its length and
the number of its last row. Every step leaves the log, wipes it or makes it longer, and
inserts only numbers never used before; so once the log has moved, it is longer than the
mark, or all its rows are newer than the mark's (`Outdated`), and that remains
true until it is empty (`MarkMoves`). `FreshInv` says of the ranking under way and of the
stored one that they show the log of their mark or the mark is outdated.

`SweepsAreExact` and `NoCaseIsWedged` are proved about the algorithms. `KahnInv` holds
after every turn of the loop: order and queue hold no event twice, an event's count is
the number of its predecessors not yet taken, and it is in one of the two exactly when
that count is zero. With a graph without cycles the loop does not stop early, so each
event is in the order once and behind its predecessors (`TopologicalFacts`). Backwards
along such an order one sweep finds all events with a fired transitive successor
(`SweepFinds`, against `Reach`). For `NoCaseIsWedged` take a last fired event, after which
nothing has fired, and suppose that the frontier is empty. Then of the events after it
each is no step, and either ends its branch or is a satellite whose walk along the anchors
reaches the fired event: this holds of its successors and passes on to theirs
(`NothingAfter`, `AnchorFacts`), so no step can follow.

**StoreProofs.** All three properties of `RowStore`, and all three of `ReadCache`. That nobody overwrites what he
has not read (`NothingOverwrittenUnread`) is about contents, but the database only
compares version numbers. `RowInv` ties them: of one insertion of the row, a version
has one content, and what a writer has read has no later version than what is stored
(`VersionTells`); every update moves the version on, so a content read before it
cannot match after it. `WitnessedStays` follows: the columns a pull sets were
compared with exactly the cells they replace. `RepullsSettle` needs in addition
that `upsertChanges`, applied to its own result, finds no difference but of values whose
column holds them in another form, which writing again leaves as they are, whether or not
the last-modified date had moved (`InsertSettles`, `UpsertSettles`).
For the cache, `CacheBounded` counts the keys a `Put` leaves. `CacheAnswersRecent` adds
to `StalenessBounded` that no compute is older than `MaxCompute` and no entry expires
later than a lifetime and a compute after its read (`Recent`). `CacheStaleExplained` is
not inductive because a compute that overlaps nothing yet will be stored:
`ComputesExplained` says of what every compute has read what the property says of the
entries. Whoever may be looking at data a write changes is in the slices that write
drops, which is where the choice of `Dropped` is used.

**ConnectorFilesProofs.** `RegistryStaysFresh`, `RulesStayBound` and type correctness,
for any number of waiting handlers. Neither is inductive, because a handler writes a
sidecar it read before its wait. `FilesInv` adds what every copy in flight keeps
(`WaitsBound`): it is a sound sidecar, one whose rules are imported or about its own
table, so that writing it back, as an authored body does, cannot break what holds of the
file even when it should not be written back at all. A rule that lands is checked against
the sidecar and the model of that moment, and re-pointing drops the rules. On top of it `TablesStayApart` (a write keeps tables apart if the
sidecar's table is free, was its own already, or the write counts as a revival:
`OneWritten`) and `ProgressStays`, an action property with one case per handler, which
leaves a pull's stamp to the mercy of authored bodies alone.

**TenancyProofs.** `MembersSignIn`, `OrgsWhole`, `DanglingLate`, `TenantsStayIsolated`
and `LoneDeletionsCascade`.
The invariant follows the requests statement by statement: whom a request acts for and
on can sign in (`Formed`); an id just handed out belongs to nobody else yet
(`NewIsNew`, `UsedOnce`); what a creation has inserted so far is there as long as the
organization is (`Rising`); and the account goes last (`AccountLast`). A deletion can
reach an organization whose creation is under way only through a membership, which
the creation inserts when everything but the grant is there, or as a platform admin.
For the last one `AloneSeen` says that while a request has been alone the others rest,
and that at its account statement only the account is left.

**SchedulerProofs.** `PullsExclude` and `GivesUp`. `Pulls` says that the connector at
hand has a stage exactly while its pull runs; `Sides` that a sidecar counts failures as
the streak does, and that it, and every copy of it that body generation will write
back, is switched off exactly at the limit (`Honest`). `AttemptsSpaced` follows a
connector through the tick: it was due when the list was made (`Spaced`), it is on the
list once, and what could happen before its turn, a manual pull, an authored body, another
connector's attempt, time, changes neither its last attempt nor its failures, while a new
schedule starts its spacing anew (`SpacedInv`). Whether a grid or the backoff decides
depends on the power of two being above 1 (`Powers`).

**WorkflowProofs.** The simulator's requests and those that change a workflow's model.

While simulator requests do not overlap, `AloneInOwnCase` and `AloneRestores`: the scope
follows the place of the one request, also when a command throws inside `withScope`.
`StepsOnceEach` and `StepsAdvance` need to know what a request still has to fire
(`Fires`): pairwise different events, none of them on record but the first once it is
emitted, and each one's anchor on record or ahead of it. They are what `genericStep`
reads when the current step is the first event without a record (`CurrentIsFirst`), and
`AnchorsFirst`, that no satellite is on record without its anchor, carries that from
one request to the next (`OnceInv`).

The requests of `ModelApply` overlap in any way. `ApplyTypesHold` says that each is at a
statement of its own operation. `RecordOutlasts` follows the records through a rebuild
(`KeptInv`): unless a rebuild was torn, a record is in its table or among the rows the
one running rebuild carries; when that rebuild starts to drop, all records of the tables
still to be dropped are carried. `LoneAppliesAgree` and `LoneDeletionsLeaveNothing` say
what an undisturbed request has brought about at each of its statements (`AppliedSoFar`,
`DeletedSoFar`) from any state the invariant allows, and that nothing changes it before
the request ends (`LoneInv`). The log of such an apply is what its rows are evidence of,
or a part of that when the derivation failed, possibly after some of its chunks.
`VersionsAreOwn`: until the workflow is deleted its ontology is created once, by whoever
created the resource (`OwnAt`), versions are only appended, and the number a request chose
is still the next one when its version is created.

The library's induction rules take an operator as a parameter and are of no use here.
Where an induction over numbers is needed, the proof takes the least counterexample
(`WFMin` over the naturals, in `LeastNat`), a set that holds 0 and with each number the
next (`SetInduction`), or counts (2^n as the number of subsets of 1..n, in `Powers`). A
recursive function `f[k \in 0..n]` has the values its equation says only if the equation
has a solution; that it has one is proved for each of the five that the proofs unfold
(`DerivationSteps`, `EmittedSteps`, `InKeyOrderSteps`, `KahnSteps`, `SweepSteps`), by
`SetInduction` over the lengths for which one exists.

Only model-checked: the two liveness properties, `RequestsEnd` and `TickEnds`, since
fairness and ENABLED are outside what these proofs cover. Every invariant and every other action property of a
passing run is a theorem.

## 5. What the checks found

One run is violated, by what a comment in the code says.

* `ScopeRestored` (`sim_scope`): `withScope` keeps its scope in one module variable across
  awaits; two overlapping requests leave it pinned.

More disagreements between code and comments, or consequences of races, that no run
is spent on; the properties of the passing runs are worded so that they hold
beside them.

Rows, log and simulator:

* Commands emit outside the derive chain, so an event may be in the log twice, once
  by the command and once by a pass that had read the log before (the comment at
  `twin/derive.ts:30` says a derive only fills gaps). `NoDuplicateDerived` is about
  passes.
* A pass that had read the rows logs their events after a purge removed both
  (`twin/purge.ts:4`: rows and events go together).
* `ensureCycleRow` inserts rows, although the header of `twin/derive.ts` says a
  derive never writes to the `gen_` tables (the model has the insert: `OpenCycle`).
* Two overlapping step requests of one run fire the same event twice, since
  `genericStep` has no guard per run; `StepsOnce` is a property of requests that do
  not overlap (`sim_alone`).
* A compute of the read cache that overlaps an invalidation stores what it read
  before the write, which is then served for up to the TTL, although
  `platform/read-cache.ts` says the TTL only backstops writes without a hook.
  `StaleOnlyByOverlap` shows that this is one of the only ways.
* The version of a row starts at 0 whenever it is inserted. A row deleted and inserted
  again under the same id is overwritten by an update that read the old one at
  version 0; `NoLostUpdate` and `PullsKeepWitnessed` compare within one insertion.
* `upsertChanges` means to compare "in the STORED shape" (`packs/ingest.ts:147`), but only
  brings booleans into it. A text like "1500.00" for a column of numbers is stored as 1500
  (`twin/projection-store.ts:79`), differs from it on every later pull, and the row is
  written again with a new version. `RepullSettles` shows that this changes no cell.
* A pull that enriches a row a derive pass opened lets `store.update` stamp
  `updatedAt` with the time of the pull (`PullMerges`), although `packs/ingest.ts`
  says ingested rows carry only timestamps the source recorded.

Connectors:

* The pull stamp is written "the same pattern every other config mutator uses, so neither
  side clobbers the other" (`packs/ingest.ts:159`), but `authorAdapterBody` writes back a
  sidecar it read before the language model answered (`packs/author.ts:37`), without a stamp
  made meanwhile. `ProgressKept` shows that only a reset, a removal or an import loses one too.
* `authorAdapterBody` overwrites with the same copy whatever else was edited meanwhile,
  and brings back the sidecar of an adapter that was removed; on a connector it leaves an
  authored adapter for the connector's table.
* An imported rule may be for an event of another table or of none; it is stored and,
  like a rule whose event the model moved, skipped by every derive ("orphaned",
  `packs/connector/rules.ts:209`). `RulesBound` is about rules that were checked.
* The one-connector-per-table invariant of `connectorForTarget`
  (`packs/connector/orchestrate.ts:59`) breaks when an import waits for npm while
  another connector takes the table, or when a build, a save or a discovery ends
  after the connector was removed or reset and writes it back (`?? cfg`).
  `OneUnlessRevived` names exactly these.
* `buildConnector` takes the date roles of the sidecar it read at its start, although
  `packs/connector/orchestrate.ts:316` wants an operator's choice made meanwhile to win.
* A discovery that overlaps a re-pointing stores the old table's sample on the new one
  (`http/connector-routes.ts:328`).
* An import overwrites a connector created under the same id while npm ran.
* The assistant's re-typing of a reset adapter registers a connector adapter for a
  simulated sidecar until the next boot (`AsConnector` in `RegistryFresh`).

Organizations and workflows:

* An invitation that overlaps the deletion of the organization leaves a membership of
  nothing. If it is its holder's only one, `resolveTenantContext` rejects every
  request without a selector ("organization not found"), although
  `platform/authn/index.ts:158` lets a user without an organization create a first one.
* A crash in `createOrganization` leaves an organization without an owner. Two
  creations of one name collide on the slug and leave an account behind.
* Of two concurrent invitations of a new identity the first temporary password is dead.
* A workflow created after `deleteOrganization` listed the workflows keeps its tables
  (`platform/provisioning/index.ts:581`).

Models:

* After a crash between the two creates of `ensureOntologyResource` the resource exists
  without its ontology, and the id cannot be used again.
* `createTableSql` refuses an entity name that starts with "_" only after the old tables
  were dropped (`twin/apply.ts:76`).
* A crash or an overlap in the rebuild loses the rows of performed actions
  (`EvidenceKept` says that this is the only way).
* A derivation that fails after an apply is caught (`packs/ingest.ts:480`); the apply
  reports success over a log that lacks some or all events, until the next derive.
* Of two concurrent `createVersion` calls the heads `current` and `main` may end on
  different versions, and a request whose hook read `current` earlier may bind the older
  model again.
* A creation whose rollback fails leaves a workflow without a model
  (`platform/http/control-routes.ts:809`).

Cases and next actions:

* Decisions that miss each other may split an instance over two cases; a back-dated batch
  may change which event of an instance is the earliest; a child handled before its
  parent keeps its own case. `CaseKept` is about decisions that knew of each other,
  `CasesAnchored` about logs whose every decision was made on the log it went into.
* A cycle row that itself references an instance of another case, and that a child leads
  to before it has an event of its own, names a case it is not in: the child is filed
  under the row's id, the row's first event under its parent
  (`twin/correlate.ts:184`; "its id is the id of the instance that started the run", the
  head of that file). `CasesAnchored` leaves such rows out (`StartsItsCase`).
* On the derive path the create event of a cycle row that the pass opens gets the row's
  own case whatever the row references (`twin/derive.ts:841`); when a command creates
  the row the references are followed. `PathsAgree` grants both paths the case of an
  opened row (`EmittedCase`).
* The watermark of an empty log is the same every time it is empty, so a ranking of
  events that came and went in between reads as fresh
  (`twin/next-actions-ai.ts:213`); none of its items is shown.
* An event with its own root but no command, or a satellite with several predecessors,
  in the middle of a flow wedges what follows (`twin/next-actions.ts:100`);
  `NeverWedged` is about models without (`PlainlyAnchored`).

## 6. Not modelled, and what is left

Most of the repository is not state that several actors share, and is left out for
good:

* The front ends (`web/`, `frontend/`), the assistant's loop and prompts, and the
  adapters' and connectors' own code: views, text, and calls of systems outside the
  repository. What the assistant's tools change is modelled where it is changed.
* Text and code generation, parsing, validation and import of models, and the
  demonstration data: functions of their input.
* Dashboards and health: reads that aggregate rows and log.
* HTTP plumbing, column DDL, encryption and upgrades of the database.
* Session tokens and the login limiter: per-call checks of one row or map entry;
  markings, sharing grants and groups of the PDP, which nothing in `src/` writes;
  organization settings and the boot-time seeding.

Therefore the mapped lines are a small share of the repository: they
are the server's shared state, its queues and guards, and the statements around them.

Left to do within the modelled parts:

1. `Scheduler`: a tick over a connector that was removed after the due list was made.
   `Cases`: purges, which take away the events that anchor others. The provenance modes
   (`twin/provenance.ts`): a map in memory over one row of `_app_meta` per workflow, which
   two pulls of different connectors read, change and write with awaits in between; these
   keys also stay behind when a workflow is deleted, as `deleteWorkflow` says, and are not
   in what `LoneDeleteLeavesNothing` calls nothing. `AuditChain`: the deletion of an
   organization removes its audit rows beside the queue
   (`platform/provisioning/index.ts:616`), after which nobody can ask for its chain.
2. A composition of `ModelApply` with `DeriveLog`'s passes and clients, whose derive
   is one read and the inserts of one batch in `ModelApply`.
