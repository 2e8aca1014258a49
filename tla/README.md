# A TLA+ verification of the RollbackReady backend

RollbackReady takes a bundle (schema, candidate migration, fixtures, legacy
queries), applies the candidate in a disposable PostgreSQL database, interrupts
and retries it, tries to reverse it, and returns a verdict. It can then ask a
language model for recovery plans and verify them in the same way. The backend
runs on two runtimes (Cloud Run and GKE) that share one Cloud SQL database and
one bucket (`src/README.md:66-70`).

This directory holds TLA+ modules that model the backend, TLC configurations
that check small instances of them, and theorems whose proofs TLAPS checks.

Running it, inside this directory:

    tlc -workers 2 -config LifecycleInterleavings.cfg MCAnalysisLifecycle
    tlapm AnalysisLifecycleProofs.tla

`PROJECT.json` lists every run with its module, every theorem, the source lines
behind every definition, and the hazards each property is aimed at.

## 1. Inventory

### Components, their state and operations

| Component | Source | State it keeps | Operations |
|---|---|---|---|
| Analysis lifecycle | `service.py` `AnalysisService` | per process: `_analyses`, a cache of records | create, run, create_plan, create_insight, verify_plan, get, delete, purge_expired |
| Evidence repository | `persistence.py` | row `rollbackready_analyses` and its child rows, claim columns, artifact columns | create, save, get, delete, claim_operation, mark_artifact_deleted, delete_expired |
| Artifact store | `artifacts.py` | one object per analysis (GCS, or files) | put, get, delete |
| Expiry task | `main.py:34-41` | an asyncio task per process | purge_expired every 60 s |
| Candidate simulation | `simulation.py:40-259, 498-1053` | one sandbox, one evidence bundle under construction | replay, seed, apply, legacy queries, rollback, failure injection, verdict |
| Plan verification | `simulation.py:261-496` | as above, for one plan | failure state, actions, assertions, verdict |
| Sandbox | `sandbox.py` | a PostgreSQL server and its data directory; a semaphore of slots; a total deadline | start, execute, execute_prefix, restore, snapshot, close |
| Idempotency keys | `persistence.py:570-649`, `routers/analyses.py` | row of `rollbackready_idempotency` per owner, operation and key | begin, finish, abort |
| Rate limits | `persistence.py:651-683`, `service.py:822-868` | fixed windows in SQL; a sliding window in memory | consume |
| Capacity | `service.py:159-184` | counts over the cached records and over the owner's rows | checked in create |
| Timeline stream | `service.py:312-334`, `routers/analyses.py:155-185` | an event list per record | server-sent events until a terminal status |
| Recovery planner | `planning.py` | none | provider's answer or template, policy check |
| Advisor | `advisory.py` | none | provider call |
| SQL policy, risk, intake | `sql.py`, `risk.py`, `intake.py` | none | text processing |
| Authentication | `core/clerk_auth.py` | none (Clerk SDK) | owner id of a token |
| Database engine, config | `core/database.py`, `core/config.py` | engine singleton, settings | connect, read |
| HTTP application | `main.py`, `routers/*` | none | middleware, health, root |
| Migrations, deployment | `alembic`, `k8s`, `infrastructure`, workflows | none at run time | data definition, manifests |

### How they interact

A handler of `routers/analyses.py` claims the idempotency key, consumes quota,
and calls the service in a worker thread (`create` stays in the event loop).
The service hydrates a *private* record from the row, decides on that record,
reads the archive, claims the row by a conditional UPDATE, works in a sandbox
or with the planner, and saves the whole aggregate if its token is still in the
row. Nothing holds a lock over more than one call, and a process that stops
loses its cache, its claims' owners and its sandbox, but no row. The expiry task
touches rows and archives of analyses on which requests may be at work.

### What is hard, and what has to be true

- *Interleaving and stale records* (lifecycle): the status, the plan count and
  the plans of a private record are older than the claim. The row must still
  hold a report that the handlers could write one after another; the plan limit
  must hold; a deleted analysis must stay deleted.
- *Torn records* (lifecycle, capacity, stream): a record is read by one SELECT for the
  row and one more for each table below it, and other requests commit between them. What a
  record that mixes two moments can do when it is saved, or shown, must be bounded.
- *Take-over* (claims): a claim is taken over after ten minutes while its holder
  may be alive; the late save must be refused, and a lost claim must not lock
  the analysis for good.
- *Partial failure* (row and archive): two stores are changed one after the
  other. An archive without a row must go; an analysis not yet run must not lose
  its archive.
- *Executions cut short* (simulation): a statement timeout ends a script at any
  statement with everything before it committed. A favourable verdict must be
  earned, an unfavourable one must have a reason.
- *Retries* (idempotency): a request may be lost before or after its effect. The
  operation must not silently take effect twice, and an answer must not leave
  the key locked.
- *Plans* (verification): a plan is executed again after an interruption behind
  each of its items; the template's own plan must survive its own experiments.
- *Slots* (sandbox): whatever raises while a server starts, works or stops, its
  slot must come back exactly once, and what stays behind must have a reason.
- *Windows* (rate limits): requests read the clock before they are counted. What
  passes around a window's end must be bounded, and Retry-After long enough.
- *Stale counts* (capacity): a process counts cached records that others have
  finished. The limit must hold in the rows, and no refusal may be for good.
- *A second writer of the timeline* (stream): events must be sent once and in
  order, completion not before an operation's last event, and the stream must end.

`PROJECT.json` lists each of these at the line where it bites.

## 2. Modules

| Module | What it is |
|---|---|
| `ReportLease` | abstract: what the claim columns promise |
| `AnalysisLifecycle` | one analysis: its row, archive, requests, caches, sweeps |
| `Capacity` | the analyses of one account: the limit on unfinished ones, in several processes |
| `TimelineStream` | one analysis's timeline: the operations that write it, the streams that send it |
| `IdempotencyKeys` | one idempotency key and the requests that bear it |
| `RateLimits` | one quota of one account, in the database or in memory |
| `SandboxDatabase` | operators: what psql leaves of a script, whole or cut short |
| `Evidence` | extends it: dimensions, and executions that a time limit may cut |
| `CandidateSimulation` | one run of the simulation engine and its verdict; extends `Evidence` |
| `RecoveryPlanner` | operators: the plans a migration may be given; extends `SandboxDatabase` |
| `PlanVerification` | one verification of a plan; composes `Evidence` and `RecoveryPlanner` |
| `SandboxSlots` | the simulations of one process, their slots, servers and directories |
| `MCAnalysisLifecycle`, `MCCapacity`, `MCIdempotencyKeys` | instances for TLC |
| `MCCandidateSimulation`, `MCPlanVerification` | small PostgreSQLs for TLC: databases, statements and what these do |
| `AnalysisLifecycleProofs`, `CandidateSimulationProofs`, `PlanVerificationProofs`, `SandboxSlotsProofs`, `IdempotencyKeysProofs`, `RateLimitsProofs`, `CapacityProofs`, `TimelineStreamProofs` | theorems about the module they are named after |

Definitions that some module gives in a second form under "Mutant:" are
deliberate mistakes. They are not part of any specification; substituting one
for the definition that follows shows that a property would notice.

### AnalysisLifecycle

One analysis in the deployed mode: SQL repository, one archive.

| Variable | In the code |
|---|---|
| `row`, `report` | the `AnalysisRecord` row and its child rows |
| `token`, `lapsed` | `active_operation_token`; `operation_started_at` older than the cutoff |
| `available`, `object` | artifact columns of the row; the object in the store |
| `expired`, `rawExpired` | `expires_at` of the report and of the archive have passed |
| `cached[p]` | the entry in `_analyses`: none, without or with an artifact reference |
| `request[t]` | the locals of a handler: operation, next call, private record, bundle, plan |
| `sweeper[p]` | where `purge_expired` stands; "dead" once its exception ended the task |
| `mixed` | history: a torn record has been saved |
| `input` | whether the bundle is complete, and whether the risk rules find anything in it |

A step is one call to the database or the store together with the computation
that leads to the next call. What a request is for is chosen after loading,
since all operations load in the same way; `Return` stands for the reads and
for requests that their record does not allow. A report is its status, verdict,
whether it has findings, its plans' states and its insight kinds; findings,
evidence and SQL texts are abstracted away.

Hydration (`SqlAlchemyEvidenceRepository.get`) is the steps `Begin` (the row),
`ReadFindings`, `ReadPlans` and `ReadVerifications`, one for each SELECT whose result
matters here: `selectinload` reads every table below the row by a statement of its own,
and the engine sets no isolation level (`core/database.py`), so each sees what has been
committed by then. A record is `torn` when a later SELECT has changed what the first one
would have given. A plan is its state and verification, without its identity: the
verification found for a plan that has been replaced by one of the same state and
verification counts as that plan's.

Simplifications that add behaviours: `create` interleaves with the sweep of its
own process although both run in one event loop. Simplifications that remove
some: the sweep that a creation of *another* analysis performs is not an action
of its own (the periodic one does the same at any moment); a commit that the
database carried out but reported as failed is not modelled; the order of plans
after hydration is the order of creation; the limit of unfinished analyses is
`Capacity`'s, and here a refusal of the insert at any time. A record whose archive has been erased
may still carry the reference in the cache: erasing again changes nothing.

### CandidateSimulation

A step is one experiment of `SimulationEngine.run`: replay of the prior
migrations, seeding, application, legacy queries, rollback, one interruption and
retry per statement boundary (or one retry when the candidate failed), verdict.
The databases, the statements and what they do, the inverse that
`_generate_inverse` builds, and what schema and content hashes distinguish are
constants. `Timeout` names the executions that a limit may cut short;
`SandboxDatabase!Results` gives what is then left, which is any prefix. (The SQL
policy refuses BEGIN and COMMIT, so no script is one transaction.) Every call may
instead raise (`SandboxError`), and no sandbox may be available
(`SandboxUnavailable`).
`cut` is a history variable, as is `exact` in an interruption.

The restores before each experiment are deterministic. A severity "high and
confirmed" is not separate: a finding is confirmed only by the candidate's
error, and a dimension has failed then anyway. `data_loss_possible` and the
evidence per statement do not reach the verdict.

Two facts about the engine that the model has too: the inverse of ADD CONSTRAINT
is that of ADD COLUMN, as the branch for constraints (`simulation.py:822-831`) is
never reached; and the result of the interrupted prefix is not looked at
(`simulation.py:676`), which is why `VerdictSound` says nothing about retries when
a prefix was cut short.

### PlanVerification and RecoveryPlanner

`RecoveryPlanner!PlansFor` is the planner as a function: the provider's answer or,
without one, the template for the first required column, under the policy. What a
provider may answer (`Answer`), which statements the policy admits and in which the
template finds a legible column are constants. What the template's own four statements
do is one too, subject to `TemplateAssumption`: `Reached` are the databases they lead to
from the two the engine starts from, and on these each statement is harmless when it is
repeated or comes after another one (it is ADD COLUMN IF NOT EXISTS, UPDATE of the NULLs,
SET DEFAULT and SET NOT NULL), and acts on the schema whatever the rows are.

| Variable | In the code |
|---|---|
| `bundle`, `plan` | the migration with what its history and fixtures do; the plan |
| `pc` | the experiment that `verify_plan` is at |
| `target`, `result` | the database after the candidate on an empty baseline; after the plan on a seeded one |
| `dimensions`, `runs` | the dimensions' statuses; the interruptions |
| `verdict` | the service's decision |
| `cut` | history: the executions that were cut short |

`Examine` stands for all that is compared once the plan has been applied: schema,
contents, assertions and legacy queries (`simulation.py:302-406`). An interruption
falls between items of the plan, as in the code: an item of several statements is
not interrupted within.

### SandboxSlots

| Variable | In the code |
|---|---|
| `backend` | what `_resolve_backend` finds |
| `free` | the semaphore `_simulation_slots` |
| `pc[s]` | where a simulation is between `acquire_sandbox` and its end |
| `overdue` | the total deadline of `_remaining_timeout` has passed |
| `known` | `self._container` or `self._temporary_directory` is set |
| `server`, `directory` | what exists outside the process |
| `unclean` | history: a command that starts or stops the server was cut short or did nothing |
| `unremoved` | history: `rmtree(ignore_errors=True)` did not remove the directory |

A step is one command or the decision after it. Each command may succeed, fail, be
cut short, or, when it stops the server, do nothing; a server whose `docker run`
was cut short may come up late (`LateServer`). Any removal of the directory may fail,
which the code does not notice (`sandbox.py:647`). A process that crashes loses its
semaphore with its simulations and is not modelled.

### IdempotencyKeys

One key of one owner, for each of the four operations that take one. A step is
one transaction on the key's row or one part of the operation that can end it:
quota, the operation itself with its commit, and what follows the commit. `Lose`
covers a process that stops, a cancelled handler (`CancelledError` passes
`except Exception`) and a failed finishing or aborting transaction. `excuses`
counts what makes one more effect legitimate: an answer of error after the
commit, or an expiry of the key.

### RateLimits

`count` is the row of each aligned window, `entries` the deque of the mode without
persistence, `stamp[t]` the time a request has read and not yet counted; `advice.late`
says that the statement behind the latest advice ran after its window. Time passes
in ticks, several to the second, because windows and `Retry-After` are whole seconds
and the clock is not. All processes share one clock. `admitted` and `advice` are
history. A quota is modelled for a limit of at least one, as all settings have it by
default: with a limit of zero the row admits one request per window and the deque
raises.

### Capacity

| Variable | In the code |
|---|---|
| `row[a]` | status of the row; "none" before, "gone" after |
| `lock` | the advisory lock of the account, held to the end of the inserting transaction |
| `cache[p][a]` | status of the record in `_analyses` of the process |
| `creation[p]` | the creation in the process's event loop |
| `work[t]` | the handler of a worker thread, its record, and whether that is the cached one |
| `expired` | `expires_at` has passed |

`DONE` stands for every status that does not count as unfinished, `BUSY` for the
three that only records have, never rows, and `RETURNED` for STAGED with findings: a
handler reads the status with the row and the findings later (`Load`, `ReadFindings`), and
an insight that a run has overtaken in between saves just that. What the lifecycle says about claims is
taken for granted: one claim at a time, and a save that lost its claim is refused.
A hydration replaces the cached record even while a handler works on it, and what
that handler does is not seen in the cache any more; the model has this.

### TimelineStream

`stored` is the row, or the one record that all handlers share without persistence.
`op[t]` holds the rest of an operation as a sequence of assignments and events, and
its private copy; `client[c]` the generator's cursor, view and what it has sent;
`overlapped`, `died` and `asked` are history. With persistence the effects of an
operation reach `stored` at once in `Commit`; without it each is a step of its own
that a stream can see. With persistence a handler reads the row (`Ask`), the findings,
the timeline and the plans in a step each and then decides (`AdmitRun` and the others);
the generator reads the status (`Hydrate`) before the timeline (`HydrateTimeline`).
Claims exclude one another with persistence only
(`NullEvidenceRepository` grants all). Lapsing claims and crashes are left to the
lifecycle; that the save of this model need not look at the claim then, because
operations claim before their work and save after it, is `ResultsKeepLease`: with a
database each step is one of `ReportLease`, or leaves it alone.

## 3. Runs

| Run | States | Shows |
|---|---|---|
| `lifecycle_interleavings` | 2.0 M | two requests of any kind, each in its process, with sweeps and claims that lapse: `StoredReportCoherent`, `PlanLimitHeld`, `StagedKeepsBundle`, `DeletedStaysDeleted`, `LeaseKept` |
| `lifecycle_faults` | 0.42 M | one request and two processes, one of which serves nothing, with crashes, database and store errors and every clock: `ClaimNeverStuck`, `ExpiredReportRemoved` |
| `lifecycle_progress` | 0.57 M | two requests with neither faults nor report expiry: `ArchiveNotOrphaned`, `VerifiedArchiveErased` |
| `capacity` | 0.86 M | two processes with a worker thread each, two analyses, a limit of one: `StagedWithinLimit`, `LockoutEnds` |
| `event_stream` | 1.1 M | a stream and two operations of any kind, with and without a database: `StreamFaithful`, `CompleteAfterLastEvent`, `Settled`, `ResultsKeepLease`, `StreamEnds` |
| `idempotent_retries` | 0.45 M | a request and three retries, any of them lost at any step: `OneExecution`, `NoSilentRepeat`, `ReplayIsCurrent`, `KeyNotLeaked` |
| `rate_limits` | 2.1 M | requests of two threads over two and a half windows: `DatabaseQuota`, `MemoryQuota`, `RetryAfterEnough` |
| `simulation_timeouts` | 1.0 M | 80 migrations, three risks, any execution cut short: `VerdictSound`, `VerdictComplete`, `ReversalHonest` |
| `plan_verification` | 0.18 M | every plan of at most two items, the template's statements in every order, nine migrations, any execution cut short: `PlanSound`, `PlanComplete`, `TemplateVerifies` |
| `sandbox_slots` | 0.12 M | three simulations and one slot in every backend: `SlotsConserved`, `NothingLeft`, `ServersWithinSlots`, `SlotComesBack` |

The first of each module's runs also checks its `TypeOK` (that of `Capacity` is part
of the invariant of its theorem).

Two disagreements between the code and its documentation have a run whose
property the code violates:

| Run | Property | What happens |
|---|---|---|
| `verdict_overwritten` | `CandidateVerdictKept` | a second run, hydrated before the first one commits, replaces a committed verdict by ERROR (`architecture.md:131`) |
| `retry_schema_only` | `RetryReachesTarget` | a retry that leaves other rows than the target counts as recovered (`docs/rollbackready-prd.md:728`) |

`retry_schema_only` concerns the dimensions `failure_recovery` and
`idempotent_retry`: an inserting migration gets no favourable verdict, because
INSERT has no inverse.

### Known deviations without a run

Met while modelling; the models behave as the code does, and the properties are
stated so that they hold of it.

- A read of an expired analysis, or the sweep of a process that has not cached it,
  deletes the row and not the archive (`service.py:755`, `service.py:667`;
  `README.md:66-68` says that archives are deleted after expiry). Adding `"report"`
  to `Clock` in `LifecycleProgress.cfg` violates `ArchiveNotOrphaned`. The bucket's
  own rule (`infrastructure/rollbackready-artifact-lifecycle.json`) removes the
  object after a day.
- An error of the store in a sweep ends the process's expiry task
  (`service.py:655`, `main.py:36-39`; `architecture.md:265` says that it runs once
  per minute). `ExpiredReportRemoved` excepts the case that all tasks have died.
- Hydration leaves out the insights (`service.py:700-719`), so that the next save
  deletes the stored ones.
- The stored response of a key outlives a deleted analysis: a retry is answered with
  a summary of what is gone, although DELETE is to remove it immediately
  (`docs/rollbackready-prd.md:522`).
- With a database the timeline is not append-only as `docs/rollbackready-prd.md:632`
  says: a save replaces the whole row, `create_insight` without a claim, so events
  committed since its hydration disappear. `StreamFaithful` excepts a stream after
  such an overlap.
- A record may be torn by its hydration (`persistence.py:428-442`). A run, plan or
  verification that saves one holds the claim, but `create_insight` saves without it: it may read the
  row while the analysis is STAGED, then the findings a run has just committed, pass its
  check (`service.py:402`) and save STAGED with findings over the verdict
  (`service.py:476`). The archive may be gone by then, so that the analysis cannot be run
  again, and it counts as unfinished again without having been counted.
  `StoredReportCoherent` asks for a coherent report only while no torn record has been
  saved, and for a plausible one always; `StagedKeepsBundle` and `StagedWithinLimit` are
  about analyses without findings.
- The stream reads the status before the timeline, so it may complete with an old terminal
  status and a timeline that has gone on since, and with no events at all if the analysis
  is deleted between the two statements. `CompleteAfterLastEvent` says what remains true.
- "Every run cleans its data directory after success, error, and timeout"
  (`docs/rollbackready-prd.md:730`): not when the command that stops the server is cut
  short, since its exception skips the removal (`sandbox.py:620-645`), and not when the
  removal fails, since its errors are ignored (`sandbox.py:647`), as when a child of a
  killed `initdb` still writes. `NothingLeft` names both exceptions.
- `Retry-After` is worked out from the time a request has read before its statement
  (`persistence.py:658-683`). If the statement runs after that window, the client may come
  back to a next window that is full already; `RetryAfterEnough` excepts this case.
- After a plan the status is PLANNING, which is not terminal: a stream stays open
  until a plan is verified or rejected, or the analysis is removed.
- The rate limit is described as a sliding window per owner and client
  (`architecture.md:248`). In the database it is a fixed window per owner, and up to
  twice the limit passes within a window's length (`DatabaseQuota`). In memory the
  clock is read before the lock (`service.py:835-837`), so that a few more than the
  limit may pass (`MemoryQuota`).
- One sandbox per backend process (`architecture.md:212-213`) holds but for servers
  that a killed command left behind or that came up late (`ServersWithinSlots`).
- Explicit BEGIN/COMMIT groups (`docs/rollbackready-prd.md:400`) cannot occur: the SQL
  policy refuses transaction statements.
- A process counts unfinished analyses in its cache first, and nobody tells it what
  other processes finish or delete. It may refuse creations although the database,
  "authoritative for analysis state" (`README.md:66`), has room; a hydration or the
  expiry of the records ends this (`LockoutEnds`). Conversely a plan for an analysis
  that had ended makes it unfinished again without counting, so the rows may hold
  more *unfinished* analyses than the limit; those that *wait to be run* for the
  first time stay within it (`StagedWithinLimit`).

### Bounds

- *Two threads in two processes* (lifecycle). The row is the only thing requests
  share, and each conflict the code can have (a stale read, a take-over, a deletion,
  an unclaimed save) is between a request and one other. A third adds no kind of
  step, and the safety properties of this instance are proved for any number.
- *Plan limit 1*: two requests race for the only place, and a plan is verified or
  read while another request works. Several plans in one report, and the deployed limit
  of 3 (`config.py:47`), are covered by the theorems, which hold for every limit.
- *One candidate verdict, one insight kind* where interleaving is checked: the
  coherence of the others differs by `StatusForVerdict` only. The faults run
  has all of them. The progress run has none: to the archive, a completed run is like
  a static result (which erases it) or an error (which keeps it), and an insight does
  not touch it.
  `Symmetry` permutes threads and their processes and is used with safety properties only.
- *Two analyses, limit 1* (capacity): one at the limit, one refused; each process
  has records the other finishes or deletes.
- *Two operations, one stream from its third event* (`Requests`, `After`): an
  operation before, during and after every turn of the generator; two operations
  overlap or follow one another. One run of the sandbox and one verdict stand for
  any number. The safety properties are proved for any number of all of these.
- *Four attempts at one key.* A first one that is lost, one that meets its row,
  one after expiry, and one that races it.
- *Limit 2, windows of two seconds, two ticks a second, five seconds* (`Horizon`):
  two whole windows and a half, a clock between seconds, and a thread that counts
  in a later window than it has read. Both quotas
  and the advice are proved for all values.
- *Migrations of one or two statements of eight kinds, and eight of three*:
  statements that differ in repetition, inverse, schema and content. Prefixes,
  failing first and last statements and every boundary occur. `rows` stops at 3,
  above the two insertions a retry can repeat.
- *Plans of at most two items, four for the template*: an item of several
  statements, statements that fail, repeat badly or are refused by the policy, and
  every order of the template's.
- *Three simulations, one slot*: one that holds it, one that is refused, one that
  comes after a server was left behind.

Deadlock is not checked in any run: a client need not send anything, and a
simulation, a stream or a key whose requests have all ended is at rest, as is the
clock of the rate limits at its horizon.

### Fairness

- Lifecycle: `WF(Proceed(t))`, since a handler that has started goes on, as every
  call it makes returns or raises (statement and sandbox time limits, HTTP client
  timeouts); `WF(Purge(p))`, since the expiry task sleeps one minute and runs again;
  `WF(ClaimLapses)` and `WF(Expire)`, since ten minutes and a day pass. No fairness
  is assumed of clients or of faults. A crashed process is back at once, but
  requests it served are gone.
- Capacity: `WF` of a creation under way, of each process's sweep and of the day of
  retention. None of the other handlers: expiry alone ends a lockout.
- Stream: `WF` of a connected client's generator. Its wait ends after 15 seconds at
  the latest (`routers/analyses.py:168`, `service.py:328-333`). None of operations:
  `StreamEnds` supposes that the analysis comes to rest.
- Slots: `WF(Step(s))`, since every command has a time limit, and `WF(Overdue(s))`,
  since the total time passes.
- Keys: `WF` of requests on their way and of the key's expiry.

## 4. Proofs

The theorems hold for any threads, processes, hosts, limits, windows, databases,
statements, plans, requests and simulations. The assumptions on constants are named
and stand in the modules that declare the constants; TLC evaluates them in the
runs. They say that sentinels are not threads or databases, that limits are
positive, that the threads which share a rate limit are finitely many and at least
one, that `Apply`, `Reversal` and the planner's constants have the right ranges, and
what PostgreSQL makes of the four statements of the template (`TemplateAssumption`;
`planning.py:161-190`). The last is justified by the policy, which admits neither
functions nor triggers (`sql.py:20-78`), so that nothing but the four statements acts.

`AnalysisLifecycleProofs`
- `TypeCorrect`: `TypeOK` is inductive. The work is in the private records: a
  record stays a `Report` when a plan is appended or replaced.
- `DeletionIsFinal`: needs `CreatedOnce`. Only `CreateInsert` makes a row
  present, and it is never enabled after the row was there, because the archive's
  name is taken before the row is inserted and never free again.
- `HolderAlwaysWorking`: needs in addition that a row which is not there carries
  no token; every way out of "work" and "commit" gives up or abandons the token.
- `LifecycleKeepsLease`: the lifecycle implements `ReportLease`. The mapping takes
  `stored` to `row`, `holder` to `token`, and `working` to the threads between
  their claim and their commit. A refused commit, a failure and a crash are
  `Leave`; an insight is `Note`; each deletion and sweep is `Close` or a stutter.
- `StoredReportIsCoherent`, `PlanLimitIsKept`: neither is inductive. `SoundInv`
  says that *every private record* is as sound as the row, since any may become
  the row, and that what a handler checked on its record (a free place for a
  plan, the plan to verify) still holds of that record when it works. Each part of
  soundness is kept for as long as it is true: `Plausible` of every record, torn or not,
  since a later SELECT brings nothing that the row's own status and verdict speak
  against; `Coherent` of a record that was read undisturbed, until a torn one has been
  saved. A record about to be saved as STAGED has findings. The limit
  holds because a stale record has room in itself, whatever the row has.
- `StagedAnalysisCanRun`: `BundleInv` says that whoever is about to erase the
  archive (a request after its commit or its deletion, a creation that was refused,
  a sweep) does so when it is `Needless`: the analysis was never inserted, is deleted,
  has been run, which a status or findings tell, or has outlived a retention.
  `NeedlessStable` shows, from `SoundInv`, that no step makes a needless
  archive needed again.

`CandidateSimulationProofs`
- `VerdictIsSound`: the invariant `EvidenceTrue` ties every passed dimension to
  what the migration really does, by experiment: an execution that succeeded was
  not cut short, the target is what the candidate makes of the baseline, and
  boundary by boundary the retries that passed reach the target's schema.
  `CandidateVerdict` then needs all dimensions passed.
- `VerdictIsComplete`: the converse invariant `Reasons` ties every failed dimension
  to an execution that was cut short or to something that really goes wrong.
- `ReversalIsHonest`: the classification agrees with what candidate and inverse
  leave, by cases on the inverse.
- `SimulationTypes`: a script of databases' own statements leaves a database. What
  `Execute` does is a function defined by recursion on the number of statements
  executed; `Recursion` shows that there is such a function and that it is typed, by
  the least number for which it would not be (`LeastNatural`, `Stays`).

`PlanVerificationProofs`
- `PlanIsSound`, `PlanIsComplete`: the same two directions for plans. `Progress` says
  what an experiment that is reached has before it; the interruptions come last, so
  that a plan whose interruptions passed is `Earned` (`Recovered`); and a plan that
  fails without a cut has a `Reason`.
- `VerificationTypes`: as above (`Reaches`, `Stays`, `ExecuteStages`), and over the items of a plan in addition; the
  statements of a plan are those of its items, joined (`FlattenType`).
- `TemplateIsOfUse`: `TemplateVerifies`. The template's four statements lead along a
  *path* of databases, one for each statement executed (`TemplatePath`). What has been
  executed, or is moot, stays moot all along the path (`TemplateStep`,
  `TemplateRepeats`), so a retry that begins anywhere on it passes the statements
  behind it without effect and rejoins it (`TemplateResumes`): the plan recovers at
  every boundary. Where the path ends the schema is the candidate's, since what a
  statement does to the schema depends on the schema alone (`TemplateSchema`), the data
  is the baseline's (`TemplateKeeps`) and no NULL is left. The proof did not go through
  for a column that exists already: then the transitional default need not suit the
  column's type, ADD COLUMN IF NOT EXISTS hides it, and the plan may fail. Hence the
  premise that the baseline lacks the column. That the default suits the column and
  that the old queries tolerate it are premises because the template guesses both.

`SandboxSlotsProofs`
- `SlotsTypeCorrect`, `NoSlotIsLost`: by cardinality, each step moves at most one
  simulation into or out of `Holding`.
- `NothingIsLeft`, `ServersAreBounded`: `Remembers` says that between start and
  closing a simulation knows what to stop, `Owned` and `Housed` that a server, or a
  directory whose removal has not failed, belongs to one that is at work. Servers of simulations at work are then
  no more than those that hold a slot.

`RateLimitsProofs`
- `RateInvariant`: with a database, the admissions of one aligned window bear
  different numbers, up to the count of its row, which is at most the limit.
- `TypesHold`, `DatabaseQuotaHolds`: a stretch of a window's length touches two
  aligned windows, so it holds twice the limit at most.
- `AdviceIsEnough`: in a database the advice always leads behind the window that
  refused (`RemainingLeadsBehind`); if the statement ran within that window, no row is
  ahead of the clock, so that the next has room. In memory the oldest entry is old by
  then. In both cases after rounding.
- `MemoryQuotaHolds`: `Counted` says of every stretch of a window's length that its
  admissions are still in the deque, which the limit bounds; or that the stretch is
  over, and its admissions together with the times in it that threads have read and
  not used yet are at most the limit and the other threads. A thread that drops the
  stretch's entries bears a later time, so it is not among those (`PendingLess`).

`IdempotencyKeysProofs`
- `KeyIsExclusive`, `NoRepeatWithoutExcuse`: whoever executes holds the row in
  progress (`Held`); and while the row can be claimed, or its claimer has not
  committed, an excuse is left over (`Spent`), so that each effect but one has an
  excuse of its own.
- `KeysTypeCorrect`, `NoKeyIsLeaked`, `ReplaysAreCurrent`: a row in progress has
  somebody at work or somebody lost; the answer that is stored, or about to be, is
  that of the latest effect (`Current`).

`CapacityProofs`
- `LimitHolds`: who is between its count and its commit holds the lock, so nobody
  else inserts, and no other handler saves STAGED without findings (an insight has them,
  `Sound`); the room that was counted is still there at the commit.

`TimelineStreamProofs`
- `StreamInvariant`: the invariant `Inv` that the other four follow from. It must say
  what an operation is *still going to do*. `Shape` says that a status of work is left
  again, `Fit` that whatever is still to be saved will then be whole and tell its status:
  the status is set by the first step and the event directly before the save closes it
  (`Saves`), an insight is added to a record at rest, of which no more is known than that
  (`Annotates`), a plan is generated in PLANNING (`Generates`). `Asked` is about a record
  that is still being read: a timeline yet to come goes on from the one that its status
  was read with. `Worked` adds that the private copy goes on from the row as it was read.
- `StreamTypes`: `TypeOK`.
- `StreamIsFaithful`: `Numbered` timelines and `Followed`; what was sent is what the row has
  at those places, as long as no save has replaced a newer row (`overlapped`).
- `CompletesAfterLastEvent`: the row's timeline is `Whole`, it goes to the end of an
  operation, and so is every timeline that is read from it. The row is `Told`: its
  timeline has an event that closes its status. Timelines only grow until a save replaces
  a newer row, so a timeline read after a status tells of it (`Followed`).
- `AnalysisSettles`: with persistence the row is never at work. Without it `Owed` says
  that a shared record which is has a thread that owes it a status of rest.
- `ResultsAreLeased`: `ResultsKeepLease`, each kind of step against `ReportLease`.
  `LeaseInv` says of what an operation is still going to do that a claim comes first and
  a save after all the work (`Leased`), and that while the analysis is there only the
  thread whose token is in the row has passed the one and not the other (`Holding`). A
  granted claim is `Acquire`, a save `Publish`, an insight `Note`, a deletion `Close`,
  and every way out of an operation that has no save `Leave`.

Checked by TLC only are the liveness properties (`ClaimNeverStuck`,
`ExpiredReportRemoved`, `ArchiveNotOrphaned`, `VerifiedArchiveErased`, `LockoutEnds`,
`StreamEnds`, `SlotComesBack`), out of the prover's reach.

## 5. Not modelled, and why

- The advisor, SQL splitting and policy, the risk rules and the intake are
  sequential text processing without state. Their outcomes are nondeterministic
  (findings or none, bundle complete or not) or constants of the modules (which
  statements the policy admits).
- Authentication, engine, configuration, health and root routers, middleware,
  migrations and manifests keep no state that requests share.
- The lifecycle without persistence (`NullEvidenceRepository`): only the stream
  models it, because there its steps are visible. It is meant for development. The
  keys' dictionary of that mode makes the same transitions in fewer steps and
  without expiry.
- A statement that goes on in the server after its client was killed, beside the
  next command: `SandboxDatabase` lets a cut fall behind any statement instead.
- Expired rows of keys and rate limits are never purged by the code; they grow
  without bound and nothing else follows from it.
- Privileged accounts, which bypass the quota and the capacity limit.

## 6. What remains

1. A lifecycle without persistence, as a second instance of its hosts.
2. `TimelineStream` with lapsing claims and crashes, over `ReportLease`.
