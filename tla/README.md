# Formal model of infra-sync

TLA+ models of infra-sync (`netbox_sync/`, `deploy/`, `scripts/`), the program that discovers
Proxmox and ESXi inventories and synchronizes them into NetBox, the TLC configurations that
check them, and TLAPS proofs about them.

Five questions are asked of the program:

1. *The write boundary.*  Who may change NetBox when, with which authorisation, and is what the
   history records about it true?
2. *A full apply.*  What do the stages write, on what do they decide, and where does a run that
   was cut in the middle leave NetBox?
3. *Onboarding.*  Do the registry and the secret directory stay one store although calls are
   retried, answers are lost and processes die?
4. *Schedule control.*  What is left of concurrent changes of one registry row?
5. *Maintenance.*  Do backup and restore keep an installation whole, whatever fails?

## 1. The system

### Parts, their state and operations

| Part | Code | State | Operations |
|---|---|---|---|
| Run history | `run_history.py` | table `sync_runs` | `start_run` (INSERT RUNNING), `finish_run` (conditional UPDATE), `latest_by_source`, reads |
| Confirmation store | `application/confirmation.py` | in-memory dict token -> claims, expiry | `issue`, `consume`, pruning |
| Apply worker | `apply_worker.py` | one request at a time; the lock; the store | `serve`, `prepare`, `apply`, child `execute_child` |
| Apply client | `api/apply_client.py` | one Unix-socket connection per call | send, time out |
| Cadence policy | `application/scheduling.py` | none | `evaluate_schedule` |
| Scheduler and orchestrator | `scheduler_runtime.py`, `orchestrator.py`, `run-scheduled-sync.sh` | one tick's snapshot and results | load, evaluate, `run_sources`, exit status |
| Source dispatch, full apply | `__init__.py`, `netbox_full_apply.py` | NetBox | review, plan, global prechecks, five stages |
| Apply stages | `netbox_apply.py`, `netbox_vm_apply.py`, `netbox_lxc_apply.py`, `netbox_vm_network_apply.py`, `netbox_lxc_network_apply.py` | NetBox objects, copies read by the preflight | match, create, update |
| Identities, report | `source_identity.py`, `netbox_*_metadata.py`, `netbox_disappearance.py` | custom fields of NetBox objects | match, merge, report missing |
| Review and planning facade | `application/discovery_review.py`, `application/planning_netbox.py`, `application/sync_plan.py` | recorded mutations | classify, record, digest |
| Onboarding | `application/onboarding.py`, `api/onboarding_adapters.py` | tested credentials, registry rows | test, `register`, reconcile, roll back |
| Secret broker | `secret_broker.py` | secret files with attributes | exclusive create, completion, replay, rollback by receipt |
| Source registry, schedule control | `source_registry.py`, `schedule_worker.py`, `api/schedule_client.py` | table `sources` | optimistic update, conditional schedule update |
| Maintenance | `deploy/backup.py` | lock, timer, services, schema, directories, bundles | backup, verify, restore |
| Discovery, planners that print, diagnostics, API, frontend, installer | the rest | read-only, or host provisioning | |

`PROJECT.json` lists every part with its status.

### Interactions and what is hard about them

* Manual apply, scheduled tick and maintenance exclude each other by an `flock` on
  `apply.lock`.  Each can die, or leave by one of a dozen error paths, while it holds it.
* A review, `prepare` and `apply` are separate requests, minutes apart; the registry, the
  inventory and NetBox change in between.  The plan is recomputed twice and compared by digest.
* A statement against `sync_runs` may fail, or commit with its acknowledgement lost.
* A child that is killed by `CHILD_TIMEOUT`, or dies with its worker, may have an HTTP request
  under way that NetBox executes after the lock was released and the row was closed.
* Rows of runs that died stay `RUNNING`; the scheduler tells them from live ones by age alone.
* The apply worker answers outside its `try`: a client that gave up ends the worker, and with
  it every confirmation and every queued request.
* A full apply is a few dozen requests without a transaction.  It may stop after any of them,
  with the last one executed or not; operators edit NetBox meanwhile; every stage writes from
  copies its preflight read.  Objects carry identities in two formats, of which one belongs to
  a single source only.
* A registration writes two stores.  A broker request is repeated when its answer is late, so
  that the same create or rollback may be executed after its client has gone on; a commit may
  arrive after the call gave up on it.
* The schedule worker and the registry's update write the same row under different conditions.
* Backup and restore stop services and timer, and start again what they had found running; two
  tools may overlap in front of the lock, and each of their commands may fail.

The hazards are listed with their lines in `PROJECT.json` ("hazards"), each with the properties
that would catch it, or with a note that says why none does.

### What makes each part correct

* History: a row is opened before any mutation and closed once; what its status says of NetBox
  is true and stays true.
* Confirmations: at most one run each; only the confirmed plan is written.
* Worker: answers are honest, every request is answered, the lock is never kept.
* Scheduler: no run of a source beside a live one, no run before its interval has passed,
  failures isolated, exit status earned.
* Boundary: writers exclude each other; nobody changes NetBox under a checked plan.
* Full apply: no write before all prechecks; the plan is what is then done; only objects of the
  source, and fields the sync manages, are written; a second run does nothing; a run that was
  cut is completed by a later one.
* Onboarding: a source appears in one step with all its credentials or not at all; a secret is
  written once; a definite failure leaves nothing behind, but for one error path of the broker.
* Schedule control: an answer stays true, edits take effect in order, no update undoes another.
* Maintenance: a bundle is one moment of the installation; no data is replaced, no directory
  lost, and nothing runs on a half-restored installation.

## 2. Modules

| Module | Models | Uses |
|---|---|---|
| `RunHistory` | `sync_runs`: insert, conditional finalise, error code to status, newest rows | |
| `AuditedRun` | abstract specification: what the history promises about NetBox | |
| `ApplyBoundary` | shared state of all writers: history, clock, lock, mutations of each run; failing and lost statements, late mutations, maintenance | `RunHistory`, `AuditedRun` |
| `Confirmation` | `ConfirmationStore` | `ApplyBoundary` |
| `ApplyWorker` | clients, worker, child: `serve`, `prepare`, `apply`, `execute_child` | `Confirmation` |
| `Scheduling` | `evaluate_schedule` | |
| `Scheduler` | the scheduled tick | `ApplyBoundary`, `Scheduling` |
| `SyncSystem` | worker, scheduler and maintenance together | `ApplyWorker`, `Scheduler` |
| `SourceIdentity` | identity records in both formats, ranks of a match, merging of custom fields | |
| `NetBoxStore` | NetBox: six tables, create, update, the constraints it enforces, and the recording facade | |
| `StageTarget` | configured target, prerequisites, usable addresses, items of work of a stage | `SourceIdentity`, `NetBoxStore` |
| `HostStage` | devices, their interfaces and addresses | `StageTarget` |
| `GuestStages` | virtual machine and container records | `StageTarget` |
| `NetworkStages` | interfaces, MACs, addresses and primaries of both kinds of guest | `GuestStages` |
| `Disappearance` | the report of managed objects that are missing | `NetworkStages` |
| `DiscoveryReview` | the classification in front of the runtime plan | `HostStage`, `Disappearance` |
| `FullApply` | runs of `execute_discovered_source` in every apply scope, `build_runtime_plan`, `apply_full_sync`; operators, inventory, faults | `DiscoveryReview` |
| `SecretBroker` | secret files, the broker's queue and steps, the retrying client | |
| `RegisteredSources` | abstract specification: what onboarding promises | |
| `Onboarding` | tested credentials, `register`, reconciliation, rollback, registry | `SecretBroker`, `RegisteredSources` |
| `ScheduleControl` | one registry row, schedule client and worker, optimistic `update_source` | |
| `Maintenance` | maintenance window, backup, verification, restore | |
| `MC*` | instances for TLC | |
| `WriterProofs` | lemmas on the shared boundary; types of the two writers | `ApplyWorker`, `Scheduler` |
| `SyncSystemProofs` | types of the composition, mutual exclusion, current plans | `SyncSystem`, `WriterProofs` |
| `AuditProofs` | confirmations, truthful history, honest answers | `SyncSystemProofs` |
| `CadenceProofs` | the scheduled path: cadence, overlap, isolation, exit status | `SyncSystemProofs` |
| `FullApplyProofs` | prechecks, survival of manual fields, ownership of what is written | `FullApply` |
| `OnboardingProofs` | secrets, the registry's promise, failures, tokens | `Onboarding` |
| `ScheduleProofs` | schedule changes and registry updates | `ScheduleControl` |
| `MaintenanceProofs` | backup and restore | `Maintenance` |

Definitions keep the names of the code where possible; `PROJECT.json` ("map") gives the lines
each one stands for.  Definitions whose comment begins with "Fault:" are not part of any
specification: each is the form a plausible bug would give to the definition after it, and is
used to see that the properties notice.

### How state corresponds to the code

Write boundary (`ApplyBoundary`, `ApplyWorker`, `Scheduler`, `SyncSystem`):

* `runs[r]` is the row with uuid `r`, or `NoRow`.  `"UNLISTED"` stands for every error code
  outside `SAFE_ERROR_MESSAGES`.
* A plan is its digest; `Blocked` is the set of digests of plans with `apply_allowed` false.
  Each time a plan is computed it may be any plan: inventory and NetBox change freely.  In the
  same way each registry read may return any row or fail.
* `left[r]` counts the mutations run `r` still has to make, fixed when its prechecks end;
  `touched` are the runs of which one landed; `inflight` the runs that were abandoned with a
  request under way.
* `wpc` and `spc` are the points of the worker's handler and of the tick: one for each call to
  the registry, the history, the lock file, the child, NetBox or the socket.  Between two
  points any other process may act.  Each action is everything the code does from one such call
  to the next, its error paths included.
* `granted`, `authorised` and the `run` of an answer are history variables: they record what
  happened and influence nothing.  (A client learns its run id only from a successful answer.)
* `now` is one clock.  The code reads the UTC clock for rows and cadence and the monotonic clock
  for the expiry of confirmations; that neither is set back is an assumption of the model.
* The `flock` of the scheduled path is held by the `docker compose` client; it is taken to end
  together with the tick.
* Here `deploy/backup.py` is only somebody who takes the lock (`Maintenance*`), stops services
  (`Crash`) and starts them (`Restart`); `Maintenance` models it in full.

Full apply (`FullApply` and the modules under it):

* `nb` is NetBox: tables of records by id.  `snap` is what the current stage read in its
  preflight and still holds; `objs` maps the items already handled to the object they resolved
  to.  The preflight reads of one stage are one step, every write is one.
* The same pipeline runs twice: on the recording facade (`pass` = "plan", recorded in
  `planned`) and on NetBox ("apply", in `log`).  The other scopes run one stage.
* An attribute is kept as far as a property or a decision depends on it: names, MACs, addresses,
  status, memory and boot behaviour by value, the remaining managed custom fields as one, all
  manual ones as `manual`.  A record that cannot be parsed as an identity is a foreign one; the two
  managed lists are well formed or empty, for on a null one the merge raises.
* A request ends as executed, as lost before NetBox saw it, or as executed with the run cut.
  NetBox itself refuses duplicates (`NetBoxStore`), which the stage does not catch.
* `quiet` says that nobody edited since the run began, `accepted` that a quiet full run passed
  its prechecks since the last edit, `settled` that the last full run completed and nothing
  changed since; `base` is NetBox when the apply pass began.  They are history variables.
* A scenario gives the initial NetBox and inventory with the faults and edits allowed in it.

Onboarding (`SecretBroker`, `Onboarding`):

* `files[k]` is the file of logical name `k`: its two attributes (operation, receipt), whether
  it is complete, and its content.  The broker's create is two steps (exclusive create,
  completion), with a death possible in between.
* Keys are random in the code; here any key may be drawn, including one in use.
* `queue` holds requests in the order of their connections; a client that sends again leaves
  its first request in it.  `submitted` is the distinction the client makes between a request
  that cannot have reached the broker and one that may have.
* An expired entry of the pending credentials is one that is no longer in `pending`.  `late`
  are the inserts that may still commit after the call saw its connection fail.
* `EarlierRows` are sources registered before, whose files must not be disturbed.

Schedule control: a schedule is the pair of its two columns, `config` stands for the other
mutable columns, `version` for `updated_at`.  The row exists: no code deletes one.

Maintenance: what database, directories and role passwords hold is reduced to where it comes
from (this host, the bundle, nowhere), the sources known and the number of runs.  `tool[t]`
has the point the tool has reached and what it must undo.  An enabled timer that systemd starts
by itself after a reboot is not modelled.

## 3. Runs

| Run | Instance | What it shows |
|---|---|---|
| `manual_sync` | two sources, three calls, two runs, one token, three digests of which one is blocked, two mutations | `SingleUse`, `WritesAreReviewed`, `AnswersAreHonest` |
| `manual_progress` | three calls, fairness | `CallsAnswered`, `LockReleased`: also while maintenance never ends |
| `scheduled_tick` | two sources, four runs, two mutations, fairness | `FailuresAreIsolated`, `ExitStatusIsHonest`, `TickReleasesLock` |
| `scheduled_cadence` | one source, four runs, clock 0..6, five configurations | `NoOverlap`, `StartsOnCadence` |
| `shared_boundary` | both writers and maintenance, three runs | `MutualExclusion`, `PlanStaysCurrent`, `HistoryIsTruthful` (both writers implement `AuditedRun`) |
| `full_apply` | one host, one virtual machine, one container and a stranger's machine; some 250 initial NetBoxes; two cuts, or two edits between runs, or one inside, or single-stage runs; also as a second source | `PrecheckBeforeWrite`, `PlanIsExact`, `Idempotent`, `PrecheckCoversWrites`, `MissingMeansGone`, `ForeignUntouched`, `ManualKept`, `VmPrimaryKept` |
| `full_apply_retries` | a migration from legacy identities, one cut, fairness | `Converges` |
| `onboarding` | two calls, two tested credentials of which one has two secrets, three keys, two attempts per request, one crash of broker or API, one earlier source | `FailureLeavesNoSecret`, `OneRegistrationPerTest`, `SecretsAreWriteOnce`, `RegistrationIsAtomic` (the refinement of `RegisteredSources`) |
| `schedule_control` | two operators with two requests each, two bootstraps | `ScheduleAnswersHold`, `EditsInOrder`, `ConfigUpdatesKept` |
| `maintenance` | one backup and one restore, three services, one source, one run, one killed tool, fairness | `BundlesAreSnapshots`, `ServicesNeedWholeState`, `TimerNeedsWholeState`, `OriginalsSurvive`, `PublicationIsUndone`, `SavedLeavesHostAsFound`, `RestoreKeepsData`, `MaintenanceEnds` |
| `scheduled_blocked_plan` | one source, one blocked digest | violated: see Findings |
| `lost_schedule_change` | as `schedule_control` | violated: see Findings |

Some properties are conditional, because the code promises no more:

* `ForeignUntouched`, `ManualKept` and `VmPrimaryKept` speak of runs that nobody edits under:
  the stages write from copies, without a condition on the write (see the list of disagreements).
* `PrecheckCoversWrites` and `Converges` exclude two clashes that the prechecks do not look at
  and that stop a run in the middle (`NameTaken`, `Shared` in `FullApply`): a new name of an
  interface or a container that another record still bears, and an address or a MAC that
  discovery reports for objects of different stages, or twice for one host.
* `MissingMeansGone` names its one exception and says that it always occurs: a container interface
  under its former displayed name (`FormerlyNamed`) is found by the stage and reported missing.
* `FailureLeavesNoSecret` names its one exception: the last secret of a call, completed by the
  broker, whose repeated request met an error of the disk and was denied.  The instance reaches it.
* `TimerNeedsWholeState` holds beside backups as well.  Its exception is a backup that found the
  timer active and was at work at the same time as a restore: it starts the timer again whatever
  became of the restore.  The instance reaches it.  `SavedLeavesHostAsFound` speaks of a backup
  beside which no other tool was started.
* `TickReleasesLock` leaves one way for a tick to keep the lock, a request that never returns
  (`HangsOnOneRequest`): from then on the tick takes no step.
* `OneRegistrationPerTest` is about the tokens of tested credentials; sources registered before
  the instance began carry none.
* `OriginalsSurvive` follows each directory to where it may be: in place, in the directory a
  restore keeps it in, and, once the last rename of a publication is done, replaced by the
  bundle's.

### Bounds

* `RunIds`, `Tokens`, `Calls`: uuids, random tokens and requests, each used once.  Two runs
  suffice to present a token twice and to confuse two rows; a third lets both writers meet a
  row left behind by a crash.  When the ids are used up no further run starts; that is an
  artefact of the bound, and the runs with liveness properties have enough of them.
* `MaxWrites`: 2 distinguishes none, some and all mutations landed.
* `MaxTime`: with `Ttl` 1, one tick of the clock crosses the expiry boundary.  The cadence run
  has a clock that passes the stale threshold (2) and the longest interval (3) twice.
* `Backlog`: 2 (8 in the code) lets a request wait behind one that waits.
* `CadenceConfigs`: intervals below, at and above the stale threshold, paused, disabled.
* `full_apply`: objects interact through names, addresses, identities and the cluster; one
  object of each kind, a foreign one and inventories with a second interface or a duplicate
  address produce every pair.  Each initial NetBox varies one part, or the parts of one guest
  together.  Two cuts let a run be cut, resumed and cut again.  `Ids` 1..6 leave room for every
  create of these scenarios.
* `onboarding`: three keys for at most three secrets besides the earlier one, so that a call can
  draw a key in use; two attempts are what the code makes; `Capacity` 2.
* `schedule_control`: two requests let an operator meet the answer to an earlier one; two
  bootstraps let registry updates meet each other.
* `maintenance`: one tool of each kind overlap; a second backup or restore would wait for the
  same lock.  One kill at any step.
* Symmetry is used for ids that nothing orders; never in the runs with liveness properties.

Deadlock is checked except in `onboarding`, `schedule_control`, `lost_schedule_change` and
`maintenance`: registrations, edits and tools are finite in number, and when all are over nothing
more has to happen.  In the others restarts, the timer and operators keep every state live.

### Fairness

* `WF(ServeStep)` (`WorkerFairSpec`): the worker process is scheduled, its child ends or is
  killed by `CHILD_TIMEOUT`, and Docker restarts it (`restart: unless-stopped`).  Nothing is
  assumed of clients, of crashes or of maintenance, which may hold the lock for ever.
* `WF(LocalStep)` (`SchedulerFairSpec`): only the steps of a tick that wait for nobody are fair:
  going on to the next source, ending, exiting.  Nothing is assumed of its requests to Proxmox,
  NetBox, the registry and the history, for which the scheduled path sets no timeout, so that a
  tick may stay in any one of them for ever.  Nothing is assumed of the timer.
* `FairSpec` of `FullApply`: a run that has begun goes on, as above, and full runs are started
  again and again, whatever other scopes are run by hand: the timer does that
  (`SF(execute_discovered_source("full", TRUE))`).
* `FairSpec` of `Maintenance`: each command of a tool that runs ends, successfully or not.

### Findings

`scheduled_blocked_plan`: `docs/architecture.md` says that a BLOCKED plan prevents writes for
its source.  The scheduled path computes the plan (`build_runtime_plan`), keeps it for the
history, and calls `apply_full_sync` without consulting `apply_allowed`; the manual path
refuses the same plan.  The prechecks of the stages stop some of these plans, not all of them.

`lost_schedule_change`: `update_source` reads a row, rewrites all of its mutable columns and
makes the write conditional on `updated_at`.  The schedule worker's UPDATE changes the schedule
columns and leaves `updated_at` alone, so a schedule change that is saved and acknowledged
between that read and that write is undone without an error.

### Other disagreements met while modelling

The models reproduce these; no run is kept for them.

| Code | What it does | What is said of it |
|---|---|---|
| `netbox_vm_network_apply.py:75` | The precheck of the network stages wants the record of every guest, which for a new guest only the later guest stage creates: a full run that discovers one stops before its first write. | `docs/architecture.md:154`, "truly new Proxmox objects use existing guarded create policy" |
| `netbox_lxc_network_apply.py:1074` | The container stage replaces a primary address an operator chose among the container's own; the virtual machine stage keeps it. | `docs/architecture.md:151`, "preserve manual fields and same-VM manual primary" |
| `netbox_disappearance.py:244` | A container interface under its former displayed name is matched by the stage and reported missing; `MissingMeansGone` states that it always is. | `docs/architecture.md:322` |
| `secret_broker.py:179` | A repeated create that meets an error of the disk is answered `SECRET_ALREADY_EXISTS`, a definite failure, with the completed secret left in place; see `FailureLeavesNoSecret`. | docstring at `secret_broker.py:164`, "A same-attempt replay returns its receipt" |
| `netbox_vm_network_apply.py:1048`, `netbox_apply.py:483` | An address assigned, or a manual field changed, between preflight and write is taken or put back. | `docs/architecture.md:150`; comment at `netbox_apply.py:481` |
| `deploy/backup.py:640` | When `compose stop` fails half way, the services already stopped stay down. | `docs/backup-restore.md:102` |
| `deploy/backup.py:644` | A backup that overlapped a restore which failed starts the timer it had found active; see `TimerNeedsWholeState`. | `docs/backup-restore.md:160`, "timer and writers remain stopped" |

## 4. Proofs

The theorems hold for every value of the constants that satisfies the assumptions named in the
modules:

* `NoneAssumption`, `BoundaryAssumption`, `ConfirmationAssumption`, `WorkerAssumption`,
  `SchedulingAssumption`, `SchedulerAssumption`, `BrokerAssumption`, `OnboardingAssumption`,
  `ScheduleAssumption`, `IdsAssumption`: `None` and `Nothing` are none of the values they stand
  beside, subsets are subsets, bounds are natural numbers.  `ResultAssumption` says the same of
  the result a tick keeps for a source.
* `EarlierAssumption`: earlier registrations are not by the calls modelled and have a key each.
* `RowAssumption`: the registry row has its columns and a version.
* `BundleAssumption`: the bundle that is restored is one that `verify` accepts.
* `FullApplyAssumption`: the records of the initial NetBox have the fields the model gives them,
  an interface has a device and an address record an assignment, and an identity record is a v2
  one or one `from_record` does not parse; an inventory consists of lists, as the dataclasses of
  `discovery.py` declare them, with a Boolean ownership flag for every host and guest.

Write boundary:

| Theorem | States | Inductive invariant |
|---|---|---|
| `WorkerTyping`, `SchedulerTyping` | types | `WorkerInv`, `SchedulerInv`: types, plus what each local variable holds at each point, plus that a connection is queued once and not while it is served |
| `Exclusion` | `MutualExclusion` | `LockInv`: each writer has the lock exactly at its locked points |
| `NoInterference` | `PlanStaysCurrent` (an action property) | `ControlInv` and `LockInv` |
| `OneRunPerConfirmation` | `SingleUse` | `TokenInv`: a stored token is as granted; a consumed one is out of the store; the run about to consume has none |
| `OnlyReviewedPlansWritten` | `WritesAreReviewed` | `ReviewInv`: row -> request -> token -> recomputed digest -> writes |
| `HistoryRefinement` | `HistoryIsTruthful`, the refinement of `AuditedRun` | `AuditInv`: closed rows are true, runs before their first write are clean, and the outcome a writer is about to record is right |
| `HonestAnswers` | `AnswersAreHonest` | `AnswerInv`: the answer being prepared agrees with the row and the mutations of its run, and answered calls stay that way |
| `SourcesDoNotOverlap` | `NoOverlap` (an action property) | `CadenceInv` |
| `CadenceRespected` | `StartsOnCadence` (an action property) | `CadenceInv` |
| `EverySourceAttempted` | `FailuresAreIsolated` | `CadenceInv` |
| `ExitStatusHonest` | `ExitStatusIsHonest` | `CadenceInv` |

Full apply:

| Theorem | States | Inductive invariant |
|---|---|---|
| `Prechecked` | `PrecheckBeforeWrite` | `PrecheckInv`: what a full run knows at each point of the pipeline |
| `ManualFieldsSurvive` | `ManualKept` (an action property) | `StoreInv`: records keep their fields; what a writing stage read and what NetBox holds agree in all that is not this source's |
| `ForeignStaysUntouched` | `ForeignUntouched` (an action property) | `OwnerInv`, on top of `StoreInv`: what a writing stage read and has resolved so far is still this source's in NetBox, and the work left relies on nothing else; see below |

Onboarding and schedule control:

| Theorem | States | Inductive invariant |
|---|---|---|
| `WriteOnce` | `SecretsAreWriteOnce` (an action property) | `Inv` of `OnboardingProofs` |
| `Atomicity` | `RegistrationIsAtomic`, the refinement of `RegisteredSources` | `Inv` of `OnboardingProofs` |
| `RegisteredOnce` | `OneRegistrationPerTest` | `TokenInv` of `OnboardingProofs`: a token is pending, or held by one call, or spent; a row carries the token and the source of its call |
| `NothingLeft` | `FailureLeavesNoSecret` | `CleanInv`: see below |
| `AnswersHold` | `ScheduleAnswersHold` | `RequestInv`: a request is queued at most once, and no longer once it is applied or answered |
| `InOrderApplied` | `EditsInOrder` (an action property) | `OrderInv`, on top of `RequestInv`: the queue holds an operator's requests in the order they were made, none of them behind an applied or an answered one |
| `ConfigKept` | `ConfigUpdatesKept` (an action property) | `RegistryInv`: a bootstrap whose version is still the row's has read the row's configuration |

Maintenance, each with the part of the invariant of `MaintenanceProofs` it needs:

| Theorem | States |
|---|---|
| `Snapshots` | `BundlesAreSnapshots` |
| `DataKept` | `RestoreKeepsData` (an action property) |
| `ServicesOnWholeState`, `TimerOnWholeState` | `ServicesNeedWholeState`, `TimerNeedsWholeState` |
| `NothingLost` | `OriginalsSurvive` |
| `UndoneOrDone` | `PublicationIsUndone` |
| `HostAsFound` | `SavedLeavesHostAsFound` |

`DataKept` is about two commands of `restore_fresh`, the query that finds the target empty
(`check_target`) and the DROP (`drop_schema`).  Between them the restore holds the lock and has the
services stopped (`RestoreInv`: the target is still empty at `"dropping"`).  `TimerOnWholeState`
needs what each tool met: `met` is a history variable with the tools at work when one began, and
`TimerInv` says that two tools at work have met, and that, unless a backup with the timer in its
memory has met a restore, the timer is off while a restore waits for the lock or holds it, and no
backup at work on a half-restored installation remembers it as active.

Types alone are not inductive: that `apply` has a run to finalise and claims to compare depends
on the point it has reached.  `SingleUse` is not either: the next token to be consumed must not
be an earlier run's, which is what `Consumed` says.  The refinement needs that the two writers
never meet on a row (`RowInv`: each executes a row with its own trigger; `WorkerKeepsScheduled`,
`SchedulerKeepsManual`), and that a row is never closed as "unchanged" with a request still
under way, or as "done" with mutations left; with that, a mutation that lands after the row was
closed cannot make it lie.

`CadenceInv` ties the tick to its rows.  What makes a start safe is decided in `evaluate_schedule`
from rows read earlier in the tick: the invariant says that this stays right until the source's
turn comes, since only this tick adds scheduled rows (`WaitingMayStart`, `TickIsPast`), that the
sources of a tick are waiting, running or attempted and none is dropped (`NothingDropped`,
`Attempted`), and what is recorded of each (`Recorded`, `RowOfTick`).

The onboarding proofs need to know why a row never loses a file.  Two facts carry them: a call
that is or may still be registered owns complete files, made by its own operations, for all of
its receipts (`Progress`, `Registration`, `Secrets`), and a rollback that waits anywhere in the
broker's queue belongs to a call that is past registration for good (`Past`, `QueueInv`): it has
no row and no insert that may still commit.  Since requests outlive their clients, the second is
about the queue and not about the state of the call alone.  `RowsUsable` says of every row that
its files are complete and its own, which is what the refinement mapping reads.

That a failure leaves nothing behind is harder, for a request that was given up on may still be
served and create its file after the call went on.  `CleanInv` numbers the attempts of a call:
the broker serves them in order and only the last is awaited, so an answer to it tells what
became of all of them; a file or a queued create of a call is of its current receipt or of one
it still has to delete, and when the call is answered as failed there is neither, unless the last
answer was the broker's denial of a create it had completed.

A stage writes custom fields made from the copy it read, so `ManualKept` is about two stores:
`Careful` says of every request of every stage what it takes from the copy (`HostsCareful`,
`VmsCareful`, `LxcsCareful`, `VmNetworksCareful`, `LxcNetworksCareful`, from the lemmas
`MergedCarries` and `BuildersCarry` about the merging of identities and names), `CommitEffect`
what the request leaves of NetBox, and `CopiesAgree` that copy and NetBox agree in all that the
sync does not own, up to the next edit.

That a request touches nothing foreign depends on how a stage came to the record it writes:
either it found the record by identity in its copy, or an earlier item of its work resolved it
(an address is put on the interface the stage has just created).  `OwnerInv` says for a stage
that is writing, in a run nobody has edited under, three things (`Underway`).  `Copies`: what was
this source's in the copy is so in NetBox, an interface is on the device it was on, and an
address that was free is free or has become this source's.  `Resolved`: every object in `objs`
is this source's.  `Listed`: each item left relies only on items done or before it.  The last
follows from the order in which the stages list their work (`WorkOrderly`).  Those lists are
concatenations, defined by `FlattenSeq`, and what is in them is proved by induction: the library's
principles take an operator and cannot be used, but `CountingUp` states the same for a set,
which suffices here.  From the three, `HostsRight`, `VmsRight`, `LxcsRight`, `VmNetworksRight` and
`LxcNetworksRight` show that the next request is `Rightful`, and `RightfulEffect` that NetBox then
changes as the property says and that nothing of this source's is lost.

`WriterProofs` holds what both writers need of the shared operations.  Each step lemma has one
case per action or group of actions with the same frame.

Only model-checked:

* The liveness properties `CallsAnswered`, `LockReleased`, `TickReleasesLock`, `Converges`,
  `MaintenanceEnds`: the prover does not reason about fairness and ENABLED.
* `PlanIsExact`, `Idempotent`, `PrecheckCoversWrites`: they compare two executions of the whole
  pipeline, item by item, which takes a simulation between the stages on the facade and on
  NetBox, or between a run and the next one, on top of the induction over the list of work.
* `VmPrimaryKept`, `MissingMeansGone`: but for the exception named above, they hold where no record of NetBox bears the identities
  of two guests of this source.  The instances satisfy this; the code neither checks nor
  establishes it, so they are not stated for every NetBox.

## 5. Not modelled

* The four `netbox_*_planner.py` modules: they print a preview, write nothing, and neither the
  runtime plan nor the apply uses them.
* ESXi stages in detail: `esxi_runtime.py` appears as a run with prechecks and mutations in
  `Scheduler`.  The one-off adoption, migration and bootstrap tools are run by hand.
* `deploy/install.py` but for its lock and timer, the activation of a release, the naming
  migration: provisioning of a host.
* Discovery, diagnostics, health, DTO validation, frontend: read-only or formatting.
* The worker's `health` operation and requests its framing or peer check rejects: no state.
* `application/manual_sync.py`: an in-process twin of `prepare` and `apply` that only tests use.
* The inventory and plan modes of the command-line entry point, and the helpers of
  `__init__.py` that `netbox_full_apply.py` superseded.
* A `docker compose` client that dies while its container lives (see above).
* The probe and the egress policy of onboarding: they decide only whether a test succeeds.
* Formats and permissions of bundles, archives and secret files.

## 6. Plan

Done: the modules and proofs above.  Next, in this order:

1. Proofs: `PlanIsExact`, by a simulation between the pass on the facade and the pass on NetBox
   over the list of work that `WorkOrderly` describes.
2. Activation of a release (`deploy/install.py`) as a third tool of `Maintenance`.
3. The printing planners against the stages: does a preview show what an apply decides?
4. The ESXi runtime over `NetBoxStore`.
