# xray-e2e-prober in TLA+

xray-e2e-prober is a daemon that imports proxy profiles from sources, starts Xray
processes for them, sends requests through them and publishes what it finds. Its core
is a single asyncio process with many tasks, a private data directory that must survive
a crash at any moment, and child processes that must never be lost. This directory holds
the TLA+ development beside the code: modules translated from
`src/src/xray_e2e_prober/`, TLC runs, and TLAPS proofs. File and line numbers of every
definition are in `PROJECT.json` under `map`.

## 1. Inventory

| component | state it keeps | operations | talks to |
|---|---|---|---|
| Scheduler (`scheduler.py`) | jobs, bounded queue, queued/running sets, generation maps, producer and worker tasks | `start`, `update`, `stop`, `run_once`, producer tick, worker loop | runner and error callback of the service |
| Runtime pool (`runtime_pool.py`) | slots, persistent runtimes, per-key and per-start locks, restart backoffs, desired map | `acquire`, `reconcile`, `close` | runtime manager; called by workers and by the service |
| Runtime and manager (`runtime.py`) | processes, start lock, closed flag, shared stop task | `start`, `stop`, `ensure_ready`, `close` | operating system |
| Config transaction (`storage.py`, `service.py`) | config file, backup, journal, secret files, live config | `replace_config`, `reload_config`, recovery at `start` | CLI over the control socket |
| Source state (`storage.py`, `service.py`) | generation and state files, pointer, registry mirror | publish, load, prune, `_commit_source_state` | identity registry, pool, scheduler |
| Refresh and reconciliation (`service.py`) | per-source lock, status, candidate revision | `refresh_source`, `reconcile_source`, preview | loader, importers, source state |
| Identity registry (`identity.py`) | bindings per source | `reconcile`, manual mapping, prune | refresh |
| Inventory (`inventory.py`, `assignments.py`) | none | `compile_inventory` | everything that applies a state |
| Results (`service.py`, `storage.py`) | latest result per check, in memory and on disk | `execute`, load as stale, prune | scheduler, checker |
| Checker (`checker.py`) | two semaphores, throughput schedule, children of matchers | `run_cycle`, `check_target_set` | HTTP through a runtime |
| Service lifecycle (`service.py`) | ready, stopping, mutation lock, refresh tasks | `start`, `stop`, `_apply_config` | all of the above |
| Control server (`control.py`), file lock (`storage.py`) | connections; lock file | start/stop/handle; acquire/release | CLI |
| Loader, importers, effective config, models, metrics, API, redaction | little or none | functions and views | |

Everything on the event loop interleaves at `await`s only, so an action of a module is
what one task does between two awaits that suspend. Durable file operations run in
threads; the process may die between any two of them, and an operation may raise after
its effect (rename done, directory `fsync` failed).

What is hard here: admission decided in one task while another changes the schedule;
work that waits in a queue while its check is replaced; cancellation at every await, and
cancellations that are kept back while something must not be interrupted; futures whose
holder may be thrown away; a slot that is taken in one function and given back in any of
seven others; starts overtaken by a reconciliation; locks held while waiting for a
bounded resource; a multi-file commit with rollback, errors with unknown effect, and
crashes also during recovery. `PROJECT.json` lists these hazards with their lines and the
properties that would notice each going wrong.

What makes each component correct:

- Scheduler: one item per check, exact books, no stale work started, no leaked tombstone
  or task; `update`, `stop` and manual callers end.
- Pool: slots conserved, every process owned, own generation used, only desired runtimes
  kept after `reconcile`, nothing left after `close`; everybody returns.
- Runtime manager: every child, private file and reserved port has an owner through
  cancellation at any await, `close` leaves nothing, a child that ignores signals blocks
  nobody for ever.
- Config transaction: what a restart loads is an atomic register, equals what runs, has
  its secrets, and no editor overwrites what they have not seen.
- Source state: the pointer resolves to a matching pair of files, old or new after a
  crash, memory equal to disk after an ambiguous error, no mapping applied to what its
  author has not seen, readiness only for a generation that is scheduled.
- Service lifecycle: no two executors run at once, everything that writes does so under
  the lock file, nothing is left after a shutdown or a failed start, every call returns.
- Results: no result of an old generation or revision becomes current, none of an earlier
  process is shown as fresh.
- Checker: permits and children are not lost, a verdict rests on answers of its own cycle,
  first measurements are not put off for ever, every cycle ends.
- Identity and inventory: an unchanged source is accepted again with the same ids, an id
  the source provides keeps its entry, no check is lost to another with its id.

## 2. Modules

| module | models | state and actions |
|---|---|---|
| `Scheduler` | `scheduler.py`, and how `_critical_to_thread`, `execute` and `_scheduler_error` treat a cancellation | variables named after the attributes (`queuedGen` for `_queued_generations`, ...); `producer`, `draining`, `worker`, `fut` are the tasks and futures; `ctl` is the one lifecycle call the mutation lock allows at a time |
| `SchedulerProofs` | | theorems |
| `Queues` | the locks of asyncio, served in the order of arrival | operators on the sequence of a lock's holder and waiters; used by the three modules with such locks |
| `ConfigRegister` | the promise of `replace_config` | one register: submit, commit, reject, lose |
| `ConfigTransaction` | `begin/recover/commit_config_replace`, `prune_transaction_secrets`, `replace_config`, `reload_config`, the recovery in `start` | `disk` is the directory, `pc` the next file operation of the daemon, `txn` its request, `seen` what each editor has read, `faults` how many operations have failed |
| `ConfigTransactionProofs` | | theorems, refinement of `ConfigRegister` |
| `RuntimePool` | `runtime_pool.py`, capacity rule of `inventory.py`, processes of `runtime.py` as the pool sees them | `user[u].pc` is the await a worker is at inside `acquire`; `owner` is `reconcile` or `close`; `keyQueue`, `startQueue`, `slotQueue` are the FIFO locks and semaphore with the holder of a lock at the head |
| `RuntimePoolProofs` | | theorems |
| `SourceRegister` | the promise of `publish_source_state` | one register: submit, commit, answer, refuse, lose |
| `SourceState` | `publish_source_state`, `_load_source_state`, `_prune_source_history`, `_commit_source_state`, `refresh_source`, `preview_reconciliation`, `reconcile_source`, the loading in `start` | `disk` is the directory of one source, `live` its part of `self.generations` and `self.identity`, `pc` the next operation of the daemon, `executor` readiness and the generation the scheduler has |
| `SourceStateProofs` | | theorems, refinement of `SourceRegister` |
| `RuntimeContract` | what `RuntimePool` assumes of the manager | per caller: start, succeed, fail, die, stop, reap, stopped; and close |
| `RuntimeManager` | `XrayRuntimeManager`, `XrayRuntime`, `_wait_owned_task`, `_terminate_process` of `runtime.py` | `pc[t]` is the await at which `start_for` or `validate_for` is; `lock` is `_start_lock`, its holder first; `pend` the cancellations that are remembered; `stopTask` the shared stop of a runtime |
| `RuntimeManagerProofs` | | theorems, refinement of `RuntimeContract` |
| `Service` | `start`, `stop`, `_stop_locked`, `_apply_config`, the refresh loops; `control.py` and `FileLock` as these use them | `lifecycle` and `mutation` are the two locks as queues; `exec` the executors, `installed` and `listed` the one in use and the one whose loops are in `_refresh_tasks`; `down` is where the shutdown is |
| `ServiceProofs` | | theorems |
| `Results` | `execute`, `_scheduler_error`, `_drop_obsolete_results`, `_load_results_as_stale`, `_check_public`, `prune_results` | `results`, `loaded`, `files`; `change` is where a refresh, reload or start is between its awaits |
| `Checker` | `checker.py` | `task[k]` is the await of a target, `queue` and `tqueue` the waiters of the two semaphores, `child` the process of a matcher, `strays` the matchers that a stopped checker has left, `age`, `fresh` and `left` the throughput schedule |
| `CheckerProofs` | | theorems |
| `Identity` | `IdentityRegistry.reconcile`, `apply_manual_mapping`, `prune_unmatchable_inactive` | operators on rows and batches |
| `Inventory` | `resolve_assignment`, `compile_inventory`, acceptance in `refresh_source`, `reconcile_source` and `_apply_config` | `identity`, `generations`, `config` as in `ProberService`, whose `inventory` is `compiled`; `repeat` is a history variable, the feed a source was last accepted with |
| `InventoryAndResultsProofs` | | theorems about `Inventory` and about `Results`; it extends both, hence names such as `InventorySpec` |
| `MC...` | | instances for TLC |

`Service` composes what the other modules show in detail: the executor is `Scheduler`,
`RuntimePool` and `RuntimeManager`, which meet in `RuntimeContract`; what a mutator writes is in `ConfigTransaction`,
`SourceState` and `Inventory`; what an executor publishes is in `Results`, and what it
measures in `Checker`.

Points of the translation that a reader might question:

- **Scheduler.** Time is left out: a sleeping producer may wake at any moment. The
  constant `SaveMayFail` says whether saving a result may raise while its task is being
  cancelled; in that case the cancellation is lost (`_critical_to_thread`,
  `service.py` 130-148) and the task goes on.
- **ConfigTransaction.** One step is one durable operation, with the outcomes success,
  failure without effect and failure with effect. The executor that `_apply_config`
  builds is reduced to whether it is up.
- **RuntimePool.** Taking a free asyncio lock does not suspend; so the walk of
  `reconcile` over its keys is one action up to the next key that is locked or must be
  evicted (`Walk`), in any order, since the code iterates over a set. The inventory is
  swapped in the step that calls `reconcile`, as `_commit_source_state` does
  (`service.py` 799-819). `Tick` counts down backoffs. An ended runtime nobody refers to
  is forgotten (`Collected`), which keeps the instance finite. `reconcile` also drops
  unlocked entries of `_start_locks`; an unlocked lock is an empty queue here, so nothing
  changes.
- **SourceState.** One source; entry lists and bindings are values that are equal or not,
  and one counter names the files, so that it also gives their age (`st_mtime_ns`).
  `committed` is a history variable for the register. A caller may see its own
  cancellation instead of success, because `_finish_committed` keeps it back until the
  transition is over. A request for the version that is already durable may be answered
  "ok" although both publications failed: the visibility check cannot tell, and need not.
- **RuntimeManager.** A caller holds at most one runtime, so it names the runtime too. When
  owned work raises, its exception wins over a remembered cancellation, as in
  `_wait_owned_task`. A port reservation is a held socket; between its release and the
  child's own bind there is none, as in the code. `Exit` may come at any time, a child that
  was sent SIGTERM need not exit.
- **Service.** A mutator stands for `reload_config` and `replace_config`; a refresh loop
  for those of all sources; every configuration has a source that is refreshed. A
  connection's handler is not cancelled by its client, only by the shutdown, also while it
  waits for the mutation lock (`DownControl`, `MutateCancelled`). The release
  of the lock file is a thread: mutators that the shutdown has woken leave before it ends
  (`DownRelease`), since they only look at `_stopping`.
- **Results.** A result also remembers the process that made it, which the code does not;
  `FreshIsOurs` is about that. What `SaveFailed` stores may be of an old generation: it is
  not shown, and `MemoryIsCurrent` is about verdicts.
- **Checker.** Of time, what is kept is the position in the interval, the ages of
  measurements and the time left to a first one. A tick may come at any moment. HTTP,
  redirects and body limits are outcomes of one step; so is a client that cannot be made or
  closed (`broken` in `End`). Cycles are cancelled all at once, by `Scheduler.stop`
  (`Stop`). A cancelled `gather()` raises as soon as one of its targets has ended without a
  result: the cycle is over (`Cancelled`) while other targets of it still wait for a child
  to be created or to die, without anyone waiting for them. When a new checker comes these
  are `strays`; they have permits of the old checker only.
- **Identity.** Loops over groups of equal keys are quantifiers: groups of one stage share
  neither candidates nor rows. New ids are random in the code and any unused ones here
  (`Assignments`).
  `Compile` chooses one of several checks with one id, where the code keeps the last:
  `NoCheckLost` says that there never are several.
- Mutants. Definitions preceded by a comment `Mutant:` are not used by the
  specifications. Each is a plausible bug of one mapped definition; put in its place, it
  makes TLC report the property `PROJECT.json` names.

## 3. Runs

Passing:

| run | instance | properties | shows |
|---|---|---|---|
| `scheduler_safety` | 2 checks x 2 generations x 2 intervals, 2 workers, queue of 1, a manual caller, lossy saves | `NoOverlap Bookkeeping NoTombstoneLeak StopLeavesNoTask StartsOnlyCurrentWork` | overlap protection and exact books through any sequence of calls |
| `scheduler_liveness` | 2 checks, 1 worker, lossy saves | `ManualWorkResolves UpdateTerminates` | callers are answered unless `stop` hangs on a lost cancellation; `update` survives one, since a producer looks at the schedule again at the top of its loop |
| `config` | 3 configurations sharing 2 secrets, operations of any 2 kinds failing as often as they like, cancellation, crashes anywhere | `JournalRecoverable DiskMatchesLive SecretsKept NoSecretLeft NoLostEdit TransactionTerminates RefinesRegister` | an atomic register in spite of everything; memory, disk and secrets agree unless a decisive write (the commit, or the restoration in a rollback) fails |
| `pool_safety` | 2 persistent profiles on 2 slots, one with warm-up; one is renewed while the other becomes fresh; 2 users, no backoff | `SlotsConserved EveryProcessOwned UsesOwnGeneration OnlyDesiredKept ClosedLeavesNothing` | processes and slots are accounted for on every path, also for users that come before the reconciliation |
| `pool_liveness` | 1 persistent profile that is dropped for a fresh one, 2 slots, backoff of 1 tick | `CallersReturn` | no deadlock as long as stale runtimes leave a slot |
| `source_state` | 2 entry lists, 2 bindings, an operator, histories of 2, any 2 failed operations, crashes anywhere, 8 file names | `PointerResolves LiveIsDurable ReadyMeansScheduled NoBlindPublication RefinesRegister` | a source state is published atomically, live equals durable, and pruning never removes too much |
| `runtime_manager` | 3 callers that start or validate, one `close` | `EverythingOwned ClosedLeavesNothing CallersReturn` | no child, file or port is lost to a cancellation, a timeout, a death or `close` |
| `service` | 2 starters, a stopper, a connection, a direct caller, 2 executors, another process | `OneExecutor DataLockCoversWork CallersReturn` | start, stop, reload and refresh in any order and cancelled anywhere |
| `results` | 1 check, 2 generations, 2 revisions, 3 processes in turn | `FreshIsOurs MemoryIsCurrent` | a result is only shown for what it measured, and as fresh only by who measured it |
| `checker` | a check with a matcher, a throughput target and an egress assertion against another check, one permit of each kind, one stop of the scheduler and a new checker | `NothingLeaks VerdictSound DeferralShrinks CyclesEnd` | competition for permits, timeouts in every phase, deferred measurements, and what is left behind by a stop |
| `inventory` | 2 sources, feeds of up to 2 candidates from 5 keys and one of 4, 4 entry ids, 3 configurations, an empty and a restored registry | `NoCheckLost RepeatAccepted ExternalIdKept` | any sequence of refreshes, mappings by hand and reloads |

(`PoolSafety.cfg` with both backoffs set to 1 passes too, with 6.5 million states; so does
`ManagerContract.cfg`, the instance of `runtime_manager` against `RuntimeContract`.)

Violation, a disagreement between the code and what it says of itself (`PROJECT.json`,
`findings`, has the quotations):

| run | property | what happens |
|---|---|---|
| `scheduler_stop_lossy` | `StopTerminates` | a cancellation that meets a failing save is lost; `stop` waits for a worker that goes on |

### Known limits of the code

What the modelling has met beside that, and how the properties treat it:

- `service.py` 651: when the commit after a committed cancellation fails, the daemon runs
  the new configuration and a restart loads the old. `service.py` 661 and 588: a failed
  rollback, then a reload and an edit, delete secrets that are in use. Hence the condition
  on `Decisive` in `DiskMatchesLive`, `SecretsKept` and `NoLostEdit`; without it TLC finds
  both.
- `runtime_pool.py` 355: when stale persistent runtimes hold all slots, `reconcile` can wait
  for the lock of a key whose holder waits for a slot. `PoolReturning.cfg` is not among the
  runs; with it TLC finds `OwnerReturns` violated. `pool_liveness` has an inventory in
  which stale runtimes leave a slot.
- A `start` that gets the lifecycle lock between the announcement of `stop` and its turn
  clears `_stopping`, so a reload that ends in between may set `ready` for a moment,
  contrary to what `service.py` 572-574 has in mind. The shutdown that follows is complete:
  `DataLockCoversWork` and `CallersReturn` hold.
- `service.py` 578-579 waits until "no old/new executor overlap remains". Matchers of
  cancelled targets may remain (`strays`): for as long as it takes to create and kill them,
  up to `max_parallel_requests` of the old checker run beside those of the new one.
  `NothingLeaks` bounds them, and `CyclesEnd` says that they end.
- A source whose entries cannot be told apart, or that gives one external id twice, is a
  conflict again at every refresh, also when it was mapped by hand and has not changed.
  `RepeatAccepted` is therefore about sources that were accepted without a question.
- Even such a source may be a conflict at its next refresh without having changed. Four
  entries that are all new, with names and fingerprints (n, f), (m, f), (n, g), (m, h), are
  accepted: `identity.py` 380-399 only asks of new entries that they differ in one of the
  two. Once they are known, no name is unique, the fingerprint f is not either, and
  `identity.py` 329-379 reports "entries cannot be distinguished by non-secret semantics".
  The attempt to prove that an unchanged source is always accepted again has found this;
  the instance has such a feed (`Tangle`), and `RepeatAccepted` now says exactly when it
  happens (`Distinguishable`). No entry is confused with another by it.
- `replace_config` compares the revision an editor sends with the configuration in memory.
  When `start` could not load the file, there is none, and an edit begun when no file
  existed replaces one its author never saw. `NoLostEdit` is about edits of an existing
  configuration.
- As long as a source has no pointer, `_prune_source_history` returns early (`storage.py`
  606), so files that failed first publications have left are not bounded. And
  `_source_publish_is_visible` takes an error while reading for "not visible": a third
  failure in a row, at that point, would separate live from durable. Failing reads are not
  in the model.

### Bounds, and why they are enough

- Two checks and two workers are the least with which one check can overlap itself while
  another occupies the queue; the queue is one slot short. Two generations and two
  intervals give every way in which a check can be equal to, or differ from, the old one.
  The proofs remove these bounds for the properties they cover.
- `MaxFaults` is 2 so that an operation and the rollback it causes can both fail. Three
  configurations with overlapping secrets let a secret be shared, dropped and taken up
  again. Crashes are not bounded.
- In `source_state` two failures are what makes `_commit_source_state` look for its
  commit, and what lets a failed start follow a failed publication. Eight names allow two
  to five requests, so that histories of two overflow, also with files that crashes and
  failed attempts have left. Entries and bindings are symmetric. The proofs remove these
  bounds.
- `NRuntimes` is 3: with two slots and two users, a starting user has a slot, at most one
  more runtime is kept or used under the other slot, and the other user may remember one
  that has ended. So `StartSucceeds` is never disabled for want of a number. The proofs
  hold for any number of users, keys, slots and runtimes.
- `runtime_manager`: with three callers one holds a runtime, one is starting and one is
  queued when `close` comes. The proofs remove the bound.
- `service`: two starters, so that one can wait behind a shutdown or a failing start; two
  executors, since a third can only be built once one of two is gone. The proofs remove the
  bounds.
- `results`: a check's result does not depend on other checks; two generations and
  revisions can change and change back while a run or a save is under way, and three
  processes let a loaded result be saved over and loaded again. The proofs remove the
  bounds.
- `checker`: one permit of each kind makes every target wait; the other check lets cycles
  follow each other without a pause. An interval of two ticks has a measurement that is
  carried over, one that is due, and a deferral of more than one cycle. One restart is
  enough for strays beside a working checker. The proofs remove the bounds.
- `inventory`: two candidates can collide with each other or with two rows, by external id,
  name or fingerprint; four can do so only once they are known. Four entry ids are enough for
  the largest feed, and for the second source beside any of the others; two of them are
  symmetric, the ones no rule and no restored row names. The limit is both reached and not.
  The proofs remove the bounds.

Deadlock is checked in all runs but `runtime_manager`, where a closed manager is the end.

### Fairness

Only tasks that are already under way get weak fairness, since asyncio resumes every
task whose await is over and each await is bounded: the runner and the error callback by
request timeouts and file operations, starts by the start-up timeout, stops by
terminate-then-kill. Nothing is assumed of callers, clocks, crashes or cancellations.
Fairness is per task (`WorkerTask(w)`, `UserStep(u)`, `OwnerStep`, `Advance(t)`,
`ApplyStep(a)`, `DownStep`, `TargetStep(k)`), never per outcome, so a start may fail for
ever. FIFO locks and queues are in the model, not in the fairness; in `Checker` a free permit
reaches its first waiter. Of a child process only this is assumed: one that was sent
SIGKILL exits (`KillEnds`). A matcher may run for ever, and a request that gets no answer
ends at its deadline, which `TargetStep` includes.

## 4. Proofs

Constants are arbitrary, under the named assumptions of each module: the queue has a
slot, there is a worker, markers are distinct from values (`DistinctAssumption`,
`NamesAssumption`), a quorum is between one and the number of health targets
(`ConfigAssumption`), and what is counted is finite (users and keys of the pool, targets of
the checker, entry ids). TLC evaluates them on every run. Every inductive invariant was first checked
by TLC on the instance of its run.

**SchedulerProofs.** `TypeCorrect`, `NoOverlapCorrect`, `BookkeepingCorrect`,
`StopLeavesNoTaskCorrect`, `NoTombstoneLeakCorrect`, `StartsOnlyCurrentWorkCorrect`.
`NoOverlap` alone is not inductive: admission looks at `_queued` and `_running`, so it
needs `Bookkeeping`; the books are exact after `start()` only if no worker is left from
before, which is `StopLeavesNoTask`. Hence
`IInv == TypeOK /\ NoOverlap /\ Bookkeeping /\ QueueBounded /\ StopLeavesNoTask`.
Items move in three ways only (put, get, finish), and each has its lemma; other steps
leave them alone (`SameOccupancy`). Tombstones need in addition that
`_known_generations` agrees with `_jobs` (`KnownInv`), and the action property follows
from `KnownInv` at the step in which a worker takes an item.

**ConfigTransactionProofs.** `TypeCorrect`, `JournalRecoverableCorrect`, `Refinement`,
`DiskMatchesLiveCorrect`, `SecretsKeptCorrect`, `NoSecretLeftCorrect`, `NoLostEditCorrect`.
The mapping takes the register's value to `Effective`, what a restart would load: the
configuration recorded in the journal if there is one, else the file. A step may only
change it by removing the journal (commit) or by restoring the file under it, so the
invariant says for every `pc` what is on disk (`DiskAt`: which of file, backup and
journal belong to which configuration) and whether a request is undecided
(`RequestAt`). `RegisterStep` then shows that every action is a step of
the register or a stutter. The other four need what the daemon runs at each step
(`LiveAt`), which secrets are on the disk (`SecretsAt`), and, for as long as no decisive
write has failed, that what runs is what a restart would load and that a rollback removes
only secrets the previous configuration does not need (`SteadyAt`): together `SInv`.
`NoLostEdit` follows from it at the only steps that change `Effective`.

**SourceStateProofs.** `TypeCorrect`, `PointerResolvesCorrect`, `LiveIsDurableCorrect`,
`ReadyMeansScheduledCorrect`, `NoBlindPublicationCorrect`, `Refinement`. The register's
value is `Recovered`, what a restart would load. It is defined by choosing the files the
pointer names, so the invariant has to say that names are never reused (`Files`), what
the request has already written at every step (`TxnAt`), and how recovered, live and
requested version are related (`CommitAt`): before the commit the first two are equal,
after it the first and the last. `SameRecovered` then shows that writing unnamed files
and pruning (`PruneSafe`) change nothing, `FromPointer` what the switch of the pointer
does, and one lemma per action gives `StepOK`: the invariant is kept, the step is one of
the register, and it replaces only what its author has seen. That readiness is honest
needs in addition that a generation which is kept is the live one (`ExecutorAt`).

**InventoryAndResultsProofs**, first part. `InventoryTypeCorrect`, `NoCheckLostAlways`,
`RepeatAcceptedAlways`, `ExternalIdKeptAlways`, for any number of sources, whatever they
offer (`FeedsAssumption`: sequences of keys) and any configurations. Of the restored
registry it is assumed that it was the registry of an installation, so no entry has two
sources (`RestoredAssumption`). The first thing to know is what the stages of `reconcile()`
leave to each other: `MatchingStages` names them, `StageMeaning` and `StageSets` say
which candidates and rows each has, `FreshMeaning` what a new candidate shares with a row:
nothing that counts. `AssignedOnce`, `AssignedByExternal` and `AssignedApart` follow for
what a refresh assigns: no id twice, the external id first, and no row of another entry
that a candidate could be taken for by its name or by its fingerprint.
`InventoryInv` then has four parts beside the types. That an entry is known to one source
(`OneSource`) and that live entries have rows with their keys (`LiveRows`) give, with
`CompiledInv`, that no two checks have an id in common, hence `NoCheckLost`. `RepeatAccepted`
looks one refresh ahead and is far from inductive: what is needed is what an acceptance
leaves in the registry, and that nothing which happens later to other sources, to the
configuration or by pruning spoils it. This is `Settled`: no other row has the external id
of a candidate, and, if the batch is `Distinguishable`, each candidate without one either
has a name that no other such candidate and no other row has (`Named`), or a fingerprint
that is unique in the same way among those that are not (`Printed`). `AcceptedSettles`
shows that a refresh without conflict leaves the source settled, `SettledWithout` that
fewer rows leave it so, and `Rematch`, again stage by stage (`RematchExternal`,
`RematchName`, `RematchPrint`), that a settled source finds its entries and asks
exactly when it is not `Distinguishable`. `ExternalIdKept` follows at each step: from
`AssignedByExternal` for the source that is refreshed, from `Settled` for all others.

Second part, about `Results`. `TypeCorrect`, `FreshIsOursCorrect`, `MemoryIsCurrentCorrect`.
`FreshIsOurs` speaks of what is shown; a result that is hidden now may be current again
after a refresh, and a failing save stores what its task holds. So `OwnInv` says that all
results that are not marked as loaded, and all that are being saved, were made by this
process. `MemoryIsCurrent` is inductive with the types.

**RuntimeManagerProofs.** `EverythingOwnedCorrect`, `ClosedLeavesNothingCorrect`,
`ManagerRefinement`.
Ownership goes from the start to the registration to the stop; `Handover` says where a
cancellation can be pending, that only a runtime that was handed out is registered or being
stopped, and that a stop that is done has left nothing. Every step but those of `close`
concerns one caller (`OneAtATime`). That `close` leaves nothing needs the lock in addition
(`CloseInv`): a start under way has it, so `close` meets none, and since `_closed` is set
none begins after it.

`ManagerRefinement` connects the manager with the pool. `RuntimeContract` is what
`RuntimePool` takes for granted in `TakeSlot` (a start begins), `StartSucceeds` (only while
the manager is not closing, with a process that runs), `StartFails` (nothing is left),
`Exit`, the stops, and `ManagerClosed`, whose guard says that no user is still starting.
The mapping hides validations, and the child until `start` returns it; a child that an
unsuccessful start left behind would become visible when its caller is idle again, and
break the refinement. `PlaceInv` adds what the guard of `ManagerClosed` rests on:
`close` is the last in the queue of `_start_lock`, since it joins the queue in the step that
sets `_closed` and later calls are refused, so when it has the lock it is alone
(`WithoutKeepsOthers`, `AloneInQueue`); that only starts get as far as a child; and that
nobody but `close` stops a runtime behind the back of its holder.

**RuntimePoolProofs.** `SlotsConservedAlways`, `EveryProcessOwnedAlways`,
`UsesOwnGenerationAlways`, `OnlyDesiredKeptAlways`, `ClosedLeavesNothingAlways`,
`AtMostLimitAlways`. A slot passes from the semaphore to a user to a key and back, and a
process with it. `PoolInv` therefore says at each await of `acquire` whether the user has a
runtime, of which profile, and whether it has the lock of its key (`UserAt`); what is kept
under a key is of that key and generation (`EntryAt`); and what `reconcile` or `close` has
passed already is wanted, although starts go on meanwhile (`OwnerAt`, with `Pending` for
what it has still to visit). The count moves in a handful of ways, each a lemma
(`SlotsSame` and its neighbours). `AtMostLimit` is what the slots are for: each process
belongs to a key or to a user with a slot, no two to the same, so there are never more than
`max_active_runtimes` of them; it combines the invariant with an injection.

**ServiceProofs.** `OneExecutorAlways`, `DataLockCoversWorkAlways`. Neither is inductive:
whether a reload may install an executor depends on who has which lock. `ServiceInv` says
who has the lifecycle lock (`LifecycleInv`) and the mutation lock (`MutationInv`), that a
start, which applies its configuration without the latter, is alone (`StartInv`), how far
an executor is that is being built (`ApplyInv`), that only the installed one runs
(`ExecInv`), what the shutdown has left at each of its steps (`DownInv`), that without the
lock file there is nothing (`OffInv`) and that with it there is somebody to give it back
(`UpInv`). Most steps are of one kind: somebody moves, and those who hold a lock are not
disturbed (`Passes`, `Undisturbed`, and frame lemmas such as `ApplyGoesOn`, `ApplyEnds`,
`RefreshMoves`, `DownMoves`).

**CheckerProofs.** `NothingLeaksAlways`, `VerdictSoundAlways`, `DeferralShrinksAlways`.
`CheckerInv` is the type invariant with where a target can be (`PlaceAt`), that it waits in
a queue once and only where it waits (`QueueInv`), that permits add up (`PermitInv`), that
strays are of earlier checkers (`StrayInv`), and that a cycle under way has returned nothing
(`VerdictInv`). A permit comes back in one way, `Finish`, so one lemma (`FinishSafe`) serves
all ways out of a target but the stop, which gives back those of all who ask at once. For
verdicts the point is that `answered` is exact only while the scheduler runs and the cycle
goes on: a target that outlives its cancelled cycle finds nothing that counts.

Only model-checked: all liveness properties (`ManualWorkResolves`, `UpdateTerminates`,
`TransactionTerminates`, `CallersReturn` of pool, manager and service, `CyclesEnd`), since
liveness under fairness is outside of what the prover does. Every invariant and every
action property of the passing runs is proved, and so are the three refinements.

## 5. Plan

Done: models of scheduler, configuration transaction, runtime pool, source state, runtime
manager, service lifecycle, results, checker, identity and inventory; proofs of the safety
of all of them, and of what the pool assumes of the manager. Next:

1. A composition of `RuntimePool` with `RuntimeContract` in place of its own account of the
   processes, so that a shared runtime number is a caller of the manager.
2. The effective configuration as operators on small profiles.

## 6. Not modelled

Parsers and importers, the rewriting of profiles into effective configurations, model
validation, metrics, the HTTP interface, redaction, logging and the command line's
prompts: functions or views without state to interleave. The network, Xray and the file
system appear as outcomes. Left out of the configuration model: edits of the file by
hand, damage to the journal from outside, loss of unsynced data with the machine, and a
second cancellation of a request. Of the source state: failing reads, damage from
outside, removal of a source from the configuration, and `save_source_generation`, which
the daemon does not call. In the pool, a `stop()` of a process that raises is
left out; the code then leaves the process to the manager's `close`. Of the manager: output
buffers and `ensure_ready`, a probe that changes nothing. Of the service: the status records,
the dispatch of the control protocol, and the command line's waiting for the lock file. Of
the checker: the HTTP exchange. Of identity: storage as JSON and hints for the user.

## 7. Running

    tlc -workers 2 -config PoolSafety.cfg MCRuntimePool
    tlapm SchedulerProofs.tla
    tlapm ConfigTransactionProofs.tla
    tlapm SourceStateProofs.tla
    tlapm InventoryAndResultsProofs.tla
    tlapm RuntimeManagerProofs.tla
    tlapm RuntimePoolProofs.tla
    tlapm ServiceProofs.tla
    tlapm CheckerProofs.tla
