# Verification of gha-mac-broker

gha-mac-broker keeps a fixed set of booted macOS VMs on one Mac and runs queued
GitHub Actions jobs on them. This directory holds TLA+ models of its core, TLC
configurations that check them on small instances, and TLAPS proofs of their
safety properties for instances of any size. Definitions keep the names of the functions they
model; `PROJECT.json` maps each one to its source lines.

## Inventory

| Component | State it keeps | Operations | What makes it hard | What makes it correct |
|---|---|---|---|---|
| Runner pool (`internal/runnerpool`) | job queue, one record per worker (VM, recycle and warming flags, slots), options | Enqueue, CancelRun, Reconfigure, Shutdown, Start with adoption, worker and slot goroutines, reconcile passes | one goroutine per worker, one per slot, a reconciler and HTTP callers share one mutex and drop it around every slow call; context causes decide a running job's fate | a VM has one owner; an idle slot can take a job; a healthy job is never torn down; every queued job is served; a resize settles |
| Binder (`internal/broker`) | cached guest clients, runner names registered at GitHub | Warm, RunJob, ResumeJob, Teardown, Adopt | replies get lost, streams break, the broker restarts under running jobs | a job's result is the guest's result; a job's runner stays registered; a name comes free again |
| Guest agent and registry (`internal/guestagent`, `internal/guestexec`) | execution and slot tables, active count, drain flags, child processes | RunJob, CancelJob, Drain, ReportExit, expiry | overlapping and retried calls, pids that are used again, output that outlives its process | one execution per slot; no slot is prepared under a runner; no orphan; drained means idle |
| Status stream (`registry.stream`, `broker.drainJob`) | event log with a byte cap, subscriber, cursor | append, evict, stream, drain, reconnect, resume | a wakeup that comes between look and wait, drops at any event, resume after a restart | each chunk once and in order, the terminal last, no drain that hangs |
| Golden image and fast pull (`internal/golden`, `internal/fastpull`) | golden, staging, build and verify images on disk, the OCI layout kept between pulls | EnsureGolden, Build, verify, promote, Stage | each tart command may fail, the broker may die between any two, several workers build at once | only a verified image is cloned from; the old one goes only for a proven one |
| Guest boot (`internal/guestsupervisor`, `cmd guest-agent`) | slot-count file, token file | seed, mint, await, serve, adopt | two machines start concurrently, with timeouts on both sides | the token stays valid; the agent serves the slots the broker uses |
| Slot provisioning (`guestagent/runner.go`) | refresh marker, runner directory, TMPDIR, HOME and keychains of each slot | Build | commands fail half way, the agent forgets what it did, slots share Homebrew | a job starts on a whole slot; a build ends |
| Webhook server, hosted load, GitHub client (`internal/server`, `internal/hostedload`, `internal/ghapp`) | set of hosted jobs in progress, runs being cancelled | webhooks, sweeps, cancellations | deliveries are lost, duplicated and reordered; a list changes between its pages | a sweep repairs the set; a cancellation misses no run |
| Configuration reload (`cmd reload.go`, `hoststats.go`) | applied and pending modification time, four live configurations | poll, load, apply | writes at any moment, torn files, secrets that cannot be read | components agree; a valid file comes into force |
| Serve daemon and its service (`cmd serve`, `install`, `deploy`, `update`, `internal/install`, `internal/deploy`) | the process, launchd's job and plist, the binary on disk | start, signals, update scheduler, shutdown; install, uninstall, deploy -execute, update apply | launchd, scheduler, operator and crashes restart one process; bootout does not wait; signals come twice | a reported restart took place; the latest release comes to run, with the file's configuration |
| Tart driver, host statistics, protobuf code | files, or one value | one-shot commands | - | not modelled (below) |

How they interact: a `workflow_job` webhook calls `Pool.Enqueue`; a slot
goroutine takes the job and calls the binder's `RunJob`, which calls the guest
agent's `RunJob` over a channel into the VM and then drains the execution's
status stream until its terminal result. A worker goroutine calls `Warm`, which
ensures the golden image, clones and boots a VM, seeds it and waits for its
agent, and later `Teardown`, which drains the agent and deletes the VM. A
restarted broker deletes stale runner registrations, asks every running VM what it
executes and adopts it. A reload changes the pool's slot count under all of this,
and launchd, the update scheduler or the operator may restart the process.

## Modules

| Module | Models | Abstract specification |
|---|---|---|
| `Pool` | runnerpool, with RunJob/ResumeJob/Teardown/Adopt as its goroutines see them and the guests' executions as environment | `JobQueue` |
| `GuestAgent` | Handler.RunJob, the registry, child processes and their waiters | `GuestSlots` |
| `StatusStream` | event log, stream and drain of one execution | - |
| `Bounds` | the failure and restart counters the parts of a warm-up share | - |
| `Golden` | EnsureGolden and Build as tart commands, fast pull | - |
| `GuestBoot` | Warm after the clone, guest-agent start, token, adoption, homes | - |
| `WarmUp` | composes `Golden` and `GuestBoot`: a worker's VM from image to jobs, runner registrations, health check, restart | - |
| `SlotProvision` | runnerExecutor.Build | - |
| `Webhooks` | webhook handler, tracker, sweep, closed pull requests, with GitHub as environment | - |
| `ConfigReload` | serveDaemon's start, the watcher, applyReloadedConfig, `/capacity`'s image | - |
| `HostService` | extends `ConfigReload`: serveDaemon as a launchd job, update scheduler, operator's commands | - |
| `PoolProofs`, `GuestAgentProofs`, `StatusStreamProofs`, `WarmUpProofs`, `SlotProvisionProofs`, `WebhooksProofs`, `HostServiceProofs` | theorems about the module each extends (`WarmUpProofs` covers `Golden` and `GuestBoot`, `HostServiceProofs` covers `ConfigReload`) | |
| `NaturalOrder` | two lemmas on natural numbers that the stream's and the webhooks' proofs share: a set of numbers has a least one, and a set that holds a number and, with each one below a bound, its successor holds all of them up to that bound | |
| `MC*` | the instances TLC checks | |

Operators whose comment starts with "Mutant" are deliberate faults: each stands
for a plausible bug in the definition that follows it, and the property named
beside it in `PROJECT.json` must fail when it takes that definition's place.
They are used by no specification.

### How state and actions correspond to the code

* **Pool.** An action is one critical section under `Pool.mu`, or one call made
  without it whose result the next critical section consumes. `vm`, `warming`,
  `recycle`, `nslots` and `slot` are the fields of `states[w]`; `wpc`, `wvm` and
  `wcount` are the control point and locals of `workerLoop`; `thread` holds each
  `slotLoop` goroutine with the cause its job context was cancelled with (the
  first cause wins, as in `context.WithCancelCause`). `cands`, `doomed`,
  `claimed` and `idle` are the lists a reconcile pass carries across unlocks.
  `booted`, `draining` and `guest` are the VMs and what runs on them; they
  survive `Restart`. `fate` is a history variable: what became of each delivery.
  Deadlines (pickup_timeout, max_bind, max_idle, max_age) are nondeterministic.
  `Start` and the adoption it contains are one action: nothing else runs then.
* **GuestAgent.** A call, the execution it may register and the process it may
  fork share a name. `lock` is `Handler.slotLock`; `waiter` is the goroutine that
  waits for the child and reports its exit by pid. Pids are a small set that the
  kernel reuses.
* **StatusStream.** Chunks are their sizes, sequence numbers are positions.
  `notified` counts how often the notify channel was closed and replaced; a
  subscriber remembers the count it saw when it looked.
* **Golden.** Image contents are raw, stale, good or bad, each of a base. The
  golden and staging names are shared by all workers; other VM names belong to
  one warm-up. `layout` is the OCI layout fast pull keeps; `stager` says whether
  the process has a fast pull at all: the install command has one, the daemon's
  own warm-ups clone directly.
* **GuestBoot.** `host` is the control point of Warm, `agent` of the guest agent.
* **WarmUp.** Its steps are those of `Golden` until the VM is cloned and those of
  `GuestBoot` after it, on one set of counters. `reg` is GitHub's view of the runner
  names of the VM, `runner` the name each slot's job has minted. Beside the worker
  the pool's other workers, or an install, build and promote the same golden
  (`Rival`): of theirs only the golden, the staging image and the layout are shared.
  `crossed` is a history variable: the warm-ups whose staging image another one has
  changed since they began to check it.
* **HostService.** `proc` is the daemon's control point, whose watcher is
  `ConfigReload` and starts anew with each process; `job` and `plist` are launchd's
  state, `disk` and `runs` the versions of the binary and of the process. `deaf`
  says that the scheduler has called stop(), after which SIGTERM kills. `cli` is
  the control point of one command; the host has been installed once.
* **SlotProvision.** One control point per slot, as builds of one slot follow
  each other under the slot lock (`GuestAgent` shows that they do).
* **Webhooks.** `status` is GitHub's truth, `net` the deliveries on their way;
  both API listings are page by page over the truth of the moment. What a queued
  or a cancelled job's webhook does to the pool is `Pool`'s Enqueue and CancelRun.
* **ConfigReload.** Every write gets a modification time of its own.

## Runs

| Run | Instance | Checks |
|---|---|---|
| `PoolTenants` | 1 worker, 2 VMs, 2 jobs, 2 slots, 1 restart, any health verdict | `TypeOK`, `IdleMeansUsable`, `BindingConsistent`, `NoHealthyJobTornDown`, `DetachOnlyAtShutdown`, refinement of `JobQueue` |
| `PoolPair` | 2 workers, 3 VMs, 1 job, 1 slot, 1 restart, 1 stray VM | `VMOwnership` |
| `PoolLive` | 1 worker, 2 VMs, 1 job, 1 or 2 slots, reloads to "unset" and 2 | `QueueIsServed`, `ResizeSettles`, `WorkerComesBack`, `TeardownEnds` |
| `PoolHungTenants` | 1 worker, 1 VM name, 2 jobs that may never end, 2 slots | finding: `MaxBindFreesSlot` fails |
| `AgentCalls` | 3 calls, an id on two slots, a slot asked for twice, 2 pids that come back as soon as they are waited for | `TablesAgree`, `NoWipeUnderRunner`, `NoOrphans`, `DrainedExact`, `ExitGoesToOwner`, `TerminalAfterOutput`, refinement of `GuestSlots`, `CancelEnds` |
| `StreamLog` | chunks of 1 and 2 under a cap of 3, 4 events, 2 drops, 1 restart | `LogCapExact`, `TerminalIsLast`, `MirrorExact`, `EndCarriesTerminal`, `ExitCodeKept`, `DrainReturns` |
| `WarmUp` | a worker and a rival, 2 bases, jobs_per_vm 1 or 2, no golden or a good one at the start, an install in any worker's place, 2 failures or agent deaths, 1 restart | `OnlyProvenGoesLive`, `TokenAccepted`, `HomesApart`, `RunnerKept`, `ReplacementReady`, `ComesIntoService`, `IdleNameFreed` |
| `GoldenRace` | 2 workers, no failure | finding: `ReplacementAlwaysReady` fails |
| `ProvisionSlots` | 2 slots, both served or one alone, 2 caches, 2 update attempts, 1 failure, 1 agent death | `LaunchesOnWholeSlot`, `SkipMeansRefreshed`, `BuildEnds` |
| `WebhookIntake` | 3 runs of one job, pages of one run, unbounded losses, duplicates, failures and restarts | `QuietSweepExact`, `HeadListingComplete` |
| `HostService` | 2 releases, 2 commands, 2 writes, 2 failures, 2 sizes, torn files | `ComponentsAgree`, `RestartedMeansNew`, `ServiceSettles` |
| `CapacityReload` | 2 writes, 1 failure, 2 images, 2 sizes | finding: `CapacityTellsImage` fails |

### What the runs show

*Pool.* Whatever order cancels, reaps, stalls, failed and lost dispatches,
recycles, shutdown and a restart come in: a slot the snapshot counts as idle has
a goroutine to serve it and a guest that accepts (with the two exceptions its
comment names); a VM is deleted only when all that still runs on it was given up;
a job is detached only by the broker's end; jobs are bound in order of arrival,
each once per start. With jobs that end, the queue is served, resizes settle,
workers come back, and a teardown that a shutdown overtakes still ends with the VM
gone, so that none is left behind drained, unless the process itself ends first
(deletes succeed in that run; `PoolPair` has those that fail).

*Guest agent.* The two peeks and the registration decide about the same slot at
three moments, and a Drain, a completion or an expiry may come between any two;
the tables, the count and the drained signal stay exact and a child whose
registration is refused is killed. A pid may be handed out again as soon as its
process was waited for, before the exit is recorded; nothing in the registry guards
against that, so what is shown is that only the calls that shared a pid in this way
(`reused`) are affected: no other execution takes a foreign exit, ends before its
output, or leaves a child behind.

*Stream.* The forward-only eviction cursor is exact, the notify protocol loses no
wakeup, reconnects neither repeat nor skip, and adoption only of running
executions is what keeps a resume from waiting behind a terminal it has passed.
The broker's verdict is that of the exit code, with one exception that
`ExitCodeKept` states exactly: an execution the guest no longer lists, of which the
broker has not read all events, is taken for a success.

*Warm-up.* Whatever command fails, whenever agent or broker die, and whoever else
builds: an image goes live only if it passed verification and is of the base it
was built for, and the old one goes only when its successor is ready, but for
a promotion whose staging image another build has changed since the check
(`crossed`); `GoldenRace` shows that such a promotion does break the comment's
promise. The token the broker holds is the one the agent accepts (unless the agent
could not read its file and minted another), jobs do not share a home, the
registration of a running job survives a restart (unless its runner had not connected yet), a name that an
idle VM keeps registered comes free, and a VM comes into service.

*Service.* A command that says the service was restarted is right, whichever of
launchd, scheduler and signals were at work; a command that cannot tell reports a
failure; and without such a report the service settles on the latest release and
on the file. Between polls the server, the sampler and the pool's size are those of
one configuration; the pool's image is not (finding 3).

*Provisioning, webhooks.* See the abouts in `PROJECT.json`; the properties'
comments say which code keeps each.

### Bounds

One worker with two slots and two jobs has every pair of goroutines the pool can
race: two tenants, worker, reconciler, callers. A second worker adds only the
ownership of VMs, which `PoolPair` checks with a third VM so that an old name can
survive beside two live ones, and which is proved for any number. One restart
suffices for adoption of each kind of leftover; what follows an adoption is the
same from then on. `WarmUp` has a second worker, since the staging name is shared;
a third would cross a promotion no differently, and the proofs are for any number.
`MCWarmUp` bounds what the two workers' unrelated steps interleave to: the rival
begins a warm-up only before this worker's VM is booted, jobs come only when the
rival rests, one failure falls while both are at it, and a restart brings another
jobs_per_vm or other images, not both at once. Each of its steps is one of `Spec`,
which the theorems are about. Three calls on two slots give a conflict by id, a
conflict by slot and a retry; two pids force reuse. A cap of three against chunks of one and
two evicts none, one or two chunks. The failure budgets let every command fail
and let a failure follow a failure. Two bases and one restart let a golden, a
staging image and the kept layout be of a base that is no longer wanted; two slot
counts let a VM be adopted with more and with fewer slots than it was seeded for.
Two releases and two commands let a command meet an update of the scheduler and
let a second command find what a failed one left. Pages of one run let a run end and another
start between any two pages; completed runs stay in the head listing and leave
the in-progress one, which are the two ways a list can move. VM names, deliveries
and workers are interchangeable (nothing orders them), which makes the symmetry
of the pool's safety runs sound.

### Deadlock

`ProvisionSlots` and `WebhookIntake` check for deadlock. The other systems may
really stop: the pool after a shutdown, an execution and its drain when the job is
over, a warm VM with nothing left to fail, a host whose service was uninstalled.

### Fairness

* `Pool`: weak fairness of each goroutine (Go schedules runnable goroutines; each
  call has a timeout), strong fairness of `ActivateWorker` (a boot retried for
  ever succeeds at last), and of `BindJob` (a waiter that is woken again and again
  gets the mutex). `JobsEnd` says that guest jobs end; `HungSpec` drops it and
  says instead that a binding that lasts is past max_bind in every later pass.
  Losing a reply, stalling and failing to resume are never forced.
* `GuestAgent`: calls, supervisors and readers proceed; a process need not exit
  by itself, so `CancelEnds` rests on the kill. That the output pipes are drained
  at last is assumed only of a cancelled execution, whose whole process group was
  killed.
* `StatusStream`: stream and drain proceed; the job need not.
* `WarmUp`: the worker, not its rivals, proceeds and retries, launchd restarts the agent
  (KeepAlive), the reconcile loop's health check comes round. Failures are
  finitely many; jobs and warm VMs may last for ever.
* `SlotProvision`: every command of a build returns. `brew update` has no timeout of
  its own (runner.go:502), so this is an assumption about Homebrew: `BuildEnds` is
  about the retries, not about a command that hangs.
* `HostService`: the daemon, its watcher's and its scheduler's tickers and a begun
  command proceed, and launchd starts and unloads its job. Crashes, kills, signals
  and the operator are never forced.

## Proofs

Every safety invariant and safety action property of the passing runs, and both
refinements, are theorems: they hold for every value of the constants that the
modules' named assumptions admit. The assumptions give types (`PoolAssumption`,
`AgentAssumption`, `GoldenAssumption`, `BoundsAssumption`, `StreamAssumption`,
`ReloadAssumption`, `HostAssumption`), ask for finitely many calls, slots, runs
and jobs where something is counted, and for sizes that cannot be zero: a slot
count (`PoolAssumption`, `BootAssumption`), the page size (`WebhooksAssumption`),
the update attempts (`ProvisionAssumption`) and a log cap that holds any one chunk
(`StreamAssumption`). TLC evaluates all of them. One theorem needs more:
`NoneTornDown` assumes `FixedCapacity`: the broker lives once, or jobs_per_vm is the
same in all its lives. `Start` adopts only the slots below the configured count, so
after a restart with a smaller one the execution beyond it goes down with its VM (an
observation below). `PoolTenants` is such an instance; reloads within one life are
admitted by the first alternative.

The theorems about pids (`OrphansNever`, `ExitsHold`, `TerminalsHold`) and about the
golden (`ProvenGoesLive`, `ReplacementHolds`) have no such assumption: any pids, any
workers. Where the code itself admits an exception the property names it by a history
variable (`reused`, `crossed`, and likewise `reminted`, `half`, `cut`, `misfit`), and the observations below say when it occurs.

Each module's argument is an inductive invariant, checked by TLC on the run's
instance before it was proved, with one proof step per action.

**`PoolProofs`.** `VMOwnership` is not inductive: whether a worker may hold a VM
depends on where its loop stands. `WorkerControl` adds that: which control points
hold a running VM, where slot goroutines may exist, and that the slot table names
no VM but the one its worker holds or is about to claim. `TypeOK /\ WorkerControl`
gives `TypeCorrect` and `OwnershipHolds`. The rest is built on it in layers.

1. `JobContexts` (`ContextsHold`): a job context without a cause belongs to a busy
   slot that still has its cancel function, on a worker still in service. That is
   why nobody who takes a worker out of service can reach a running job first, and
   why a plain cause means the pool's own context ended: `DetachIsShutdown`.
2. `Bound` says where each delivery is: `QueueControl` (the queue holds the queued
   ones once), `BindingControl` (a goroutine in a job and its slot name the same
   delivery, and no two name one) and `GuestControl` (a delivery runs in one place at most,
   it was dispatched, and a goroutine or slot that holds it is the one of that place). `BindingConsistent` alone
   says nothing of a slot that is free while its guest is busy, nor of a delivery
   between queue and slot. The proof first classifies a slot goroutine's step
   (`SlotKinds`: it binds, resumes, is accepted, returns, moves on or marks the
   worker), then shows each part for each kind; the steps of workers and callers
   leave every delivery in place (`Steady`). `BindingsHold` follows.
3. `PoolImplementsQueue`: `Enqueue` is the queue's arrival, a goroutine that binds
   its `Bind`, one that returns or is let go by a cancel a departure, `Restart` and
   `Start` are `GoDown` and `ComeUp`, all else stutters; `Bound` makes the bound
   delivery the queue's head and the departing one a bound one.
4. `InService` adds what a slot in service looks like: a slot counted as idle has a
   goroutine, what runs on it in the guest is its own job, a lost dispatch, or one
   whose stalled goroutine is about to mark the worker, and before the first restart
   its VM is not draining.
   `IdleHolds` follows.
5. `TearControl` adds that on a VM in service every execution belongs to a slot
   goroutine or was given up, and that on one being taken down only the latter
   remain, goroutines still cancelling included. `NoneTornDown` follows.

**`GuestAgentProofs`.** `AgentInv` joins `TypeOK`, `CallControl` (a call between
peek and answer holds its slot's lock and is in no table), `TablesAgree`,
`DrainedExact` and `NoWipeUnderRunner`. The step for the active count rests on
cardinality facts about adding or removing one running execution. `AgentSafe`
states it; `TablesHold`, `DrainHolds` and `WipeSafe` are its parts, and
`AgentImplementsPromise` shows that each step of the agent is a step of
`GuestSlots` or leaves it unchanged. `ProcessInv` adds the processes:
`ProcessControl` (which waiter, reader and execution go with a child at each
control point), `PidsApart` (two calls outside `reused` whose exits are still to be
recorded have two pids, from which a report finds its owner) and `ReportsApart` (no
exit is reported twice, and none to a stranger but through such a pid).

**`StatusStreamProofs`.** `CapControl`: behind the eviction cursor every chunk is
empty, before it whole, and the count is the sum of what is there. The sum is a
recursive function over the log; that appending or emptying one chunk changes it
by that chunk's size is proved from its defining equation with `NaturalOrder`.
`ExecControl` ties phase, exit and terminal event together, `WireControl` the
events in flight to positions of the log, `MirrorControl` the cursor to the run
log, `ResultControl` the broker's verdict to the exit code.

**`WarmUpProofs`.** `ImageControl` says where good images can be at each control
point of every worker's build, as long as it is not `crossed`; a step of one worker
either leaves the others' images alone (`Bystander`) or crosses them. `GuestControl` ties seed, tokens and homes to those of Warm and
of the agent, and `RunnerControl` the registrations to the running jobs and to
what a restart may have cut off. The steps of the composition are those of
`Golden` and `GuestBoot`, so the invariants compose as well.

**`SlotProvisionProofs`.** `ProvisionControl` says what a build has made whole by
each of its control points, over retries and agent deaths; `MarkerControl` that a
marker of this boot means an update. What `userKeychains` makes of a search list is
proved for the lists that can occur, which `ProvisionTypes` bounds.

**`WebhooksProofs`.** A run's place in a newest-first list is its rank. Starts push
runs to later places, and in the head listing nothing leaves, so a run that was
active at the start has been collected or has a place on a page still to come
(`ClosingControl`); in a quiet sweep the list does not move at all (`SweepControl`).
That a page holds exactly the ranks between its bounds, for any page size, is the
lemma `PageFacts`, on cardinalities.

**`HostServiceProofs`.** `ApplyControl` says which components have had their turn
within an application. `RestartControl` says that nothing counts as said while a
command is under way, that what was said is on disk, and that an unloaded job has
no process: a process that starts later starts from that binary or a later one.

Only model-checked:

* Liveness: `QueueIsServed`, `WorkerComesBack`, `ResizeSettles`, `CancelEnds`,
  `TeardownEnds`, `DrainReturns`, `BuildEnds`, `ComesIntoService`, `IdleNameFreed` and
  `ServiceSettles`. They rest on fairness, whose ENABLED the prover does not handle.
* The findings' violations, which are counterexamples of an instance, and the
  absence of deadlock in `ProvisionSlots` and `WebhookIntake`.

## Findings

1. **A hung co-tenant is never reaped** (`PoolHungTenants`). When one tenant of a
   two-slot VM is cancelled or reaped, the worker is marked for recycling and
   waits for its other slot; `claimSlotReapWarning` skips workers that are marked
   (reap.go:85), so a hung job there holds slot and VM for ever. The comment at
   reap.go:35 calls max_bind "an absolute ceiling".
2. **Concurrent golden builds destroy the golden** (`GoldenRace`). Each worker's
   Warm ensures the golden without a lock and all builds share one staging name
   (build.go:379): one worker's snapshot deletes the image another has verified,
   and that one then deletes the live golden and has nothing to clone, or promotes
   what the other has put there, which nobody has verified. The
   comment at build.go:376 says a failure "leaves the existing golden intact".

3. **`/capacity` answers for an image the pool does not run** (`CapacityReload`).
   A reload replaces the server's configuration, while `Pool.Reconfigure` keeps the
   image the pool was started with (pool.go:211); until the next restart the broker
   offers an image no VM has and turns down the one they have. The comment at
   server.go:379 says "Available only when the requested image resolves to the exact
   image the pool is running".

Further observations made while modelling. The models behave as the code does
here, and the properties name the exception:

* A lost reply to an accepted dispatch frees the slot while the guest runs the
  job: it counts as idle and refuses the next one (bind.go:299, pool.go:422).
* A broker that dies between a VM's drain and its delete adopts a VM that
  refuses every job (bind.go:676).
* A slot past max_bind is reaped without a probe (reap.go:48), while README.md:88
  and docs/runnerpool/overview.md:35 speak of recycling only when work is not
  confirmed.
* After a restart with a smaller jobs_per_vm an execution on a slot beyond it is
  not adopted and goes down with its VM (bind.go:773); with a larger one a
  single-slot guest gets two jobs in one home (bind.go:676, `misfit`).
* A seed that is slower than the agent's wait leaves the agent with its default
  while Hello succeeds (slots.go:96, `misfit`).
* ReportExit looks up a pid that waitpid has released already (registry.go:296,
  registry.go:438). When the pid is in use again by then, the exit is recorded for
  the other execution, or for neither, and one that is still running may count as
  ended (`reused`).
* A job whose execution the guest has forgotten reads as success, whatever its exit
  code was (bind.go:431, bind.go:455; worker.go:86): the comment at bind.go:421
  says so, and nothing tells the two apart afterwards.
* An agent that finds its token file unreadable or empty mints another token, which
  the broker does not have (token.go:55, `reminted`): no call is accepted until
  the broker reads the file anew.
* promote deletes the golden before it clones its successor (build.go:398): if
  the clone fails there is none until the next build. A snapshot that fails
  leaves its build VM behind (build.go:381).
* A slot HOME whose seeding was broken off half way counts as complete from the next
  attempt on (runner.go:319, runner.go:337; `half`).
* A load that fails for a moment marks the modification time as applied
  (reload.go:113, `glitched`); contents written between stat and load are applied
  one poll early and once more later (reload.go:110).
* The hosted-load sweep keeps the pool labels it started with, the webhook handler
  uses the reloaded ones.
* The restart of a service waits 10 s for the job to unload, while the daemon's
  shutdown may take 60 s and launchd's exit timeout is 20 s: `update apply` may
  fail with the service down (`told`), and run again it says "already current"
  without bootstrapping.
* A broken configuration does not disturb a running daemon and is fatal after any
  restart, which `bootstrap` still reports as done.
* The comment in decide.go says a deploy "never recycles a VM unless the base image
  itself changed"; an incompatible guest protocol returns the rebuild too.
* install.go:5 calls the install "safe to re-run"; a secret file that was written
  half counts as there. An uninstall ignores a bootout that failed and leaves a
  loaded job without its plist.
* After the scheduler's stop() a second SIGTERM kills the daemon within its
  shutdown (`deaf`).
* An OCI layout that holds a second base makes each later fast pull fall back to a
  direct clone (`StageBase`).
* A RunJob that fails after it has minted its runner leaves the slot free and its
  name registered: later jobs on the slot fail until an idle health check recycles
  the VM (`IdleNameFreed`).
* deleteStaleRunners comes before adoption and deletes the registration of a
  dispatched job whose runner has not connected yet (`cut`).
* A VM adopted before it was seeded serves its slots from one HOME.
* A Cancel after the exit is recorded does nothing, so a descendant that holds the
  pipes then holds the slot.
* CancelRun looks at slots only: a cancelled job that is still queued is bound
  later. A resume drain starts its run log anew. A descendant that keeps the
  output pipe open delays completion without a bound. Warm's teardown uses the
  warm-up's context, which a shutdown has cancelled.

## Not modelled

First-time scaffolding by install (files and secrets that do not exist yet), the
maintenance timer (a one-shot job booted out and bootstrapped the same way, without
the wait), systemd, `update check` and the status commands; an operator runs one
command at a time, and an `update apply` that fails before it replaces the binary
changes nothing. The tart, skopeo and transport drivers (their effects are actions
of `Golden`, `Pool` and `GuestBoot`), the loopback registry of fast pull, the
provisioning script's steps (their outcome is `Golden`'s `ProvisionGolden`),
fingerprints and digests, JWT and JSON, HTTP authentication, status pages, metrics
and logs, the host statistics sampler (one value under a mutex), BindOnce,
SweepOrphans and DeleteGolden (no caller in the daemon), git credentials, generated
code. Time is never measured. The API sweep covers one repository, and a list that shrinks
between two of its pages can hide a run from one sweep: `QuietSweepExact` is
about sweeps that nothing overlaps.

## Plan

Built, in this order: pool with its queue; guest agent with its promise; stream;
golden; boot; provisioning; webhooks; reload; proofs of the pool's and the
agent's core invariants; the warm-up as the composition of golden, boot and runner
registrations; the service with launchd, updates and the operator's commands.

Then the proofs of every safety property of the other runs, and of the pool's
bindings, idle slots, teardowns and refinement.

Next:

1. Pool: an instance with two deliveries of one job id; `Pool` with `GuestSlots`
   in the place of its own guest.
2. Convergence of the hosted-load tracker under fair sweeps.
3. `NoneTornDown` with `FixedCapacity` weakened to restarts that do not lower
   jobs_per_vm.
